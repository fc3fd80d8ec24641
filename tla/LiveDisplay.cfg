SPECIFICATION Spec
CONSTANTS
  Runtimes <- MCRuntimes
  Masks = {{}, {0}}
  Views <- MCViews
  Pixels <- MCPixels
  TilePixels = 2048
  RowsPerService = 120
  Nil = Nil
INVARIANTS
  FrameIsFresh
  PanelShowsFrame
PROPERTY
  ViewIsShown
