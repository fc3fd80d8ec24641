---------------------------- MODULE LiveDisplay ----------------------------
(***************************************************************************)
(* The live screen, from the state that PedalRuntime::render turns into a  *)
(* view at the end of a tick (app/pedal_runtime.cpp), over the parts that  *)
(* LiveRenderer redraws (display/live_renderer.cpp), to the frame that     *)
(* St7796sDisplay sends to the panel by DMA, a few rows per pass of the    *)
(* main loop (display/st7796s.cpp).                                        *)
(*                                                                         *)
(* Drawing treats every pixel on its own, so the model follows any chosen  *)
(* set of pixels of the screen instead of all 153600.                      *)
(***************************************************************************)
EXTENDS LiveView, Panel, FiniteSetsExt, TLC

CONSTANTS
  Runtimes,        \* states of the live engine, as far as render() reads them
  Masks,           \* the switches that may be down together
  Views,           \* the views that render() makes of them
  Pixels,          \* the pixels followed: [x, y]
  TilePixels,      \* 2048, the capacity of the renderer's buffers
  RowsPerService,  \* 4
  Nil              \* no view, no state

ASSUME DisplayAssumption ==
  /\ Masks \subseteq SUBSET Quadrants /\ {} \in Masks
  /\ Views = {RenderedView(state, mask) : state \in Runtimes, mask \in Masks}
  /\ Pixels \subseteq [x : 0 .. ScreenWidth - 1, y : 0 .. ScreenHeight - 1]
  /\ \E p \in Pixels, region \in Regions : Within(p, Rect(region))
  /\ TilePixels \in Nat \ {0} /\ RowsPerService \in Nat \ {0}
  /\ Nil \notin Views \cup Runtimes

VARIABLES
  runtime,          \* the live engine as the last tick left it, Nil until it starts
  pressed_mask,     \* pressed_mask_
  last_view,        \* PedalRuntime::last_view_, Nil when have_view_ is false
  previous,         \* LiveRenderer::previous_, Nil when has_previous_ is false
  frame,            \* frame_bytes
  dirty_pending,    \* dirty_pending_
  transfer_active,  \* transfer_active_, and chip select low
  transfer_row,     \* transfer_row_
  chunk_pending,    \* chunk_pending_
  chunk_rows,       \* chunk_rows_
  transfer_bytes,   \* transfer_bytes_: the pixels of the chunk
  busy,             \* the DMA channel or the SPI port is busy
  panel             \* the panel: its memory and its registers

view_vars == <<runtime, pressed_mask, last_view, previous, frame>>
transfer_vars == <<transfer_active, transfer_row, chunk_pending, chunk_rows, transfer_bytes, busy>>
vars == <<view_vars, dirty_pending, transfer_vars, panel>>

-----------------------------------------------------------------------------
(* Drawing a region, whole or in bands that fit the buffers *)

\* put_pixel and fill_rect leave alone what is not in the band.
OnCanvas(x, y, canvas) ==
  /\ x \in 0 .. canvas.width - 1
  /\ y \in canvas.yOffset .. canvas.yOffset + canvas.rows - 1
  /\ y < canvas.totalHeight

Canvas(rect, first, rows) ==
  [width |-> rect.width, totalHeight |-> rect.height, yOffset |-> first, rows |-> rows]

\* draw_tile, at one pixel: the last of the layers that cover it.
Top(layers, x, y, canvas) ==
  LET covering == {i \in DOMAIN layers : OnCanvas(x, y, canvas) /\ Covers(layers[i], x, y, canvas)}
  IN  IF covering = {} THEN <<ColorBackground>> ELSE Ink(layers[Max(covering)], x, canvas)

InkAt(region, view, pixel, first, rows) ==
  Top(Layers(region, view), pixel.x - Rect(region).x, pixel.y - Rect(region).y,
      Canvas(Rect(region), first, rows))

TransferRows(rect) == Max({1, TilePixels \div rect.width})
Bands(rect) == {first \in 0 .. rect.height - 1 : first % TransferRows(rect) = 0}
BandRows(rect, first) == Min({TransferRows(rect), rect.height - first})

BandPixels(rect, first) ==
  {p \in Pixels : Within(p, rect) /\ p.y - rect.y \in first .. first + BandRows(rect, first) - 1}

Box_Corner(changed) ==
  [x |-> Min({p.x : p \in changed}), y |-> Min({p.y : p \in changed}),
   width |-> Max({p.x : p \in changed}) - Min({p.x : p \in changed}),
   height |-> Max({p.y : p \in changed}) - Min({p.y : p \in changed})]

\* The smallest rectangle around the pixels of a band that differ.
Box(changed) ==
  [x |-> Min({p.x : p \in changed}), y |-> Min({p.y : p \in changed}),
   width |-> Max({p.x : p \in changed}) - Min({p.x : p \in changed}) + 1,
   height |-> Max({p.y : p \in changed}) - Min({p.y : p \in changed}) + 1]

\* St7796sDisplay::write takes a rectangle only if all of it is on the screen.
OnScreen(rect) ==
  /\ rect.width # 0 /\ rect.height # 0
  /\ rect.x + rect.width <= ScreenWidth /\ rect.y + rect.height <= ScreenHeight

\* A band as draw_tile draws it into a buffer.
BandImage(region, view, first) ==
  [p \in BandPixels(Rect(region), first) |->
     InkAt(region, view, p, first, BandRows(Rect(region), first))]

Part(image, rect) ==
  [p \in {q \in DOMAIN image : Within(q, rect) /\ OnScreen(rect)} |-> image[p]]

ChangedPart(before, after) ==
  LET changed == {p \in DOMAIN after : after[p] # before[p]}
  IN  IF changed = {} THEN <<>> ELSE Part(after, Box(changed))

\* What render_rect writes of a band: all of it the first time, then the box around what the
\* band draws differently from the previous view.
BandWrites(region, old, new, first) ==
  IF old = Nil
  THEN Part(BandImage(region, new, first),
            [x |-> Rect(region).x, y |-> Rect(region).y + first, width |-> Rect(region).width,
             height |-> BandRows(Rect(region), first)])
  ELSE ChangedPart(BandImage(region, old, first), BandImage(region, new, first))

-----------------------------------------------------------------------------
(* Which regions a view changes *)

HeaderFields(view) ==
  <<view.bank, view.page, view.bankName, view.usbConnected, view.configurationError,
    view.queueOverflow, view.watchdogReset>>
QuadrantFields(view, q) ==
  <<q \in view.pressedMask, view.positions[q], view.selectedPositions[q]>>
FooterFields(view) == <<view.expressionAvailable, view.expressionValue, view.expressionLabel>>

Redrawn(old, new) ==
  IF old = Nil THEN Regions
  ELSE {q \in Quadrants : QuadrantFields(old, q) # QuadrantFields(new, q)}
         \cup {r \in {HeaderRegion} : HeaderFields(old) # HeaderFields(new)}
         \cup {r \in {FooterRegion} : FooterFields(old) # FooterFields(new)}

RectWrites(region, old, new) ==
  {BandWrites(region, old, new, first) : first \in Bands(Rect(region))}

\* What render() writes: the pixels and their ink. No two writes share a pixel.
ViewWrites(old, new) ==
  LET writes == UNION {RectWrites(region, old, new) : region \in Redrawn(old, new)}
  IN  [p \in UNION {DOMAIN w : w \in writes} |-> (CHOOSE w \in writes : p \in DOMAIN w)[p]]

\* What every pair of views writes, as a table that TLC computes once.
Writes ==
  [old \in Views \cup {Nil} |-> [new \in Views |-> ViewWrites(old, new)]]

-----------------------------------------------------------------------------
(* Actions *)

Black == <<0>>

\* LiveRenderer::render, onto the frame, which mark_dirty notes. The dirty rectangle is always
\* the whole screen.
Render(view) ==
  /\ \E writes \in {Writes[previous][view]} :
       /\ frame' = [p \in Pixels |-> IF p \in DOMAIN writes THEN writes[p] ELSE frame[p]]
       /\ dirty_pending' = (dirty_pending \/ DOMAIN writes # {})
  /\ previous' = view

\* All the fields that the regions show.
same_ascii(left, right) == left = right
same_position_view(left, right) ==
  same_ascii(left.label, right.label) /\ left.accentRgb565 = right.accentRgb565

same_view(left, right) ==
  /\ HeaderFields(left) = HeaderFields(right) /\ FooterFields(left) = FooterFields(right)
  /\ left.positions = right.positions /\ left.pressedMask = right.pressedMask
  /\ \A q \in Quadrants :
       same_position_view(left.selectedPositions[q], right.selectedPositions[q])

\* The end of a tick. A view that is the same as the last one is not presented.
Present(view) ==
  /\ IF last_view # Nil /\ same_view(last_view, view)
     THEN UNCHANGED <<previous, frame, dirty_pending>> ELSE Render(view)
  /\ last_view' = view

\* The pedal starts: initialize() renders once before the first tick.
Initialize(state) ==
  /\ runtime = Nil
  /\ runtime' = state
  /\ \E view \in {RenderedView(state, pressed_mask)} : Present(view)
  /\ UNCHANGED <<pressed_mask, transfer_vars, panel>>

\* A tick: what it does to the engine is for module PedalRuntime; a switch stays marked as
\* pressed for some time after its release.
Tick(state, mask) ==
  /\ runtime # Nil
  /\ runtime' = state
  /\ pressed_mask' \in IF mask # {} THEN {mask} ELSE {pressed_mask, {}}
  /\ \E view \in {RenderedView(state, pressed_mask')} : Present(view)
  /\ UNCHANGED <<transfer_vars, panel>>

RowsOf(first, rows) == {p \in Pixels : p.y \in first .. first + rows - 1}

\* The rest of service(): copy the next rows and hand them to the DMA channel.
SendChunk(row) ==
  LET rows == Min({RowsPerService, ScreenHeight - row})
  IN  /\ transfer_active' = TRUE
      /\ transfer_row' = row
      /\ chunk_rows' = rows
      /\ transfer_bytes' = [p \in RowsOf(row, rows) |-> frame[p]]
      /\ busy' = TRUE
      /\ chunk_pending' = TRUE

Idle(row) ==
  /\ chunk_pending' = FALSE
  /\ transfer_active' = FALSE
  /\ transfer_row' = row
  /\ UNCHANGED <<chunk_rows, transfer_bytes, busy>>

\* A transfer is done: begin_transfer waits for the next call.
EndTransfer_ClearsDirty ==
  /\ chunk_pending /\ transfer_row + chunk_rows = ScreenHeight
  /\ Idle(ScreenHeight)
  /\ dirty_pending' = FALSE
  /\ UNCHANGED panel

EndTransfer ==
  /\ chunk_pending /\ transfer_row + chunk_rows = ScreenHeight
  /\ Idle(ScreenHeight)
  /\ UNCHANGED <<dirty_pending, panel>>

ContinueTransfer ==
  /\ chunk_pending /\ transfer_row + chunk_rows # ScreenHeight
  /\ SendChunk(transfer_row + chunk_rows)
  /\ UNCHANGED <<dirty_pending, panel>>

\* A transfer always sends the whole screen.
FullScreen == [x |-> 0, y |-> 0, width |-> ScreenWidth, height |-> ScreenHeight]

BeginTransfer ==
  /\ ~chunk_pending /\ dirty_pending
  /\ SendChunk(0)
  /\ dirty_pending' = FALSE
  /\ panel' = set_window(panel, FullScreen) ++ MemoryWrite

\* It returns at once while the last chunk is on the wire, or with nothing to send.
Service ==
  /\ ~(chunk_pending /\ busy)
  /\ EndTransfer \/ ContinueTransfer \/ BeginTransfer
  /\ UNCHANGED view_vars

\* The n-th pixel of the chunk, if it is one of those followed.
SentPixel(n) ==
  LET pixel == [x |-> n % ScreenWidth, y |-> transfer_row + n \div ScreenWidth]
  IN  IF pixel \in DOMAIN transfer_bytes THEN transfer_bytes[pixel] ELSE <<>>

\* The DMA channel and the SPI port have sent the chunk.
FinishDma ==
  /\ busy
  /\ busy' = FALSE
  /\ panel' = Receiving(panel, chunk_rows * ScreenWidth, SentPixel)
  /\ UNCHANGED <<view_vars, dirty_pending, transfer_active, transfer_row, chunk_pending, chunk_rows,
                 transfer_bytes>>

Booted ==
  /\ runtime' = Nil /\ pressed_mask' = {}
  /\ last_view' = Nil /\ previous' = Nil
  /\ frame' = [p \in Pixels |-> Black]
  /\ dirty_pending' = FALSE
  /\ transfer_active' = FALSE /\ transfer_row' = 0
  /\ chunk_pending' = FALSE /\ chunk_rows' = 0 /\ transfer_bytes' = <<>>
  /\ busy' = FALSE

\* A reset of the pedal may come at any time; the display is initialized before anything is
\* rendered.
Restart ==
  /\ Booted
  /\ panel' = Initialized(panel)

Init ==
  /\ runtime = Nil /\ pressed_mask = {}
  /\ last_view = Nil /\ previous = Nil
  /\ frame = [p \in Pixels |-> Black]
  /\ dirty_pending = FALSE
  /\ transfer_active = FALSE /\ transfer_row = 0
  /\ chunk_pending = FALSE /\ chunk_rows = 0 /\ transfer_bytes = <<>>
  /\ busy = FALSE
  /\ panel = Initialized(Powered([p \in Pixels |-> <<>>]))

Next ==
  \/ \E state \in Runtimes : Initialize(state)
  \/ \E state \in Runtimes, mask \in Masks : Tick(state, mask)
  \/ Service
  \/ FinishDma
  \/ Restart

\* The main loop calls service() in every pass, and DMA ends.
Spec == Init /\ [][Next]_vars /\ WF_vars(Service) /\ WF_vars(FinishDma)
-----------------------------------------------------------------------------
(* Properties *)

Shows(screen) == Readable(panel) /\ panel.pixels = screen

\* The screen that a view would give if it were drawn at once, on a blank frame.
Screen(view) ==
  [p \in Pixels |->
     LET here == {region \in Regions : Within(p, Rect(region))}
         region == CHOOSE r \in here : TRUE
     IN  IF here = {} THEN Black ELSE InkAt(region, view, p, 0, Rect(region).height)]

Screens == [view \in Views |-> Screen(view)]

\* The frame is that of the view presented last, in every pixel: redrawing only the regions
\* that changed, band by band, and in a band only the box around what differs, gives what
\* drawing the view at once would.
FrameIsFresh == last_view # Nil => frame = Screens[last_view]

\* When nothing is left to send, the panel shows the frame, also if the frame was changed while
\* it was being sent or the pedal was reset in the middle of a transfer.
PanelShowsFrame ==
  previous # Nil /\ ~dirty_pending /\ ~transfer_active => Shows(frame)

\* A state of the engine that stays is shown in the end, and stays on the panel, with no switch
\* marked as pressed if none is.
ViewIsShown ==
  \A state \in Runtimes, mask \in Masks :
    <>[](runtime = state /\ pressed_mask = mask) => <>[]Shows(Screens[RenderedView(state, mask)])
=============================================================================
