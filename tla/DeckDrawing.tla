---------------------------- MODULE DeckDrawing ----------------------------
(***************************************************************************)
(* What LiveRenderer::draw_tile (display/live_renderer.cpp) draws: the     *)
(* header, the four switch tiles and the footer of the live screen as      *)
(* layers of shapes, in the coordinates of their region. A pixel has the   *)
(* ink of the last shape that covers it; the ink of a text is its color    *)
(* and the character whose cell the pixel is in, for the font's own dots.  *)
(***************************************************************************)
EXTENDS Integers, Sequences, DeckFonts

ScreenWidth == 480
ScreenHeight == 320
HeaderHeight == 42
FooterHeight == 44
FooterY == ScreenHeight - FooterHeight
DeckInset == 8
DeckGap == 8
DeckTop == HeaderHeight + DeckGap
QuadrantWidth == 228
QuadrantHeight == 105

\* The regions: the tiles of the switches A to D, the header and the footer.
Quadrants == 0 .. 3
HeaderRegion == 4
FooterRegion == 5
Regions == Quadrants \cup {HeaderRegion, FooterRegion}

Rect(region) ==
  CASE region = HeaderRegion -> [x |-> 0, y |-> 0, width |-> ScreenWidth, height |-> HeaderHeight]
    [] region = FooterRegion -> [x |-> 0, y |-> FooterY, width |-> ScreenWidth, height |-> FooterHeight]
    [] OTHER -> [x |-> DeckInset + (region % 2) * (QuadrantWidth + DeckGap),
                 y |-> DeckTop + (region \div 2) * (QuadrantHeight + DeckGap),
                 width |-> QuadrantWidth, height |-> QuadrantHeight]

Within(pixel, rect) ==
  /\ pixel.x \in rect.x .. rect.x + rect.width - 1
  /\ pixel.y \in rect.y .. rect.y + rect.height - 1

-----------------------------------------------------------------------------
(* Words on the screen, as ASCII *)

BANK == <<66, 65, 78, 75>>
FACTORY == <<70, 65, 67, 84, 79, 82, 89>>
EMPTY == <<69, 77, 80, 84, 89>>
NONE == <<78, 79, 78, 69>>
CONFIG == <<67, 79, 78, 70, 73, 71, 33>>
QUEUE == <<81, 85, 69, 85, 69, 33>>
WATCHDOG == <<87, 65, 84, 67, 72, 68, 79, 71, 33>>
USB == <<85, 83, 66>>
NO_USB == USB \o <<45>>
EXP == <<69, 88, 80, 32, 47, 32>>
UNAVAILABLE == <<45, 45>>
PRESSED == <<80, 82, 69, 83, 83, 69, 68, 32, 47, 32, 80>>
POSITION == <<80, 79, 83, 73, 84, 73, 79, 78, 32>>
ON == <<32, 47, 32, 79, 78>>

Digit(n) == 48 + n
decimal_text(value, pad_two) ==
  IF value >= 100 THEN <<Digit(value \div 100), Digit((value \div 10) % 10), Digit(value % 10)>>
  ELSE IF value >= 10 \/ pad_two THEN <<Digit(value \div 10), Digit(value % 10)>>
  ELSE <<Digit(value)>>

page_text(page) == <<80, 32, Digit(page), 32, 47, 32, 52>>
bounded_text(text, fallback) == IF text = <<>> THEN fallback ELSE text

position_text(pressed, active) ==
  IF pressed THEN PRESSED \o <<Digit(IF active THEN 2 ELSE 1)>>
  ELSE POSITION \o (IF active THEN <<Digit(2)>> \o ON ELSE <<Digit(1)>>)

-----------------------------------------------------------------------------
(* Colors *)

ColorBackground == \h0082
ColorPanel == \h08C3
ColorTile == \h1105
ColorForeground == \hF7DF
ColorMuted == \h6C11
ColorAccent == \h2F3A
ColorSuccess == \h4FB4
ColorError == \hF2EB
ColorWarning == \hFE48
ColorMeterTrack == \h21C7

\* By squared channels.
Luminance(color) ==
  LET red == (((color \div 2048) % 32) * 255) \div 31
      green == (((color \div 32) % 64) * 255) \div 63
      blue == ((color % 32) * 255) \div 31
  IN  2126 * red * red + 7152 * green * green + 722 * blue * blue

\* The endpoint of higher contrast.
contrast_text(color) ==
  IF Luminance(color) > 65025 * 1790 THEN ColorBackground ELSE ColorForeground

-----------------------------------------------------------------------------
(* Shapes *)

Fill(x, y, width, height, ink) ==
  [kind |-> "fill", x |-> x, y |-> y, width |-> width, height |-> height, ink |-> ink]
Tile(width, radius, ink) ==
  [kind |-> "rounded", width |-> width, radius |-> radius, ink |-> ink]
Circle(x, y, radius, ink) == [kind |-> "circle", x |-> x, y |-> y, radius |-> radius, ink |-> ink]
Text(x, y, text, role, ink) ==
  [kind |-> "text", x |-> x, y |-> y, text |-> text, role |-> role, ink |-> ink]
TextRight(right, y, text, role, ink) ==
  Text(right - text_width(text, role), y, text, role, ink)

\* The rows that the glyphs of a font may reach, below the y of its text.
TextRows(role) ==
  CASE role = "Switch" -> 10 .. 57 [] role = "Title" -> 7 .. 43
    [] role = "CompactTitle" -> 5 .. 32 [] role = "Bank" -> 4 .. 28
    [] role = "Footer" -> 3 .. 19 [] OTHER -> 3 .. 15

inside_rounded_rect(x, y, width, height, radius) ==
  LET dx == x - (IF x < radius THEN radius - 1 ELSE width - radius)
      dy == y - (IF y < radius THEN radius - 1 ELSE height - radius)
  IN  /\ x \in 0 .. width - 1 /\ y \in 0 .. height - 1
      /\ \/ x \in radius .. width - radius - 1
         \/ y \in radius .. height - radius - 1
         \/ dx * dx + dy * dy <= radius * radius

\* The character whose cell holds column x of a text, 0 outside of it; a character that
\* would start beyond the canvas is not drawn.
CharacterAt(shape, x, canvas) ==
  LET at == Cursor(shape.text, shape.role)
      hit == {i \in 1 .. Len(shape.text) :
                x - shape.x \in at[i] .. at[i + 1] - 1 /\ shape.x + at[i] < canvas.width}
  IN  IF hit = {} THEN 0 ELSE shape.text[CHOOSE i \in hit : TRUE]

Covers(shape, x, y, canvas) ==
  CASE shape.kind = "fill" ->
         x \in shape.x .. shape.x + shape.width - 1 /\ y \in shape.y .. shape.y + shape.height - 1
    [] shape.kind = "rounded" ->
         /\ x < shape.width
         /\ inside_rounded_rect(x, y, canvas.width, canvas.totalHeight, shape.radius)
    [] shape.kind = "circle" ->
         (x - shape.x) * (x - shape.x) + (y - shape.y) * (y - shape.y) <= shape.radius * shape.radius
    [] shape.kind = "text" ->
         /\ y - shape.y \in TextRows(shape.role)
         /\ CharacterAt(shape, x, canvas) # 0

Ink(shape, x, canvas) ==
  IF shape.kind = "text" THEN <<shape.ink, CharacterAt(shape, x, canvas)>> ELSE <<shape.ink>>
-----------------------------------------------------------------------------
(* The regions *)

StatusX == 355
HeaderName(view) == Text(16, 12, bounded_text(view.bankName, FACTORY), "Bank", ColorForeground)

HeaderStatus(view) ==
  IF view.configurationError THEN <<TextRight(463, 10, CONFIG, "Label", ColorError)>>
  ELSE IF view.queueOverflow THEN <<TextRight(463, 10, QUEUE, "Label", ColorWarning)>>
  ELSE IF view.watchdogReset THEN <<TextRight(463, 10, WATCHDOG, "Label", ColorWarning)>>
  ELSE <<Text(StatusX, 10, page_text(view.page), "Label", ColorMuted),
         Text(417, 10, IF view.usbConnected THEN USB ELSE NO_USB, "Label",
              IF view.usbConnected THEN ColorForeground ELSE ColorMuted),
         Circle(461, 21, 5, IF view.usbConnected THEN ColorSuccess ELSE ColorMuted)>>

Header(view) ==
  <<Fill(0, 0, ScreenWidth, HeaderHeight, ColorPanel),
    Text(16, 1, BANK, "Label", ColorMuted),
    Text(55, 1, decimal_text(view.bank, TRUE), "Label", ColorMuted),
    HeaderName(view)>> \o HeaderStatus(view)

TitleX == 68
TitleWidth == QuadrantWidth - 78

Quadrant(view, q) ==
  LET selected == view.selectedPositions[q]
      accent == IF selected.accentRgb565 = 0 THEN ColorAccent ELSE selected.accentRgb565
      active == view.positions[q] = 2
      pressed == q \in view.pressedMask
      filled == active \/ pressed
      foreground == IF filled THEN contrast_text(accent) ELSE ColorForeground
      label == bounded_text(selected.label, EMPTY)
  IN  <<Tile(QuadrantWidth, 10, IF filled THEN accent ELSE ColorTile)>>
      \o (IF filled THEN <<>> ELSE <<Tile(6, 10, accent)>>)
      \o <<Text(18, -5, <<65 + q>>, "Switch", IF filled THEN foreground ELSE accent),
           Text(TitleX, 15, label, title_font(label, TitleWidth), foreground),
           Text(TitleX, 60, position_text(pressed, active), "Label",
                IF filled THEN foreground ELSE ColorMuted),
           Fill(TitleX, 84, IF filled THEN 128 ELSE 88, 3, IF filled THEN foreground ELSE accent)>>

MeterX == 175
MeterWidth == 237
ExpressionValue(view) ==
  IF view.expressionAvailable
  THEN TextRight(463, 4, decimal_text(view.expressionValue, FALSE), "CompactTitle", ColorAccent)
  ELSE TextRight(463, 4, UNAVAILABLE, "CompactTitle", ColorMuted)

Footer(view) ==
  <<Fill(0, 0, ScreenWidth, FooterHeight, ColorPanel),
    Text(16, 10, EXP, "Label", ColorForeground),
    Text(16 + text_width(EXP, "Label"), 10, bounded_text(view.expressionLabel, NONE), "Label",
         IF view.expressionAvailable THEN ColorForeground ELSE ColorMuted),
    Fill(MeterX, 17, MeterWidth, 6, ColorMeterTrack)>>
  \o (IF view.expressionAvailable
      THEN <<Fill(MeterX, 17, (view.expressionValue * MeterWidth) \div 127, 6, ColorAccent)>>
      ELSE <<>>)
  \o <<ExpressionValue(view)>>

Layers(region, view) ==
  CASE region = HeaderRegion -> Header(view)
    [] region = FooterRegion -> Footer(view)
    [] OTHER             -> Quadrant(view, region)
=============================================================================
