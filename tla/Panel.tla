------------------------------- MODULE Panel -------------------------------
(***************************************************************************)
(* The ST7796S panel as St7796sDisplay (display/st7796s.cpp) commands it:  *)
(* initialize(), command() and set_window(), and of the panel's own state  *)
(* what decides where the pixels sent to it appear. A command is its code  *)
(* and its parameter bytes.                                                *)
(***************************************************************************)
EXTENDS Integers, Sequences

MadctlLandscape == \h28
PixelFormatRgb565 == \h55

command(value, parameters) == [value |-> value, parameters |-> parameters]

SoftwareReset == command(\h01, <<>>)
SleepOut == command(\h11, <<>>)
DisplayOn == command(\h29, <<>>)
MemoryWrite == command(\h2C, <<>>)

-----------------------------------------------------------------------------
(* The panel *)

\* A panel that has only got power: its memory holds anything.
Powered(pixels) ==
  [pixels |-> pixels, receiving |-> FALSE, received |-> 0, awake |-> FALSE, on |-> FALSE,
   madctl |-> 0, pixel_format |-> \h66, columns |-> <<0, 319>>, rows |-> <<0, 479>>]

\* A reset leaves the memory.
Reset(panel) == Powered(panel.pixels)

Ends(parameters) ==
  <<256 * parameters[1] + parameters[2], 256 * parameters[3] + parameters[4]>>

Is(order, code) == order.value = code

\* What a command sets is what it says; the others leave it.
Set(order, code, value, before) == IF Is(order, code) THEN value ELSE before

\* A command ends the pixels of the one before; memory write starts at the window's corner.
Followed(panel, order) ==
  [pixels |-> panel.pixels,
   receiving |-> Is(order, \h2C), received |-> Set(order, \h2C, 0, panel.received),
   awake |-> Set(order, \h11, TRUE, panel.awake), on |-> Set(order, \h29, TRUE, panel.on),
   madctl |-> Set(order, \h36, order.parameters[1], panel.madctl),
   pixel_format |-> Set(order, \h3A, order.parameters[1], panel.pixel_format),
   columns |-> Set(order, \h2A, Ends(order.parameters), panel.columns),
   rows |-> Set(order, \h2B, Ends(order.parameters), panel.rows)]

\* The panel obeys a command.
panel ++ order == IF Is(order, \h01) THEN Reset(panel) ELSE Followed(panel, order)

Width(panel) == panel.columns[2] - panel.columns[1] + 1

\* Where in the pixels since memory write the one at (x, y) is.
OrderOf(panel, pixel) ==
  (pixel.y - panel.rows[1]) * Width(panel) + pixel.x - panel.columns[1]

Addressed(panel, pixel) ==
  /\ pixel.x \in panel.columns[1] .. panel.columns[2]
  /\ pixel.y \in panel.rows[1] .. panel.rows[2]

\* What the panel shows after it received count more pixels, Sent(n) the n-th of them.
Receiving(panel, count, Sent(_)) ==
  IF ~panel.receiving THEN panel
  ELSE [panel EXCEPT
         !.pixels = [p \in DOMAIN @ |->
                       IF Addressed(panel, p)
                          /\ OrderOf(panel, p) \in panel.received .. panel.received + count - 1
                       THEN Sent(OrderOf(panel, p) - panel.received) ELSE @[p]],
         !.received = @ + count]

\* It shows its memory when it is on and reads the bytes the way they are sent.
Readable(panel) ==
  /\ panel.awake /\ panel.on
  /\ panel.madctl = MadctlLandscape /\ panel.pixel_format = PixelFormatRgb565

-----------------------------------------------------------------------------
(* What the driver sends *)

\* initialize(); only some of the commands matter here.
Initialized(panel) ==
  Reset(panel) ++ SoftwareReset
    ++ command(\hF0, <<\hC3>>) ++ command(\hF0, <<\h96>>) ++ command(\hC5, <<\h1C>>)
    ++ command(\h36, <<MadctlLandscape>>) ++ command(\h3A, <<PixelFormatRgb565>>)
    ++ command(\hB0, <<\h80>>) ++ command(\hB4, <<\h00>>) ++ command(\hB6, <<\h80, \h02, \h3B>>)
    ++ command(\hB7, <<\hC6>>) ++ command(\hF0, <<\h69>>) ++ command(\hF0, <<\h3C>>)
    ++ SleepOut ++ command(\h13, <<>>) ++ command(\h20, <<>>) ++ DisplayOn

\* The first and the last column or row, high byte first.
EndBytes(first, last) == <<first \div 256, first % 256, last \div 256, last % 256>>

set_window_Past(panel, rect) ==
  panel ++ command(\h2A, EndBytes(rect.x, rect.x + rect.width))
        ++ command(\h2B, EndBytes(rect.y, rect.y + rect.height))

set_window(panel, rect) ==
  panel ++ command(\h2A, EndBytes(rect.x, rect.x + rect.width - 1))
        ++ command(\h2B, EndBytes(rect.y, rect.y + rect.height - 1))
=============================================================================
