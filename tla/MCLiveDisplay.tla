--------------------------- MODULE MCLiveDisplay ---------------------------
(***************************************************************************)
(* States of the engine that differ from a first one in a few things each, *)
(* and a pixel or two in every shape that such a difference draws, at the  *)
(* seams of the bands a region is drawn in and in the gap between two      *)
(* tiles. A transfer takes three chunks, the last of them short.           *)
(***************************************************************************)
EXTENDS LiveDisplay

Plain == [label |-> <<>>, accentRgb565 |-> 0]
Named == [label |-> <<68, 114, 105, 118, 101, 32, 43, 32, 68, 101, 108, 97>>,
          accentRgb565 |-> \hFFE0]

Page(first) == [q \in Quadrants |-> [id |-> first + q, position1 |-> Plain,
                                     position2 |-> IF q = 3 THEN Named ELSE Plain]]
Live == [name |-> <<76, 105, 118, 101>>, pages |-> (0 :> Page(1) @@ 1 :> Page(2049)),
         expression |-> <<>>]

Base ==
  [bank_index |-> 0, page_index |-> 0, bank_loaded |-> TRUE, bank |-> Live, second |-> {},
   expression |-> [available |-> TRUE, value |-> 40], mounted |-> FALSE,
   configuration_error |-> FALSE, queue_overflow |-> FALSE, watchdog_reset |-> FALSE]

MCRuntimes ==
  {Base,
   [Base EXCEPT !.page_index = 1, !.mounted = TRUE, !.second = {4}, !.expression.value = 127,
                !.bank.expression = <<87, 97, 104>>],
   [Base EXCEPT !.bank_index = 11, !.queue_overflow = TRUE, !.watchdog_reset = TRUE,
                !.expression = [available |-> FALSE, value |-> 0]],
   [Base EXCEPT !.bank_loaded = FALSE, !.configuration_error = TRUE]}

\* What the display should be given for each of them, without a switch pressed.
Tile1 == [label |-> P(1), accentRgb565 |-> 0]
BaseView ==
  [bank |-> 1, page |-> 1, bankName |-> Live.name, positions |-> [q \in Quadrants |-> 1],
   pressedMask |-> {}, selectedPositions |-> [q \in Quadrants |-> Tile1],
   expressionLabel |-> NONE, expressionAvailable |-> TRUE, expressionValue |-> 40,
   usbConnected |-> FALSE, configurationError |-> FALSE, queueOverflow |-> FALSE,
   watchdogReset |-> FALSE]
ReleasedViews ==
  {BaseView,
   [BaseView EXCEPT !.page = 2, !.usbConnected = TRUE, !.positions[3] = 2,
                    !.selectedPositions[3] = Named, !.expressionValue = 127,
                    !.expressionLabel = <<87, 97, 104>>],
   [BaseView EXCEPT !.bank = 12, !.queueOverflow = TRUE, !.watchdogReset = TRUE,
                    !.expressionAvailable = FALSE, !.expressionValue = 0],
   [BaseView EXCEPT !.bankName = EMPTY, !.configurationError = TRUE,
                    !.selectedPositions = [q \in Quadrants |-> [Tile1 EXCEPT !.label = EMPTY]]]}
MCViews == ReleasedViews \cup {[view EXCEPT !.pressedMask = {0}] : view \in ReleasedViews}

At(x, y) == [x |-> x, y |-> y]
MCPixels ==
  {At(20, 5), At(60, 6), At(18, 20), At(30, 26), At(378, 16), At(420, 16), At(461, 21), At(410, 15),
   At(8, 50), At(10, 60), At(40, 75), At(80, 88), At(90, 117), At(77, 135), At(180, 135), At(235, 154),
   At(240, 100), At(250, 200), At(330, 195), At(375, 195), At(300, 232), At(314, 248), At(400, 248),
   At(471, 267), At(20, 290), At(60, 290), At(176, 295), At(250, 294), At(411, 298), At(430, 285),
   At(455, 286), At(479, 319)}
=============================================================================
