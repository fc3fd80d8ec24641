----------------------------- MODULE LiveView -----------------------------
(***************************************************************************)
(* What PedalRuntime::render (app/pedal_runtime.cpp) makes of the state of *)
(* the live engine: the view that the display presents. A label is the     *)
(* sequence of its ASCII codes.                                            *)
(***************************************************************************)
EXTENDS DeckDrawing

NameCapacity == 20
LabelCapacity == 12
PresetCount == 2048

P(position) == <<80, 48 + position>>

copy_label(input, capacity, fallback) ==
  LET text == IF input = <<>> THEN fallback ELSE input
  IN  SubSeq(text, 1, IF Len(text) < capacity THEN Len(text) ELSE capacity)

\* The position of the preset a switch plays, and what its tile shows for it.
PositionOf(runtime, q) ==
  IF runtime.bank_loaded /\ runtime.bank.pages[runtime.page_index][q].id % PresetCount \in runtime.second
  THEN 2 ELSE 1

SelectedPosition(runtime, q) ==
  LET preset == runtime.bank.pages[runtime.page_index][q]
      position == PositionOf(runtime, q)
      selected == IF position = 2 THEN preset.position2 ELSE preset.position1
  IN  [selected EXCEPT !.label = copy_label(@, LabelCapacity, P(position))]

Unconfigured == [label |-> copy_label(<<>>, LabelCapacity, EMPTY), accentRgb565 |-> 0]

RenderedView(runtime, pressed_mask) ==
  LET loaded == runtime.bank_loaded
  IN  [bank |-> (runtime.bank_index + 1) % 256, page |-> runtime.page_index + 1,
       bankName |-> IF loaded THEN copy_label(runtime.bank.name, NameCapacity, BANK)
                              ELSE copy_label(<<>>, NameCapacity, EMPTY),
       positions |-> [q \in Quadrants |-> PositionOf(runtime, q)],
       pressedMask |-> pressed_mask,
       selectedPositions |->
         [q \in Quadrants |-> IF loaded THEN SelectedPosition(runtime, q) ELSE Unconfigured],
       expressionLabel |->
         copy_label(IF loaded THEN runtime.bank.expression ELSE <<>>, LabelCapacity, NONE),
       expressionAvailable |-> runtime.expression.available,
       expressionValue |-> runtime.expression.value,
       usbConnected |-> runtime.mounted, configurationError |-> runtime.configuration_error,
       queueOverflow |-> runtime.queue_overflow, watchdogReset |-> runtime.watchdog_reset]
=============================================================================
