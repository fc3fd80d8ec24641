--------------------------- MODULE MCPedalRuntime ---------------------------
(***************************************************************************)
(* A pedal with two switches, two pages and two configurations, of two     *)
(* banks and of one. The presets hold what makes execution hard: more      *)
(* messages than the TRS queue takes, messages for one position, and       *)
(* navigation before other messages and before the toggle.                 *)
(***************************************************************************)
EXTENDS PedalRuntime, TLC

CONSTANTS A, B, tip

Slot(trigger, position, message) == [trigger |-> trigger, position |-> position, message |-> message]
Midi(value, destination) == [kind |-> "Midi", value |-> value, destination |-> destination]
Go(operation) == [kind |-> "Navigation", command |-> [operation |-> operation]]
GoTo(operation, target) ==
  [kind |-> "Navigation", command |-> [operation |-> operation, target |-> target]]
Contact(operation) == [kind |-> "Relay", contact |-> tip, operation |-> operation]

\* A preset that sounds differently in its positions, and toggles.
Toggling == [id |-> 1, toggle_on |-> "Press", slots |-> <<
  Slot("Press", "One", Midi(1, "Both")), Slot("Press", "Two", Midi(2, "Trs")),
  Slot("Release", "Both", Contact("Toggle"))>>]

\* A preset that turns to the next page between its messages.
Turning == [id |-> 2, toggle_on |-> "Press", slots |-> <<
  Slot("Press", "Both", Midi(3, "Usb")), Slot("Press", "Both", Go("PageUp")),
  Slot("Press", "Both", Midi(4, "Trs")), Slot("Press", "Both", Contact("Close"))>>]

\* A preset that goes to the second bank, if there is one, between its messages.
Leaving == [id |-> 3, toggle_on |-> "LongPress", slots |-> <<
  Slot("LongPress", "Both", Midi(5, "Trs")), Slot("LongPress", "Both", GoTo("BankSet", 2)),
  Slot("LongPress", "Both", Midi(6, "Trs"))>>]

\* A preset that only sends, on every trigger that Leaving has, too.
Sending == [id |-> 4, toggle_on |-> "DoubleTap", slots |-> <<
  Slot("Release", "Both", Midi(7, "Trs")), Slot("DoubleTap", "Two", Midi(8, "Usb")),
  Slot("LongPress", "Both", Midi(9, "Trs"))>>]

Blank == [id |-> 0, toggle_on |-> "Press", slots |-> <<>>]

Bank(first, other, third, fourth, expression) ==
  [pages |-> (0 :> (A :> first @@ B :> other) @@ 1 :> (A :> third @@ B :> fourth)),
   expression |-> expression]

MCEmptyBank == Bank(Blank, Blank, Blank, Blank, "None")

TwoBanks == [sequence |-> 1, banks |-> <<Bank(Toggling, Turning, Leaving, Sending, "Both"),
                                         Bank(Sending, Toggling, Sending, Toggling, "None")>>]
OneBank == [sequence |-> 2, banks |-> <<Bank(Leaving, Toggling, Turning, Sending, "Trs")>>]

MCImages == {TwoBanks, OneBank}
=============================================================================
