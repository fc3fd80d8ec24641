---------------------------- MODULE PedalRuntime ----------------------------
(***************************************************************************)
(* The live engine: PedalRuntime (app/pedal_runtime.cpp) with the          *)
(* ActionEngine it drives (core/action_engine.cpp), in the main loop of    *)
(* main.cpp. A pass of the loop reads the configuration and the switches,  *)
(* handles the gestures that SwitchEngine recognizes, lets the USB side    *)
(* change the configuration, and sends one TRS message.                    *)
(*                                                                         *)
(* The engine is single-threaded, and each action below runs to its end;   *)
(* executing a preset takes an action per slot, because a slot may change  *)
(* what the next one reads.                                                *)
(***************************************************************************)
EXTENDS Integers, Sequences

CONSTANTS
  Switches,     \* the footswitches
  Contacts,     \* the relay contacts
  PageCount,    \* 4
  PresetCount,  \* 2048, the positions that EngineState keeps
  TrsCapacity,  \* 64
  Images,       \* configurations an upload may activate: [sequence, banks]
  EmptyBank,    \* BankConfig{}
  Nil           \* no configuration, no event

Pages == 0 .. PageCount - 1
Triggers == {"Press", "Release", "LongPress", "DoubleTap"}
Destinations == {"Trs", "Usb", "Both"}

Commands == [operation : {"BankUp", "BankDown", "PageUp", "PageDown"}]
              \cup [operation : {"BankSet", "PageSet"}, target : Nat]

Messages == [kind : {"Midi"}, value : Nat, destination : Destinations]
              \cup [kind : {"Relay"}, contact : Contacts, operation : {"Open", "Close", "Toggle"}]
              \cup [kind : {"Navigation"}, command : Commands]

Slots == [trigger : Triggers, position : {"One", "Two", "Both"}, message : Messages]
Presets == [id : Nat, toggle_on : Triggers \cup {"None"}, slots : Seq(Slots)]
Banks == [pages : [Pages -> [Switches -> Presets]], expression : Destinations \cup {"None"}]

\* What PicoConfigSource::status tells of an image.
Status(image) ==
  IF image = Nil
  THEN [available |-> FALSE, sequence |-> 0, bank_count |-> 0]
  ELSE [available |-> TRUE, sequence |-> image.sequence, bank_count |-> Len(image.banks)]

\* encodeImage writes at least one bank. Images of one status are the subject of EditorLink.
ASSUME RuntimeAssumption ==
  /\ PageCount \in Nat \ {0} /\ PresetCount \in Nat \ {0} /\ TrsCapacity \in Nat
  /\ Images \subseteq [sequence : Nat, banks : Seq(Banks)] /\ Nil \notin Images
  /\ EmptyBank \in Banks
  /\ \A image \in Images : image.banks # <<>>
  /\ \A one, other \in Images : Status(one) = Status(other) => one = other

VARIABLES
  active,       \* the image the store has selected, Nil before the first upload
  snapshot,     \* config_snapshot_
  bank,         \* bank_, the working copy; the preset that executes is read from it
  bank_loaded,  \* bank_loaded_
  bank_index,   \* bank_index_
  page_index,   \* page_index_
  second,       \* engine_state_: the presets in position 2
  closed,       \* relay_closed_ and the relays
  queued,       \* how many messages the TRS queue holds
  dropped,      \* dropped_midi() differs from usb_dropped_midi_
  overflow,     \* queue_overflow_
  latched,      \* live_action_latched_
  phase,        \* where the pass is: "tick", "events", "slots", "usb", "service"
  engine        \* the locals of ActionEngine::execute, Nil when no preset executes

VARIABLES
  held,         \* the switches with a Press and no Release yet
  chorded,      \* a chord is held
  origin,       \* the preset whose event executes, as it was at the event, or Nil
  touched,      \* in this pass a switch was down or something was done for a gesture
  performed,    \* the messages given out for that event, of which slots, and whether accepted
  lost          \* a message has been refused or dropped since boot

bank_vars == <<snapshot, bank, bank_loaded, bank_index, page_index>>
output_vars == <<closed, queued, dropped, overflow>>
gesture_vars == <<held, chorded>>
history == <<touched, origin, performed, lost>>
vars == <<active, bank_vars, second, output_vars, latched, phase, engine,
          gesture_vars, history>>

-----------------------------------------------------------------------------
(* The working bank *)

\* load_bank: a bank of an image that the store accepted can always be read.
StoredBank(index) == active.banks[index + 1]

\* reload_bank
LoadBank(index) ==
  /\ snapshot' = Status(active)
  /\ IF active = Nil
     THEN /\ bank' = EmptyBank
          /\ bank_loaded' = FALSE
          /\ bank_index' = index
     ELSE /\ bank_index' = index % Len(active.banks)
          /\ bank' = StoredBank(bank_index')
          /\ bank_loaded' = TRUE

RefreshConfiguration_Forgets ==
  /\ snapshot' = Status(active)
  /\ UNCHANGED <<bank, bank_loaded, bank_index, page_index>>

RefreshConfiguration ==
  IF snapshot = Status(active)
  THEN UNCHANGED bank_vars
  ELSE /\ LoadBank(IF active = Nil THEN 0 ELSE bank_index)
       /\ UNCHANGED page_index

\* navigate refuses what it cannot reach.
Reachable(command) ==
  /\ snapshot.available
  /\ command.operation = "BankSet" => command.target \in 1 .. snapshot.bank_count
  /\ command.operation = "PageSet" => command.target \in 1 .. PageCount

NextBank(command) ==
  CASE command.operation = "BankUp"   -> (bank_index + 1) % snapshot.bank_count
    [] command.operation = "BankDown" -> (bank_index + snapshot.bank_count - 1) % snapshot.bank_count
    [] command.operation = "BankSet"  -> command.target - 1
    [] OTHER                          -> bank_index

NextPage_Unwrapped(command) ==
  CASE command.operation = "PageUp"   -> (page_index + 1) % PageCount
    [] command.operation = "PageDown" -> page_index - 1
    [] command.operation = "PageSet"  -> command.target - 1
    [] OTHER                          -> page_index

NextPage(command) ==
  CASE command.operation = "PageUp"   -> (page_index + 1) % PageCount
    [] command.operation = "PageDown" -> (page_index + PageCount - 1) % PageCount
    [] command.operation = "PageSet"  -> command.target - 1
    [] OTHER                          -> page_index

Navigate(command) ==
  IF Reachable(command)
  THEN /\ page_index' = NextPage(command)
       /\ IF NextBank(command) # bank_index
          THEN LoadBank(NextBank(command))
          ELSE UNCHANGED <<snapshot, bank, bank_loaded, bank_index>>
  ELSE UNCHANGED bank_vars

-----------------------------------------------------------------------------
(* Outputs *)

\* send_midi, to the TRS queue and to USB, each if the message is for it; taken says whether
\* the host is there and takes it.
TrsRefuses(destination) == destination # "Usb" /\ queued = TrsCapacity

Send(destination, taken) ==
  LET refused == TrsRefuses(destination)
      missed == destination # "Trs" /\ ~taken
  IN  /\ queued' = IF destination = "Usb" \/ refused THEN queued ELSE queued + 1
      /\ dropped' = (dropped \/ missed)
      /\ overflow' = (overflow \/ refused)
      /\ lost' = (lost \/ refused \/ missed)

\* The relays start open.
RelaysInitialized == {}
Relays(contact, close) == IF close THEN closed \cup {contact} ELSE closed \ {contact}

SetRelay(contact, operation) ==
  closed' = Relays(contact, CASE operation = "Open"   -> FALSE
                              [] operation = "Close"  -> TRUE
                              [] operation = "Toggle" -> contact \notin closed)

-----------------------------------------------------------------------------
(* Presets *)

Position(preset) == IF preset.id % PresetCount \in second THEN "Two" ELSE "One"

\* event_matches and position_matches
Matches(slot, kind, position) ==
  slot.trigger = kind /\ slot.position \in {position, "Both"}

Executing_OnCurrentPage == bank.pages[page_index][engine.switch]

\* execute holds a reference into bank_: what it reads is what is there now.
Executing == bank.pages[engine.page][engine.switch]

Execute(s, kind) ==
  LET preset == bank.pages[page_index][s]
  IN  /\ phase' = "slots"
      /\ engine' = [page |-> page_index, switch |-> s, kind |-> kind, slot |-> 1,
                    position |-> Position(preset), accepted |-> TRUE]
      /\ origin' = [preset |-> preset, kind |-> kind, position |-> Position(preset),
                    rebanked |-> FALSE]
      /\ performed' = <<>>

\* handle_event for an event of one switch: those of a switch follow each other as
\* SwitchEngine emits them, a Press first and a Release last, and never within a chord.
HandleSwitch(s, kind) ==
  /\ phase = "events"
  /\ IF kind = "Press" THEN s \notin held /\ ~chorded ELSE s \in held
  /\ held' = CASE kind = "Press"   -> held \cup {s}
               [] kind = "Release" -> held \ {s}
               [] OTHER            -> held
  /\ IF bank_loaded
     THEN Execute(s, kind) /\ UNCHANGED latched
     ELSE /\ latched' = (latched \/ kind = "Release")
          /\ UNCHANGED <<phase, engine, origin, performed>>
  /\ touched' = (touched \/ bank_loaded)
  /\ UNCHANGED <<active, bank_vars, second, output_vars, chorded, lost>>

\* One slot of the loop in execute; the message is given out even if one before was refused.
Perform(message) ==
  CASE message.kind = "Midi" ->
         /\ \E taken \in BOOLEAN : Send(message.destination, taken)
         /\ UNCHANGED <<bank_vars, closed>>
    [] message.kind = "Relay" ->
         /\ SetRelay(message.contact, message.operation)
         /\ UNCHANGED <<bank_vars, queued, dropped, overflow, lost>>
    [] message.kind = "Navigation" ->
         /\ Navigate(message.command)
         /\ UNCHANGED <<output_vars, lost>>

Accepted(message) ==
  CASE message.kind = "Midi"       -> ~TrsRefuses(message.destination)
    [] message.kind = "Relay"      -> TRUE
    [] message.kind = "Navigation" -> Reachable(message.command)

SlotMatches == Matches(Executing.slots[engine.slot], engine.kind, engine.position)

ExecuteSlot ==
  /\ phase = "slots" /\ engine.slot \in 1 .. Len(Executing.slots)
  /\ IF SlotMatches
     THEN LET message == Executing.slots[engine.slot].message
          IN  /\ Perform(message)
              /\ engine' = [engine EXCEPT !.slot = @ + 1, !.accepted = @ /\ Accepted(message)]
              /\ performed' = Append(performed, [slot |-> engine.slot, message |-> message,
                                                accepted |-> Accepted(message)])
              /\ origin' = [origin EXCEPT !.rebanked = @ \/ bank' # bank]
     ELSE /\ engine' = [engine EXCEPT !.slot = @ + 1]
          /\ UNCHANGED <<bank_vars, output_vars, history>>
  /\ UNCHANGED <<active, second, latched, phase, gesture_vars, touched>>

\* EngineState::toggle
Toggle(preset) ==
  LET bit == preset.id % PresetCount
  IN  second' = IF bit \in second THEN second \ {bit} ELSE second \cup {bit}

FinishPreset_TogglesAnyway ==
  /\ phase = "slots" /\ engine.slot > Len(Executing.slots)
  /\ IF Executing.toggle_on = engine.kind THEN Toggle(Executing) ELSE UNCHANGED second
  /\ overflow' = (overflow \/ ~engine.accepted)
  /\ latched' = TRUE
  /\ phase' = "events"
  /\ engine' = Nil /\ origin' = Nil /\ performed' = <<>>
  /\ UNCHANGED <<active, bank_vars, closed, queued, dropped, gesture_vars, touched, lost>>

\* The end of execute and of handle_event.
FinishPreset ==
  /\ phase = "slots" /\ engine.slot > Len(Executing.slots)
  /\ IF Executing.toggle_on = engine.kind /\ engine.accepted
     THEN Toggle(Executing)
     ELSE UNCHANGED second
  /\ overflow' = (overflow \/ ~engine.accepted)
  /\ latched' = TRUE
  /\ phase' = "events"
  /\ engine' = Nil /\ origin' = Nil /\ performed' = <<>>
  /\ UNCHANGED <<active, bank_vars, closed, queued, dropped, gesture_vars, touched, lost>>

\* handle_event for an event of a chord. No single press is held while a chord is.
HandleChord(kind, operation) ==
  /\ phase = "events"
  /\ IF kind = "ChordPress" THEN held = {} /\ ~chorded ELSE chorded
  /\ chorded' = (kind # "ChordRelease")
  /\ IF kind = "ChordRelease" THEN UNCHANGED bank_vars ELSE Navigate([operation |-> operation])
  /\ latched' = TRUE
  /\ touched' = TRUE
  /\ UNCHANGED <<active, second, output_vars, phase, engine, held, origin, performed, lost>>

-----------------------------------------------------------------------------
(* A pass of the main loop *)

BeginTick_Unlatched(pressed) ==
  /\ phase = "tick"
  /\ RefreshConfiguration
  /\ touched' = pressed
  /\ phase' = "events"
  /\ UNCHANGED <<active, second, output_vars, latched, engine, gesture_vars, origin, performed,
                 lost>>

\* tick reads the configuration and the switches.
BeginTick(pressed) ==
  /\ phase = "tick"
  /\ RefreshConfiguration
  /\ touched' = pressed
  /\ latched' = (latched \/ pressed)
  /\ phase' = "events"
  /\ UNCHANGED <<active, second, output_vars, engine, gesture_vars, origin, performed,
                 lost>>

\* The expression pedal has moved. Its assignment is that of the working bank.
SampleExpression ==
  /\ phase = "events" /\ bank.expression # "None"
  /\ \E taken \in BOOLEAN : Send(bank.expression, taken)
  /\ phase' = "sampled"
  /\ UNCHANGED <<active, bank_vars, second, closed, latched, engine, gesture_vars, touched,
                 origin, performed>>

EndTick_IgnoresUsb ==
  /\ phase \in {"events", "sampled"}
  /\ phase' = "usb"
  /\ UNCHANGED <<active, bank_vars, second, output_vars, latched, engine, gesture_vars, history>>

EndTick ==
  /\ phase \in {"events", "sampled"}
  /\ overflow' = (overflow \/ dropped)
  /\ dropped' = FALSE
  /\ phase' = "usb"
  /\ UNCHANGED <<active, bank_vars, second, closed, queued, latched, engine,
                 gesture_vars, history>>

\* The USB side: a request may activate another image, and is refused while an action is
\* live (ControllerProtocolService answers Busy).
ServiceUsb(image) ==
  /\ phase = "usb"
  /\ image = active \/ ~latched
  /\ active' = image
  /\ phase' = "service"
  /\ UNCHANGED <<bank_vars, second, output_vars, latched, engine, gesture_vars, history>>

\* finish_control_phase, and PicoUartMidi::service when the UART is writable.
FinishPass(writable) ==
  /\ phase = "service"
  /\ latched' = FALSE
  /\ queued' = IF writable /\ queued # 0 THEN queued - 1 ELSE queued
  /\ phase' = "tick"
  /\ UNCHANGED <<active, bank_vars, second, closed, dropped, overflow, engine,
                 gesture_vars, history>>

\* initialize, from the image the store has selected.
Booted ==
  /\ LoadBank(0) /\ page_index' = 0
  /\ second' = {} /\ closed' = RelaysInitialized
  /\ queued' = 0 /\ dropped' = FALSE /\ overflow' = FALSE
  /\ latched' = FALSE /\ touched' = FALSE
  /\ phase' = "tick" /\ engine' = Nil
  /\ held' = {} /\ chorded' = FALSE
  /\ origin' = Nil /\ performed' = <<>> /\ lost' = FALSE

Restart == Booted /\ UNCHANGED active

Init ==
  /\ active = Nil
  /\ snapshot = Status(Nil) /\ bank = EmptyBank /\ bank_loaded = FALSE
  /\ bank_index = 0 /\ page_index = 0
  /\ second = {} /\ closed = RelaysInitialized
  /\ queued = 0 /\ dropped = FALSE /\ overflow = FALSE
  /\ latched = FALSE /\ touched = FALSE
  /\ phase = "tick" /\ engine = Nil
  /\ held = {} /\ chorded = FALSE
  /\ origin = Nil /\ performed = <<>> /\ lost = FALSE

Next ==
  \/ \E pressed \in BOOLEAN : BeginTick(pressed)
  \/ \E s \in Switches, kind \in Triggers : HandleSwitch(s, kind)
  \/ ExecuteSlot
  \/ FinishPreset
  \/ \E kind \in {"ChordPress", "ChordRepeat", "ChordRelease"},
        operation \in {"BankUp", "BankDown", "PageUp", "PageDown"} : HandleChord(kind, operation)
  \/ SampleExpression
  \/ EndTick
  \/ \E image \in Images \cup {active} : ServiceUsb(image)
  \/ \E writable \in BOOLEAN : FinishPass(writable)
  \/ Restart

Spec == Init /\ [][Next]_vars

-----------------------------------------------------------------------------
(* Properties *)

\* The runtime keeps its types; the page, the positions, the relays and the TRS queue their range.
RuntimeTypeOK ==
  /\ active \in Images \cup {Nil}
  /\ snapshot \in [available : BOOLEAN, sequence : Nat, bank_count : Nat]
  /\ bank \in Banks /\ bank_loaded \in BOOLEAN
  /\ bank_index \in Nat /\ page_index \in Pages
  /\ second \subseteq 0 .. PresetCount - 1 /\ closed \subseteq Contacts
  /\ queued \in 0 .. TrsCapacity
  /\ dropped \in BOOLEAN /\ overflow \in BOOLEAN /\ latched \in BOOLEAN /\ touched \in BOOLEAN
  /\ phase \in {"tick", "events", "slots", "sampled", "usb", "service"}
  /\ phase = "slots" =>
       engine \in [page : Pages, switch : Switches, kind : Triggers, slot : Nat \ {0},
                   position : {"One", "Two"}, accepted : BOOLEAN]
  /\ held \subseteq Switches /\ chorded \in BOOLEAN /\ lost \in BOOLEAN

\* The working bank is the one that an image has at the selected index.
HoldsBankOf(image) ==
  IF image = Nil
  THEN ~bank_loaded /\ bank = EmptyBank
  ELSE /\ bank_loaded
       /\ bank_index < Len(image.banks)
       /\ bank = image.banks[bank_index + 1]

\* While gestures are handled, the working bank is the one that the active image has at the
\* selected index: after a navigation, an upload that has fewer banks, or a restart.
Handling == phase \in {"events", "slots", "sampled"}
PlaysWhatIsActive == Handling => HoldsBankOf(active)

\* The slots that an event asks for, of the preset it was for.
Asked == {i \in DOMAIN origin.preset.slots :
            Matches(origin.preset.slots[i], origin.kind, origin.position)}

PresetDone == phase = "slots" /\ engine.slot > Len(Executing.slots)

InSlotOrder == \A i, j \in DOMAIN performed : i < j => performed[i].slot < performed[j].slot

AsOrigin ==
  \A i \in DOMAIN performed : performed[i].message = origin.preset.slots[performed[i].slot].message

PerformedSlots == {performed[i].slot : i \in DOMAIN performed}

RunsWhole == PerformedSlots = Asked /\ InSlotOrder /\ AsOrigin

\* An event gives out the messages of the preset it was for that match it and the position
\* the preset had, all of them, in slot order, whatever these messages do to the page, the
\* relays and the queue.
OnePresetPerEvent == PresetDone => RunsWhole

\* So it is unless one of the messages changes the bank.
PresetRunsWhole == PresetDone /\ ~origin.rebanked => RunsWhole

AllAccepted == \A i \in DOMAIN performed : performed[i].accepted

\* A preset changes position at the end of an event that toggles it, and only if every
\* message of the event was accepted; nothing else but a restart changes a position.
PositionMovesLast ==
  [][/\ second' # second => PresetDone \/ phase' = "tick"
     /\ PresetDone /\ phase' = "events" /\ ~origin.rebanked =>
          (second' # second <=> origin.preset.toggle_on = origin.kind /\ RunsWhole /\ AllAccepted)]_vars

\* When a pass is over, the display's diagnostic tells of every message that the TRS queue
\* refused or USB dropped since boot.
NothingLostSilently == phase \in {"usb", "service", "tick"} => (lost => overflow)

\* The configuration changes only between actions: not in a pass in which a switch was down,
\* a preset executed or a chord was handled.
ChangesBetweenActions == [][active' # active => ~touched]_vars

-----------------------------------------------------------------------------
(***************************************************************************)
(* The inductive invariant. Between two passes the configuration may       *)
(* change, but the working bank stays one of the image whose status the    *)
(* snapshot holds, so that an equal status means an equal image; losses    *)
(* wait in dropped until the tick ends; and the latch is set from the      *)
(* first thing done for a gesture until the USB side has had its turn.     *)
(***************************************************************************)
BankIsOfSnapshot ==
  \E image \in Images \cup {Nil} : snapshot = Status(image) /\ HoldsBankOf(image)

SnapshotIsCurrent == Handling => snapshot = Status(active)

LossesAreNoted ==
  /\ lost => overflow \/ dropped
  /\ phase \in {"usb", "service", "tick"} => ~dropped

ActionsAreLatched == phase \in {"events", "sampled", "usb"} => (touched => latched)

\* While a preset executes, what was given out is what its slots so far ask for; a preset
\* that has not changed the bank is still the one that the event was for.
PresetOnItsWay ==
  phase = "slots" =>
    /\ origin \in [preset : Presets, kind : {engine.kind}, position : {engine.position},
                   rebanked : BOOLEAN]
    /\ performed \in Seq([slot : Nat, message : Messages, accepted : BOOLEAN])
    /\ engine.accepted <=> AllAccepted
    /\ ~origin.rebanked =>
         /\ Executing = origin.preset
         /\ PerformedSlots = {i \in Asked : i < engine.slot} /\ InSlotOrder /\ AsOrigin

\* What every step of the main loop keeps.
RuntimeInvariant ==
  /\ RuntimeTypeOK
  /\ BankIsOfSnapshot
  /\ SnapshotIsCurrent
  /\ LossesAreNoted
  /\ ActionsAreLatched
=============================================================================
