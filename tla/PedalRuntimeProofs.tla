------------------------- MODULE PedalRuntimeProofs -------------------------
(***************************************************************************)
(* Proofs about PedalRuntime, for all switches, pages, configurations and  *)
(* queue capacities.                                                       *)
(***************************************************************************)
EXTENDS PedalRuntime, TLAPS

\* What navigation, banks and positions wrap around.
LEMMA Remainder ==
  ASSUME NEW a \in Int, NEW b \in Nat \ {0}
  PROVE  a % b \in 0 .. b - 1
PROOF  BY Z3

\* An image is told from another, and from none, by its status.
LEMMA StatusTells ==
  ASSUME NEW one \in Images \cup {Nil}, NEW other \in Images \cup {Nil},
         Status(one) = Status(other)
  PROVE  one = other
PROOF
<1>1. CASE one = Nil \/ other = Nil
  BY <1>1 DEF Status
<1>2. CASE one # Nil /\ other # Nil
  BY <1>2, RuntimeAssumption
<1> QED  BY <1>1, <1>2

\* The status of an image has its type, and counts at least one bank of one that exists.
LEMMA StatusType ==
  ASSUME NEW image \in Images \cup {Nil}
  PROVE  /\ Status(image) \in [available : BOOLEAN, sequence : Nat, bank_count : Nat]
         /\ Status(image).available <=> image # Nil
         /\ image # Nil => /\ Len(image.banks) \in Nat \ {0}
                           /\ Status(image).bank_count = Len(image.banks)
                           /\ image.banks \in Seq(Banks)
PROOF
<1>1. image # Nil => image \in [sequence : Nat, banks : Seq(Banks)] /\ image.banks # <<>>
  BY RuntimeAssumption
<1>2. image # Nil => Len(image.banks) \in Nat \ {0}
  BY <1>1
<1> QED  BY <1>1, <1>2 DEF Status

\* reload_bank loads a bank of the active image.
LEMMA LoadBankLoads ==
  ASSUME active \in Images \cup {Nil}, UNCHANGED active, NEW index \in Int,
         active = Nil => index \in Nat, LoadBank(index)
  PROVE  /\ snapshot' = Status(active)
         /\ HoldsBankOf(active)'
         /\ bank' \in Banks /\ bank_loaded' \in BOOLEAN /\ bank_index' \in Nat
PROOF
<1>1. CASE active = Nil
  BY <1>1, RuntimeAssumption DEF LoadBank, StoredBank, HoldsBankOf
<1>2. CASE active # Nil
  <2>1. Len(active.banks) \in Nat \ {0} /\ active.banks \in Seq(Banks)
    BY <1>2, StatusType
  <2>2. /\ bank_index' = index % Len(active.banks)
        /\ bank' = active.banks[bank_index' + 1]
        /\ bank_loaded' = TRUE
        /\ snapshot' = Status(active)
    BY <1>2 DEF LoadBank, StoredBank
  <2>3. bank_index' \in 0 .. Len(active.banks) - 1
    BY <2>1, <2>2, Remainder
  <2>4. bank' \in Banks
    BY <2>1, <2>2, <2>3
  <2>5. HoldsBankOf(active)'
    <3>1. active' # Nil /\ active'.banks = active.banks
      BY <1>2
    <3>2. bank_index' < Len(active.banks)
      BY <2>1, <2>3
    <3> QED  BY <2>2, <3>1, <3>2 DEF HoldsBankOf
  <2>6. bank_loaded' \in BOOLEAN
    BY <2>2
  <2>7. bank_index' \in Nat
    BY <2>1, <2>3
  <2> QED  BY <2>2, <2>4, <2>5, <2>6, <2>7
<1> QED  BY <1>1, <1>2

\* The parts of the invariant about the working bank.
BankInvariant ==
  /\ active \in Images \cup {Nil}
  /\ snapshot \in [available : BOOLEAN, sequence : Nat, bank_count : Nat]
  /\ bank \in Banks /\ bank_loaded \in BOOLEAN
  /\ bank_index \in Nat /\ page_index \in Pages
  /\ BankIsOfSnapshot

\* What is known of the working bank when the snapshot is that of the active image.
LEMMA CurrentBank ==
  ASSUME BankInvariant, snapshot = Status(active)
  PROVE  HoldsBankOf(active)
PROOF  BY StatusTells DEF BankInvariant, BankIsOfSnapshot

\* What leaves the working bank alone keeps its part of the invariant, also where the
\* configuration changes.
LEMMA BankStutters ==
  ASSUME BankInvariant, active' \in Images \cup {Nil}, UNCHANGED bank_vars
  PROVE  BankInvariant'
PROOF
<1>1. PICK image \in Images \cup {Nil} : snapshot = Status(image) /\ HoldsBankOf(image)
  BY DEF BankInvariant, BankIsOfSnapshot
<1>2. snapshot' = Status(image) /\ HoldsBankOf(image)'
  BY <1>1 DEF bank_vars, HoldsBankOf
<1>3. BankIsOfSnapshot'
  BY <1>2 DEF BankIsOfSnapshot, Status
<1> QED  BY <1>3 DEF BankInvariant, bank_vars

\* A load leaves the working bank and the snapshot in agreement.
LEMMA LoadKeepsBank ==
  ASSUME BankInvariant, UNCHANGED active, NEW index \in Int, active = Nil => index \in Nat,
         LoadBank(index), page_index' \in Pages
  PROVE  BankInvariant' /\ snapshot' = Status(active)
PROOF
<1>1. /\ snapshot' = Status(active)
      /\ HoldsBankOf(active)'
      /\ bank' \in Banks /\ bank_loaded' \in BOOLEAN /\ bank_index' \in Nat
  BY LoadBankLoads DEF BankInvariant
<1>2. BankIsOfSnapshot'
  <2>1. active' \in Images \cup {Nil} /\ snapshot' = Status(active')
    BY <1>1 DEF BankInvariant
  <2> QED  BY <1>1, <2>1 DEF BankIsOfSnapshot, Status
<1> QED  BY <1>1, <1>2, StatusType DEF BankInvariant

\* refresh_configuration brings the snapshot up to date.
LEMMA RefreshKeepsBank ==
  ASSUME BankInvariant, UNCHANGED active, RefreshConfiguration
  PROVE  BankInvariant' /\ snapshot' = Status(active)
PROOF
<1>1. CASE snapshot = Status(active)
  BY <1>1, BankStutters DEF RefreshConfiguration, BankInvariant, bank_vars
<1>2. CASE snapshot # Status(active)
  BY <1>2, LoadKeepsBank DEF RefreshConfiguration, BankInvariant
<1> QED  BY <1>1, <1>2

\* navigate keeps the page, and the bank in agreement with the snapshot.
LEMMA NavigateKeepsBank ==
  ASSUME BankInvariant, UNCHANGED active, snapshot = Status(active), NEW command,
         Navigate(command)
  PROVE  BankInvariant' /\ snapshot' = Status(active)
PROOF
<1>1. CASE ~Reachable(command)
  BY <1>1, BankStutters DEF Navigate, BankInvariant, bank_vars
<1>2. CASE Reachable(command)
  <2>1. active # Nil /\ snapshot.bank_count \in Nat \ {0}
    BY <1>2, StatusType DEF Reachable, BankInvariant
  <2>2. NextBank(command) \in Int
    <3>1. (bank_index + 1) % snapshot.bank_count \in Int
      <4>1. bank_index + 1 \in Int
        BY DEF BankInvariant
      <4> QED  BY <2>1, <4>1, Remainder
    <3>2. (bank_index + snapshot.bank_count - 1) % snapshot.bank_count \in Int
      <4>1. bank_index + snapshot.bank_count - 1 \in Int
        BY <2>1 DEF BankInvariant
      <4> QED  BY <2>1, <4>1, Remainder
    <3>3. command.operation = "BankSet" => command.target - 1 \in Int
      BY <1>2, <2>1 DEF Reachable
    <3> QED  BY <3>1, <3>2, <3>3 DEF NextBank, BankInvariant
  <2>3. NextPage(command) \in Pages
    <3>0. PageCount \in Nat \ {0} /\ page_index \in Int
      BY RuntimeAssumption DEF BankInvariant, Pages
    <3>1. (page_index + 1) % PageCount \in Pages
      <4>1. page_index + 1 \in Int
        BY <3>0
      <4> QED  BY <3>0, <4>1, Remainder DEF Pages
    <3>2. (page_index + PageCount - 1) % PageCount \in Pages
      <4>1. page_index + PageCount - 1 \in Int
        BY <3>0
      <4> QED  BY <3>0, <4>1, Remainder DEF Pages
    <3>3. command.operation = "PageSet" => command.target - 1 \in Pages
      BY <1>2, RuntimeAssumption DEF Reachable, Pages
    <3> QED  BY <3>1, <3>2, <3>3 DEF NextPage, BankInvariant
  <2>4. page_index' \in Pages
    BY <1>2, <2>3 DEF Navigate
  <2>5. CASE NextBank(command) # bank_index
    BY <1>2, <2>1, <2>2, <2>4, <2>5, LoadKeepsBank DEF Navigate
  <2>6. CASE NextBank(command) = bank_index
    <3>1. PICK image \in Images \cup {Nil} : snapshot = Status(image) /\ HoldsBankOf(image)
      BY DEF BankInvariant, BankIsOfSnapshot
    <3>2. UNCHANGED <<snapshot, bank, bank_loaded, bank_index>>
      BY <1>2, <2>6 DEF Navigate
    <3>3. snapshot' = Status(image) /\ HoldsBankOf(image)'
      BY <3>1, <3>2 DEF HoldsBankOf
    <3>4. BankIsOfSnapshot'
      BY <3>3 DEF BankIsOfSnapshot, Status
    <3> QED  BY <2>4, <3>2, <3>4 DEF BankInvariant
  <2> QED  BY <2>5, <2>6
<1> QED  BY <1>1, <1>2

-----------------------------------------------------------------------------
(* Executing a preset *)

\* What execute reads is a preset of the working bank.
LEMMA ExecutingIsPreset ==
  ASSUME RuntimeTypeOK, phase = "slots"
  PROVE  Executing \in Presets
PROOF  BY DEF RuntimeTypeOK, Executing, Banks

\* A slot within the preset holds a message.
LEMMA SlotMessage ==
  ASSUME RuntimeTypeOK, phase = "slots", engine.slot \in 1 .. Len(Executing.slots)
  PROVE  Executing.slots[engine.slot].message \in Messages
PROOF
<1>1. Executing.slots \in Seq(Slots)
  BY ExecutingIsPreset DEF Presets
<1>2. Executing.slots[engine.slot] \in Slots
  BY <1>1
<1> QED  BY <1>2 DEF Slots

\* send_midi notes what it loses, and never overfills the TRS queue.
LEMMA SendNotes ==
  ASSUME queued \in 0 .. TrsCapacity, dropped \in BOOLEAN, overflow \in BOOLEAN, lost \in BOOLEAN,
         lost => overflow \/ dropped, NEW destination, NEW taken \in BOOLEAN,
         Send(destination, taken)
  PROVE  /\ queued' \in 0 .. TrsCapacity
         /\ dropped' \in BOOLEAN /\ overflow' \in BOOLEAN /\ lost' \in BOOLEAN
         /\ lost' => overflow' \/ dropped'
PROOF
<1>1. queued' \in 0 .. TrsCapacity
  BY RuntimeAssumption DEF Send, TrsRefuses
<1>2. /\ dropped' \in BOOLEAN /\ overflow' \in BOOLEAN /\ lost' \in BOOLEAN
      /\ lost' => overflow' \/ dropped'
  BY Zenon DEF Send
<1> QED  BY <1>1, <1>2

\* Whatever a message does keeps the bank's invariant, the outputs' types and the notes.
LEMMA PerformKeeps ==
  ASSUME RuntimeInvariant, phase = "slots", UNCHANGED active,
         NEW message \in Messages, Perform(message)
  PROVE  /\ BankInvariant' /\ snapshot' = Status(active)
         /\ closed' \subseteq Contacts
         /\ queued' \in 0 .. TrsCapacity
         /\ dropped' \in BOOLEAN /\ overflow' \in BOOLEAN /\ lost' \in BOOLEAN
         /\ lost' => overflow' \/ dropped'
PROOF
<1>1. /\ BankInvariant /\ snapshot = Status(active)
      /\ queued \in 0 .. TrsCapacity /\ closed \subseteq Contacts
      /\ dropped \in BOOLEAN /\ overflow \in BOOLEAN /\ lost \in BOOLEAN
      /\ lost => overflow \/ dropped
  BY DEF RuntimeInvariant, RuntimeTypeOK, BankInvariant, SnapshotIsCurrent, Handling, LossesAreNoted
<1>2. CASE message.kind = "Midi"
  <2>1. (\E taken \in BOOLEAN : Send(message.destination, taken)) /\ UNCHANGED <<bank_vars, closed>>
    BY <1>2 DEF Perform
  <2>2. BankInvariant'
    BY <1>1, <2>1, BankStutters DEF BankInvariant
  <2> QED  BY <1>1, <2>1, <2>2, SendNotes DEF bank_vars
<1>3. CASE message.kind = "Relay"
  <2>1. SetRelay(message.contact, message.operation)
        /\ UNCHANGED <<bank_vars, queued, dropped, overflow, lost>>
    BY <1>3 DEF Perform
  <2>2. message.contact \in Contacts /\ message.operation \in {"Open", "Close", "Toggle"}
    BY <1>3 DEF Messages
  <2>3. closed' \subseteq Contacts
    BY <1>1, <2>1, <2>2 DEF SetRelay, Relays
  <2>4. BankInvariant'
    BY <1>1, <2>1, BankStutters DEF BankInvariant
  <2> QED  BY <1>1, <2>1, <2>3, <2>4 DEF bank_vars
<1>4. CASE message.kind = "Navigation"
  <2>1. Navigate(message.command) /\ UNCHANGED <<output_vars, lost>>
    BY <1>4 DEF Perform
  <2>2. BankInvariant' /\ snapshot' = Status(active)
    BY <1>1, <2>1, NavigateKeepsBank
  <2> QED  BY <1>1, <2>1, <2>2 DEF output_vars
<1> QED  BY <1>2, <1>3, <1>4 DEF Messages

-----------------------------------------------------------------------------
(* The invariant *)

\* The pedal starts without a configuration and with everything at rest.
LEMMA InitInvariant == Init => RuntimeInvariant
PROOF
<1> SUFFICES ASSUME Init PROVE RuntimeInvariant
  OBVIOUS
<1>1. RuntimeTypeOK
  <2>1. active \in Images \cup {Nil} /\ snapshot = Status(active)
    BY DEF Init
  <2>2. snapshot \in [available : BOOLEAN, sequence : Nat, bank_count : Nat]
    BY <2>1, StatusType
  <2>3. 0 \in Pages /\ 0 \in 0 .. TrsCapacity /\ EmptyBank \in Banks
    BY RuntimeAssumption DEF Pages
  <2>4. bank \in Banks /\ bank_loaded \in BOOLEAN /\ bank_index \in Nat /\ page_index \in Pages
    BY <2>3 DEF Init
  <2>5. second = {} /\ closed = {} /\ queued \in 0 .. TrsCapacity /\ held = {}
    BY <2>3 DEF Init, RelaysInitialized
  <2>6. dropped \in BOOLEAN /\ overflow \in BOOLEAN /\ latched \in BOOLEAN /\ touched \in BOOLEAN
        /\ chorded \in BOOLEAN /\ lost \in BOOLEAN /\ phase = "tick"
    BY DEF Init
  <2> QED  BY <2>1, <2>2, <2>4, <2>5, <2>6 DEF RuntimeTypeOK
<1>2. BankIsOfSnapshot
  BY DEF Init, BankIsOfSnapshot, HoldsBankOf
<1> QED  BY <1>1, <1>2 DEF Init, RuntimeInvariant, SnapshotIsCurrent, Handling, LossesAreNoted,
                         ActionsAreLatched

\* The types of everything but the working bank.
OthersTypeOK ==
  /\ second \subseteq 0 .. PresetCount - 1 /\ closed \subseteq Contacts
  /\ queued \in 0 .. TrsCapacity
  /\ dropped \in BOOLEAN /\ overflow \in BOOLEAN /\ latched \in BOOLEAN /\ touched \in BOOLEAN
  /\ phase \in {"tick", "events", "slots", "sampled", "usb", "service"}
  /\ phase = "slots" =>
       engine \in [page : Pages, switch : Switches, kind : Triggers, slot : Nat \ {0},
                   position : {"One", "Two"}, accepted : BOOLEAN]
  /\ held \subseteq Switches /\ chorded \in BOOLEAN /\ lost \in BOOLEAN

\* The two parts of the types.
LEMMA TypeParts == RuntimeTypeOK /\ BankIsOfSnapshot <=> BankInvariant /\ OthersTypeOK
PROOF  BY DEF RuntimeTypeOK, BankInvariant, OthersTypeOK

\* What each step of the main loop, each message and each restart keeps.
LEMMA StepInvariant ==
  ASSUME RuntimeInvariant, [Next]_vars
  PROVE  RuntimeInvariant'
PROOF
<1> USE DEF OthersTypeOK, SnapshotIsCurrent, Handling, LossesAreNoted, ActionsAreLatched
<1>1. BankInvariant /\ OthersTypeOK /\ SnapshotIsCurrent /\ LossesAreNoted /\ ActionsAreLatched
  BY TypeParts DEF RuntimeInvariant
<1> SUFFICES BankInvariant' /\ OthersTypeOK' /\ SnapshotIsCurrent' /\ LossesAreNoted' /\ ActionsAreLatched'
  BY TypeParts DEF RuntimeInvariant, RuntimeTypeOK, BankInvariant
<1>2. ASSUME NEW pressed \in BOOLEAN, BeginTick(pressed)
      PROVE  BankInvariant' /\ OthersTypeOK' /\ SnapshotIsCurrent' /\ LossesAreNoted' /\ ActionsAreLatched'
  <2>1. BankInvariant' /\ snapshot' = Status(active)
    BY <1>1, <1>2, RefreshKeepsBank DEF BeginTick
  <2> QED  BY <1>1, <1>2, <2>1 DEF BeginTick, output_vars, gesture_vars
<1>3. ASSUME NEW s \in Switches, NEW kind \in Triggers, HandleSwitch(s, kind)
      PROVE  BankInvariant' /\ OthersTypeOK' /\ SnapshotIsCurrent' /\ LossesAreNoted' /\ ActionsAreLatched'
  <2>1. BankInvariant' /\ UNCHANGED <<active, snapshot, output_vars, lost, second, chorded>>
    BY <1>1, <1>3, BankStutters DEF HandleSwitch, BankInvariant, bank_vars
  <2>2. held' \subseteq Switches
    BY <1>1, <1>3 DEF HandleSwitch
  <2>3. CASE bank_loaded
    <3>1. Execute(s, kind) /\ UNCHANGED latched /\ touched' = TRUE
      BY <1>3, <2>3 DEF HandleSwitch
    <3>2. phase' = "slots" /\ engine' \in [page : Pages, switch : Switches, kind : Triggers,
                                          slot : Nat \ {0}, position : {"One", "Two"},
                                          accepted : BOOLEAN]
      BY <1>1, <3>1 DEF Execute, Position, BankInvariant
    <3> QED  BY <1>1, <1>3, <2>1, <2>2, <3>1, <3>2 DEF output_vars, HandleSwitch
  <2>4. CASE ~bank_loaded
    <3>1. latched' = (latched \/ kind = "Release") /\ UNCHANGED <<phase, engine>>
          /\ touched' = (touched \/ bank_loaded)
      BY <1>3, <2>4 DEF HandleSwitch
    <3> QED  BY <1>1, <1>3, <2>1, <2>2, <2>4, <3>1 DEF output_vars, HandleSwitch
  <2> QED  BY <2>3, <2>4
<1>4. ASSUME ExecuteSlot
      PROVE  BankInvariant' /\ OthersTypeOK' /\ SnapshotIsCurrent' /\ LossesAreNoted' /\ ActionsAreLatched'
  <2> DEFINE message == Executing.slots[engine.slot].message
  <2>1. /\ phase = "slots" /\ phase' = "slots"
        /\ UNCHANGED <<active, second, latched, gesture_vars, touched>>
        /\ message \in Messages
    BY <1>4, SlotMessage DEF ExecuteSlot, RuntimeInvariant
  <2>2. CASE SlotMatches
    <3>1. /\ Perform(message)
          /\ engine' = [engine EXCEPT !.slot = @ + 1, !.accepted = @ /\ Accepted(message)]
      BY <1>4, <2>2 DEF ExecuteSlot
    <3>2. /\ BankInvariant' /\ snapshot' = Status(active)
          /\ closed' \subseteq Contacts
          /\ queued' \in 0 .. TrsCapacity
          /\ dropped' \in BOOLEAN /\ overflow' \in BOOLEAN /\ lost' \in BOOLEAN
          /\ lost' => overflow' \/ dropped'
      BY <2>1, <3>1, PerformKeeps
    <3>3. PICK accepted \in BOOLEAN :
            engine' = [engine EXCEPT !.slot = @ + 1, !.accepted = accepted]
      <4>1. (engine.accepted /\ Accepted(message)) \in BOOLEAN
        OBVIOUS
      <4> QED  BY <3>1, <4>1
    <3>4. engine' \in [page : Pages, switch : Switches, kind : Triggers, slot : Nat \ {0},
                      position : {"One", "Two"}, accepted : BOOLEAN]
      <4>1. engine \in [page : Pages, switch : Switches, kind : Triggers, slot : Nat \ {0},
                        position : {"One", "Two"}, accepted : BOOLEAN]
        BY <1>1, <2>1
      <4>2. engine.slot + 1 \in Nat \ {0}
        BY <4>1
      <4>3. PICK slot \in Nat \ {0} : engine' = [engine EXCEPT !.slot = slot, !.accepted = accepted]
        BY <3>3, <4>2
      <4> QED  BY <4>1, <4>3, Zenon
    <3> QED  BY <1>1, <2>1, <3>2, <3>4 DEF gesture_vars
  <2>3. CASE ~SlotMatches
    <3>1. engine' = [engine EXCEPT !.slot = @ + 1] /\ UNCHANGED <<bank_vars, output_vars, history>>
      BY <1>4, <2>3 DEF ExecuteSlot
    <3>2. BankInvariant' /\ UNCHANGED snapshot
      BY <1>1, <2>1, <3>1, BankStutters DEF BankInvariant, bank_vars
    <3>3. engine' \in [page : Pages, switch : Switches, kind : Triggers, slot : Nat \ {0},
                      position : {"One", "Two"}, accepted : BOOLEAN]
      BY <1>1, <2>1, <3>1
    <3> QED  BY <1>1, <2>1, <3>1, <3>2, <3>3 DEF gesture_vars, output_vars, history
  <2> QED  BY <2>2, <2>3
<1>5. ASSUME FinishPreset
      PROVE  BankInvariant' /\ OthersTypeOK' /\ SnapshotIsCurrent' /\ LossesAreNoted' /\ ActionsAreLatched'
  <2>1. BankInvariant' /\ UNCHANGED snapshot
    BY <1>1, <1>5, BankStutters DEF FinishPreset, BankInvariant, bank_vars
  <2>2. Executing.id \in Nat
    BY <1>5, ExecutingIsPreset DEF FinishPreset, RuntimeInvariant, Presets
  <2>3. Executing.id % PresetCount \in 0 .. PresetCount - 1
    <3>1. Executing.id \in Int /\ PresetCount \in Nat \ {0}
      BY <2>2, RuntimeAssumption
    <3> HIDE DEF Executing
    <3> QED  BY <3>1, Remainder
  <2>4. second' \subseteq 0 .. PresetCount - 1
    BY <1>1, <1>5, <2>3 DEF FinishPreset, Toggle
  <2>5. overflow' \in BOOLEAN /\ (overflow => overflow')
    BY <1>1, <1>5 DEF FinishPreset
  <2> QED  BY <1>1, <1>5, <2>1, <2>4, <2>5 DEF FinishPreset, gesture_vars
<1>6. ASSUME NEW kind \in {"ChordPress", "ChordRepeat", "ChordRelease"},
             NEW operation \in {"BankUp", "BankDown", "PageUp", "PageDown"},
             HandleChord(kind, operation)
      PROVE  BankInvariant' /\ OthersTypeOK' /\ SnapshotIsCurrent' /\ LossesAreNoted' /\ ActionsAreLatched'
  <2>1. snapshot = Status(active) /\ UNCHANGED active
    BY <1>1, <1>6 DEF HandleChord
  <2>2. BankInvariant' /\ snapshot' = Status(active)
    BY <1>1, <1>6, <2>1, NavigateKeepsBank, BankStutters DEF HandleChord, BankInvariant, bank_vars
  <2> QED  BY <1>1, <1>6, <2>1, <2>2 DEF HandleChord, output_vars
<1>7. ASSUME SampleExpression
      PROVE  BankInvariant' /\ OthersTypeOK' /\ SnapshotIsCurrent' /\ LossesAreNoted' /\ ActionsAreLatched'
  <2>1. BankInvariant' /\ UNCHANGED snapshot
    BY <1>1, <1>7, BankStutters DEF SampleExpression, BankInvariant, bank_vars
  <2>2. /\ queued' \in 0 .. TrsCapacity
        /\ dropped' \in BOOLEAN /\ overflow' \in BOOLEAN /\ lost' \in BOOLEAN
        /\ lost' => overflow' \/ dropped'
    BY <1>1, <1>7, SendNotes DEF SampleExpression
  <2> QED  BY <1>1, <1>7, <2>1, <2>2 DEF SampleExpression, gesture_vars
<1>8. ASSUME EndTick
      PROVE  BankInvariant' /\ OthersTypeOK' /\ SnapshotIsCurrent' /\ LossesAreNoted' /\ ActionsAreLatched'
  <2>1. BankInvariant'
    BY <1>1, <1>8, BankStutters DEF EndTick, BankInvariant
  <2>2. overflow' \in BOOLEAN /\ (lost' => overflow')
    BY <1>1, <1>8 DEF EndTick, history
  <2> QED  BY <1>1, <1>8, <2>1, <2>2 DEF EndTick, gesture_vars, history
<1>9. ASSUME NEW image \in Images \cup {active}, ServiceUsb(image)
      PROVE  BankInvariant' /\ OthersTypeOK' /\ SnapshotIsCurrent' /\ LossesAreNoted' /\ ActionsAreLatched'
  <2>1. BankInvariant'
    BY <1>1, <1>9, BankStutters DEF ServiceUsb, BankInvariant
  <2> QED  BY <1>1, <1>9, <2>1 DEF ServiceUsb, output_vars, gesture_vars, history
<1>10. ASSUME NEW writable \in BOOLEAN, FinishPass(writable)
       PROVE  BankInvariant' /\ OthersTypeOK' /\ SnapshotIsCurrent' /\ LossesAreNoted' /\ ActionsAreLatched'
  <2>1. BankInvariant'
    BY <1>1, <1>10, BankStutters DEF FinishPass, BankInvariant
  <2>2. queued' \in 0 .. TrsCapacity
    BY <1>1, <1>10, RuntimeAssumption DEF FinishPass
  <2> QED  BY <1>1, <1>10, <2>1, <2>2 DEF FinishPass, gesture_vars, history
<1>11. ASSUME Restart
       PROVE  BankInvariant' /\ OthersTypeOK' /\ SnapshotIsCurrent' /\ LossesAreNoted' /\ ActionsAreLatched'
  <2>1. page_index' \in Pages
    BY <1>11, RuntimeAssumption DEF Restart, Booted, Pages
  <2>2. BankInvariant'
    BY <1>1, <1>11, <2>1, LoadKeepsBank DEF Restart, Booted
  <2>3. 0 \in 0 .. TrsCapacity
    BY RuntimeAssumption
  <2>4. OthersTypeOK'
    BY <1>11, <2>3 DEF Restart, Booted, RelaysInitialized
  <2>5. phase' = "tick" /\ lost' = FALSE /\ dropped' = FALSE /\ touched' = FALSE
    BY <1>11 DEF Restart, Booted
  <2> QED  BY <2>2, <2>4, <2>5
<1>12. ASSUME UNCHANGED vars
       PROVE  BankInvariant' /\ OthersTypeOK' /\ SnapshotIsCurrent' /\ LossesAreNoted' /\ ActionsAreLatched'
  <2>1. BankInvariant'
    BY <1>1, <1>12, BankStutters DEF vars, BankInvariant
  <2> QED  BY <1>1, <1>12, <2>1 DEF vars, bank_vars, output_vars, gesture_vars, history
<1> QED  BY <1>2, <1>3, <1>4, <1>5, <1>6, <1>7, <1>8, <1>9, <1>10, <1>11, <1>12 DEF Next

-----------------------------------------------------------------------------
(* The theorems *)

\* The invariant of the live engine holds in every reachable state.
LEMMA InvariantHolds == Spec => []RuntimeInvariant
PROOF  BY InitInvariant, StepInvariant, PTL DEF Spec

\* The runtime keeps its types in every run: no page, position, relay or queue length leaves
\* its range, whatever the presets navigate to and whatever configuration is uploaded.
THEOREM RuntimeTypeCorrect == Spec => []RuntimeTypeOK
PROOF
<1>1. RuntimeInvariant => RuntimeTypeOK
  BY DEF RuntimeInvariant
<1> QED  BY <1>1, InvariantHolds, PTL

\* While gestures are handled, PedalRuntime plays from the bank which the active image has at
\* the selected index, across navigation, uploads and restarts.
THEOREM PlaysTheActive == Spec => []PlaysWhatIsActive
PROOF
<1>1. RuntimeInvariant => PlaysWhatIsActive
  BY TypeParts, CurrentBank DEF RuntimeInvariant, SnapshotIsCurrent, PlaysWhatIsActive
<1> QED  BY <1>1, InvariantHolds, PTL

\* After tick, the diagnostic that the display shows tells of every message which the TRS queue
\* refused or USB dropped since boot.
THEOREM LossesAreShown == Spec => []NothingLostSilently
PROOF
<1>1. RuntimeInvariant => NothingLostSilently
  BY DEF RuntimeInvariant, LossesAreNoted, NothingLostSilently
<1> QED  BY <1>1, InvariantHolds, PTL

\* The USB side never changes the configuration in a pass of the main loop that had a switch
\* down, executed a preset or handled a chord.
THEOREM ConfigurationWaits == Spec => ChangesBetweenActions
PROOF
<1>1. ASSUME RuntimeInvariant, [Next]_vars
      PROVE  [active' # active => ~touched]_vars
  <2> SUFFICES ASSUME Next, active' # active PROVE ~touched
    BY <1>1
  <2>1. PICK image \in Images \cup {active} : ServiceUsb(image)
    BY DEF Next, BeginTick, HandleSwitch, ExecuteSlot, FinishPreset, HandleChord, SampleExpression,
           EndTick, FinishPass, Restart
  <2> QED  BY <1>1, <2>1 DEF ServiceUsb, RuntimeInvariant, ActionsAreLatched
<1> QED  BY <1>1, InvariantHolds, PTL DEF Spec, ChangesBetweenActions

-----------------------------------------------------------------------------
(***************************************************************************)
(* What an event gives out. execute reads slot by slot through a reference *)
(* into the working bank; as long as the bank is not changed, that is the  *)
(* preset of the event, and what was performed grows by the slot at hand   *)
(* exactly when the event asks for it.                                     *)
(***************************************************************************)
GivenOut == [slot : Nat, message : Messages, accepted : BOOLEAN]

\* The parts of PresetOnItsWay.
OriginIsOfEngine ==
  origin \in [preset : Presets, kind : {engine.kind}, position : {engine.position}, rebanked : BOOLEAN]

SoFar ==
  /\ Executing = origin.preset
  /\ PerformedSlots = {i \in Asked : i < engine.slot} /\ InSlotOrder /\ AsOrigin

\* The indices of a sequence and of the one that is longer by one element.
LEMMA Appended ==
  ASSUME NEW S, NEW seq \in Seq(S), NEW e \in S
  PROVE  /\ Append(seq, e) \in Seq(S)
         /\ DOMAIN Append(seq, e) = DOMAIN seq \cup {Len(seq) + 1}
         /\ \A i \in DOMAIN seq : Append(seq, e)[i] = seq[i] /\ i \in Nat /\ i < Len(seq) + 1
         /\ Append(seq, e)[Len(seq) + 1] = e
         /\ Len(seq) + 1 \notin DOMAIN seq
PROOF  OBVIOUS

\* An event begins with nothing given out.
LEMMA ExecuteStarts ==
  ASSUME RuntimeInvariant, NEW s \in Switches, NEW kind \in Triggers, Execute(s, kind),
         UNCHANGED bank
  PROVE  PresetOnItsWay'
PROOF
<1> DEFINE preset == bank.pages[page_index][s]
<1>1. preset \in Presets /\ Position(preset) \in {"One", "Two"}
  BY DEF RuntimeInvariant, RuntimeTypeOK, Banks, Position
<1>2. /\ engine'.kind = kind /\ engine'.position = Position(preset) /\ engine'.slot = 1
      /\ engine'.page = page_index /\ engine'.switch = s /\ engine'.accepted = TRUE
      /\ origin' = [preset |-> preset, kind |-> kind, position |-> Position(preset), rebanked |-> FALSE]
      /\ performed' = <<>>
  BY Zenon DEF Execute
<1> HIDE DEF preset
<1>3. OriginIsOfEngine'
  BY <1>1, <1>2 DEF OriginIsOfEngine
<1>4. performed' \in Seq(GivenOut) /\ DOMAIN performed' = {}
  BY <1>2
<1>5. AllAccepted' /\ InSlotOrder' /\ AsOrigin' /\ PerformedSlots' = {}
  BY <1>4 DEF AllAccepted, InSlotOrder, AsOrigin, PerformedSlots
<1>6. Executing' = origin'.preset
  BY <1>2 DEF Executing, preset
<1>7. {i \in Asked' : i < engine'.slot} = {}
  <2>1. origin'.preset.slots \in Seq(Slots)
    BY <1>1, <1>2 DEF Presets
  <2> QED  BY <1>2, <2>1 DEF Asked
<1> QED  BY <1>2, <1>3, <1>4, <1>5, <1>6, <1>7 DEF PresetOnItsWay, OriginIsOfEngine, GivenOut

\* A slot adds its message if the event asks for it, and nothing otherwise.
LEMMA SlotKeepsOrder ==
  ASSUME RuntimeInvariant, PresetOnItsWay, ExecuteSlot
  PROVE  PresetOnItsWay'
PROOF
<1> DEFINE message == Executing.slots[engine.slot].message
           given == [slot |-> engine.slot, message |-> message, accepted |-> Accepted(message)]
<1>1. /\ phase = "slots" /\ engine.slot \in 1 .. Len(Executing.slots)
      /\ engine \in [page : Pages, switch : Switches, kind : Triggers, slot : Nat \ {0},
                     position : {"One", "Two"}, accepted : BOOLEAN]
  BY DEF ExecuteSlot, RuntimeInvariant, RuntimeTypeOK
<1>2. /\ OriginIsOfEngine /\ performed \in Seq(GivenOut) /\ (engine.accepted <=> AllAccepted)
      /\ ~origin.rebanked => SoFar
  BY <1>1 DEF PresetOnItsWay, OriginIsOfEngine, SoFar, GivenOut
<1>3. message \in Messages
  BY <1>1, SlotMessage DEF RuntimeInvariant
<1>4. Asked = {i \in 1 .. Len(origin.preset.slots) :
                 Matches(origin.preset.slots[i], origin.kind, origin.position)}
  <2>1. origin.preset.slots \in Seq(Slots)
    BY <1>2 DEF OriginIsOfEngine, Presets
  <2> QED  BY <2>1 DEF Asked
<1>5. SoFar => (engine.slot \in Asked <=> SlotMatches)
  BY <1>1, <1>2, <1>4 DEF SoFar, SlotMatches, OriginIsOfEngine
<1>6. \A i \in Asked : i < engine.slot + 1 <=> i < engine.slot \/ i = engine.slot
  BY <1>1, <1>4
<1>7. CASE SlotMatches
  <2>1. /\ engine' = [engine EXCEPT !.slot = @ + 1, !.accepted = @ /\ Accepted(message)]
        /\ performed' = Append(performed, given)
        /\ origin' = [origin EXCEPT !.rebanked = @ \/ bank' # bank]
    BY <1>7 DEF ExecuteSlot
  <2>2. Accepted(message) \in BOOLEAN
    BY <1>3 DEF Accepted, Messages, TrsRefuses, Reachable, RuntimeInvariant, RuntimeTypeOK
  <2>3. given \in GivenOut /\ given.slot = engine.slot /\ given.message = message
        /\ given.accepted = Accepted(message)
    BY <1>1, <1>3, <2>2 DEF GivenOut
  <2> HIDE DEF given
  <2>4. /\ engine'.slot = engine.slot + 1 /\ engine'.page = engine.page
        /\ engine'.switch = engine.switch /\ engine'.kind = engine.kind
        /\ engine'.position = engine.position
        /\ engine'.accepted = (engine.accepted /\ Accepted(message))
    <3> HIDE DEF message
    <3> QED  BY <1>1, <2>1, Zenon
  <2>5. /\ origin'.preset = origin.preset /\ origin'.kind = origin.kind
        /\ origin'.position = origin.position
        /\ origin'.rebanked = (origin.rebanked \/ bank' # bank)
        /\ OriginIsOfEngine'
    <3>1. PICK rebanked \in BOOLEAN : rebanked = (origin.rebanked \/ bank' # bank)
      BY <1>2 DEF OriginIsOfEngine
    <3>2. origin' = [origin EXCEPT !.rebanked = rebanked]
      BY <2>1, <3>1
    <3> QED  BY <1>2, <2>4, <3>1, <3>2 DEF OriginIsOfEngine
  <2>6. /\ performed' \in Seq(GivenOut)
        /\ DOMAIN performed' = DOMAIN performed \cup {Len(performed) + 1}
        /\ \A i \in DOMAIN performed :
             performed'[i] = performed[i] /\ i \in Nat /\ i < Len(performed) + 1
        /\ performed'[Len(performed) + 1] = given
    BY <1>2, <2>1, <2>3, Appended
  <2>7. engine'.accepted <=> AllAccepted'
    <3>1. AllAccepted' <=> AllAccepted /\ given.accepted
      BY <2>6 DEF AllAccepted
    <3> QED  BY <1>2, <2>3, <2>4, <3>1
  <2>8. ASSUME ~origin'.rebanked  PROVE SoFar'
    <3>1. SoFar /\ bank' = bank
      BY <1>2, <2>5, <2>8
    <3>2. Executing' = origin'.preset
      BY <2>4, <2>5, <3>1 DEF SoFar, Executing
    <3>3. PerformedSlots' = PerformedSlots \cup {engine.slot}
      BY <2>3, <2>6 DEF PerformedSlots
    <3>4. Asked' = Asked
      BY <2>5 DEF Asked
    <3>5. PerformedSlots' = {i \in Asked' : i < engine'.slot}
      BY <1>5, <1>6, <1>7, <2>4, <3>1, <3>3, <3>4 DEF SoFar
    <3>6. AsOrigin'
      <4>1. given.message = origin'.preset.slots[given.slot].message
        BY <2>3, <2>5, <3>1 DEF SoFar
      <4> QED  BY <2>5, <2>6, <3>1, <4>1 DEF SoFar, AsOrigin
    <3>7. InSlotOrder'
      <4>1. \A i \in DOMAIN performed : performed[i].slot < engine.slot
        BY <3>1 DEF SoFar, PerformedSlots
      <4>2. Len(performed) \in Nat
        BY <1>2
      <4> QED  BY <2>3, <2>6, <3>1, <4>1, <4>2 DEF SoFar, InSlotOrder
    <3> QED  BY <3>2, <3>5, <3>6, <3>7 DEF SoFar
  <2> QED  BY <2>5, <2>6, <2>7, <2>8 DEF PresetOnItsWay, OriginIsOfEngine, SoFar, GivenOut
<1>8. CASE ~SlotMatches
  <2>1. engine' = [engine EXCEPT !.slot = @ + 1] /\ UNCHANGED <<bank, origin, performed>>
    BY <1>8 DEF ExecuteSlot, bank_vars, history
  <2>2. /\ engine'.slot = engine.slot + 1 /\ engine'.page = engine.page
        /\ engine'.switch = engine.switch /\ engine'.kind = engine.kind
        /\ engine'.position = engine.position /\ engine'.accepted = engine.accepted
    BY <1>1, <2>1
  <2>3. OriginIsOfEngine' /\ performed' \in Seq(GivenOut) /\ (engine'.accepted <=> AllAccepted')
    BY <1>2, <2>1, <2>2 DEF OriginIsOfEngine, AllAccepted
  <2>4. ASSUME ~origin'.rebanked  PROVE SoFar'
    <3>1. SoFar
      BY <1>2, <2>1, <2>4
    <3>2. Asked' = Asked /\ Executing' = Executing /\ PerformedSlots' = PerformedSlots
      BY <2>1, <2>2 DEF Asked, Executing, PerformedSlots
    <3>3. PerformedSlots' = {i \in Asked' : i < engine'.slot}
      BY <1>5, <1>6, <1>8, <2>2, <3>1, <3>2 DEF SoFar
    <3> QED  BY <2>1, <3>1, <3>2, <3>3 DEF SoFar, InSlotOrder, AsOrigin
  <2> QED  BY <2>3, <2>4 DEF PresetOnItsWay, OriginIsOfEngine, SoFar, GivenOut
<1> QED  BY <1>7, <1>8

\* The rest of the main loop only begins and ends presets.
LEMMA StepKeepsOrder ==
  ASSUME RuntimeInvariant, PresetOnItsWay, [Next]_vars
  PROVE  PresetOnItsWay'
PROOF
<1>1. ASSUME NEW s \in Switches, NEW kind \in Triggers, HandleSwitch(s, kind)
      PROVE  PresetOnItsWay'
  <2>1. CASE bank_loaded
    BY <1>1, <2>1, ExecuteStarts DEF HandleSwitch, bank_vars
  <2>2. CASE ~bank_loaded
    BY <1>1, <2>2 DEF HandleSwitch, PresetOnItsWay
  <2> QED  BY <2>1, <2>2
<1>2. CASE UNCHANGED vars
  <2>1. UNCHANGED <<phase, engine, origin, performed, bank>>
    BY <1>2 DEF vars, bank_vars, history
  <2> QED  BY <2>1 DEF PresetOnItsWay, AllAccepted, Executing, PerformedSlots, Asked, InSlotOrder, AsOrigin
<1>3. CASE phase' # "slots"
  BY <1>3 DEF PresetOnItsWay
<1>4. ASSUME Next, phase' = "slots"
      PROVE  ExecuteSlot \/ \E s \in Switches, kind \in Triggers : HandleSwitch(s, kind)
  BY <1>4 DEF Next, BeginTick, FinishPreset, HandleChord, SampleExpression, EndTick, ServiceUsb,
              FinishPass, Restart, Booted
<1> QED  BY <1>1, <1>2, <1>3, <1>4, SlotKeepsOrder

\* What is given out follows the preset in every reachable state.
LEMMA OrderHolds == Spec => [](RuntimeInvariant /\ PresetOnItsWay)
PROOF
<1>1. Init => PresetOnItsWay
  BY DEF Init, PresetOnItsWay
<1>2. RuntimeInvariant /\ PresetOnItsWay /\ [Next]_vars => PresetOnItsWay'
  BY StepKeepsOrder
<1> QED  BY <1>1, <1>2, InvariantHolds, PTL DEF Spec

\* Past its last slot, a preset has given out what the event asked for.
LEMMA DoneIsWhole ==
  ASSUME RuntimeInvariant, PresetOnItsWay, PresetDone, ~origin.rebanked
  PROVE  RunsWhole
PROOF
<1>1. SoFar /\ OriginIsOfEngine
  BY DEF PresetDone, PresetOnItsWay, SoFar, OriginIsOfEngine
<1>2. Asked \subseteq 1 .. Len(Executing.slots) /\ Len(Executing.slots) \in Nat
  <2>1. origin.preset.slots \in Seq(Slots)
    BY <1>1 DEF OriginIsOfEngine, Presets
  <2> QED  BY <1>1, <2>1 DEF SoFar, Asked
<1>3. engine.slot \in Nat /\ engine.slot > Len(Executing.slots)
  BY DEF PresetDone, RuntimeInvariant, RuntimeTypeOK
<1>4. \A i \in Asked : i < engine.slot
  BY <1>2, <1>3
<1> QED  BY <1>1, <1>4 DEF SoFar, RunsWhole

\* ActionEngine::execute gives out, for an event, the messages of the preset that match it and
\* the position the preset had: all of them, in slot order, whatever these messages do to the
\* page, the relays and the queue, unless one of them changes the bank.
THEOREM PresetsRunWhole == Spec => []PresetRunsWhole
PROOF
<1>1. RuntimeInvariant /\ PresetOnItsWay => PresetRunsWhole
  BY DoneIsWhole DEF PresetRunsWhole
<1> QED  BY <1>1, OrderHolds, PTL

\* A preset's position moves at the end of an event that toggles it, if every message was
\* accepted, and at no other time but a restart.
THEOREM PositionsMoveLast == Spec => PositionMovesLast
PROOF
<1>1. ASSUME RuntimeInvariant, PresetOnItsWay, [Next]_vars
      PROVE  [/\ second' # second => PresetDone \/ phase' = "tick"
              /\ PresetDone /\ phase' = "events" /\ ~origin.rebanked =>
                   (second' # second <=>
                      origin.preset.toggle_on = origin.kind /\ RunsWhole /\ AllAccepted)]_vars
  <2>1. SUFFICES ASSUME Next
        PROVE  /\ second' # second => PresetDone \/ phase' = "tick"
               /\ PresetDone /\ phase' = "events" /\ ~origin.rebanked =>
                    (second' # second <=>
                       origin.preset.toggle_on = origin.kind /\ RunsWhole /\ AllAccepted)
    BY <1>1
  <2>2. ASSUME second' # second  PROVE PresetDone \/ phase' = "tick"
    BY <2>1, <2>2 DEF Next, BeginTick, HandleSwitch, ExecuteSlot, FinishPreset, HandleChord,
                      SampleExpression, EndTick, ServiceUsb, FinishPass, Restart, Booted, PresetDone
  <2>3. ASSUME PresetDone, phase' = "events", ~origin.rebanked
        PROVE  second' # second <=>
                 origin.preset.toggle_on = origin.kind /\ RunsWhole /\ AllAccepted
    <3>1. FinishPreset
      BY <2>1, <2>3 DEF Next, BeginTick, HandleSwitch, ExecuteSlot, HandleChord,
                        SampleExpression, EndTick, ServiceUsb, FinishPass, Restart, Booted, PresetDone
    <3>2. Executing = origin.preset /\ origin.kind = engine.kind /\ (engine.accepted <=> AllAccepted)
      BY <1>1, <2>3 DEF PresetDone, PresetOnItsWay
    <3>3. RunsWhole
      BY <1>1, <2>3, DoneIsWhole
    <3>4. Toggle(Executing) => second' # second
      BY DEF Toggle
    <3> QED  BY <3>1, <3>2, <3>3, <3>4 DEF FinishPreset
  <2> QED  BY <2>2, <2>3
<1> QED  BY <1>1, OrderHolds, PTL DEF Spec, PositionMovesLast
=============================================================================
