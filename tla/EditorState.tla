---------------------------- MODULE EditorState ----------------------------
(***************************************************************************)
(* The browser editor: its reducer (editor/src/domain/editor_reducer.ts)   *)
(* with every edit that the inspector and the page map offer, and what     *)
(* App.tsx does around it: connect, import, sync and a sync that ends      *)
(* while the user went on editing.                                         *)
(*                                                                         *)
(* The session is taken as a whole: a sync carries the configuration of    *)
(* the moment of the click, and ends with that image on the pedal, refused *)
(* by the pedal's validation, or lost with the connection before or after  *)
(* the pedal activated it (EditorLink has the requests in between).  The   *)
(* texts and progress that the status bar shows are left out.  A field     *)
(* accepts what can be typed: the limits of a number field are not         *)
(* enforced by the browser, the length of a text field is.                 *)
(***************************************************************************)
EXTENDS ConfigImage

CONSTANTS Names,        \* what is typed as the name of a bank
          Labels,       \* and as a label
          Accents,      \* RGB565 colours
          Numbers,      \* what is typed into a number field
          Files,        \* the configurations of the files that are imported
          MaxEdits      \* bound: edits of the whole behaviour

VARIABLES draft,        \* state.draft.config.banks
          dirty,        \* state.dirty
          selection,    \* the selected bank, page and preset
          connected,    \* state.device.connected, with a session
          upload,       \* the configuration of the sync under way, or none
          touched,      \* whether the draft changed since that click
          pedal,        \* the image that the pedal runs
          edits,        \* the edits that were made
          open          \* FALSE once the reducer threw: the page is blank

vars == <<draft, dirty, selection, connected, upload, touched, pedal, edits, open>>

Image(config) == CHOOSE image \in EncodeImage(config) : TRUE

Init == /\ draft = FactoryDocument
        /\ dirty = FALSE
        /\ selection = [bank |-> 1, page |-> 1, preset |-> 1]
        /\ connected = FALSE
        /\ upload = {}
        /\ touched = FALSE
        /\ pedal = Image(FactoryDocument)
        /\ edits = 0
        /\ open = TRUE

\* An upload ends without an answer, before or after the pedal activated it.
Unanswered ==
  /\ pedal' \in {pedal} \cup
       {image \in UNION {EncodeImage(config) : config \in upload} : ValidateAllBanks(image)}
  /\ upload' = {}

\* The session ends, and with it an upload.
CutOff == Unanswered /\ connected' = FALSE

----------------------------------------------------------------------------
(* Selecting.  A new bank shows its first page, a new page its first       *)
(* preset.                                                                 *)

Select(place) ==
  /\ open
  /\ selection' = place
  /\ UNCHANGED <<draft, dirty, connected, upload, touched, pedal, edits, open>>

SelectBank(bank) == Select([bank |-> bank, page |-> 1, preset |-> 1])
SelectPage(page) == Select([selection EXCEPT !.page = page, !.preset = 1])
SelectPreset(preset) == Select([selection EXCEPT !.preset = preset])

----------------------------------------------------------------------------
(* Edits of the selected bank or preset.                                   *)

SelectedBank == draft[selection.bank]
SelectedPreset == SelectedBank.pages[selection.page].presets[selection.preset]
Slots == SelectedPreset.slots

UpdateBank(bank) ==
  /\ open /\ edits < MaxEdits
  /\ draft' = [draft EXCEPT ![selection.bank] = bank]
  /\ dirty' = TRUE
  /\ touched' = (upload # {})
  /\ edits' = edits + 1
  /\ UNCHANGED <<selection, connected, upload, pedal, open>>

UpdatePreset(preset) ==
  UpdateBank([SelectedBank EXCEPT
                !.pages[selection.page].presets[selection.preset] = preset])

NameChanged(name) == UpdateBank([SelectedBank EXCEPT !.name = name])

ExpressionChanged(patch) ==
  UpdateBank([SelectedBank EXCEPT !.expression = patch @@ @])

LabelChanged(position, label) ==
  UpdatePreset(IF position = 1 THEN [SelectedPreset EXCEPT !.position1.label = label]
               ELSE [SelectedPreset EXCEPT !.position2.label = label])

AccentChanged(position, accent) ==
  UpdatePreset(IF position = 1
               THEN [SelectedPreset EXCEPT !.position1.accentRgb565 = accent]
               ELSE [SelectedPreset EXCEPT !.position2.accentRgb565 = accent])

ToggleChanged(trigger) == UpdatePreset([SelectedPreset EXCEPT !.toggleOn = trigger])

----------------------------------------------------------------------------
(* The messages of the selected preset.                                    *)

DefaultMessage(type) ==
  CASE type = "PC" -> [type |-> "PC", channel |-> 1, program |-> 0, destination |-> "BOTH"]
    [] type = "CC" -> [type |-> "CC", channel |-> 1, controller |-> 1, value |-> 127,
                       destination |-> "BOTH"]
    [] type = "RELAY" -> [type |-> "RELAY", contact |-> 1, operation |-> "TOGGLE"]
    [] type = "NAV" -> [type |-> "NAV", operation |-> "PAGE_UP"]

Types == {"PC", "CC", "RELAY", "NAV"}

\* Only the messages' ids are looked at.
NextId_OfSlots ==
  Max({0} \cup UNION {UNION {UNION {
        {preset.slots[i].id : i \in DOMAIN preset.slots} :
          preset \in ToSet(page.presets)} : page \in ToSet(bank.pages)} :
            bank \in ToSet(draft)}) + 1

\* One more than the largest id of the draft.
NextId == Max(Range(Ids(draft))) + 1

SlotAdded(type) ==
  /\ Len(Slots) < SlotLimit
  /\ NextId <= LastId
  /\ UpdatePreset([SelectedPreset EXCEPT !.slots = Append(@,
       [id |-> NextId, trigger |-> "PRESS", position |-> "BOTH",
        message |-> DefaultMessage(type)])])

\* With the largest id in use the reducer throws, and React shows no page.
NoIdRemains ==
  /\ open
  /\ Len(Slots) < SlotLimit
  /\ NextId > LastId
  /\ open' = FALSE
  /\ CutOff
  /\ UNCHANGED <<draft, dirty, selection, touched, edits>>

\* What the fields of a message offer: the fields of another type, or one
\* field of this type.
TypePatches == {DefaultMessage(type) : type \in Types}

FieldPatches(m) ==
  CASE m.type \in {"PC", "CC"} ->
         {field :> number : field \in FieldsOf(m.type) \ {"type", "destination"},
                            number \in Numbers}
           \cup {[destination |-> "USB"]}
    [] m.type = "RELAY" -> {[contact |-> 2], [operation |-> "OPEN"]}
    [] m.type = "NAV" ->
         {[type |-> "NAV", operation |-> operation] :
            operation \in {"BANK_UP", "PAGE_DOWN"}}
           \cup {[type |-> "NAV", operation |-> operation, target |-> 1] :
                   operation \in {"BANK_SET", "PAGE_SET"}}
           \cup IF m.operation \in {"BANK_SET", "PAGE_SET"}
                THEN {[target |-> number] : number \in Numbers} ELSE {}

\* The patch is merged into the message: fields it does not name stay.
MessageChanged(i, patch) ==
  UpdatePreset([SelectedPreset EXCEPT !.slots[i].message = patch @@ @])

TriggerChanged(i, trigger) ==
  UpdatePreset([SelectedPreset EXCEPT !.slots[i].trigger = trigger])

PositionChanged(i, position) ==
  UpdatePreset([SelectedPreset EXCEPT !.slots[i].position = position])

SlotRemoved(i) == UpdatePreset([SelectedPreset EXCEPT !.slots = RemoveAt(@, i)])

SlotMoved(from, to) ==
  /\ to \in DOMAIN Slots
  /\ UpdatePreset([SelectedPreset EXCEPT !.slots =
                     InsertAt(RemoveAt(@, from), to, @[from])])

----------------------------------------------------------------------------
(* Documents that replace the draft.                                       *)

\* A file is imported when validation accepts it; the status does not change
\* otherwise.
Import(file) ==
  /\ open
  /\ \E document \in ValidateConfig(file) : draft' = document
  /\ dirty' = TRUE
  /\ touched' = (upload # {})
  /\ UNCHANGED <<selection, connected, upload, pedal, edits, open>>

\* connect() reads the pedal: its document replaces the draft, edited or not.
Connect ==
  /\ open /\ ~connected /\ upload = {}
  /\ \E document \in ReadConfiguration(pedal) : draft' = document
  /\ connected' = TRUE
  /\ dirty' = FALSE
  /\ UNCHANGED <<selection, upload, touched, pedal, edits, open>>

----------------------------------------------------------------------------
(* Sync.  Bound: one at a time.                                            *)

Sync ==
  /\ open /\ connected /\ dirty /\ upload = {}
  /\ EncodeImage(draft) # {}
  /\ upload' = {draft}
  /\ touched' = FALSE
  /\ UNCHANGED <<draft, dirty, selection, connected, pedal, edits, open>>

SyncSucceeded ==
  \E config \in upload :
    /\ ValidateAllBanks(Image(config))
    /\ pedal' = Image(config)
    /\ dirty' = FALSE
    /\ upload' = {}
    /\ UNCHANGED <<draft, selection, connected, touched, edits, open>>

\* A refused sync clears the mark of the unsynchronized draft.
SyncRefused_Clears ==
  /\ \E config \in upload : ~ValidateAllBanks(Image(config))
  /\ upload' = {}
  /\ dirty' = FALSE
  /\ UNCHANGED <<draft, selection, connected, touched, pedal, edits, open>>

\* VERIFY_UPLOAD is refused: the pedal keeps its image.
SyncRefused ==
  /\ \E config \in upload : ~ValidateAllBanks(Image(config))
  /\ upload' = {}
  /\ UNCHANGED <<draft, dirty, selection, connected, touched, pedal, edits, open>>

\* The cable is pulled, or an answer stays away: the error says which.
SyncFailed ==
  /\ upload # {}
  /\ Unanswered
  /\ connected' \in BOOLEAN
  /\ UNCHANGED <<draft, dirty, selection, touched, edits, open>>

\* The page is loaded again, blank or not: nothing of the draft is kept.
Reload ==
  /\ CutOff
  /\ draft' = FactoryDocument
  /\ selection' = [bank |-> 1, page |-> 1, preset |-> 1]
  /\ dirty' = FALSE /\ touched' = FALSE /\ open' = TRUE
  /\ UNCHANGED edits

----------------------------------------------------------------------------

EditBank ==
  \/ \E name \in Names : NameChanged(name)
  \/ ExpressionChanged([enabled |-> ~SelectedBank.expression.enabled])
  \/ ExpressionChanged([inverted |-> ~SelectedBank.expression.inverted])
  \/ \E label \in Labels : ExpressionChanged([label |-> label])
  \/ \E field \in {"channel", "controller", "minimum", "maximum"}, number \in Numbers :
       SelectedBank.expression.enabled /\ ExpressionChanged(field :> number)

EditPreset ==
  \/ \E position \in 1 .. 2, label \in Labels : LabelChanged(position, label)
  \/ \E position \in 1 .. 2, accent \in Accents : AccentChanged(position, accent)
  \/ ToggleChanged("PRESS")

EditSlots ==
  \/ \E type \in Types : SlotAdded(type)
  \/ \E i \in DOMAIN Slots :
       \/ \E patch \in TypePatches \cup FieldPatches(Slots[i].message) :
            MessageChanged(i, patch)
       \/ TriggerChanged(i, "RELEASE")
       \/ PositionChanged(i, "POSITION_1")
       \/ SlotRemoved(i)
       \/ \E to \in {i - 1, i + 1} : SlotMoved(i, to)

Next ==
  \/ \E bank \in 1 .. BankCount : SelectBank(bank)
  \/ \E page \in 1 .. PageCount : SelectPage(page)
  \/ \E preset \in 1 .. PresetCount : SelectPreset(preset)
  \/ EditBank \/ EditPreset \/ EditSlots \/ NoIdRemains
  \/ \E file \in Files : Import(file)
  \/ Connect \/ Sync \/ SyncSucceeded \/ SyncRefused \/ SyncFailed \/ Reload

Spec == Init /\ [][Next]_vars

----------------------------------------------------------------------------

\* What the editor reads back from an image, if it accepts it, compiles to that image again.
ReadsBack(image) ==
  \A document \in ReadConfiguration(image) : EncodeImage(document) = {image}

\* A draft that validation accepts compiles to an image that the pedal
\* accepts, that means the same to the pedal, bank by bank, and that the
\* editor reads back as the same draft (binary.ts against image_reader.cpp).
\* Of any other draft, cut to the widths of its fields, it reads back what
\* the pedal has, or nothing.
ValidDraftReachesPedal ==
  \A image \in EncodeImage(draft) :
    IF ~IsValid(draft) THEN ReadsBack(image)
    ELSE /\ ValidateAllBanks(image)
         /\ \A bank \in 1 .. BankCount :
              \A read \in LoadBank(image, bank) : Means(draft[bank], read)
         /\ ReadConfiguration(image) = {draft}

\* Whatever is added, removed, moved or imported, no two parts of the draft
\* share an id, and none has an id beyond the last (nextId and
\* validateMessageSemantics): the pedal keeps toggle positions by id.
IdsStayUnique == IdsAreUnique(draft)

\* When the editor shows no unsynchronized changes beside a connected pedal,
\* the draft is what the pedal runs, unless it was edited during the sync.
CleanDraftIsOnPedal ==
  connected /\ ~dirty /\ ~touched => EncodeImage(draft) = {pedal}

=============================================================================
