--------------------------- MODULE MCEditorState ---------------------------
(***************************************************************************)
(* EditorState with two banks of one page and one preset, up to two        *)
(* messages in each, and two files: one with messages of two types and the *)
(* last id there is, one with the id of a bank that the import fills in.   *)
(***************************************************************************)
EXTENDS EditorState

MCNames == {<<70>>}
MCLabels == {<<71, 233>>}
MCAccents == {65536 + 8}
MCNumbers == {0, 200, 257}

Slot(id, message) ==
  [id |-> id, trigger |-> "LONG_PRESS", position |-> "POSITION_2", message |-> message]

SetBank == [type |-> "NAV", operation |-> "BANK_SET", target |-> 2]
Control == [type |-> "CC", channel |-> 2, controller |-> 3, value |-> 4,
            destination |-> "TRS"]

\* The first bank, with these messages in its first preset.
File(slots) ==
  <<[DefaultBank(1) EXCEPT !.id = 5, !.pages[1].presets[1].slots = slots,
                           !.expression.enabled = TRUE]>>

MCFiles == {File(<<Slot(4, SetBank), Slot(LastId, Control)>>),
            File(<<Slot(DefaultBank(2).id, SetBank)>>)}

\* The last edit is checked and not followed further.
BeforeLastEdit == edits < MaxEdits
=============================================================================
