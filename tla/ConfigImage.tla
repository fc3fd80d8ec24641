---------------------------- MODULE ConfigImage ----------------------------
(***************************************************************************)
(* The configuration as the editor edits it, the image it is compiled to,  *)
(* and the two readers of that image: the pedal's ImageReader and the      *)
(* editor's decoder, with the editor's validation of a document            *)
(* (packages/protocol/src/binary.ts and validate.ts,                       *)
(* firmware/src/core/image_reader.cpp).                                    *)
(*                                                                         *)
(* A configuration is a sequence of banks.  A message is a record whose    *)
(* fields are those the editor's object has: the ones of its type and the  *)
(* ones an edit left behind.  A text is a sequence of code points.  Bank   *)
(* records are the bytes that are written; of the header and of the index  *)
(* the image keeps what the readers use.  Magic, version and checksum are  *)
(* left out: the images here are whole, and ConfigStore has the others.    *)
(***************************************************************************)
EXTENDS Integers, Sequences, SequencesExt, FiniteSetsExt, TLC

CONSTANTS BankCount,      \* 128 banks
          PageCount,      \* four pages in a bank
          PresetCount,    \* four presets in a page
          SlotLimit,      \* eight messages in a preset
          NameLimit,      \* 20 characters in the name of a bank
          LabelLimit,     \* 12 characters in a label
          ImageLimit,     \* 768 KiB
          LastId          \* the largest id

ASSUME ImageAssumption ==
  /\ {BankCount, SlotLimit} \subseteq 1 .. 255 /\ {PageCount, PresetCount} \subseteq 1 .. 4
  /\ {NameLimit, LabelLimit, ImageLimit, LastId} \subseteq Nat
  /\ \h30000000 + 16 * BankCount <= LastId

None == "NONE"

DestinationCode == [TRS |-> 0, USB |-> 1, BOTH |-> 2]
TriggerCode == [PRESS |-> 0, RELEASE |-> 1, LONG_PRESS |-> 2, DOUBLE_TAP |-> 3]
PositionCode == [POSITION_1 |-> 0, POSITION_2 |-> 1, BOTH |-> 2]
RelayCode == [OPEN |-> 0, CLOSE |-> 1, TOGGLE |-> 2]
NavCode == [BANK_UP |-> 0, BANK_DOWN |-> 1, BANK_SET |-> 2,
            PAGE_UP |-> 3, PAGE_DOWN |-> 4, PAGE_SET |-> 5]
ToggleCode == TriggerCode @@ (None :> 255)

----------------------------------------------------------------------------
(* Writing: a number loses the bits that do not fit its width.             *)

Bytes(value, width) == [i \in 1 .. width |-> (value \div 256 ^ (i - 1)) % 256]

\* TextEncoder: one byte for an ASCII character, two for the others of the
\* small sets used here.
Utf8(character) == IF character < 128 THEN <<character>>
                   ELSE <<192 + (character \div 64), 128 + (character % 64)>>

WriteText(text) ==
  LET encoded == FlattenSeq([i \in 1 .. Len(text) |-> Utf8(text[i])])
  IN Bytes(Len(encoded), 1) \o encoded

WriteMessage(m) ==
  CASE m.type = "PC" ->
         <<0>> \o Bytes(m.channel, 1) \o Bytes(m.program, 1)
               \o <<DestinationCode[m.destination]>>
    [] m.type = "CC" ->
         <<1>> \o Bytes(m.channel, 1) \o Bytes(m.controller, 1)
               \o Bytes(m.value, 1) \o <<DestinationCode[m.destination]>>
    [] m.type = "RELAY" ->
         <<2>> \o Bytes(m.contact, 1) \o <<RelayCode[m.operation]>>
    [] m.type = "NAV" ->
         <<3, NavCode[m.operation]>>
           \o Bytes(IF "target" \in DOMAIN m THEN m.target ELSE 0, 1)

WriteSlot(slot) ==
  Bytes(slot.id, 4) \o <<TriggerCode[slot.trigger], PositionCode[slot.position]>>
    \o WriteMessage(slot.message)

WriteView(view) == WriteText(view.label) \o Bytes(view.accentRgb565, 2)

WritePreset(preset) ==
  Bytes(preset.id, 4) \o WriteView(preset.position1) \o WriteView(preset.position2)
    \o <<ToggleCode[preset.toggleOn]>> \o Bytes(Len(preset.slots), 1)
    \o FlattenSeq([i \in DOMAIN preset.slots |-> WriteSlot(preset.slots[i])])

Flag(on) == IF on THEN <<1>> ELSE <<0>>

WriteExpression(e) ==
  Flag(e.enabled) \o WriteText(e.label) \o Bytes(e.channel, 1)
    \o Bytes(e.controller, 1) \o <<DestinationCode[e.destination]>>
    \o Bytes(e.minimum, 1) \o Bytes(e.maximum, 1) \o Flag(e.inverted)

WritePage(page) ==
  Bytes(page.id, 4)
    \o FlattenSeq([i \in 1 .. PresetCount |-> WritePreset(page.presets[i])])

\* The record starts with its own length, those four bytes included.
WriteBank(bank) ==
  LET body == Bytes(bank.id, 4) \o WriteText(bank.name)
                \o WriteExpression(bank.expression)
                \o FlattenSeq([i \in 1 .. PageCount |-> WritePage(bank.pages[i])])
  IN Bytes(Len(body) + 4, 4) \o body

\* The header and the index come first: 32 bytes and four for every bank
\* there can be.  A bank that is missing has no offset.
PayloadOffset == 32 + 4 * BankCount
EmptyOffset == -1

\* The image of a configuration: none when it is too large.
EncodeImage(config) ==
  LET records == [i \in DOMAIN config |-> WriteBank(config[i])]
      offset == [i \in 1 .. BankCount |->
                   IF i > Len(config) THEN EmptyOffset
                   ELSE Len(FlattenSeq(SubSeq(records, 1, i - 1)))]
      payload == FlattenSeq(records)
  IN IF PayloadOffset + Len(payload) > ImageLimit THEN {}
     ELSE {[bankCount |-> Len(config), index |-> offset, payload |-> payload]}

----------------------------------------------------------------------------
(* Reading: a cursor over the bytes of one record, with the fields it has  *)
(* read.  A cursor that failed stays failed.                               *)

NoFields == [name \in {} |-> 0]
Cursor(bytes) == [bytes |-> bytes, at |-> 0, ok |-> TRUE, got |-> NoFields]

Then(c, Next(_)) == IF c.ok THEN Next(c) ELSE c
Check(c, Good(_)) == IF c.ok /\ Good(c.got) THEN c ELSE [c EXCEPT !.ok = FALSE]

\* A 32-bit word is read with its sign, for TLC's integers end at 2^31 - 1.
Number(bytes) ==
  LET digit(i) == IF i = 4 /\ bytes[4] > 127 THEN bytes[4] - 256 ELSE bytes[i]
  IN FoldLeft(LAMBDA sum, i : sum + digit(i) * 256 ^ (i - 1), 0,
              [i \in 1 .. Len(bytes) |-> i])

Got(c, name, value, width) ==
  [c EXCEPT !.at = @ + width, !.got = @ @@ (name :> value)]

ReadNumber(c, name, width) ==
  IF c.ok /\ c.at + width <= Len(c.bytes)
  THEN Got(c, name, Number(SubSeq(c.bytes, c.at + 1, c.at + width)), width)
  ELSE [c EXCEPT !.ok = FALSE]

\* A length and that many printable characters.
TextAt(c) == SubSeq(c.bytes, c.at + 2, c.at + 1 + c.bytes[c.at + 1])

ReadText(c, name, limit) ==
  IF /\ c.ok
     /\ c.at + 1 <= Len(c.bytes)
     /\ c.bytes[c.at + 1] <= limit
     /\ c.at + 1 + c.bytes[c.at + 1] <= Len(c.bytes)
     /\ ToSet(TextAt(c)) \subseteq 32 .. 126
  THEN Got(c, name, TextAt(c), 1 + c.bytes[c.at + 1])
  ELSE [c EXCEPT !.ok = FALSE]

U8(name) == [name |-> name, width |-> 1, text |-> FALSE]
U16(name) == [name |-> name, width |-> 2, text |-> FALSE]
U32(name) == [name |-> name, width |-> 4, text |-> FALSE]
Text(name, limit) == [name |-> name, width |-> limit, text |-> TRUE]

ReadAll(c, fields) ==
  FoldLeft(LAMBDA d, f : IF f.text THEN ReadText(d, f.name, f.width)
                         ELSE ReadNumber(d, f.name, f.width),
           c, fields)

\* A part is read into fields of its own, and put together with what came before it.
ReadPart(c, ReadOne(_), Whole(_, _)) ==
  Then(c, LAMBDA before :
            Then(ReadOne([before EXCEPT !.got = NoFields]),
                 LAMBDA part : [part EXCEPT !.got = Whole(before.got, @)]))

\* A number of parts one after the other, as a sequence.
ReadList(c, Count(_), ReadOne(_), Whole(_, _)) ==
  ReadPart(c, LAMBDA start :
                FoldLeft(LAMBDA list, i : ReadPart(list, ReadOne, Append),
                         [start EXCEPT !.got = << >>], [i \in 1 .. Count(c.got) |-> i]),
           Whole)

\* The end of a record: what it holds, or nothing when it was refused.
Complete(c) == IF c.ok /\ c.at = Len(c.bytes) THEN {c.got} ELSE {}

----------------------------------------------------------------------------
(* The pedal's reader (image_reader.cpp).  A message is read into a record *)
(* with a field for every kind of message.                                 *)

NoMessage == [kind |-> 0, destination |-> 2, channel |-> 0, data1 |-> 0,
              data2 |-> 0, contact |-> 0, operation |-> 0, target |-> 0]

MessageFields ==
  <<<<U8("channel"), U8("data1"), U8("destination")>>,
    <<U8("channel"), U8("data1"), U8("data2"), U8("destination")>>,
    <<U8("contact"), U8("operation")>>,
    <<U8("operation"), U8("target")>>>>
SlotFields == <<U32("id"), U8("trigger"), U8("position")>>
PresetFields(limit) == <<U32("id"), Text("label1", limit), U16("accent1"),
                         Text("label2", limit), U16("accent2"),
                         U8("toggleOn"), U8("slotCount")>>
BankFields(limit) == <<U32("length"), U32("id"), Text("name", limit)>>
ExpressionFields(limit) == <<U8("enabled"), Text("label", limit), U8("channel"),
                             U8("controller"), U8("destination"), U8("minimum"),
                             U8("maximum"), U8("inverted")>>

IsMessage(m) ==
  CASE m.kind \in {0, 1} -> /\ m.channel \in 1 .. 16
                            /\ m.data1 <= 127 /\ m.data2 <= 127
                            /\ m.destination <= 2
    [] m.kind = 2 -> m.contact \in 1 .. 2 /\ m.operation <= 2
    [] m.kind = 3 -> /\ m.operation <= 5
                     /\ m.target \in CASE m.operation = 2 -> 1 .. 128
                                        [] m.operation = 5 -> 1 .. 4
                                        [] OTHER -> {0}

\* The kind says which fields follow.
MessageParts(c) ==
  Then(Check(ReadNumber(c, "kind", 1), LAMBDA m : m["kind"] <= 3),
       LAMBDA kind : ReadAll(kind, MessageFields[kind.got["kind"] + 1]))

ReadMessage(c) ==
  Then(MessageParts(c),
       LAMBDA rest : Check([rest EXCEPT !.got = @ @@ NoMessage], IsMessage))

ReadSlot(c) ==
  ReadPart(Check(ReadAll(c, SlotFields),
                 LAMBDA s : s["id"] # 0 /\ s["trigger"] <= 3 /\ s["position"] <= 2),
           ReadMessage, LAMBDA s, message : s @@ ("message" :> message))

\* One message fewer than a preset can hold.
ReadPreset_OneTooFew(c) ==
  ReadList(Check(ReadAll(c, PresetFields(LabelLimit)),
                 LAMBDA p : /\ p["id"] # 0
                            /\ p["slotCount"] < SlotLimit
                            /\ p["toggleOn"] \in 0 .. 3 \cup {255}),
           LAMBDA p : p["slotCount"], ReadSlot, LAMBDA p, slots : p @@ ("slots" :> slots))

ReadPreset(c) ==
  ReadList(Check(ReadAll(c, PresetFields(LabelLimit)),
                 LAMBDA p : /\ p["id"] # 0
                            /\ p["slotCount"] <= SlotLimit
                            /\ p["toggleOn"] \in 0 .. 3 \cup {255}),
           LAMBDA p : p["slotCount"], ReadSlot, LAMBDA p, slots : p @@ ("slots" :> slots))

ReadPage(c) ==
  ReadList(ReadNumber(c, "id", 4), LAMBDA page : PresetCount, ReadPreset,
           LAMBDA page, presets : page @@ ("presets" :> presets))

ReadExpression(c) ==
  Check(ReadAll(c, ExpressionFields(LabelLimit)),
        LAMBDA e : /\ e["destination"] <= 2
                   /\ e["channel"] \in 1 .. 16
                   /\ e["controller"] <= 127
                   /\ e["minimum"] <= e["maximum"])

ReadHead(c) ==
  ReadPart(Check(ReadAll(c, BankFields(NameLimit)),
                 LAMBDA bank : bank["length"] = Len(c.bytes) /\ bank["id"] # 0),
           ReadExpression, LAMBDA bank, e : bank @@ ("expression" :> e))

\* The bank that a record holds: no bank when the record is refused.
ReadBankRecord(record) ==
  Complete(ReadList(ReadHead(Cursor(record)), LAMBDA bank : PageCount, ReadPage,
                    LAMBDA bank, pages : bank @@ ("pages" :> pages)))

\* Where a record starts and how long it is come from the image itself.
BankRecord(image, bank) ==
  LET offset == image.index[bank]
      bytes == image.payload
      length == Number(SubSeq(bytes, offset + 1, offset + 4))
  IN IF /\ bank <= image.bankCount
        /\ offset # EmptyOffset
        /\ offset + 4 <= Len(bytes)
        /\ length \in 4 .. Len(bytes) - offset
     THEN SubSeq(bytes, offset + 1, offset + length)
     ELSE << >>

LoadBank(image, bank) == ReadBankRecord(BankRecord(image, bank))

Inspect(image) == /\ PayloadOffset + Len(image.payload) <= ImageLimit
                  /\ image.bankCount <= BankCount

ValidateAllBanks(image) ==
  Inspect(image) /\ \A bank \in 1 .. image.bankCount : LoadBank(image, bank) # {}

----------------------------------------------------------------------------
(* The editor's reader (binary.ts): the same fields into the editor's      *)
(* words.  It checks what it needs to read on; validateConfig does the     *)
(* rest.                                                                   *)

WordOf(codes, code) == CHOOSE word \in DOMAIN codes : codes[word] = code
Codes(codes) == {codes[word] : word \in DOMAIN codes}

DecodedMessage(m) ==
  LET destination == WordOf(DestinationCode, m["destination"])
  IN CASE m["kind"] = 0 -> [type |-> "PC", channel |-> m["channel"],
                            program |-> m["data1"], destination |-> destination]
       [] m["kind"] = 1 -> [type |-> "CC", channel |-> m["channel"],
                            controller |-> m["data1"], value |-> m["data2"],
                            destination |-> destination]
       [] m["kind"] = 2 -> [type |-> "RELAY", contact |-> m["contact"],
                            operation |-> WordOf(RelayCode, m["operation"])]
       [] m["kind"] = 3 /\ m["target"] = 0 ->
            [type |-> "NAV", operation |-> WordOf(NavCode, m["operation"])]
       [] m["kind"] = 3 /\ m["target"] # 0 ->
            [type |-> "NAV", operation |-> WordOf(NavCode, m["operation"]),
             target |-> m["target"]]

DecodeMessage(c) ==
  Then(Check(MessageParts(c),
             LAMBDA m : CASE m["kind"] <= 1 -> m["destination"] \in Codes(DestinationCode)
                          [] m["kind"] = 2 -> m["operation"] \in Codes(RelayCode)
                          [] m["kind"] = 3 -> m["operation"] \in Codes(NavCode)),
       LAMBDA good : [good EXCEPT !.got = DecodedMessage(@)])

DecodedSlot(s, message) ==
  [id |-> s["id"], trigger |-> WordOf(TriggerCode, s["trigger"]),
   position |-> WordOf(PositionCode, s["position"]), message |-> message]

DecodeSlot(c) ==
  ReadPart(Check(ReadAll(c, SlotFields),
                 LAMBDA s : /\ s["trigger"] \in Codes(TriggerCode)
                            /\ s["position"] \in Codes(PositionCode)),
           DecodeMessage, DecodedSlot)

DecodedPreset(p, slots) ==
  [id |-> p["id"],
   position1 |-> [label |-> p["label1"], accentRgb565 |-> p["accent1"]],
   position2 |-> [label |-> p["label2"], accentRgb565 |-> p["accent2"]],
   toggleOn |-> WordOf(ToggleCode, p["toggleOn"]), slots |-> slots]

DecodePreset(c) ==
  ReadList(Check(ReadAll(c, PresetFields(255)),
                 LAMBDA p : /\ p["toggleOn"] \in Codes(ToggleCode)
                            /\ p["slotCount"] <= SlotLimit),
           LAMBDA p : p["slotCount"], DecodeSlot, DecodedPreset)

DecodePage(c) ==
  ReadList(ReadNumber(c, "id", 4), LAMBDA page : PresetCount, DecodePreset,
           LAMBDA page, presets : [id |-> page["id"], presets |-> presets])

DecodedExpression(e) ==
  [enabled |-> e["enabled"] # 0, label |-> e["label"],
   channel |-> e["channel"], controller |-> e["controller"],
   destination |-> WordOf(DestinationCode, e["destination"]),
   minimum |-> e["minimum"], maximum |-> e["maximum"], inverted |-> e["inverted"] # 0]

DecodeHead(c) ==
  ReadPart(Check(ReadAll(c, BankFields(255)), LAMBDA bank : bank["length"] = Len(c.bytes)),
           LAMBDA d : Check(ReadAll(d, ExpressionFields(255)),
                            LAMBDA e : e["destination"] \in Codes(DestinationCode)),
           LAMBDA bank, e : [id |-> bank["id"], name |-> bank["name"],
                             expression |-> DecodedExpression(e)])

DecodeBankRecord(record) ==
  Complete(ReadList(DecodeHead(Cursor(record)), LAMBDA bank : PageCount, DecodePage,
                    LAMBDA bank, pages : bank @@ ("pages" :> pages)))

----------------------------------------------------------------------------
(* validateConfig (validate.ts and the schema): the shape of every object, *)
(* the banks that are missing filled in, and then what the schema cannot   *)
(* say: ids that are unique in the whole document, targets and ranges.     *)

IsArray(value, lengths) ==
  Len(value) \in lengths /\ value = [i \in 1 .. Len(value) |-> value[i]]

PresetShape(preset) ==
  /\ DOMAIN preset = {"id", "position1", "position2", "toggleOn", "slots"}
  /\ IsArray(preset.slots, 0 .. SlotLimit)
  /\ \A i \in DOMAIN preset.slots :
       DOMAIN preset.slots[i] = {"id", "trigger", "position", "message"}

PageShape(page) ==
  /\ DOMAIN page = {"id", "presets"}
  /\ IsArray(page.presets, {PresetCount})
  /\ \A i \in 1 .. PresetCount : PresetShape(page.presets[i])

BankShape(bank) ==
  /\ DOMAIN bank = {"id", "name", "pages", "expression"}
  /\ IsArray(bank.pages, {PageCount})
  /\ \A i \in 1 .. PageCount : PageShape(bank.pages[i])

IsText(text, limit) == Len(text) <= limit /\ \A i \in DOMAIN text : text[i] \in 32 .. 126
IsView(view) == IsText(view.label, LabelLimit) /\ view.accentRgb565 \in 0 .. 65535

\* Exactly the fields of the type: an object with others is refused.
FieldsOf(type) ==
  CASE type = "PC" -> {"type", "channel", "program", "destination"}
    [] type = "CC" -> {"type", "channel", "controller", "value", "destination"}
    [] type = "RELAY" -> {"type", "contact", "operation"}
    [] type = "NAV" -> {"type", "operation"}

IsValidMessage(m) ==
  LET targets == CASE m.operation = "BANK_SET" -> 1 .. 128
                   [] m.operation = "PAGE_SET" -> 1 .. 4
                   [] OTHER -> {}
  IN CASE m.type = "PC" -> /\ DOMAIN m = FieldsOf("PC")
                           /\ m.channel \in 1 .. 16 /\ m.program \in 0 .. 127
       [] m.type = "CC" -> /\ DOMAIN m = FieldsOf("CC")
                           /\ m.channel \in 1 .. 16
                           /\ {m.controller, m.value} \subseteq 0 .. 127
       [] m.type = "RELAY" -> /\ DOMAIN m = FieldsOf("RELAY")
                              /\ m.contact \in 1 .. 2
                              /\ m.operation \in DOMAIN RelayCode
       [] m.type = "NAV" -> /\ m.operation \in DOMAIN NavCode
                            /\ IF targets = {} THEN DOMAIN m = FieldsOf("NAV")
                               ELSE /\ DOMAIN m = FieldsOf("NAV") \cup {"target"}
                                    /\ m.target \in targets

IsValidPreset(preset) ==
  /\ IsView(preset.position1) /\ IsView(preset.position2)
  /\ \A i \in DOMAIN preset.slots : IsValidMessage(preset.slots[i].message)

IsValidBank(bank) ==
  LET e == bank.expression
  IN /\ BankShape(bank)
     /\ IsText(bank.name, NameLimit) /\ IsText(e.label, LabelLimit)
     /\ e.channel \in 1 .. 16 /\ e.controller \in 0 .. 127
     /\ {e.minimum, e.maximum} \subseteq 0 .. 127 /\ e.minimum <= e.maximum
     /\ \A i \in 1 .. PageCount, j \in 1 .. PresetCount :
          IsValidPreset(bank.pages[i].presets[j])

\* The places of a document's parts: 0 is for the part that the fields before it name.
Places(config) ==
  {at \in [bank : DOMAIN config, page : 0 .. PageCount, preset : 0 .. PresetCount,
           slot : 0 .. SlotLimit] :
     /\ at.page = 0 => at.preset = 0
     /\ at.preset = 0 => at.slot = 0
     /\ at.slot # 0 =>
          at.slot \in DOMAIN config[at.bank].pages[at.page].presets[at.preset].slots}

\* The id of each part.
Ids(config) ==
  [at \in Places(config) |->
     LET bank == config[at.bank]
         page == bank.pages[at.page]
         preset == page.presets[at.preset]
     IN CASE at.page = 0 -> bank.id
          [] at.page # 0 /\ at.preset = 0 -> page.id
          [] at.preset # 0 /\ at.slot = 0 -> preset.id
          [] at.slot # 0 -> preset.slots[at.slot].id]

IdsAreUnique(config) == Range(Ids(config)) \subseteq 1 .. LastId /\ IsInjective(Ids(config))

IsValid(config) == /\ Len(config) <= BankCount
                   /\ \A i \in DOMAIN config : IsValidBank(config[i])
                   /\ IdsAreUnique(config)

EmptyText == <<69>>      \* stands for "EMPTY", "EXPR" and the name of a bank

DefaultPreset(bank, page, preset) ==
  LET view == [label |-> EmptyText, accentRgb565 |-> preset]
  IN [id |-> \h30000000 + (bank - 1) * 16 + (page - 1) * 4 + preset,
      position1 |-> view, position2 |-> view, toggleOn |-> None, slots |-> << >>]

DefaultPage(bank, page) ==
  [id |-> \h20000000 + (bank - 1) * 4 + page,
   presets |-> [preset \in 1 .. PresetCount |-> DefaultPreset(bank, page, preset)]]

DefaultBank(bank) ==
  [id |-> \h10000000 + bank, name |-> EmptyText,
   pages |-> [page \in 1 .. PageCount |-> DefaultPage(bank, page)],
   expression |-> [enabled |-> FALSE, label |-> EmptyText, channel |-> 1,
                   controller |-> 11, destination |-> "BOTH", minimum |-> 0,
                   maximum |-> 127, inverted |-> FALSE]]

NormalizeBanks(config) ==
  [bank \in 1 .. BankCount |->
     IF bank <= Len(config) THEN config[bank] ELSE DefaultBank(bank)]

FactoryDocument == NormalizeBanks(<< >>)

\* The document of an input, or none when validation refuses it.
ValidateConfig(config) ==
  IF Len(config) <= BankCount /\ IsValid(NormalizeBanks(config))
  THEN {NormalizeBanks(config)} ELSE {}

\* What the editor makes of the bank records that a pedal returns.
AllBanks(decoded) ==
  IF {} \in ToSet(decoded) THEN {}
  ELSE ValidateConfig([bank \in DOMAIN decoded |-> CHOOSE one \in decoded[bank] : TRUE])

ReadConfiguration(image) ==
  AllBanks([bank \in 1 .. image.bankCount |-> DecodeBankRecord(BankRecord(image, bank))])

----------------------------------------------------------------------------
(* What the pedal does with what it has read (config_types.hpp,            *)
(* action_engine.cpp): every code of the image is one of its enumerators.  *)

Destination == <<"TRS", "USB", "BOTH">>
Trigger == <<"PRESS", "RELEASE", "LONG_PRESS", "DOUBLE_TAP">>
PositionFilter == <<"POSITION_1", "POSITION_2", "BOTH">>
RelayOperation == <<"OPEN", "CLOSE", "TOGGLE">>
NavigationOperation ==
  <<"BANK_UP", "BANK_DOWN", "BANK_SET", "PAGE_UP", "PAGE_DOWN", "PAGE_SET">>
EnumeratorOf(enumeration, code) == enumeration[code + 1]

ProgramChange == 192
ControlChange == 176

\* Channels are 1 .. 16 here, and 0 .. 15 in the byte that is sent.
encode_midi(m) ==
  IF m.kind = 0 THEN <<ProgramChange + m.channel - 1, m.data1>>
                ELSE <<ControlChange + m.channel - 1, m.data1, m.data2>>

\* A USB packet has a code for its length and room for three bytes.
midi_packet(bytes) ==
  IF Len(bytes) = 2 THEN <<12>> \o bytes \o <<0>> ELSE <<11>> \o bytes

relay_command(m) ==
  [contact |-> m.contact, operation |-> EnumeratorOf(RelayOperation, m.operation)]
navigation_command(m) ==
  [operation |-> EnumeratorOf(NavigationOperation, m.operation), target |-> m.target]

Performs(m) ==
  CASE m.kind <= 1 -> [destination |-> EnumeratorOf(Destination, m.destination),
                       trs |-> encode_midi(m), usb |-> midi_packet(encode_midi(m))]
    [] m.kind = 2 -> relay_command(m)
    [] m.kind = 3 -> navigation_command(m)

SlotPerforms(slot) ==
  [trigger |-> EnumeratorOf(Trigger, slot["trigger"]),
   position |-> EnumeratorOf(PositionFilter, slot["position"]),
   message |-> Performs(slot["message"])]

PresetPerforms(preset) ==
  [toggleOn |-> IF preset["toggleOn"] = 255 THEN None
                ELSE EnumeratorOf(Trigger, preset["toggleOn"]),
   slots |-> [i \in DOMAIN preset["slots"] |-> SlotPerforms(preset["slots"][i])]]

\* What the pedal's expression input sends in front of its value, and where to.
ExpressionSends(e) ==
  [enabled |-> e["enabled"] # 0, inverted |-> e["inverted"] # 0,
   destination |-> EnumeratorOf(Destination, e["destination"]),
   bytes |-> <<ControlChange + e["channel"] - 1, e["controller"]>>,
   minimum |-> e["minimum"], maximum |-> e["maximum"]]

----------------------------------------------------------------------------
(* What a bank of the editor means, with the bytes of the MIDI standard    *)
(* and, in front of a packet, of USB MIDI: the kind of the message again.  *)

MidiMeans(status, data, destination) ==
  [destination |-> destination, trs |-> <<status>> \o data,
   usb |-> <<status \div 16, status>> \o data \o (IF Len(data) = 1 THEN <<0>> ELSE << >>)]

MessageMeans(m) ==
  CASE m.type = "PC" -> MidiMeans(191 + m.channel, <<m.program>>, m.destination)
    [] m.type = "CC" -> MidiMeans(175 + m.channel, <<m.controller, m.value>>, m.destination)
    [] m.type = "RELAY" -> [contact |-> m.contact, operation |-> m.operation]
    [] m.type = "NAV" -> [operation |-> m.operation,
                          target |-> IF m.operation \in {"BANK_SET", "PAGE_SET"}
                                     THEN m.target ELSE 0]

PresetMeans(preset) ==
  [toggleOn |-> preset.toggleOn,
   slots |-> [i \in DOMAIN preset.slots |->
                [trigger |-> preset.slots[i].trigger, position |-> preset.slots[i].position,
                 message |-> MessageMeans(preset.slots[i].message)]]]

ExpressionMeans(e) ==
  [enabled |-> e.enabled, inverted |-> e.inverted, destination |-> e.destination,
   bytes |-> <<175 + e.channel, e.controller>>, minimum |-> e.minimum, maximum |-> e.maximum]

\* The pedal shows and does what the editor shows.
Means(bank, read) ==
  /\ read["id"] = bank.id /\ read["name"] = bank.name
  /\ read["expression"]["label"] = bank.expression.label
  /\ ExpressionSends(read["expression"]) = ExpressionMeans(bank.expression)
  /\ \A i \in 1 .. PageCount, j \in 1 .. PresetCount :
       LET preset == bank.pages[i].presets[j]
           r == read["pages"][i]["presets"][j]
       IN  /\ r["id"] = preset.id
           /\ r["label1"] = preset.position1.label /\ r["accent1"] = preset.position1.accentRgb565
           /\ r["label2"] = preset.position2.label /\ r["accent2"] = preset.position2.accentRgb565
           /\ PresetPerforms(r) = PresetMeans(preset)
=============================================================================
