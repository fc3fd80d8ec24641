------------------------- MODULE EditorStateProofs -------------------------
(***************************************************************************)
(* Proofs about EditorState, for documents of any size and any edits: the  *)
(* ids of a draft stay unique, and a clean draft is what the pedal runs.   *)
(***************************************************************************)
EXTENDS EditorState, SequenceTheorems, WellFoundedInduction, TLAPS

-----------------------------------------------------------------------------
(* Arrays *)

\* An array is a sequence of its elements.
LEMMA ArrayIsSeq ==
  ASSUME NEW array, NEW lengths \in SUBSET Nat, IsArray(array, lengths)
  PROVE  array \in Seq(Range(array)) /\ Len(array) \in Nat /\ DOMAIN array = 1 .. Len(array)
<1>1. Len(array) \in Nat /\ array = [i \in 1 .. Len(array) |-> array[i]]
  BY DEF IsArray
<1>2. DOMAIN array = 1 .. Len(array)
  BY <1>1
<1>3. array \in [1 .. Len(array) -> Range(array)]
  BY <1>1, <1>2 DEF Range
<1> QED BY <1>1, <1>2, <1>3

\* And a sequence of such a length is an array.
LEMMA SeqIsArray ==
  ASSUME NEW S, NEW seq \in Seq(S), NEW lengths, Len(seq) \in lengths
  PROVE  IsArray(seq, lengths)
<1>1. seq \in [1 .. Len(seq) -> S]
  BY LenProperties
<1> QED BY <1>1 DEF IsArray

\* So is a function on the numbers up to n.
LEMMA FunctionIsArray ==
  ASSUME NEW n \in Nat, NEW f, f = [i \in 1 .. n |-> f[i]], NEW lengths, n \in lengths
  PROVE  IsArray(f, lengths)
<1>1. f \in [1 .. n -> Range(f)]
  BY DEF Range
<1>2. f \in Seq(Range(f))
  BY <1>1, SeqDef
<1>3. DOMAIN f = 1 .. Len(f) /\ DOMAIN f = 1 .. n /\ Len(f) \in Nat
  BY <1>1, <1>2, LenProperties
<1>4. Len(f) = n
  BY <1>3
<1> QED BY <1>2, <1>4, SeqIsArray

\* A sequence without its element at i.
LEMMA Removed ==
  ASSUME NEW S, NEW seq \in Seq(S), NEW i \in 1 .. Len(seq)
  PROVE  /\ RemoveAt(seq, i) \in Seq(S) /\ Len(RemoveAt(seq, i)) = Len(seq) - 1
         /\ \A k \in 1 .. Len(seq) - 1 :
              RemoveAt(seq, i)[k] = IF k < i THEN seq[k] ELSE seq[k + 1]
<1> DEFINE before == SubSeq(seq, 1, i - 1)
           after == SubSeq(seq, i + 1, Len(seq))
<1>1. Len(seq) \in Nat /\ i \in Nat /\ \A k \in 1 .. Len(seq) : seq[k] \in S
  BY LenProperties, ElementOfSeq
<1>2. /\ before \in Seq(S) /\ Len(before) = i - 1
      /\ \A k \in 1 .. i - 1 : before[k] = seq[k]
  <2>1. /\ before \in Seq(S) /\ Len(before) = IF 1 <= i - 1 THEN i - 1 - 1 + 1 ELSE 0
        /\ \A k \in 1 .. i - 1 - 1 + 1 : before[k] = seq[1 + k - 1]
    BY <1>1, SubSeqProperties
  <2>2. i - 1 - 1 + 1 = i - 1 /\ \A k \in 1 .. i - 1 : 1 + k - 1 = k
    BY <1>1
  <2> HIDE DEF before
  <2> QED BY <1>1, <2>1, <2>2
<1>3. /\ after \in Seq(S) /\ Len(after) = Len(seq) - i
      /\ \A k \in 1 .. Len(seq) - i : after[k] = seq[k + i]
  <2>1. /\ after \in Seq(S) /\ Len(after) = IF i + 1 <= Len(seq) THEN Len(seq) - (i + 1) + 1 ELSE 0
        /\ \A k \in 1 .. Len(seq) - (i + 1) + 1 : after[k] = seq[(i + 1) + k - 1]
    BY <1>1, SubSeqProperties
  <2>2. Len(seq) - (i + 1) + 1 = Len(seq) - i /\ \A k \in 1 .. Len(seq) - i : (i + 1) + k - 1 = k + i
    BY <1>1
  <2> HIDE DEF after
  <2>3. Len(after) = Len(seq) - i
    BY <1>1, <2>1
  <2>4. \A k \in 1 .. Len(seq) - i : after[k] = seq[k + i]
    BY <2>1, <2>2
  <2> QED BY <2>1, <2>3, <2>4
<1> DEFINE all == before \o after
<1> HIDE DEF before, after
<1>4. /\ all \in Seq(S) /\ Len(all) = Len(before) + Len(after)
      /\ \A k \in 1 .. Len(before) + Len(after) :
           all[k] = IF k <= Len(before) THEN before[k] ELSE after[k - Len(before)]
  BY <1>2, <1>3, ConcatProperties
<1>5. all = RemoveAt(seq, i)
  BY DEF RemoveAt, before, after
<1> HIDE DEF all
<1>6. Len(all) = Len(seq) - 1
  BY <1>1, <1>2, <1>3, <1>4
<1>7. ASSUME NEW k \in 1 .. Len(seq) - 1
      PROVE  all[k] = IF k < i THEN seq[k] ELSE seq[k + 1]
  <2>1. all[k] = IF k <= i - 1 THEN before[k] ELSE after[k - (i - 1)]
    BY <1>1, <1>2, <1>3, <1>4
  <2>2. CASE k < i
    <3>1. k <= i - 1 /\ k \in 1 .. i - 1
      BY <1>1, <2>2
    <3> QED BY <1>2, <2>1, <2>2, <3>1
  <2>3. CASE ~(k < i)
    <3>1. ~(k <= i - 1) /\ k - (i - 1) \in 1 .. Len(seq) - i /\ k - (i - 1) + i = k + 1
      BY <1>1, <2>3
    <3> QED BY <1>3, <2>1, <2>3, <3>1
  <2> QED BY <2>2, <2>3
<1> QED BY <1>4, <1>5, <1>6, <1>7

\* A sequence with one more element, at i.
LEMMA Inserted ==
  ASSUME NEW S, NEW seq \in Seq(S), NEW i \in 1 .. Len(seq) + 1, NEW x \in S
  PROVE  /\ InsertAt(seq, i, x) \in Seq(S) /\ Len(InsertAt(seq, i, x)) = Len(seq) + 1
         /\ \A k \in 1 .. Len(seq) + 1 :
              InsertAt(seq, i, x)[k] = IF k < i THEN seq[k] ELSE IF k = i THEN x ELSE seq[k - 1]
<1> DEFINE before == SubSeq(seq, 1, i - 1)
           one == <<x>>
           after == SubSeq(seq, i, Len(seq))
<1>1. Len(seq) \in Nat /\ i \in Nat /\ \A k \in 1 .. Len(seq) : seq[k] \in S
  BY LenProperties, ElementOfSeq
<1>2. /\ before \in Seq(S) /\ Len(before) = i - 1
      /\ \A k \in 1 .. i - 1 : before[k] = seq[k]
  <2>0. \A k \in 1 .. i - 1 : seq[k] \in S
    BY <1>1
  <2>1. /\ before \in Seq(S) /\ Len(before) = IF 1 <= i - 1 THEN i - 1 - 1 + 1 ELSE 0
        /\ \A k \in 1 .. i - 1 - 1 + 1 : before[k] = seq[1 + k - 1]
    BY <1>1, <2>0, SubSeqProperties
  <2>2. i - 1 - 1 + 1 = i - 1 /\ \A k \in 1 .. i - 1 : 1 + k - 1 = k
    BY <1>1
  <2> HIDE DEF before
  <2> QED BY <1>1, <2>1, <2>2
<1>3. /\ after \in Seq(S) /\ Len(after) = Len(seq) - i + 1
      /\ \A k \in 1 .. Len(seq) - i + 1 : after[k] = seq[k + (i - 1)]
  <2>0. \A k \in i .. Len(seq) : seq[k] \in S
    BY <1>1
  <2>1. /\ after \in Seq(S) /\ Len(after) = IF i <= Len(seq) THEN Len(seq) - i + 1 ELSE 0
        /\ \A k \in 1 .. Len(seq) - i + 1 : after[k] = seq[i + k - 1]
    BY <1>1, <2>0, SubSeqProperties
  <2>2. \A k \in 1 .. Len(seq) - i + 1 : i + k - 1 = k + (i - 1)
    BY <1>1
  <2> HIDE DEF after
  <2> QED BY <1>1, <2>1, <2>2
<1>4. one \in Seq(S) /\ Len(one) = 1 /\ one[1] = x
  OBVIOUS
<1> DEFINE first == before \o one
           all == first \o after
<1> HIDE DEF before, after, one
<1>5. /\ first \in Seq(S) /\ Len(first) = Len(before) + Len(one)
      /\ \A k \in 1 .. Len(before) + Len(one) :
           first[k] = IF k <= Len(before) THEN before[k] ELSE one[k - Len(before)]
  BY <1>2, <1>4, ConcatProperties
<1> HIDE DEF first
<1>a. first \in Seq(S) /\ after \in Seq(S)
  BY <1>3, <1>5
<1>6. /\ all \in Seq(S) /\ Len(all) = Len(first) + Len(after)
      /\ \A k \in 1 .. Len(first) + Len(after) :
           all[k] = IF k <= Len(first) THEN first[k] ELSE after[k - Len(first)]
  BY <1>a, ConcatProperties
<1>7. all = InsertAt(seq, i, x)
  BY DEF InsertAt, before, one, after, first
<1> HIDE DEF all
<1>8. Len(first) = i /\ Len(all) = Len(seq) + 1
  BY <1>1, <1>2, <1>3, <1>4, <1>5, <1>6
<1>9. ASSUME NEW k \in 1 .. Len(seq) + 1
      PROVE  all[k] = IF k < i THEN seq[k] ELSE IF k = i THEN x ELSE seq[k - 1]
  <2>1. all[k] = IF k <= i THEN first[k] ELSE after[k - i]
    BY <1>1, <1>3, <1>6, <1>8
  <2>2. CASE k < i
    <3>1. k <= i /\ k <= Len(before) /\ k \in 1 .. i - 1 /\ k \in 1 .. Len(before) + Len(one)
      BY <1>1, <1>2, <1>4, <2>2
    <3> QED BY <1>2, <1>5, <2>1, <2>2, <3>1
  <2>3. CASE k = i
    <3>1. /\ k <= i /\ ~(k < i) /\ ~(k <= Len(before)) /\ k - Len(before) = 1
          /\ k \in 1 .. Len(before) + Len(one)
      BY <1>1, <1>2, <1>4, <2>3
    <3> QED BY <1>4, <1>5, <2>1, <2>3, <3>1
  <2>4. CASE k > i
    <3>1. /\ ~(k <= i) /\ ~(k < i) /\ k # i /\ k - i \in 1 .. Len(seq) - i + 1
          /\ k - i + (i - 1) = k - 1
      BY <1>1, <2>4
    <3> QED BY <1>3, <2>1, <3>1
  <2> QED BY <1>1, <2>2, <2>3, <2>4
<1> QED BY <1>6, <1>7, <1>8, <1>9

\* A finite set of ids has a largest one.
LEMMA LargestId ==
  ASSUME NEW limit \in Nat, NEW T, T \subseteq 1 .. limit, T # {}
  PROVE  Max(T) \in T /\ \A x \in T : Max(T) >= x
<1> DEFINE mirror == {limit - x : x \in T}
<1>1. mirror \in SUBSET Nat /\ mirror # {}
  <2>1. \A x \in T : limit - x \in Nat
    OBVIOUS
  <2> QED BY <2>1
<1>2. PICK least \in mirror : \A y \in mirror : ~(<<y, least>> \in OpToRel(<, Nat))
  BY <1>1, NatLessThanWellFounded, WFMin
<1>3. PICK x \in T : least = limit - x
  BY <1>2
<1>4. \A y \in T : ~(limit - y < limit - x)
  BY <1>1, <1>2, <1>3 DEF OpToRel
<1>5. \A y \in T : x >= y
  BY <1>4
<1> QED BY <1>5 DEF Max

-----------------------------------------------------------------------------
(* What every edit keeps                                                   *)

\* Every bank there can be, each with the shape of the schema.
Shaped(config) ==
  DOMAIN config = 1 .. BankCount /\ \A b \in 1 .. BankCount : BankShape(config[b])

EditorInvariant ==
  /\ Shaped(draft)
  /\ IdsAreUnique(draft)
  /\ selection \in [bank : 1 .. BankCount, page : 1 .. PageCount, preset : 1 .. PresetCount]

PresetAt(config, b, p, q) == config[b].pages[p].presets[q]

\* The place of message i of a preset, and whether a place is one of its messages.
SlotAt(b, p, q, i) == [bank |-> b, page |-> p, preset |-> q, slot |-> i]
Edited(at, b, p, q) == at.bank = b /\ at.page = p /\ at.preset = q /\ at.slot # 0

\* No two messages share an id.
SlotsDiffer(slots) ==
  \A i, j \in DOMAIN slots : slots[i].id = slots[j].id => i = j

\* Every message has the id of an old one, or an added one.
SlotsFrom(slots, old, added) ==
  \A i \in DOMAIN slots :
    slots[i].id \in added \/ \E k \in DOMAIN old : slots[i].id = old[k].id

\* The same ids above the messages, and the same messages outside one preset.
SameOutside(old, new, b, p, q) ==
  /\ DOMAIN new = DOMAIN old
  /\ \A x \in 1 .. BankCount :
       /\ new[x].id = old[x].id
       /\ \A y \in 1 .. PageCount :
            /\ new[x].pages[y].id = old[x].pages[y].id
            /\ \A z \in 1 .. PresetCount :
                 /\ PresetAt(new, x, y, z).id = PresetAt(old, x, y, z).id
                 /\ ~(x = b /\ y = p /\ z = q) =>
                      PresetAt(new, x, y, z).slots = PresetAt(old, x, y, z).slots

\* The sizes of a document, one by one.
LEMMA Counts ==
  /\ BankCount \in Nat \ {0} /\ PageCount \in Nat \ {0} /\ PresetCount \in Nat \ {0}
  /\ SlotLimit \in Nat /\ LastId \in Nat
  /\ BankCount <= 255 /\ PageCount <= 4 /\ PresetCount <= 4
<1>1. \A c \in {BankCount, SlotLimit} : c \in 1 .. 255
  BY ImageAssumption
<1>2. \A c \in {PageCount, PresetCount} : c \in 1 .. 4
  BY ImageAssumption
<1>3. LastId \in Nat
  BY ImageAssumption
<1> QED BY <1>1, <1>2, <1>3

\* The messages of a preset are numbered from one to no more than the limit.
LEMMA PresetSlots ==
  ASSUME NEW preset, PresetShape(preset)
  PROVE  /\ IsArray(preset.slots, 0 .. SlotLimit)
         /\ Len(preset.slots) \in 0 .. SlotLimit
         /\ DOMAIN preset.slots = 1 .. Len(preset.slots)
         /\ preset.slots \in Seq(Range(preset.slots))
         /\ DOMAIN preset.slots \subseteq 1 .. SlotLimit
<1> DEFINE slots == preset.slots
<1>1. IsArray(slots, 0 .. SlotLimit)
  BY DEF PresetShape
<1> HIDE DEF slots
<1>2. Len(slots) \in 0 .. SlotLimit /\ 0 .. SlotLimit \in SUBSET Nat
  BY <1>1, Counts DEF IsArray
<1>3. DOMAIN slots = 1 .. Len(slots) /\ slots \in Seq(Range(slots))
  BY <1>1, <1>2, ArrayIsSeq
<1>4. DOMAIN slots \subseteq 1 .. SlotLimit
  BY <1>2, <1>3, Counts
<1> QED BY <1>1, <1>2, <1>3, <1>4 DEF slots

\* The same of a preset of a document.
LEMMA SlotNumbers ==
  ASSUME NEW config, Shaped(config), NEW b \in 1 .. BankCount,
         NEW p \in 1 .. PageCount, NEW q \in 1 .. PresetCount
  PROVE  /\ PresetShape(PresetAt(config, b, p, q))
         /\ DOMAIN PresetAt(config, b, p, q).slots \subseteq 1 .. SlotLimit
<1>1. PresetShape(PresetAt(config, b, p, q))
  BY DEF Shaped, BankShape, PageShape, PresetAt
<1> QED BY <1>1, PresetSlots

\* What a place is.
LEMMA PlaceIs ==
  ASSUME NEW config, Shaped(config), NEW at
  PROVE  at \in Places(config) <=>
           /\ at \in [bank : 1 .. BankCount, page : 0 .. PageCount,
                      preset : 0 .. PresetCount, slot : 0 .. SlotLimit]
           /\ at.page = 0 => at.preset = 0
           /\ at.preset = 0 => at.slot = 0
           /\ at.slot # 0 =>
                at.slot \in DOMAIN PresetAt(config, at.bank, at.page, at.preset).slots
BY DEF Places, Shaped, PresetAt

\* The id at each kind of place.
LEMMA IdAt ==
  ASSUME NEW config, NEW at \in Places(config)
  PROVE  /\ at.page = 0 => Ids(config)[at] = config[at.bank].id
         /\ at.page # 0 /\ at.preset = 0 =>
              Ids(config)[at] = config[at.bank].pages[at.page].id
         /\ at.preset # 0 /\ at.slot = 0 =>
              Ids(config)[at] = PresetAt(config, at.bank, at.page, at.preset).id
         /\ at.slot # 0 =>
              Ids(config)[at] =
                PresetAt(config, at.bank, at.page, at.preset).slots[at.slot].id
<1>1. /\ at.page = 0 => at.preset = 0
      /\ at.preset = 0 => at.slot = 0
  BY DEF Places
<1> DEFINE bank == config[at.bank]
           page == bank.pages[at.page]
           preset == page.presets[at.preset]
<1>2. Ids(config)[at] =
        CASE at.page = 0 -> bank.id
          [] at.page # 0 /\ at.preset = 0 -> page.id
          [] at.preset # 0 /\ at.slot = 0 -> preset.id
          [] at.slot # 0 -> preset.slots[at.slot].id
  BY DEF Ids
<1>a. preset = PresetAt(config, at.bank, at.page, at.preset)
  BY DEF PresetAt
<1> HIDE DEF bank, page, preset
<1>3. CASE at.page = 0
  <2>1. Ids(config)[at] = bank.id
    BY <1>1, <1>2, <1>3
  <2> QED BY <1>1, <1>3, <2>1 DEF bank
<1>4. CASE at.page # 0 /\ at.preset = 0
  <2>1. Ids(config)[at] = page.id
    BY <1>1, <1>2, <1>4
  <2> QED BY <1>1, <1>4, <2>1 DEF bank, page
<1>5. CASE at.preset # 0 /\ at.slot = 0
  <2>1. Ids(config)[at] = preset.id
    BY <1>1, <1>2, <1>5
  <2> QED BY <1>1, <1>5, <1>a, <2>1
<1>6. CASE at.slot # 0
  <2>1. Ids(config)[at] = preset.slots[at.slot].id
    BY <1>1, <1>2, <1>6
  <2> QED BY <1>1, <1>6, <1>a, <2>1
<1> QED BY <1>3, <1>4, <1>5, <1>6

\* The place of a message.
LEMMA SlotPlace ==
  ASSUME NEW config, Shaped(config), NEW b \in 1 .. BankCount,
         NEW p \in 1 .. PageCount, NEW q \in 1 .. PresetCount,
         NEW i \in DOMAIN PresetAt(config, b, p, q).slots
  PROVE  /\ SlotAt(b, p, q, i) \in Places(config)
         /\ Edited(SlotAt(b, p, q, i), b, p, q)
         /\ SlotAt(b, p, q, i).slot = i
         /\ Ids(config)[SlotAt(b, p, q, i)] = PresetAt(config, b, p, q).slots[i].id
<1> DEFINE at == SlotAt(b, p, q, i)
<1>1. i \in 1 .. SlotLimit
  BY SlotNumbers
<1>2. at \in [bank : 1 .. BankCount, page : 0 .. PageCount, preset : 0 .. PresetCount,
              slot : 0 .. SlotLimit]
  BY <1>1, Counts DEF SlotAt
<1>3. at.bank = b /\ at.page = p /\ at.preset = q /\ at.slot = i
  BY DEF SlotAt
<1>4. at.page # 0 /\ at.preset # 0 /\ at.slot # 0
  BY <1>1, <1>3, Counts
<1> HIDE DEF at
<1>5. at \in Places(config)
  BY <1>2, <1>3, <1>4, PlaceIs
<1>6. Ids(config)[at] = PresetAt(config, b, p, q).slots[i].id
  <2>1. Ids(config)[at] = PresetAt(config, at.bank, at.page, at.preset).slots[at.slot].id
    BY <1>4, <1>5, IdAt
  <2> QED BY <1>3, <2>1
<1>7. Edited(at, b, p, q)
  BY <1>3, <1>4 DEF Edited
<1> QED BY <1>3, <1>5, <1>6, <1>7 DEF at

\* Two places with one id are one place.
LEMMA OnePlace ==
  ASSUME NEW config, IdsAreUnique(config), NEW x \in Places(config), NEW y \in Places(config),
         Ids(config)[x] = Ids(config)[y]
  PROVE  x = y
BY DEF IdsAreUnique, IsInjective, Ids

\* In a preset of a document with unique ids, messages differ by their ids.
LEMMA SlotsOfUnique ==
  ASSUME NEW config, Shaped(config), IdsAreUnique(config), NEW b \in 1 .. BankCount,
         NEW p \in 1 .. PageCount, NEW q \in 1 .. PresetCount
  PROVE  SlotsDiffer(PresetAt(config, b, p, q).slots)
<1> DEFINE slots == PresetAt(config, b, p, q).slots
<1>1. \A i \in DOMAIN slots :
        /\ SlotAt(b, p, q, i) \in Places(config)
        /\ SlotAt(b, p, q, i).slot = i
        /\ Ids(config)[SlotAt(b, p, q, i)] = slots[i].id
  BY SlotPlace
<1> HIDE DEF slots
<1>2. \A i, j \in DOMAIN slots : slots[i].id = slots[j].id => i = j
  <2> SUFFICES ASSUME NEW i \in DOMAIN slots, NEW j \in DOMAIN slots,
                      slots[i].id = slots[j].id
               PROVE  i = j
    OBVIOUS
  <2>1. SlotAt(b, p, q, i) = SlotAt(b, p, q, j)
    BY <1>1, OnePlace
  <2> QED BY <1>1, <2>1
<1> QED BY <1>2 DEF slots, SlotsDiffer

-----------------------------------------------------------------------------
(* The ids after an edit of the messages of one preset                     *)

\* Every other place was there before, with the same id.
LEMMA PlacesOutside ==
  ASSUME NEW old, NEW new, Shaped(old), Shaped(new),
         NEW b, NEW p, NEW q, SameOutside(old, new, b, p, q),
         NEW at \in Places(new), ~Edited(at, b, p, q)
  PROVE  at \in Places(old) /\ Ids(new)[at] = Ids(old)[at]
<1>1. /\ at \in [bank : 1 .. BankCount, page : 0 .. PageCount, preset : 0 .. PresetCount,
                 slot : 0 .. SlotLimit]
      /\ at.page = 0 => at.preset = 0
      /\ at.preset = 0 => at.slot = 0
      /\ at.slot # 0 =>
           at.slot \in DOMAIN PresetAt(new, at.bank, at.page, at.preset).slots
  BY PlaceIs
<1>2. /\ at.bank \in 1 .. BankCount
      /\ at.page # 0 => at.page \in 1 .. PageCount
      /\ at.preset # 0 => at.preset \in 1 .. PresetCount
  BY <1>1, Counts
<1>3. /\ new[at.bank].id = old[at.bank].id
      /\ at.page # 0 => new[at.bank].pages[at.page].id = old[at.bank].pages[at.page].id
      /\ at.preset # 0 => PresetAt(new, at.bank, at.page, at.preset).id
                            = PresetAt(old, at.bank, at.page, at.preset).id
  BY <1>1, <1>2 DEF SameOutside
<1>4. at.slot # 0 => PresetAt(new, at.bank, at.page, at.preset).slots
                       = PresetAt(old, at.bank, at.page, at.preset).slots
  BY <1>1, <1>2 DEF SameOutside, Edited
<1>5. at \in Places(old)
  BY <1>1, <1>4, PlaceIs
<1>6. /\ at.page = 0 => Ids(new)[at] = new[at.bank].id
      /\ at.page # 0 /\ at.preset = 0 => Ids(new)[at] = new[at.bank].pages[at.page].id
      /\ at.preset # 0 /\ at.slot = 0 =>
           Ids(new)[at] = PresetAt(new, at.bank, at.page, at.preset).id
      /\ at.slot # 0 =>
           Ids(new)[at] = PresetAt(new, at.bank, at.page, at.preset).slots[at.slot].id
  BY IdAt
<1>7. /\ at.page = 0 => Ids(old)[at] = old[at.bank].id
      /\ at.page # 0 /\ at.preset = 0 => Ids(old)[at] = old[at.bank].pages[at.page].id
      /\ at.preset # 0 /\ at.slot = 0 =>
           Ids(old)[at] = PresetAt(old, at.bank, at.page, at.preset).id
      /\ at.slot # 0 =>
           Ids(old)[at] = PresetAt(old, at.bank, at.page, at.preset).slots[at.slot].id
  BY <1>5, IdAt
<1>8. CASE at.page = 0
  BY <1>3, <1>5, <1>6, <1>7, <1>8
<1>9. CASE at.page # 0 /\ at.preset = 0
  BY <1>3, <1>5, <1>6, <1>7, <1>9
<1>10. CASE at.preset # 0 /\ at.slot = 0
  BY <1>3, <1>5, <1>6, <1>7, <1>10
<1>11. CASE at.slot # 0
  BY <1>4, <1>5, <1>6, <1>7, <1>11
<1> QED BY <1>8, <1>9, <1>10, <1>11

\* A place in the preset has an added id, or one that the preset had.
LEMMA PlacesInside ==
  ASSUME NEW old, NEW new, Shaped(old), Shaped(new),
         NEW b \in 1 .. BankCount, NEW p \in 1 .. PageCount, NEW q \in 1 .. PresetCount,
         NEW added, SlotsFrom(PresetAt(new, b, p, q).slots, PresetAt(old, b, p, q).slots, added),
         NEW at \in Places(new), Edited(at, b, p, q)
  PROVE  /\ at = SlotAt(b, p, q, at.slot)
         /\ at.slot \in DOMAIN PresetAt(new, b, p, q).slots
         /\ Ids(new)[at] = PresetAt(new, b, p, q).slots[at.slot].id
         /\ \/ Ids(new)[at] \in added
            \/ \E was \in Places(old) : Edited(was, b, p, q) /\ Ids(old)[was] = Ids(new)[at]
<1>1. at.bank = b /\ at.page = p /\ at.preset = q /\ at.slot # 0
  BY DEF Edited
<1>2. at = SlotAt(b, p, q, at.slot)
  <2>1. at \in [bank : 1 .. BankCount, page : 0 .. PageCount, preset : 0 .. PresetCount,
                slot : 0 .. SlotLimit]
    BY PlaceIs
  <2> QED BY <1>1, <2>1 DEF SlotAt
<1>3. at.slot \in DOMAIN PresetAt(new, at.bank, at.page, at.preset).slots
  BY <1>1, PlaceIs
<1>4. Ids(new)[at] = PresetAt(new, at.bank, at.page, at.preset).slots[at.slot].id
  BY <1>1, IdAt
<1> DEFINE now == PresetAt(new, b, p, q).slots
           before == PresetAt(old, b, p, q).slots
<1>5. at.slot \in DOMAIN now /\ Ids(new)[at] = now[at.slot].id
  BY <1>1, <1>3, <1>4
<1>6. \A k \in DOMAIN before : /\ SlotAt(b, p, q, k) \in Places(old)
                               /\ Edited(SlotAt(b, p, q, k), b, p, q)
                               /\ Ids(old)[SlotAt(b, p, q, k)] = before[k].id
  BY SlotPlace
<1>7. SlotsFrom(now, before, added)
  OBVIOUS
<1> HIDE DEF now, before
<1>8. Ids(new)[at] \in added \/ \E k \in DOMAIN before : Ids(new)[at] = before[k].id
  BY <1>5, <1>7 DEF SlotsFrom
<1>9. \/ Ids(new)[at] \in added
      \/ \E was \in Places(old) : Edited(was, b, p, q) /\ Ids(old)[was] = Ids(new)[at]
  BY <1>6, <1>8
<1> QED BY <1>2, <1>5, <1>9 DEF now

\* The ids stay unique when one preset's messages change in this way.
LEMMA IdsAfterEdit ==
  ASSUME NEW old, NEW new, Shaped(old), Shaped(new), IdsAreUnique(old),
         NEW b \in 1 .. BankCount, NEW p \in 1 .. PageCount, NEW q \in 1 .. PresetCount,
         SameOutside(old, new, b, p, q),
         NEW added \in SUBSET (1 .. LastId), added \cap Range(Ids(old)) = {},
         SlotsDiffer(PresetAt(new, b, p, q).slots),
         SlotsFrom(PresetAt(new, b, p, q).slots, PresetAt(old, b, p, q).slots, added)
  PROVE  IdsAreUnique(new)
<1>1. /\ DOMAIN Ids(old) = Places(old) /\ DOMAIN Ids(new) = Places(new)
      /\ Range(Ids(old)) \subseteq 1 .. LastId
  BY DEF Ids, IdsAreUnique
<1>2. \A at \in Places(new) :
        Edited(at, b, p, q) \/ (at \in Places(old) /\ Ids(new)[at] = Ids(old)[at])
  BY PlacesOutside
<1> DEFINE slots == PresetAt(new, b, p, q).slots
<1>3. \A at \in Places(new) : Edited(at, b, p, q) =>
        /\ at = SlotAt(b, p, q, at.slot)
        /\ at.slot \in DOMAIN slots
        /\ Ids(new)[at] = slots[at.slot].id
        /\ \/ Ids(new)[at] \in added
           \/ \E was \in Places(old) : Edited(was, b, p, q) /\ Ids(old)[was] = Ids(new)[at]
  BY PlacesInside
<1>4. \A i, j \in DOMAIN slots : slots[i].id = slots[j].id => i = j
  BY DEF SlotsDiffer
<1> HIDE DEF slots
<1>5. \A x, y \in Places(old) : Ids(old)[x] = Ids(old)[y] => x = y
  BY OnePlace
<1>6. \A at \in Places(old) : Ids(old)[at] \in 1 .. LastId /\ Ids(old)[at] \notin added
  BY <1>1 DEF Range
<1>7. \A at \in Places(new) : Ids(new)[at] \in 1 .. LastId
  BY <1>2, <1>3, <1>6
<1>8. ASSUME NEW x \in Places(new), NEW y \in Places(new), Ids(new)[x] = Ids(new)[y]
      PROVE  x = y
  <2>1. CASE Edited(x, b, p, q) /\ Edited(y, b, p, q)
    <3>1. x.slot = y.slot
      BY <1>3, <1>4, <1>8, <2>1
    <3> QED BY <1>3, <2>1, <3>1
  <2>2. CASE ~Edited(x, b, p, q) /\ ~Edited(y, b, p, q)
    BY <1>2, <1>5, <1>8, <2>2
  <2>3. ASSUME NEW in \in Places(new), NEW out \in Places(new), Edited(in, b, p, q),
               ~Edited(out, b, p, q), Ids(new)[in] = Ids(new)[out]
        PROVE  FALSE
    <3>1. out \in Places(old) /\ Ids(new)[in] = Ids(old)[out]
      BY <1>2, <2>3
    <3>2. \E was \in Places(old) : Edited(was, b, p, q) /\ Ids(old)[was] = Ids(new)[in]
      BY <1>3, <1>6, <2>3, <3>1
    <3> QED BY <1>5, <2>3, <3>1, <3>2
  <2> QED BY <1>8, <2>1, <2>2, <2>3
<1> QED BY <1>1, <1>7, <1>8 DEF IdsAreUnique, IsInjective, Range

-----------------------------------------------------------------------------
(* The edits                                                               *)

\* An edit of the selected bank that keeps its ids and messages.
LEMMA BankEdited ==
  ASSUME EditorInvariant, NEW bank, UpdateBank(bank),
         DOMAIN bank = DOMAIN SelectedBank,
         bank.id = SelectedBank.id, bank.pages = SelectedBank.pages
  PROVE  EditorInvariant'
<1> DEFINE b == selection.bank
           p == selection.page
           q == selection.preset
<1>1. b \in 1 .. BankCount /\ p \in 1 .. PageCount /\ q \in 1 .. PresetCount
  BY DEF EditorInvariant
<1>2. Shaped(draft) /\ IdsAreUnique(draft)
  BY DEF EditorInvariant
<1>3. draft' = [draft EXCEPT ![b] = bank] /\ selection' = selection
  BY DEF UpdateBank
<1>4. /\ DOMAIN draft' = 1 .. BankCount /\ DOMAIN draft = 1 .. BankCount
      /\ \A x \in 1 .. BankCount : draft'[x] = IF x = b THEN bank ELSE draft[x]
  BY <1>1, <1>2, <1>3 DEF Shaped
<1>5. /\ DOMAIN bank = DOMAIN draft[b]
      /\ bank.id = draft[b].id /\ bank.pages = draft[b].pages
  BY DEF SelectedBank
<1>6. Shaped(draft')
  <2>1. BankShape(draft[b])
    BY <1>1, <1>2 DEF Shaped
  <2>2. BankShape(bank)
    BY <1>5, <2>1 DEF BankShape
  <2> QED BY <1>2, <1>4, <2>2 DEF Shaped
<1>7. /\ DOMAIN draft' = DOMAIN draft
      /\ \A x \in 1 .. BankCount : draft'[x].id = draft[x].id /\ draft'[x].pages = draft[x].pages
  BY <1>4, <1>5
<1>8. \A x \in 1 .. BankCount : \A y, z :
        PresetAt(draft', x, y, z) = PresetAt(draft, x, y, z)
  BY <1>7 DEF PresetAt
<1>9. SameOutside(draft, draft', b, p, q)
  BY <1>7, <1>8 DEF SameOutside
<1> DEFINE slots == PresetAt(draft, b, p, q).slots
<1>10. PresetAt(draft', b, p, q).slots = slots
  BY <1>1, <1>8
<1>11. SlotsDiffer(slots) /\ SlotsFrom(slots, slots, {})
  BY <1>1, <1>2, SlotsOfUnique DEF SlotsFrom
<1>12. IdsAreUnique(draft')
  <2>1. /\ SlotsDiffer(PresetAt(draft', b, p, q).slots)
        /\ SlotsFrom(PresetAt(draft', b, p, q).slots, PresetAt(draft, b, p, q).slots, {})
    BY <1>10, <1>11
  <2> HIDE DEF b, p, q, slots
  <2> QED BY <1>1, <1>2, <1>6, <1>9, <2>1, IdsAfterEdit
<1> QED BY <1>3, <1>6, <1>12 DEF EditorInvariant

\* The document with another preset in the place of the selected one.
LEMMA PresetReplaced ==
  ASSUME EditorInvariant, NEW preset, PresetShape(preset), preset.id = SelectedPreset.id,
         UpdatePreset(preset)
  PROVE  /\ Shaped(draft')
         /\ SameOutside(draft, draft', selection.bank, selection.page, selection.preset)
         /\ PresetAt(draft', selection.bank, selection.page, selection.preset) = preset
         /\ selection' = selection
<1> DEFINE b == selection.bank
           p == selection.page
           q == selection.preset
<1>1. b \in 1 .. BankCount /\ p \in 1 .. PageCount /\ q \in 1 .. PresetCount
  BY DEF EditorInvariant
<1> DEFINE old == draft[b]
           oldPage == old.pages[p]
           presets == [oldPage.presets EXCEPT ![q] = preset]
           page == [oldPage EXCEPT !.presets = presets]
           pages == [old.pages EXCEPT ![p] = page]
           bank == [old EXCEPT !.pages = pages]
<1>2. draft' = [draft EXCEPT ![b] = bank] /\ selection' = selection
  BY DEF UpdatePreset, UpdateBank, SelectedBank
<1>3. Shaped(draft) /\ BankShape(old) /\ PageShape(oldPage)
  BY <1>1 DEF EditorInvariant, Shaped, BankShape
<1>4. /\ IsArray(old.pages, {PageCount}) /\ DOMAIN old = {"id", "name", "pages", "expression"}
      /\ IsArray(oldPage.presets, {PresetCount}) /\ DOMAIN oldPage = {"id", "presets"}
  BY <1>3 DEF BankShape, PageShape
<1> HIDE DEF old, oldPage
<1>5. /\ old.pages = [i \in 1 .. PageCount |-> old.pages[i]]
      /\ oldPage.presets = [i \in 1 .. PresetCount |-> oldPage.presets[i]]
  BY <1>4 DEF IsArray
<1>6. /\ DOMAIN presets = 1 .. PresetCount
      /\ \A z \in 1 .. PresetCount : presets[z] = IF z = q THEN preset ELSE oldPage.presets[z]
  BY <1>1, <1>5
<1>7. DOMAIN page = {"id", "presets"} /\ page.id = oldPage.id /\ page.presets = presets
  BY <1>4
<1>8. /\ DOMAIN pages = 1 .. PageCount
      /\ \A y \in 1 .. PageCount : pages[y] = IF y = p THEN page ELSE old.pages[y]
  BY <1>1, <1>5
<1>9. DOMAIN bank = {"id", "name", "pages", "expression"} /\ bank.id = old.id /\ bank.pages = pages
  BY <1>4
<1> HIDE DEF presets, page, pages, bank
<1>10. /\ DOMAIN draft' = 1 .. BankCount /\ DOMAIN draft = 1 .. BankCount
       /\ \A x \in 1 .. BankCount : draft'[x] = IF x = b THEN bank ELSE draft[x]
  BY <1>1, <1>2, <1>3 DEF Shaped
<1>11. IsArray(presets, {PresetCount}) /\ IsArray(pages, {PageCount})
  <2>1. /\ presets = [z \in 1 .. PresetCount |-> presets[z]]
        /\ pages = [y \in 1 .. PageCount |-> pages[y]]
    <3>1. presets = [z \in DOMAIN presets |-> presets[z]] /\ pages = [y \in DOMAIN pages |-> pages[y]]
      BY DEF presets, pages
    <3> QED BY <1>6, <1>8, <3>1
  <2> QED BY <2>1, Counts, FunctionIsArray
<1>12. PageShape(page)
  BY <1>3, <1>6, <1>7, <1>11 DEF PageShape
<1>13. BankShape(bank)
  BY <1>3, <1>8, <1>9, <1>11, <1>12 DEF BankShape
<1>14. Shaped(draft')
  BY <1>3, <1>10, <1>13 DEF Shaped
<1>15. /\ PresetAt(draft', b, p, q) = preset
       /\ PresetAt(draft, b, p, q).id = preset.id
  BY <1>1, <1>6, <1>7, <1>8, <1>9, <1>10 DEF PresetAt, SelectedPreset, SelectedBank
<1>16. ASSUME NEW x \in 1 .. BankCount
       PROVE  /\ draft'[x].id = draft[x].id
              /\ \A y \in 1 .. PageCount : draft'[x].pages[y].id = draft[x].pages[y].id
  BY <1>7, <1>8, <1>9, <1>10 DEF old, oldPage
<1>17. ASSUME NEW x \in 1 .. BankCount, NEW y \in 1 .. PageCount, NEW z \in 1 .. PresetCount,
              ~(x = b /\ y = p /\ z = q)
       PROVE  PresetAt(draft', x, y, z) = PresetAt(draft, x, y, z)
  <2>1. CASE x # b
    BY <1>10, <2>1 DEF PresetAt
  <2>2. CASE x = b /\ y # p
    <3>1. draft'[x].pages[y] = old.pages[y]
      BY <1>8, <1>9, <1>10, <2>2
    <3> QED BY <2>2, <3>1 DEF PresetAt, old
  <2>3. CASE x = b /\ y = p /\ z # q
    <3>1. draft'[x].pages = pages /\ pages[y] = page
      BY <1>8, <1>9, <1>10, <2>3
    <3>2. page.presets[z] = oldPage.presets[z]
      BY <1>6, <1>7, <2>3
    <3> QED BY <2>3, <3>1, <3>2 DEF PresetAt, old, oldPage
  <2> QED BY <1>17, <2>1, <2>2, <2>3
<1>18. SameOutside(draft, draft', b, p, q)
  BY <1>10, <1>15, <1>16, <1>17 DEF SameOutside
<1> QED BY <1>2, <1>14, <1>15, <1>18

\* An edit of the selected preset that keeps its id.
LEMMA PresetEdited ==
  ASSUME EditorInvariant, NEW preset, PresetShape(preset), preset.id = SelectedPreset.id,
         SlotsDiffer(preset.slots),
         NEW added \in SUBSET (1 .. LastId), added \cap Range(Ids(draft)) = {},
         SlotsFrom(preset.slots, Slots, added), UpdatePreset(preset)
  PROVE  EditorInvariant'
<1> DEFINE b == selection.bank
           p == selection.page
           q == selection.preset
<1>1. /\ b \in 1 .. BankCount /\ p \in 1 .. PageCount /\ q \in 1 .. PresetCount
      /\ Shaped(draft) /\ IdsAreUnique(draft)
  BY DEF EditorInvariant
<1>2. /\ Shaped(draft') /\ SameOutside(draft, draft', b, p, q)
      /\ PresetAt(draft', b, p, q) = preset /\ selection' = selection
  BY PresetReplaced
<1>3. PresetAt(draft, b, p, q).slots = Slots
  BY DEF PresetAt, Slots, SelectedPreset, SelectedBank
<1>4. /\ SlotsDiffer(PresetAt(draft', b, p, q).slots)
      /\ SlotsFrom(PresetAt(draft', b, p, q).slots, PresetAt(draft, b, p, q).slots, added)
  BY <1>2, <1>3
<1>5. IdsAreUnique(draft')
  <2> HIDE DEF b, p, q
  <2> QED BY <1>1, <1>2, <1>4, IdsAfterEdit
<1> QED BY <1>2, <1>5 DEF EditorInvariant

-----------------------------------------------------------------------------
(* The edits of messages                                                   *)

\* The fields of a message's slot.
SlotDomain == {"id", "trigger", "position", "message"}

\* No message has the id of x.
Unlike(slots, x) == \A k \in DOMAIN slots : slots[k].id # x.id

\* Messages differ after one is taken out, and from that one.
LEMMA DifferRemoved ==
  ASSUME NEW S, NEW seq \in Seq(S), SlotsDiffer(seq), NEW i \in 1 .. Len(seq)
  PROVE  /\ SlotsDiffer(RemoveAt(seq, i))
         /\ Unlike(RemoveAt(seq, i), seq[i])
<1> DEFINE new == RemoveAt(seq, i)
<1>1. /\ new \in Seq(S) /\ Len(new) = Len(seq) - 1
      /\ \A k \in 1 .. Len(seq) - 1 : new[k] = IF k < i THEN seq[k] ELSE seq[k + 1]
  BY Removed
<1> HIDE DEF new
<1>2. /\ DOMAIN new = 1 .. Len(seq) - 1 /\ DOMAIN seq = 1 .. Len(seq) /\ Len(seq) \in Nat
  BY <1>1, LenProperties
<1> DEFINE g(k) == IF k < i THEN k ELSE k + 1
<1>3. \A k \in DOMAIN new : g(k) \in DOMAIN seq /\ g(k) # i /\ new[k] = seq[g(k)]
  BY <1>1, <1>2
<1>4. \A k, l \in DOMAIN new : g(k) = g(l) => k = l
  BY <1>2
<1>5. \A k, l \in DOMAIN seq : seq[k].id = seq[l].id => k = l
  BY DEF SlotsDiffer
<1>6. i \in DOMAIN seq
  BY <1>2
<1> HIDE DEF g
<1>7. SlotsDiffer(new)
  BY <1>3, <1>4, <1>5 DEF SlotsDiffer
<1>8. Unlike(new, seq[i])
  BY <1>3, <1>5, <1>6 DEF Unlike
<1> QED BY <1>7, <1>8 DEF new

\* And after one with another id is put in.
LEMMA DifferInserted ==
  ASSUME NEW S, NEW seq \in Seq(S), SlotsDiffer(seq), NEW i \in 1 .. Len(seq) + 1,
         NEW x \in S, Unlike(seq, x)
  PROVE  SlotsDiffer(InsertAt(seq, i, x))
<1> DEFINE new == InsertAt(seq, i, x)
<1>1. /\ new \in Seq(S) /\ Len(new) = Len(seq) + 1
      /\ \A k \in 1 .. Len(seq) + 1 :
           new[k] = IF k < i THEN seq[k] ELSE IF k = i THEN x ELSE seq[k - 1]
  BY Inserted
<1> HIDE DEF new
<1>2. DOMAIN new = 1 .. Len(seq) + 1 /\ DOMAIN seq = 1 .. Len(seq) /\ Len(seq) \in Nat
  BY <1>1, LenProperties
<1> DEFINE g(k) == IF k < i THEN k ELSE k - 1
<1>3. \A k \in DOMAIN new : (k = i /\ new[k] = x) \/ (g(k) \in DOMAIN seq /\ new[k] = seq[g(k)])
  BY <1>1, <1>2
<1>a. \A k \in DOMAIN seq : seq[k].id # x.id
  BY DEF Unlike
<1>4. \A k, l \in DOMAIN new : k # i /\ l # i /\ g(k) = g(l) => k = l
  BY <1>2
<1>5. \A k, l \in DOMAIN seq : seq[k].id = seq[l].id => k = l
  BY DEF SlotsDiffer
<1> HIDE DEF g
<1>6. SlotsDiffer(new)
  <2> SUFFICES ASSUME NEW k \in DOMAIN new, NEW l \in DOMAIN new, new[k].id = new[l].id
               PROVE  k = l
    BY DEF SlotsDiffer
  <2>1. CASE k = i /\ l = i
    BY <2>1
  <2>2. CASE k = i /\ l # i
    <3>1. new[l].id # x.id
      BY <1>3, <1>a, <2>2
    <3>2. k = i => new[k] = x
      BY <1>1, <1>2
    <3> QED BY <2>2, <3>1, <3>2
  <2>3. CASE k # i /\ l = i
    <3>1. new[k].id # x.id
      BY <1>3, <1>a, <2>3
    <3>2. l = i => new[l] = x
      BY <1>1, <1>2
    <3> QED BY <2>3, <3>1, <3>2
  <2>4. CASE k # i /\ l # i
    BY <1>3, <1>4, <1>5, <2>4
  <2> QED BY <2>1, <2>2, <2>3, <2>4
<1> QED BY <1>6 DEF new

\* The selected preset and its messages.
LEMMA Selected ==
  ASSUME EditorInvariant
  PROVE  /\ PresetShape(SelectedPreset) /\ SlotsDiffer(Slots)
         /\ Slots \in Seq(Range(Slots)) /\ Len(Slots) \in 0 .. SlotLimit
         /\ DOMAIN Slots = 1 .. Len(Slots)
         /\ \A slot \in Range(Slots) : DOMAIN slot = SlotDomain
<1> DEFINE b == selection.bank
           p == selection.page
           q == selection.preset
<1>1. /\ b \in 1 .. BankCount /\ p \in 1 .. PageCount /\ q \in 1 .. PresetCount
      /\ Shaped(draft) /\ IdsAreUnique(draft)
  BY DEF EditorInvariant
<1>2. SelectedPreset = PresetAt(draft, b, p, q)
  BY DEF PresetAt, SelectedPreset, SelectedBank
<1> HIDE DEF b, p, q
<1>3. PresetShape(SelectedPreset) /\ SlotsDiffer(Slots)
  BY <1>1, <1>2, SlotNumbers, SlotsOfUnique DEF Slots
<1>4. \A slot \in Range(Slots) : DOMAIN slot = SlotDomain
  BY <1>3 DEF PresetShape, Slots, Range, SlotDomain
<1> QED BY <1>3, <1>4, PresetSlots DEF Slots

\* Other messages for the selected preset.
LEMMA SlotsEdited ==
  ASSUME EditorInvariant, NEW slots, IsArray(slots, 0 .. SlotLimit),
         \A i \in DOMAIN slots : DOMAIN slots[i] = SlotDomain,
         SlotsDiffer(slots),
         NEW added \in SUBSET (1 .. LastId), added \cap Range(Ids(draft)) = {},
         SlotsFrom(slots, Slots, added),
         UpdatePreset([SelectedPreset EXCEPT !.slots = slots])
  PROVE  EditorInvariant'
<1> DEFINE preset == [SelectedPreset EXCEPT !.slots = slots]
<1>1. DOMAIN SelectedPreset = {"id", "position1", "position2", "toggleOn", "slots"}
  BY Selected DEF PresetShape
<1>2. /\ DOMAIN preset = {"id", "position1", "position2", "toggleOn", "slots"}
      /\ preset.slots = slots /\ preset.id = SelectedPreset.id
  BY <1>1
<1>3. UpdatePreset(preset)
  OBVIOUS
<1> HIDE DEF preset
<1>4. PresetShape(preset)
  BY <1>2 DEF PresetShape, SlotDomain
<1>5. SlotsDiffer(preset.slots) /\ SlotsFrom(preset.slots, Slots, added)
  BY <1>2
<1> QED BY <1>2, <1>3, <1>4, <1>5, PresetEdited

\* The selected preset with other views or another trigger.
LEMMA ViewEdited ==
  ASSUME EditorInvariant, NEW preset, DOMAIN preset = DOMAIN SelectedPreset,
         preset.id = SelectedPreset.id, preset.slots = Slots, UpdatePreset(preset)
  PROVE  EditorInvariant'
<1>1. PresetShape(preset)
  BY Selected DEF PresetShape, Slots
<1>2. SlotsDiffer(preset.slots) /\ SlotsFrom(preset.slots, Slots, {})
  BY Selected DEF SlotsFrom
<1>3. {} \in SUBSET (1 .. LastId) /\ {} \cap Range(Ids(draft)) = {}
  OBVIOUS
<1> QED BY <1>1, <1>2, <1>3, PresetEdited

\* One message with other fields.
LEMMA SlotEdited ==
  ASSUME EditorInvariant, NEW i \in DOMAIN Slots, NEW slot, DOMAIN slot = SlotDomain,
         slot.id = Slots[i].id,
         UpdatePreset([SelectedPreset EXCEPT !.slots = [Slots EXCEPT ![i] = slot]])
  PROVE  EditorInvariant'
<1> DEFINE slots == [Slots EXCEPT ![i] = slot]
<1>1. /\ DOMAIN Slots = 1 .. Len(Slots) /\ Len(Slots) \in 0 .. SlotLimit
      /\ SlotsDiffer(Slots) /\ \A k \in DOMAIN Slots : DOMAIN Slots[k] = SlotDomain
  BY Selected DEF Range
<1>2. /\ DOMAIN slots = DOMAIN Slots
      /\ \A k \in DOMAIN Slots : slots[k] = IF k = i THEN slot ELSE Slots[k]
      /\ slots = [k \in DOMAIN slots |-> slots[k]]
  OBVIOUS
<1>3. UpdatePreset([SelectedPreset EXCEPT !.slots = slots])
  OBVIOUS
<1> HIDE DEF slots
<1>4. IsArray(slots, 0 .. SlotLimit)
  <2>1. slots = [k \in 1 .. Len(Slots) |-> slots[k]] /\ Len(Slots) \in Nat
    BY <1>1, <1>2, Counts
  <2> QED BY <1>1, <2>1, FunctionIsArray
<1>5. \A k \in DOMAIN slots : DOMAIN slots[k] = SlotDomain /\ slots[k].id = Slots[k].id
  BY <1>1, <1>2
<1>6. SlotsDiffer(slots) /\ SlotsFrom(slots, Slots, {})
  BY <1>1, <1>2, <1>5 DEF SlotsDiffer, SlotsFrom
<1>7. {} \in SUBSET (1 .. LastId) /\ {} \cap Range(Ids(draft)) = {}
  OBVIOUS
<1> QED BY <1>3, <1>4, <1>5, <1>6, <1>7, SlotsEdited

\* A message added with an id that no part has.
LEMMA SlotAddedKeeps ==
  ASSUME EditorInvariant, NEW type, SlotAdded(type)
  PROVE  EditorInvariant'
<1> DEFINE ids == Range(Ids(draft))
           slot == [id |-> NextId, trigger |-> "PRESS", position |-> "BOTH",
                    message |-> DefaultMessage(type)]
           slots == Append(Slots, slot)
<1>1. ids \subseteq 1 .. LastId /\ ids # {} /\ LastId \in Nat
  <2>1. [bank |-> 1, page |-> 0, preset |-> 0, slot |-> 0] \in Places(draft)
    BY Counts DEF EditorInvariant, Shaped, Places
  <2>2. DOMAIN Ids(draft) # {}
    BY <2>1 DEF Ids
  <2>3. ids # {}
    BY <2>2 DEF Range
  <2> QED BY <2>3, Counts DEF EditorInvariant, IdsAreUnique
<1>2. Max(ids) \in ids /\ \A x \in ids : Max(ids) >= x
  <2> HIDE DEF ids
  <2> QED BY <1>1, LargestId
<1>3. NextId = Max(ids) + 1 /\ NextId <= LastId /\ Len(Slots) < SlotLimit
  BY DEF SlotAdded, NextId
<1>4. UpdatePreset([SelectedPreset EXCEPT !.slots = slots])
  BY DEF SlotAdded, Slots
<1> HIDE DEF ids
<1>5. NextId \in 1 .. LastId /\ NextId \notin ids
  <2>1. PICK largest \in ids : NextId = largest + 1 /\ \A x \in ids : largest >= x
    BY <1>2, <1>3
  <2>2. largest \in Nat /\ \A x \in ids : x \in Nat /\ x # largest + 1
    BY <1>1, <2>1
  <2> QED BY <1>1, <1>3, <2>1, <2>2
<1>6. slot.id = NextId /\ DOMAIN slot = SlotDomain
  BY DEF SlotDomain
<1> HIDE DEF slot
<1> DEFINE S == Range(Slots) \cup {slot}
<1>7. Slots \in Seq(S) /\ slot \in S
  BY Selected, SeqMonotonic
<1>8. /\ slots \in Seq(S) /\ Len(slots) = Len(Slots) + 1
      /\ \A i \in 1 .. Len(Slots) : slots[i] = Slots[i]
      /\ slots[Len(Slots) + 1] = slot
  BY <1>7, AppendProperties
<1> HIDE DEF slots
<1>9. /\ DOMAIN Slots = 1 .. Len(Slots) /\ Len(Slots) \in 0 .. SlotLimit
      /\ SlotsDiffer(Slots) /\ \A k \in DOMAIN Slots : DOMAIN Slots[k] = SlotDomain
  BY Selected DEF Range
<1>10. DOMAIN slots = 1 .. Len(Slots) + 1 /\ Len(Slots) + 1 \in 0 .. SlotLimit
  BY <1>3, <1>8, <1>9, LenProperties, Counts
<1>11. IsArray(slots, 0 .. SlotLimit)
  BY <1>8, <1>10, SeqIsArray
<1>12. \A k \in DOMAIN slots :
         (k \in DOMAIN Slots /\ slots[k] = Slots[k]) \/ (k = Len(Slots) + 1 /\ slots[k] = slot)
  BY <1>8, <1>9, <1>10
<1>13. \A k \in DOMAIN slots : DOMAIN slots[k] = SlotDomain
  BY <1>6, <1>9, <1>12
<1>14. SlotsFrom(slots, Slots, {NextId})
  BY <1>6, <1>12 DEF SlotsFrom
<1>15. \A k \in DOMAIN Slots : Slots[k].id # NextId
  <2>1. Slots = PresetAt(draft, selection.bank, selection.page, selection.preset).slots
    BY DEF Slots, SelectedPreset, SelectedBank, PresetAt
  <2>2. /\ Shaped(draft) /\ selection.bank \in 1 .. BankCount
        /\ selection.page \in 1 .. PageCount /\ selection.preset \in 1 .. PresetCount
    BY DEF EditorInvariant
  <2>3. \A k \in DOMAIN Slots :
          /\ SlotAt(selection.bank, selection.page, selection.preset, k) \in Places(draft)
          /\ Ids(draft)[SlotAt(selection.bank, selection.page, selection.preset, k)] = Slots[k].id
    BY <2>1, <2>2, SlotPlace
  <2>4. DOMAIN Ids(draft) = Places(draft)
    BY DEF Ids
  <2>5. \A k \in DOMAIN Slots : Slots[k].id \in ids
    BY <2>3, <2>4 DEF ids, Range
  <2> QED BY <1>5, <2>5
<1>16. SlotsDiffer(slots)
  BY <1>6, <1>9, <1>12, <1>15 DEF SlotsDiffer
<1>17. {NextId} \in SUBSET (1 .. LastId) /\ {NextId} \cap Range(Ids(draft)) = {}
  BY <1>5 DEF ids
<1> QED BY <1>4, <1>11, <1>13, <1>14, <1>16, <1>17, SlotsEdited

\* Messages that were there, in another order or without one.
LEMMA SlotsReordered ==
  ASSUME EditorInvariant, NEW slots \in Seq(Range(Slots)), SlotsDiffer(slots),
         Len(slots) \in 0 .. SlotLimit,
         UpdatePreset([SelectedPreset EXCEPT !.slots = slots])
  PROVE  EditorInvariant'
<1>1. \A k \in DOMAIN slots : slots[k] \in Range(Slots)
  BY LenProperties, ElementOfSeq
<1>2. \A k \in DOMAIN slots : DOMAIN slots[k] = SlotDomain
  BY <1>1, Selected
<1>3. IsArray(slots, 0 .. SlotLimit)
  BY SeqIsArray
<1>4. SlotsFrom(slots, Slots, {})
  BY <1>1 DEF SlotsFrom, Range
<1>5. {} \in SUBSET (1 .. LastId) /\ {} \cap Range(Ids(draft)) = {}
  OBVIOUS
<1> QED BY <1>2, <1>3, <1>4, <1>5, SlotsEdited

\* A message removed.
LEMMA SlotRemovedKeeps ==
  ASSUME EditorInvariant, NEW i \in DOMAIN Slots, SlotRemoved(i)
  PROVE  EditorInvariant'
<1> DEFINE slots == RemoveAt(Slots, i)
<1>1. /\ Slots \in Seq(Range(Slots)) /\ SlotsDiffer(Slots) /\ i \in 1 .. Len(Slots)
      /\ Len(Slots) \in 0 .. SlotLimit
  BY Selected
<1>2. slots \in Seq(Range(Slots)) /\ Len(slots) = Len(Slots) - 1
  BY <1>1, Removed
<1>3. SlotsDiffer(slots)
  BY <1>1, DifferRemoved
<1>4. UpdatePreset([SelectedPreset EXCEPT !.slots = slots])
  BY DEF SlotRemoved, Slots
<1> HIDE DEF slots
<1>5. Len(slots) \in 0 .. SlotLimit
  BY <1>1, <1>2, Counts
<1> QED BY <1>2, <1>3, <1>4, <1>5, SlotsReordered

\* A message moved.
LEMMA SlotMovedKeeps ==
  ASSUME EditorInvariant, NEW from \in DOMAIN Slots, NEW to, SlotMoved(from, to)
  PROVE  EditorInvariant'
<1> DEFINE rest == RemoveAt(Slots, from)
           slots == InsertAt(rest, to, Slots[from])
<1>1. /\ Slots \in Seq(Range(Slots)) /\ SlotsDiffer(Slots) /\ from \in 1 .. Len(Slots)
      /\ Len(Slots) \in 0 .. SlotLimit /\ to \in 1 .. Len(Slots)
      /\ Slots[from] \in Range(Slots)
  BY Selected DEF SlotMoved, Range
<1>2. rest \in Seq(Range(Slots)) /\ Len(rest) = Len(Slots) - 1
  BY <1>1, Removed
<1>3. SlotsDiffer(rest) /\ Unlike(rest, Slots[from])
  BY <1>1, DifferRemoved
<1>4. UpdatePreset([SelectedPreset EXCEPT !.slots = slots])
  BY DEF SlotMoved, Slots
<1> HIDE DEF rest
<1>5. to \in 1 .. Len(rest) + 1
  BY <1>1, <1>2, Counts
<1>6. slots \in Seq(Range(Slots)) /\ Len(slots) = Len(rest) + 1
  BY <1>1, <1>2, <1>5, Inserted
<1>7. SlotsDiffer(slots)
  BY <1>1, <1>2, <1>3, <1>5, DifferInserted
<1> HIDE DEF slots
<1>8. Len(slots) \in 0 .. SlotLimit
  BY <1>1, <1>2, <1>6, Counts
<1> QED BY <1>4, <1>6, <1>7, <1>8, SlotsReordered

-----------------------------------------------------------------------------
(* Documents                                                               *)

\* A document that validation returns has every bank, and unique ids.
LEMMA Validated ==
  ASSUME NEW config, NEW document \in ValidateConfig(config)
  PROVE  Shaped(document) /\ IdsAreUnique(document)
<1>1. document = NormalizeBanks(config) /\ IsValid(document)
  BY DEF ValidateConfig
<1>2. DOMAIN document = 1 .. BankCount
  BY <1>1 DEF NormalizeBanks
<1>3. \A b \in 1 .. BankCount : BankShape(document[b])
  BY <1>1, <1>2 DEF IsValid, IsValidBank
<1> QED BY <1>1, <1>2, <1>3 DEF IsValid, Shaped

\* The factory document's shape.
LEMMA FactoryShaped == Shaped(FactoryDocument)
<1>1. Len(<< >>) = 0
  OBVIOUS
<1>2. FactoryDocument = [b \in 1 .. BankCount |-> DefaultBank(b)]
  BY <1>1, Counts DEF FactoryDocument, NormalizeBanks
<1>3. ASSUME NEW b, NEW p, NEW q
      PROVE  PresetShape(DefaultPreset(b, p, q))
  <2> DEFINE preset == DefaultPreset(b, p, q)
  <2>1. /\ DOMAIN preset = {"id", "position1", "position2", "toggleOn", "slots"}
        /\ preset.slots = << >>
    BY DEF DefaultPreset
  <2> HIDE DEF preset
  <2>2. << >> \in Seq({}) /\ Len(<< >>) \in 0 .. SlotLimit /\ DOMAIN << >> = {}
    BY <1>1, Counts, EmptySeq
  <2>3. IsArray(<< >>, 0 .. SlotLimit)
    BY <2>2, SeqIsArray
  <2>4. PresetShape(preset)
    BY <2>1, <2>2, <2>3 DEF PresetShape
  <2> QED BY <2>4 DEF preset
<1>4. ASSUME NEW b, NEW p
      PROVE  PageShape(DefaultPage(b, p))
  <2> DEFINE page == DefaultPage(b, p)
             presets == [q \in 1 .. PresetCount |-> DefaultPreset(b, p, q)]
  <2>1. DOMAIN page = {"id", "presets"} /\ page.presets = presets
    BY DEF DefaultPage
  <2>2. presets = [q \in 1 .. PresetCount |-> presets[q]]
    OBVIOUS
  <2>3. \A q \in 1 .. PresetCount : PresetShape(presets[q])
    BY <1>3
  <2> HIDE DEF page, presets
  <2>4. IsArray(presets, {PresetCount})
    BY <2>2, Counts, FunctionIsArray
  <2>5. PageShape(page)
    BY <2>1, <2>3, <2>4 DEF PageShape
  <2> QED BY <2>5 DEF page
<1>5. ASSUME NEW b
      PROVE  BankShape(DefaultBank(b))
  <2> DEFINE bank == DefaultBank(b)
             pages == [p \in 1 .. PageCount |-> DefaultPage(b, p)]
  <2>1. DOMAIN bank = {"id", "name", "pages", "expression"} /\ bank.pages = pages
    BY DEF DefaultBank
  <2>2. pages = [p \in 1 .. PageCount |-> pages[p]]
    OBVIOUS
  <2>3. \A p \in 1 .. PageCount : PageShape(pages[p])
    BY <1>4
  <2> HIDE DEF bank, pages
  <2>4. IsArray(pages, {PageCount})
    BY <2>2, Counts, FunctionIsArray
  <2>5. BankShape(bank)
    BY <2>1, <2>3, <2>4 DEF BankShape
  <2> QED BY <2>5 DEF bank
<1> QED BY <1>2, <1>5 DEF Shaped

\* Its ids: three ranges that do not meet, each with one id for each part.
LEMMA FactoryUnique == IdsAreUnique(FactoryDocument)
<1> DEFINE f == FactoryDocument
<1>1. Len(<< >>) = 0
  OBVIOUS
<1>2. f = [b \in 1 .. BankCount |-> DefaultBank(b)]
  BY <1>1, Counts DEF FactoryDocument, NormalizeBanks
<1>3. Shaped(f)
  BY FactoryShaped
<1> HIDE DEF f
<1>4. ASSUME NEW b \in 1 .. BankCount
      PROVE  /\ f[b].id = 268435456 + b
             /\ \A p \in 1 .. PageCount :
                  /\ f[b].pages[p].id = 536870912 + (b - 1) * 4 + p
                  /\ \A q \in 1 .. PresetCount :
                       /\ PresetAt(f, b, p, q).id = 805306368 + (b - 1) * 16 + (p - 1) * 4 + q
                       /\ DOMAIN PresetAt(f, b, p, q).slots = {}
  <2>1. f[b].id = 268435456 + b /\ \A p \in 1 .. PageCount : f[b].pages[p] = DefaultPage(b, p)
    <3>1. f[b] = DefaultBank(b)
      BY <1>2
    <3>2. /\ DefaultBank(b).id = 268435456 + b
          /\ DefaultBank(b).pages = [page \in 1 .. PageCount |-> DefaultPage(b, page)]
      BY DEF DefaultBank
    <3> QED BY <3>1, <3>2
  <2>2. ASSUME NEW p \in 1 .. PageCount
        PROVE  /\ DefaultPage(b, p).id = 536870912 + (b - 1) * 4 + p
               /\ \A q \in 1 .. PresetCount : DefaultPage(b, p).presets[q] = DefaultPreset(b, p, q)
    BY DEF DefaultPage
  <2>3. ASSUME NEW p, NEW q
        PROVE  /\ DefaultPreset(b, p, q).id = 805306368 + (b - 1) * 16 + (p - 1) * 4 + q
               /\ DOMAIN DefaultPreset(b, p, q).slots = {}
    BY DEF DefaultPreset
  <2> QED BY <2>1, <2>2, <2>3 DEF PresetAt
<1> DEFINE IdOf(b, p, q) ==
             IF p = 0 THEN 268435456 + b
             ELSE IF q = 0 THEN 536870912 + (b - 1) * 4 + p
             ELSE 805306368 + (b - 1) * 16 + (p - 1) * 4 + q
<1>5. ASSUME NEW at \in Places(f)
      PROVE  /\ at = [bank |-> at.bank, page |-> at.page, preset |-> at.preset, slot |-> 0]
             /\ at.bank \in 1 .. BankCount /\ at.page \in 0 .. PageCount
             /\ at.preset \in 0 .. PresetCount
             /\ at.page = 0 => at.preset = 0
             /\ Ids(f)[at] = IdOf(at.bank, at.page, at.preset)
  <2>1. /\ at \in [bank : 1 .. BankCount, page : 0 .. PageCount, preset : 0 .. PresetCount,
                   slot : 0 .. SlotLimit]
        /\ at.page = 0 => at.preset = 0
        /\ at.preset = 0 => at.slot = 0
        /\ at.slot # 0 => at.slot \in DOMAIN PresetAt(f, at.bank, at.page, at.preset).slots
    BY <1>3, PlaceIs
  <2>2. /\ at.bank \in 1 .. BankCount
        /\ at.page # 0 => at.page \in 1 .. PageCount
        /\ at.preset # 0 => at.preset \in 1 .. PresetCount
    BY <2>1, Counts
  <2>3. at.slot = 0
    <3>1. CASE at.slot # 0
      <4>1. DOMAIN PresetAt(f, at.bank, at.page, at.preset).slots = {}
        BY <1>4, <2>1, <2>2, <3>1
      <4> QED BY <2>1, <3>1, <4>1
    <3> QED BY <3>1
  <2>4. at = [bank |-> at.bank, page |-> at.page, preset |-> at.preset, slot |-> 0]
    BY <2>1, <2>3
  <2>5. /\ at.page = 0 => Ids(f)[at] = f[at.bank].id
        /\ at.page # 0 /\ at.preset = 0 => Ids(f)[at] = f[at.bank].pages[at.page].id
        /\ at.preset # 0 => Ids(f)[at] = PresetAt(f, at.bank, at.page, at.preset).id
    BY <2>3, IdAt
  <2>6. Ids(f)[at] = IdOf(at.bank, at.page, at.preset)
    <3>1. CASE at.page = 0
      BY <1>4, <2>2, <2>5, <3>1
    <3>2. CASE at.page # 0 /\ at.preset = 0
      BY <1>4, <2>2, <2>5, <3>2
    <3>3. CASE at.page # 0 /\ at.preset # 0
      BY <1>4, <2>2, <2>5, <3>3
    <3> QED BY <3>1, <3>2, <3>3
  <2> QED BY <2>1, <2>2, <2>4, <2>6
<1>6. 805306368 + 16 * BankCount <= LastId
  BY ImageAssumption
<1>7. ASSUME NEW b \in 1 .. BankCount, NEW p \in 0 .. PageCount, NEW q \in 0 .. PresetCount
      PROVE  IdOf(b, p, q) \in 1 .. LastId
  <2>1. /\ b \in Int /\ p \in Int /\ q \in Int /\ 1 <= b /\ b <= BankCount
        /\ 0 <= p /\ p <= 4 /\ 0 <= q /\ q <= 4 /\ BankCount <= 255 /\ BankCount \in Int
        /\ LastId \in Int
    BY Counts
  <2> QED BY <1>6, <2>1
<1>8. ASSUME NEW b \in 1 .. BankCount, NEW p \in 0 .. PageCount, NEW q \in 0 .. PresetCount,
             NEW c \in 1 .. BankCount, NEW r \in 0 .. PageCount, NEW s \in 0 .. PresetCount,
             p = 0 => q = 0, r = 0 => s = 0, IdOf(b, p, q) = IdOf(c, r, s)
      PROVE  b = c /\ p = r /\ q = s
  <2>1. /\ b \in Int /\ p \in Int /\ q \in Int /\ 1 <= b /\ b <= 255
        /\ 0 <= p /\ p <= 4 /\ 0 <= q /\ q <= 4
        /\ c \in Int /\ r \in Int /\ s \in Int /\ 1 <= c /\ c <= 255
        /\ 0 <= r /\ r <= 4 /\ 0 <= s /\ s <= 4
    BY Counts
  <2> QED BY <1>8, <2>1
<1> HIDE DEF IdOf
<1>9. DOMAIN Ids(f) = Places(f)
  BY DEF Ids
<1>10. Range(Ids(f)) \subseteq 1 .. LastId
  BY <1>5, <1>7, <1>9 DEF Range
<1>11. ASSUME NEW x \in Places(f), NEW y \in Places(f), Ids(f)[x] = Ids(f)[y]
       PROVE  x = y
  <2>1. x.bank = y.bank /\ x.page = y.page /\ x.preset = y.preset
    BY <1>5, <1>8, <1>11
  <2> QED BY <1>5, <2>1
<1> QED BY <1>9, <1>10, <1>11 DEF IdsAreUnique, IsInjective, f

-----------------------------------------------------------------------------
(* The steps                                                               *)

\* Names and expression settings.
LEMMA BankEditsKeep == ASSUME EditorInvariant, EditBank PROVE EditorInvariant'
<1>1. DOMAIN SelectedBank = {"id", "name", "pages", "expression"}
  BY DEF EditorInvariant, Shaped, BankShape, SelectedBank
<1>2. ASSUME NEW name, NameChanged(name)
      PROVE  EditorInvariant'
  <2> DEFINE bank == [SelectedBank EXCEPT !.name = name]
  <2>1. /\ DOMAIN bank = DOMAIN SelectedBank
        /\ bank.id = SelectedBank.id /\ bank.pages = SelectedBank.pages
    BY <1>1
  <2>2. UpdateBank(bank)
    BY <1>2 DEF NameChanged
  <2> HIDE DEF bank
  <2> QED BY <2>1, <2>2, BankEdited
<1>3. ASSUME NEW patch, ExpressionChanged(patch)
      PROVE  EditorInvariant'
  <2> DEFINE bank == [SelectedBank EXCEPT !.expression = patch @@ @]
  <2>1. /\ DOMAIN bank = DOMAIN SelectedBank
        /\ bank.id = SelectedBank.id /\ bank.pages = SelectedBank.pages
    BY <1>1
  <2>2. UpdateBank(bank)
    BY <1>3 DEF ExpressionChanged
  <2> HIDE DEF bank
  <2> QED BY <2>1, <2>2, BankEdited
<1> QED BY <1>2, <1>3 DEF EditBank

\* Labels, accents and the trigger of the position.
LEMMA PresetEditsKeep == ASSUME EditorInvariant, EditPreset PROVE EditorInvariant'
<1>1. DOMAIN SelectedPreset = {"id", "position1", "position2", "toggleOn", "slots"}
  BY Selected DEF PresetShape
<1>2. ASSUME NEW preset, UpdatePreset(preset), DOMAIN preset = DOMAIN SelectedPreset,
             preset.id = SelectedPreset.id, preset.slots = SelectedPreset.slots
      PROVE  EditorInvariant'
  BY <1>2, ViewEdited DEF Slots
<1>3. ASSUME NEW position, NEW label, LabelChanged(position, label)
      PROVE  EditorInvariant'
  <2>1. CASE position = 1
    <3> DEFINE preset == [SelectedPreset EXCEPT !.position1.label = label]
    <3>1. /\ DOMAIN preset = DOMAIN SelectedPreset
          /\ preset.id = SelectedPreset.id /\ preset.slots = SelectedPreset.slots
      BY <1>1
    <3>2. UpdatePreset(preset)
      BY <1>3, <2>1 DEF LabelChanged
    <3> HIDE DEF preset
    <3> QED BY <1>2, <3>1, <3>2
  <2>2. CASE position # 1
    <3> DEFINE preset == [SelectedPreset EXCEPT !.position2.label = label]
    <3>1. /\ DOMAIN preset = DOMAIN SelectedPreset
          /\ preset.id = SelectedPreset.id /\ preset.slots = SelectedPreset.slots
      BY <1>1
    <3>2. UpdatePreset(preset)
      BY <1>3, <2>2 DEF LabelChanged
    <3> HIDE DEF preset
    <3> QED BY <1>2, <3>1, <3>2
  <2> QED BY <2>1, <2>2
<1>4. ASSUME NEW position, NEW accent, AccentChanged(position, accent)
      PROVE  EditorInvariant'
  <2>1. CASE position = 1
    <3> DEFINE preset == [SelectedPreset EXCEPT !.position1.accentRgb565 = accent]
    <3>1. /\ DOMAIN preset = DOMAIN SelectedPreset
          /\ preset.id = SelectedPreset.id /\ preset.slots = SelectedPreset.slots
      BY <1>1
    <3>2. UpdatePreset(preset)
      BY <1>4, <2>1 DEF AccentChanged
    <3> HIDE DEF preset
    <3> QED BY <1>2, <3>1, <3>2
  <2>2. CASE position # 1
    <3> DEFINE preset == [SelectedPreset EXCEPT !.position2.accentRgb565 = accent]
    <3>1. /\ DOMAIN preset = DOMAIN SelectedPreset
          /\ preset.id = SelectedPreset.id /\ preset.slots = SelectedPreset.slots
      BY <1>1
    <3>2. UpdatePreset(preset)
      BY <1>4, <2>2 DEF AccentChanged
    <3> HIDE DEF preset
    <3> QED BY <1>2, <3>1, <3>2
  <2> QED BY <2>1, <2>2
<1>5. ASSUME NEW trigger, ToggleChanged(trigger)
      PROVE  EditorInvariant'
  <2> DEFINE preset == [SelectedPreset EXCEPT !.toggleOn = trigger]
  <2>1. /\ DOMAIN preset = DOMAIN SelectedPreset
        /\ preset.id = SelectedPreset.id /\ preset.slots = SelectedPreset.slots
    BY <1>1
  <2>2. UpdatePreset(preset)
    BY <1>5 DEF ToggleChanged
  <2> HIDE DEF preset
  <2> QED BY <1>2, <2>1, <2>2
<1> QED BY <1>3, <1>4, <1>5 DEF EditPreset

\* Messages.
LEMMA SlotEditsKeep == ASSUME EditorInvariant, EditSlots PROVE EditorInvariant'
<1>1. \A i \in DOMAIN Slots : DOMAIN Slots[i] = SlotDomain
  BY Selected DEF Range
<1>2. ASSUME NEW i \in DOMAIN Slots, NEW patch, MessageChanged(i, patch)
      PROVE  EditorInvariant'
  <2> DEFINE slot == [Slots[i] EXCEPT !.message = patch @@ @]
  <2>1. DOMAIN slot = SlotDomain /\ slot.id = Slots[i].id
    BY <1>1 DEF SlotDomain
  <2>2. UpdatePreset([SelectedPreset EXCEPT !.slots = [Slots EXCEPT ![i] = slot]])
    BY <1>2 DEF MessageChanged, Slots
  <2> HIDE DEF slot
  <2> QED BY <2>1, <2>2, SlotEdited
<1>3. ASSUME NEW i \in DOMAIN Slots, NEW trigger, TriggerChanged(i, trigger)
      PROVE  EditorInvariant'
  <2> DEFINE slot == [Slots[i] EXCEPT !.trigger = trigger]
  <2>1. DOMAIN slot = SlotDomain /\ slot.id = Slots[i].id
    BY <1>1 DEF SlotDomain
  <2>2. UpdatePreset([SelectedPreset EXCEPT !.slots = [Slots EXCEPT ![i] = slot]])
    BY <1>3 DEF TriggerChanged, Slots
  <2> HIDE DEF slot
  <2> QED BY <2>1, <2>2, SlotEdited
<1>4. ASSUME NEW i \in DOMAIN Slots, NEW position, PositionChanged(i, position)
      PROVE  EditorInvariant'
  <2> DEFINE slot == [Slots[i] EXCEPT !.position = position]
  <2>1. DOMAIN slot = SlotDomain /\ slot.id = Slots[i].id
    BY <1>1 DEF SlotDomain
  <2>2. UpdatePreset([SelectedPreset EXCEPT !.slots = [Slots EXCEPT ![i] = slot]])
    BY <1>4 DEF PositionChanged, Slots
  <2> HIDE DEF slot
  <2> QED BY <2>1, <2>2, SlotEdited
<1> QED BY <1>2, <1>3, <1>4, SlotAddedKeeps, SlotRemovedKeeps, SlotMovedKeeps DEF EditSlots

\* The factory document and the first selection.
LEMMA InitHolds == ASSUME Init PROVE EditorInvariant
BY FactoryShaped, FactoryUnique, Counts DEF Init, EditorInvariant

\* Every step of the editor.
LEMMA StepKeeps ==
  ASSUME EditorInvariant, [Next]_vars
  PROVE  EditorInvariant'
<1>1. ASSUME UNCHANGED draft, selection' \in [bank : 1 .. BankCount, page : 1 .. PageCount,
                                              preset : 1 .. PresetCount]
      PROVE  EditorInvariant'
  BY <1>1 DEF EditorInvariant
<1>2. selection \in [bank : 1 .. BankCount, page : 1 .. PageCount, preset : 1 .. PresetCount]
  BY DEF EditorInvariant
<1>3. ASSUME UNCHANGED <<draft, selection>>
      PROVE  EditorInvariant'
  BY <1>1, <1>2, <1>3
<1>4. ASSUME NEW bank \in 1 .. BankCount, SelectBank(bank)
      PROVE  EditorInvariant'
  BY <1>1, <1>4, Counts DEF SelectBank, Select
<1>5. ASSUME NEW page \in 1 .. PageCount, SelectPage(page)
      PROVE  EditorInvariant'
  <2>1. UNCHANGED draft /\ selection' = [selection EXCEPT !.page = page, !.preset = 1]
    BY <1>5 DEF SelectPage, Select
  <2>2. selection' \in [bank : 1 .. BankCount, page : 1 .. PageCount, preset : 1 .. PresetCount]
    <3> DEFINE turned == [selection EXCEPT !.page = page]
    <3>1. turned \in [bank : 1 .. BankCount, page : 1 .. PageCount, preset : 1 .. PresetCount]
      BY <1>2, <1>5
    <3>2. selection' = [turned EXCEPT !.preset = 1]
      BY <2>1
    <3> HIDE DEF turned
    <3> QED BY <3>1, <3>2, Counts
  <2> QED BY <1>1, <2>1, <2>2
<1>6. ASSUME NEW preset \in 1 .. PresetCount, SelectPreset(preset)
      PROVE  EditorInvariant'
  <2>1. UNCHANGED draft /\ selection' = [selection EXCEPT !.preset = preset]
    BY <1>6 DEF SelectPreset, Select
  <2>2. selection' \in [bank : 1 .. BankCount, page : 1 .. PageCount, preset : 1 .. PresetCount]
    BY <1>2, <2>1, Counts
  <2> QED BY <1>1, <2>1, <2>2
<1>7. ASSUME NEW config, draft' \in ValidateConfig(config), UNCHANGED selection
      PROVE  EditorInvariant'
  BY <1>2, <1>7, Validated DEF EditorInvariant
<1>8. ASSUME NEW file \in Files, Import(file)
      PROVE  EditorInvariant'
  BY <1>7, <1>8 DEF Import
<1>9. CASE Connect
  <2>1. PICK document \in ReadConfiguration(pedal) : draft' = document
    BY <1>9 DEF Connect
  <2>2. \E config : document \in ValidateConfig(config)
    <3>1. PICK decoded : document \in AllBanks(decoded)
      BY <2>1 DEF ReadConfiguration
    <3>2. document \in ValidateConfig([bank \in DOMAIN decoded |->
                                        CHOOSE one \in decoded[bank] : TRUE])
      BY <3>1 DEF AllBanks
    <3> QED BY <3>2
  <2>3. UNCHANGED selection
    BY <1>9 DEF Connect
  <2> QED BY <1>7, <2>1, <2>2, <2>3
<1>10. CASE Reload
  <2>1. draft' = FactoryDocument /\ selection' = [bank |-> 1, page |-> 1, preset |-> 1]
    BY <1>10 DEF Reload
  <2>2. selection' \in [bank : 1 .. BankCount, page : 1 .. PageCount, preset : 1 .. PresetCount]
    BY <2>1, Counts
  <2> QED BY <2>1, <2>2, FactoryShaped, FactoryUnique DEF EditorInvariant
<1>11. CASE NoIdRemains
  BY <1>3, <1>11 DEF NoIdRemains
<1>12. CASE Sync
  BY <1>3, <1>12 DEF Sync
<1>13. CASE SyncSucceeded
  BY <1>3, <1>13 DEF SyncSucceeded
<1>14. CASE SyncRefused
  BY <1>3, <1>14 DEF SyncRefused
<1>15. CASE SyncFailed
  BY <1>3, <1>15 DEF SyncFailed
<1>16. CASE UNCHANGED vars
  BY <1>3, <1>16 DEF vars
<1> QED BY <1>4, <1>5, <1>6, <1>8, <1>9, <1>10, <1>11, <1>12, <1>13, <1>14, <1>15, <1>16,
           BankEditsKeep, PresetEditsKeep, SlotEditsKeep DEF Next

\* Whatever is added, removed, moved, imported, read from the pedal or loaded
\* anew, no two parts of the draft share an id, and none has an id beyond the
\* last (nextId and validateMessageSemantics): the pedal keeps toggle
\* positions by id.
THEOREM IdsAlwaysUnique == Spec => []IdsStayUnique
<1>1. Init => EditorInvariant
  BY InitHolds
<1>2. EditorInvariant /\ [Next]_vars => EditorInvariant'
  BY StepKeeps
<1>3. EditorInvariant => IdsStayUnique
  BY DEF EditorInvariant, IdsStayUnique
<1> QED BY <1>1, <1>2, <1>3, PTL DEF Spec
-----------------------------------------------------------------------------
(***************************************************************************)
(* What the pedal runs. An upload is the draft unless it was touched, and  *)
(* whatever the pedal may come to run was once a draft, so the editor      *)
(* reads from it a document that compiles to the same image.               *)
(***************************************************************************)
UploadIsDraft ==
  /\ upload # {} => connected
  /\ upload # {} /\ ~touched => upload = {draft}
  /\ \A config \in upload : /\ EncodeImage(config) # {}
                            /\ \A image \in EncodeImage(config) : ReadsBack(image)

PedalInvariant == UploadIsDraft /\ ReadsBack(pedal) /\ CleanDraftIsOnPedal

\* A configuration compiles to one image at most.
LEMMA OneImage ==
  ASSUME NEW config, NEW image \in EncodeImage(config)
  PROVE  EncodeImage(config) = {image} /\ Image(config) = image
<1> DEFINE records == [i \in DOMAIN config |-> WriteBank(config[i])]
           offset == [i \in 1 .. BankCount |->
                        IF i > Len(config) THEN EmptyOffset
                        ELSE Len(FlattenSeq(SubSeq(records, 1, i - 1)))]
           payload == FlattenSeq(records)
           one == [bankCount |-> Len(config), index |-> offset, payload |-> payload]
           tooLarge == PayloadOffset + Len(payload) > ImageLimit
<1>1. EncodeImage(config) = IF tooLarge THEN {} ELSE {one}
  BY DEF EncodeImage
<1> HIDE DEF one, tooLarge
<1>2. EncodeImage(config) = {image}
  BY <1>1
<1> QED BY <1>2 DEF Image

\* A draft that reaches the pedal is read back from it.
LEMMA DraftReadsBack ==
  ASSUME ValidDraftReachesPedal, NEW image \in EncodeImage(draft)
  PROVE  ReadsBack(image)
<1>1. EncodeImage(draft) = {image}
  BY OneImage
<1>2. CASE IsValid(draft)
  <2>1. ReadConfiguration(image) = {draft}
    BY <1>2 DEF ValidDraftReachesPedal
  <2> QED BY <1>1, <2>1 DEF ReadsBack
<1>3. CASE ~IsValid(draft)
  BY <1>3 DEF ValidDraftReachesPedal
<1> QED BY <1>2, <1>3
\* Steps that leave what the pedal runs alone.
LEMMA PedalKept ==
  ASSUME PedalInvariant, UNCHANGED <<upload, pedal>>, UploadIsDraft',
         connected' => dirty' \/ touched' \/ EncodeImage(draft') = {pedal}
  PROVE  PedalInvariant'
BY DEF PedalInvariant, CleanDraftIsOnPedal, ReadsBack

\* The upload ends: the pedal runs what it ran, or what was uploaded.
LEMMA UploadEnds ==
  ASSUME PedalInvariant, UNCHANGED <<draft, touched>>, upload # {}, upload' = {},
         pedal' # pedal => \E config \in upload : pedal' \in EncodeImage(config),
         pedal' = pedal => dirty' = dirty
  PROVE  PedalInvariant'
<1>1. UploadIsDraft /\ ReadsBack(pedal) /\ CleanDraftIsOnPedal /\ UploadIsDraft'
  BY DEF PedalInvariant, UploadIsDraft
<1>2. CASE pedal' = pedal
  <2>1. CleanDraftIsOnPedal'
    BY <1>1, <1>2 DEF CleanDraftIsOnPedal, UploadIsDraft
  <2> QED BY <1>1, <1>2, <2>1 DEF PedalInvariant, ReadsBack
<1>3. CASE pedal' # pedal
  <2>1. PICK config \in upload : pedal' \in EncodeImage(config)
    BY <1>3
  <2>2. ReadsBack(pedal') /\ EncodeImage(config) = {pedal'}
    BY <1>1, <2>1, OneImage DEF UploadIsDraft
  <2>3. ~touched => config = draft
    BY <1>1, <2>1 DEF UploadIsDraft
  <2>4. CleanDraftIsOnPedal'
    BY <2>2, <2>3 DEF CleanDraftIsOnPedal
  <2> QED BY <1>1, <2>2, <2>4 DEF PedalInvariant, ReadsBack
<1> QED BY <1>2, <1>3

\* Every step keeps what the pedal runs in step with the editor.
LEMMA PedalStep ==
  ASSUME PedalInvariant, ValidDraftReachesPedal, [Next]_vars
  PROVE  PedalInvariant'
<1>1. UploadIsDraft /\ ReadsBack(pedal) /\ CleanDraftIsOnPedal
  BY DEF PedalInvariant
<1>2. ASSUME UNCHANGED <<draft, dirty, connected, upload, touched, pedal>>
      PROVE  PedalInvariant'
  BY <1>1, <1>2 DEF PedalInvariant, UploadIsDraft, CleanDraftIsOnPedal, ReadsBack
<1>3. ASSUME dirty' = TRUE, touched' = (upload # {}), UNCHANGED <<connected, upload, pedal>>
      PROVE  PedalInvariant'
  <2>1. UploadIsDraft'
    BY <1>1, <1>3 DEF UploadIsDraft
  <2> QED BY <1>3, <2>1, PedalKept
<1>4. ASSUME NEW bank, UpdateBank(bank)
      PROVE  PedalInvariant'
  BY <1>3, <1>4 DEF UpdateBank
<1>5. ASSUME NEW preset, UpdatePreset(preset)
      PROVE  PedalInvariant'
  BY <1>4, <1>5 DEF UpdatePreset
<1>6. CASE EditBank
  BY <1>4, <1>6 DEF EditBank, NameChanged, ExpressionChanged
<1>7. CASE EditPreset
  BY <1>5, <1>7 DEF EditPreset, LabelChanged, AccentChanged, ToggleChanged
<1>8. CASE EditSlots
  BY <1>5, <1>8 DEF EditSlots, SlotAdded, MessageChanged, TriggerChanged, PositionChanged,
                    SlotRemoved, SlotMoved
<1>9. ASSUME NEW file \in Files, Import(file)
      PROVE  PedalInvariant'
  BY <1>3, <1>9 DEF Import
<1>10. CASE Connect
  <2>1. PICK document \in ReadConfiguration(pedal) : draft' = document
    BY <1>10 DEF Connect
  <2>2. EncodeImage(draft') = {pedal}
    BY <1>1, <2>1 DEF ReadsBack
  <2>3. upload = {} /\ UNCHANGED <<upload, touched, pedal>>
    BY <1>10 DEF Connect
  <2>4. UploadIsDraft'
    BY <2>3 DEF UploadIsDraft
  <2> QED BY <2>2, <2>3, <2>4, PedalKept
<1>11. CASE Sync
  <2>1. /\ connected /\ dirty /\ EncodeImage(draft) # {} /\ upload' = {draft}
        /\ UNCHANGED <<draft, dirty, connected, pedal>>
    BY <1>11 DEF Sync
  <2>2. \A image \in EncodeImage(draft) : ReadsBack(image)
    BY DraftReadsBack
  <2>3. UploadIsDraft'
    BY <2>1, <2>2 DEF UploadIsDraft, ReadsBack
  <2> QED BY <1>1, <2>1, <2>3 DEF PedalInvariant, CleanDraftIsOnPedal, ReadsBack
<1>12. CASE SyncSucceeded
  <2>1. PICK config \in upload : pedal' = Image(config)
    BY <1>12 DEF SyncSucceeded
  <2>2. pedal' \in EncodeImage(config)
    BY <1>1, <2>1, OneImage DEF UploadIsDraft
  <2>3. UploadIsDraft'
    BY <1>12 DEF SyncSucceeded, UploadIsDraft
  <2>4. ReadsBack(pedal') /\ EncodeImage(config) = {pedal'}
    BY <1>1, <2>1, <2>2, OneImage DEF UploadIsDraft
  <2>5. ~touched => config = draft
    BY <1>1, <2>1 DEF UploadIsDraft
  <2>6. UNCHANGED <<draft, touched>>
    BY <1>12 DEF SyncSucceeded
  <2> QED BY <2>3, <2>4, <2>5, <2>6 DEF PedalInvariant, CleanDraftIsOnPedal, ReadsBack
<1>13. CASE SyncRefused
  BY <1>13, UploadEnds DEF SyncRefused
<1>14. ASSUME Unanswered, pedal' # pedal
       PROVE  \E config \in upload : pedal' \in EncodeImage(config)
  BY <1>14 DEF Unanswered
<1>15. CASE SyncFailed
  <2>1. upload # {} /\ upload' = {} /\ UNCHANGED <<draft, touched, dirty>> /\ Unanswered
    BY <1>15 DEF SyncFailed, Unanswered
  <2> QED BY <1>14, <2>1, UploadEnds
<1>16. CASE NoIdRemains \/ Reload
  <2>1. upload' = {} /\ connected' = FALSE /\ Unanswered
    BY <1>16 DEF NoIdRemains, Reload, CutOff, Unanswered
  <2>2. ReadsBack(pedal')
    BY <1>1, <1>14, <2>1 DEF UploadIsDraft
  <2> QED BY <2>1, <2>2 DEF PedalInvariant, UploadIsDraft, CleanDraftIsOnPedal, ReadsBack
<1>17. ASSUME NEW place, Select(place)
       PROVE  PedalInvariant'
  BY <1>2, <1>17 DEF Select
<1>18. CASE UNCHANGED vars
  BY <1>2, <1>18 DEF vars
<1> QED BY <1>6, <1>7, <1>8, <1>9, <1>10, <1>11, <1>12, <1>13, <1>15, <1>16, <1>17, <1>18
        DEF Next, SelectBank, SelectPage, SelectPreset

\* When the editor shows no unsynchronized changes beside a connected pedal, the draft is what
\* the pedal runs, however the syncs before ended and whatever was imported, reloaded or edited
\* during them: given that drafts reach the pedal, as far as the codec is concerned, and that
\* the factory document fits into an image.
THEOREM CleanDraftAlwaysOnPedal ==
  EncodeImage(FactoryDocument) # {} =>
    (Spec /\ []ValidDraftReachesPedal => []CleanDraftIsOnPedal)
<1> SUFFICES ASSUME EncodeImage(FactoryDocument) # {}
             PROVE  Spec /\ []ValidDraftReachesPedal => []CleanDraftIsOnPedal
  OBVIOUS
<1>1. Init /\ ValidDraftReachesPedal => PedalInvariant
  <2> SUFFICES ASSUME Init, ValidDraftReachesPedal PROVE PedalInvariant
    OBVIOUS
  <2>1. draft = FactoryDocument /\ pedal = Image(FactoryDocument) /\ upload = {} /\ connected = FALSE
    BY DEF Init
  <2>2. PICK image : image \in EncodeImage(draft)
    BY <2>1
  <2>3. Image(draft) = image /\ ReadsBack(image)
    BY <2>2, OneImage, DraftReadsBack
  <2> QED BY <2>1, <2>3 DEF PedalInvariant, UploadIsDraft, CleanDraftIsOnPedal
<1>2. PedalInvariant /\ ValidDraftReachesPedal /\ [Next]_vars => PedalInvariant'
  BY PedalStep
<1>3. PedalInvariant => CleanDraftIsOnPedal
  BY DEF PedalInvariant
<1> QED BY <1>1, <1>2, <1>3, PTL DEF Spec
============================================================================
