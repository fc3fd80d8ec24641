-------------------------- MODULE MidiQueueProofs --------------------------
(***************************************************************************)
(* Proofs about MidiQueue for every capacity and every set of messages:    *)
(* its indices stay consistent, and it implements BoundedFifo. The ring's  *)
(* arithmetic is settled once, in Wraps and the two lemmas after it.       *)
(***************************************************************************)
EXTENDS MidiQueue, SequenceTheorems, TLAPS

USE QueueAssumption DEF QueueAssumption

QueueInvariant == QueueTypeOK /\ RingIsConsistent

\* An index that has run past the end by less than a lap comes back by one capacity.
LEMMA Wraps ==
  ASSUME NEW i \in 0 .. 2 * Capacity - 1
  PROVE  i % Capacity = IF i < Capacity THEN i ELSE i - Capacity
PROOF OBVIOUS

\* The position of the i-th waiting message.
LEMMA SlotsWrap ==
  ASSUME QueueTypeOK, NEW i \in 0 .. Capacity
  PROVE  Slot(i) = IF read + i < Capacity THEN read + i ELSE read + i - Capacity
PROOF
<1>1. read + i \in 0 .. 2 * Capacity - 1
  BY DEF QueueTypeOK, Slots
<1>2. PICK j \in 0 .. 2 * Capacity - 1 : j = read + i
  BY <1>1
<1>3. j % Capacity = IF j < Capacity THEN j ELSE j - Capacity
  BY Wraps
<1>4. Slot(i) = j % Capacity
  BY <1>2 DEF Slot
<1> QED  BY <1>2, <1>3, <1>4 DEF QueueTypeOK, Slots

\* The position after a position.
LEMMA AdvanceWraps ==
  ASSUME NEW i \in Slots
  PROVE  /\ Advance(i) \in Slots
         /\ Advance(i) = IF i + 1 = Capacity THEN 0 ELSE i + 1
PROOF
<1>1. i + 1 \in 0 .. 2 * Capacity - 1
  BY DEF Slots
<1>2. PICK j \in 0 .. 2 * Capacity - 1 : j = i + 1
  BY <1>1
<1>3. j % Capacity = IF j < Capacity THEN j ELSE j - Capacity
  BY Wraps
<1> QED  BY <1>2, <1>3 DEF Advance, Slots

\* A push advances the end of the ring by one position.
LEMMA EndAdvances ==
  ASSUME QueueInvariant, size # Capacity
  PROVE  Advance(write) = Slot(size + 1)
PROOF
<1>1. /\ write = Slot(size) /\ write \in Slots
      /\ size \in 0 .. Capacity /\ size + 1 \in 0 .. Capacity /\ read \in Slots
  BY DEF QueueInvariant, RingIsConsistent, QueueTypeOK
<1>2. /\ write = IF read + size < Capacity THEN read + size ELSE read + size - Capacity
      /\ Slot(size + 1) =
           IF read + (size + 1) < Capacity THEN read + (size + 1) ELSE read + (size + 1) - Capacity
  BY <1>1, SlotsWrap DEF QueueInvariant
<1>3. Advance(write) = IF write + 1 = Capacity THEN 0 ELSE write + 1
  BY <1>1, AdvanceWraps
<1> QED  BY <1>1, <1>2, <1>3 DEF Slots

\* The position just past the last message is no message's.
LEMMA EndIsFree ==
  ASSUME QueueInvariant, size # Capacity, NEW i \in 0 .. size - 1
  PROVE  Slot(i) # write
PROOF
<1>1. /\ write = Slot(size) /\ size \in 0 .. Capacity /\ i \in 0 .. Capacity /\ read \in Slots
  BY DEF QueueInvariant, RingIsConsistent, QueueTypeOK
<1>2. /\ write = IF read + size < Capacity THEN read + size ELSE read + size - Capacity
      /\ Slot(i) = IF read + i < Capacity THEN read + i ELSE read + i - Capacity
  BY <1>1, SlotsWrap DEF QueueInvariant
<1> QED  BY <1>1, <1>2 DEF Slots

\* A pop advances the beginning: what was message i + 1 is message i.
LEMMA BeginningAdvances ==
  ASSUME QueueInvariant, NEW i \in 0 .. size - 1
  PROVE  (Advance(read) + i) % Capacity = Slot(i + 1)
PROOF
<1>1. read \in Slots /\ size \in 0 .. Capacity /\ i + 1 \in 0 .. Capacity /\ i \in 0 .. Capacity - 1
  BY DEF QueueInvariant, QueueTypeOK
<1>2. /\ Slot(i + 1) = IF read + (i + 1) < Capacity THEN read + (i + 1) ELSE read + (i + 1) - Capacity
      /\ Advance(read) = IF read + 1 = Capacity THEN 0 ELSE read + 1
      /\ Advance(read) \in Slots
  BY <1>1, SlotsWrap, AdvanceWraps DEF QueueInvariant
<1>3. Advance(read) + i \in 0 .. 2 * Capacity - 1
  BY <1>1, <1>2 DEF Slots
<1>4. PICK j \in 0 .. 2 * Capacity - 1 : j = Advance(read) + i
  BY <1>3
<1>5. j % Capacity = IF j < Capacity THEN j ELSE j - Capacity
  BY Wraps
<1>6. j % Capacity = Slot(i + 1)
  BY <1>1, <1>2, <1>4, <1>5 DEF Slots
<1> QED  BY <1>4, <1>6
-----------------------------------------------------------------------------
\* enqueue preserves the invariant, whether it is refused or not.
LEMMA EnqueueKeeps ==
  ASSUME QueueInvariant, NEW message \in Messages, Enqueue(message)
  PROVE  QueueInvariant'
PROOF
<1>1. CASE Full
  BY <1>1 DEF Enqueue, QueueInvariant, QueueTypeOK, RingIsConsistent, Slot, Slots, queue_vars
<1>2. CASE ~Full
  <2>1. /\ messages' = [messages EXCEPT ![write] = message]
        /\ write' = Advance(write) /\ size' = size + 1 /\ read' = read
        /\ sent' = <<>> /\ accepted' = ~Full
    BY <1>2 DEF Enqueue
  <2>2. size # Capacity /\ size \in 0 .. Capacity /\ write \in Slots /\ write = Slot(size)
    BY <1>2 DEF Full, QueueInvariant, QueueTypeOK, RingIsConsistent
  <2>3. QueueTypeOK'
    <3>1. messages' \in [Slots -> Messages \cup {NoMessage}]
      BY <2>1 DEF QueueInvariant, QueueTypeOK
    <3>2. read' \in Slots /\ write' \in Slots /\ size' \in 0 .. Capacity
      BY <2>1, <2>2, AdvanceWraps DEF QueueInvariant, QueueTypeOK
    <3>3. sent' \in Seq(Messages \cup {NoMessage}) /\ accepted' \in BOOLEAN
      BY <2>1
    <3> QED  BY <3>1, <3>2, <3>3 DEF QueueTypeOK, Slots
  <2>4. write' = Slot(size)'
    <3>1. Slot(size)' = Slot(size + 1)
      BY <2>1 DEF Slot
    <3> QED  BY <2>1, <2>2, <3>1, EndAdvances
  <2>5. ASSUME NEW i \in 0 .. size' - 1 PROVE messages'[Slot(i)'] \in Messages
    <3>1. Slot(i)' = Slot(i)
      BY <2>1 DEF Slot
    <3>2. CASE i = size
      BY <2>1, <2>2, <3>1, <3>2 DEF QueueInvariant, QueueTypeOK
    <3>3. CASE i # size
      <4>1. i \in 0 .. size - 1
        BY <2>1, <2>2, <3>3
      <4>2. Slot(i) # write /\ messages[Slot(i)] \in Messages
        BY <2>2, <4>1, EndIsFree DEF QueueInvariant, RingIsConsistent
      <4>3. Slot(i) \in Slots
        BY <4>1, <2>2, SlotsWrap DEF QueueInvariant, QueueTypeOK, Slots
      <4> QED  BY <2>1, <3>1, <4>2, <4>3 DEF QueueInvariant, QueueTypeOK
    <3> QED  BY <3>2, <3>3
  <2> QED  BY <2>3, <2>4, <2>5 DEF QueueInvariant, RingIsConsistent
<1> QED  BY <1>1, <1>2

\* service preserves the invariant.
LEMMA ServiceKeeps ==
  ASSUME QueueInvariant, Service
  PROVE  QueueInvariant'
PROOF
<1>1. /\ read' = Advance(read) /\ size' = size - 1 /\ sent' = <<messages[read]>>
      /\ messages' = messages /\ write' = write /\ accepted' = accepted
  BY DEF Service, Pop
<1>2. size \in 1 .. Capacity /\ read \in Slots /\ write = Slot(size)
  BY DEF Service, Pop, QueueInvariant, QueueTypeOK, RingIsConsistent
<1>3. \A i \in 0 .. size - 1 : Slot(i)' = Slot(i + 1)
  BY <1>1, BeginningAdvances DEF Slot
<1>4. QueueTypeOK'
  <2>1. read' \in Slots
    BY <1>1, <1>2, AdvanceWraps
  <2>2. sent' \in Seq(Messages \cup {NoMessage})
    BY <1>1, <1>2 DEF QueueInvariant, QueueTypeOK
  <2>3. size' \in 0 .. Capacity
    BY <1>1, <1>2
  <2> QED  BY <1>1, <2>1, <2>2, <2>3 DEF QueueInvariant, QueueTypeOK, Slots
<1>5. write' = Slot(size)'
  <2>1. size - 1 \in 0 .. size - 1 /\ (size - 1) + 1 = size
    BY <1>2
  <2>2. (read' + (size - 1)) % Capacity = Slot(size)
    BY <1>1, <2>1, BeginningAdvances
  <2>3. Slot(size)' = (read' + (size - 1)) % Capacity
    BY <1>1 DEF Slot
  <2> QED  BY <1>1, <1>2, <2>2, <2>3
<1>6. ASSUME NEW i \in 0 .. size' - 1 PROVE messages'[Slot(i)'] \in Messages
  <2>1. i \in 0 .. size - 1 /\ i + 1 \in 0 .. size - 1
    BY <1>1, <1>2
  <2> QED  BY <1>1, <1>3, <2>1 DEF QueueInvariant, RingIsConsistent
<1> QED  BY <1>4, <1>5, <1>6 DEF QueueInvariant, RingIsConsistent

\* The inductive invariant: types alone would not do, for a push writes at write_ and a pop
\* reads at read_, and only their distance says whether those are the same element.
THEOREM InvariantHolds == Spec => []QueueInvariant
PROOF
<1>1. Init => QueueInvariant
  BY Wraps DEF Init, QueueInvariant, QueueTypeOK, RingIsConsistent, Slots, Slot
<1>2. QueueInvariant /\ [Next]_vars => QueueInvariant'
  <2> SUFFICES ASSUME QueueInvariant, [Next]_vars PROVE QueueInvariant'
    OBVIOUS
  <2>1. CASE \E message \in Messages : Enqueue(message)
    BY <2>1, EnqueueKeeps
  <2>2. CASE Service
    BY <2>2, ServiceKeeps
  <2>3. CASE UNCHANGED vars
    BY <2>3 DEF vars, queue_vars, QueueInvariant, QueueTypeOK, RingIsConsistent, Slots, Slot
  <2> QED  BY <2>1, <2>2, <2>3 DEF Next
<1> QED  BY <1>1, <1>2, PTL DEF Spec

\* read_, write_ and size_ agree in every reachable state, and all that waits was pushed.
THEOREM RingAlwaysConsistent == Spec => []RingIsConsistent
PROOF
<1>1. QueueInvariant => RingIsConsistent
  BY DEF QueueInvariant
<1> QED  BY <1>1, InvariantHolds, PTL
-----------------------------------------------------------------------------
\* What the ring holds is a sequence of messages, as long as size_ says.
LEMMA ContentsAreMessages ==
  ASSUME QueueInvariant
  PROVE  Contents \in Seq(Messages) /\ Len(Contents) = size
PROOF
<1>1. size \in Nat
  BY DEF QueueInvariant, QueueTypeOK
<1>2. \A i \in 1 .. size : messages[Slot(i - 1)] \in Messages
  <2> TAKE i \in 1 .. size
  <2>1. i - 1 \in 0 .. size - 1
    BY <1>1
  <2> QED  BY <2>1 DEF QueueInvariant, RingIsConsistent
<1>3. Contents \in [1 .. size -> Messages]
  BY <1>2 DEF Contents
<1> QED  BY <1>1, <1>3

\* A push appends to the contents, or, when they fill the ring, leaves them alone.
LEMMA EnqueueIsOffer ==
  ASSUME QueueInvariant, NEW message \in Messages, Enqueue(message)
  PROVE  Fifo!Offer(message)
PROOF
<1>0. size \in 0 .. Capacity /\ write \in Slots /\ write = Slot(size) /\ sent' = <<>>
  BY DEF QueueInvariant, QueueTypeOK, RingIsConsistent, Enqueue
<1>1. Contents \in Seq(Messages) /\ Len(Contents) = size
  BY ContentsAreMessages
<1>2. CASE Full
  <2>1. accepted' = FALSE /\ UNCHANGED queue_vars
    BY <1>2 DEF Enqueue
  <2>2. Contents' = Contents
    BY <2>1 DEF Contents, Slot, queue_vars
  <2>3. (Len(Contents) < Capacity) = FALSE
    BY <1>0, <1>1, <1>2 DEF Full
  <2>4. accepted' = (Len(Contents) < Capacity)
    BY <2>1, <2>3, Zenon
  <2> QED  BY <1>0, <2>1, <2>2, <2>4, Zenon DEF Fifo!Offer
<1>3. CASE ~Full
  <2>1. /\ messages' = [messages EXCEPT ![write] = message]
        /\ size' = size + 1 /\ read' = read /\ accepted' = TRUE
    BY <1>3 DEF Enqueue
  <2>2. size # Capacity /\ Len(Contents) < Capacity
    BY <1>0, <1>1, <1>3 DEF Full
  <2>3. \A i \in 1 .. size + 1 : messages'[Slot(i - 1)] = Append(Contents, message)[i]
    <3> TAKE i \in 1 .. size + 1
    <3>1. CASE i = size + 1
      <4>1. Slot(i - 1) = write
        BY <1>0, <3>1
      <4>2. messages'[write] = message
        BY <1>0, <2>1 DEF QueueInvariant, QueueTypeOK
      <4>3. Append(Contents, message)[i] = message
        BY <1>1, <3>1
      <4> QED  BY <4>1, <4>2, <4>3
    <3>2. CASE i \in 1 .. size
      <4>1. i - 1 \in 0 .. size - 1 /\ i - 1 \in 0 .. Capacity
        BY <1>0, <3>2
      <4>2. Slot(i - 1) # write
        BY <2>2, <4>1, EndIsFree
      <4>3. Slot(i - 1) \in Slots
        BY <4>1, <1>0, SlotsWrap DEF QueueInvariant, QueueTypeOK, Slots
      <4>4. messages'[Slot(i - 1)] = messages[Slot(i - 1)]
        BY <2>1, <4>2, <4>3 DEF QueueInvariant, QueueTypeOK
      <4>5. Append(Contents, message)[i] = Contents[i]
        BY <1>1, <3>2
      <4>6. Contents[i] = messages[Slot(i - 1)]
        BY <3>2 DEF Contents
      <4> QED  BY <4>4, <4>5, <4>6, Zenon
    <3>3. i = size + 1 \/ i \in 1 .. size
      BY <1>0
    <3> QED  BY <3>1, <3>2, <3>3, Zenon
  <2>4. Contents' = [i \in 1 .. size + 1 |-> messages'[Slot(i - 1)]]
    BY <2>1 DEF Contents, Slot
  <2>5. Append(Contents, message) = [i \in 1 .. size + 1 |-> Append(Contents, message)[i]]
    <3>1. Append(Contents, message) \in Seq(Messages) /\ Len(Append(Contents, message)) = size + 1
      BY <1>1
    <3>2. Append(Contents, message) \in [1 .. size + 1 -> Messages]
      BY <3>1, LenProperties, Zenon
    <3> QED  BY <3>2, Zenon
  <2>6. Contents' = Append(Contents, message)
    BY <2>3, <2>4, <2>5, Zenon
  <2> QED  BY <1>0, <2>1, <2>2, <2>6 DEF Fifo!Offer
<1> QED  BY <1>2, <1>3

\* A pop takes the oldest of the contents.
LEMMA ServiceIsTake ==
  ASSUME QueueInvariant, Service
  PROVE  1 \in 0 .. Len(Contents) /\ Fifo!Take(1)
PROOF
<1>1. /\ read' = Advance(read) /\ size' = size - 1 /\ sent' = <<messages[read]>>
      /\ messages' = messages /\ accepted' = accepted
  BY DEF Service, Pop
<1>2. size \in 1 .. Capacity /\ read \in Slots
  BY DEF Service, Pop, QueueInvariant, QueueTypeOK
<1>3. Contents \in Seq(Messages) /\ Len(Contents) = size
  BY ContentsAreMessages
<1>4. sent' = SubSeq(Contents, 1, 1)
  <2>1. Slot(0) = read
    BY <1>2, SlotsWrap DEF QueueInvariant, Slots
  <2>2. Contents[1] = messages[read]
    BY <1>2, <2>1 DEF Contents
  <2> QED  BY <1>1, <1>2, <1>3, <2>2
<1>5. Contents' = SubSeq(Contents, 2, Len(Contents))
  <2>1. Contents' = [i \in 1 .. size - 1 |-> messages[(Advance(read) + (i - 1)) % Capacity]]
    BY <1>1 DEF Contents, Slot
  <2>2. \A i \in 1 .. size - 1 : messages[(Advance(read) + (i - 1)) % Capacity] = Contents[i + 1]
    <3> TAKE i \in 1 .. size - 1
    <3>1. i - 1 \in 0 .. size - 1 /\ (i - 1) + 1 = i /\ i + 1 \in 1 .. size /\ (i + 1) - 1 = i
      BY <1>2
    <3>2. (Advance(read) + (i - 1)) % Capacity = Slot(i)
      BY <3>1, BeginningAdvances
    <3> QED  BY <3>1, <3>2 DEF Contents
  <2>3. SubSeq(Contents, 2, Len(Contents)) = [i \in 1 .. size - 1 |-> Contents[i + 1]]
    BY <1>2, <1>3
  <2> QED  BY <2>1, <2>2, <2>3, Zenon
<1> QED  BY <1>1, <1>2, <1>3, <1>4, <1>5 DEF Fifo!Take

\* The ring implements the bounded queue: whatever is pushed and popped, TRS messages leave
\* in the order accepted, and a message is refused only when Capacity of them wait.
THEOREM QueueImplementsFifo == Spec => QueueIsFifo
PROOF
<1>1. Init => Fifo!Init
  BY DEF Init, Fifo!Init, Contents
<1>2. QueueInvariant /\ [Next]_vars => [Fifo!Next]_(Fifo!vars)
  <2> SUFFICES ASSUME QueueInvariant, [Next]_vars PROVE [Fifo!Next]_(Fifo!vars)
    OBVIOUS
  <2>1. ASSUME NEW message \in Messages, Enqueue(message) PROVE Fifo!Next
    BY <2>1, EnqueueIsOffer DEF Fifo!Next
  <2>2. CASE Service
    BY <2>2, ServiceIsTake DEF Fifo!Next
  <2>3. CASE UNCHANGED vars
    BY <2>3 DEF vars, queue_vars, Contents, Slot, Fifo!vars
  <2> QED  BY <2>1, <2>2, <2>3 DEF Next
<1> QED  BY <1>1, <1>2, InvariantHolds, PTL DEF Spec, QueueIsFifo, Fifo!Spec
=============================================================================
