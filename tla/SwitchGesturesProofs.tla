------------------------ MODULE SwitchGesturesProofs ------------------------
(***************************************************************************)
(* Proofs about SwitchGestures for every set of switches and chords, every *)
(* threshold and every behaviour of the contacts. OneGestureAtATime and    *)
(* NothingStaysDown are inductive together: only because the window, the   *)
(* chord and the single presses exclude each other does every reassignment *)
(* of the switches that count as pressed come with the matching events.    *)
(***************************************************************************)
EXTENDS SwitchGestures, TLAPS

USE SwitchAssumption DEF SwitchAssumption

SwitchInvariant ==
  /\ raw \subseteq Switches /\ stable \subseteq Switches
  /\ OneGestureAtATime
  /\ NothingStaysDown

\* Which events a batch of the single presses holds for one switch.
LEMMA EventsOf ==
  ASSUME NEW s \in Switches, NEW pressed, NEW released, NEW long, NEW taps, NEW mask
  PROVE  LET batch == Emit("Press", pressed) \cup Emit("DoubleTap", taps)
                        \cup Emit("Release", released) \cup Emit("LongPress", long)
                        \cup (IF mask = {} THEN {} ELSE EmitChord("ChordPress", mask))
         IN  /\ [kind |-> "Press", switch |-> s] \in batch <=> s \in pressed
             /\ [kind |-> "Release", switch |-> s] \in batch <=> s \in released
PROOF
<1>1. \A set : \A kind \in {"Press", "DoubleTap", "Release", "LongPress"} :
        /\ [kind |-> "Press", switch |-> s] \in Emit(kind, set) <=> kind = "Press" /\ s \in set
        /\ [kind |-> "Release", switch |-> s] \in Emit(kind, set)
             <=> kind = "Release" /\ s \in set
  BY DEF Emit
<1>2. /\ [kind |-> "Press", switch |-> s] \notin EmitChord("ChordPress", mask)
      /\ [kind |-> "Release", switch |-> s] \notin EmitChord("ChordPress", mask)
  BY DEF EmitChord
<1> QED  BY <1>1, <1>2

\* Single presses, with or without a window that closes: the switches with a Press and no
\* Release since are those the engine holds active.
LEMMA SinglesAreDown ==
  ASSUME SwitchInvariant, NEW begun, NEW gap, Singles(begun, gap), Record(gap),
         stable' \subseteq Switches, begun \subseteq stable', begun # {} => single = {}
  PROVE  down' = single' /\ down' \subseteq stable'
PROOF
<1>1. PICK active, kept, pressed, taps, long :
        /\ active = IF begun # {} THEN begun ELSE single
        /\ kept = active \cap stable'
        /\ pressed = begun \cup Joining(kept)
        /\ single' = kept \cup pressed
        /\ events' = Emit("Press", pressed) \cup Emit("DoubleTap", taps)
             \cup Emit("Release", active \ kept) \cup Emit("LongPress", long)
             \cup (IF chord' = {} THEN {} ELSE EmitChord("ChordPress", chord'))
  BY Zenon DEF Singles
<1>2. begun \subseteq pressed /\ pressed \subseteq stable' /\ kept \subseteq stable'
  BY <1>1 DEF Joining
<1>3. \A s \in Switches :
        /\ [kind |-> "Press", switch |-> s] \in events' <=> s \in pressed
        /\ [kind |-> "Release", switch |-> s] \in events' <=> s \in active \ kept
  BY <1>1, EventsOf
<1>4. ASSUME NEW s \in Switches
      PROVE  s \in down' <=> s \in pressed \/ (s \in single /\ s \notin active \ kept)
  <2>1. s \in down' <=> \/ [kind |-> "Press", switch |-> s] \in events'
                        \/ s \in single /\ [kind |-> "Release", switch |-> s] \notin events'
    BY DEF Record, Emitted, SwitchInvariant, NothingStaysDown
  <2> QED  BY <1>3, <2>1
<1>5. down' \subseteq Switches /\ single \subseteq Switches
  BY DEF Record, SwitchInvariant, NothingStaysDown
<1>6. CASE begun = {}
  BY <1>1, <1>2, <1>4, <1>5, <1>6
<1>7. CASE begun # {}
  BY <1>1, <1>2, <1>4, <1>5, <1>7
<1> QED  BY <1>6, <1>7

\* Every update preserves the invariant.
LEMMA UpdateKeepsInvariant ==
  ASSUME SwitchInvariant, NEW mask \in SUBSET Switches, NEW gap \in 0 .. MaxGap,
         Update(mask, gap), Record(gap)
  PROVE  SwitchInvariant'
PROOF
<1>1. raw' \subseteq Switches /\ stable' \subseteq Switches
  BY DEF Update, Sample, SwitchInvariant
<1>2. CASE chord # {} /\ stable' # chord /\ EndChord /\ KeepSingles(gap)
  <2>1. single = {} /\ down = {}
    BY <1>2 DEF SwitchInvariant, OneGestureAtATime, NothingStaysDown
  <2>2. \A s \in Switches : ~Emitted("Press", s)
    BY <1>2 DEF EndChord, EmitChord, Emitted
  <2> QED  BY <1>1, <1>2, <2>1, <2>2
         DEF EndChord, KeepSingles, Record, SwitchInvariant, OneGestureAtATime, NothingStaysDown
<1>3. CASE chord # {} /\ stable' = chord /\ HoldChord(gap) /\ KeepSingles(gap)
  <2>1. single = {} /\ down = {}
    BY <1>3 DEF SwitchInvariant, OneGestureAtATime, NothingStaysDown
  <2>2. \A s \in Switches : ~Emitted("Press", s)
    BY <1>3 DEF HoldChord, Emitted
  <2> QED  BY <1>1, <1>3, <2>1, <2>2
         DEF HoldChord, KeepSingles, Record, SwitchInvariant, OneGestureAtATime, NothingStaysDown
<1>4. CASE chord = {} /\ Recognize(mask, gap)
  <2> DEFINE age == IF FirstEdge(mask) THEN 0 ELSE candidate_age + gap
             closes == (candidate \/ FirstEdge(mask)) /\ age >= ChordWindow
             recognized == closes /\ stable' \in Chords
             begun == IF closes /\ ~recognized THEN stable' ELSE {}
  <2>1. /\ candidate' = ((candidate \/ FirstEdge(mask)) /\ ~closes)
        /\ chord' = IF recognized THEN stable' ELSE {}
        /\ Singles(begun, gap)
    BY <1>4 DEF Recognize
  <2>2. candidate \/ FirstEdge(mask) => single = {}
    BY DEF FirstEdge, SwitchInvariant, OneGestureAtATime
  <2>3. down' = single' /\ down' \subseteq stable'
    <3>1. begun \subseteq stable' /\ (begun # {} => single = {})
      BY <2>2
    <3> QED  BY <1>1, <2>1, <3>1, SinglesAreDown
  <2>4. candidate \/ FirstEdge(mask) => begun # {} \/ single' = {}
    <3>1. single' = ((IF begun # {} THEN begun ELSE single) \cap stable')
             \cup (begun \cup Joining((IF begun # {} THEN begun ELSE single) \cap stable'))
      BY <2>1 DEF Singles
    <3> QED  BY <2>2, <3>1 DEF Joining
  <2> HIDE DEF age
  <2>5. candidate' => chord' = {} /\ single' = {}
    BY <2>1, <2>4
  <2>6. chord' # {} => single' = {} /\ chord' = stable'
    BY <2>1, <2>4
  <2> QED  BY <1>1, <2>3, <2>5, <2>6 DEF SwitchInvariant, OneGestureAtATime, NothingStaysDown
<1> QED  BY <1>2, <1>3, <1>4 DEF Update

\* Whatever the contacts do, the engine is in one gesture at a time.
THEOREM InvariantHolds == GestureSpec => []SwitchInvariant
PROOF
<1>1. GestureInit => SwitchInvariant
  BY DEF GestureInit, Init, SwitchInvariant, OneGestureAtATime, NothingStaysDown
<1>2. SwitchInvariant /\ [GestureNext]_<<vars, history>> => SwitchInvariant'
  <2> SUFFICES ASSUME SwitchInvariant, [GestureNext]_<<vars, history>>
               PROVE  SwitchInvariant'
    OBVIOUS
  <2>1. CASE GestureNext
    BY <2>1, UpdateKeepsInvariant DEF GestureNext
  <2>2. CASE UNCHANGED <<vars, history>>
    BY <2>2 DEF vars, history, timers, SwitchInvariant, OneGestureAtATime, NothingStaysDown
  <2> QED  BY <2>1, <2>2
<1> QED  BY <1>1, <1>2, PTL DEF GestureSpec

\* The window, a chord and single presses exclude each other.
THEOREM GesturesExclude == GestureSpec => []OneGestureAtATime
PROOF  BY InvariantHolds, PTL DEF SwitchInvariant

\* Press and Release alternate for every switch, and nothing stays pressed, no chord stays
\* active, once its switches are stably up.
THEOREM PressesAreReleased == GestureSpec => []NothingStaysDown
PROOF  BY InvariantHolds, PTL DEF SwitchInvariant
-----------------------------------------------------------------------------
(***************************************************************************)
(* The rate of the repeats. The invariant relates the time the chord has   *)
(* been held to the deadline of its next repeat; it needs the batch to     *)
(* hold every repeat that one late pass of the control loop can owe.       *)
(***************************************************************************)
BatchHoldsAll == MaxGap <= EventCapacity * RepeatInterval

RepeatInvariant ==
  /\ held \in Nat /\ repeated \in Nat
  /\ chord # {} =>
       /\ repeat_in \in Nat \ {0}
       /\ held + repeat_in = RepeatDelay + repeated * RepeatInterval
       /\ repeated > 0 => repeat_in <= RepeatInterval

\* Rescheduling by whole intervals reaches the first deadline that is still to come.
LEMMA NextDeadline ==
  ASSUME NEW late \in Nat
  PROVE  /\ late \div RepeatInterval \in Nat
         /\ (late \div RepeatInterval) * RepeatInterval <= late
         /\ (late \div RepeatInterval + 1) * RepeatInterval - late \in 1 .. RepeatInterval
PROOF  BY Z3

\* So many intervals fit in a time.
LEMMA Intervals ==
  ASSUME NEW n \in Nat, NEW wait \in 1 .. RepeatInterval
  PROVE  (n * RepeatInterval + (RepeatInterval - wait)) \div RepeatInterval = n
PROOF  BY Z3

\* A pass over a chord that is held.
LEMMA HoldingKeepsTime ==
  ASSUME BatchHoldsAll, RepeatInvariant, chord # {}, NEW gap \in 0 .. MaxGap,
         HoldChord(gap), Record(gap)
  PROVE  RepeatInvariant'
PROOF
<1> DEFINE late == gap - repeat_in
           due == IF late < 0 THEN 0 ELSE late \div RepeatInterval + 1
<1>1. /\ repeat_in \in Nat \ {0} /\ held \in Nat /\ repeated \in Nat /\ gap \in Nat
      /\ held + repeat_in = RepeatDelay + repeated * RepeatInterval
      /\ repeated > 0 => repeat_in <= RepeatInterval
  BY DEF RepeatInvariant
<1>2. /\ chord' = chord /\ repeats' = Min(due, EventCapacity)
      /\ repeat_in' = repeat_in - gap + due * RepeatInterval
      /\ held' = held + gap /\ repeated' = repeated + repeats'
  BY DEF HoldChord, Batched, Reschedule, Record
<1>3. CASE late < 0
  BY <1>1, <1>2, <1>3 DEF RepeatInvariant, Min
<1>4. CASE late >= 0
  <2>1. late \in Nat /\ late < MaxGap
    BY <1>1, <1>4
  <2>2. PICK n \in Nat : n = late \div RepeatInterval
    BY <2>1, NextDeadline
  <2>3. n * RepeatInterval <= late /\ (n + 1) * RepeatInterval - late \in 1 .. RepeatInterval
    BY <2>1, <2>2, NextDeadline
  <2>4. n < EventCapacity
    <3>1. n * RepeatInterval < EventCapacity * RepeatInterval
      BY <2>1, <2>3 DEF BatchHoldsAll
    <3> QED  BY <3>1, Z3
  <2>5. due = n + 1 /\ repeats' = n + 1
    BY <1>1, <1>2, <1>4, <2>2, <2>4 DEF Min
  <2>6. repeat_in' = (n + 1) * RepeatInterval - late
    BY <1>1, <1>2, <2>5
  <2>7. (repeated + (n + 1)) * RepeatInterval = repeated * RepeatInterval + (n + 1) * RepeatInterval
    BY <1>1
  <2> QED  BY <1>1, <1>2, <2>3, <2>5, <2>6, <2>7 DEF RepeatInvariant
<1> QED  BY <1>1, <1>3, <1>4

\* However late and unevenly the control loop comes by, a held chord has repeated as often
\* as the time it has been held says.
THEOREM RepeatsKeepTheirRate == BatchHoldsAll => (GestureSpec => []RepeatsKeepTime)
PROOF
<1> SUFFICES ASSUME BatchHoldsAll  PROVE  GestureSpec => []RepeatsKeepTime
  OBVIOUS
<1>1. GestureInit => RepeatInvariant
  BY DEF GestureInit, Init, RepeatInvariant
<1>2. RepeatInvariant /\ [GestureNext]_<<vars, history>> => RepeatInvariant'
  <2> SUFFICES ASSUME RepeatInvariant, [GestureNext]_<<vars, history>>
               PROVE  RepeatInvariant'
    OBVIOUS
  <2>1. ASSUME NEW mask \in SUBSET Switches, NEW gap \in 0 .. MaxGap,
               Update(mask, gap), Record(gap)
        PROVE  RepeatInvariant'
    <3>1. CASE chord # {} /\ stable' # chord /\ EndChord
      BY <2>1, <3>1 DEF EndChord, Record, RepeatInvariant
    <3>2. CASE chord # {} /\ stable' = chord /\ HoldChord(gap)
      BY <2>1, <3>2, HoldingKeepsTime
    <3>3. CASE chord = {} /\ Recognize(mask, gap)
      BY <2>1, <3>3 DEF Recognize, Record, RepeatInvariant
    <3> QED  BY <2>1, <3>1, <3>2, <3>3 DEF Update
  <2>2. CASE UNCHANGED <<vars, history>>
    BY <2>2 DEF vars, history, timers, RepeatInvariant
  <2> QED  BY <2>1, <2>2 DEF GestureNext
<1>3. RepeatInvariant => RepeatsKeepTime
  <2> SUFFICES ASSUME RepeatInvariant, chord # {}
               PROVE  repeated = IF held < RepeatDelay THEN 0
                                 ELSE (held - RepeatDelay) \div RepeatInterval + 1
    BY DEF RepeatsKeepTime
  <2>1. /\ repeat_in \in Nat \ {0} /\ held \in Nat /\ repeated \in Nat
        /\ held + repeat_in = RepeatDelay + repeated * RepeatInterval
        /\ repeated > 0 => repeat_in <= RepeatInterval
    BY DEF RepeatInvariant
  <2>2. CASE repeated = 0
    BY <2>1, <2>2
  <2>3. CASE repeated > 0
    <3>1. PICK n \in Nat : repeated = n + 1
      BY <2>1, <2>3
    <3>2. held - RepeatDelay = n * RepeatInterval + (RepeatInterval - repeat_in)
      BY <2>1, <3>1
    <3>3. repeat_in \in 1 .. RepeatInterval
      BY <2>1, <2>3
    <3>4. n * RepeatInterval \in Nat
      BY <3>1
    <3>5. (held - RepeatDelay) \div RepeatInterval = n
      BY <3>1, <3>2, <3>3, Intervals
    <3> QED  BY <2>1, <3>1, <3>2, <3>3, <3>4, <3>5
  <2> QED  BY <2>1, <2>2, <2>3
<1> QED  BY <1>1, <1>2, <1>3, PTL DEF GestureSpec
-----------------------------------------------------------------------------
(***************************************************************************)
(* Types: the ages stay below their thresholds, and what they are compared *)
(* with is never more than a threshold away.                               *)
(***************************************************************************)

\* An age that is cut off at its threshold.
LEMMA AgedIsBounded ==
  ASSUME NEW limit \in Nat, NEW age \in 0 .. limit, NEW gap \in Nat
  PROVE  Aged(age, gap, limit) \in 0 .. limit
PROOF  BY DEF Aged, Min

\* Every batch of single presses is made of the events of update().
LEMMA SinglesType ==
  ASSUME SwitchTypeOK, NEW begun \in SUBSET Switches, NEW gap \in Nat, Singles(begun, gap),
         stable' \subseteq Switches, chord' \in Chords \cup {{}}
  PROVE  /\ single' \subseteq Switches /\ long_emitted' \subseteq single'
         /\ pressed_age' \in [Switches -> 0 .. LongPress]
         /\ tap_age' \in [Switches -> 0 .. DoubleTap]
         /\ events' \subseteq SwitchEvents \cup ChordEvents
PROOF
<1>1. PICK active, kept, pressed, taps, long :
        /\ active = IF begun # {} THEN begun ELSE single
        /\ kept = active \cap stable'
        /\ pressed = begun \cup Joining(kept)
        /\ taps \subseteq pressed /\ long \subseteq kept
        /\ single' = kept \cup pressed
        /\ long_emitted' = ((long_emitted \ pressed) \cup long) \cap single'
        /\ events' = Emit("Press", pressed) \cup Emit("DoubleTap", taps)
             \cup Emit("Release", active \ kept) \cup Emit("LongPress", long)
             \cup (IF chord' = {} THEN {} ELSE EmitChord("ChordPress", chord'))
  <2> DEFINE active == IF begun # {} THEN begun ELSE single
             kept == active \cap stable'
             pressed == begun \cup Joining(kept)
             taps == {s \in pressed : Aged(tap_age[s], gap, DoubleTap) < DoubleTap}
             long == {s \in kept \ (begun \cup long_emitted) : pressed_age[s] + gap >= LongPress}
  <2>1. taps \subseteq pressed /\ long \subseteq kept
    OBVIOUS
  <2>2. /\ single' = kept \cup pressed
        /\ long_emitted' = ((long_emitted \ pressed) \cup long) \cap single'
        /\ events' = Emit("Press", pressed) \cup Emit("DoubleTap", taps)
             \cup Emit("Release", active \ kept) \cup Emit("LongPress", long)
             \cup (IF chord' = {} THEN {} ELSE EmitChord("ChordPress", chord'))
    BY Zenon DEF Singles
  <2> QED  BY <2>1, <2>2, Zenon
<1>2. active \subseteq Switches /\ kept \subseteq Switches /\ pressed \subseteq Switches
  BY <1>1 DEF SwitchTypeOK, Joining
<1>3. single' \subseteq Switches /\ long_emitted' \subseteq single'
  BY <1>1, <1>2
<1>4. events' \subseteq SwitchEvents \cup ChordEvents
  <2>1. \A set \in SUBSET Switches : \A kind \in {"Press", "Release", "LongPress", "DoubleTap"} :
          Emit(kind, set) \subseteq SwitchEvents
    BY DEF Emit, SwitchEvents
  <2>2. chord' # {} => EmitChord("ChordPress", chord') \subseteq ChordEvents
    BY DEF EmitChord, ChordEvents
  <2>3. taps \subseteq Switches /\ long \subseteq Switches /\ active \ kept \subseteq Switches
    BY <1>1, <1>2
  <2>4. /\ Emit("Press", pressed) \subseteq SwitchEvents
        /\ Emit("DoubleTap", taps) \subseteq SwitchEvents
        /\ Emit("Release", active \ kept) \subseteq SwitchEvents
        /\ Emit("LongPress", long) \subseteq SwitchEvents
    BY <1>2, <2>1, <2>3
  <2> QED  BY <1>1, <2>2, <2>4
<1>5. /\ \A s \in Switches : pressed_age[s] \in 0 .. LongPress
      /\ \A s \in Switches : tap_age[s] \in 0 .. DoubleTap
  BY DEF SwitchTypeOK
<1>6. /\ \A s \in Switches : Aged(pressed_age[s], gap, LongPress) \in 0 .. LongPress
      /\ \A s \in Switches : Aged(tap_age[s], gap, DoubleTap) \in 0 .. DoubleTap
  BY <1>5, AgedIsBounded
<1>7. \E set : pressed_age' = [s \in Switches |->
                  IF s \in set THEN Aged(pressed_age[s], gap, LongPress) ELSE 0]
  BY Zenon DEF Singles
<1>8. \E set : tap_age' = [s \in Switches |->
                  IF s \in set THEN 0 ELSE Aged(tap_age[s], gap, DoubleTap)]
  BY Zenon DEF Singles
<1> QED  BY <1>3, <1>4, <1>6, <1>7, <1>8

\* Every update keeps the types.
LEMMA UpdateKeepsTypes ==
  ASSUME SwitchTypeOK, NEW mask \in SUBSET Switches, NEW gap \in Nat, Update(mask, gap)
  PROVE  SwitchTypeOK'
PROOF
<1>1. rest' = rest /\ rest \in Nat /\ rest \in Rests
  BY DEF Update, Contacts, SwitchTypeOK
<1>2. Max(Debounce, rest) \in Nat
  BY <1>1 DEF Max
<1>3. raw' \subseteq Switches /\ stable' \subseteq Switches
  BY DEF Update, Sample, SwitchTypeOK
<1>4. raw_age' \in 0 .. Max(Debounce, rest')
  BY <1>1, <1>2, AgedIsBounded DEF Update, Sample, SwitchTypeOK
<1>5. KeepSingles(gap) => /\ single' \subseteq Switches /\ long_emitted' \subseteq single'
                          /\ pressed_age' \in [Switches -> 0 .. LongPress]
                          /\ tap_age' \in [Switches -> 0 .. DoubleTap]
  <2>1. \A s \in Switches : Aged(tap_age[s], gap, DoubleTap) \in 0 .. DoubleTap
    BY AgedIsBounded DEF SwitchTypeOK
  <2> QED  BY <2>1 DEF KeepSingles, SwitchTypeOK
<1>6. CASE chord # {} /\ stable' # chord /\ EndChord /\ KeepSingles(gap)
  <2>1. events' \subseteq ChordEvents
    BY <1>6 DEF EndChord, EmitChord, ChordEvents, SwitchTypeOK
  <2>2. candidate' \in BOOLEAN
    BY <1>6, Zenon DEF EndChord
  <2> QED  BY <1>1, <1>3, <1>4, <1>5, <1>6, <2>1, <2>2 DEF EndChord, SwitchTypeOK, Max
<1>7. CASE chord # {} /\ stable' = chord /\ HoldChord(gap) /\ KeepSingles(gap)
  <2> DEFINE late == gap - repeat_in
             due == IF late < 0 THEN 0 ELSE late \div RepeatInterval + 1
  <2>1. /\ repeats' = Min(due, EventCapacity) /\ repeat_in' = repeat_in - gap + due * RepeatInterval
        /\ events' = {} /\ UNCHANGED <<chord, candidate, candidate_age>>
    BY <1>7 DEF HoldChord, Batched, Reschedule
  <2>2. repeat_in \in Nat /\ repeat_in <= Max(RepeatDelay, RepeatInterval)
    BY DEF SwitchTypeOK, Max
  <2>3. repeats' \in 0 .. EventCapacity /\ repeat_in' \in 0 .. Max(RepeatDelay, RepeatInterval)
    <3>1. CASE late < 0
      BY <2>1, <2>2, <3>1 DEF Min, Max
    <3>2. CASE late >= 0
      <4>1. late \in Nat /\ due = late \div RepeatInterval + 1
        BY <2>2, <3>2
      <4>2. due \in Nat /\ due * RepeatInterval - late \in 1 .. RepeatInterval
        BY <4>1, NextDeadline
      <4>3. repeat_in' = due * RepeatInterval - late
        BY <2>1, <2>2, <4>2
      <4> HIDE DEF due, late
      <4> QED  BY <2>1, <4>2, <4>3 DEF Min, Max
    <3> QED  BY <2>2, <3>1, <3>2
  <2> QED  BY <1>1, <1>3, <1>4, <1>5, <1>7, <2>1, <2>3 DEF SwitchTypeOK
<1>8. CASE chord = {} /\ Recognize(mask, gap)
  <2> DEFINE age == IF FirstEdge(mask) THEN 0 ELSE candidate_age + gap
             closes == (candidate \/ FirstEdge(mask)) /\ age >= ChordWindow
             recognized == closes /\ stable' \in Chords
             begun == IF closes /\ ~recognized THEN stable' ELSE {}
  <2>1. /\ candidate' = ((candidate \/ FirstEdge(mask)) /\ ~closes)
        /\ candidate_age' = IF candidate' THEN age ELSE 0
        /\ chord' = IF recognized THEN stable' ELSE {}
        /\ repeat_in' = IF recognized THEN RepeatDelay ELSE 0
        /\ repeats' = 0
        /\ Singles(begun, gap)
    BY <1>8 DEF Recognize
  <2>2. chord' \in Chords \cup {{}} /\ begun \in SUBSET Switches
    BY <1>3, <2>1
  <2>3. /\ single' \subseteq Switches /\ long_emitted' \subseteq single'
        /\ pressed_age' \in [Switches -> 0 .. LongPress]
        /\ tap_age' \in [Switches -> 0 .. DoubleTap]
        /\ events' \subseteq SwitchEvents \cup ChordEvents
    <3> HIDE DEF begun
    <3> QED  BY <1>3, <2>1, <2>2, SinglesType
  <2>4. age \in Nat
    BY DEF SwitchTypeOK
  <2>5. candidate' \in BOOLEAN
    BY <2>1, Zenon
  <2>6. candidate' => age < ChordWindow
    <3>1. candidate' => ~(age >= ChordWindow)
      BY <2>1, Zenon
    <3> HIDE DEF age
    <3> QED  BY <2>4, <3>1
  <2>7. candidate_age' \in 0 .. ChordWindow
    <3> HIDE DEF age
    <3> QED  BY <2>1, <2>4, <2>5, <2>6
  <2>8. repeat_in' \in 0 .. Max(RepeatDelay, RepeatInterval) /\ repeats' \in 0 .. EventCapacity
    <3> HIDE DEF recognized
    <3> QED  BY <2>1 DEF Max
  <2> QED  BY <1>1, <1>3, <1>4, <2>2, <2>3, <2>5, <2>7, <2>8 DEF SwitchTypeOK
<1> QED  BY <1>6, <1>7, <1>8 DEF Update

\* The ages, masks and events of update() keep their types, whatever the thresholds.
THEOREM SwitchTypeCorrect == GestureSpec => []SwitchTypeOK
PROOF
<1>1. GestureInit => SwitchTypeOK
  <2> SUFFICES ASSUME GestureInit  PROVE  SwitchTypeOK
    OBVIOUS
  <2>1. rest \in Nat /\ raw_age \in 0 .. Max(Debounce, rest)
    BY DEF GestureInit, Init, Max
  <2>2. candidate \in BOOLEAN /\ candidate_age \in 0 .. ChordWindow
    <3>1. candidate \in BOOLEAN
      BY Zenon DEF GestureInit, Init
    <3>2. candidate_age = 0
      BY Zenon DEF GestureInit, Init
    <3> QED  BY <3>1, <3>2
  <2>3. 0 \in 0 .. Max(RepeatDelay, RepeatInterval)
    BY DEF Max
  <2>4. /\ pressed_age \in [Switches -> 0 .. LongPress]
        /\ tap_age \in [Switches -> 0 .. DoubleTap]
    BY DEF GestureInit, Init
  <2> QED  BY <2>1, <2>2, <2>3, <2>4 DEF GestureInit, Init, SwitchTypeOK
<1>2. SwitchTypeOK /\ [GestureNext]_<<vars, history>> => SwitchTypeOK'
  <2> SUFFICES ASSUME SwitchTypeOK, [GestureNext]_<<vars, history>>
               PROVE  SwitchTypeOK'
    OBVIOUS
  <2>1. CASE GestureNext
    <3>1. PICK mask \in SUBSET Switches, gap \in 0 .. MaxGap : Update(mask, gap)
      BY <2>1 DEF GestureNext
    <3> QED  BY <3>1, UpdateKeepsTypes
  <2>2. CASE UNCHANGED <<vars, history>>
    BY <2>2 DEF vars, history, timers, SwitchTypeOK
  <2> QED  BY <2>1, <2>2
<1> QED  BY <1>1, <1>2, PTL DEF GestureSpec
-----------------------------------------------------------------------------
(***************************************************************************)
(* No press is lost when edges are further apart than debouncing and the   *)
(* chord window take. The invariant says why: at an edge the mask before   *)
(* it is stable, so the first switch to go down finds nothing in progress  *)
(* and opens a window, which cannot close before the switch is stable; and *)
(* a window that a chord left open is closed by the time all are up again. *)
(***************************************************************************)
SteadyContacts == rest > Debounce + ChordWindow

SettledAtEdge ==
  /\ raw_age >= Debounce => stable = raw
  /\ stable \subseteq raw \/ raw \subseteq stable

WindowMeetsEdge ==
  /\ candidate /\ raw = {} => candidate_age >= raw_age
  /\ raw_age < Debounce /\ stable = {} /\ raw # {} => candidate /\ candidate_age <= raw_age

AllAreReported ==
  /\ candidate \/ chord = stable \/ single = stable
  /\ chord \subseteq chorded

SteadyInvariant ==
  SteadyContacts => SettledAtEdge /\ WindowMeetsEdge /\ AllAreReported

\* Debouncing: an edge finds the mask before it stable.
LEMMA SampleSettles ==
  ASSUME SwitchTypeOK, SteadyContacts, SettledAtEdge, NEW mask \in SUBSET Switches,
         NEW gap \in Nat, Contacts(mask), Sample(mask, gap)
  PROVE  /\ SteadyContacts' /\ SettledAtEdge'
         /\ stable' \in {stable, raw'} /\ raw_age' \in Nat
         /\ mask # raw => /\ stable = raw /\ stable' = stable /\ raw_age' = 0
                          /\ raw_age > ChordWindow
         /\ mask = raw /\ raw_age' < Debounce => raw_age' = raw_age + gap
         /\ mask = raw => raw_age' <= raw_age + gap
         /\ raw_age' >= Debounce => stable' = raw'
         /\ raw_age' < Debounce => stable' = stable
PROOF
<1>1. rest \in Nat /\ raw_age \in Nat /\ raw_age <= Max(Debounce, rest)
  BY DEF SwitchTypeOK, Max
<1>2. raw' = mask /\ rest' = rest
  BY DEF Sample, Contacts
<1>3. CASE mask # raw
  <2>1. raw_age >= rest /\ (mask \subseteq raw \/ raw \subseteq mask)
    BY <1>1, <1>3 DEF Contacts, SteadyContacts
  <2>2. raw_age' = 0 /\ stable' = stable
    BY <1>3 DEF Sample
  <2> QED  BY <1>1, <1>2, <1>3, <2>1, <2>2 DEF SettledAtEdge, SteadyContacts
<1>4. CASE mask = raw
  <2>1. /\ raw_age' = Aged(raw_age, gap, Max(Debounce, rest))
        /\ stable' = IF raw_age' >= Debounce THEN mask ELSE stable
    BY <1>4 DEF Sample
  <2>2. /\ raw_age' \in Nat /\ raw_age' <= raw_age + gap /\ raw_age' >= raw_age
        /\ raw_age' < Debounce => raw_age' = raw_age + gap
    BY <1>1, <2>1 DEF Aged, Min, Max
  <2> QED  BY <1>1, <1>2, <1>4, <2>1, <2>2 DEF SettledAtEdge, SteadyContacts
<1> QED  BY <1>3, <1>4

\* Every update keeps the reasons why a steady press is reported.
LEMMA UpdateKeepsSteady ==
  ASSUME SwitchTypeOK, SwitchInvariant, SteadyInvariant, NEW mask \in SUBSET Switches,
         NEW gap \in 0 .. MaxGap, Update(mask, gap), Record(gap)
  PROVE  SteadyInvariant'
PROOF
<1> SUFFICES ASSUME SteadyContacts'  PROVE  (SettledAtEdge /\ WindowMeetsEdge /\ AllAreReported)'
  BY DEF SteadyInvariant
<1>1. gap \in Nat /\ Contacts(mask) /\ Sample(mask, gap) /\ raw' = mask
  BY DEF Update, Sample
<1>2. SteadyContacts
  BY <1>1 DEF Contacts, SteadyContacts
<1>3. SettledAtEdge /\ WindowMeetsEdge /\ AllAreReported
  BY <1>2 DEF SteadyInvariant
<1>4. /\ SettledAtEdge'
      /\ stable' \in {stable, raw'} /\ raw_age' \in Nat
      /\ mask # raw => /\ stable = raw /\ stable' = stable /\ raw_age' = 0
                       /\ raw_age > ChordWindow
      /\ mask = raw /\ raw_age' < Debounce => raw_age' = raw_age + gap
      /\ mask = raw => raw_age' <= raw_age + gap
      /\ raw_age' >= Debounce => stable' = raw'
      /\ raw_age' < Debounce => stable' = stable
  BY <1>1, <1>2, <1>3, SampleSettles
<1>5. /\ raw_age \in Nat /\ candidate_age \in Nat /\ candidate_age <= ChordWindow
      /\ candidate \in BOOLEAN
  BY DEF SwitchTypeOK, Max
<1>6. chord' \subseteq stable' => chord' \subseteq chorded'
  BY DEF Record
<1>7. CASE chord # {} /\ stable' # chord /\ EndChord
  <2>1. chord = stable /\ candidate = FALSE
    BY <1>5, <1>7 DEF SwitchInvariant, OneGestureAtATime, NothingStaysDown
  <2>2. stable' = raw' /\ raw_age' >= Debounce
    BY <1>4, <1>7, <2>1
  <2>3. chord' = {} /\ candidate' = (stable' # {}) /\ candidate_age' = 0
    BY <1>7, <2>1 DEF EndChord
  <2> QED  BY <1>4, <1>6, <2>2, <2>3 DEF WindowMeetsEdge, AllAreReported
<1>8. CASE chord # {} /\ stable' = chord /\ HoldChord(gap)
  <2>1. chord' = chord /\ candidate' = candidate /\ ~candidate
    BY <1>8 DEF HoldChord, SwitchInvariant, OneGestureAtATime
  <2> QED  BY <1>4, <1>6, <1>8, <2>1 DEF WindowMeetsEdge, AllAreReported
<1>9. CASE chord = {} /\ Recognize(mask, gap)
  <2> DEFINE opens == candidate \/ FirstEdge(mask)
             age == IF FirstEdge(mask) THEN 0 ELSE candidate_age + gap
             closes == opens /\ age >= ChordWindow
             recognized == closes /\ stable' \in Chords
             begun == IF closes /\ ~recognized THEN stable' ELSE {}
             kept == (IF begun # {} THEN begun ELSE single) \cap stable'
  <2>1. /\ candidate' = (opens /\ ~closes)
        /\ candidate_age' = IF candidate' THEN age ELSE 0
        /\ chord' = IF recognized THEN stable' ELSE {}
        /\ Singles(begun, gap)
    BY <1>9 DEF Recognize
  <2>2. single' = kept \cup (begun \cup (IF kept # {} THEN stable' \ kept ELSE {}))
    BY <2>1 DEF Singles, Joining
  <2>3. /\ candidate => single = {}
        /\ single \subseteq stable
    BY DEF SwitchInvariant, OneGestureAtATime, NothingStaysDown
  <2>4. FirstEdge(mask) <=> raw = {} /\ mask # {} /\ ~candidate /\ single = {}
    BY <1>9 DEF FirstEdge
  \* A first edge, from nothing in progress, opens the window.
  <2>5. raw = {} /\ mask # {} => FirstEdge(mask)
    <3> SUFFICES ASSUME raw = {}, mask # {}  PROVE  ~candidate /\ single = {}
      BY <2>4
    <3>1. stable = {} /\ raw_age > ChordWindow
      BY <1>4
    <3> QED  BY <1>3, <1>5, <2>3, <3>1 DEF WindowMeetsEdge
  <2>6. WindowMeetsEdge'
    <3>1. ASSUME candidate', raw' = {}  PROVE  candidate_age' >= raw_age'
      <4>1. candidate /\ candidate_age' = candidate_age + gap
        BY <1>1, <2>1, <2>4, <3>1
      <4>2. CASE mask # raw
        BY <1>4, <1>5, <4>1, <4>2
      <4>3. CASE mask = raw
        BY <1>1, <1>3, <1>4, <1>5, <3>1, <4>1, <4>3 DEF WindowMeetsEdge
      <4> QED  BY <4>2, <4>3
    <3>2. ASSUME raw_age' < Debounce, stable' = {}, raw' # {}
          PROVE  candidate' /\ candidate_age' <= raw_age'
      <4>1. stable = {}
        BY <1>4, <3>2
      <4>2. CASE mask # raw
        <5>1. raw = {} /\ raw_age' = 0
          BY <1>4, <4>1, <4>2
        <5>2. FirstEdge(mask)
          BY <1>1, <2>5, <3>2, <5>1
        <5>3. age = 0 /\ age < ChordWindow
          BY <5>2, SwitchAssumption
        <5>4. opens /\ ~closes
          BY <5>2, <5>3, SwitchAssumption
        <5>5. candidate' /\ candidate_age' = age
          BY <2>1, <5>4
        <5> QED  BY <5>1, <5>3, <5>5
      <4>3. CASE mask = raw
        <5>1. raw_age' = raw_age + gap
          BY <1>4, <3>2, <4>3
        <5>2. candidate /\ candidate_age <= raw_age
          BY <1>1, <1>3, <1>5, <3>2, <4>1, <4>3, <5>1 DEF WindowMeetsEdge
        <5>3. ~FirstEdge(mask)
          BY <2>4, <5>2
        <5>4. age = candidate_age + gap /\ age <= raw_age'
          BY <1>1, <1>5, <5>1, <5>2, <5>3
        <5>5. age < ChordWindow
          BY <1>1, <1>4, <1>5, <3>2, <5>4, SwitchAssumption
        <5>6. opens /\ ~closes
          BY <1>1, <1>5, <5>2, <5>4, <5>5, SwitchAssumption
        <5>7. candidate' /\ candidate_age' = age
          BY <2>1, <5>6
        <5> QED  BY <5>4, <5>7
      <4> QED  BY <4>2, <4>3
    <3> QED  BY <3>1, <3>2 DEF WindowMeetsEdge
  <2>7. AllAreReported'
    <3>1. CASE closes
      <4>1. recognized => chord' = stable'
        BY <2>1
      <4>2. ~recognized /\ stable' # {} => single' = stable'
        BY <2>2, <3>1
      <4>3. ~recognized /\ stable' = {} => single' = stable'
        BY <2>2
      <4> QED  BY <1>6, <2>1, <4>1, <4>2, <4>3 DEF AllAreReported
    <3>2. CASE opens /\ ~closes
      BY <1>6, <2>1, <3>2 DEF AllAreReported
    <3>3. CASE ~opens
      <4>1. chord' = {} /\ begun = {} /\ single = stable
        BY <1>3, <1>9, <2>1, <2>3, <3>3 DEF AllAreReported
      <4>2. kept # {} => single' = stable'
        BY <2>2, <4>1
      <4>3. kept = {} => stable' = {}
        <5> SUFFICES ASSUME kept = {}, stable' # {}  PROVE  FALSE
          OBVIOUS
        <5>1. stable \cap stable' = {} /\ stable' # stable
          BY <4>1
        <5>2. stable' = raw /\ mask = raw /\ raw_age' >= Debounce
          BY <1>1, <1>4, <1>5, <5>1
        <5>3. stable = {}
          BY <1>3, <5>1, <5>2 DEF SettledAtEdge
        <5>4. raw_age < Debounce
          BY <1>3, <1>5, <5>1, <5>2 DEF SettledAtEdge
        <5>5. candidate
          BY <1>3, <5>2, <5>3, <5>4 DEF WindowMeetsEdge
        <5> QED  BY <3>3, <5>5
      <4>4. kept = {} => single' = {}
        BY <2>2, <4>1
      <4> QED  BY <1>6, <4>1, <4>2, <4>3, <4>4 DEF AllAreReported
    <3> QED  BY <3>1, <3>2, <3>3
  <2> QED  BY <1>4, <2>6, <2>7
<1> QED  BY <1>7, <1>8, <1>9 DEF Update

\* Where contacts do not bounce and edges are further apart than the chord window and
\* debouncing, a switch that is down has been reported, alone or in a chord.
THEOREM SteadyPressesAreReported == GestureSpec => []SteadyPressIsReported
PROOF
<1>1. GestureInit => SteadyInvariant
  <2> SUFFICES ASSUME GestureInit, SteadyContacts
               PROVE  SettledAtEdge /\ WindowMeetsEdge /\ AllAreReported
    BY DEF SteadyInvariant
  <2>1. raw = {} /\ stable = {} /\ chord = {} /\ ~candidate
    BY DEF GestureInit, Init
  <2> QED  BY <2>1 DEF SettledAtEdge, WindowMeetsEdge, AllAreReported
<1>2. /\ SwitchTypeOK /\ SwitchInvariant /\ SteadyInvariant
      /\ [GestureNext]_<<vars, history>>
      => SteadyInvariant'
  <2> SUFFICES ASSUME SwitchTypeOK, SwitchInvariant, SteadyInvariant,
                      [GestureNext]_<<vars, history>>
               PROVE  SteadyInvariant'
    OBVIOUS
  <2>1. CASE GestureNext
    BY <2>1, UpdateKeepsSteady DEF GestureNext
  <2>2. CASE UNCHANGED <<vars, history>>
    BY <2>2 DEF vars, history, timers, SteadyInvariant, SteadyContacts, SettledAtEdge,
                WindowMeetsEdge, AllAreReported
  <2> QED  BY <2>1, <2>2
<1>3. SwitchInvariant /\ SteadyInvariant => SteadyPressIsReported
  <2> SUFFICES ASSUME SwitchInvariant, SteadyInvariant, SteadyContacts, NEW s \in stable
               PROVE  candidate \/ s \in down \cup chorded
    BY DEF SteadyPressIsReported, PressIsReported, SteadyContacts
  <2> QED  BY DEF SteadyInvariant, AllAreReported, SwitchInvariant, NothingStaysDown
<1> QED  BY <1>1, <1>2, <1>3, SwitchTypeCorrect, InvariantHolds, PTL DEF GestureSpec
=============================================================================
