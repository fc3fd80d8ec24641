---------------------------- MODULE SwitchEngine ----------------------------
(***************************************************************************)
(* Footswitch gestures (core/switch_engine.cpp): debouncing, chords,       *)
(* single presses and releases, long presses, double taps, chord repeats.  *)
(* The control loop calls update once per pass with the mask it has just   *)
(* read; passes are up to MaxGap apart.                                    *)
(*                                                                         *)
(* The code keeps times of the millisecond clock and compares differences  *)
(* with a threshold. Here each is an age, which stops growing at the       *)
(* threshold and is 0 while nothing reads it. (Differences are modulo 2^32 *)
(* in the code, so the two agree for gestures less than 49 days apart.)    *)
(* The order of the events within a batch is left out.                     *)
(***************************************************************************)
EXTENDS Integers, FiniteSets

CONSTANTS
  Switches,        \* A, B, C, D
  Chords,          \* is_chord_mask: the pairs of switches that navigate
  Debounce,        \* DebounceMs 20
  ChordWindow,     \* ChordWindowMs 35
  DoubleTap,       \* DoubleTapMs 300
  LongPress,       \* LongPressMs 500
  RepeatDelay,     \* RepeatDelayMs 600
  RepeatInterval,  \* RepeatIntervalMs 200
  EventCapacity,   \* EventBatch::Capacity 16
  MaxGap,          \* bound on the time between two updates
  Rests            \* how long the contacts keep a state before the next edge; 0: they bounce

ASSUME SwitchAssumption ==
  /\ Chords \subseteq SUBSET Switches /\ {} \notin Chords
  /\ Debounce \in Nat \ {0} /\ ChordWindow \in Nat /\ Debounce <= ChordWindow
  /\ DoubleTap \in Nat /\ LongPress \in Nat \ {0}
  /\ RepeatDelay \in Nat \ {0} /\ RepeatInterval \in Nat \ {0}
  /\ EventCapacity \in Nat /\ MaxGap \in Nat /\ Rests \subseteq Nat

VARIABLES
  rest,           \* one of Rests, the same throughout a behaviour
  raw,            \* raw_mask_
  raw_age,        \* now - raw_changed_at_
  stable,         \* stable_mask_
  candidate,      \* candidate_: within the chord window of a first edge
  candidate_age,  \* now - candidate_started_at_
  chord,          \* active_chord_mask_, {} while chord_active_ is false
  repeat_in,      \* next_repeat_at_ - now
  single,         \* active_single_mask_
  pressed_age,    \* now - pressed_at_
  long_emitted,   \* long_emitted_, of the switches in single
  tap_age,        \* now - last_press_at_; DoubleTap while have_last_press_ is false
  events,         \* the batch of the last update, but for its ChordRepeats
  repeats         \* the ChordRepeats of the last update

timers == <<raw_age, candidate_age, repeat_in, pressed_age, tap_age>>
vars == <<rest, raw, stable, candidate, chord, single, long_emitted, events, repeats, timers>>

SwitchEvents == [kind : {"Press", "Release", "LongPress", "DoubleTap"}, switch : Switches]
ChordEvents == [kind : {"ChordPress", "ChordRelease"}, chord : Chords]

Emit(kind, switches) == {[kind |-> kind, switch |-> s] : s \in switches}
EmitChord(kind, mask) == {[kind |-> kind, chord |-> mask]}

Min(a, b) == IF a < b THEN a ELSE b
Max(a, b) == IF a > b THEN a ELSE b
Aged(age, gap, threshold) == Min(age + gap, threshold)

Init ==
  /\ rest \in Rests
  /\ raw = {} /\ raw_age = Max(Debounce, rest)
  /\ stable = {}
  /\ candidate = FALSE /\ candidate_age = 0
  /\ chord = {} /\ repeat_in = 0
  /\ single = {}
  /\ pressed_age = [s \in Switches |-> 0]
  /\ long_emitted = {}
  /\ tap_age = [s \in Switches |-> DoubleTap]
  /\ events = {} /\ repeats = 0
-----------------------------------------------------------------------------
\* The mask is taken over when it has not changed for Debounce.
Sample(mask, gap) ==
  /\ raw' = mask
  /\ raw_age' = IF mask # raw THEN 0 ELSE Aged(raw_age, gap, Max(Debounce, rest))
  /\ stable' = IF raw_age' >= Debounce THEN mask ELSE stable

FirstEdge_AtAnyTime(mask) == raw = {} /\ mask # {}

\* A first edge, with every switch up and nothing in progress, opens the chord window.
FirstEdge(mask) ==
  raw = {} /\ mask # {} /\ ~candidate /\ single = {} /\ chord = {}

\* A chord ends as soon as one of its switches is up, or another down; what is still down
\* then begins a gesture of its own.
EndChord ==
  /\ events' = EmitChord("ChordRelease", chord)
  /\ chord' = {} /\ repeat_in' = 0 /\ repeats' = 0
  /\ candidate' = (candidate \/ stable' # {})
  /\ candidate_age' = 0

Reschedule_Once(gap, due) == repeat_in - gap + (IF due > 0 THEN RepeatInterval ELSE 0)
Reschedule_FromNow(gap, due) == IF due > 0 THEN RepeatInterval ELSE repeat_in - gap
Reschedule(gap, due) == repeat_in - gap + due * RepeatInterval

\* push: a batch keeps the first EventCapacity events.
Batched(count) == Min(count, EventCapacity)

\* One repeat for every interval that has gone by.
HoldChord(gap) ==
  LET late == gap - repeat_in
      due == IF late < 0 THEN 0 ELSE late \div RepeatInterval + 1
  IN  /\ repeats' = Batched(due)
      /\ repeat_in' = Reschedule(gap, due)
      /\ events' = {}
      /\ UNCHANGED <<chord, candidate, candidate_age>>

\* The single presses sleep while a chord is active, but for the double-tap clock.
KeepSingles(gap) ==
  /\ tap_age' = [s \in Switches |-> Aged(tap_age[s], gap, DoubleTap)]
  /\ UNCHANGED <<single, pressed_age, long_emitted>>

\* Switches that are down, join those already recognized as single presses.
Joining_Never(kept) == {}
Joining_Unsettled(kept) == IF kept # {} THEN raw' \ kept ELSE {}
Joining(kept) == IF kept # {} THEN stable' \ kept ELSE {}

\* The single presses: begun are those of a window that has just closed.
Singles(begun, gap) ==
  LET active == IF begun # {} THEN begun ELSE single
      kept == active \cap stable'
      pressed == begun \cup Joining(kept)
      taps == {s \in pressed : Aged(tap_age[s], gap, DoubleTap) < DoubleTap}
      long == {s \in kept \ (begun \cup long_emitted) : pressed_age[s] + gap >= LongPress}
  IN  /\ single' = kept \cup pressed
      /\ events' = Emit("Press", pressed) \cup Emit("DoubleTap", taps)
           \cup Emit("Release", active \ kept) \cup Emit("LongPress", long)
           \cup (IF chord' = {} THEN {} ELSE EmitChord("ChordPress", chord'))
      /\ pressed_age' = [s \in Switches |->
                           IF s \in single' \ pressed THEN Aged(pressed_age[s], gap, LongPress)
                                                      ELSE 0]
      /\ tap_age' = [s \in Switches |->
                       IF s \in pressed THEN 0 ELSE Aged(tap_age[s], gap, DoubleTap)]
      /\ long_emitted' = ((long_emitted \ pressed) \cup long) \cap single'

\* No chord is active. When the window closes, what is stably down is a chord or begins
\* single presses; a window that closes on nothing is forgotten.
Recognize(mask, gap) ==
  LET age == IF FirstEdge(mask) THEN 0 ELSE candidate_age + gap
      closes == (candidate \/ FirstEdge(mask)) /\ age >= ChordWindow
      chorded == closes /\ stable' \in Chords
  IN  /\ candidate' = ((candidate \/ FirstEdge(mask)) /\ ~closes)
      /\ candidate_age' = IF candidate' THEN age ELSE 0
      /\ chord' = IF chorded THEN stable' ELSE {}
      /\ repeat_in' = IF chorded THEN RepeatDelay ELSE 0
      /\ repeats' = 0
      /\ Singles(IF closes /\ ~chorded THEN stable' ELSE {}, gap)

\* The feet and the contacts, which the code does not control: steady contacts change one
\* way at a time, the others bounce, change together and come to rest anywhere.
Contacts(mask) ==
  /\ mask # raw /\ rest > 0 => raw_age >= rest /\ (mask \subseteq raw \/ raw \subseteq mask)
  /\ rest' = rest

Update(mask, gap) ==
  /\ Contacts(mask)
  /\ Sample(mask, gap)
  /\ \/ chord # {} /\ stable' # chord /\ EndChord /\ KeepSingles(gap)
     \/ chord # {} /\ stable' = chord /\ HoldChord(gap) /\ KeepSingles(gap)
     \/ chord = {} /\ Recognize(mask, gap)

Next == \E mask \in SUBSET Switches, gap \in 0 .. MaxGap : Update(mask, gap)

Spec == Init /\ [][Next]_vars
=============================================================================
