--------------------------- MODULE SwitchGestures ---------------------------
(***************************************************************************)
(* What the events of SwitchEngine tell the control loop, against what the *)
(* feet do: SwitchEngine with a history of the events it has emitted.      *)
(***************************************************************************)
EXTENDS SwitchEngine

CONSTANT HeldMax  \* bound on how long a chord is held

VARIABLES
  down,      \* the switches with a Press and no Release since
  chorded,   \* the switches of recognized chords that have been down ever since
  held,      \* how long the chord now active has been held
  repeated   \* how often it has repeated

history == <<down, chorded, held, repeated>>

Emitted(kind, s) == [kind |-> kind, switch |-> s] \in events'

GestureInit ==
  /\ Init
  /\ down = {} /\ chorded = {} /\ held = 0 /\ repeated = 0

Record(gap) ==
  /\ down' = {s \in Switches : Emitted("Press", s) \/ (s \in down /\ ~Emitted("Release", s))}
  /\ chorded' = (chorded \cup chord') \cap stable'
  /\ held' = IF chord # {} /\ chord' # {} THEN held + gap ELSE 0
  /\ repeated' = IF chord # {} /\ chord' # {} THEN repeated + repeats' ELSE 0

GestureNext ==
  \E mask \in SUBSET Switches, gap \in 0 .. MaxGap :
    /\ held + gap <= HeldMax
    /\ Update(mask, gap)
    /\ Record(gap)

GestureSpec == GestureInit /\ [][GestureNext]_<<vars, history>>
-----------------------------------------------------------------------------
\* The ages stay below their thresholds and the events are those of update().
SwitchTypeOK ==
  /\ raw \subseteq Switches /\ stable \subseteq Switches
  /\ rest \in Rests /\ raw_age \in 0 .. Max(Debounce, rest)
  /\ candidate \in BOOLEAN /\ candidate_age \in 0 .. ChordWindow
  /\ chord \in Chords \cup {{}}
  /\ repeat_in \in 0 .. Max(RepeatDelay, RepeatInterval)
  /\ single \subseteq Switches /\ long_emitted \subseteq single
  /\ pressed_age \in [Switches -> 0 .. LongPress]
  /\ tap_age \in [Switches -> 0 .. DoubleTap]
  /\ events \subseteq SwitchEvents \cup ChordEvents
  /\ repeats \in 0 .. EventCapacity

\* The chord window, a chord and single presses exclude each other: a switch event is never
\* emitted for a switch of the active chord.
OneGestureAtATime ==
  /\ candidate => chord = {} /\ single = {}
  /\ chord # {} => single = {}

\* Press and Release alternate for every switch, whatever the contacts do, and no switch
\* stays pressed, no chord active, once its switches are stably up.
NothingStaysDown ==
  /\ down = single
  /\ down \subseteq stable
  /\ chord # {} => chord = stable

\* A held chord repeats after RepeatDelay and then every RepeatInterval: late and uneven
\* passes of the control loop neither lose a repeat nor let the rate drift.
RepeatsKeepTime ==
  chord # {} =>
    repeated = (IF held < RepeatDelay THEN 0 ELSE (held - RepeatDelay) \div RepeatInterval + 1)

\* A switch that is stably down has been reported, alone or in a chord, unless the window
\* is still open.
PressIsReported ==
  \A s \in stable : candidate \/ s \in down \cup chorded

\* So it is where the contacts do not bounce and no two edges fall into one chord window.
SteadyPressIsReported == rest > Debounce + ChordWindow => PressIsReported
=============================================================================
