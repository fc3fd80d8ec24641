----------------------------- MODULE Expression -----------------------------
(***************************************************************************)
(* The expression pedal: ExpressionProcessor (core/expression.cpp), which  *)
(* smooths the readings of the ADC, maps them through the calibration and  *)
(* sends what changed, and the schedule on which PedalRuntime reads the    *)
(* pedal (app/pedal_runtime.cpp).                                          *)
(*                                                                         *)
(* Times are milliseconds of a clock that wraps. The code keeps the time   *)
(* of an event and subtracts it from the clock; the model keeps the        *)
(* difference, which is the same modulo ClockModulus and stays finite.     *)
(***************************************************************************)
EXTENDS Integers, Sequences, FiniteSets

CONSTANTS
  AdcMax,        \* 4095
  MinSpan,       \* 410
  Top,           \* 127, the largest MIDI value
  Scale,         \* 256, the fraction that the filter keeps
  Window,        \* 5 samples in the median
  Divisor,       \* 5: each step of the filter covers a fifth of the way
  EmitMs,        \* 20
  ClockModulus,  \* 2^32
  Readings,      \* readings of the ADC
  Gaps,          \* milliseconds between two passes of the main loop
  Calibrations,  \* [heel, toe]
  Assignments,   \* expression assignments of the banks
  SettleSamples, \* equal samples after which the pedal counts as at rest
  Nil            \* not yet known

\* What the pedal sends without a bank.
default_assignment == [enabled |-> TRUE, inverted |-> FALSE, minimum |-> 0, maximum |-> Top]

ASSUME ExpressionAssumption ==
  /\ AdcMax \in Nat /\ MinSpan \in Nat \ {0} /\ Top \in Nat \ {0} /\ Scale \in Nat \ {0}
  /\ Window \in Nat \ {0} /\ Divisor \in Nat \ {0} /\ EmitMs \in Nat
  /\ ClockModulus \in Nat /\ 1 < ClockModulus /\ EmitMs < ClockModulus
  /\ Readings \subseteq 0 .. AdcMax /\ Gaps \subseteq Nat
  /\ Calibrations \subseteq [heel : Nat, toe : Nat]
  /\ Assignments \subseteq [enabled : BOOLEAN, inverted : BOOLEAN, minimum : 0 .. Top,
                            maximum : 0 .. Top]
  /\ \A a \in Assignments : a.minimum <= a.maximum
  /\ default_assignment \in Assignments
  /\ SettleSamples \in Nat \ {0}
  /\ Nil \notin Int

VARIABLES
  calibration,   \* calibration_
  assignment,    \* assignment_
  samples,       \* samples_, oldest first
  filtered_q,    \* filtered_q_, Nil before the first sample
  view,          \* view_: [available, value]
  last_emitted,  \* last_emitted_value_, Nil when have_last_emitted_ is false
  emit_age,      \* now - last_emit_at_, Nil when have_emit_clock_ is false
  sample_age,    \* now - next_expression_sample_at_, Nil without a schedule
  message        \* the value that the last step sent, or Nil

VARIABLES
  since,         \* time between the last two messages, up to EmitMs
  told,          \* what was last sent for this pedal, assignment and calibration, or Nil
  rest,          \* how many of the newest samples are equal, up to SettleSamples
  settled,       \* the reading at which the pedal rests, or Nil
  calm           \* for how long it has been read there, up to EmitMs, or Nil

processor_vars == <<calibration, assignment, samples, filtered_q, view, last_emitted>>
clock_vars == <<emit_age, sample_age>>
rest_vars == <<rest, settled, calm>>
vars == <<processor_vars, clock_vars, message, since, told, rest_vars>>

LesserOf(a, b) == IF a < b THEN a ELSE b

-----------------------------------------------------------------------------
(* What a reading is worth *)

valid_calibration(c) == c.toe > c.heel /\ c.toe - c.heel >= MinSpan /\ c.toe <= AdcMax

\* The middle sample, the upper one of an even number.
median(window) ==
  LET Below(x) == Cardinality({i \in DOMAIN window : window[i] < x})
      AtMost(x) == Cardinality({i \in DOMAIN window : window[i] <= x})
      middle == Len(window) \div 2
  IN  CHOOSE x \in {window[i] : i \in DOMAIN window} : Below(x) <= middle /\ middle < AtMost(x)

Clamp(x, low, high) == IF x < low THEN low ELSE IF x > high THEN high ELSE x

\* The position of the pedal in 0 .. Top, rounded to the nearest.
Normalized(reading) ==
  LET span == calibration.toe - calibration.heel
      travel == Clamp(reading, calibration.heel, calibration.toe) - calibration.heel
  IN  (travel * Top + span \div 2) \div span

map_value_Ceiling(reading) ==
  LET n == IF assignment.inverted THEN Top - Normalized(reading) ELSE Normalized(reading)
  IN  assignment.minimum + (n * (assignment.maximum - assignment.minimum) + Top) \div Top

map_value(reading) ==
  LET n == IF assignment.inverted THEN Top - Normalized(reading) ELSE Normalized(reading)
  IN  assignment.minimum
        + (n * (assignment.maximum - assignment.minimum) + Top \div 2) \div Top

\* The filter moves a part of the way; a division that truncates never overshoots.
Filter(from, to) ==
  IF from = Nil THEN to
  ELSE IF to >= from THEN from + (to - from) \div Divisor
       ELSE from - (from - to) \div Divisor

Rounded(q) == (q + Scale \div 2) \div Scale

\* elapsed: a difference of unsigned times, right also when the clock has wrapped.
elapsed_AtOnce(age) == age >= EmitMs - 1
elapsed(age) == age >= EmitMs

Aged(age, gap) == IF age = Nil THEN Nil ELSE (age + gap) % ClockModulus

\* expression_sample_due: due unless the next sample lies ahead.
Due(age) == age = Nil \/ 2 * age < ClockModulus

Enabled == valid_calibration(calibration) /\ assignment.enabled
Unplugged(adc) == adc = 0 \/ adc = AdcMax
-----------------------------------------------------------------------------
(* The history that the properties speak of *)

Recorded(window, adc) ==
  LET all == Append(window, adc)
  IN  IF Len(all) > Window THEN Tail(all) ELSE all

Majority(window, adc) == 2 * Cardinality({i \in DOMAIN window : window[i] = adc}) > Window

ObserveSample(adc, gap) ==
  /\ rest' = IF samples # <<>> /\ samples[Len(samples)] = adc
             THEN LesserOf(rest + 1, SettleSamples) ELSE 1
  /\ settled' = IF rest' = SettleSamples THEN adc
                ELSE IF settled # Nil /\ Majority(samples', settled) THEN settled
                ELSE Nil
  /\ calm' = IF settled' = Nil THEN Nil
             ELSE IF calm = Nil \/ settled' # settled THEN 0
             ELSE LesserOf(calm + gap, EmitMs)

ObserveTime(gap) ==
  since' = LesserOf((IF message = Nil THEN since ELSE 0) + gap, EmitMs)
-----------------------------------------------------------------------------
(* A pass of the main loop *)

\* sample(): the filter has moved; the value goes out if it has changed and the last one is
\* old enough. The first sample only starts the clock.
Emit(value, age) ==
  IF age = Nil
  THEN /\ message' = Nil /\ emit_age' = 0 /\ UNCHANGED last_emitted
  ELSE IF elapsed(age) /\ last_emitted # value
  THEN /\ message' = value /\ emit_age' = 0 /\ last_emitted' = value
  ELSE /\ message' = Nil /\ emit_age' = age /\ UNCHANGED last_emitted

TakeSample_OneFilter(adc, gap) ==
  /\ samples' = Recorded(samples, adc)
  /\ filtered_q' = Filter(filtered_q, Scale * adc)
  /\ view' = [available |-> TRUE, value |-> map_value(Rounded(filtered_q'))]
  /\ Emit(view'.value, Aged(emit_age, gap))
  /\ told' = IF message' = Nil THEN told ELSE message'
  /\ ObserveSample(adc, gap)

TakeSample(adc, gap) ==
  /\ samples' = Recorded(samples, adc)
  /\ filtered_q' = Filter(filtered_q, Scale * median(samples'))
  /\ view' = [available |-> TRUE, value |-> map_value(Rounded(filtered_q'))]
  /\ Emit(view'.value, Aged(emit_age, gap))
  /\ told' = IF message' = Nil THEN told ELSE message'
  /\ ObserveSample(adc, gap)

\* A reading at either rail: no pedal. The samples of the one that was there are kept.
Unavailable(gap) ==
  /\ view' = [available |-> FALSE, value |-> 0]
  /\ last_emitted' = Nil
  /\ message' = Nil
  /\ emit_age' = Aged(emit_age, gap)
  /\ told' = Nil /\ calm' = Nil
  /\ UNCHANGED <<samples, filtered_q, rest, settled>>

Skip(gap) ==
  /\ message' = Nil
  /\ emit_age' = Aged(emit_age, gap)
  /\ UNCHANGED <<samples, filtered_q, last_emitted, told, rest_vars>>

Tick(adc, gap) ==
  /\ IF ~Due(Aged(sample_age, gap))
     THEN /\ sample_age' = Aged(sample_age, gap)
          /\ Skip(gap) /\ UNCHANGED view
     ELSE /\ sample_age' = ClockModulus - 1
          /\ IF ~Enabled
             THEN Skip(gap) /\ view' = [available |-> FALSE, value |-> 0]
             ELSE IF Unplugged(adc) THEN Unavailable(gap)
             ELSE TakeSample(adc, gap)
  /\ ObserveTime(gap)
  /\ UNCHANGED <<calibration, assignment>>

\* The runtime has loaded a bank.
set_assignment_KeepsValue(a) ==
  /\ assignment' = a
  /\ view' = [available |-> valid_calibration(calibration) /\ a.enabled, value |-> 0]
  /\ message' = Nil
  /\ ObserveTime(0)
  /\ told' = Nil /\ calm' = Nil
  /\ UNCHANGED <<calibration, samples, filtered_q, last_emitted, clock_vars, rest, settled>>

set_assignment(a) ==
  /\ assignment' = a
  /\ last_emitted' = Nil
  /\ view' = [available |-> valid_calibration(calibration) /\ a.enabled, value |-> 0]
  /\ message' = Nil
  /\ ObserveTime(0)
  /\ told' = Nil /\ calm' = Nil
  /\ UNCHANGED <<calibration, samples, filtered_q, clock_vars, rest, settled>>

\* The protocol service has stored a calibration. The assignment is not looked at here.
set_calibration(c) ==
  /\ calibration' = c
  /\ samples' = <<>>
  /\ filtered_q' = Nil
  /\ last_emitted' = Nil
  /\ view' = [available |-> valid_calibration(c), value |-> 0]
  /\ message' = Nil
  /\ ObserveTime(0)
  /\ rest' = 0 /\ settled' = Nil /\ calm' = Nil /\ told' = Nil
  /\ UNCHANGED <<assignment, clock_vars>>

\* The constructor. The bank that initialize() loads is a set_assignment.
Init ==
  /\ calibration \in Calibrations
  /\ assignment = default_assignment
  /\ samples = <<>>
  /\ filtered_q = Nil
  /\ view = [available |-> Enabled, value |-> 0]
  /\ last_emitted = Nil
  /\ emit_age = Nil /\ sample_age = Nil
  /\ message = Nil
  /\ since = EmitMs /\ told = Nil
  /\ rest = 0 /\ settled = Nil /\ calm = Nil

Next ==
  \/ \E adc \in Readings, gap \in Gaps : Tick(adc, gap)
  \/ \E a \in Assignments : set_assignment(a)
  \/ \E c \in Calibrations : set_calibration(c)

Spec == Init /\ [][Next]_vars
-----------------------------------------------------------------------------
(* Properties *)

\* What the processor keeps has the range its members have in the code; what it shows and
\* sends lies between the minimum and the maximum of the assignment.
InRange(value) == value \in assignment.minimum .. assignment.maximum

ExpressionTypeOK ==
  /\ calibration \in Calibrations /\ assignment \in Assignments
  /\ samples \in Seq(1 .. AdcMax - 1) /\ Len(samples) <= Window
  /\ filtered_q \in 0 .. Scale * AdcMax \cup {Nil}
  /\ view.available \in BOOLEAN
  /\ view.value = 0 \/ InRange(view.value)
  /\ last_emitted # Nil => InRange(last_emitted)
  /\ emit_age \in 0 .. ClockModulus - 1 \cup {Nil}
  /\ sample_age \in 0 .. ClockModulus - 1 \cup {Nil}
  /\ message # Nil => InRange(message)

\* Two messages are at least EmitMs apart, whatever changes between them and wherever the
\* clock wraps.
RateIsLimited == message # Nil => since >= EmitMs

\* A pedal at rest shows the value of its position, exactly: the filter gets there, and a
\* reading that is off now and then, in the minority of the last samples, never shows.
RestIsShown == calm # Nil => view.value = map_value(settled)

\* It has also been sent, at the latest EmitMs after the pedal came to rest there, was plugged
\* in or got another assignment, even if the clock has wrapped in between.
RestIsSent == calm = EmitMs => told = map_value(settled)
-----------------------------------------------------------------------------
(***************************************************************************)
(* What every step keeps, for RateIsLimited: until EmitMs have passed      *)
(* since a message, the clock of the code tells exactly how long ago it    *)
(* was, because it cannot have wrapped.                                    *)
(***************************************************************************)
Pause == IF message = Nil THEN since ELSE 0

ClockTellsPause ==
  /\ since \in 0 .. EmitMs
  /\ emit_age = Nil => Pause = EmitMs
  /\ Pause < EmitMs => emit_age = Pause
=============================================================================
