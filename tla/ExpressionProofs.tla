--------------------------- MODULE ExpressionProofs ---------------------------
(***************************************************************************)
(* Proofs about the expression pedal, for every calibration, assignment,   *)
(* window, filter and limit: its values stay in range, two messages are    *)
(* never closer than the limit, whatever the clock does, and a pedal at    *)
(* rest shows and has sent its position.                                   *)
(*                                                                         *)
(* The median is chosen by what it must satisfy, so that it exists has to  *)
(* be proved: among finitely many integers there is a least and a greatest *)
(* one, which follows from the fact that strict inclusion is well-founded  *)
(* on finite sets.                                                         *)
(***************************************************************************)
EXTENDS Expression, FiniteSetTheorems, SequenceTheorems, WellFoundedInduction, TLAPS

-----------------------------------------------------------------------------
(* Finite sets of integers *)

\* A finite set of integers that has a member has a least one.
LEMMA LeastMember ==
  ASSUME NEW T \in SUBSET Int, IsFiniteSet(T), T # {}
  PROVE  \E x \in T : \A y \in T : x <= y
PROOF
<1> DEFINE UpTo(x) == {y \in T : y <= x}
           Initials == {UpTo(x) : x \in T}
<1>1. Initials \subseteq FiniteSubsetsOf(T) /\ Initials # {}
  <2>1. \A x \in T : UpTo(x) \in SUBSET T
    OBVIOUS
  <2>2. \A x \in T : IsFiniteSet(UpTo(x))
    BY <2>1, FS_Subset
  <2> HIDE DEF UpTo
  <2> QED  BY <2>1, <2>2 DEF FiniteSubsetsOf
<1>2. PICK U \in Initials : \A V \in Initials : <<V, U>> \notin StrictSubsetOrdering(T)
  <2> HIDE DEF Initials
  <2> QED  BY <1>1, FS_StrictSubsetOrderingWellFounded, WFMin
<1>3. PICK x \in T : U = UpTo(x)
  BY <1>2
<1>4. ASSUME NEW y \in T, y < x PROVE FALSE
  <2>1. /\ x \in Int /\ y \in Int
        /\ \A z \in T : z \in Int
    OBVIOUS
  <2>2. UpTo(y) \subseteq UpTo(x)
    <3>1. \A z \in T : z <= y => z <= x
      BY <1>4, <2>1
    <3> QED  BY <3>1
  <2>3. x \in UpTo(x) /\ x \notin UpTo(y)
    BY <1>4, <2>1
  <2>4. <<UpTo(y), U>> \in StrictSubsetOrdering(T)
    BY <1>3, <2>2, <2>3 DEF StrictSubsetOrdering
  <2> QED  BY <1>2, <2>4
<1> QED  BY <1>4

\* And a greatest one.
LEMMA GreatestMember ==
  ASSUME NEW T \in SUBSET Int, IsFiniteSet(T), T # {}
  PROVE  \E x \in T : \A y \in T : y <= x
PROOF
<1> DEFINE From(x) == {y \in T : x <= y}
           Finals == {From(x) : x \in T}
<1>1. Finals \subseteq FiniteSubsetsOf(T) /\ Finals # {}
  <2>1. \A x \in T : From(x) \in SUBSET T
    OBVIOUS
  <2>2. \A x \in T : IsFiniteSet(From(x))
    BY <2>1, FS_Subset
  <2> HIDE DEF From
  <2> QED  BY <2>1, <2>2 DEF FiniteSubsetsOf
<1>2. PICK U \in Finals : \A V \in Finals : <<V, U>> \notin StrictSubsetOrdering(T)
  <2> HIDE DEF Finals
  <2> QED  BY <1>1, FS_StrictSubsetOrderingWellFounded, WFMin
<1>3. PICK x \in T : U = From(x)
  BY <1>2
<1>4. ASSUME NEW y \in T, x < y PROVE FALSE
  <2>1. /\ x \in Int /\ y \in Int
        /\ \A z \in T : z \in Int
    OBVIOUS
  <2>2. From(y) \subseteq From(x)
    <3>1. \A z \in T : y <= z => x <= z
      BY <1>4, <2>1
    <3> QED  BY <3>1
  <2>3. x \in From(x) /\ x \notin From(y)
    BY <1>4, <2>1
  <2>4. <<From(y), U>> \in StrictSubsetOrdering(T)
    BY <1>3, <2>2, <2>3 DEF StrictSubsetOrdering
  <2> QED  BY <1>2, <2>4
<1> QED  BY <1>4

-----------------------------------------------------------------------------
(* The median *)

\* There is a middle sample: the least value that more than half of the samples do not exceed
\* has at most half of the samples below it. So the median is one of the samples.
LEMMA MedianIsASample ==
  ASSUME NEW S \in SUBSET Int, NEW window \in Seq(S), window # <<>>
  PROVE  median(window) \in S
PROOF
<1> DEFINE values == {window[i] : i \in DOMAIN window}
           below(x) == {i \in DOMAIN window : window[i] < x}
           atMost(x) == {i \in DOMAIN window : window[i] <= x}
           middle == Len(window) \div 2
<1>1. /\ Len(window) \in Nat \ {0} /\ DOMAIN window = 1 .. Len(window)
      /\ \A i \in DOMAIN window : window[i] \in S /\ window[i] \in Int
  <2>1. Len(window) \in Nat /\ Len(window) # 0 /\ DOMAIN window = 1 .. Len(window)
    BY EmptySeq, LenProperties
  <2>2. \A i \in 1 .. Len(window) : window[i] \in S
    BY ElementOfSeq
  <2> QED  BY <2>1, <2>2
<1>a. middle \in Nat /\ middle < Len(window)
  BY <1>1
<1>b. IsFiniteSet(DOMAIN window) /\ Cardinality(DOMAIN window) = Len(window)
  BY <1>1, FS_Interval
<1>2. values \in SUBSET S /\ values # {} /\ IsFiniteSet(values)
  <2>1. window \in Surjection(DOMAIN window, values)
    BY <1>1 DEF Surjection
  <2> QED  BY <1>1, <1>b, <2>1, FS_Surjection
<1>3. \A x : /\ IsFiniteSet(below(x)) /\ IsFiniteSet(atMost(x))
             /\ Cardinality(below(x)) \in Nat /\ Cardinality(atMost(x)) \in Nat
  BY <1>b, FS_Subset, FS_CardinalityType
<1> DEFINE upper == {x \in values : middle < Cardinality(atMost(x))}
<1>4. upper # {}
  <2>1. PICK x \in values : \A y \in values : y <= x
    BY <1>2, GreatestMember
  <2>2. atMost(x) = DOMAIN window
    BY <2>1
  <2> QED  BY <1>a, <1>b, <2>1, <2>2
<1>5. PICK x \in upper : \A y \in upper : x <= y
  <2>1. upper \in SUBSET Int /\ IsFiniteSet(upper)
    BY <1>2, FS_Subset
  <2> QED  BY <1>4, <2>1, LeastMember
<1>6. Cardinality(below(x)) <= middle
  <2> SUFFICES ASSUME middle < Cardinality(below(x)) PROVE FALSE
    <3>1. Cardinality(below(x)) \in Nat
      BY <1>3
    <3> HIDE DEF below, middle
    <3> QED  BY <1>a, <3>1
  <2> DEFINE lower == {y \in values : y < x}
  <2>1. below(x) # {}
    <3>1. Cardinality(below(x)) # 0
      BY <1>3, <1>a
    <3> HIDE DEF below
    <3> QED  BY <3>1, FS_EmptySet
  <2>2. lower \in SUBSET Int /\ IsFiniteSet(lower) /\ lower # {}
    BY <1>2, <2>1, FS_Subset
  <2>3. PICK y \in lower : \A z \in lower : z <= y
    <3> HIDE DEF lower
    <3> QED  BY <2>2, GreatestMember
  <2>4. atMost(y) = below(x)
    <3>1. \A i \in DOMAIN window : window[i] \in values /\ window[i] \in Int
      BY <1>1
    <3>2. x \in Int /\ y \in Int /\ y < x
      BY <1>2, <2>3
    <3>3. \A i \in DOMAIN window : window[i] < x => window[i] <= y
      BY <2>3, <3>1
    <3> HIDE DEF values, lower
    <3>4. \A i \in DOMAIN window : window[i] <= y <=> window[i] < x
      BY <3>1, <3>2, <3>3
    <3> QED  BY <3>4
  <2>5. y \in upper
    BY <2>3, <2>4
  <2>6. x \in Int /\ y \in Int /\ y < x
    BY <1>2, <2>3
  <2> HIDE DEF upper, lower
  <2> QED  BY <1>5, <2>5, <2>6
<1>7. median(window) \in values
  BY <1>5, <1>6 DEF median
<1> QED  BY <1>2, <1>7

-----------------------------------------------------------------------------
(* What a reading is worth *)

\* A quotient is bounded by what its dividend is bounded by.
LEMMA QuotientBound ==
  ASSUME NEW a \in Nat, NEW b \in Nat \ {0}, NEW c \in Nat, a < c * b + b
  PROVE  a \div b \in 0 .. c
PROOF
<1> DEFINE q == a \div b
           r == a % b
<1>1. q \in Nat /\ r \in 0 .. b - 1 /\ a = b * q + r
  OBVIOUS
<1>2. ASSUME c + 1 <= q PROVE FALSE
  <2>1. b * (c + 1) <= b * q
    BY <1>1, <1>2
  <2>2. b * (c + 1) = c * b + b
    OBVIOUS
  <2> HIDE DEF q, r
  <2> QED  BY <1>1, <2>1, <2>2
<1> HIDE DEF q, r
<1>3. q <= c
  BY <1>1, <1>2
<1> QED  BY <1>1, <1>3 DEF q

\* The position of a pedal with a valid calibration is in 0 .. Top, for every reading.
LEMMA NormalizedRange ==
  ASSUME NEW reading \in Int, calibration \in [heel : Nat, toe : Nat],
         valid_calibration(calibration)
  PROVE  Normalized(reading) \in 0 .. Top
PROOF
<1> DEFINE span == calibration.toe - calibration.heel
           travel == Clamp(reading, calibration.heel, calibration.toe) - calibration.heel
<1>1. span \in Nat \ {0} /\ travel \in 0 .. span
  BY DEF valid_calibration, Clamp
<1>2. Top \in Nat
  BY ExpressionAssumption
<1> HIDE DEF span, travel
<1>3. span \div 2 \in Nat /\ span \div 2 < span
  BY <1>1
<1>4. travel * Top \in Nat /\ travel * Top <= Top * span
  BY <1>1, <1>2
<1>5. Top * span \in Nat
  BY <1>1, <1>2
<1>6. travel * Top + span \div 2 < Top * span + span
  BY <1>1, <1>3, <1>4, <1>5
<1>7. travel * Top + span \div 2 \in Nat
  BY <1>3, <1>4
<1>8. (travel * Top + span \div 2) \div span \in 0 .. Top
  BY <1>1, <1>2, <1>6, <1>7, QuotientBound
<1> QED  BY <1>8 DEF Normalized, span, travel

\* The value shown and sent lies between the minimum and the maximum, inverted or not.
LEMMA MappedRange ==
  ASSUME NEW reading \in Int, calibration \in [heel : Nat, toe : Nat],
         valid_calibration(calibration), assignment \in Assignments
  PROVE  InRange(map_value(reading))
PROOF
<1> DEFINE n == IF assignment.inverted THEN Top - Normalized(reading) ELSE Normalized(reading)
           low == assignment.minimum
           width == assignment.maximum - assignment.minimum
<1>1. Top \in Nat \ {0} /\ low \in Nat /\ width \in Nat
  BY ExpressionAssumption
<1>2. n \in 0 .. Top
  BY <1>1, NormalizedRange
<1>3. map_value(reading) = low + (n * width + Top \div 2) \div Top
  BY DEF map_value
<1>4. width = assignment.maximum - low /\ assignment.maximum \in Nat
  BY ExpressionAssumption
<1> HIDE DEF n, width
<1>5. Top \div 2 \in Nat /\ Top \div 2 < Top
  BY <1>1
<1>6. n * width \in Nat /\ n * width <= width * Top /\ width * Top \in Nat
  BY <1>1, <1>2
<1>7. (n * width + Top \div 2) \div Top \in 0 .. width
  <2>1. n * width + Top \div 2 < width * Top + Top
    BY <1>1, <1>5, <1>6
  <2>2. n * width + Top \div 2 \in Nat
    BY <1>5, <1>6
  <2> QED  BY <1>1, <2>1, <2>2, QuotientBound
<1> HIDE DEF low
<1>8. map_value(reading) \in low .. low + width
  BY <1>1, <1>3, <1>7
<1>9. low + width = assignment.maximum
  BY <1>1, <1>4
<1> QED  BY <1>8, <1>9 DEF InRange, low

\* The filter stays between where it was and where it goes.
LEMMA FilterRange ==
  ASSUME NEW top \in Nat, NEW to \in 0 .. top, NEW from \in 0 .. top \cup {Nil}
  PROVE  Filter(from, to) \in 0 .. top
PROOF
<1>1. Divisor \in Nat \ {0} /\ Nil \notin Int
  BY ExpressionAssumption
<1>2. \A x \in Nat : x \div Divisor \in 0 .. x
  <2> TAKE x \in Nat
  <2>1. x < x * Divisor + Divisor
    BY <1>1
  <2> QED  BY <1>1, <2>1, QuotientBound
<1>3. CASE from = Nil
  BY <1>3 DEF Filter
<1>4. CASE from # Nil /\ to >= from
  BY <1>1, <1>2, <1>4 DEF Filter
<1>5. CASE from # Nil /\ to < from
  BY <1>1, <1>2, <1>5 DEF Filter
<1> QED  BY <1>3, <1>4, <1>5

-----------------------------------------------------------------------------
(* The type invariant *)

\* A sample leaves the window filled with readings of a pedal, the filter in its range and
\* the value shown, remembered and sent in the range of the assignment.
LEMMA SampleType ==
  ASSUME ExpressionTypeOK, Enabled, NEW adc \in Readings, ~Unplugged(adc), NEW gap \in Gaps,
         TakeSample(adc, gap), UNCHANGED <<calibration, assignment>>
  PROVE  /\ samples' \in Seq(1 .. AdcMax - 1) /\ Len(samples') <= Window
         /\ filtered_q' \in 0 .. Scale * AdcMax
         /\ InRange(view.value)' /\ view'.available = TRUE
         /\ last_emitted' # Nil => InRange(last_emitted)'
         /\ message' # Nil => InRange(message)'
PROOF
<1>1. /\ AdcMax \in Nat /\ Scale \in Nat \ {0} /\ Window \in Nat \ {0}
      /\ Readings \subseteq 0 .. AdcMax /\ Assignments \subseteq
           [enabled : BOOLEAN, inverted : BOOLEAN, minimum : 0 .. Top, maximum : 0 .. Top]
  BY ExpressionAssumption
<1>2. adc \in 1 .. AdcMax - 1
  BY <1>1 DEF Unplugged
<1>3. samples' \in Seq(1 .. AdcMax - 1) /\ samples' # <<>> /\ Len(samples') <= Window
  <2>1. samples \in Seq(1 .. AdcMax - 1) /\ Len(samples) <= Window
    BY DEF ExpressionTypeOK
  <2> DEFINE all == Append(samples, adc)
  <2>2. all \in Seq(1 .. AdcMax - 1) /\ Len(all) = Len(samples) + 1 /\ Len(samples) \in Nat
    BY <1>2, <2>1
  <2>3. samples' = IF Len(all) > Window THEN Tail(all) ELSE all
    BY DEF TakeSample, Recorded
  <2> HIDE DEF all
  <2>4. CASE Len(all) > Window
    <3>1. all # <<>> /\ Len(Tail(all)) = Len(all) - 1 /\ Tail(all) \in Seq(1 .. AdcMax - 1)
      BY <1>1, <2>2, <2>4, HeadTailProperties
    <3>2. Len(Tail(all)) = Window /\ Tail(all) # <<>>
      BY <1>1, <2>1, <2>2, <2>4, <3>1
    <3> QED  BY <2>3, <2>4, <3>1, <3>2
  <2>5. CASE ~(Len(all) > Window)
    BY <1>1, <2>2, <2>3, <2>5
  <2> QED  BY <2>4, <2>5
<1>4. median(samples') \in 1 .. AdcMax - 1
  BY <1>1, <1>3, MedianIsASample
<1>5. Scale * median(samples') \in 0 .. Scale * AdcMax /\ Scale * AdcMax \in Nat
  <2> DEFINE m == median(samples')
  <2>1. m \in 1 .. AdcMax - 1
    BY <1>4
  <2> HIDE DEF m
  <2>2. Scale * m \in 0 .. Scale * AdcMax /\ Scale * AdcMax \in Nat
    BY <1>1, <2>1
  <2> QED  BY <2>2 DEF m
<1>6. filtered_q' \in 0 .. Scale * AdcMax
  <2>1. filtered_q \in 0 .. Scale * AdcMax \cup {Nil}
    BY DEF ExpressionTypeOK
  <2>2. filtered_q' = Filter(filtered_q, Scale * median(samples'))
    BY DEF TakeSample
  <2> QED  BY <1>5, <2>1, <2>2, FilterRange
<1>7. Rounded(filtered_q') \in Int
  BY <1>1, <1>5, <1>6 DEF Rounded
<1>8. InRange(view.value)' /\ view'.available = TRUE
  <2>1. calibration \in [heel : Nat, toe : Nat] /\ assignment \in Assignments
    BY ExpressionAssumption DEF ExpressionTypeOK
  <2>2. InRange(map_value(Rounded(filtered_q')))
    BY <1>7, <2>1, MappedRange DEF Enabled
  <2>3. view' = [available |-> TRUE, value |-> map_value(Rounded(filtered_q'))]
    BY DEF TakeSample, map_value, Normalized
  <2> QED  BY <2>2, <2>3 DEF InRange
<1>9. /\ last_emitted' # Nil => InRange(last_emitted)'
      /\ message' # Nil => InRange(message)'
  <2>1. Emit(view'.value, Aged(emit_age, gap))
    BY DEF TakeSample
  <2>2. last_emitted # Nil => InRange(last_emitted)
    BY DEF ExpressionTypeOK
  <2> QED  BY <1>8, <2>1, <2>2 DEF Emit, InRange
<1> QED  BY <1>3, <1>6, <1>8, <1>9

\* What the clock has counted stays below the modulus.
LEMMA AgedType ==
  ASSUME NEW age \in 0 .. ClockModulus - 1 \cup {Nil}, NEW gap \in Gaps \cup {0}
  PROVE  Aged(age, gap) \in 0 .. ClockModulus - 1 \cup {Nil}
PROOF
<1>1. ClockModulus \in Nat \ {0} /\ gap \in Nat
  BY ExpressionAssumption
<1>2. CASE age = Nil
  BY <1>2 DEF Aged
<1>3. CASE age \in 0 .. ClockModulus - 1
  <2>1. (age + gap) % ClockModulus \in 0 .. ClockModulus - 1
    BY <1>1, <1>3
  <2> QED  BY <2>1 DEF Aged
<1> QED  BY <1>2, <1>3

\* The processor starts in its types.
LEMMA InitType == Init => ExpressionTypeOK
PROOF
<1> SUFFICES ASSUME Init PROVE ExpressionTypeOK
  OBVIOUS
<1>1. default_assignment \in Assignments /\ Window \in Nat /\ default_assignment.enabled = TRUE
  BY ExpressionAssumption DEF default_assignment
<1>2. samples \in Seq(1 .. AdcMax - 1) /\ Len(samples) <= Window
  BY <1>1 DEF Init
<1>3. view.available \in BOOLEAN /\ view.value = 0
  BY <1>1 DEF Init, Enabled, valid_calibration
<1> QED  BY <1>1, <1>2, <1>3 DEF Init, ExpressionTypeOK

\* A pass of the control loop keeps the types.
LEMMA TickType ==
  ASSUME ExpressionTypeOK, NEW adc \in Readings, NEW gap \in Gaps, Tick(adc, gap)
  PROVE  ExpressionTypeOK'
PROOF
<1>1. /\ UNCHANGED <<calibration, assignment>>
      /\ Aged(emit_age, gap) \in 0 .. ClockModulus - 1 \cup {Nil}
      /\ Aged(sample_age, gap) \in 0 .. ClockModulus - 1 \cup {Nil}
  BY AgedType DEF ExpressionTypeOK, Tick
<1>2. ClockModulus \in Nat /\ 1 < ClockModulus
  BY ExpressionAssumption
<1>3. sample_age' \in 0 .. ClockModulus - 1 \cup {Nil}
  BY <1>1, <1>2 DEF Tick
<1>4. CASE Skip(gap) /\ (UNCHANGED view \/ view' = [available |-> FALSE, value |-> 0])
  <2>1. /\ UNCHANGED <<samples, filtered_q, last_emitted, calibration, assignment>>
        /\ message' = Nil /\ emit_age' = Aged(emit_age, gap)
    BY <1>1, <1>4 DEF Skip
  <2>2. view'.available \in BOOLEAN /\ (view'.value = 0 \/ InRange(view.value)')
    <3>1. CASE view' = view
      <4>1. view.available \in BOOLEAN /\ (view.value = 0 \/ InRange(view.value))
        BY DEF ExpressionTypeOK
      <4> QED  BY <2>1, <3>1, <4>1 DEF InRange
    <3>2. CASE view' = [available |-> FALSE, value |-> 0]
      BY <3>2
    <3> QED  BY <1>4, <3>1, <3>2
  <2>3. last_emitted' # Nil => InRange(last_emitted)'
    BY <2>1 DEF ExpressionTypeOK, InRange
  <2> QED  BY <1>1, <1>3, <2>1, <2>2, <2>3 DEF ExpressionTypeOK
<1>5. CASE Unavailable(gap)
  <2>1. view'.available \in BOOLEAN /\ view'.value = 0 /\ UNCHANGED <<samples, filtered_q>>
    BY <1>5 DEF Unavailable
  <2>2. last_emitted' = Nil /\ message' = Nil /\ emit_age' = Aged(emit_age, gap)
    BY <1>5 DEF Unavailable
  <2> QED  BY <1>1, <1>3, <2>1, <2>2 DEF ExpressionTypeOK
<1>6. CASE Enabled /\ ~Unplugged(adc) /\ TakeSample(adc, gap)
  <2>1. emit_age' \in 0 .. ClockModulus - 1 \cup {Nil}
    BY <1>1, <1>2, <1>6 DEF TakeSample, Emit
  <2>2. /\ samples' \in Seq(1 .. AdcMax - 1) /\ Len(samples') <= Window
        /\ filtered_q' \in 0 .. Scale * AdcMax
        /\ InRange(view.value)' /\ view'.available = TRUE
        /\ last_emitted' # Nil => InRange(last_emitted)'
        /\ message' # Nil => InRange(message)'
    BY <1>1, <1>6, SampleType
  <2> QED  BY <1>1, <1>3, <2>1, <2>2 DEF ExpressionTypeOK
<1> QED  BY <1>4, <1>5, <1>6 DEF Tick

\* Every step keeps the types.
LEMMA TypeStep == ASSUME ExpressionTypeOK, [Next]_vars PROVE ExpressionTypeOK'
PROOF
<1>1. ASSUME NEW adc \in Readings, NEW gap \in Gaps, Tick(adc, gap) PROVE ExpressionTypeOK'
  BY <1>1, TickType
<1>2. ASSUME NEW a \in Assignments, set_assignment(a) PROVE ExpressionTypeOK'
  <2>1. view'.available \in BOOLEAN /\ view'.value = 0
    <3>1. a.enabled \in BOOLEAN
      BY ExpressionAssumption
    <3> QED  BY <1>2, <3>1 DEF set_assignment, valid_calibration
  <2> QED  BY <1>2, <2>1 DEF set_assignment, ExpressionTypeOK, clock_vars
<1>3. ASSUME NEW c \in Calibrations, set_calibration(c) PROVE ExpressionTypeOK'
  <2>1. view'.available \in BOOLEAN /\ view'.value = 0
    BY <1>3 DEF set_calibration, valid_calibration
  <2>2. samples' \in Seq(1 .. AdcMax - 1) /\ Len(samples') <= Window
    BY <1>3, ExpressionAssumption DEF set_calibration
  <2> QED  BY <1>3, <2>1, <2>2 DEF set_calibration, ExpressionTypeOK, clock_vars
<1>4. CASE UNCHANGED vars
  BY <1>4 DEF vars, processor_vars, clock_vars, ExpressionTypeOK, InRange
<1> QED  BY <1>1, <1>2, <1>3, <1>4 DEF Next

\* Every value the processor keeps, shows and sends stays in its range, for all calibrations,
\* assignments and filters: the median is a sample, the filter does not overshoot, and
\* map_value cannot leave the range of the assignment.
THEOREM ExpressionTypeCorrect == Spec => []ExpressionTypeOK
PROOF
<1>1. Init => ExpressionTypeOK
  BY InitType
<1>2. ExpressionTypeOK /\ [Next]_vars => ExpressionTypeOK'
  BY TypeStep
<1> QED  BY <1>1, <1>2, PTL DEF Spec

-----------------------------------------------------------------------------
(* The rate limit *)

\* Two messages are never closer than EmitMs, whatever is plugged, assigned or calibrated in
\* between and however often the clock wraps: the difference of two clock values may say too
\* little about a long time, but never too much about a short one.
THEOREM RateAlwaysLimited == Spec => []RateIsLimited
PROOF
<1>0. /\ EmitMs \in Nat /\ ClockModulus \in Nat /\ EmitMs < ClockModulus /\ Nil \notin Int
      /\ Gaps \subseteq Nat
  BY ExpressionAssumption
<1>1. Init => ClockTellsPause /\ RateIsLimited
  BY <1>0 DEF Init, ClockTellsPause, RateIsLimited, Pause
<1>2. ASSUME ExpressionTypeOK, ClockTellsPause, RateIsLimited, [Next]_vars
      PROVE  ClockTellsPause' /\ RateIsLimited'
  <2>0. since \in 0 .. EmitMs /\ Pause \in 0 .. EmitMs
        /\ emit_age \in 0 .. ClockModulus - 1 \cup {Nil}
    BY <1>0, <1>2 DEF ClockTellsPause, Pause, ExpressionTypeOK
  <2>1. ASSUME NEW adc \in Readings, NEW gap \in Gaps, Tick(adc, gap)
        PROVE  ClockTellsPause' /\ RateIsLimited'
    <3> DEFINE age == Aged(emit_age, gap)
    <3>1. since' = LesserOf(Pause + gap, EmitMs) /\ since' \in 0 .. EmitMs /\ gap \in Nat
      BY <1>0, <2>0, <2>1 DEF Tick, ObserveTime, Pause, LesserOf
    <3>2. emit_age = Nil => age = Nil /\ since' = EmitMs
      BY <1>0, <1>2, <3>1 DEF Aged, ClockTellsPause, LesserOf
    <3>3. emit_age # Nil => age \in 0 .. ClockModulus - 1
      BY <1>0, <2>0, <3>1 DEF Aged
    <3>4. since' < EmitMs => age = since'
      <4> SUFFICES ASSUME since' < EmitMs PROVE age = since'
        OBVIOUS
      <4>1. since' = Pause + gap /\ Pause < EmitMs
        BY <1>0, <2>0, <3>1 DEF LesserOf
      <4>2. emit_age = Pause
        BY <1>2, <4>1 DEF ClockTellsPause
      <4>3. age = (Pause + gap) % ClockModulus
        BY <1>0, <2>0, <4>2 DEF Aged
      <4> QED  BY <1>0, <2>0, <3>1, <4>1, <4>3
    <3> HIDE DEF age
    <3>5. CASE message' = Nil /\ emit_age' = age
      BY <1>0, <3>1, <3>2, <3>3, <3>4, <3>5 DEF ClockTellsPause, Pause, RateIsLimited
    <3>6. CASE message' = Nil /\ emit_age' = 0 /\ age = Nil
      <4>1. emit_age = Nil
        BY <1>0, <3>3, <3>6
      <4> QED  BY <1>0, <3>1, <3>2, <3>6, <4>1 DEF ClockTellsPause, Pause, RateIsLimited
    <3>7. CASE message' # Nil /\ emit_age' = 0 /\ age # Nil /\ elapsed(age)
      <4>1. since' = EmitMs
        BY <1>0, <3>1, <3>2, <3>3, <3>4, <3>7 DEF elapsed
      <4> QED  BY <1>0, <3>7, <4>1 DEF ClockTellsPause, Pause, RateIsLimited
    <3>8. \/ message' = Nil /\ emit_age' = age
          \/ message' = Nil /\ emit_age' = 0 /\ age = Nil
          \/ message' # Nil /\ emit_age' = 0 /\ age # Nil /\ elapsed(age)
      <4>1. CASE Skip(gap) \/ Unavailable(gap)
        BY <4>1 DEF Skip, Unavailable, age
      <4>2. CASE Enabled /\ ~Unplugged(adc) /\ TakeSample(adc, gap)
        <5>1. Emit(view'.value, age) /\ InRange(view.value)'
          BY <1>2, <2>1, <4>2, SampleType DEF TakeSample, Tick, age
        <5>2. view'.value # Nil
          <6>1. assignment' \in Assignments
            BY <1>2, <2>1 DEF ExpressionTypeOK, Tick
          <6>2. assignment'.minimum \in Nat /\ assignment'.maximum \in Nat
            BY <6>1, ExpressionAssumption
          <6> QED  BY <1>0, <5>1, <6>2 DEF InRange
        <5> QED  BY <5>1, <5>2 DEF Emit
      <4> QED  BY <2>1, <4>1, <4>2 DEF Tick
    <3> QED  BY <3>5, <3>6, <3>7, <3>8
  <2>2. ASSUME message' = Nil, ObserveTime(0), UNCHANGED emit_age
        PROVE  ClockTellsPause' /\ RateIsLimited'
    <3>1. since' = Pause
      BY <1>0, <2>0, <2>2 DEF ObserveTime, Pause, LesserOf
    <3> QED  BY <1>0, <1>2, <2>0, <2>2, <3>1 DEF ClockTellsPause, Pause, RateIsLimited
  <2>3. CASE UNCHANGED vars
    BY <1>0, <1>2, <2>3 DEF vars, processor_vars, clock_vars, ClockTellsPause, Pause, RateIsLimited
  <2> QED  BY <1>2, <2>1, <2>2, <2>3 DEF Next, set_assignment, set_calibration, clock_vars
<1>3. Spec => []ExpressionTypeOK
  BY ExpressionTypeCorrect
<1> QED  BY <1>1, <1>2, <1>3, PTL DEF Spec
-----------------------------------------------------------------------------
(***************************************************************************)
(* A pedal at rest. The median is the reading of the majority, so samples  *)
(* that are off do not count. Every sample brings the filter closer to the *)
(* reading by a part of the way, and the rest of the way shrinks like the  *)
(* table remaining, whatever the filter held before. Once it is less than  *)
(* half a step of the ADC, rounding gives the reading itself.              *)
(***************************************************************************)

\* How far the filter is from a reading.
Off(q, adc) == IF q >= Scale * adc THEN q - Scale * adc ELSE Scale * adc - q

\* The table bounds what is left of the way, sample by sample from a full window of equal
\* samples on, and comes to less than half a step by the time the pedal counts as at rest.
Shrinks(remaining) ==
  /\ Window <= SettleSamples
  /\ remaining \in [0 .. SettleSamples - Window -> Nat]
  /\ remaining[0] >= Scale * AdcMax
  /\ \A n \in 0 .. SettleSamples - Window - 1 :
       remaining[n + 1] >= remaining[n] - remaining[n] \div Divisor
  /\ 2 * remaining[SettleSamples - Window] < Scale

\* SettleSamples is long enough.
FilterSettles == \E remaining \in [0 .. SettleSamples - Window -> Nat] : Shrinks(remaining)

\* rest counts the newest samples, which are equal.
RestIsSeen ==
  /\ rest \in 0 .. SettleSamples
  /\ rest > 0 => samples # <<>>
  /\ rest <= Len(samples) \/ Len(samples) = Window
  /\ \A i \in DOMAIN samples : i > Len(samples) - rest => samples[i] = samples[Len(samples)]

FilterFollows(remaining) ==
  rest >= Window =>
    filtered_q # Nil /\ Off(filtered_q, samples[Len(samples)]) <= remaining[rest - Window]

SettledIsReached ==
  settled # Nil => settled \in Nat /\ filtered_q # Nil /\ 2 * Off(filtered_q, settled) < Scale

CalmIsShown == calm # Nil => settled # Nil /\ Enabled /\ view.value = map_value(settled)

RestInvariant(remaining) ==
  ExpressionTypeOK /\ RestIsSeen /\ FilterFollows(remaining) /\ SettledIsReached /\ CalmIsShown

\* The median is the value that most samples have.
LEMMA MedianOfMajority ==
  ASSUME NEW window \in Seq(Int), NEW x \in Int,
         2 * Cardinality({i \in DOMAIN window : window[i] = x}) > Len(window)
  PROVE  median(window) = x
PROOF
<1> DEFINE equal == {i \in DOMAIN window : window[i] = x}
           values == {window[i] : i \in DOMAIN window}
           below(y) == {i \in DOMAIN window : window[i] < y}
           atMost(y) == {i \in DOMAIN window : window[i] <= y}
           middle == Len(window) \div 2
<1>1. /\ Len(window) \in Nat /\ DOMAIN window = 1 .. Len(window)
      /\ \A i \in DOMAIN window : window[i] \in Int
  BY LenProperties, ElementOfSeq
<1>2. IsFiniteSet(DOMAIN window) /\ Cardinality(DOMAIN window) = Len(window)
  <2>1. /\ IsFiniteSet(1 .. Len(window))
        /\ Cardinality(1 .. Len(window)) = IF 1 > Len(window) THEN 0 ELSE Len(window) - 1 + 1
    BY <1>1, FS_Interval
  <2>2. (IF 1 > Len(window) THEN 0 ELSE Len(window) - 1 + 1) = Len(window)
    BY <1>1
  <2> QED  BY <1>1, <2>1, <2>2
<1>3. \A T \in SUBSET DOMAIN window : /\ IsFiniteSet(T) /\ Cardinality(T) \in Nat
                                      /\ Cardinality(T) <= Len(window)
  BY <1>2, FS_Subset, FS_CardinalityType
<1>4. equal \in SUBSET DOMAIN window /\ 2 * Cardinality(equal) > Len(window)
  OBVIOUS
<1> HIDE DEF equal
<1>5. ASSUME NEW T \in SUBSET DOMAIN window, T \cap equal = {}
      PROVE  Cardinality(T) <= middle
  <2>1. Cardinality(T \cup equal) = Cardinality(T) + Cardinality(equal) - Cardinality({})
    BY <1>3, <1>4, <1>5, FS_Union
  <2>2. Cardinality({}) = 0
    BY FS_EmptySet
  <2>3. T \cup equal \in SUBSET DOMAIN window
    BY <1>4
  <2>4. Cardinality(T \cup equal) <= Len(window)
    BY <1>3, <2>3
  <2>5. Cardinality(T) \in Nat /\ Cardinality(equal) \in Nat
    BY <1>3, <1>4
  <2> QED  BY <1>1, <1>4, <2>1, <2>2, <2>4, <2>5
<1>6. ASSUME NEW T \in SUBSET DOMAIN window, equal \subseteq T
      PROVE  middle < Cardinality(T)
  <2>1. Cardinality(equal) <= Cardinality(T) /\ Cardinality(T) \in Nat /\ Cardinality(equal) \in Nat
    BY <1>3, <1>4, <1>6, FS_Subset
  <2> QED  BY <1>1, <1>4, <2>1
<1>7. x \in values
  <2>1. equal # {}
    <3>1. Cardinality({}) = 0
      BY FS_EmptySet
    <3> SUFFICES ASSUME equal = {} PROVE FALSE
      OBVIOUS
    <3>2. Cardinality(equal) = 0
      BY <3>1
    <3> QED  BY <1>1, <1>4, <3>2
  <2> QED  BY <2>1 DEF equal
<1>8. \A y : below(y) \in SUBSET DOMAIN window /\ atMost(y) \in SUBSET DOMAIN window
  OBVIOUS
<1>9. Cardinality(below(x)) <= middle /\ middle < Cardinality(atMost(x))
  <2>1. below(x) \cap equal = {} /\ equal \subseteq atMost(x)
    BY <1>1 DEF equal
  <2> HIDE DEF below, atMost, middle
  <2> QED  BY <1>5, <1>6, <1>8, <2>1
<1>10. ASSUME NEW y \in values, Cardinality(below(y)) <= middle, middle < Cardinality(atMost(y))
       PROVE  y = x
  <2>1. y \in Int
    BY <1>1
  <2>2. CASE y < x
    <3>1. atMost(y) \cap equal = {}
      BY <1>1, <2>1, <2>2 DEF equal
    <3>2. Cardinality(atMost(y)) <= middle
      <4> HIDE DEF atMost, middle
      <4> QED  BY <1>5, <1>8, <3>1
    <3>3. Cardinality(atMost(y)) \in Nat /\ middle \in Nat
      <4> HIDE DEF atMost
      <4> QED  BY <1>1, <1>3, <1>8
    <3> HIDE DEF atMost, middle
    <3> QED  BY <1>10, <3>2, <3>3
  <2>3. CASE x < y
    <3>1. equal \subseteq below(y)
      BY <1>1, <2>1, <2>3 DEF equal
    <3>2. middle < Cardinality(below(y))
      <4> HIDE DEF below, middle
      <4> QED  BY <1>6, <1>8, <3>1
    <3>3. Cardinality(below(y)) \in Nat /\ middle \in Nat
      <4> HIDE DEF below
      <4> QED  BY <1>1, <1>3, <1>8
    <3> HIDE DEF below, middle
    <3> QED  BY <1>10, <3>2, <3>3
  <2> QED  BY <2>1, <2>2, <2>3
<1> QED  BY <1>7, <1>9, <1>10 DEF median

\* The window moves on by one sample, and grows until it is full.
LEMMA WindowMoves ==
  ASSUME NEW window \in Seq(Int), Len(window) <= Window, NEW adc \in Int,
         NEW more, more = Recorded(window, adc)
  PROVE  /\ more \in Seq(Int) /\ Len(more) \in Nat \ {0} /\ DOMAIN more = 1 .. Len(more)
         /\ Len(more) = (IF Len(window) = Window THEN Window ELSE Len(window) + 1)
         /\ more[Len(more)] = adc
         /\ \A i \in 1 .. Len(more) - 1 :
              /\ i + Len(window) + 1 - Len(more) \in DOMAIN window
              /\ more[i] = window[i + Len(window) + 1 - Len(more)]
PROOF
<1> DEFINE all == Append(window, adc)
<1>1. Window \in Nat \ {0} /\ Len(window) \in Nat /\ DOMAIN window = 1 .. Len(window)
  BY ExpressionAssumption, LenProperties
<1>0. Window \in Nat \ {0} /\ Len(window) \in Nat /\ Len(all) = Len(window) + 1
  BY <1>1, AppendProperties
<1>2. /\ all \in Seq(Int) /\ Len(all) = Len(window) + 1 /\ DOMAIN all = 1 .. Len(window) + 1
      /\ all[Len(window) + 1] = adc /\ \A i \in 1 .. Len(window) : all[i] = window[i]
  BY <1>1, AppendProperties, LenProperties
<1>3. more = IF Len(all) > Window THEN Tail(all) ELSE all
  BY DEF Recorded
<1> HIDE DEF all
<1>4. CASE Len(all) > Window
  <2>1. Len(window) = Window
    BY <1>0, <1>4
  <2>2. /\ all # <<>> /\ more = Tail(all) /\ more \in Seq(Int) /\ Len(more) = Window
        /\ DOMAIN more = 1 .. Window /\ \A i \in 1 .. Window : more[i] = all[i + 1]
    <3>1. all # <<>>
      BY <1>2, EmptySeq
    <3>2. more = Tail(all)
      BY <1>3, <1>4
    <3> QED  BY <1>1, <1>2, <2>1, <3>1, <3>2, HeadTailProperties, LenProperties
  <2> QED  BY <1>1, <1>2, <2>1, <2>2
<1>5. CASE ~(Len(all) > Window)
  <2>1. more = all
    BY <1>3, <1>5
  <2>2. Len(window) # Window
    BY <1>0, <1>5
  <2>3. Len(more) = Len(window) + 1 /\ Len(more) \in Nat \ {0}
    BY <1>0, <2>1
  <2>4. more \in Seq(Int) /\ DOMAIN more = 1 .. Len(more) /\ more[Len(more)] = adc
    BY <1>2, <2>1
  <2>5. \A i \in 1 .. Len(more) - 1 : i + Len(window) + 1 - Len(more) = i /\ i \in 1 .. Len(window)
    BY <1>0, <2>3
  <2>6. \A i \in 1 .. Len(window) : more[i] = window[i]
    BY <1>2, <2>1
  <2> QED  BY <1>1, <2>2, <2>3, <2>4, <2>5, <2>6
<1> QED  BY <1>4, <1>5

\* What is left after a step of the filter: more was left, more is left.
LEMMA StepShrinks ==
  ASSUME NEW a \in Nat, NEW b \in Nat, a <= b
  PROVE  /\ a - a \div Divisor \in 0 .. a
         /\ a - a \div Divisor <= b - b \div Divisor
PROOF
<1>1. Divisor \in Nat \ {0}
  BY ExpressionAssumption
<1> DEFINE q == a \div Divisor
           r == a % Divisor
<1>2. q \in Nat /\ r \in 0 .. Divisor - 1 /\ a = Divisor * q + r
  BY <1>1
<1>3. q <= a
  <2>1. a < a * Divisor + Divisor
    BY <1>1
  <2> QED  BY <1>1, <2>1, QuotientBound
<1>4. b \div Divisor \in 0 .. q + (b - a)
  <2> HIDE DEF q, r
  <2> DEFINE k == b - a
  <2>1. k \in Nat /\ b = Divisor * q + r + k
    BY <1>2
  <2> HIDE DEF k
  <2>2. k <= k * Divisor /\ (q + k) * Divisor = Divisor * q + k * Divisor
    BY <1>1, <1>2, <2>1
  <2>3. Divisor * q \in Nat /\ k * Divisor \in Nat
    BY <1>1, <1>2, <2>1
  <2>4. b < (q + k) * Divisor + Divisor
    BY <1>1, <1>2, <2>1, <2>2, <2>3
  <2>5. q + k \in Nat
    BY <1>2, <2>1
  <2>6. b \div Divisor \in 0 .. q + k
    BY <1>1, <2>4, <2>5, QuotientBound
  <2> QED  BY <2>6 DEF k
<1> DEFINE p == b \div Divisor
<1>5. p \in 0 .. q + (b - a)
  BY <1>4
<1> HIDE DEF q, r, p
<1>6. a - q \in 0 .. a /\ a - q <= b - p
  BY <1>2, <1>3, <1>5
<1> QED  BY <1>6 DEF q, p

\* The filter comes closer to the reading by a part of the way.
LEMMA FilterApproaches ==
  ASSUME NEW from \in Nat, NEW adc \in Nat
  PROVE  /\ Off(from, adc) \in Nat
         /\ Filter(from, Scale * adc) \in Nat
         /\ Off(Filter(from, Scale * adc), adc) = Off(from, adc) - Off(from, adc) \div Divisor
PROOF
<1> DEFINE to == Scale * adc
<1>1. to \in Nat /\ from # Nil
  BY ExpressionAssumption
<1> HIDE DEF to
<1>2. ASSUME NEW d \in Nat  PROVE d \div Divisor \in 0 .. d
  <2>1. Divisor \in Nat \ {0}
    BY ExpressionAssumption
  <2>2. d - d \div Divisor \in 0 .. d /\ d \div Divisor \in Nat
    BY <2>1, StepShrinks
  <2> QED  BY <2>2
<1>3. CASE to >= from
  <2> DEFINE d == to - from
             p == d \div Divisor
  <2>1. d \in Nat /\ p \in 0 .. d
    BY <1>1, <1>2, <1>3
  <2>2. Filter(from, to) = from + p /\ Off(from, adc) = (IF from = to THEN 0 ELSE d)
    BY <1>1, <1>3 DEF Filter, Off, to
  <2> HIDE DEF p
  <2>3. Off(from, adc) = d /\ from + p \in Nat /\ from + p <= to
    BY <1>1, <1>3, <2>1, <2>2
  <2>4. Off(from + p, adc) = d - p
    BY <1>1, <2>1, <2>3 DEF Off, to
  <2> QED  BY <2>1, <2>2, <2>3, <2>4 DEF to, p
<1>4. CASE to < from
  <2> DEFINE d == from - to
             p == d \div Divisor
  <2>1. d \in Nat /\ p \in 0 .. d
    BY <1>1, <1>2, <1>4
  <2>2. Filter(from, to) = from - p /\ Off(from, adc) = d
    BY <1>1, <1>4 DEF Filter, Off, to
  <2> HIDE DEF p
  <2>3. from - p \in Nat /\ from - p >= to
    BY <1>1, <1>4, <2>1
  <2>4. Off(from - p, adc) = d - p
    BY <1>1, <2>1, <2>3 DEF Off, to
  <2> QED  BY <2>1, <2>2, <2>3, <2>4 DEF to, p
<1> QED  BY <1>1, <1>3, <1>4

\* Less than half a step away, the filter is rounded to the reading.
LEMMA RoundsToReading ==
  ASSUME NEW q \in Nat, NEW adc \in Nat, 2 * Off(q, adc) < Scale
  PROVE  Rounded(q) = adc
PROOF
<1> DEFINE half == Scale \div 2
           sum == q + half
           n == sum \div Scale
           rem == sum % Scale
           to == Scale * adc
<1>1. Scale \in Nat \ {0} /\ half \in Nat /\ 2 * half <= Scale /\ Scale <= 2 * half + 1
  BY ExpressionAssumption
<1>2. to \in Nat /\ sum \in Nat
  BY <1>1
<1>3. to <= sum /\ sum < to + Scale
  <2> HIDE DEF half
  <2>1. CASE q >= to
    <3>1. Off(q, adc) = q - to
      BY <2>1 DEF Off
    <3> HIDE DEF to
    <3> QED  BY <1>1, <1>2, <2>1, <3>1
  <2>2. CASE q < to
    <3>1. Off(q, adc) = to - q
      BY <1>2, <2>2 DEF Off
    <3> HIDE DEF to
    <3> QED  BY <1>1, <1>2, <2>2, <3>1
  <2> QED  BY <1>2, <2>1, <2>2
<1>4. n \in Nat /\ rem \in 0 .. Scale - 1 /\ sum = Scale * n + rem
  <2> HIDE DEF sum
  <2> QED  BY <1>1, <1>2
<1>5. n \in 0 .. adc
  <2>1. sum < adc * Scale + Scale
    BY <1>1, <1>3
  <2> HIDE DEF sum
  <2> QED  BY <1>1, <1>2, <2>1, QuotientBound
<1>6. ASSUME n + 1 <= adc  PROVE FALSE
  <2> HIDE DEF n, rem, sum, half
  <2>1. Scale * (n + 1) <= Scale * adc
    BY <1>1, <1>4, <1>6
  <2>2. Scale * (n + 1) = Scale * n + Scale
    BY <1>1, <1>4
  <2>3. Scale * n \in Nat
    BY <1>1, <1>4
  <2> QED  BY <1>1, <1>2, <1>3, <1>4, <2>1, <2>2, <2>3
<1>7. n = adc
  <2> HIDE DEF n
  <2> QED  BY <1>5, <1>6
<1> QED  BY <1>7 DEF Rounded

\* The positions of the newest samples, before and after the window has moved.
LEMMA NewestPositions ==
  ASSUME NEW before \in Nat, NEW after \in Nat, NEW length \in Nat, NEW moved \in Nat,
         NEW i \in 1 .. moved, after <= before + 1, i > moved - after
  PROVE  /\ i + length + 1 - moved > length - before
         /\ i # moved => after # 1
PROOF
<1>1. i \in Int /\ i <= moved
  OBVIOUS
<1> QED  BY <1>1

\* All the samples are among the newest ones.
LEMMA AllAreNewest ==
  ASSUME NEW length \in Nat, NEW count \in Nat, length <= count, NEW i \in 1 .. length
  PROVE  i > length - count
OBVIOUS

\* A difference of naturals.
LEMMA DifferenceRange ==
  ASSUME NEW low \in Nat, NEW high \in Nat, NEW k \in Nat, low <= k, k <= high
  PROVE  k - low \in 0 .. high - low
OBVIOUS

\* A sample makes the rest longer or ends it, and what rest counts is in the window.
LEMMA SampleIsSeen ==
  ASSUME ExpressionTypeOK, RestIsSeen, NEW adc \in 1 .. AdcMax - 1, NEW gap \in Gaps,
         TakeSample(adc, gap)
  PROVE  /\ RestIsSeen' /\ Len(samples') \in Nat \ {0} /\ samples'[Len(samples')] = adc
         /\ rest' > 1 => /\ samples # <<>> /\ samples[Len(samples)] = adc
                         /\ rest' = LesserOf(rest + 1, SettleSamples)
         /\ rest' >= Window => median(samples') = adc
PROOF
<1> DEFINE n == Len(samples)
           m == Len(samples')
           same == samples # <<>> /\ samples[n] = adc
<1>1. /\ Window \in Nat \ {0} /\ SettleSamples \in Nat \ {0} /\ AdcMax \in Nat /\ adc \in Int
      /\ rest \in 0 .. SettleSamples
  BY ExpressionAssumption DEF RestIsSeen
<1>2. samples \in Seq(Int) /\ n \in Nat /\ n <= Window /\ DOMAIN samples = 1 .. n
  <2>1. samples \in Seq(1 .. AdcMax - 1) /\ n <= Window
    BY DEF ExpressionTypeOK
  <2>2. 1 .. AdcMax - 1 \subseteq Int
    BY <1>1
  <2> QED  BY <2>1, <2>2, SeqMonotonic, LenProperties
<1>3. samples' = Recorded(samples, adc)
  BY DEF TakeSample
<1>4. /\ samples' \in Seq(Int) /\ m \in Nat \ {0} /\ DOMAIN samples' = 1 .. m
      /\ m = (IF n = Window THEN Window ELSE n + 1)
      /\ samples'[m] = adc
      /\ \A i \in 1 .. m - 1 : i + n + 1 - m \in DOMAIN samples /\ samples'[i] = samples[i + n + 1 - m]
  <2>1. samples \in Seq(Int) /\ Len(samples) <= Window /\ adc \in Int
    BY <1>1, <1>2
  <2> HIDE DEF n, m, same
  <2>2. /\ samples' \in Seq(Int) /\ Len(samples') \in Nat \ {0} /\ DOMAIN samples' = 1 .. Len(samples')
        /\ Len(samples') = (IF Len(samples) = Window THEN Window ELSE Len(samples) + 1)
        /\ samples'[Len(samples')] = adc
        /\ \A i \in 1 .. Len(samples') - 1 :
             /\ i + Len(samples) + 1 - Len(samples') \in DOMAIN samples
             /\ samples'[i] = samples[i + Len(samples) + 1 - Len(samples')]
    BY <1>3, <2>1, WindowMoves
  <2> QED  BY <2>2 DEF n, m
<1>5. rest' = IF same THEN LesserOf(rest + 1, SettleSamples) ELSE 1
  BY DEF TakeSample, ObserveSample
<1>6. \A i \in 1 .. n : i > n - rest => samples[i] = samples[n]
  BY <1>2 DEF RestIsSeen
<1>7. rest <= n \/ n = Window
  BY DEF RestIsSeen
<1> HIDE DEF n, m, same
<1>8. rest' \in 1 .. SettleSamples /\ rest' <= rest + 1 /\ (~same => rest' = 1)
  BY <1>1, <1>5 DEF LesserOf
<1>14. n \in Nat /\ m \in Nat \ {0} /\ m = (IF n = Window THEN Window ELSE n + 1)
  BY <1>2, <1>4
<1>15. rest \in Nat /\ rest' \in Nat /\ rest' <= rest + 1
  BY <1>1, <1>8
<1>9. rest' <= m \/ m = Window
  BY <1>1, <1>2, <1>7, <1>8, <1>14
<1>10. ASSUME NEW i \in 1 .. m, i > m - rest'  PROVE samples'[i] = adc
  <2>1. CASE i = m
    BY <1>4, <2>1
  <2>2. CASE i # m
    <3> DEFINE k == i + n + 1 - m
    <3>1. i \in 1 .. m - 1
      BY <1>4, <2>2
    <3>2. k \in 1 .. n /\ samples'[i] = samples[k]
      BY <1>2, <1>4, <3>1
    <3>3. same
      <4>1. rest' # 1
        BY <1>10, <1>14, <1>15, <2>2, NewestPositions
      <4> QED  BY <1>8, <4>1
    <3>4. k > n - rest
      BY <1>10, <1>14, <1>15, NewestPositions
    <3> HIDE DEF k
    <3>5. samples[k] = samples[n]
      BY <1>6, <3>2, <3>4
    <3> QED  BY <3>2, <3>3, <3>5 DEF same
  <2> QED  BY <2>1, <2>2
<1>11. RestIsSeen'
  <2>1. samples' # <<>>
    <3>1. m # 0
      BY <1>4
    <3> QED  BY <3>1, EmptySeq DEF m
  <2>2. \A i \in DOMAIN samples' : i > m - rest' => samples'[i] = samples'[m]
    BY <1>4, <1>10
  <2>3. rest' \in 0 .. SettleSamples
    BY <1>8
  <2> QED  BY <1>9, <2>1, <2>2, <2>3 DEF RestIsSeen, m
<1>12. rest' >= Window => median(samples') = adc
  <2> SUFFICES ASSUME rest' >= Window  PROVE median(samples') = adc
    OBVIOUS
  <2>1. \A i \in 1 .. m : i > m - rest'
    <3>1. rest' \in Nat /\ rest' >= m
      <4>1. m <= Window
        BY <1>1, <1>2, <1>14
      <4> QED  BY <1>1, <1>8, <1>14, <4>1
    <3> QED  BY <1>14, <3>1, AllAreNewest
  <2>2. {i \in DOMAIN samples' : samples'[i] = adc} = 1 .. m
    BY <1>4, <1>10, <2>1
  <2>3. Cardinality(1 .. m) = m
    <3>1. 1 \in Int /\ m \in Int
      BY <1>14
    <3>2. Cardinality(1 .. m) = IF 1 > m THEN 0 ELSE m - 1 + 1
      BY <3>1, FS_Interval
    <3>3. (IF 1 > m THEN 0 ELSE m - 1 + 1) = m
      BY <1>14
    <3> QED  BY <3>2, <3>3
  <2>4. m = Len(samples') /\ 2 * m > m
    BY <1>4 DEF m
  <2>5. 2 * Cardinality({i \in DOMAIN samples' : samples'[i] = adc}) > Len(samples')
    BY <2>2, <2>3, <2>4
  <2> QED  BY <1>1, <1>4, <2>5, MedianOfMajority
<1>13. rest' > 1 => same /\ rest' = LesserOf(rest + 1, SettleSamples)
  BY <1>5
<1> QED  BY <1>4, <1>11, <1>12, <1>13 DEF same, n, m

\* With it the filter comes closer to the reading that the samples are equal to.
LEMMA SampleIsFollowed ==
  ASSUME NEW remaining, Shrinks(remaining), ExpressionTypeOK, ExpressionTypeOK',
         RestIsSeen, FilterFollows(remaining),
         NEW adc \in 1 .. AdcMax - 1, NEW gap \in Gaps, TakeSample(adc, gap)
  PROVE  rest' >= Window =>
           /\ filtered_q' \in Nat /\ rest' - Window \in 0 .. SettleSamples - Window
           /\ Off(filtered_q', adc) \in Nat
           /\ Off(filtered_q', adc) <= remaining[rest' - Window]
PROOF
<1> SUFFICES ASSUME rest' >= Window
             PROVE  /\ filtered_q' \in Nat /\ rest' - Window \in 0 .. SettleSamples - Window
                    /\ Off(filtered_q', adc) \in Nat
                    /\ Off(filtered_q', adc) <= remaining[rest' - Window]
  OBVIOUS
<1>1. /\ Window \in Nat \ {0} /\ SettleSamples \in Nat \ {0} /\ AdcMax \in Nat /\ Scale \in Nat \ {0}
      /\ Nil \notin Int
  BY ExpressionAssumption
<1>2. /\ RestIsSeen' /\ median(samples') = adc
      /\ rest' > 1 => /\ samples[Len(samples)] = adc
                      /\ rest' = LesserOf(rest + 1, SettleSamples)
  BY SampleIsSeen
<1>3. rest' \in 0 .. SettleSamples /\ rest \in 0 .. SettleSamples
  BY <1>2 DEF RestIsSeen
<1>4. rest' - Window \in 0 .. SettleSamples - Window
  <2>1. rest' \in Nat /\ rest' <= SettleSamples /\ Window <= rest'
    BY <1>1, <1>3
  <2> QED  BY <1>1, <2>1, DifferenceRange
<1>5. filtered_q' = Filter(filtered_q, Scale * adc)
  BY <1>2 DEF TakeSample
<1>6. filtered_q' \in 0 .. Scale * AdcMax
  <2>1. filtered_q' # Nil
    <3>1. CASE filtered_q = Nil
      BY <1>1, <1>5, <3>1 DEF Filter
    <3>2. CASE filtered_q # Nil
      <4>1. filtered_q \in Nat /\ adc \in Nat
        <5>1. Scale * AdcMax \in Nat
          BY <1>1
        <5> QED  BY <1>1, <3>2, <5>1 DEF ExpressionTypeOK
      <4>2. filtered_q' \in Nat
        BY <1>5, <4>1, FilterApproaches
      <4> QED  BY <1>1, <4>2
    <3> QED  BY <3>1, <3>2
  <2> QED  BY <2>1 DEF ExpressionTypeOK
<1>7. Scale * AdcMax \in Nat /\ Scale * adc \in 0 .. Scale * AdcMax
  BY <1>1
<1>8. filtered_q' \in Nat /\ Off(filtered_q', adc) \in 0 .. Scale * AdcMax
  <2> DEFINE q == filtered_q'
             to == Scale * adc
             all == Scale * AdcMax
  <2>1. q \in 0 .. all /\ to \in 0 .. all /\ all \in Nat
    BY <1>6, <1>7
  <2>2. Off(q, adc) = IF q >= to THEN q - to ELSE to - q
    BY DEF Off
  <2> HIDE DEF q, to, all
  <2>3. q \in Nat /\ Off(q, adc) \in 0 .. all
    BY <2>1, <2>2
  <2> QED  BY <2>3 DEF q, all
<1>9. /\ remaining \in [0 .. SettleSamples - Window -> Nat]
      /\ remaining[0] >= Scale * AdcMax
      /\ \A n \in 0 .. SettleSamples - Window - 1 :
           remaining[n + 1] >= remaining[n] - remaining[n] \div Divisor
  BY DEF Shrinks
<1>10. Off(filtered_q', adc) <= remaining[rest' - Window]
  <2>1. CASE rest' = Window
    <3>1. rest' - Window = 0 /\ remaining[0] \in Nat
      BY <1>1, <1>4, <1>9, <2>1
    <3> DEFINE all == Scale * AdcMax
               d == Off(filtered_q', adc)
    <3>2. all \in Nat /\ d \in 0 .. all /\ remaining[0] >= all
      BY <1>7, <1>8, <1>9
    <3> HIDE DEF all, d
    <3>3. d <= remaining[0]
      BY <3>1, <3>2
    <3> QED  BY <3>1, <3>3 DEF d
  <2>2. CASE rest' # Window
    <3> DEFINE d == Off(filtered_q, adc)
               n == rest - Window
    <3>1. samples[Len(samples)] = adc /\ rest >= Window /\ (rest' = rest + 1 \/ rest' = rest)
      BY <1>1, <1>2, <1>3, <2>2 DEF LesserOf
    <3>2. filtered_q # Nil /\ d <= remaining[n]
      BY <3>1 DEF FilterFollows
    <3>3. filtered_q \in Nat /\ adc \in Nat
      BY <1>1, <1>7, <3>2 DEF ExpressionTypeOK
    <3>4. d \in Nat /\ Off(filtered_q', adc) = d - d \div Divisor
      BY <1>5, <3>3, FilterApproaches
    <3>5. n \in 0 .. SettleSamples - Window /\ remaining[n] \in Nat
      BY <1>1, <1>3, <1>9, <3>1
    <3> HIDE DEF d
    <3>6. d - d \div Divisor \in 0 .. d /\ d - d \div Divisor <= remaining[n] - remaining[n] \div Divisor
      BY <3>2, <3>4, <3>5, StepShrinks
    <3>7. CASE rest' = rest
      <4>1. d - d \div Divisor <= remaining[n]
        BY <3>2, <3>4, <3>5, <3>6
      <4> QED  BY <3>4, <3>7, <4>1
    <3>8. CASE rest' = rest + 1
      <4>1. n \in 0 .. SettleSamples - Window - 1 /\ rest' - Window = n + 1
        BY <1>1, <1>3, <3>1, <3>8
      <4> DEFINE bound == remaining[n] - remaining[n] \div Divisor
                 left == d - d \div Divisor
      <4>2. remaining[n + 1] \in Nat /\ remaining[n + 1] >= bound
        <5>1. n \in 0 .. SettleSamples - Window - 1 /\ n + 1 \in 0 .. SettleSamples - Window
          BY <1>1, <4>1
        <5> HIDE DEF n
        <5>2. remaining[n + 1] >= remaining[n] - remaining[n] \div Divisor
          BY <1>9, <5>1
        <5>3. remaining[n + 1] \in Nat
          BY <1>9, <5>1
        <5> QED  BY <5>2, <5>3
      <4>3. left \in Int /\ left <= bound /\ bound \in Int
        <5>1. bound \in 0 .. remaining[n]
          BY <3>5, StepShrinks
        <5> QED  BY <3>4, <3>5, <3>6, <5>1
      <4> HIDE DEF n, bound, left
      <4>4. left <= remaining[n + 1]
        BY <4>2, <4>3
      <4> QED  BY <3>4, <4>1, <4>4 DEF left
    <3> QED  BY <3>1, <3>7, <3>8
  <2> QED  BY <2>1, <2>2
<1>11. Off(filtered_q', adc) \in Nat
  BY <1>7, <1>8
<1> QED  BY <1>4, <1>8, <1>10, <1>11
\* A sample leaves the filter within half a step of the reading at which the pedal rests,
\* whether it has just come to rest there, or is off while the majority is not.
LEMMA SampleSettles ==
  ASSUME NEW remaining, Shrinks(remaining), ExpressionTypeOK, ExpressionTypeOK',
         RestIsSeen, FilterFollows(remaining), SettledIsReached,
         NEW adc \in 1 .. AdcMax - 1, NEW gap \in Gaps, TakeSample(adc, gap)
  PROVE  SettledIsReached'
PROOF
<1>1. /\ Window \in Nat \ {0} /\ SettleSamples \in Nat \ {0} /\ AdcMax \in Nat /\ Scale \in Nat \ {0}
      /\ Nil \notin Int
  BY ExpressionAssumption
<1>2. settled' = IF rest' = SettleSamples THEN adc
                 ELSE IF settled # Nil /\ Majority(samples', settled) THEN settled
                 ELSE Nil
  BY DEF TakeSample, ObserveSample
<1>3. CASE rest' = SettleSamples
  <2>1. Window <= SettleSamples /\ 2 * remaining[SettleSamples - Window] < Scale
        /\ remaining \in [0 .. SettleSamples - Window -> Nat]
    BY DEF Shrinks
  <2>2. rest' >= Window
    BY <1>3, <2>1
  <2>3. /\ filtered_q' \in Nat /\ Off(filtered_q', adc) \in Nat
        /\ Off(filtered_q', adc) <= remaining[rest' - Window]
    BY <2>2, SampleIsFollowed
  <2> DEFINE d == Off(filtered_q', adc)
             r == remaining[SettleSamples - Window]
  <2>4. r \in Nat
    <3>1. SettleSamples - Window \in 0 .. SettleSamples - Window
      BY <1>1, <2>1
    <3> QED  BY <2>1, <3>1
  <2>5. d \in Nat /\ d <= r /\ 2 * r < Scale
    BY <1>3, <2>1, <2>3
  <2> HIDE DEF d, r
  <2>6. 2 * d < Scale
    BY <1>1, <2>4, <2>5
  <2>7. adc \in Nat /\ filtered_q' # Nil /\ settled' = adc
    BY <1>1, <1>2, <1>3, <2>3
  <2> QED  BY <2>6, <2>7 DEF SettledIsReached, Off, d
<1>4. CASE settled # Nil /\ Majority(samples', settled) /\ settled' = settled
  <2>1. settled \in Nat /\ filtered_q # Nil /\ 2 * Off(filtered_q, settled) < Scale
    BY <1>4 DEF SettledIsReached
  <2>2. filtered_q \in Nat
    <3>1. Scale * AdcMax \in Nat
      BY <1>1
    <3> QED  BY <2>1, <3>1 DEF ExpressionTypeOK
  <2>3. median(samples') = settled
    <3>1. samples' \in Seq(Int) /\ Len(samples') <= Window /\ Len(samples') \in Nat
      <4>1. samples' \in Seq(1 .. AdcMax - 1) /\ Len(samples') <= Window
        BY DEF ExpressionTypeOK
      <4>2. 1 .. AdcMax - 1 \subseteq Int
        BY <1>1
      <4> QED  BY <4>1, <4>2, SeqMonotonic, LenProperties
    <3> DEFINE equal == {i \in DOMAIN samples' : samples'[i] = settled}
               k == Len(samples')
    <3>2. Cardinality(equal) \in Nat
      <4>1. DOMAIN samples' = 1 .. Len(samples') /\ 1 \in Int /\ Len(samples') \in Int
        BY <3>1, LenProperties
      <4>2. IsFiniteSet(DOMAIN samples')
        BY <4>1, FS_Interval
      <4> QED  BY <4>2, FS_Subset, FS_CardinalityType
    <3>3. 2 * Cardinality(equal) > Window
      BY <1>4 DEF Majority
    <3>4. k \in Nat /\ k <= Window
      BY <3>1
    <3> DEFINE c == Cardinality(equal)
    <3>5. c \in Nat /\ 2 * c > Window
      BY <3>2, <3>3
    <3> HIDE DEF c, k
    <3>6. 2 * c > k
      BY <1>1, <3>4, <3>5
    <3>7. settled \in Int
      BY <2>1
    <3> QED  BY <3>1, <3>6, <3>7, MedianOfMajority DEF c, k
  <2> DEFINE d == Off(filtered_q, settled)
  <2>4. /\ filtered_q' \in Nat /\ d \in Nat
        /\ Off(filtered_q', settled) = d - d \div Divisor
    <3>1. filtered_q' = Filter(filtered_q, Scale * settled)
      BY <2>3 DEF TakeSample
    <3> QED  BY <2>1, <2>2, <3>1, FilterApproaches
  <2>5. 2 * d < Scale
    BY <2>1
  <2> HIDE DEF d
  <2>6. d - d \div Divisor \in 0 .. d
    BY <2>4, StepShrinks
  <2> DEFINE left == d - d \div Divisor
  <2>7. 2 * left < Scale
    <3>1. left \in 0 .. d
      BY <2>6
    <3> HIDE DEF left
    <3> QED  BY <1>1, <2>4, <2>5, <3>1
  <2>8. filtered_q' # Nil
    BY <1>1, <2>4
  <2> QED  BY <1>4, <2>1, <2>4, <2>7, <2>8 DEF SettledIsReached, Off
<1>5. CASE settled' = Nil
  BY <1>5 DEF SettledIsReached
<1> QED  BY <1>2, <1>3, <1>4, <1>5

\* So what a sample shows while the pedal is at rest is the value of the reading itself.
LEMMA SampleShows ==
  ASSUME ExpressionTypeOK', SettledIsReached', Enabled,
         NEW adc \in 1 .. AdcMax - 1, NEW gap \in Gaps, TakeSample(adc, gap)
  PROVE  /\ calm' # Nil => settled' # Nil
         /\ settled' # Nil => view'.value = map_value(settled')
PROOF
<1>1. calm' # Nil => settled' # Nil
  BY DEF TakeSample, ObserveSample
<1>2. ASSUME settled' # Nil  PROVE view'.value = map_value(settled')
  <2>1. settled' \in Nat /\ filtered_q' # Nil /\ 2 * Off(filtered_q', settled') < Scale
    BY <1>2 DEF SettledIsReached, Off
  <2>2. filtered_q' \in Nat
    <3>1. Scale * AdcMax \in Nat
      BY ExpressionAssumption
    <3> QED  BY <2>1, <3>1 DEF ExpressionTypeOK
  <2>3. Rounded(filtered_q') = settled'
    BY <2>1, <2>2, RoundsToReading
  <2>4. view'.value = map_value(Rounded(filtered_q'))
    BY DEF TakeSample, map_value, Normalized
  <2> QED  BY <2>3, <2>4
<1> QED  BY <1>1, <1>2
LEMMA RestStarts ==
  ASSUME NEW remaining, Init
  PROVE  RestInvariant(remaining)
PROOF
<1>1. Window \in Nat \ {0} /\ SettleSamples \in Nat
  BY ExpressionAssumption
<1>2. ExpressionTypeOK
  BY InitType
<1>3. RestIsSeen
  BY <1>1 DEF Init, RestIsSeen
<1>4. FilterFollows(remaining)
  BY <1>1 DEF Init, FilterFollows
<1> QED  BY <1>2, <1>3, <1>4 DEF Init, RestInvariant, SettledIsReached, CalmIsShown

\* Every step keeps what rest, settled and calm say of the window, the filter and the view.
LEMMA RestStep ==
  ASSUME NEW remaining, Shrinks(remaining), RestInvariant(remaining), [Next]_vars
  PROVE  RestInvariant(remaining)'
PROOF
<1>1. /\ Window \in Nat \ {0} /\ SettleSamples \in Nat \ {0} /\ AdcMax \in Nat
      /\ Readings \subseteq 0 .. AdcMax
  BY ExpressionAssumption
<1>2. /\ ExpressionTypeOK /\ RestIsSeen /\ FilterFollows(remaining) /\ SettledIsReached /\ CalmIsShown
      /\ ExpressionTypeOK'
  BY TypeStep DEF RestInvariant
<1>3. ASSUME UNCHANGED <<samples, filtered_q, rest, settled>>
      PROVE  RestIsSeen' /\ FilterFollows(remaining)' /\ SettledIsReached'
  BY <1>2, <1>3 DEF RestIsSeen, FilterFollows, SettledIsReached, Off
<1>4. ASSUME UNCHANGED <<samples, filtered_q, rest, settled>>, calm' = Nil
      PROVE  RestInvariant(remaining)'
  BY <1>2, <1>3, <1>4 DEF RestInvariant, CalmIsShown
<1>5. ASSUME NEW adc \in Readings, NEW gap \in Gaps, Tick(adc, gap)
      PROVE  RestInvariant(remaining)'
  <2>1. UNCHANGED <<calibration, assignment>>
    BY <1>5 DEF Tick
  <2>2. CASE Skip(gap) /\ (UNCHANGED view \/ ~Enabled)
    <3>1. UNCHANGED <<samples, filtered_q, rest, settled, calm>>
      BY <2>2 DEF Skip, rest_vars
    <3>2. CalmIsShown'
      <4>1. CASE UNCHANGED view
        BY <1>2, <2>1, <3>1, <4>1 DEF CalmIsShown, Enabled, valid_calibration, map_value, Normalized
      <4>2. CASE ~Enabled
        BY <1>2, <3>1, <4>2 DEF CalmIsShown
      <4> QED  BY <2>2, <4>1, <4>2
    <3> QED  BY <1>2, <1>3, <3>1, <3>2 DEF RestInvariant
  <2>3. CASE Unavailable(gap)
    BY <1>4, <2>3 DEF Unavailable
  <2>4. CASE Enabled /\ ~Unplugged(adc) /\ TakeSample(adc, gap)
    <3>1. adc \in 1 .. AdcMax - 1 /\ TakeSample(adc, gap)
      BY <1>1, <2>4 DEF Unplugged
    <3>2. RestIsSeen' /\ samples'[Len(samples')] = adc
      BY <1>2, <3>1, SampleIsSeen
    <3>3. FilterFollows(remaining)'
      <4>1. rest' >= Window => /\ filtered_q' \in Nat
                               /\ Off(filtered_q', adc) <= remaining[rest' - Window]
        BY <1>2, <3>1, SampleIsFollowed
      <4>2. Nil \notin Int
        BY ExpressionAssumption
      <4> QED  BY <3>2, <4>1, <4>2 DEF FilterFollows, Off
    <3>4. SettledIsReached'
      BY <1>2, <3>1, SampleSettles
    <3>5. CalmIsShown'
      <4>1. /\ calm' # Nil => settled' # Nil
            /\ settled' # Nil => view'.value = map_value(settled')
        BY <1>2, <2>4, <3>1, <3>4, SampleShows
      <4> QED  BY <2>1, <2>4, <4>1 DEF CalmIsShown, Enabled, valid_calibration, map_value, Normalized
    <3> QED  BY <1>2, <3>2, <3>3, <3>4, <3>5 DEF RestInvariant
  <2> QED  BY <1>5, <2>2, <2>3, <2>4 DEF Tick
<1>6. ASSUME NEW a \in Assignments, set_assignment(a) PROVE RestInvariant(remaining)'
  BY <1>4, <1>6 DEF set_assignment
<1>7. ASSUME NEW c \in Calibrations, set_calibration(c) PROVE RestInvariant(remaining)'
  <2>1. rest' = 0 /\ settled' = Nil /\ calm' = Nil /\ samples' = <<>>
    BY <1>7 DEF set_calibration
  <2>2. RestIsSeen'
    BY <1>1, <2>1 DEF RestIsSeen
  <2>3. FilterFollows(remaining)'
    BY <1>1, <2>1 DEF FilterFollows
  <2> QED  BY <1>2, <2>1, <2>2, <2>3 DEF RestInvariant, SettledIsReached, CalmIsShown
<1>8. CASE UNCHANGED vars
  <2>1. CalmIsShown'
    BY <1>2, <1>8 DEF vars, processor_vars, rest_vars, CalmIsShown, Enabled, valid_calibration,
                      map_value, Normalized
  <2> QED  BY <1>2, <1>3, <1>8, <2>1 DEF vars, processor_vars, rest_vars, RestInvariant
<1> QED  BY <1>5, <1>6, <1>7, <1>8 DEF Next

\* A pedal at rest shows the value of its position, whatever was plugged, moved, assigned or
\* calibrated before and however many readings are off in the minority, provided SettleSamples
\* is long enough for the filter.
THEOREM RestAlwaysShown == FilterSettles => (Spec => []RestIsShown)
PROOF
<1> SUFFICES ASSUME FilterSettles PROVE Spec => []RestIsShown
  OBVIOUS
<1>1. PICK remaining \in [0 .. SettleSamples - Window -> Nat] : Shrinks(remaining)
  BY DEF FilterSettles
<1>2. Init => RestInvariant(remaining)
  BY RestStarts
<1>3. RestInvariant(remaining) /\ [Next]_vars => RestInvariant(remaining)'
  BY <1>1, RestStep
<1>4. RestInvariant(remaining) => RestIsShown
  BY DEF RestInvariant, CalmIsShown, RestIsShown
<1> QED  BY <1>2, <1>3, <1>4, PTL DEF Spec
\* What is left of the way with the numbers of core/expression.cpp, from the whole range of the
\* ADC to less than half a step.
CodeRemaining ==
  <<1048320, 838656, 670925, 536740, 429392, 343514, 274812, 219850, 175880,
    140704, 112564, 90052, 72042, 57634, 46108, 36887, 29510, 23608,
    18887, 15110, 12088, 9671, 7737, 6190, 4952, 3962, 3170,
    2536, 2029, 1624, 1300, 1040, 832, 666, 533, 427,
    342, 274, 220, 176, 141, 113>>

\* With the numbers of the code the filter settles within 46 samples.
LEMMA CodeSettles ==
  ASSUME AdcMax = 4095, Scale = 256, Divisor = 5, Window = 5, SettleSamples = 46
  PROVE  FilterSettles
PROOF
<1> DEFINE remaining == [n \in 0 .. 41 |-> CodeRemaining[n + 1]]
<1>1. \A k \in 1 .. 42 : CodeRemaining[k] \in Nat
  BY DEF CodeRemaining
<1>2. \A k \in 1 .. 41 : CodeRemaining[k + 1] >= CodeRemaining[k] - CodeRemaining[k] \div 5
  BY DEF CodeRemaining
<1>3. CodeRemaining[1] = 1048320 /\ CodeRemaining[42] = 113
  BY DEF CodeRemaining
<1>4. remaining \in [0 .. 41 -> Nat]
  BY <1>1
<1>5. remaining[0] = 1048320 /\ remaining[41] = 113
  BY <1>3
<1>6. \A n \in 0 .. 40 : remaining[n + 1] >= remaining[n] - remaining[n] \div 5
  BY <1>2
<1> HIDE DEF remaining
<1>7. SettleSamples - Window = 41 /\ 41 - 1 = 40
  OBVIOUS
<1>8. Shrinks(remaining)
  BY <1>4, <1>5, <1>6, <1>7 DEF Shrinks
<1> QED  BY <1>4, <1>7, <1>8 DEF FilterSettles
-----------------------------------------------------------------------------
(***************************************************************************)
(* What is sent. The schedule always waits a millisecond less than the     *)
(* time between two passes, so every pass that takes any time reads the    *)
(* pedal. While the value has not been sent, the clock of the limit has    *)
(* run for at least as long as the pedal has been at rest, and cannot have *)
(* wrapped unless a single pass takes half its range.                      *)
(***************************************************************************)
PassesAreShort ==
  /\ 0 < EmitMs /\ 2 * EmitMs <= ClockModulus
  /\ \A gap \in Gaps : 2 * gap <= ClockModulus

ToldIsEmitted == told = last_emitted

SchedulePending == sample_age \in {Nil, ClockModulus - 1}

CalmIsTimed ==
  calm # Nil =>
    /\ calm \in 0 .. EmitMs
    /\ \/ told = map_value(settled)
       \/ emit_age # Nil /\ calm <= emit_age /\ emit_age < EmitMs

SentInvariant == ToldIsEmitted /\ SchedulePending /\ CalmIsTimed

\* A pass that does not read the pedal takes no time.
LEMMA ScheduleStep ==
  ASSUME PassesAreShort, SchedulePending, NEW adc \in Readings, NEW gap \in Gaps, Tick(adc, gap)
  PROVE  /\ SchedulePending'
         /\ ~Due(Aged(sample_age, gap)) => gap = 0
PROOF
<1>1. /\ ClockModulus \in Nat /\ 1 < ClockModulus /\ gap \in Nat /\ 2 * gap <= ClockModulus
      /\ Nil \notin Int
  BY ExpressionAssumption DEF PassesAreShort
<1>2. CASE sample_age = Nil
  <2>1. Due(Aged(sample_age, gap))
    BY <1>2 DEF Due, Aged
  <2> QED  BY <2>1 DEF SchedulePending, Tick
<1>3. CASE sample_age = ClockModulus - 1
  <2>1. Aged(sample_age, gap) = (ClockModulus - 1 + gap) % ClockModulus
    BY <1>1, <1>3 DEF Aged
  <2>2. CASE gap = 0
    <3>1. (ClockModulus - 1 + gap) % ClockModulus = ClockModulus - 1
      BY <1>1, <2>2
    <3>2. Aged(sample_age, gap) = ClockModulus - 1
      BY <2>1, <3>1
    <3> QED  BY <2>2, <3>2 DEF SchedulePending, Tick
  <2>3. CASE gap # 0
    <3>1. (ClockModulus - 1 + gap) % ClockModulus = gap - 1 /\ 2 * (gap - 1) < ClockModulus
      <4>1. gap - 1 \in 0 .. ClockModulus - 1
        BY <1>1, <2>3
      <4>2. ClockModulus - 1 + gap = ClockModulus * 1 + (gap - 1)
        BY <1>1
      <4> QED  BY <1>1, <4>1, <4>2
    <3>2. Due(Aged(sample_age, gap))
      BY <2>1, <3>1 DEF Due
    <3> QED  BY <3>2 DEF SchedulePending, Tick
  <2> QED  BY <2>2, <2>3
<1> QED  BY <1>2, <1>3 DEF SchedulePending

\* A sample sends what it shows, unless that has been sent or the limit still runs.
LEMMA SampleIsTimed ==
  ASSUME PassesAreShort, ExpressionTypeOK, ExpressionTypeOK', CalmIsShown, CalmIsShown',
         ToldIsEmitted, CalmIsTimed, UNCHANGED <<calibration, assignment>>, Enabled,
         NEW adc \in Readings, ~Unplugged(adc), NEW gap \in Gaps, TakeSample(adc, gap)
  PROVE  ToldIsEmitted' /\ CalmIsTimed'
PROOF
<1> DEFINE age == Aged(emit_age, gap)
           shown == view'.value
<1>1. /\ EmitMs \in Nat /\ 0 < EmitMs /\ ClockModulus \in Nat /\ 2 * EmitMs <= ClockModulus
      /\ gap \in Nat /\ 2 * gap <= ClockModulus /\ Nil \notin Int
  BY ExpressionAssumption DEF PassesAreShort
<1>2. emit_age \in 0 .. ClockModulus - 1 \cup {Nil}
  BY DEF ExpressionTypeOK
<1>3. Emit(shown, age) /\ told' = IF message' = Nil THEN told ELSE message'
  BY DEF TakeSample
<1>4. shown # Nil
  <2>1. shown \in assignment.minimum .. assignment.maximum
    BY SampleType DEF InRange
  <2>2. assignment.minimum \in Nat /\ assignment.maximum \in Nat
    <3>1. assignment \in Assignments
      BY DEF ExpressionTypeOK
    <3> QED  BY <3>1, ExpressionAssumption
  <2> QED  BY <1>1, <2>1, <2>2
<1>5. ToldIsEmitted'
  BY <1>3, <1>4 DEF Emit, ToldIsEmitted
<1>6. \/ told' = shown
      \/ age = Nil /\ emit_age' = 0 /\ told' = told
      \/ age # Nil /\ emit_age' = age /\ ~elapsed(age) /\ told' = told
  BY <1>3, <1>4 DEF Emit, ToldIsEmitted
<1>7. age = Nil <=> emit_age = Nil
  BY <1>1, <1>2 DEF Aged
<1>8. age # Nil => age \in Nat
  BY <1>1, <1>2 DEF Aged
<1> HIDE DEF age, shown
<1>9. ASSUME calm' # Nil  PROVE CalmIsTimed'
  <2>1. shown = map_value(settled')
    BY <1>9 DEF CalmIsShown, shown, map_value, Normalized
  <2>2. settled' # Nil
    BY <1>9 DEF CalmIsShown
  <2>3. calm' = IF calm = Nil \/ settled' # settled THEN 0 ELSE LesserOf(calm + gap, EmitMs)
    BY <2>2 DEF TakeSample, ObserveSample
  <2>4. calm # Nil => calm \in 0 .. EmitMs
    BY DEF CalmIsTimed
  <2>5. calm' \in 0 .. EmitMs
    BY <1>1, <2>3, <2>4 DEF LesserOf
  <2>6. CASE told' = shown
    BY <2>1, <2>5, <2>6 DEF CalmIsTimed, map_value, Normalized
  <2>7. CASE calm' = 0 /\ told' # shown
    <3>1. emit_age' # Nil /\ 0 <= emit_age' /\ emit_age' < EmitMs
      BY <1>1, <1>6, <1>8, <2>7 DEF elapsed
    <3> QED  BY <2>5, <2>7, <3>1 DEF CalmIsTimed
  <2>8. CASE calm # Nil /\ settled' = settled /\ told' # shown
    <3>1. told = shown \/ (emit_age # Nil /\ calm <= emit_age /\ emit_age < EmitMs)
      <4>1. map_value(settled) = shown
        BY <2>1, <2>8 DEF map_value, Normalized
      <4> QED  BY <2>8, <4>1 DEF CalmIsTimed
    <3>2. told' = told
      BY <1>6, <2>8
    <3>3. emit_age # Nil /\ calm <= emit_age /\ emit_age < EmitMs
      BY <2>8, <3>1, <3>2
    <3>4. age = emit_age + gap
      <4>1. emit_age \in Nat /\ emit_age + gap < ClockModulus
        BY <1>1, <1>2, <3>3
      <4>2. (emit_age + gap) % ClockModulus = emit_age + gap
        BY <1>1, <4>1
      <4> QED  BY <3>3, <4>2 DEF Aged, age
    <3>5. emit_age' = emit_age + gap /\ ~(emit_age + gap >= EmitMs)
      <4>1. emit_age' = age /\ ~elapsed(age)
        BY <1>6, <1>7, <2>8, <3>3
      <4> QED  BY <3>4, <4>1 DEF elapsed
    <3>6. emit_age \in Nat /\ calm \in Nat
      <4>1. emit_age \in Nat
        BY <1>2, <3>3
      <4>2. calm \in Nat
        BY <2>4, <2>8
      <4> QED  BY <4>1, <4>2
    <3>7. calm' = calm + gap \/ (calm' = EmitMs /\ EmitMs <= calm + gap)
      BY <1>1, <2>3, <2>8, <3>6 DEF LesserOf
    <3>8. emit_age + gap \in Nat /\ emit_age + gap < EmitMs /\ calm' <= emit_age + gap
      BY <1>1, <3>3, <3>5, <3>6, <3>7
    <3>9. emit_age' # Nil /\ calm' <= emit_age' /\ emit_age' < EmitMs
      <4> DEFINE later == emit_age + gap
      <4>1. emit_age' = later /\ later \in Nat /\ later < EmitMs /\ calm' <= later
        BY <3>5, <3>8
      <4> HIDE DEF later
      <4>2. later # Nil
        BY <1>1, <4>1
      <4> QED  BY <4>1, <4>2
    <3> QED  BY <2>5, <3>9 DEF CalmIsTimed
  <2> QED  BY <2>3, <2>6, <2>7, <2>8
<1>10. CASE calm' = Nil
  BY <1>5, <1>10 DEF CalmIsTimed
<1> QED  BY <1>5, <1>9, <1>10
\* Every step keeps what is sent in step with the rest.
LEMMA SentStep ==
  ASSUME NEW remaining, PassesAreShort, RestInvariant(remaining), RestInvariant(remaining)',
         SentInvariant, [Next]_vars
  PROVE  SentInvariant'
PROOF
<1>1. /\ ExpressionTypeOK /\ ExpressionTypeOK' /\ CalmIsShown /\ CalmIsShown'
      /\ ToldIsEmitted /\ SchedulePending /\ CalmIsTimed
  BY DEF RestInvariant, SentInvariant
<1>2. ClockModulus \in Nat /\ 1 < ClockModulus /\ Nil \notin Int
  BY ExpressionAssumption
<1>3. ASSUME NEW adc \in Readings, NEW gap \in Gaps, Tick(adc, gap)
      PROVE  SentInvariant'
  <2>1. UNCHANGED <<calibration, assignment>>
    BY <1>3 DEF Tick
  <2>2. SchedulePending' /\ (~Due(Aged(sample_age, gap)) => gap = 0)
    BY <1>1, <1>3, ScheduleStep
  <2>3. CASE Skip(gap) /\ (gap = 0 \/ ~Enabled)
    <3>1. /\ UNCHANGED <<last_emitted, told, calm, settled>>
          /\ emit_age' = Aged(emit_age, gap)
      BY <2>3 DEF Skip, rest_vars
    <3>2. CASE gap = 0
      <4>1. emit_age' = emit_age
        <5>1. emit_age \in 0 .. ClockModulus - 1 \cup {Nil}
          BY <1>1 DEF ExpressionTypeOK
        <5>2. CASE emit_age = Nil
          BY <3>1, <5>2 DEF Aged
        <5>3. CASE emit_age \in 0 .. ClockModulus - 1
          <6>1. (emit_age + 0) % ClockModulus = emit_age
            BY <1>2, <5>3
          <6> QED  BY <1>2, <3>1, <3>2, <5>3, <6>1 DEF Aged
        <5> QED  BY <5>1, <5>2, <5>3
      <4> QED  BY <1>1, <2>1, <2>2, <3>1, <4>1 DEF SentInvariant, ToldIsEmitted, CalmIsTimed,
                                                map_value, Normalized
    <3>3. CASE ~Enabled
      <4>1. calm = Nil
        BY <1>1, <3>3 DEF CalmIsShown
      <4> QED  BY <1>1, <2>2, <3>1, <4>1 DEF SentInvariant, ToldIsEmitted, CalmIsTimed
    <3> QED  BY <2>3, <3>2, <3>3
  <2>4. CASE Unavailable(gap)
    BY <2>2, <2>4 DEF Unavailable, SentInvariant, ToldIsEmitted, CalmIsTimed
  <2>5. CASE Enabled /\ ~Unplugged(adc) /\ TakeSample(adc, gap)
    <3>1. ToldIsEmitted' /\ CalmIsTimed'
      BY <1>1, <2>1, <2>5, SampleIsTimed
    <3> QED  BY <2>2, <3>1 DEF SentInvariant
  <2> QED  BY <1>3, <2>2, <2>3, <2>4, <2>5 DEF Tick
<1>4. ASSUME NEW a \in Assignments, set_assignment(a) PROVE SentInvariant'
  BY <1>1, <1>4 DEF set_assignment, clock_vars, SentInvariant, ToldIsEmitted, SchedulePending,
                    CalmIsTimed
<1>5. ASSUME NEW c \in Calibrations, set_calibration(c) PROVE SentInvariant'
  BY <1>1, <1>5 DEF set_calibration, clock_vars, SentInvariant, ToldIsEmitted, SchedulePending,
                    CalmIsTimed
<1>6. CASE UNCHANGED vars
  BY <1>1, <1>6 DEF vars, processor_vars, clock_vars, rest_vars, SentInvariant, ToldIsEmitted,
                    SchedulePending, CalmIsTimed, map_value, Normalized
<1> QED  BY <1>3, <1>4, <1>5, <1>6 DEF Next

\* The value of a pedal that has been at rest, plugged in and under the same assignment for
\* EmitMs has been sent: the limit delays it and never drops it, also when the clock wraps.
THEOREM RestAlwaysSent == FilterSettles /\ PassesAreShort => (Spec => []RestIsSent)
PROOF
<1> SUFFICES ASSUME FilterSettles, PassesAreShort PROVE Spec => []RestIsSent
  OBVIOUS
<1>1. PICK remaining \in [0 .. SettleSamples - Window -> Nat] : Shrinks(remaining)
  BY DEF FilterSettles
<1>2. Init => RestInvariant(remaining) /\ SentInvariant
  BY RestStarts DEF Init, SentInvariant, ToldIsEmitted, SchedulePending, CalmIsTimed
<1>3. RestInvariant(remaining) /\ SentInvariant /\ [Next]_vars
        => RestInvariant(remaining)' /\ SentInvariant'
  BY <1>1, RestStep, SentStep
<1>4. RestInvariant(remaining) /\ SentInvariant => RestIsSent
  <2>1. EmitMs \in Nat /\ ClockModulus \in Nat /\ Nil \notin Int
    BY ExpressionAssumption
  <2> SUFFICES ASSUME RestInvariant(remaining), SentInvariant, calm = EmitMs, told # map_value(settled) PROVE FALSE
    BY DEF RestIsSent
  <2>2. calm # Nil
    BY <2>1
  <2>3. emit_age # Nil /\ calm <= emit_age /\ emit_age < EmitMs
    BY <2>2 DEF SentInvariant, CalmIsTimed
  <2>4. emit_age \in 0 .. ClockModulus - 1
    BY <2>3 DEF RestInvariant, ExpressionTypeOK
  <2> QED  BY <2>1, <2>3, <2>4
<1> QED  BY <1>2, <1>3, <1>4, PTL DEF Spec
=============================================================================
