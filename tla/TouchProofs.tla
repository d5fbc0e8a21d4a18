----------------------------- MODULE TouchProofs -----------------------------
(***************************************************************************)
(* What holds of the touch screen driver for every set of points.          *)
(***************************************************************************)
EXTENDS Touch, SequenceTheorems, TLAPS

(* The filter *)

Samples == [1..4 -> Points]

LEMMA PointsAreCoords ==
  ASSUME NEW p \in Points, NEW i \in 1..2 PROVE p[i] \in Coord
BY PointsAssumption DEF Coord

LEMMA Quarter ==
  ASSUME NEW a \in Coord, NEW b \in Coord, NEW c \in Coord, NEW d \in Coord
  PROVE  (a + b + c + d) \div 4 \in Coord
BY DEF Coord

LEMMA RestingCoord ==
  ASSUME NEW a \in Coord PROVE CloseTo(a, a, a) /\ (a + a + a + a) \div 4 = a
BY DEF CloseTo, Distance, ERR_LIMIT, Coord

\* Measurements of a pen that rests are all passed on, at the pen's position.
THEOREM RestPassesTheFilter ==
  ASSUME NEW s \in Samples, NEW p \in Points, \A k \in 1..4 : s[k] = p
  PROVE  s3c_filter_ts(s) /\ \A i \in 1..2 : Average(s)[i] = p[i]
<1>1. \A i \in 1..2 : p[i] \in Coord
  BY PointsAreCoords
<1>2. \A i \in 1..2 : CloseTo(p[i], p[i], p[i]) /\ (p[i] + p[i] + p[i] + p[i]) \div 4 = p[i]
  BY <1>1, RestingCoord
<1> QED
  BY <1>2 DEF s3c_filter_ts, Average

\* A position that is reported lies within ERR_LIMIT of the box spanned by the
\* first two of its four measurements, however far off the other two were.
THEOREM FilterBoundsTheError ==
  ASSUME NEW s \in Samples, s3c_filter_ts(s), NEW i \in 1..2
  PROVE  \E lo, hi \in {s[1][i], s[2][i]} :
           lo - ERR_LIMIT <= Average(s)[i] /\ Average(s)[i] <= hi + ERR_LIMIT
<1> DEFINE a == s[1][i]  b == s[2][i]  c == s[3][i]  d == s[4][i]
<1>1. a \in Coord /\ b \in Coord /\ c \in Coord /\ d \in Coord
  BY PointsAreCoords DEF Samples
<1>2. CloseTo(c, a, b) /\ CloseTo(d, b, c)
  BY DEF s3c_filter_ts
<1>3. Average(s)[i] = (a + b + c + d) \div 4
  BY DEF Average
<1> HIDE DEF a, b, c, d
<1>4. CASE a <= b
  <2>1. a - ERR_LIMIT <= (a + b + c + d) \div 4 /\ (a + b + c + d) \div 4 <= b + ERR_LIMIT
    BY <1>1, <1>2, <1>4 DEF CloseTo, Distance, ERR_LIMIT, Coord
  <2> QED
    BY <2>1, <1>3 DEF a, b
<1>5. CASE b < a
  <2>1. b - ERR_LIMIT <= (a + b + c + d) \div 4 /\ (a + b + c + d) \div 4 <= a + ERR_LIMIT
    BY <1>1, <1>2, <1>5 DEF CloseTo, Distance, ERR_LIMIT, Coord
  <2> QED
    BY <2>1, <1>3 DEF a, b
<1> QED
  BY <1>1, <1>4, <1>5 DEF Coord

LEMMA AverageIsCoord ==
  ASSUME NEW s \in Samples PROVE Average(s) \in Coord \X Coord
<1>1. \A i \in 1..2 : s[1][i] \in Coord /\ s[2][i] \in Coord /\ s[3][i] \in Coord /\ s[4][i] \in Coord
  BY PointsAreCoords DEF Samples
<1>2. \A i \in 1..2 : (s[1][i] + s[2][i] + s[3][i] + s[4][i]) \div 4 \in Coord
  BY <1>1, Quarter
<1> QED
  BY <1>2 DEF Average

-----------------------------------------------------------------------------
(* The three handlers *)

\* A touch reported between the timer's last two steps has started the timer again.
TimerComesBack == at = "wait" /\ touch => st_ts_timer

IInv == TypeOK /\ MeasuringGoesOn /\ TouchIsWatched /\ TimerComesBack

LEMMA Initially == Init => IInv
<1> SUFFICES ASSUME Init PROVE IInv
  OBVIOUS
<1>1. samples \in Seq(Points) /\ Len(samples) < 4
  BY DEF Init
<1>2. reported \in Coord \X Coord
  BY DEF Init, Coord
<1> QED
  BY <1>1, <1>2 DEF Init, IInv, TypeOK, MeasuringGoesOn, TouchIsWatched, TimerComesBack

LEMMA AdcKeeps == IInv /\ adc_irq => IInv'
<1> SUFFICES ASSUME IInv, adc_irq PROVE IInv'
  OBVIOUS
<1> USE DEF IInv, MeasuringGoesOn, TouchIsWatched, TimerComesBack, adc_irq, panel
<1>1. CASE PenIsUp
  <2>1. samples' \in Seq(Points) /\ Len(samples') < 4
    BY <1>1 DEF PenIsUp
  <2> QED
    BY <1>1, <2>1 DEF PenIsUp, report_up, TypeOK
<1>2. CASE PenIsDown
  <2>1. PICK p \in Measured : LET s == Append(samples, p)
                              IN  IF Len(s) = 4 THEN LastSample(s) ELSE NextSample(s)
    BY <1>2 DEF PenIsDown
  <2> DEFINE s == Append(samples, p)
  <2>2. p \in Points
    BY DEF Measured, TypeOK
  <2>3. s \in Seq(Points) /\ Len(s) <= 4
    BY <2>2 DEF TypeOK
  <2> HIDE DEF s
  <2>4. Len(s) \in Nat /\ s \in [1..Len(s) -> Points]
    BY <2>3, LenProperties
  <2>5. CASE Len(s) = 4 /\ LastSample(s)
    <3>1. s \in Samples
      BY <2>4, <2>5 DEF Samples
    <3>2. Average(s) \in Coord \X Coord
      BY <3>1, AverageIsCoord
    <3>3. reported' \in Coord \X Coord /\ touch' \in BOOLEAN
      BY <2>5, <3>2 DEF LastSample, input, TypeOK
    <3>4. samples' \in Seq(Points) /\ Len(samples') < 4
      BY <2>5 DEF LastSample
    <3> QED
      BY <2>5, <3>3, <3>4 DEF LastSample, TypeOK
  <2>6. CASE Len(s) # 4 /\ NextSample(s)
    <3>1. samples' = s
      BY <2>6 DEF NextSample
    <3>2. samples' \in Seq(Points) /\ Len(samples') < 4
      BY <2>3, <2>4, <2>6, <3>1
    <3> QED
      BY <2>6, <3>2 DEF NextSample, measure, input, TypeOK
  <2> QED
    BY <2>1, <2>5, <2>6 DEF s
<1> QED
  BY <1>1, <1>2

LEMMA TimerKeeps == IInv /\ s3c_ts_timer_function => IInv'
<1> SUFFICES ASSUME IInv, s3c_ts_timer_function PROVE IInv'
  OBVIOUS
<1> USE DEF IInv, TypeOK, MeasuringGoesOn, TouchIsWatched, TimerComesBack, panel, control, input
<1>1. CASE Timer
  BY <1>1 DEF Timer
<1>2. CASE TimerUp
  BY <1>2 DEF TimerUp, report_up
<1>3. CASE TimerWait
  BY <1>3 DEF TimerWait
<1>4. CASE TimerXY
  BY <1>4 DEF TimerXY
<1>5. CASE TimerStart
  BY <1>5 DEF TimerStart
<1> QED
  BY <1>1, <1>2, <1>3, <1>4, <1>5 DEF s3c_ts_timer_function

LEMMA Inductive == IInv /\ [Next]_vars => IInv'
<1> SUFFICES ASSUME IInv, [Next]_vars PROVE IInv'
  OBVIOUS
<1> USE DEF IInv, TypeOK, MeasuringGoesOn, TouchIsWatched, TimerComesBack, panel, control, input
<1>1. CASE s3c_ts_init
  BY <1>1 DEF s3c_ts_init
<1>2. CASE pen_down_up_irq
  BY <1>2 DEF pen_down_up_irq, measure, report_up
<1>3. CASE adc_irq
  BY <1>3, AdcKeeps
<1>4. CASE s3c_ts_timer_function
  BY <1>4, TimerKeeps
<1>5. CASE Detect
  BY <1>5 DEF Detect
<1>6. CASE Pen
  BY <1>6, ZenonT(30) DEF Pen
<1>7. CASE UNCHANGED vars
  BY <1>7 DEF vars
<1> QED
  BY <1>1, <1>2, <1>3, <1>4, <1>5, <1>6, <1>7 DEF Next

\* The invariant, which adds to the properties what the timer knows of a touch that
\* the ADC interrupt reports while it is at work.
THEOREM Invariance == Spec => []IInv
BY Initially, Inductive, PTL DEF Spec

\* Fewer than four samples are kept, and only coordinates are reported (146-163).
THEOREM TypeCorrect == Spec => []TypeOK
<1>1. IInv => TypeOK
  BY DEF IInv
<1> QED
  BY <1>1, Invariance, PTL

\* The driver is never deaf: while it measures, an ADC interrupt is to come.
THEOREM NeverDeaf == Spec => []MeasuringGoesOn
<1>1. IInv => MeasuringGoesOn
  BY DEF IInv
<1> QED
  BY <1>1, Invariance, PTL

\* A touch that was reported is looked at again, without a pen interrupt.
THEOREM TouchWatched == Spec => []TouchIsWatched
<1>1. IInv => TouchIsWatched
  BY DEF IInv
<1> QED
  BY <1>1, Invariance, PTL
=============================================================================
