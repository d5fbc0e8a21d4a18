-------------------------------- MODULE Touch --------------------------------
(***************************************************************************)
(* 11th-ts/touch.c: the pen interrupt, the ADC interrupt and a timer share *)
(* one touch screen controller, which either waits for the pen to come     *)
(* down or go up, or measures a position.  Four measurements in a row that *)
(* pass a filter are reported; 10 ms later the timer looks at the pen      *)
(* again.  The interrupt handlers are not interrupted; the timer is, by    *)
(* both of them.                                                           *)
(***************************************************************************)
EXTENDS Integers, Sequences

CONSTANT Points    \* positions on the panel

ASSUME PointsAssumption == Points \subseteq (0..1023) \X (0..1023) /\ Points # {}

VARIABLES
  pen, pos,        \* is the pen down, and where
  adctsc,          \* the controller's mode: "reset", "pen_down", "pen_up", "xy"
  adc, tc,         \* is a conversion running, is the pen interrupt pending
  samples,         \* x[0..cnt-1] and y[0..cnt-1]
  st_ts_timer,     \* is the timer pending
  at,              \* where the timer function is: "idle", "up", "wait", "xy", "start"
  loaded,          \* has s3c_ts_init() finished
  touch, reported  \* what the input core was told: BTN_TOUCH, and ABS_X and ABS_Y

panel   == <<pen, pos>>
control == <<adctsc, adc, tc>>
input   == <<touch, reported>>
vars    == <<panel, control, samples, st_ts_timer, at, loaded, input>>

Coord == 0..1023

TypeOK ==
  /\ pen \in BOOLEAN /\ pos \in Points
  /\ adctsc \in {"reset", "pen_down", "pen_up", "xy"} /\ adc \in BOOLEAN /\ tc \in BOOLEAN
  /\ samples \in Seq(Points) /\ Len(samples) < 4
  /\ st_ts_timer \in BOOLEAN /\ at \in {"idle", "up", "wait", "xy", "start"} /\ loaded \in BOOLEAN
  /\ touch \in BOOLEAN /\ reported \in Coord \X Coord

\* up to add_timer(), whose timer expires at once
Init ==
  /\ pen \in BOOLEAN /\ pos \in Points
  /\ adctsc = "reset" /\ adc = FALSE /\ tc = FALSE
  /\ samples = <<>>
  /\ st_ts_timer = TRUE /\ at = "idle" /\ loaded = FALSE
  /\ touch = FALSE /\ reported = <<0, 0>>

s3c_ts_init ==
  /\ ~loaded /\ loaded' = TRUE
  /\ adctsc' = "pen_down"
  /\ UNCHANGED <<panel, adc, tc, samples, st_ts_timer, at, input>>

-----------------------------------------------------------------------------
(* The filter and the average *)

ERR_LIMIT == 10

Distance(a, b) == IF a > b THEN a - b ELSE b - a

\* c is close to the middle of a and b
CloseTo(c, a, b) == Distance(c, (a + b) \div 2) <= ERR_LIMIT

s3c_filter_ts(s) ==
  \A i \in 1..2 : CloseTo(s[3][i], s[1][i], s[2][i]) /\ CloseTo(s[4][i], s[2][i], s[3][i])

Average(s) == [i \in 1..2 |-> (s[1][i] + s[2][i] + s[3][i] + s[4][i]) \div 4]

-----------------------------------------------------------------------------
(* The handlers *)

report_up == touch' = FALSE /\ UNCHANGED reported
measure   == adctsc' = "xy" /\ adc' = TRUE

pen_down_up_irq ==
  /\ tc /\ tc' = FALSE
  /\ IF pen THEN measure /\ UNCHANGED input
            ELSE report_up /\ adctsc' = "pen_down" /\ UNCHANGED adc
  /\ UNCHANGED <<panel, samples, st_ts_timer, at, loaded>>

\* In measuring mode the conversion gives the pen's position, else anything.
Measured == IF adctsc = "xy" THEN {pos} ELSE Points

PenIsUp ==
  /\ ~pen
  /\ samples' = <<>>
  /\ report_up
  /\ adctsc' = "pen_down" /\ adc' = FALSE
  /\ UNCHANGED st_ts_timer

\* fault: no timer, and the pen is waited for to come down
LastSampleDown(s) ==
  /\ samples' = <<>>
  /\ IF s3c_filter_ts(s) THEN touch' = TRUE /\ reported' = Average(s) ELSE UNCHANGED input
  /\ adctsc' = "pen_down" /\ adc' = FALSE
  /\ UNCHANGED st_ts_timer

\* fault: the timer is only started for samples that pass
LastSampleLazy(s) ==
  /\ samples' = <<>>
  /\ IF s3c_filter_ts(s) THEN touch' = TRUE /\ reported' = Average(s) /\ st_ts_timer' = TRUE
                         ELSE UNCHANGED <<input, st_ts_timer>>
  /\ adctsc' = "pen_up" /\ adc' = FALSE

LastSample(s) ==
  /\ samples' = <<>>
  /\ IF s3c_filter_ts(s) THEN touch' = TRUE /\ reported' = Average(s) ELSE UNCHANGED input
  /\ adctsc' = "pen_up" /\ adc' = FALSE
  /\ st_ts_timer' = TRUE

\* fault: the mode is set, but no conversion is started
NextSampleIdle(s) ==
  samples' = s /\ adctsc' = "xy" /\ adc' = FALSE /\ UNCHANGED <<st_ts_timer, input>>

NextSample(s) == samples' = s /\ measure /\ UNCHANGED <<st_ts_timer, input>>

\* fault: one sample too many
PenIsDownLong ==
  pen /\ \E p \in Measured : LET s == Append(samples, p) IN IF Len(s) > 4 THEN LastSample(s) ELSE NextSample(s)

PenIsDown ==
  /\ pen
  /\ \E p \in Measured :
       LET s == Append(samples, p) IN IF Len(s) = 4 THEN LastSample(s) ELSE NextSample(s)

adc_irq == adc /\ (PenIsUp \/ PenIsDown) /\ UNCHANGED <<panel, tc, at, loaded>>

-----------------------------------------------------------------------------
(* s3c_ts_timer_function(), one access to the controller at a time *)

Timer ==
  /\ st_ts_timer /\ st_ts_timer' = FALSE
  /\ at = "idle" /\ at' = IF pen THEN "xy" ELSE "up"
  /\ UNCHANGED <<panel, control, samples, loaded, input>>

TimerUp ==
  /\ at = "up" /\ at' = "wait"
  /\ report_up
  /\ UNCHANGED <<panel, control, samples, st_ts_timer, loaded>>

TimerWait ==
  /\ at = "wait" /\ at' = "idle"
  /\ adctsc' = "pen_down"
  /\ UNCHANGED <<panel, adc, tc, samples, st_ts_timer, loaded, input>>

TimerXY ==
  /\ at = "xy" /\ at' = "start"
  /\ adctsc' = "xy"
  /\ UNCHANGED <<panel, adc, tc, samples, st_ts_timer, loaded, input>>

TimerStart ==
  /\ at = "start" /\ at' = "idle"
  /\ adc' = TRUE
  /\ UNCHANGED <<panel, adctsc, tc, samples, st_ts_timer, loaded, input>>

s3c_ts_timer_function == Timer \/ TimerUp \/ TimerWait \/ TimerXY \/ TimerStart

-----------------------------------------------------------------------------
(* The pen and the controller *)

Pen ==
  /\ \/ pen' = ~pen /\ pos' \in Points
     \/ pen /\ pos' \in Points \ {pos} /\ UNCHANGED pen
  /\ UNCHANGED <<control, samples, st_ts_timer, at, loaded, input>>

\* the state that is waited for raises the pen interrupt
Detect ==
  /\ (adctsc = "pen_down" /\ pen) \/ (adctsc = "pen_up" /\ ~pen)
  /\ ~tc /\ tc' = TRUE
  /\ UNCHANGED <<panel, adctsc, adc, samples, st_ts_timer, at, loaded, input>>

Next == s3c_ts_init \/ pen_down_up_irq \/ adc_irq \/ s3c_ts_timer_function \/ Detect \/ Pen

Fairness ==
  /\ WF_vars(s3c_ts_init) /\ WF_vars(Detect)
  /\ WF_vars(pen_down_up_irq) /\ WF_vars(adc_irq) /\ WF_vars(s3c_ts_timer_function)

Spec == Init /\ [][Next]_vars /\ Fairness

-----------------------------------------------------------------------------
\* The driver is never deaf: whenever it measures, a conversion is running or the
\* timer is about to start one, whatever order its three handlers come in
\* (79-85, 139, 169-171, 186-191).
MeasuringGoesOn == adctsc = "xy" => adc \/ at = "start"

\* While a touch is reported, something will look at the pen again without waiting
\* for an edge that may already be gone: a conversion, the timer, or its function
\* (164-166, 190-191).
TouchIsWatched == touch => adc \/ st_ts_timer \/ at # "idle"

\* A pen that stays up ends with no touch reported (74-78, 135-139, 183-186).
UpIsReported == <>[]~pen => <>[]~touch

\* No conversion ends just between the timer's two accesses, from some time on.
TimerIsQuick == <>[][~(at = "start" /\ adc_irq)]_vars

\* A pen that rests on a point ends with this point reported, and stays so: the
\* timer goes on measuring, and samples left from before do no lasting harm
\* (145-166, 190-191).
RestIsReported ==
  TimerIsQuick => \A p \in Points : <>[](pen /\ pos = p) => <>[](touch /\ reported = p)
=============================================================================
