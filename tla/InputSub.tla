------------------------------- MODULE InputSub -------------------------------
(***************************************************************************)
(* 8th-input_sub_sys/input_sub.c: the buttons as keys of an input device.  *)
(* As in ButtonsAll the interrupt of any button remembers it in one global *)
(* and starts a 10 ms timer, which reports the level of that button only.  *)
(***************************************************************************)
EXTENDS InputCore, Integers

CONSTANT Pins   \* the entries of pin_desc that are pressed

ASSUME PinsAssumption == Pins \subseteq 1..6

VARIABLES
  pinval, edge,             \* is the pin high (button up), and an edge not yet taken
  irq_pd, buttons_timer,    \* the last interrupt's button, 0 for none, and is the timer pending
  buttons_dev,              \* the input device
  last, overlap             \* history: per code its button that moved last, 0 for none;
                            \* did one move while another's report was outstanding?

subvars == <<pinval, edge, irq_pd, buttons_timer, buttons_dev, last, overlap>>

pin_desc == <<"KEY_L", "KEY_S", "KEY_ENTER", "KEY_LEFTSHIFT", "KEY_P", "KEY_S">>

Codes == {pin_desc[k] : k \in Pins}

SubTypeOK ==
  /\ pinval \in [Pins -> BOOLEAN] /\ edge \in [Pins -> BOOLEAN]
  /\ irq_pd \in Pins \cup {0} /\ buttons_timer \in BOOLEAN
  /\ buttons_dev \in InputDevs(Codes)
  /\ last \in [Codes -> Pins \cup {0}] /\ overlap \in BOOLEAN

\* add_timer with expires 0: the timer expires at once and finds no button
SubInit ==
  /\ pinval = [k \in Pins |-> TRUE] /\ edge = [k \in Pins |-> FALSE]
  /\ irq_pd = 0 /\ buttons_timer = TRUE /\ buttons_dev = NewDev
  /\ last = [c \in Codes |-> 0] /\ overlap = FALSE

\* fault: the entry of the line before is remembered
buttons_irq_before(k) ==
  /\ edge[k] /\ edge' = [edge EXCEPT ![k] = FALSE]
  /\ irq_pd' = k - 1
  /\ buttons_timer' = TRUE
  /\ UNCHANGED <<pinval, buttons_dev, last, overlap>>

\* fault: the timer is not started again for the button reported last
buttons_irq_once(k) ==
  /\ edge[k] /\ edge' = [edge EXCEPT ![k] = FALSE]
  /\ irq_pd' = k
  /\ buttons_timer' = (buttons_timer \/ irq_pd # k)
  /\ UNCHANGED <<pinval, buttons_dev, last, overlap>>

buttons_irq(k) ==
  /\ edge[k] /\ edge' = [edge EXCEPT ![k] = FALSE]
  /\ irq_pd' = k
  /\ buttons_timer' = TRUE
  /\ UNCHANGED <<pinval, buttons_dev, last, overlap>>

\* fault: only presses are reported
timerout_presses ==
  /\ buttons_timer /\ buttons_timer' = FALSE
  /\ buttons_dev' = IF irq_pd = 0 \/ pinval[irq_pd] THEN buttons_dev
                    ELSE input_event(buttons_dev, pin_desc[irq_pd], TRUE)
  /\ UNCHANGED <<pinval, edge, irq_pd, last, overlap>>

buttons_timerout_function ==
  /\ buttons_timer /\ buttons_timer' = FALSE
  /\ buttons_dev' = IF irq_pd = 0 THEN buttons_dev
                    ELSE input_event(buttons_dev, pin_desc[irq_pd], ~pinval[irq_pd])
  /\ UNCHANGED <<pinval, edge, irq_pd, last, overlap>>

\* a button is pressed, released, or bounces
Move(k) ==
  /\ pinval' = [pinval EXCEPT ![k] = ~@]
  /\ edge' = [edge EXCEPT ![k] = TRUE]
  /\ last' = [last EXCEPT ![pin_desc[k]] = k]
  /\ overlap' = (overlap \/ (buttons_timer /\ irq_pd \notin {0, k}) \/ \E j \in Pins \ {k} : edge[j])
  /\ UNCHANGED <<irq_pd, buttons_timer, buttons_dev>>

SubNext == buttons_timerout_function \/ \E k \in Pins : buttons_irq(k) \/ Move(k)

-----------------------------------------------------------------------------
Settled == ~buttons_timer /\ \A k \in Pins : ~edge[k]

\* As long as no two buttons move within the same 10 ms, the keys that are down
\* are those whose button is down; where two buttons have one code (K2 and K6),
\* the one that moved last says which (38-40, 69-80).
KeysAreTrue ==
  ~overlap /\ Settled =>
    \A c \in Codes : c \in buttons_dev.key <=> last[c] # 0 /\ ~pinval[last[c]]

\* As long as no two buttons move within the same 10 ms, a key does not go on
\* repeating when every button has been let go for good (53-54, 69-74).
KeysComeUp ==
  []~overlap /\ <>[](\A k \in Pins : pinval[k]) => <>[](buttons_dev = NewDev)
=============================================================================
