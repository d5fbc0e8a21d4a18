------------------------------ MODULE ButtonsAll ------------------------------
(***************************************************************************)
(* 7th-chr_dev_drv_all/buttons_all.c: the interrupt of any key remembers   *)
(* the key in one global and starts a 10 ms timer; the timer reads the pin *)
(* and reports the key.  A timer that expires while edges still come is a  *)
(* key that bounces for longer than 10 ms.                                 *)
(***************************************************************************)
EXTENDS ButtonDev

VARIABLES irq_pd,         \* pin_desc entry of the last interrupt, 0 for NULL
          buttons_timer   \* is it pending?

vars == <<devvars, irq_pd, buttons_timer>>

TypeOK == DevTypeOK /\ irq_pd \in 0..NKeys /\ buttons_timer \in BOOLEAN

\* add_timer with expires 0: the timer expires at once and finds no key
Init == DevInit /\ irq_pd = 0 /\ buttons_timer = TRUE

\* fault: SIGIO is sent before the timer has stored the key
buttons_irq_signals(k) ==
  /\ Taken(k)
  /\ irq_pd' = k
  /\ buttons_timer' = TRUE
  /\ signal' = [p \in Procs |-> signal[p] \/ (p \in button_async /\ InKernel(p))]
  /\ pc' = [p \in Procs |-> IF p \in button_async THEN Wake(pc[p]) ELSE pc[p]]
  /\ UNCHANGED <<dev, file, ret>>

\* fault: the timer is not started again for a key that has just been reported
buttons_irq_once(k) ==
  /\ Taken(k)
  /\ irq_pd' = k
  /\ buttons_timer' = (buttons_timer \/ irq_pd # k)
  /\ UNCHANGED <<dev, file, pc, signal, ret>>

\* fault: an interrupt takes back the key that nobody has read yet
buttons_irq_clears(k) ==
  /\ Taken(k)
  /\ irq_pd' = k
  /\ buttons_timer' = TRUE
  /\ ev_press' = FALSE
  /\ UNCHANGED <<g_save_key_val, button_async, fresh, file, pc, signal, ret>>

\* fault: the timer is not started
buttons_irq_idle(k) ==
  /\ Taken(k)
  /\ irq_pd' = k
  /\ UNCHANGED <<buttons_timer, dev, file, pc, signal, ret>>

buttons_irq(k) ==
  /\ Taken(k)
  /\ irq_pd' = k
  /\ buttons_timer' = TRUE
  /\ UNCHANGED <<dev, file, pc, signal, ret>>

buttons_timerout_function ==
  /\ buttons_timer /\ buttons_timer' = FALSE
  /\ IF irq_pd = 0 THEN UNCHANGED <<dev, file, pc, signal, ret>> ELSE Report(irq_pd)
  /\ UNCHANGED <<keys, irq_pd>>

Next == \/ DevNext /\ UNCHANGED <<irq_pd, buttons_timer>>
        \/ \E k \in Keys : buttons_irq(k)
        \/ buttons_timerout_function

(* Interrupts and timers come, a process in the kernel goes on, and no key *)
(* bounces for ever.                                                       *)
Fairness ==
  /\ \A k \in Keys : WF_vars(buttons_irq(k))
  /\ WF_vars(buttons_timerout_function)
  /\ \A p \in Procs : WF_vars(Kernel(p) /\ UNCHANGED <<irq_pd, buttons_timer>>)

Spec == Init /\ [][Next]_vars /\ Fairness

\* Once the timer and the keys are quiet, the key stored last is the one that
\* moved last, with the level its pin has now (61-64, 198-217).
QuietKeyIsCurrent ==
  ~buttons_timer /\ irq_pd # 0 /\ ~edge[irq_pd] => g_save_key_val = <<irq_pd, pinval[irq_pd]>>
=============================================================================
