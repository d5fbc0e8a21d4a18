-------------------------------- MODULE Inputs --------------------------------
(***************************************************************************)
(* The two drivers that feed the input layer, 8th-input_sub_sys and        *)
(* 12th-usb.  They share no state: a behaviour loads one of them.          *)
(***************************************************************************)
EXTENDS InputSub, UsbMouse

VARIABLE loaded

vars == <<subvars, mousevars, loaded>>

TypeOK == SubTypeOK /\ MouseTypeOK /\ loaded \in {"input_sub", "usbmouse"}

Init == SubInit /\ MouseInit /\ loaded \in {"input_sub", "usbmouse"}

Next ==
  /\ UNCHANGED loaded
  /\ \/ loaded = "input_sub" /\ SubNext /\ UNCHANGED mousevars
     \/ loaded = "usbmouse" /\ MouseNext /\ UNCHANGED subvars

(* Interrupts and the timer come, and the host controller polls the mouse  *)
(* whose urb it has, so that a report that waits is fetched.               *)
Fairness ==
  /\ \A k \in Pins : WF_vars(loaded = "input_sub" /\ buttons_irq(k) /\ UNCHANGED <<mousevars, loaded>>)
  /\ WF_vars(loaded = "input_sub" /\ buttons_timerout_function /\ UNCHANGED <<mousevars, loaded>>)
  /\ \A m \in Mice : WF_vars(loaded = "usbmouse" /\ Report(m) /\ UNCHANGED <<subvars, loaded>>)

Spec == Init /\ [][Next]_vars /\ Fairness
=============================================================================
