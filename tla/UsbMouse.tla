------------------------------- MODULE UsbMouse -------------------------------
(***************************************************************************)
(* 12th-usb/usbmouse.c: the buttons of a USB mouse as keys.  Each probe()  *)
(* allocates an input device, a buffer and an urb, but keeps them in       *)
(* globals: those of the mouse that was plugged in last.  The completion   *)
(* handler runs in interrupt context, in one step; it looks at no status.  *)
(* usb_submit_urb() may refuse an urb, in probe() and in the handler, and  *)
(* neither looks at its result.                                            *)
(***************************************************************************)
EXTENDS InputCore, Integers

CONSTANTS Mice, Buttons   \* Buttons: the bits of data[0] that are used
CONSTANT  NoMouse

ASSUME ButtonsAssumption == Buttons \subseteq 0..2
ASSUME NoMouseAssumption == NoMouse \notin Mice

VARIABLES
  mouse,      \* the buttons that are down on each mouse that is plugged in
  changed,    \* has it a report to send?
  uk,         \* whose objects uk_dev, uk_urb and usb_buf are
  urb,        \* the urb of each mouse: none, active, idle (not submitted) or freed
  usb_buf,    \* the buffer of each mouse
  uk_dev,     \* the input device of each mouse
  pre_val,    \* static in the handler
  bound,      \* the mice that the driver is bound to
  \* history: has the mouse that was plugged in last sent a report, did it start with
  \* pre_val set, has a submission been refused since; and, since no mouse was bound,
  \* were two bound at once, was something used that had been freed?
  heard, stale, refused, shared, dangling

mousevars == <<mouse, changed, uk, urb, usb_buf, uk_dev, pre_val, bound,
               heard, stale, refused, shared, dangling>>

KeyOf == [b \in 0..2 |-> CASE b = 0 -> "KEY_L" [] b = 1 -> "KEY_S" [] b = 2 -> "KEY_ENTER"]

Data == SUBSET Buttons

MouseTypeOK ==
  /\ mouse \in [Mice -> Data] /\ changed \in [Mice -> BOOLEAN]
  /\ uk \in Mice \cup {NoMouse} /\ urb \in [Mice -> {"none", "active", "idle", "freed"}]
  /\ usb_buf \in [Mice -> Data] /\ uk_dev \in [Mice -> InputDevs({KeyOf[b] : b \in Buttons})]
  /\ pre_val \in Data /\ bound \subseteq Mice
  /\ heard \in BOOLEAN /\ shared \in BOOLEAN /\ stale \in BOOLEAN
  /\ dangling \in BOOLEAN /\ refused \in BOOLEAN

MouseInit ==
  /\ mouse = [m \in Mice |-> {}] /\ changed = [m \in Mice |-> FALSE]
  /\ uk = NoMouse /\ urb = [m \in Mice |-> "none"] /\ usb_buf = [m \in Mice |-> {}]
  /\ uk_dev = [m \in Mice |-> NewDev] /\ pre_val = {} /\ bound = {}
  /\ heard = FALSE /\ shared = FALSE /\ stale = FALSE /\ dangling = FALSE /\ refused = FALSE

-----------------------------------------------------------------------------
\* fault: a button is reported only when it goes down
Changes_down(dev, now) ==
  LET Event(d, b) == IF b \in Buttons /\ b \notin pre_val /\ b \in now
                     THEN input_event(d, KeyOf[b], TRUE) ELSE d
  IN Event(Event(Event(dev, 0), 1), 2)

\* the events of the buttons that differ from pre_val, in the order of the bits
Changes(dev, now) ==
  LET Event(d, b) == IF b \in Buttons /\ (b \in pre_val) # (b \in now)
                     THEN input_event(d, KeyOf[b], b \in now) ELSE d
  IN Event(Event(Event(dev, 0), 1), 2)

\* usb_submit_urb(uk_urb): it is accepted or refused
Outcomes == {"active", "idle"}

\* fault: the urb is submitted again only if something has changed
usbmouse_as_key_irq_saves(m, data) ==
  /\ usb_buf' = [usb_buf EXCEPT ![m] = data]
  /\ uk_dev' = [uk_dev EXCEPT ![uk] = Changes(@, usb_buf'[uk])]
  /\ pre_val' = usb_buf'[uk]
  /\ \E outcome \in Outcomes :
       urb' = [urb EXCEPT ![m] = "idle",
                          ![uk] = IF @ = "idle" /\ pre_val # pre_val' THEN outcome ELSE @]
  /\ refused' = (refused \/ (pre_val # pre_val' /\ urb'[uk] = "idle"))
  /\ dangling' = (dangling \/ urb[uk] = "freed")
  /\ UNCHANGED <<mouse, uk, bound, shared, stale>>

\* the urb of mouse m completes with data in its buffer: the handler compares and
\* submits what the globals say, whichever mouse that is
usbmouse_as_key_irq(m, data) ==
  /\ usb_buf' = [usb_buf EXCEPT ![m] = data]
  /\ uk_dev' = [uk_dev EXCEPT ![uk] = Changes(@, usb_buf'[uk])]
  /\ pre_val' = usb_buf'[uk]
  /\ \E outcome \in Outcomes :
       urb' = [urb EXCEPT ![m] = "idle", ![uk] = IF @ = "idle" THEN outcome ELSE @]
  /\ refused' = (refused \/ urb'[uk] = "idle")
  /\ dangling' = (dangling \/ urb[uk] = "freed")
  /\ UNCHANGED <<mouse, uk, bound, shared, stale>>

\* a report arrives
Report(m) ==
  /\ urb[m] = "active" /\ changed[m]
  /\ changed' = [changed EXCEPT ![m] = FALSE]
  /\ usbmouse_as_key_irq(m, mouse[m])
  /\ heard' = TRUE

\* the transfer fails: the buffer is as it was
Fail(m) ==
  /\ urb[m] = "active"
  /\ usbmouse_as_key_irq(m, usb_buf[m])
  /\ UNCHANGED <<changed, heard>>

Click(m) ==
  /\ m \in bound
  /\ \E b \in Buttons :
       mouse' = [mouse EXCEPT ![m] = IF b \in @ THEN @ \ {b} ELSE @ \cup {b}]
  /\ changed' = [changed EXCEPT ![m] = TRUE]
  /\ UNCHANGED <<uk, urb, usb_buf, uk_dev, pre_val, bound, heard, stale, refused, shared, dangling>>

\* the buffer is not cleared
usbmouse_as_key_probe(m) ==
  /\ m \notin bound /\ bound' = bound \cup {m}
  /\ mouse' \in {[mouse EXCEPT ![m] = d] : d \in Data}
  /\ uk' = m
  /\ uk_dev' = [uk_dev EXCEPT ![m] = NewDev]
  /\ \E d \in Data : usb_buf' = [usb_buf EXCEPT ![m] = d]
  /\ \E outcome \in Outcomes :
       urb' = [urb EXCEPT ![m] = outcome] /\ refused' = (outcome = "idle")
  /\ changed' = [changed EXCEPT ![m] = FALSE]
  /\ shared' = (bound # {}) /\ dangling' = (dangling /\ bound # {})
  /\ stale' = (pre_val # {}) /\ heard' = FALSE
  /\ UNCHANGED pre_val

\* The core kills the urbs of m, and disconnect() kills uk_urb, then frees what
\* the globals name.  A killed urb completes once more, and the handler takes the
\* old data for a report, but cannot submit the urb again.
usbmouse_as_key_disconnect(m) ==
  /\ m \in bound /\ bound' = bound \ {m}
  /\ pre_val' = IF "active" \in {urb[m], urb[uk]} THEN usb_buf[uk] ELSE pre_val
  /\ dangling' = (dangling \/ urb[uk] = "freed")
  /\ uk_dev' = [uk_dev EXCEPT ![uk] = NewDev]
  /\ urb' = [urb EXCEPT ![m] = IF @ = "active" THEN "idle" ELSE @, ![uk] = "freed"]
  /\ changed' = [changed EXCEPT ![m] = FALSE] /\ mouse' = [mouse EXCEPT ![m] = {}]
  /\ UNCHANGED <<uk, usb_buf, heard, shared, stale, refused>>

MouseNext ==
  \E m \in Mice : \/ Report(m) \/ Fail(m) \/ Click(m)
                  \/ usbmouse_as_key_probe(m) \/ usbmouse_as_key_disconnect(m)

-----------------------------------------------------------------------------
\* One mouse at a time: when its report is in, the keys that are down are the
\* buttons that are down, whatever failed transfers were taken for reports in
\* between, unless its first report was compared with the last one of the mouse
\* before it (24, 41-62).
MouseKeysAreTrue ==
  \A m \in bound : ~shared /\ ~stale /\ heard /\ ~changed[m] =>
    uk_dev[m].key = {KeyOf[b] : b \in mouse[m]}

\* One mouse at a time, plugged in and out in any order: nothing that was freed is
\* used, the globals are those of the mouse that is bound, and it is silent, its
\* urb not submitted, only since a submission was refused to it and not to a
\* mouse before it (65, 120, 130-135).
SilentOnlyIfRefused ==
  ~shared => ~dangling /\ \A m \in bound : uk = m /\ (urb[m] = "active" \/ refused)

\* One mouse at a time: a report that a mouse has gets through in the end, however
\* many transfers fail before it, unless a submission is refused or the mouse is
\* pulled out.  Nothing submits the urb again after a refusal (65).
ReportsArrive ==
  \A m \in Mice : (m \in bound /\ changed[m]) ~>
                   (m \notin bound \/ ~changed[m] \/ refused \/ shared)
=============================================================================
