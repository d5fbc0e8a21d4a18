------------------------------ MODULE ButtonDev ------------------------------
(***************************************************************************)
(* The file operations of /dev/buttons: open, release, read, poll and      *)
(* fasync, which 7th-chr_dev_drv_all/buttons_all.c and                     *)
(* 6th-synchronous/sixth_drv.c share word for word.  The drivers differ in *)
(* what an interrupt does; ButtonsAll and EdgeDrv add that, and EdgeDrv    *)
(* those drivers that let several processes open the device.               *)
(*                                                                         *)
(* The modules are built for one CPU and a kernel without preemption.  An  *)
(* interrupt or a timer may come between any two steps; another process    *)
(* runs only where the code may sleep, so not between copy_to_user() and   *)
(* the end of read() and not inside release().                             *)
(***************************************************************************)
EXTENDS Integers, Sequences, SequencesExt

CONSTANTS Procs,
          NKeys,     \* length of pin_desc
          Signals    \* do processes get signals other than SIGIO?

ASSUME KeysAssumption    == NKeys \in Nat \ {0}
ASSUME SignalsAssumption == Signals \in BOOLEAN

Keys == 1..NKeys

VARIABLES
  \* hardware: is the pin of a key high (key up), and edges not yet taken
  pinval, edge,
  \* the driver's globals; fresh (history): was a key stored that no read copied?
  g_save_key_val, ev_press, button_async, fresh,
  \* the semaphore's count and its waiters, first come first served
  count, waiters,
  \* lines with a handler
  irqs,
  \* processes: where, how far through pin_desc, O_NONBLOCK, signal pending
  \* and the last call's result: an error, POLLIN from poll, or anything else
  pc, line, nonblock, signal, ret

keys  == <<pinval, edge>>
dev   == <<g_save_key_val, ev_press, button_async, fresh>>
sema  == <<count, waiters>>
file  == <<sema, irqs, line, nonblock>>
devvars == <<keys, dev, file, pc, signal, ret>>

Asleep  == {"asleep", "poll_asleep"}
PCs     == Asleep \cup {"out", "down", "request", "open", "wait", "copy", "clear", "free", "poll"}
KeyVal  == Keys \X BOOLEAN
Results == {"ok", "error", "POLLIN"}

DevTypeOK ==
  /\ pinval \in [Keys -> BOOLEAN] /\ edge \in [Keys -> BOOLEAN]
  /\ g_save_key_val \in KeyVal \cup {<<>>}
  /\ ev_press \in BOOLEAN /\ fresh \in BOOLEAN /\ button_async \subseteq Procs
  /\ count \in 0..1 /\ waiters \in Seq(Procs) /\ irqs \subseteq Keys
  /\ pc \in [Procs -> PCs] /\ line \in [Procs -> 0..NKeys]
  /\ nonblock \in [Procs -> BOOLEAN] /\ signal \in [Procs -> BOOLEAN] /\ ret \in [Procs -> Results]

DevInit ==
  /\ pinval = [k \in Keys |-> TRUE] /\ edge = [k \in Keys |-> FALSE]
  /\ g_save_key_val = <<>> /\ ev_press = FALSE /\ button_async = {} /\ fresh = FALSE
  /\ count = 1 /\ waiters = <<>> /\ irqs = {}
  /\ pc = [p \in Procs |-> "out"] /\ line = [p \in Procs |-> 0]
  /\ nonblock = [p \in Procs |-> FALSE] /\ signal = [p \in Procs |-> FALSE]
  /\ ret = [p \in Procs |-> "ok"]

-----------------------------------------------------------------------------
\* no other process is in the middle of code that does not sleep
MayRun(p) == \A q \in Procs \ {p} : pc[q] \notin {"clear", "free"}

Goto(p, to) == pc' = [pc EXCEPT ![p] = to]

\* a system call begins, goes on, or returns r; pending signals are then handled
Begin(p, from, to) == MayRun(p) /\ pc[p] = from /\ Goto(p, to) /\ ret' = [ret EXCEPT ![p] = "ok"]
Then(p, from, to)  == MayRun(p) /\ pc[p] = from /\ Goto(p, to) /\ UNCHANGED ret
Return(p, from, r) ==
  /\ MayRun(p) /\ pc[p] = from
  /\ Goto(p, IF from \in {"free", "out"} THEN "out" ELSE "open")
  /\ ret' = [ret EXCEPT ![p] = r]
  /\ signal' = [signal EXCEPT ![p] = FALSE]

-----------------------------------------------------------------------------
(* open *)

\* fault: the interrupts are requested by whoever opens, the semaphore is skipped
OpenUnlocked(p, nb) ==
  /\ Begin(p, "out", "request")
  /\ nonblock' = [nonblock EXCEPT ![p] = nb]
  /\ UNCHANGED <<keys, dev, sema, irqs, signal, line>>

Open(p, nb) ==
  /\ MayRun(p) /\ pc[p] = "out"
  /\ nonblock' = [nonblock EXCEPT ![p] = nb /\ count = 1]
  /\ UNCHANGED <<keys, dev, irqs, signal, line>>
  /\ \/ count = 1 /\ count' = 0 /\ Begin(p, "out", "request") /\ UNCHANGED waiters
     \/ count = 0 /\ ~nb /\ waiters' = Append(waiters, p) /\ Begin(p, "out", "down") /\ UNCHANGED count
     \/ count = 0 /\ nb /\ ret' = [ret EXCEPT ![p] = "error"] /\ UNCHANGED <<sema, pc>>

\* fault: one line too many
RequestMore(p) ==
  /\ Begin(p, "request", IF line[p] < NKeys THEN "request" ELSE "open")
  /\ irqs' = irqs \cup {line[p] + 1}
  /\ line' = [line EXCEPT ![p] = IF @ < NKeys THEN @ + 1 ELSE 0]
  /\ UNCHANGED <<keys, dev, sema, nonblock, signal>>

\* request_irq of the next line; its failure on a line in use is not looked at
Request(p) ==
  /\ MayRun(p) /\ pc[p] = "request"
  /\ irqs' = irqs \cup {line[p] + 1}
  /\ UNCHANGED <<keys, dev, sema, nonblock>>
  /\ IF line[p] + 1 < NKeys
     THEN line' = [line EXCEPT ![p] = @ + 1] /\ UNCHANGED <<pc, signal, ret>>
     ELSE line' = [line EXCEPT ![p] = 0] /\ Return(p, "request", "ok")

-----------------------------------------------------------------------------
(* release: the file leaves the fasync list, up(), then free_irq six times *)

Up == IF waiters = <<>> THEN count' = 1 /\ UNCHANGED waiters
      ELSE waiters' = Tail(waiters) /\ UNCHANGED count

\* fault: release does not give the semaphore back
ReleaseKeeps(p) ==
  /\ Begin(p, "open", "free")
  /\ button_async' = button_async \ {p}
  /\ UNCHANGED <<keys, g_save_key_val, ev_press, fresh, file, signal>>

\* the first waiter owns the semaphore when it runs again
Release(p) ==
  /\ MayRun(p) /\ pc[p] = "open"
  /\ button_async' = button_async \ {p}
  /\ Up
  /\ pc' = [q \in Procs |-> IF q = p THEN "free"
                            ELSE IF waiters # <<>> /\ q = Head(waiters) THEN "request" ELSE pc[q]]
  /\ ret' = [ret EXCEPT ![p] = "ok"]
  /\ UNCHANGED <<keys, g_save_key_val, ev_press, fresh, irqs, line, nonblock, signal>>

Free(p) ==
  /\ MayRun(p) /\ pc[p] = "free"
  /\ irqs' = irqs \ {line[p] + 1}
  /\ UNCHANGED <<keys, dev, sema>>
  /\ IF line[p] + 1 < NKeys
     THEN line' = [line EXCEPT ![p] = @ + 1] /\ UNCHANGED <<pc, signal, nonblock, ret>>
     ELSE line' = [line EXCEPT ![p] = 0] /\ Return(p, "free", "ok")
            /\ nonblock' = [nonblock EXCEPT ![p] = FALSE]

-----------------------------------------------------------------------------
(* read *)

Read(p) ==
  /\ UNCHANGED <<keys, dev, file>>
  /\ \/ Return(p, "open", "error")   \* EINVAL
     \/ nonblock[p] /\ ~ev_press /\ Return(p, "open", "error")   \* EAGAIN
     \/ nonblock[p] /\ ev_press /\ Begin(p, "open", "copy") /\ UNCHANGED signal
     \/ ~nonblock[p] /\ Begin(p, "open", "wait") /\ UNCHANGED signal

\* wait_event_interruptible: that it was interrupted is not looked at
Wait(p) ==
  /\ UNCHANGED <<keys, dev, file, signal>>
  /\ Then(p, "wait", IF ev_press \/ signal[p] THEN "copy" ELSE "asleep")

Copy(p) ==
  /\ UNCHANGED <<keys, g_save_key_val, ev_press, button_async, file>>
  /\ \/ Return(p, "copy", "error") /\ UNCHANGED fresh   \* EFAULT
     \/ Then(p, "copy", "clear") /\ fresh' = FALSE /\ UNCHANGED signal

Clear(p) ==
  /\ Return(p, "clear", "ok")
  /\ ev_press' = FALSE
  /\ UNCHANGED <<keys, g_save_key_val, button_async, fresh, file>>

-----------------------------------------------------------------------------
(* poll and fasync *)

Poll(p) == Begin(p, "open", "poll") /\ UNCHANGED <<keys, dev, file, signal>>

\* the driver's poll, and poll(2) around it
PollCheck(p) ==
  /\ UNCHANGED <<keys, dev, file>>
  /\ \/ ev_press /\ Return(p, "poll", "POLLIN")
     \/ ~ev_press /\ signal[p] /\ Return(p, "poll", "error")
     \/ ~ev_press /\ ~signal[p] /\ Then(p, "poll", "poll_asleep") /\ UNCHANGED signal

PollTimeout(p) == Return(p, "poll_asleep", "ok") /\ UNCHANGED <<keys, dev, file>>

Fasync(p) ==
  /\ MayRun(p) /\ pc[p] = "open"
  /\ button_async' = IF p \in button_async THEN button_async \ {p} ELSE button_async \cup {p}
  /\ UNCHANGED <<keys, g_save_key_val, ev_press, fresh, file, pc, signal, ret>>

-----------------------------------------------------------------------------
(* Interrupts, signals and fingers *)

Wake(q) == CASE q = "asleep" -> "wait" [] q = "poll_asleep" -> "poll" [] OTHER -> q

InKernel(p) == pc[p] \notin {"out", "open"}

\* fault: nobody is woken
ReportSilent(k) ==
  /\ g_save_key_val' = <<k, pinval[k]>> /\ ev_press' = TRUE /\ fresh' = TRUE
  /\ UNCHANGED <<button_async, file, pc, signal, ret>>

\* the key of line k is stored, the readers woken and the fasync list signalled
Report(k) ==
  /\ g_save_key_val' = <<k, pinval[k]>>
  /\ ev_press' = TRUE
  /\ fresh' = TRUE
  /\ pc' = [p \in Procs |-> Wake(pc[p])]
  /\ signal' = [p \in Procs |-> signal[p] \/ (p \in button_async /\ InKernel(p))]
  /\ UNCHANGED <<button_async, file, ret>>

\* the edge on line k is taken by its handler
Taken(k) == k \in irqs /\ edge[k] /\ edge' = [edge EXCEPT ![k] = FALSE] /\ UNCHANGED pinval

\* the pin changes: pressed, released, or bouncing; the controller keeps the
\* edge, also while the line has no handler
Move(k) ==
  /\ pinval' = [pinval EXCEPT ![k] = ~@]
  /\ edge' = [edge EXCEPT ![k] = TRUE]
  /\ UNCHANGED <<dev, file, pc, signal, ret>>

\* another signal reaches a process that is asleep where it can be interrupted
Signal(p) ==
  /\ Signals /\ pc[p] \in Asleep
  /\ signal' = [signal EXCEPT ![p] = TRUE]
  /\ Goto(p, Wake(pc[p]))
  /\ UNCHANGED <<keys, dev, file, ret>>

-----------------------------------------------------------------------------
User(p)   == (\E nb \in BOOLEAN : Open(p, nb)) \/ Release(p) \/ Read(p) \/ Poll(p) \/ Fasync(p)
Kernel(p) ==
  /\ pc[p] \in {"request", "free", "wait", "copy", "clear", "poll"}
  /\ Request(p) \/ Free(p) \/ Wait(p) \/ Copy(p) \/ Clear(p) \/ PollCheck(p)

DevNext == \/ \E p \in Procs : User(p) \/ Kernel(p) \/ PollTimeout(p) \/ Signal(p)
           \/ \E k \in Keys : Move(k)

-----------------------------------------------------------------------------
\* between the semaphore and the end of release()
Inside(p) == pc[p] \notin {"out", "down"}
Holds(p)  == Inside(p) /\ pc[p] # "free"

\* The semaphore admits one process: its count and its holder agree, exactly the
\* processes in down() queue, and a process only queues while another one holds
\* it, so that no wakeup is missing (open 90-100, up() at 121).
OneOpener ==
  /\ \A p, q \in Procs : Holds(p) /\ Holds(q) => p = q
  /\ count = 1 <=> \A p \in Procs : ~Holds(p)
  /\ ToSet(waiters) = {p \in Procs : pc[p] = "down"} /\ IsInjective(waiters)
  /\ waiters # <<>> => count = 0

\* An open device hears every key: all lines have their handler from the end of
\* open() to release(), although up() comes before free_irq() (104-109, 121-128).
OpenHasInterrupts ==
  \A p \in Procs : Holds(p) /\ pc[p] # "request" => irqs = Keys

\* A process that poll() told to read still finds a key when it reads: nothing
\* but its own read takes it away (162-172).
PollTold == \A p \in Procs : ret[p] = "POLLIN" => ev_press

\* read() copies a key only if one was stored that no read() has copied: SIGIO,
\* which the driver itself sends, never makes it return an old one (148-152).
ReadMeansAction ==
  [][\A p \in Procs : pc[p] = "copy" /\ pc'[p] = "clear" => fresh]_devvars

\* A reader does not sleep while a key is stored that nobody has read (147-148).
SleepsWithoutAction == \A p \in Procs : pc[p] = "asleep" => ~fresh

\* A process asleep in read() returns when a key moves (148, 219-220).
ReaderHears == \A p \in Procs : \A k \in Keys : (pc[p] = "asleep" /\ edge[k]) ~> pc[p] = "open"

\* A process that waits for the device gets it, if none of the others stays
\* inside for ever (99, 121).
WaitersGetIn ==
  \A p \in Procs :
    (\A q \in Procs \ {p} : []<>~Inside(q)) => (pc[p] = "down" ~> pc[p] = "open")
=============================================================================
