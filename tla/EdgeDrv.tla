------------------------------- MODULE EdgeDrv -------------------------------
(***************************************************************************)
(* The button drivers in which the interrupt itself reads the pin and      *)
(* reports the key, so that a bouncing key is reported at every edge:      *)
(* 3th-interrupt/third_drv.c, 4th-poll/forth_drv.c, 5th-asynchronous/      *)
(* asyn.c and 6th-synchronous/sixth_drv.c.  A behaviour runs one of them.  *)
(* Only the sixth has the semaphore and O_NONBLOCK of ButtonDev; in the    *)
(* others every opener requests the same lines, and every closer frees     *)
(* them.  The third has no poll, the third and the forth have no fasync.   *)
(***************************************************************************)
EXTENDS ButtonDev

VARIABLE driver   \* which module is loaded

edgevars == <<devvars, driver>>

Drivers == {"third", "forth", "fifth", "sixth"}

EdgeTypeOK == DevTypeOK /\ driver \in Drivers

EdgeInit == DevInit /\ driver \in Drivers

-----------------------------------------------------------------------------
\* fault: the level is taken to be the other one than before
Edge_toggles(k) ==
  /\ Taken(k)
  /\ g_save_key_val' = <<k, g_save_key_val # <<k, TRUE>> >>
  /\ ev_press' = TRUE
  /\ fresh' = TRUE
  /\ pc' = [p \in Procs |-> Wake(pc[p])]
  /\ UNCHANGED <<button_async, file, signal, ret>>

\* edge_irq; without a fasync operation nobody is in the list it signals
Edge(k) == Taken(k) /\ Report(k)

\* open() that asks nobody whether the device is free, and looks at no flags
OpenAny(p) ==
  /\ Begin(p, "out", "request")
  /\ UNCHANGED <<keys, dev, file, signal>>

\* fault: the first line is not freed
CloseAny_off(p) ==
  /\ Begin(p, "open", "free")
  /\ button_async' = button_async \ {p}
  /\ line' = [line EXCEPT ![p] = 1]
  /\ UNCHANGED <<keys, g_save_key_val, ev_press, fresh, sema, irqs, nonblock, signal>>

\* the file leaves the fasync list, then free_irq six times
CloseAny(p) ==
  /\ Begin(p, "open", "free")
  /\ button_async' = button_async \ {p}
  /\ UNCHANGED <<keys, g_save_key_val, ev_press, fresh, file, signal>>

Reading(p) == Read(p) \/ Wait(p) \/ Copy(p) \/ Clear(p)
Polling(p) == Poll(p) \/ PollCheck(p)

-----------------------------------------------------------------------------
third_drv_irq(k)   == driver = "third" /\ Edge(k)
third_drv_open(p)  == driver = "third" /\ (OpenAny(p) \/ Request(p))
third_drv_close(p) == driver = "third" /\ (CloseAny(p) \/ Free(p))
third_drv_read(p)  == driver = "third" /\ Reading(p)

forth_drv_irq(k)   == driver = "forth" /\ Edge(k)
forth_drv_open(p)  == driver = "forth" /\ (OpenAny(p) \/ Request(p))
forth_drv_close(p) == driver = "forth" /\ (CloseAny(p) \/ Free(p))
forth_drv_read(p)  == driver = "forth" /\ Reading(p)
forth_drv_poll(p)  == driver = "forth" /\ Polling(p)

fifth_drv_irq(k)    == driver = "fifth" /\ Edge(k)
fifth_drv_open(p)   == driver = "fifth" /\ (OpenAny(p) \/ Request(p))
fifth_drv_close(p)  == driver = "fifth" /\ (CloseAny(p) \/ Free(p))
fifth_drv_read(p)   == driver = "fifth" /\ Reading(p)
fifth_drv_poll(p)   == driver = "fifth" /\ Polling(p)
fifth_drv_fasync(p) == driver = "fifth" /\ Fasync(p)

sixth_drv_irq(k)    == driver = "sixth" /\ Edge(k)
sixth_drv_open(p)   == driver = "sixth" /\ ((\E nb \in BOOLEAN : Open(p, nb)) \/ Request(p))
sixth_drv_close(p)  == driver = "sixth" /\ (Release(p) \/ Free(p))
sixth_drv_read(p)   == driver = "sixth" /\ Reading(p)
sixth_drv_poll(p)   == driver = "sixth" /\ Polling(p)
sixth_drv_fasync(p) == driver = "sixth" /\ Fasync(p)

edge_irq(k) == third_drv_irq(k) \/ forth_drv_irq(k) \/ fifth_drv_irq(k) \/ sixth_drv_irq(k)

\* the file_operations of the drivers
third_drv_fops(p) == third_drv_open(p) \/ third_drv_close(p) \/ third_drv_read(p)
forth_drv_fops(p) == \/ forth_drv_open(p) \/ forth_drv_close(p)
                     \/ forth_drv_read(p) \/ forth_drv_poll(p)
fifth_drv_fops(p) == \/ fifth_drv_open(p) \/ fifth_drv_close(p)
                     \/ fifth_drv_read(p) \/ fifth_drv_poll(p) \/ fifth_drv_fasync(p)
sixth_drv_fops(p) == \/ sixth_drv_open(p) \/ sixth_drv_close(p)
                     \/ sixth_drv_read(p) \/ sixth_drv_poll(p) \/ sixth_drv_fasync(p)

EdgeNext ==
  /\ UNCHANGED driver
  /\ \/ \E p \in Procs : \/ third_drv_fops(p) \/ forth_drv_fops(p)
                         \/ fifth_drv_fops(p) \/ sixth_drv_fops(p)
                         \/ PollTimeout(p) \/ Signal(p)
     \/ \E k \in Keys : Move(k) \/ edge_irq(k)

(* Interrupts come, and a process in the kernel goes on. *)
EdgeFairness ==
  /\ \A k \in Keys : WF_edgevars(edge_irq(k) /\ UNCHANGED driver)
  /\ \A p \in Procs : WF_edgevars(Kernel(p) /\ UNCHANGED driver)

EdgeSpec == EdgeInit /\ [][EdgeNext]_edgevars /\ EdgeFairness

-----------------------------------------------------------------------------
\* The key stored last has the level that its pin has now, as soon as the edges
\* of that key have been taken: however it bounced, and whichever of the four
\* handlers took the edge, a press is not left stored as a release (64-77).
StoredKeyIsCurrent ==
  \A k \in Keys : \A up \in BOOLEAN :
    g_save_key_val = <<k, up>> /\ ~edge[k] => pinval[k] = up

\* Whatever the openers do, every line that has a handler will be freed: there is
\* a process that has opened the device and has not yet come past that line in
\* close(); so no handler is left when nobody has the device open (88-111).
HandlersAreFreed ==
  \A k \in irqs : \E p \in Procs : pc[p] \notin {"out", "down"} /\ (pc[p] = "free" => line[p] < k)

\* open() says that it makes the six pins interrupt pins (asyn.c 90): whoever
\* alone has the device open hears all its keys.
OpenConfiguresPins ==
  \A p \in Procs :
    /\ pc[p] \notin {"out", "down", "request", "free"}
    /\ \A q \in Procs \ {p} : pc[q] = "out"
    => irqs = Keys
=============================================================================
