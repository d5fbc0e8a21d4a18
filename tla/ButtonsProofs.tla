--------------------------- MODULE ButtonsProofs ---------------------------
(***************************************************************************)
(* What holds of buttons_all.c, and of the four drivers of EdgeDrv, for    *)
(* any number of processes and of keys.                                    *)
(***************************************************************************)
EXTENDS ButtonsAll, EdgeDrv, ButtonDevProofs

-----------------------------------------------------------------------------
(* buttons_all.c                                                           *)

IInv == OneUser /\ irq_pd \in 0..NKeys /\ buttons_timer \in BOOLEAN /\ QuietKeyIsCurrent

LEMMA Initially == Init => IInv
BY InitOneUser, KeysAssumption DEF Init, IInv, QuietKeyIsCurrent

LEMMA IrqKeeps ==
  ASSUME IInv, NEW k \in Keys, buttons_irq(k) PROVE IInv'
<1> USE DEF IInv, buttons_irq, Taken, dev, file, sema
<1>1. Typed'
  BY DEF OneUser, Locked, Typed, DevTypeOK, Lines
<1>2. OneUser'
  BY <1>1 DEF OneUser, Locked, OneOpener, FreesAlone, Hearing, OpenHasInterrupts, Told, Holds, Inside
<1> QED
  BY <1>2 DEF QuietKeyIsCurrent, Keys

LEMMA TimerKeeps == IInv /\ buttons_timerout_function => IInv'
<1> SUFFICES ASSUME IInv, buttons_timerout_function PROVE IInv'
  OBVIOUS
<1>1. UNCHANGED <<keys, irq_pd>> /\ buttons_timer' = FALSE
  BY DEF buttons_timerout_function
<1>2. CASE irq_pd = 0
  <2>1. UNCHANGED devvars
    BY <1>1, <1>2 DEF buttons_timerout_function, devvars
  <2>2. OneUser'
    BY <2>1 DEF IInv, OneUser, Locked, Typed, DevTypeOK, Lines, OneOpener, FreesAlone, Hearing, OpenHasInterrupts,
                Told, Holds, Inside, devvars, keys, dev, file, sema
  <2> QED
    BY <1>1, <1>2, <2>2 DEF IInv, QuietKeyIsCurrent
<1>3. CASE irq_pd # 0
  <2>1. irq_pd \in Keys /\ Report(irq_pd)
    BY <1>3 DEF IInv, buttons_timerout_function, Keys
  <2>2. Hardware
    BY <1>1 DEF IInv, OneUser, Locked, Typed, DevTypeOK, Hardware, keys
  <2>3. OneUser'
    BY <2>1, <2>2, ReportKeeps DEF IInv
  <2>4. QuietKeyIsCurrent'
    BY <1>1, <2>1 DEF QuietKeyIsCurrent, Report, keys
  <2> QED
    BY <1>1, <2>3, <2>4 DEF IInv
<1> QED
  BY <1>2, <1>3

LEMMA DevKeeps == IInv /\ DevNext /\ UNCHANGED <<irq_pd, buttons_timer>> => IInv'
<1> SUFFICES ASSUME IInv, DevNext, UNCHANGED <<irq_pd, buttons_timer>> PROVE IInv'
  OBVIOUS
<1>1. ASSUME NEW p \in Procs, Inner(p) \/ Outer(p) PROVE IInv'
  <2>1. OneUser'
    BY <1>1, ProcKeeps DEF IInv
  <2>2. UNCHANGED <<keys, g_save_key_val>>
    BY <1>1 DEF Inner, Outer, Open, Release, Request, Free, Wait, Copy, Clear, PollCheck, Read, Poll,
                Fasync, PollTimeout, Signal, dev
  <2> QED
    BY <2>1, <2>2 DEF IInv, QuietKeyIsCurrent, keys
<1>2. ASSUME NEW k \in Keys, Move(k) PROVE IInv'
  <2>1. OneUser'
    BY <1>2, MoveKeeps DEF IInv
  <2>2. QuietKeyIsCurrent'
    BY <1>2 DEF IInv, OneUser, Locked, Typed, DevTypeOK, QuietKeyIsCurrent, Move, dev, Keys
  <2> QED
    BY <2>1, <2>2 DEF IInv
<1> QED
  BY <1>1, <1>2 DEF DevNext, User, Kernel, Inner, Outer

LEMMA StutterKeeps == IInv /\ UNCHANGED vars => IInv'
BY DEF IInv, OneUser, Locked, Typed, DevTypeOK, Lines, OneOpener, FreesAlone, Hearing, OpenHasInterrupts,
       Told, Holds, Inside, QuietKeyIsCurrent, vars, devvars, keys, dev, file, sema

LEMMA Inductive == IInv /\ [Next]_vars => IInv'
BY IrqKeeps, TimerKeeps, DevKeeps, StutterKeeps DEF Next

\* The invariant: the semaphore, the lines and the poll result of whoever is in,
\* and the key that the timer has stored.
THEOREM Invariance == Spec => []IInv
BY Initially, Inductive, PTL DEF Spec

\* All fields stay in range: lines are requested and freed within pin_desc (104-109, 121-128).
THEOREM TypeCorrect == Spec => []TypeOK
<1>1. IInv => TypeOK
  BY DEF IInv, OneUser, Locked, Typed, TypeOK
<1> QED
  BY <1>1, Invariance, PTL

\* However many processes open and close, one has the device, and none waits for
\* a semaphore that is free (90-100, 121).
THEOREM Exclusive == Spec => []OneOpener
<1>1. IInv => OneOpener
  BY DEF IInv, OneUser, Locked
<1> QED
  BY <1>1, Invariance, PTL

\* Whoever has the device open has all its lines, although the last holder gives
\* the semaphore back before it frees its own (104-109, 121-128).
THEOREM AllLines == Spec => []OpenHasInterrupts
<1>1. IInv => OpenHasInterrupts
  BY DEF IInv, OneUser, Hearing
<1> QED
  BY <1>1, Invariance, PTL

\* The key that poll() announced is still there (162-172).
THEOREM PollIsTrue == Spec => []PollTold
<1>1. IInv => PollTold
  BY DEF IInv, OneUser, Told, PollTold
<1> QED
  BY <1>1, Invariance, PTL

\* With no signals but the driver's own, read() copies nothing that was copied
\* before: a sleeper is woken, and SIGIO sent, after the key was stored (148-152, 198-222).
THEOREM ReadsNewKeys == ~Signals => (Spec => ReadMeansAction)
<1> SUFFICES ASSUME ~Signals PROVE Spec => ReadMeansAction
  OBVIOUS
<1>1. Init => Fresh
  BY InitFresh DEF Init
<1>2. IInv /\ Fresh /\ [Next]_vars => Fresh'
  <2> SUFFICES ASSUME IInv, Fresh, [Next]_vars PROVE Fresh'
    OBVIOUS
  <2>1. Locked
    BY DEF IInv, OneUser
  <2>2. ASSUME NEW p \in Procs, Inner(p) \/ Outer(p) PROVE Fresh'
    BY <2>1, <2>2, InnerFresh, OuterFresh
  <2>3. ASSUME NEW k \in Keys, Move(k) PROVE Fresh'
    BY <2>3, MoveFresh
  <2>4. ASSUME NEW k \in Keys, buttons_irq(k) PROVE Fresh'
    BY <2>4 DEF buttons_irq, Fresh, Holds, Inside, dev
  <2>5. CASE buttons_timerout_function
    <3>1. irq_pd # 0 => irq_pd \in Keys
      BY DEF IInv, Keys
    <3>2. CASE irq_pd = 0
      BY <2>5, <3>2 DEF buttons_timerout_function, Fresh, Holds, Inside, dev
    <3>3. CASE irq_pd # 0
      BY <2>1, <2>5, <3>1, <3>3, ReportFresh DEF buttons_timerout_function
    <3> QED
      BY <3>2, <3>3
  <2>6. CASE UNCHANGED vars
    BY <2>6 DEF vars, devvars, Fresh, Holds, Inside, dev
  <2> QED
    BY <2>2, <2>3, <2>4, <2>5, <2>6 DEF Next, DevNext, User, Kernel, Inner, Outer
<1>3. Fresh => [\A p \in Procs : pc[p] = "copy" /\ pc'[p] = "clear" => fresh]_devvars
  BY DEF Fresh
<1> QED
  BY <1>1, <1>2, <1>3, Invariance, PTL DEF Spec, ReadMeansAction

\* The timer leaves the level of the key that moved last (61-64, 198-217).
THEOREM LastKey == Spec => []QuietKeyIsCurrent
<1>1. IInv => QuietKeyIsCurrent
  BY DEF IInv
<1> QED
  BY <1>1, Invariance, PTL

-----------------------------------------------------------------------------
(* The four drivers of EdgeDrv                                             *)

EdgeInv ==
  /\ Typed /\ driver \in Drivers
  /\ StoredKeyIsCurrent /\ HandlersAreFreed
  /\ driver = "sixth" => OneUser

\* a process's step; the drivers without a semaphore let everybody in
Sharing(p) == OpenAny(p) \/ CloseAny(p)

LEMMA EdgeNextSteps ==
  ASSUME EdgeNext
  PROVE  /\ UNCHANGED driver
         /\ \/ \E p \in Procs : Inner(p) \/ (driver = "sixth" /\ Outer(p)) \/ (driver # "sixth" /\ Sharing(p))
            \/ \E k \in Keys : Move(k) \/ Edge(k)
<1> USE DEF Reading, Polling
<1>1. ASSUME NEW p \in Procs,
             third_drv_fops(p) \/ forth_drv_fops(p) \/ fifth_drv_fops(p)
      PROVE  Inner(p) \/ (driver # "sixth" /\ Sharing(p))
  BY <1>1 DEF third_drv_fops, third_drv_open, third_drv_close, third_drv_read,
       forth_drv_fops, forth_drv_open, forth_drv_close, forth_drv_read, forth_drv_poll,
       fifth_drv_fops, fifth_drv_open, fifth_drv_close, fifth_drv_read, fifth_drv_poll, fifth_drv_fasync,
       Inner, Sharing
<1>2. ASSUME NEW p \in Procs, sixth_drv_fops(p) PROVE Inner(p) \/ (driver = "sixth" /\ Outer(p))
  BY <1>2 DEF sixth_drv_fops, sixth_drv_open, sixth_drv_close, sixth_drv_read, sixth_drv_poll,
       sixth_drv_fasync, Inner, Outer
<1>3. ASSUME NEW p \in Procs, PollTimeout(p) \/ Signal(p) PROVE Inner(p)
  BY <1>3 DEF Inner
<1>4. ASSUME NEW k \in Keys, edge_irq(k) PROVE Edge(k)
  BY <1>4 DEF edge_irq, third_drv_irq, forth_drv_irq, fifth_drv_irq, sixth_drv_irq
<1> QED
  BY <1>1, <1>2, <1>3, <1>4 DEF EdgeNext

-----------------------------------------------------------------------------
(* Types *)

LEMMA AnyTyped ==
  ASSUME Typed, NEW p \in Procs, Sharing(p) PROVE Typed'
<1> USE DEF Typed, DevTypeOK, Lines, PCs, Asleep, Results, Goto, Begin, keys, dev, sema, file
<1>1. CASE OpenAny(p)
  BY <1>1 DEF OpenAny
<1>2. CASE CloseAny(p)
  BY <1>2 DEF CloseAny
<1> QED
  BY <1>1, <1>2 DEF Sharing

LEMMA EdgeSteps ==
  ASSUME Typed, NEW k \in Keys, Edge(k)
  PROVE  Hardware /\ Report(k) /\ edge' = [edge EXCEPT ![k] = FALSE] /\ UNCHANGED pinval
BY DEF Edge, Taken, Hardware, Typed, DevTypeOK

-----------------------------------------------------------------------------
(* The key that is stored *)

LEMMA EdgeStores ==
  ASSUME Typed, StoredKeyIsCurrent, NEW k \in Keys, Edge(k) PROVE StoredKeyIsCurrent'
<1>1. g_save_key_val' = <<k, pinval[k]>> /\ UNCHANGED pinval
  BY EdgeSteps DEF Report
<1> QED
  BY <1>1 DEF StoredKeyIsCurrent

LEMMA MoveStores ==
  ASSUME Typed, StoredKeyIsCurrent, NEW k \in Keys, Move(k) PROVE StoredKeyIsCurrent'
BY DEF StoredKeyIsCurrent, Move, Typed, DevTypeOK, dev

LEMMA ProcStores ==
  ASSUME StoredKeyIsCurrent, NEW p \in Procs, Inner(p) \/ Outer(p) \/ Sharing(p) PROVE StoredKeyIsCurrent'
<1>1. UNCHANGED <<keys, g_save_key_val>>
  BY DEF Inner, Outer, Sharing, OpenAny, CloseAny, Open, Release, Request, Free, Wait, Copy, Clear, PollCheck,
         Read, Poll, Fasync, PollTimeout, Signal, dev
<1> QED
  BY <1>1 DEF StoredKeyIsCurrent, keys

-----------------------------------------------------------------------------
(***************************************************************************)
(* The lines with a handler: whoever was to free one still is, or has      *)
(* begun release() and so starts from the first line.                      *)
(***************************************************************************)

LEMMA StillToFree ==
  ASSUME Typed, HandlersAreFreed, UNCHANGED <<irqs, line>>,
         \A q \in Procs : pc[q] \notin {"out", "down"} =>
           pc'[q] \notin {"out", "down"} /\ (pc'[q] = "free" => pc[q] = "free" \/ line[q] = 0)
  PROVE  HandlersAreFreed'
<1>1. \A k \in irqs : k \in Nat /\ 0 < k
  BY DEF Typed, DevTypeOK, Keys
<1> QED
  BY <1>1 DEF HandlersAreFreed

LEMMA RequestFrees ==
  ASSUME Typed, HandlersAreFreed, NEW p \in Procs, Request(p) PROVE HandlersAreFreed'
<1>1. irqs' = irqs \cup {line[p] + 1} /\ pc[p] = "request" /\ pc \in [Procs -> PCs] /\ line \in [Procs -> 0..NKeys]
  BY DEF Request, Typed, DevTypeOK
<1>2. pc'[p] \in {"request", "open"} /\ \A q \in Procs : q # p => pc'[q] = pc[q] /\ line'[q] = line[q]
  BY <1>1 DEF Request, Return, Goto
<1> QED
  BY <1>1, <1>2 DEF HandlersAreFreed

LEMMA FreeFrees ==
  ASSUME Typed, HandlersAreFreed, NEW p \in Procs, Free(p) PROVE HandlersAreFreed'
<1>1. /\ irqs' = irqs \ {line[p] + 1} /\ pc[p] = "free" /\ pc \in [Procs -> PCs]
      /\ line \in [Procs -> 0..NKeys] /\ line[p] \in 0..NKeys - 1 /\ \A k \in irqs : k \in 1..NKeys
  BY DEF Free, Typed, DevTypeOK, Lines, Keys
<1>2. \A q \in Procs : q # p => pc'[q] = pc[q] /\ line'[q] = line[q]
  BY <1>1 DEF Free, Return, Goto
<1>3. CASE line[p] + 1 < NKeys
  <2>1. pc'[p] = "free" /\ line'[p] = line[p] + 1
    BY <1>1, <1>3 DEF Free
  <2>2. \A k \in irqs' : line[p] < k => line'[p] < k
    BY <1>1, <2>1, KeysAssumption
  <2> QED
    BY <1>1, <1>2, <2>1, <2>2 DEF HandlersAreFreed
<1>4. CASE ~(line[p] + 1 < NKeys)
  <2>1. \A k \in irqs' : ~(line[p] < k)
    BY <1>1, <1>4, KeysAssumption
  <2> QED
    BY <1>1, <1>2, <2>1 DEF HandlersAreFreed
<1> QED
  BY <1>3, <1>4

LEMMA InnerFrees ==
  ASSUME Typed, HandlersAreFreed, NEW p \in Procs, Inner(p) PROVE HandlersAreFreed'
<1>1. CASE Inner(p) /\ ~Request(p) /\ ~Free(p)
  <2>1. UNCHANGED <<irqs, line>>
    BY <1>1 DEF Inner, file, Wait, Copy, Clear, PollCheck, Read, Poll, Fasync, PollTimeout, Signal
  <2>2. pc \in [Procs -> PCs]
    BY DEF Typed, DevTypeOK
  <2>3. \A q \in Procs : pc'[q] = pc[q] \/ pc'[q] \notin {"out", "down", "free"}
    BY <1>1, <2>2 DEF Inner, Goto, Return, Begin, Then,
       Wait, Copy, Clear, PollCheck, Read, Poll, Fasync, PollTimeout, Signal, Wake, Asleep
  <2> QED
    BY <2>1, <2>3, StillToFree
<1> QED
  BY <1>1, RequestFrees, FreeFrees

LEMMA OpenersFree ==
  ASSUME Typed, HandlersAreFreed, NEW p \in Procs, Outer(p) \/ Sharing(p) PROVE HandlersAreFreed'
<1>1. UNCHANGED <<irqs, line>> /\ pc \in [Procs -> PCs] /\ Lines
  BY DEF Outer, Sharing, Open, Release, OpenAny, CloseAny, file, Typed, DevTypeOK
<1>2. \A q \in Procs : \/ pc'[q] = pc[q]
                       \/ pc[q] = "out"
                       \/ pc'[q] = "request"
                       \/ pc'[q] = "free" /\ line[q] = 0
  BY <1>1 DEF Outer, Sharing, Open, Release, OpenAny, CloseAny, Begin, Goto, sema, Lines
<1> QED
  BY <1>1, <1>2, StillToFree

LEMMA HardwareFrees ==
  ASSUME Typed, HandlersAreFreed, NEW k \in Keys, Edge(k) \/ Move(k) PROVE HandlersAreFreed'
<1>1. UNCHANGED <<irqs, line>>
  BY DEF Edge, Report, Move, file
<1>2. \A q \in Procs : pc'[q] = pc[q] \/ pc'[q] \in {"wait", "poll"}
  BY DEF Edge, Report, Move, Wake
<1> QED
  BY <1>1, <1>2, StillToFree

-----------------------------------------------------------------------------
LEMMA EdgeInitially == EdgeInit => EdgeInv
<1>1. DevInit => StoredKeyIsCurrent /\ HandlersAreFreed
  BY DEF DevInit, StoredKeyIsCurrent, HandlersAreFreed
<1> QED
  BY <1>1, InitTyped, InitOneUser DEF EdgeInit, EdgeInv

LEMMA EdgeStutterKeeps == EdgeInv /\ UNCHANGED edgevars => EdgeInv'
BY DEF EdgeInv, OneUser, Locked, Typed, DevTypeOK, Lines, OneOpener, FreesAlone, Hearing, OpenHasInterrupts,
       Told, Holds, Inside, StoredKeyIsCurrent, HandlersAreFreed, edgevars, devvars, keys, dev, file, sema

LEMMA EdgeInductive == EdgeInv /\ [EdgeNext]_edgevars => EdgeInv'
<1> SUFFICES ASSUME EdgeInv, EdgeNext PROVE EdgeInv'
  BY EdgeStutterKeeps
<1>1. UNCHANGED driver
  BY EdgeNextSteps
<1>2. ASSUME NEW p \in Procs, Inner(p) PROVE EdgeInv'
  <2>1. Typed' /\ StoredKeyIsCurrent' /\ HandlersAreFreed'
    BY <1>2, InnerTyped, ProcStores, InnerFrees DEF EdgeInv
  <2>2. driver = "sixth" => OneUser'
    BY <1>2, ProcKeeps DEF EdgeInv
  <2> QED
    BY <1>1, <2>1, <2>2 DEF EdgeInv
<1>3. ASSUME NEW p \in Procs, driver = "sixth", Outer(p) PROVE EdgeInv'
  <2>1. Typed' /\ StoredKeyIsCurrent' /\ HandlersAreFreed'
    BY <1>3, OuterTyped, ProcStores, OpenersFree DEF EdgeInv
  <2>2. OneUser'
    BY <1>3, ProcKeeps DEF EdgeInv
  <2> QED
    BY <1>1, <2>1, <2>2 DEF EdgeInv
<1>4. ASSUME NEW p \in Procs, driver # "sixth", Sharing(p) PROVE EdgeInv'
  <2>1. Typed' /\ StoredKeyIsCurrent' /\ HandlersAreFreed'
    BY <1>4, AnyTyped, ProcStores, OpenersFree DEF EdgeInv
  <2> QED
    BY <1>1, <1>4, <2>1 DEF EdgeInv
<1>5. ASSUME NEW k \in Keys, Edge(k) PROVE EdgeInv'
  <2>1. Typed' /\ StoredKeyIsCurrent' /\ HandlersAreFreed'
    BY <1>5, EdgeSteps, ReportTyped, EdgeStores, HardwareFrees DEF EdgeInv
  <2>2. driver = "sixth" => OneUser'
    BY <1>5, EdgeSteps, ReportKeeps DEF EdgeInv
  <2> QED
    BY <1>1, <2>1, <2>2 DEF EdgeInv
<1>6. ASSUME NEW k \in Keys, Move(k) PROVE EdgeInv'
  <2>1. Typed' /\ StoredKeyIsCurrent' /\ HandlersAreFreed'
    BY <1>6, MoveTyped, MoveStores, HardwareFrees DEF EdgeInv
  <2>2. driver = "sixth" => OneUser'
    BY <1>6, MoveKeeps DEF EdgeInv
  <2> QED
    BY <1>1, <2>1, <2>2 DEF EdgeInv
<1> QED
  BY <1>2, <1>3, <1>4, <1>5, <1>6, EdgeNextSteps

\* The invariant: the key that is stored and the lines that are requested, of all
\* four drivers, and the semaphore of the sixth.
THEOREM EdgeInvariance == EdgeSpec => []EdgeInv
BY EdgeInitially, EdgeInductive, PTL DEF EdgeSpec

\* All fields stay in range, whoever opens and closes at the same time.
THEOREM EdgeTypeCorrect == EdgeSpec => []EdgeTypeOK
<1>1. EdgeInv => EdgeTypeOK
  BY DEF EdgeInv, Typed, EdgeTypeOK
<1> QED
  BY <1>1, EdgeInvariance, PTL

\* However a key bounces, the level stored last is the one that it has (64-77).
THEOREM StoredLevel == EdgeSpec => []StoredKeyIsCurrent
<1>1. EdgeInv => StoredKeyIsCurrent
  BY DEF EdgeInv
<1> QED
  BY <1>1, EdgeInvariance, PTL

\* However many have the device open, no handler is left that nobody will free (88-111).
THEOREM NoHandlerLeft == EdgeSpec => []HandlersAreFreed
<1>1. EdgeInv => HandlersAreFreed
  BY DEF EdgeInv
<1> QED
  BY <1>1, EdgeInvariance, PTL

\* The sixth driver keeps what buttons_all.c keeps: one opener, who has all lines,
\* and a poll result that stays true (sixth_drv.c 113-134, 146-153, 187-197).
THEOREM SixthIsExclusive ==
  EdgeSpec => [](driver = "sixth" => OneOpener /\ OpenHasInterrupts /\ PollTold)
<1>1. EdgeInv => (driver = "sixth" => OneOpener /\ OpenHasInterrupts /\ PollTold)
  BY DEF EdgeInv, OneUser, Locked, Hearing, Told, PollTold
<1> QED
  BY <1>1, EdgeInvariance, PTL

\* Its read(), too, copies no key twice where SIGIO is the only signal; the drivers
\* that let several readers in cannot promise this (sixth_drv.c 79-82, 158-184).
THEOREM SixthReadsNewKeys ==
  ~Signals => (EdgeSpec => [][driver = "sixth" => \A p \in Procs : pc[p] = "copy" /\ pc'[p] = "clear" => fresh]_edgevars)
<1> SUFFICES ASSUME ~Signals
             PROVE  EdgeSpec => [][driver = "sixth" =>
                                 \A p \in Procs : pc[p] = "copy" /\ pc'[p] = "clear" => fresh]_edgevars
  OBVIOUS
<1> DEFINE I == driver = "sixth" => Fresh
<1>1. EdgeInit => I
  BY InitFresh DEF EdgeInit
<1>2. EdgeInv /\ I /\ [EdgeNext]_edgevars => I'
  <2> SUFFICES ASSUME EdgeInv, I, [EdgeNext]_edgevars, driver = "sixth", UNCHANGED driver PROVE Fresh'
    BY EdgeNextSteps DEF edgevars
  <2>1. Locked /\ Fresh
    BY DEF EdgeInv, OneUser
  <2>2. ASSUME NEW p \in Procs, Inner(p) \/ Outer(p) PROVE Fresh'
    BY <2>1, <2>2, InnerFresh, OuterFresh
  <2>3. ASSUME NEW k \in Keys, Edge(k) PROVE Fresh'
    BY <2>1, <2>3, ReportFresh DEF Edge
  <2>4. ASSUME NEW k \in Keys, Move(k) PROVE Fresh'
    BY <2>1, <2>4, MoveFresh
  <2>5. CASE UNCHANGED edgevars
    BY <2>1, <2>5 DEF edgevars, devvars, Fresh, Holds, Inside, dev
  <2> QED
    BY <2>2, <2>3, <2>4, <2>5, EdgeNextSteps
<1>3. I => [driver = "sixth" => \A p \in Procs : pc[p] = "copy" /\ pc'[p] = "clear" => fresh]_edgevars
  BY DEF Fresh
<1> QED
  BY <1>1, <1>2, <1>3, EdgeInvariance, PTL DEF EdgeSpec

=============================================================================
