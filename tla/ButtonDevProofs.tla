--------------------------- MODULE ButtonDevProofs ---------------------------
(***************************************************************************)
(* What every operation of ButtonDev preserves, for any number of          *)
(* processes and of lines: the lemmas from which the theorems about        *)
(* ButtonsAll and EdgeDrv are made.                                        *)
(***************************************************************************)
EXTENDS ButtonDev, SequenceTheorems, TLAPS

\* what a process does once open() has let it in, which is the same in all drivers
Inner(p) == \/ Request(p) \/ Free(p) \/ Wait(p) \/ Copy(p) \/ Clear(p) \/ PollCheck(p)
            \/ Read(p) \/ Poll(p) \/ Fasync(p) \/ PollTimeout(p) \/ Signal(p)

\* open() and release() of a driver with the semaphore
Outer(p) == (\E nb \in BOOLEAN : Open(p, nb)) \/ Release(p)

\* an edge or the timer: nothing of the processes but what Report changes
Hardware == pinval' \in [Keys -> BOOLEAN] /\ edge' \in [Keys -> BOOLEAN]

(***************************************************************************)
(* Types.  A line is counted only in the middle of open() and release().   *)
(***************************************************************************)

Lines ==
  \A p \in Procs : line[p] \in 0..NKeys - 1 /\ (pc[p] \notin {"request", "free"} => line[p] = 0)

Typed == DevTypeOK /\ Lines

LEMMA InitTyped == DevInit => Typed
<1> SUFFICES ASSUME DevInit PROVE Typed
  OBVIOUS
<1> USE KeysAssumption DEF DevInit, Keys
<1>1. waiters \in Seq(Procs)
  BY EmptySeq
<1>2. pc \in [Procs -> PCs] /\ ret \in [Procs -> Results]
  BY DEF PCs, Results
<1>3. nonblock \in [Procs -> BOOLEAN] /\ signal \in [Procs -> BOOLEAN]
  OBVIOUS
<1>4. line \in [Procs -> 0..NKeys] /\ Lines
  BY DEF Lines
<1>5. pinval \in [Keys -> BOOLEAN] /\ edge \in [Keys -> BOOLEAN]
  OBVIOUS
<1>6. g_save_key_val \in KeyVal \cup {<<>>}
  OBVIOUS
<1>7. irqs \subseteq Keys
  OBVIOUS
<1>8. count \in 0..1
  OBVIOUS
<1>9. button_async \subseteq Procs /\ ev_press \in BOOLEAN /\ fresh \in BOOLEAN
  OBVIOUS
<1> QED
  BY <1>1, <1>2, <1>3, <1>4, <1>5, <1>6, <1>7, <1>8, <1>9 DEF Typed, DevTypeOK

LEMMA InnerTyped ==
  ASSUME Typed, NEW p \in Procs, Inner(p) PROVE Typed'
<1> USE KeysAssumption DEF Typed, DevTypeOK, Lines, Keys, PCs, Asleep, Results, Goto, Return, Begin, Then,
        keys, dev, sema, file
<1>1. CASE Request(p)
  <2>1. irqs' \subseteq Keys
    <3>1. line[p] + 1 \in Keys
      OBVIOUS
    <3>2. irqs \subseteq Keys /\ irqs' = irqs \cup {line[p] + 1}
      BY <1>1 DEF Request
    <3> QED
      BY <3>1, <3>2
  <2>2. pc' \in [Procs -> PCs] /\ ret' \in [Procs -> Results] /\ signal' \in [Procs -> BOOLEAN]
    BY <1>1 DEF Request
  <2>3. line' \in [Procs -> 0..NKeys] /\ Lines'
    BY <1>1 DEF Request
  <2> QED
    BY <1>1, <2>1, <2>2, <2>3 DEF Request
<1>2. CASE Free(p)
  <2>1. irqs' \subseteq Keys
    BY <1>2 DEF Free
  <2>2. pc' \in [Procs -> PCs] /\ ret' \in [Procs -> Results] /\ signal' \in [Procs -> BOOLEAN]
    BY <1>2 DEF Free
  <2>3. line' \in [Procs -> 0..NKeys] /\ Lines'
    BY <1>2 DEF Free
  <2>4. nonblock' \in [Procs -> BOOLEAN]
    BY <1>2 DEF Free
  <2> QED
    BY <1>2, <2>1, <2>2, <2>3, <2>4 DEF Free
<1>3. CASE Wait(p)
  BY <1>3 DEF Wait
<1>4. CASE Copy(p)
  BY <1>4 DEF Copy
<1>5. CASE Clear(p)
  BY <1>5 DEF Clear
<1>6. CASE PollCheck(p)
  BY <1>6 DEF PollCheck
<1>7. CASE Read(p)
  BY <1>7 DEF Read
<1>8. CASE Poll(p)
  BY <1>8 DEF Poll
<1>9. CASE Fasync(p)
  BY <1>9 DEF Fasync
<1>10. CASE PollTimeout(p)
  BY <1>10 DEF PollTimeout
<1>11. CASE Signal(p)
  BY <1>11 DEF Signal, Wake
<1> QED
  BY <1>1, <1>2, <1>3, <1>4, <1>5, <1>6, <1>7, <1>8, <1>9, <1>10, <1>11 DEF Inner

LEMMA OuterTyped ==
  ASSUME Typed, NEW p \in Procs, Outer(p) PROVE Typed'
<1> USE KeysAssumption DEF Typed, DevTypeOK, Lines, Keys, PCs, Asleep, Results, Goto, Begin,
        keys, dev, sema, file
<1>1. ASSUME NEW nb \in BOOLEAN, Open(p, nb) PROVE Typed'
  <2>1. Append(waiters, p) \in Seq(Procs)
    OBVIOUS
  <2>2. waiters' \in {waiters, Append(waiters, p)} /\ count' \in {0, count}
    BY <1>1 DEF Open
  <2>3. pc' \in [Procs -> PCs] /\ ret' \in [Procs -> Results] /\ nonblock' \in [Procs -> BOOLEAN] /\ Lines'
    BY <1>1 DEF Open
  <2>4. waiters' \in Seq(Procs)
    BY <2>1, <2>2
  <2>5. count' \in 0..1
    BY <2>2
  <2>6. UNCHANGED <<keys, dev, irqs, signal, line>>
    BY <1>1 DEF Open
  <2> QED
    BY <2>3, <2>4, <2>5, <2>6
<1>2. CASE Release(p)
  <2>1. waiters' \in Seq(Procs)
    <3>1. waiters # <<>> => Tail(waiters) \in Seq(Procs)
      BY HeadTailProperties
    <3> QED
      BY <1>2, <3>1 DEF Release, Up
  <2>2. count' \in 0..1
    BY <1>2 DEF Release, Up
  <2>3. pc' \in [Procs -> PCs]
    BY <1>2 DEF Release
  <2>4. Lines'
    BY <1>2 DEF Release
  <2> QED
    BY <1>2, <2>1, <2>2, <2>3, <2>4 DEF Release
<1> QED
  BY <1>1, <1>2 DEF Outer

LEMMA ReportTyped ==
  ASSUME Typed, NEW k \in Keys, Hardware, Report(k) PROVE Typed'
BY DEF Hardware, Typed, DevTypeOK, Lines, Keys, KeyVal, PCs, Asleep, Report, Wake, file, sema

LEMMA MoveTyped ==
  ASSUME Typed, NEW k \in Keys, Move(k) PROVE Typed'
BY DEF Typed, DevTypeOK, Lines, Move, dev, file, sema

-----------------------------------------------------------------------------
(***************************************************************************)
(* The semaphore.  FreesAlone is what OneOpener does not say: up() comes   *)
(* before free_irq(), so the next holder may be there already, but has not *)
(* run yet.                                                                *)
(***************************************************************************)

FreesAlone ==
  /\ \A p, q \in Procs : pc[p] = "free" /\ pc[q] = "free" => p = q
  /\ \A p, q \in Procs : pc[q] = "free" /\ Holds(p) => pc[p] = "request" /\ line[p] = 0

Locked == Typed /\ OneOpener /\ FreesAlone

\* a step of somebody who is in, or of the hardware
SameHolders ==
  /\ UNCHANGED sema
  /\ \A q \in Procs : /\ Holds(q)' <=> Holds(q)
                      /\ pc'[q] = "down" <=> pc[q] = "down"

LEMMA InitLocked == DevInit => Locked
<1> SUFFICES ASSUME DevInit PROVE Locked
  OBVIOUS
<1>1. Typed
  BY InitTyped
<1>2. ToSet(waiters) = {} /\ IsInjective(waiters)
  BY DEF DevInit, ToSet, IsInjective
<1>3. \A p \in Procs : pc[p] = "out"
  BY DEF DevInit
<1> QED
  BY <1>1, <1>2, <1>3 DEF DevInit, Locked, OneOpener, FreesAlone, Holds, Inside

LEMMA SameHoldersKeep == OneOpener /\ SameHolders => OneOpener'
BY DEF OneOpener, SameHolders, sema

\* a waiter more, at the end of the queue
LEMMA Queues ==
  ASSUME NEW S, NEW s \in Seq(S), NEW e \in S, e \notin ToSet(s), IsInjective(s)
  PROVE  ToSet(Append(s, e)) = ToSet(s) \cup {e} /\ IsInjective(Append(s, e))
<1>1. /\ Len(Append(s, e)) = Len(s) + 1
      /\ \A i \in 1..Len(s) : Append(s, e)[i] = s[i]
      /\ Append(s, e)[Len(s) + 1] = e
      /\ Append(s, e) \in Seq(S)
  BY AppendProperties
<1>2. Len(s) \in Nat /\ DOMAIN s = 1..Len(s) /\ DOMAIN Append(s, e) = 1..Len(s) + 1
  BY <1>1, LenProperties
<1> QED
  BY <1>1, <1>2 DEF ToSet, IsInjective

\* the first waiter leaves the queue
LEMMA Unqueues ==
  ASSUME NEW S, NEW s \in Seq(S), s # <<>>, IsInjective(s)
  PROVE  /\ Head(s) \in ToSet(s)
         /\ ToSet(Tail(s)) = ToSet(s) \ {Head(s)} /\ IsInjective(Tail(s))
<1>1. /\ Tail(s) \in Seq(S) /\ Len(Tail(s)) = Len(s) - 1
      /\ \A i \in 1..Len(s) - 1 : Tail(s)[i] = s[i + 1]
  BY HeadTailProperties
<1>2. Len(s) \in Nat \ {0} /\ DOMAIN s = 1..Len(s) /\ DOMAIN Tail(s) = 1..Len(s) - 1
  BY <1>1, LenProperties, EmptySeq
<1>3. Head(s) = s[1]
  OBVIOUS
<1> DEFINE h == Head(s)  t == Tail(s)  n == Len(s)
<1>4. /\ n \in Nat \ {0} /\ DOMAIN s = 1..n /\ DOMAIN t = 1..n - 1 /\ h = s[1]
      /\ \A i \in 1..n - 1 : t[i] = s[i + 1]
  BY <1>1, <1>2, <1>3
<1> HIDE DEF h, t, n
<1>5. h \in ToSet(s)
  BY <1>4 DEF ToSet
<1>6. ASSUME NEW j \in DOMAIN t PROVE j + 1 \in DOMAIN s /\ t[j] = s[j + 1] /\ j + 1 # 1
  BY <1>4
<1>7. ToSet(t) \subseteq ToSet(s) \ {h}
  BY <1>4, <1>6 DEF ToSet, IsInjective
<1>8. IsInjective(t)
  BY <1>4, <1>6 DEF IsInjective
<1>9. ASSUME NEW i \in DOMAIN s, s[i] # h PROVE s[i] \in ToSet(t)
  <2>1. i - 1 \in DOMAIN t /\ t[i - 1] = s[i]
    BY <1>4, <1>9
  <2> QED
    BY <2>1 DEF ToSet
<1> QED
  BY <1>5, <1>7, <1>8, <1>9 DEF ToSet, h, t

LEMMA InnerSameHolders ==
  ASSUME Typed, NEW p \in Procs, Inner(p) PROVE SameHolders
<1> USE DEF Typed, DevTypeOK, SameHolders, Holds, Inside, Asleep, Goto, Return, Begin, Then, sema, file
<1>1. CASE Request(p)
  BY <1>1 DEF Request
<1>2. CASE Free(p)
  BY <1>2 DEF Free
<1>3. CASE Wait(p)
  BY <1>3 DEF Wait
<1>4. CASE Copy(p)
  BY <1>4 DEF Copy
<1>5. CASE Clear(p)
  BY <1>5 DEF Clear
<1>6. CASE PollCheck(p)
  BY <1>6 DEF PollCheck
<1>7. CASE Read(p)
  BY <1>7 DEF Read
<1>8. CASE Poll(p)
  BY <1>8 DEF Poll
<1>9. CASE Fasync(p)
  BY <1>9 DEF Fasync
<1>10. CASE PollTimeout(p)
  BY <1>10 DEF PollTimeout
<1>11. CASE Signal(p)
  BY <1>11 DEF Signal, Wake
<1> QED
  BY <1>1, <1>2, <1>3, <1>4, <1>5, <1>6, <1>7, <1>8, <1>9, <1>10, <1>11 DEF Inner

LEMMA InnerLocked ==
  ASSUME Locked, NEW p \in Procs, Inner(p) PROVE Locked'
<1>1. Typed' /\ OneOpener'
  BY InnerTyped, InnerSameHolders, SameHoldersKeep DEF Locked
<1>2. \A q \in Procs : pc'[q] = "free" => pc[q] = "free"
  BY DEF Locked, Typed, DevTypeOK, Inner, Goto, Return, Begin, Then,
         Request, Free, Wait, Copy, Clear, PollCheck, Read, Poll, Fasync, PollTimeout, Signal, Wake, Asleep
<1>3. ASSUME NEW q \in Procs, NEW r \in Procs, pc'[q] = "free", Holds(r)'
      PROVE  pc'[r] = "request" /\ line'[r] = 0
  <2>1. pc[q] = "free" /\ pc[r] = "request" /\ line[r] = 0 /\ r # q
    BY <1>2, <1>3, InnerSameHolders DEF SameHolders, Locked, FreesAlone
  <2>2. p # r
    BY <2>1 DEF Inner, MayRun, Return, Begin, Then,
                Request, Free, Wait, Copy, Clear, PollCheck, Read, Poll, Fasync, PollTimeout, Signal, Asleep
  <2>3. pc'[r] = pc[r] /\ line'[r] = line[r]
    BY <2>1, <2>2
       DEF Locked, Typed, DevTypeOK, Inner, Goto, Return, Begin, Then, file,
           Request, Free, Wait, Copy, Clear, PollCheck, Read, Poll, Fasync, PollTimeout, Signal
  <2> QED
    BY <2>1, <2>3
<1> QED
  BY <1>1, <1>2, <1>3 DEF Locked, FreesAlone

LEMMA OuterLocked ==
  ASSUME Locked, NEW p \in Procs, Outer(p) PROVE Locked'
<1> USE DEF FreesAlone, Holds, Inside, MayRun, Goto, Begin
<1>1. Typed' /\ pc \in [Procs -> PCs] /\ waiters \in Seq(Procs) /\ count \in 0..1
  BY OuterTyped DEF Typed, DevTypeOK, Locked
<1>2. /\ \A q, r \in Procs : Holds(q) /\ Holds(r) => q = r
      /\ count = 1 <=> \A q \in Procs : ~Holds(q)
      /\ ToSet(waiters) = {q \in Procs : pc[q] = "down"} /\ IsInjective(waiters)
      /\ waiters # <<>> => count = 0
  BY DEF Locked, OneOpener
<1>3. ASSUME NEW nb \in BOOLEAN, Open(p, nb) PROVE OneOpener' /\ FreesAlone'
  <2>1. pc[p] = "out" /\ UNCHANGED line /\ \A q \in Procs : q # p => pc[q] # "free"
    BY <1>3 DEF Open
  <2>2. CASE count = 1 /\ count' = 0 /\ pc' = [pc EXCEPT ![p] = "request"] /\ UNCHANGED waiters
    BY <1>1, <1>2, <2>1, <2>2 DEF OneOpener
  <2>3. CASE count = 0 /\ waiters' = Append(waiters, p) /\ pc' = [pc EXCEPT ![p] = "down"] /\ UNCHANGED count
    <3>1. p \notin ToSet(waiters)
      BY <1>2, <2>1
    <3>2. ToSet(waiters') = ToSet(waiters) \cup {p} /\ IsInjective(waiters')
      BY <1>1, <1>2, <2>3, <3>1, Queues
    <3> QED
      BY <1>1, <1>2, <2>1, <2>3, <3>2 DEF OneOpener
  <2>4. CASE UNCHANGED <<count, waiters, pc>>
    BY <1>2, <2>1, <2>4 DEF OneOpener
  <2> QED
    BY <1>3, <2>2, <2>3, <2>4 DEF Open, sema
<1>4. ASSUME Release(p) PROVE OneOpener' /\ FreesAlone'
  <2>1. pc[p] = "open" /\ UNCHANGED line /\ count = 0
        /\ \A q \in Procs : q # p => pc[q] # "free" /\ ~Holds(q)
    BY <1>1, <1>2, <1>4 DEF Release
  <2>2. \A q \in Procs : pc[q] # "open" \/ q = p
    BY <2>1
  <2>3. CASE waiters = <<>>
    <3>1. count' = 1 /\ UNCHANGED waiters
      BY <1>4, <2>3 DEF Release, Up
    <3>2. pc' = [pc EXCEPT ![p] = "free"]
      BY <1>1, <1>4, <2>3 DEF Release
    <3> QED
      BY <1>1, <1>2, <2>1, <2>3, <3>1, <3>2 DEF OneOpener
  <2>4. CASE waiters # <<>>
    <3> DEFINE h == Head(waiters)
    <3>1. /\ waiters' = Tail(waiters) /\ UNCHANGED count
          /\ pc' = [q \in Procs |-> IF q = p THEN "free" ELSE IF q = h THEN "request" ELSE pc[q]]
      BY <1>4, <2>4 DEF Release, Up
    <3>2. ToSet(waiters') = ToSet(waiters) \ {h} /\ IsInjective(waiters') /\ h \in ToSet(waiters)
      BY <1>1, <1>2, <2>4, <3>1, Unqueues
    <3> HIDE DEF h
    <3>3. h \in Procs /\ pc[h] = "down" /\ h # p /\ line[h] = 0
      BY <1>2, <2>1, <3>2 DEF Locked, Typed, Lines
    <3>4. FreesAlone'
      BY <2>1, <3>1, <3>3
    <3>5. \A q, r \in Procs : Holds(q)' /\ Holds(r)' => q = r
      BY <2>1, <3>1, <3>3
    <3>6. pc'[h] = "request" /\ count' = 0
      BY <2>1, <3>1, <3>3
    <3>7. ToSet(waiters') = {q \in Procs : pc'[q] = "down"}
      BY <1>2, <2>1, <3>1, <3>2, <3>3
    <3>8. count' = 1 <=> \A q \in Procs : ~Holds(q)'
      BY <3>3, <3>6
    <3> QED
      BY <3>2, <3>4, <3>5, <3>6, <3>7, <3>8 DEF OneOpener
  <2> QED
    BY <2>3, <2>4
<1> QED
  BY <1>1, <1>3, <1>4 DEF Outer, Locked

LEMMA ReportLocked ==
  ASSUME Locked, NEW k \in Keys, Hardware, Report(k) PROVE Locked'
<1>1. Typed'
  BY ReportTyped DEF Locked
<1>2. UNCHANGED line /\ \A q \in Procs : pc'[q] = Wake(pc[q])
  BY DEF Report, file
<1>3. \A q \in Procs : pc'[q] = pc[q] \/ (pc[q] \in Asleep /\ pc'[q] \in {"wait", "poll"})
  BY <1>2 DEF Wake, Asleep
<1>4. OneOpener'
  BY <1>3, SameHoldersKeep DEF Locked, SameHolders, Holds, Inside, Asleep, Report, file
<1> QED
  BY <1>1, <1>2, <1>3, <1>4 DEF Locked, FreesAlone, Holds, Inside, Asleep

LEMMA MoveLocked ==
  ASSUME Locked, NEW k \in Keys, Move(k) PROVE Locked'
BY MoveTyped DEF Locked, OneOpener, FreesAlone, Holds, Inside, Move, file, sema

-----------------------------------------------------------------------------
(***************************************************************************)
(* What the holder of the semaphore may rely on: the lines it has          *)
(* requested so far stay requested, although the last holder may still be  *)
(* freeing its own, and the key poll() told it of is not read by another.  *)
(***************************************************************************)

Hearing ==
  /\ OpenHasInterrupts
  /\ \A p \in Procs : pc[p] = "request" => 1..line[p] \subseteq irqs

Told == \A p \in Procs : ret[p] = "POLLIN" => ev_press /\ pc[p] = "open"

OneUser == Locked /\ Hearing /\ Told

LEMMA InitOneUser == DevInit => OneUser
BY InitLocked DEF DevInit, OneUser, Hearing, OpenHasInterrupts, Holds, Inside, Told

LEMMA RequestHears ==
  ASSUME Locked, Hearing, NEW p \in Procs, Request(p) PROVE Hearing'
<1> USE KeysAssumption DEF Hearing, OpenHasInterrupts
<1>1. /\ line[p] \in 0..NKeys - 1 /\ irqs \subseteq Keys /\ irqs' = irqs \cup {line[p] + 1}
      /\ pc \in [Procs -> PCs] /\ line \in [Procs -> 0..NKeys]
      /\ 1..line[p] \subseteq irqs /\ Holds(p)
  BY DEF Locked, Typed, DevTypeOK, Lines, Request, Holds, Inside
<1>2. 1..line[p] + 1 \subseteq irqs'
  BY <1>1
<1>3. \A q \in Procs : q # p => ~Holds(q) /\ pc'[q] = pc[q]
  BY <1>1 DEF Locked, OneOpener, Request, Return, Goto
<1>4. CASE line[p] + 1 < NKeys
  BY <1>1, <1>2, <1>3, <1>4 DEF Request, Holds, Inside
<1>5. CASE ~(line[p] + 1 < NKeys)
  <2>1. line[p] + 1 = NKeys /\ NKeys \in Keys
    BY <1>1, <1>5 DEF Keys
  <2>2. irqs' \subseteq Keys /\ Keys \subseteq irqs'
    BY <1>1, <1>2, <2>1 DEF Keys
  <2>3. pc'[p] = "open"
    BY <1>1, <1>5 DEF Request, Return, Goto
  <2> QED
    BY <1>3, <2>2, <2>3 DEF Holds, Inside
<1> QED
  BY <1>4, <1>5

LEMMA InnerHears ==
  ASSUME Locked, Hearing, NEW p \in Procs, Inner(p) PROVE Hearing'
<1>1. CASE Request(p)
  BY <1>1, RequestHears
<1>2. CASE Free(p)
  <2>1. \A q \in Procs : Holds(q) => pc[q] = "request" /\ line[q] = 0 /\ q # p
    BY <1>2 DEF Locked, FreesAlone, Free, Holds
  <2>2. \A q \in Procs : q # p => pc'[q] = pc[q] /\ line'[q] = line[q]
    BY <1>2 DEF Locked, Typed, DevTypeOK, Free, Return, Goto
  <2>3. ~Holds(p)'
    BY <1>2, InnerSameHolders DEF Free, Locked, SameHolders, Inner, Holds
  <2> QED
    BY <2>1, <2>2, <2>3 DEF Hearing, OpenHasInterrupts, Holds, Inside
<1>3. CASE UNCHANGED <<irqs, line>> /\ pc[p] # "request" /\ pc'[p] # "request"
           /\ \A q \in Procs : q # p => pc'[q] = pc[q]
  BY <1>3, InnerSameHolders DEF Locked, SameHolders, Hearing, OpenHasInterrupts
<1>4. CASE Inner(p) /\ ~Request(p) /\ ~Free(p)
  <2>1. UNCHANGED <<irqs, line>>
    BY <1>4 DEF Inner, file, Wait, Copy, Clear, PollCheck, Read, Poll, Fasync, PollTimeout, Signal
  <2>2. pc \in [Procs -> PCs]
    BY DEF Locked, Typed, DevTypeOK
  <2>3. pc[p] # "request" /\ pc'[p] # "request" /\ \A q \in Procs : q # p => pc'[q] = pc[q]
    BY <1>4, <2>2 DEF Inner, Goto, Return, Begin, Then,
       Wait, Copy, Clear, PollCheck, Read, Poll, Fasync, PollTimeout, Signal, Wake, Asleep
  <2> QED
    BY <1>3, <2>1, <2>3
<1> QED
  BY <1>1, <1>2, <1>4

LEMMA OuterHears ==
  ASSUME Locked, Hearing, NEW p \in Procs, Outer(p) PROVE Hearing'
<1>1. UNCHANGED <<irqs, line>> /\ pc \in [Procs -> PCs] /\ Lines
  BY DEF Outer, Open, Release, Locked, Typed, DevTypeOK
<1>2. \A q \in Procs : \/ pc'[q] = pc[q]
                       \/ pc'[q] \in {"down", "free"}
                       \/ pc'[q] = "request" /\ line[q] = 0
  <2>1. CASE Release(p)
    <3>1. waiters # <<>> => Head(waiters) \in ToSet(waiters)
      BY Unqueues DEF Locked, OneOpener, Typed, DevTypeOK
    <3>2. waiters # <<>> => pc[Head(waiters)] = "down"
      BY <3>1 DEF Locked, OneOpener
    <3> QED
      BY <1>1, <2>1, <3>2 DEF Lines, Release
  <2>2. ASSUME NEW nb \in BOOLEAN, Open(p, nb), NEW q \in Procs
        PROVE  pc'[q] \in {pc[q], "down"} \/ (pc'[q] = "request" /\ line[q] = 0)
    BY <1>1, <2>2 DEF Lines, Open, Begin, Goto
  <2> QED
    BY <2>1, <2>2 DEF Outer
<1> QED
  BY <1>1, <1>2 DEF Hearing, OpenHasInterrupts, Holds, Inside

LEMMA InnerTold ==
  ASSUME Locked, Told, NEW p \in Procs, Inner(p) PROVE Told'
<1>1. CASE Clear(p)
  <2>1. \A q \in Procs : q # p => pc[q] # "open"
    BY <1>1 DEF Locked, OneOpener, Holds, Inside, Clear, Return
  <2> QED
    BY <1>1, <2>1 DEF Told, Locked, Typed, DevTypeOK, Clear, Return, Goto
<1>2. CASE ~Clear(p)
  BY <1>2 DEF Told, Locked, Typed, DevTypeOK, Inner, Goto, Return, Begin, Then, file, dev,
       Request, Free, Wait, Copy, PollCheck, Read, Poll, Fasync, PollTimeout, Signal, Asleep
<1> QED
  BY <1>1, <1>2

LEMMA OuterTold ==
  ASSUME Locked, Told, NEW p \in Procs, Outer(p) PROVE Told'
<1>1. \A q \in Procs : pc[q] = "open" => pc'[q] = pc[q] \/ (q = p /\ ret'[q] = "ok")
  BY DEF Outer, Open, Release, Begin, Goto, Locked, Typed, DevTypeOK, OneOpener, ToSet
<1>2. \A q \in Procs : ret'[q] = ret[q] \/ ret'[q] # "POLLIN"
  BY DEF Outer, Open, Release, Begin, Goto, Locked, Typed, DevTypeOK
<1>3. UNCHANGED ev_press
  BY DEF Outer, Open, Release, dev
<1> QED
  BY <1>1, <1>2, <1>3 DEF Told

LEMMA ProcKeeps ==
  ASSUME OneUser, NEW p \in Procs, Inner(p) \/ Outer(p) PROVE OneUser'
BY InnerLocked, OuterLocked, InnerHears, OuterHears, InnerTold, OuterTold DEF OneUser

LEMMA ReportKeeps ==
  ASSUME OneUser, NEW k \in Keys, Hardware, Report(k) PROVE OneUser'
<1>1. UNCHANGED <<irqs, line, ret>> /\ ev_press'
  BY DEF Report, file
<1>2. \A q \in Procs : pc'[q] = pc[q] \/ (pc[q] \in Asleep /\ pc'[q] \in {"wait", "poll"})
  BY DEF Report, Wake, Asleep
<1> QED
  BY <1>1, <1>2, ReportLocked DEF OneUser, Hearing, OpenHasInterrupts, Told, Holds, Inside, Asleep

LEMMA MoveKeeps ==
  ASSUME OneUser, NEW k \in Keys, Move(k) PROVE OneUser'
BY MoveLocked DEF OneUser, Hearing, OpenHasInterrupts, Told, Holds, Inside, Move, file, dev

-----------------------------------------------------------------------------
(***************************************************************************)
(* Where SIGIO is the only signal, whatever makes read() go on to copy     *)
(* means a key that no read() has copied: ev_press does, but for the       *)
(* moment between copying and clearing it, and so does a pending signal,   *)
(* which only a report sent, to a process inside a call.                   *)
(***************************************************************************)

Within == Asleep \cup {"wait", "copy", "clear", "poll"}

Fresh ==
  /\ \A p \in button_async : p \in Procs /\ Holds(p) /\ pc[p] # "request"
  /\ \A p \in Procs : signal[p] => pc[p] \in Within /\ (pc[p] # "clear" => fresh)
  /\ ev_press => fresh \/ \E p \in Procs : pc[p] = "clear"
  /\ \A p \in Procs : pc[p] = "copy" => fresh

LEMMA InitFresh == DevInit => Fresh
BY DEF DevInit, Fresh

LEMMA CopyFresh ==
  ASSUME Locked, Fresh, NEW p \in Procs, Copy(p) PROVE Fresh'
<1>1. \A q \in Procs : q # p => pc[q] \notin Within
  BY DEF Locked, OneOpener, Copy, Return, Then, Holds, Inside, Within, Asleep
<1>2. pc \in [Procs -> PCs] /\ signal \in [Procs -> BOOLEAN]
  BY DEF Locked, Typed, DevTypeOK
<1>3. \A q \in Procs : q # p => pc'[q] = pc[q] /\ signal'[q] = signal[q]
  BY <1>2 DEF Copy, Return, Then, Goto
<1>4. \/ pc'[p] = "open" /\ ~signal'[p] /\ UNCHANGED fresh
      \/ pc'[p] = "clear"
  BY <1>2 DEF Copy, Return, Then, Goto
<1>5. UNCHANGED <<button_async, ev_press>> /\ pc[p] = "copy"
  BY DEF Copy, Return, Then
<1> QED
  BY <1>1, <1>3, <1>4, <1>5 DEF Fresh, Holds, Inside, Within, Asleep

LEMMA ClearFresh ==
  ASSUME Locked, Fresh, NEW p \in Procs, Clear(p) PROVE Fresh'
BY DEF Locked, Typed, DevTypeOK, Fresh, Clear, Return, Goto, Holds, Inside, Within, Asleep

LEMMA InnerFresh ==
  ASSUME ~Signals, Locked, Fresh, NEW p \in Procs, Inner(p) PROVE Fresh'
<1> USE DEF Locked, Typed, DevTypeOK, Fresh, Within, Asleep, Holds, Inside, Goto, Return, Begin, Then, dev
<1>1. CASE Request(p)
  BY <1>1, ZenonT(30) DEF Request
<1>2. CASE Free(p)
  BY <1>2, ZenonT(30) DEF Free
<1>3. CASE Wait(p)
  BY <1>3 DEF Wait, MayRun
<1>4. CASE Copy(p)
  BY <1>4, CopyFresh
<1>5. CASE Clear(p)
  BY <1>5, ClearFresh
<1>6. CASE PollCheck(p)
  BY <1>6, ZenonT(30) DEF PollCheck
<1>7. CASE Read(p)
  BY <1>7 DEF Read, MayRun
<1>8. CASE Poll(p)
  BY <1>8 DEF Poll
<1>9. CASE Fasync(p)
  BY <1>9 DEF Fasync
<1>10. CASE PollTimeout(p)
  BY <1>10 DEF PollTimeout
<1>11. CASE Signal(p)
  BY <1>11 DEF Signal
<1> QED
  BY <1>1, <1>2, <1>3, <1>4, <1>5, <1>6, <1>7, <1>8, <1>9, <1>10, <1>11 DEF Inner

LEMMA OuterFresh ==
  ASSUME Locked, Fresh, NEW p \in Procs, Outer(p) PROVE Fresh'
<1>1. \A q \in Procs : pc'[q] # pc[q] => pc[q] \in {"out", "down"} \/ (q = p /\ pc[q] = "open")
  <2>1. waiters # <<>> => Head(waiters) \in ToSet(waiters)
    BY Unqueues DEF Locked, OneOpener, Typed, DevTypeOK
  <2> QED
    BY <2>1 DEF Outer, Open, Release, Begin, Goto, Locked, Typed, DevTypeOK, OneOpener
<1>2. UNCHANGED <<signal, fresh, ev_press>> /\ button_async' \subseteq button_async
  BY DEF Outer, Open, Release, dev
<1>3. \A q \in Procs : pc'[q] # pc[q] => pc'[q] \notin {"clear", "copy"}
  BY DEF Outer, Open, Release, Begin, Goto, Locked, Typed, DevTypeOK, sema
<1>4. CASE Release(p)
  <2>1. button_async' = button_async \ {p}
    BY <1>4 DEF Release
  <2> QED
    BY <1>1, <1>2, <1>3, <2>1 DEF Fresh, Holds, Inside, Within, Asleep
<1>5. CASE ~Release(p)
  <2>1. UNCHANGED button_async /\ pc[p] = "out"
    BY <1>5 DEF Outer, Open, dev
  <2> QED
    BY <1>1, <1>2, <1>3, <2>1 DEF Fresh, Holds, Inside, Within, Asleep
<1> QED
  BY <1>4, <1>5

LEMMA ReportFresh ==
  ASSUME Locked, Fresh, NEW k \in Keys, Report(k) PROVE Fresh'
<1>1. fresh' /\ UNCHANGED button_async
  BY DEF Report
<1>2. \A q \in Procs : \/ pc'[q] = pc[q]
                       \/ pc[q] \in Asleep /\ pc'[q] \in {"wait", "poll"}
  BY DEF Report, Wake, Asleep
<1>3. \A q \in Procs : signal'[q] => signal[q] \/ (q \in button_async /\ pc[q] \notin {"out", "open"})
  BY DEF Report, InKernel
<1>4. pc \in [Procs -> PCs]
  BY DEF Locked, Typed, DevTypeOK
<1> QED
  BY <1>1, <1>2, <1>3, <1>4 DEF Fresh, Holds, Inside, Within, Asleep, PCs

LEMMA MoveFresh ==
  ASSUME Fresh, NEW k \in Keys, Move(k) PROVE Fresh'
BY DEF Fresh, Move, Holds, Inside, dev

=============================================================================
