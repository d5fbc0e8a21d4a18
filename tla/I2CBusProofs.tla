---------------------------- MODULE I2CBusProofs ----------------------------
(***************************************************************************)
(* Theorems about I2CBus for any number and length of messages, any set of *)
(* callers, with and without timeouts.                                     *)
(***************************************************************************)
EXTENDS I2CBus, TLAPS

(***************************************************************************)
(* The inductive invariant.  Always is what type correctness needs, dirty  *)
(* transfers included.  Clean says, for a transfer begun on an idle        *)
(* controller, how the driver's fields, the controller and what the wires  *)
(* have carried correspond at every point.                                 *)
(***************************************************************************)

Setup == {"num", "cur", "ptr", "err", "state", "iicds", "iicstat"}

\* the transfer is on the wires: its owner waits, or has given it up
Running == pc = "wait" \/ (pc = "idle" /\ ret = ETIMEDOUT)

Always ==
  /\ pc # "idle" \/ state # "IDLE" => msgs \in Transfers
  /\ msgs \in Transfers => ptr \in 1..Len(msgs)
  /\ pend => phase = "held"
  /\ wild => phase # "idle"

\* what xfer has set up so far
Prepared ==
  /\ phase = "idle" /\ ptr = 1 /\ sm = 0 /\ sn = 0 /\ ev = Quiet
  /\ pc # "num" => msgs_num = Len(msgs)
  /\ pc \notin {"num", "cur"} => cur_msgs = 0
  /\ pc \notin {"num", "cur", "ptr"} => cur_ptr = 0
  /\ pc \in {"iicds", "iicstat"} => state = "START"
  /\ pc = "iicstat" => ds = <<1, Address>>

PrevDone == sm = ptr - 1 /\ (sm = 0 \/ sn = msgs[sm].len)
Accepted == ev.op # "P" /\ (ev.op \in {"S", "W"} => ev.ack)

Addressing ==
  /\ phase = "addr" /\ state = "START"
  /\ cur_ptr = 0 /\ ds = <<ptr, Address>> /\ mode = Direction(M)
  /\ PrevDone /\ Accepted

Addressed ==
  /\ phase = "held" /\ state = "START"
  /\ cur_ptr = 0 /\ mode = Direction(M)
  /\ ev.op = "S" /\ (ev.ack <=> ~lastbit)
  /\ IF lastbit THEN PrevDone ELSE sm = ptr /\ sn = 0

Writing ==
  /\ phase = "tx" /\ state = "WRITE" /\ mode = "tx"
  /\ sm = ptr /\ cur_ptr = sn + 1 /\ cur_ptr <= M.len /\ ~M.rd
  /\ ds = <<ptr, sn>> /\ Accepted

Written ==
  /\ phase = "held" /\ state = "WRITE" /\ mode = "tx"
  /\ sm = ptr /\ cur_ptr = (IF lastbit THEN sn + 1 ELSE sn) /\ cur_ptr <= M.len /\ ~M.rd
  /\ ev.op = "W" /\ (ev.ack <=> ~lastbit)

Reading ==
  /\ phase = "rx" /\ state = "READ" /\ mode = "rx"
  /\ sm = ptr /\ cur_ptr = sn /\ sn < M.len /\ M.rd
  /\ (ack <=> sn + 1 < M.len) /\ Accepted

HasRead ==
  /\ phase = "held" /\ state = "READ" /\ mode = "rx"
  /\ sm = ptr /\ sn = cur_ptr + 1 /\ sn <= M.len /\ M.rd
  /\ ds = <<ptr, cur_ptr>> /\ ev.op = "R"

Stopped ==
  /\ phase = "idle" /\ state = "STOP"
  /\ ev.op = "P" /\ (err = OK <=> AllSent)

OnTheWires ==
  /\ msgs \in Transfers /\ msgs_num = Len(msgs) /\ cur_msgs = ptr - 1
  /\ Addressing \/ Addressed \/ Writing \/ Written \/ Reading \/ HasRead \/ Stopped

AtRest == phase = "idle" /\ (ret = OK <=> AllSent)

Clean ==
  /\ ~wild
  /\ pend <=> phase = "held"
  /\ pc \in Setup => Prepared
  /\ Running => OnTheWires
  /\ pc = "idle" /\ ret # ETIMEDOUT => AtRest

IInv == TypeOK /\ Always /\ (~dirty => Clean)

-----------------------------------------------------------------------------
\* What the handler may rely on about a transfer it was given: it has messages,
\* and each has a direction and a bounded length (71, 200, 262).
LEMMA TransferFacts ==
  ASSUME NEW q \in Transfers
  PROVE  /\ Len(q) \in 1..MaxMsgs
         /\ \A i \in 1..Len(q) : q[i] \in Msg /\ q[i].rd \in BOOLEAN /\ q[i].len \in 0..MaxLen
         /\ q # <<>>
<1>1. PICK n \in 1..MaxMsgs : q \in [1..n -> Msg]
  BY DEF Transfers
<1>2. n \in Nat /\ Len(q) = n
  BY <1>1, BoundsAssumption
<1>. QED
  BY <1>1, <1>2 DEF Msg

\* The message the handler works on is one of the caller's (64, 273, 318).
LEMMA CurrentMessage ==
  ASSUME TypeOK, Always, msgs \in Transfers
  PROVE  /\ M \in Msg /\ M.rd \in BOOLEAN /\ M.len \in 0..MaxLen
         /\ ptr \in 1..Len(msgs) /\ Len(msgs) \in 1..MaxMsgs
  BY TransferFacts DEF M, Always

\* The module is loaded in a state that satisfies the invariant (368-382).
LEMMA InitInv == Init => IInv
<1>. SUFFICES ASSUME Init PROVE IInv
  OBVIOUS
<1>. USE BoundsAssumption DEF Init, OK, ENODEV, ETIMEDOUT
<1>1. NoByte \in Byte /\ Quiet \in Event
  BY DEF NoByte, Byte, Quiet, Event, Address
<1>2. msgs \notin Transfers
  BY TransferFacts
<1>3. mem \in [Cells -> Byte]
  BY <1>1
<1>4. TypeOK
  <2>1. msgs \in Transfers \cup {<<>>}
    OBVIOUS
  <2>2. ptr \in 1..MaxMsgs /\ msgs_num \in 0..MaxMsgs /\ cur_msgs \in Nat /\ cur_ptr \in 0..MaxLen
    OBVIOUS
  <2>3. state \in States /\ err \in {OK, ENODEV}
    BY DEF States
  <2>4. ack \in BOOLEAN /\ pend \in BOOLEAN /\ lastbit \in BOOLEAN /\ dirty \in BOOLEAN /\ wild \in BOOLEAN
   OBVIOUS
  <2>5. mode \in {"rx", "tx"} /\ phase \in Phases /\ pc \in Steps
    BY DEF Phases, Steps
  <2>6. ds \in Byte /\ ev \in Event
    BY <1>1
  <2>7. sm \in 0..MaxMsgs /\ sn \in 0..MaxLen
    OBVIOUS
  <2>8. ret \in {OK, ENODEV, ETIMEDOUT}
    OBVIOUS
  <2>. QED
    BY <1>3, <2>1, <2>2, <2>3, <2>4, <2>5, <2>6, <2>7, <2>8 DEF TypeOK
<1>5. Always
  BY <1>2 DEF Always
<1>6. Clean
  BY DEF Clean, Setup, Running, AtRest, AllSent
<1>. QED
  BY <1>4, <1>5, <1>6 DEF IInv

\* Ending, going to the next message, and going on in this one keep the driver's
\* fields in range, dirty or not (94-136, 271-279, 260-268, 297-314).
LEMMA StopTyped ==
  ASSUME TypeOK, Always, msgs \in Transfers, NEW e \in {OK, ENODEV}, StopWith(e), Handle,
         cur_ptr' \in 0..MaxLen, mem' \in [Cells -> Byte], UNCHANGED wild
  PROVE  TypeOK' /\ Always'
<1>1. StopSent \in Event
  BY BoundsAssumption DEF StopSent, Event, Byte, NoByte, Address
<1>2. mode' \in {"rx", "tx"} /\ ev' = StopSent /\ state' = "STOP" /\ phase' = "idle"
  BY DEF StopWith, Direction
<1>3. UNCHANGED <<msgs, ptr, msgs_num, cur_msgs, ds, lastbit, sm, sn, pc, ret, dirty, wild>>
  BY DEF StopWith, Handle
<1>4. err' = e /\ ack' = TRUE /\ pend' = FALSE
  BY DEF StopWith, Handle
<1>5. TypeOK'
  BY <1>1, <1>2, <1>3, <1>4 DEF TypeOK, States, Phases
<1>. QED
  BY <1>2, <1>3, <1>4, <1>5 DEF Always, Handle

\* the same for msgs++ and the next START
LEMMA NextMsgTyped ==
  ASSUME TypeOK, Always, msgs \in Transfers, NextMsg, Handle,
         mem' \in [Cells -> Byte], UNCHANGED wild
  PROVE  TypeOK' /\ Always'
<1>1. ptr \in 1..Len(msgs) /\ Len(msgs) \in 1..MaxMsgs
  BY CurrentMessage
<1>2. mode' \in {"rx", "tx"} /\ ds' = <<ptr + 1, Address>> /\ state' = "START" /\ phase' = "addr"
  BY DEF NextMsg, Direction
<1>3. ptr' = ptr + 1 /\ ptr < Len(msgs) /\ cur_msgs' = cur_msgs + 1 /\ cur_ptr' = 0 /\ pend' = FALSE
  BY DEF NextMsg, Handle
<1>4. UNCHANGED <<msgs, msgs_num, err, ack, lastbit, sm, sn, ev, pc, ret, dirty, wild>>
  BY DEF NextMsg, Handle, wires
<1>5. ds' \in Byte /\ ptr' \in 1..MaxMsgs
  BY <1>1, <1>2, <1>3, BoundsAssumption DEF Byte, Address
<1>6. cur_msgs' \in Nat /\ cur_ptr' \in 0..MaxLen
  BY <1>3, BoundsAssumption DEF TypeOK
<1>7. TypeOK'
  BY <1>2, <1>3, <1>4, <1>5, <1>6 DEF TypeOK, States, Phases
<1>. QED
  BY <1>1, <1>2, <1>3, <1>4, <1>7 DEF Always, Handle

\* the same for the next byte written
LEMMA WriteNextTyped ==
  ASSUME TypeOK, Always, msgs \in Transfers, WriteNext, Handle, UNCHANGED <<mem, wild>>
  PROVE  TypeOK' /\ Always'
<1>1. CASE /\ ~isEndData(cur_ptr) /\ UNCHANGED <<ptr, cur_msgs, err, mode, wires>>
           /\ ds' = <<ptr, cur_ptr>> /\ cur_ptr' = cur_ptr + 1 /\ state' = "WRITE"
           /\ ack' = TRUE /\ Resume
  <2>1. M.len \in 0..MaxLen
    BY CurrentMessage
  <2>2. cur_ptr + 1 \in 0..MaxLen /\ <<ptr, cur_ptr>> \in Byte
    BY <1>1, <2>1, BoundsAssumption DEF TypeOK, isEndData, Byte
  <2>3. TypeOK'
    BY <1>1, <2>2 DEF TypeOK, Resume, Handle, States, Phases, wires
  <2>. QED
    BY <1>1, <2>3 DEF Always, Handle
<1>2. CASE NextMsg
  BY <1>2, NextMsgTyped DEF TypeOK
<1>3. CASE StopWith(OK) /\ UNCHANGED cur_ptr
  BY <1>3, StopTyped DEF TypeOK
<1>. QED
  BY <1>1, <1>2, <1>3 DEF WriteNext

\* the same for the next byte read
LEMMA NextReadTyped ==
  ASSUME TypeOK, Always, msgs \in Transfers, NEW p \in 0..MaxLen, NextRead(p), Handle,
         mem' \in [Cells -> Byte], UNCHANGED wild
  PROVE  TypeOK' /\ Always'
<1>1. CASE UNCHANGED <<ptr, cur_msgs, err, mode, ds, wires>> /\ state' = "READ" /\ cur_ptr' = p
           /\ ack' = ~isLastData(p) /\ Resume
  BY <1>1, BoundsAssumption
  DEF TypeOK, Always, Resume, Handle, States, Phases, wires
<1>2. CASE NextMsg
  BY <1>2, NextMsgTyped
<1>3. CASE StopWith(OK) /\ cur_ptr' = p
  BY <1>3, StopTyped
<1>. QED
  BY <1>1, <1>2, <1>3 DEF NextRead

\* Types and ranges are inductive by themselves.
LEMMA TypeStep == TypeOK /\ Always /\ [Next]_vars => TypeOK' /\ Always'
<1>. SUFFICES ASSUME TypeOK, Always, [Next]_vars PROVE TypeOK' /\ Always'
  OBVIOUS
<1>. USE BoundsAssumption
<1>. USE DEF TypeOK, Always, xfer_data, regs, wires, caller, Step, OK, ENODEV, ETIMEDOUT
<1>1. CASE UNCHANGED vars
  BY <1>1 DEF vars
<1>2. ASSUME NEW q \in Calls, Call(q) PROVE TypeOK' /\ Always'
  <2>1. q \in Transfers /\ Len(q) \in 1..MaxMsgs
    BY CallsAssumption, TransferFacts
  <2>2. NoByte \in Byte /\ Quiet \in Event
    BY DEF NoByte, Byte, Quiet, Event, Address
  <2>3. mem' \in [Cells -> Byte] /\ ev' \in Event /\ dirty' \in BOOLEAN
    BY <1>2, <2>2 DEF Call
  <2>4. msgs' = q /\ ptr' = 1 /\ sm' = 0 /\ sn' = 0 /\ pc' \in Steps
        /\ UNCHANGED <<msgs_num, cur_msgs, cur_ptr, state, err, regs, ret, wild>>
    BY <1>2 DEF Call, Steps
  <2>. QED
    BY <2>1, <2>3, <2>4
<1>3. CASE SetNum
  BY <1>3, TransferFacts DEF SetNum, Steps
<1>4. CASE SetCur
  BY <1>4 DEF SetCur, Steps
<1>5. CASE SetPtr
  BY <1>5 DEF SetPtr, Steps
<1>6. CASE SetErr
  BY <1>6 DEF SetErr, Steps
<1>7. CASE StartState
  BY <1>7 DEF StartState, Steps, States
<1>8. CASE StartData
  BY <1>8 DEF StartData, Steps, Byte, Address
<1>9. CASE StartStat
  BY <1>9 DEF StartStat, Steps, Phases, Direction
<1>10. CASE Finish
  BY <1>10 DEF Finish, Steps
<1>11. CASE Timeout
  BY <1>11 DEF Timeout, Steps
<1>12. ASSUME NEW nack \in BOOLEAN, AddrDone(nack) PROVE TypeOK' /\ Always'
  BY <1>12 DEF AddrDone, Interrupt, Up, Event, Phases
<1>13. ASSUME NEW nack \in BOOLEAN, WriteDone(nack) PROVE TypeOK' /\ Always'
  BY <1>13 DEF WriteDone, Interrupt, Up, Event, Phases
<1>14. CASE ReadDone
  BY <1>14 DEF ReadDone, Interrupt, Up, Event, Phases, Byte
<1>15. CASE IrqStart
  <2>1. msgs \in Transfers /\ UNCHANGED <<mem, wild>> /\ Handle
    BY <1>15 DEF IrqStart
  <2>2. CASE \E e \in {OK, ENODEV} : StopWith(e) /\ UNCHANGED cur_ptr
    BY <2>1, <2>2, StopTyped
  <2>3. CASE NextRead(cur_ptr)
    BY <2>1, <2>3, NextReadTyped
  <2>4. CASE WriteNext
    BY <2>1, <2>4, WriteNextTyped
  <2>. QED
    BY <1>15, <2>2, <2>3, <2>4 DEF IrqStart
<1>16. CASE IrqWrite
  <2>1. msgs \in Transfers /\ UNCHANGED <<mem, wild>> /\ Handle
    BY <1>16 DEF IrqWrite
  <2>2. CASE \E e \in {OK, ENODEV} : StopWith(e) /\ UNCHANGED cur_ptr
    BY <2>1, <2>2, StopTyped
  <2>3. CASE WriteNext
    BY <2>1, <2>3, WriteNextTyped
  <2>. QED
    BY <1>16, <2>2, <2>3 DEF IrqWrite
<1>17. CASE IrqRead
  <2>1. msgs \in Transfers /\ UNCHANGED wild /\ Handle /\ cur_ptr < M.len /\ NextRead(cur_ptr + 1)
    BY <1>17 DEF IrqRead
  <2>2. cur_ptr + 1 \in 0..MaxLen
    BY <2>1, CurrentMessage
  <2>3. mem' \in [Cells -> Byte]
    BY <1>17 DEF IrqRead
  <2>. QED
    BY <2>1, <2>2, <2>3, NextReadTyped
<1>18. CASE IrqDefault
  BY <1>18, ZenonT(30) DEF IrqDefault, Handle, Resume, Phases
<1>19. CASE IrqWild
  BY <1>19 DEF IrqWild, Handle
<1>. QED
  BY <1>1, <1>2, <1>3, <1>4, <1>5, <1>6, <1>7, <1>8, <1>9, <1>10, <1>11, <1>12, <1>13, <1>14,
     <1>15, <1>16, <1>17, <1>18, <1>19 DEF Next, Xfer, Irq, Controller

-----------------------------------------------------------------------------
\* A pending interrupt and a busy controller belong to a transfer on the wires.
LEMMA BusyMeansRunning ==
  ASSUME Clean, pc \in Steps, phase # "idle"
  PROVE  Running /\ OnTheWires
  BY DEF Clean, Prepared, AtRest, Running, Steps, Setup

\* For a step of the handler or of the controller, it is enough that the
\* transfer stays on the wires.
LEMMA StaysClean ==
  ASSUME Clean, UNCHANGED <<pc, ret>>, Running, ~wild', pend' <=> phase' = "held", OnTheWires'
  PROVE  Clean'
  BY DEF Clean, Running, Setup

\* A byte that has been shifted is a byte of the transfer the driver is in.
LEMMA ControllerClean ==
  ASSUME IInv, ~dirty, Controller
  PROVE  Clean'
<1>. USE BoundsAssumption DEF IInv
<1>1. Clean /\ pc \in Steps /\ TypeOK
  BY DEF TypeOK
<1>2. phase # "idle" /\ UNCHANGED <<caller, xfer_data>> /\ pend' = TRUE /\ phase' = "held"
  BY DEF Controller, AddrDone, WriteDone, ReadDone, Interrupt
<1>3. Running /\ OnTheWires /\ UNCHANGED <<pc, ret, wild, msgs, ptr, msgs_num, cur_msgs, cur_ptr, state, err>>
  BY <1>1, <1>2, BusyMeansRunning DEF caller, xfer_data
<1>4. msgs \in Transfers
  BY <1>3 DEF OnTheWires
<1>5. M.len \in 0..MaxLen /\ ptr \in 1..Len(msgs) /\ Len(msgs) \in 1..MaxMsgs /\ M' = M
  BY <1>1, <1>3, <1>4, CurrentMessage DEF M
<1>6. ASSUME NEW nack \in BOOLEAN, AddrDone(nack) PROVE Addressed'
  <2>1. Addressing
    BY <1>3, <1>6 DEF AddrDone, OnTheWires, Addressing, Addressed, Writing, Written, Reading, HasRead, Stopped
  <2>2. mode' = mode /\ lastbit' = nack /\ ev'.op = "S" /\ ev'.ack = ~nack
    BY <1>6 DEF AddrDone, Interrupt
  <2>3. nack => sm' = sm /\ sn' = sn
    BY <1>6 DEF AddrDone
  <2>4. ~nack => sm' = sm + 1 /\ sn' = 0
    BY <1>5, <1>6, <2>1 DEF AddrDone, Up, Addressing, PrevDone
  <2>5. Direction(M)' = Direction(M) /\ state' = "START" /\ cur_ptr' = 0 /\ ptr' = ptr /\ msgs' = msgs
    BY <1>3, <1>5, <2>1 DEF Addressing, Direction
  <2>6. CASE nack
    BY <1>2, <2>1, <2>2, <2>3, <2>5, <2>6 DEF Addressing, Addressed, PrevDone
  <2>7. CASE ~nack
    <3>1. sm' = ptr' /\ sn' = 0
      BY <1>5, <2>1, <2>4, <2>5, <2>7 DEF Addressing, PrevDone
    <3>2. ~lastbit' /\ ev'.ack
      BY <2>2, <2>7
    <3>. QED
      BY <1>2, <2>1, <2>2, <2>5, <3>1, <3>2 DEF Addressing, Addressed
  <2>. QED
    BY <2>6, <2>7
<1>7. ASSUME NEW nack \in BOOLEAN, WriteDone(nack) PROVE Written'
  <2>1. Writing
    BY <1>3, <1>7 DEF WriteDone, OnTheWires, Addressing, Addressed, Writing, Written, Reading, HasRead, Stopped
  <2>2. mode' = mode /\ lastbit' = nack /\ ev'.op = "W" /\ ev'.ack = ~nack /\ sm' = sm
    BY <1>7 DEF WriteDone, Interrupt
  <2>3. sn' = IF nack THEN sn ELSE sn + 1
    BY <1>1, <1>5, <1>7, <2>1 DEF WriteDone, Up, Writing, TypeOK
  <2>. QED
    BY <1>1, <1>2, <1>3, <1>5, <2>1, <2>2, <2>3 DEF Writing, Written, TypeOK
<1>8. CASE ReadDone
  <2>1. Reading
    BY <1>3, <1>8 DEF ReadDone, OnTheWires, Addressing, Addressed, Writing, Written, Reading, HasRead, Stopped
  <2>2. mode' = mode /\ ev'.op = "R" /\ sm' = sm /\ ds' = <<sm, sn>>
    BY <1>8 DEF ReadDone, Interrupt
  <2>3. sn' = sn + 1
    BY <1>1, <1>5, <1>8, <2>1 DEF ReadDone, Up, Reading, TypeOK
  <2>4. HasRead'
    BY <1>1, <1>2, <1>3, <1>5, <2>1, <2>2, <2>3 DEF Reading, HasRead, TypeOK
  <2>. QED
    BY <1>1, <1>2, <1>3, <2>4, StaysClean DEF OnTheWires, Clean
<1>9. Addressed' \/ Written' => Clean'
  BY <1>1, <1>2, <1>3, StaysClean DEF OnTheWires, Clean
<1>. QED
  BY <1>6, <1>7, <1>8, <1>9 DEF Controller

-----------------------------------------------------------------------------
\* The message under the handler has been transferred as far as its n-th byte,
\* the slave having refused nothing.
Transferred(n) ==
  /\ msgs \in Transfers /\ msgs_num = Len(msgs) /\ cur_msgs = ptr - 1
  /\ sm = ptr /\ sn = n /\ n \in 0..M.len
  /\ mode = Direction(M) /\ Accepted

\* The counter cur_msgs and the pointer msgs agree on which message is last (195).
LEMMA LastMessage ==
  ASSUME TypeOK, Always, NEW n, Transferred(n)
  PROVE  /\ isLastMsg <=> ptr = Len(msgs)
         /\ ptr \in 1..Len(msgs) /\ Len(msgs) \in 1..MaxMsgs /\ M.len \in 0..MaxLen
         /\ MaxLen \in Nat /\ MaxMsgs \in Nat
<1>1. ptr \in 1..Len(msgs) /\ Len(msgs) \in 1..MaxMsgs /\ M.len \in 0..MaxLen
  BY CurrentMessage DEF Transferred
<1>. QED
  BY <1>1, BoundsAssumption DEF isLastMsg, Transferred

\* The next message is started only when this one is complete (270-279).
LEMMA NextMsgClean ==
  ASSUME TypeOK, Always, Transferred(M.len), NextMsg, UNCHANGED <<msgs, msgs_num>>
  PROVE  OnTheWires'
<1>1. ptr \in 1..Len(msgs) /\ Len(msgs) \in 1..MaxMsgs
  BY LastMessage
<1>2. ptr' = ptr + 1 /\ msgs' = msgs /\ cur_ptr' = 0 /\ state' = "START" /\ phase' = "addr"
  BY DEF NextMsg
<1>3. ds' = <<ptr', Address>> /\ mode' = Direction(M)' /\ UNCHANGED <<sm, sn, ev>>
  BY <1>2 DEF NextMsg, M, Direction, wires
<1>4. PrevDone'
  BY <1>1, <1>2, <1>3 DEF Transferred, PrevDone, M
<1>5. Accepted'
  BY <1>3 DEF Accepted, Transferred
<1>6. Addressing'
  BY <1>2, <1>3, <1>4, <1>5 DEF Addressing
<1>7. cur_msgs' = ptr' - 1
  BY <1>1, <1>2 DEF NextMsg, Transferred
<1>. QED
  BY <1>2, <1>6, <1>7 DEF OnTheWires, Transferred

\* The result of stopping is the truth (225-229, 284, 329).
LEMMA StopClean ==
  ASSUME msgs \in Transfers, msgs_num = Len(msgs), cur_msgs = ptr - 1,
         NEW e \in {OK, ENODEV}, StopWith(e), e = OK <=> AllSent,
         UNCHANGED <<msgs, msgs_num>>
  PROVE  OnTheWires'
<1>1. UNCHANGED <<ptr, cur_msgs, sm, sn>> /\ err' = e /\ state' = "STOP" /\ phase' = "idle"
      /\ ev'.op = "P"
  BY DEF StopWith, StopSent
<1>2. AllSent' <=> AllSent
  BY <1>1 DEF AllSent
<1>3. Stopped'
  BY <1>1, <1>2 DEF Stopped
<1>. QED
  BY <1>1, <1>3 DEF OnTheWires

\* STOP with result OK is only sent when everything was (281-286, 326-331).
LEMMA FinalStopClean ==
  ASSUME TypeOK, Always, Transferred(M.len), isLastMsg, StopWith(OK), UNCHANGED <<msgs, msgs_num>>
  PROVE  OnTheWires'
<1>1. ptr = Len(msgs)
  BY LastMessage
<1>2. AllSent
  BY <1>1 DEF AllSent, Transferred, M
<1>. QED
  BY <1>2, StopClean DEF Transferred

\* Writing goes on with the first byte not sent yet (260-268).
LEMMA WriteNextClean ==
  ASSUME TypeOK, Always, Transferred(cur_ptr), ~M.rd, WriteNext, UNCHANGED <<msgs, msgs_num>>
  PROVE  OnTheWires'
<1>1. /\ isLastMsg <=> ptr = Len(msgs)
      /\ ptr \in 1..Len(msgs) /\ M.len \in 0..MaxLen /\ MaxLen \in Nat
  BY LastMessage
<1>2. cur_ptr \in 0..M.len /\ mode = "tx" /\ sn = cur_ptr /\ sm = ptr /\ Accepted
  BY DEF Transferred, Direction
<1>3. CASE isEndData(cur_ptr)
  <2>1. cur_ptr = M.len
    BY <1>1, <1>2, <1>3 DEF isEndData
  <2>. QED
    BY <1>3, <2>1, NextMsgClean, FinalStopClean DEF WriteNext
<1>4. CASE ~isEndData(cur_ptr)
  <2>1. /\ UNCHANGED <<ptr, cur_msgs, mode, sm, sn, ev>>
        /\ ds' = <<ptr, cur_ptr>> /\ cur_ptr' = cur_ptr + 1 /\ state' = "WRITE" /\ phase' = "tx"
    BY <1>2, <1>4 DEF WriteNext, Resume, wires
  <2>2. M' = M /\ Accepted' /\ cur_ptr + 1 <= M.len
    BY <1>1, <1>2, <1>4, <2>1 DEF M, Accepted, isEndData
  <2>3. Writing'
    BY <1>2, <2>1, <2>2 DEF Writing
  <2>. QED
    BY <2>1, <2>3 DEF OnTheWires, Transferred
<1>. QED
  BY <1>3, <1>4

\* Reading goes on with the next byte, and only the last is refused (297-314).
LEMMA NextReadClean ==
  ASSUME TypeOK, Always, NEW p, Transferred(p), M.rd, NextRead(p), UNCHANGED <<msgs, msgs_num>>
  PROVE  OnTheWires'
<1>1. /\ isLastMsg <=> ptr = Len(msgs)
      /\ ptr \in 1..Len(msgs) /\ M.len \in 0..MaxLen /\ MaxLen \in Nat
  BY LastMessage
<1>2. p \in 0..M.len /\ mode = "rx" /\ sn = p /\ sm = ptr /\ Accepted
  BY DEF Transferred, Direction
<1>3. CASE isEndData(p)
  <2>1. p = M.len
    BY <1>1, <1>2, <1>3 DEF isEndData
  <2>. QED
    BY <1>3, <2>1, NextMsgClean, FinalStopClean DEF NextRead
<1>4. CASE ~isEndData(p)
  <2>1. /\ UNCHANGED <<ptr, cur_msgs, mode, sm, sn, ev>>
        /\ cur_ptr' = p /\ state' = "READ" /\ phase' = "rx"
    BY <1>2, <1>4 DEF NextRead, Resume, wires
  <2>2. M' = M /\ Accepted' /\ p < M.len
    BY <1>1, <1>2, <1>4, <2>1 DEF M, Accepted, isEndData
  <2>3. ack' <=> p + 1 < M.len
    <3>1. ack' = ~isLastData(p)
      BY <1>4 DEF NextRead
    <3>2. isLastData(p) <=> ~(p + 1 < M.len)
      BY <1>1, <1>2, <2>2 DEF isLastData
    <3>. QED
      BY <3>1, <3>2
  <2>4. Reading'
    BY <1>2, <2>1, <2>2, <2>3 DEF Reading
  <2>. QED
    BY <2>1, <2>4 DEF OnTheWires, Transferred
<1>. QED
  BY <1>3, <1>4

\* One run of the handler keeps the correspondence (208-341).
LEMMA IrqClean ==
  ASSUME IInv, ~dirty, Irq
  PROVE  Clean'
<1>1. TypeOK /\ Always /\ Clean
  BY DEF IInv
<1>2. pend /\ UNCHANGED <<msgs, msgs_num, pc, ret>> /\ ~wild /\ pend' = FALSE
  BY DEF Irq, IrqStart, IrqWrite, IrqRead, IrqDefault, IrqWild, Handle
<1>3. phase = "held" /\ Running /\ OnTheWires
  BY <1>1, <1>2, BusyMeansRunning DEF Clean, TypeOK
<1>4. msgs \in Transfers /\ msgs_num = Len(msgs) /\ cur_msgs = ptr - 1
  BY <1>3 DEF OnTheWires
<1>5. /\ M.len \in 0..MaxLen /\ M.rd \in BOOLEAN /\ ptr \in 1..Len(msgs)
      /\ Len(msgs) \in 1..MaxMsgs /\ MaxLen \in Nat /\ MaxMsgs \in Nat
  BY <1>1, <1>4, CurrentMessage, BoundsAssumption
<1>6. isLastMsg <=> ptr = Len(msgs)
  BY <1>4, <1>5 DEF isLastMsg
<1>7. (Addressed \/ Written \/ HasRead) /\ sm \in Nat /\ sn \in 0..MaxLen /\ cur_ptr \in 0..MaxLen
  BY <1>1, <1>3, <1>5 DEF OnTheWires, Addressing, Writing, Reading, Stopped, TypeOK
<1>8. ~IrqDefault
  BY <1>7 DEF IrqDefault, Addressed, Written, HasRead
<1>9. ~IrqWild
  BY <1>5, <1>6, <1>7 DEF IrqWild, Addressed, Written, HasRead
<1>10. CASE IrqStart
  <2>1. Addressed
    BY <1>7, <1>10 DEF IrqStart, Written, HasRead
  <2>2. ASSUME lastbit PROVE OnTheWires'
    <3>1. sm = ptr - 1 /\ StopWith(ENODEV)
      BY <1>10, <2>1, <2>2 DEF Addressed, PrevDone, IrqStart
    <3>2. ~AllSent
      BY <1>5, <3>1 DEF AllSent
    <3>. QED
      BY <1>2, <1>4, <3>1, <3>2, StopClean DEF OK, ENODEV
  <2>3. ASSUME ~lastbit PROVE OnTheWires'
    <3>1. Transferred(0) /\ cur_ptr = 0
      BY <1>4, <1>5, <2>1, <2>3 DEF Transferred, Addressed, Accepted
    <3>2. CASE isLastMsg /\ isEndData(cur_ptr)
      <4>1. M.len = 0 /\ StopWith(OK)
        BY <1>5, <1>10, <2>3, <3>1, <3>2 DEF isEndData, IrqStart
      <4>. QED
        BY <1>1, <1>2, <3>1, <3>2, <4>1, FinalStopClean
    <3>3. CASE ~(isLastMsg /\ isEndData(cur_ptr)) /\ M.rd
      BY <1>1, <1>2, <1>10, <2>3, <3>1, <3>3, NextReadClean DEF IrqStart
    <3>4. CASE ~(isLastMsg /\ isEndData(cur_ptr)) /\ ~M.rd
      BY <1>1, <1>2, <1>10, <2>3, <3>1, <3>4, WriteNextClean DEF IrqStart
    <3>. QED
      BY <3>2, <3>3, <3>4
  <2>4. OnTheWires'
    BY <1>1, <2>2, <2>3 DEF TypeOK
  <2>5. ~wild' /\ phase' # "held"
    BY <1>2, <1>10, <2>1 DEF IrqStart, StopWith, NextRead, WriteNext, NextMsg, Resume, Addressed, Direction
  <2>. QED
    BY <1>1, <1>2, <1>3, <2>4, <2>5, StaysClean
<1>11. CASE IrqWrite
  <2>1. Written
    BY <1>7, <1>11 DEF IrqWrite, Addressed, HasRead
  <2>2. ASSUME lastbit PROVE OnTheWires'
    <3>1. sm = ptr /\ sn < M.len /\ StopWith(ENODEV)
      BY <1>5, <1>7, <1>11, <2>1, <2>2 DEF Written, IrqWrite
    <3>2. ~AllSent
      BY <1>5, <1>7, <3>1 DEF AllSent, M
    <3>. QED
      BY <1>2, <1>4, <3>1, <3>2, StopClean DEF OK, ENODEV
  <2>3. ASSUME ~lastbit PROVE OnTheWires'
    <3>1. Transferred(cur_ptr) /\ ~M.rd
      BY <1>4, <1>5, <1>7, <2>1, <2>3 DEF Transferred, Written, Accepted, Direction
    <3>. QED
      BY <1>1, <1>2, <1>11, <2>3, <3>1, WriteNextClean DEF IrqWrite
  <2>4. OnTheWires'
    BY <1>1, <2>2, <2>3 DEF TypeOK
  <2>5. ~wild' /\ phase' # "held"
    BY <1>2, <1>11, <2>1 DEF IrqWrite, StopWith, WriteNext, NextMsg, Resume, Written
  <2>. QED
    BY <1>1, <1>2, <1>3, <2>4, <2>5, StaysClean
<1>12. CASE IrqRead
  <2>1. HasRead
    BY <1>7, <1>12 DEF IrqRead, Addressed, Written
  <2>2. Transferred(cur_ptr + 1) /\ M.rd
    BY <1>4, <1>5, <1>7, <2>1 DEF Transferred, HasRead, Accepted, Direction
  <2>3. NextRead(cur_ptr + 1)
    BY <1>12 DEF IrqRead
  <2>4. OnTheWires'
    BY <1>1, <1>2, <2>2, <2>3, NextReadClean
  <2>5. ~wild' /\ phase' # "held"
    BY <1>2, <1>12, <2>1 DEF IrqRead, StopWith, NextRead, NextMsg, Resume, HasRead
  <2>. QED
    BY <1>1, <1>2, <1>3, <2>4, <2>5, StaysClean
<1>. QED
  BY <1>8, <1>9, <1>10, <1>11, <1>12 DEF Irq

\* The process keeps it too: what it sets up is what START begins with, and what
\* it returns is what STOP left (139-165).
LEMMA XferClean ==
  ASSUME IInv, ~dirty, Xfer
  PROVE  Clean'
<1>1. TypeOK /\ Always /\ Clean /\ ~pend
  BY DEF IInv, Xfer, Step, SetNum, SetCur, SetPtr, SetErr, StartState, StartData, StartStat, Finish, Timeout
<1>2. ~wild' /\ pend' = pend
  BY <1>1 DEF Xfer, Clean, SetNum, SetCur, SetPtr, SetErr, StartState, StartData, StartStat, Finish, Timeout,
              regs, Step
<1>3. CASE SetNum \/ SetCur \/ SetPtr \/ SetErr \/ StartState \/ StartData
  <2>1. Prepared
    BY <1>1, <1>3 DEF Clean, Setup, Step, SetNum, SetCur, SetPtr, SetErr, StartState, StartData
  <2>2. /\ UNCHANGED <<msgs, ptr, phase, sm, sn, ev, ret>>
        /\ pc' \in Setup
    BY <1>3 DEF Setup, Step, SetNum, SetCur, SetPtr, SetErr, StartState, StartData, regs, wires, xfer_data
  <2>3. Prepared'
    BY <1>3, <2>1, <2>2 DEF Prepared, Step, SetNum, SetCur, SetPtr, SetErr, StartState, StartData, regs, xfer_data
  <2>. QED
    BY <1>1, <1>2, <2>1, <2>2, <2>3 DEF Clean, Setup, Running, Prepared
<1>4. CASE StartStat
  <2>1. Prepared /\ pc = "iicstat" /\ msgs \in Transfers
    BY <1>1, <1>4 DEF Clean, Setup, Step, StartStat, Always
  <2>2. /\ UNCHANGED <<xfer_data, ds, wires>>
        /\ pc' = "wait" /\ mode' = Direction(M) /\ phase' = "addr"
    BY <1>4 DEF StartStat, Step
  <2>3. /\ msgs' = msgs /\ ptr' = 1 /\ state' = "START" /\ cur_ptr' = 0 /\ ds' = <<1, Address>>
        /\ sm' = 0 /\ ev' = Quiet /\ msgs_num' = Len(msgs) /\ cur_msgs' = 0
    BY <2>1, <2>2 DEF Prepared, xfer_data, wires
  <2>4. mode' = Direction(M)' /\ PrevDone' /\ Accepted'
    BY <2>1, <2>2, <2>3 DEF Prepared, M, Direction, PrevDone, Accepted, Quiet
  <2>5. OnTheWires'
    BY <2>1, <2>2, <2>3, <2>4 DEF OnTheWires, Addressing
  <2>. QED
    BY <1>1, <1>2, <2>2, <2>5 DEF Clean, Setup
<1>5. CASE Finish
  <2>1. Stopped
    BY <1>1, <1>5 DEF Clean, Running, OnTheWires, Finish, Step, Addressing, Addressed, Writing, Written,
                     Reading, HasRead
  <2>2. pc' = "idle" /\ ret' = err /\ UNCHANGED <<phase, sm, sn, msgs>> /\ err \in {OK, ENODEV}
    BY <1>1, <1>5 DEF Finish, Step, regs, wires, xfer_data, TypeOK
  <2>3. AtRest'
    BY <2>1, <2>2 DEF Stopped, AtRest, AllSent
  <2>. QED
    BY <1>1, <1>2, <2>1, <2>2, <2>3 DEF Clean, Setup, Running, Stopped, OK, ENODEV, ETIMEDOUT
<1>6. CASE Timeout
  <2>1. OnTheWires /\ UNCHANGED <<xfer_data, regs, wires>> /\ pc' = "idle" /\ ret' = ETIMEDOUT
    BY <1>1, <1>6 DEF Clean, Running, Timeout, Step
  <2>2. OnTheWires'
    BY <2>1 DEF OnTheWires, Addressing, Addressed, Writing, Written, Reading, HasRead, Stopped, PrevDone,
                Accepted, AllSent, M, Direction, xfer_data, regs, wires
  <2>. QED
    BY <1>1, <1>2, <2>1, <2>2 DEF Clean, Setup, regs
<1>. QED
  BY <1>3, <1>4, <1>5, <1>6 DEF Xfer

\* A transfer that finds the controller idle is prepared from scratch, whatever
\* the last one left in the driver's fields (145).
LEMMA CallClean ==
  ASSUME IInv, NEW q \in Calls, Call(q), ~dirty'
  PROVE  Clean'
<1>1. phase = "idle" /\ ~pend /\ pc' = "num"
  BY DEF Call, Step
<1>2. Prepared' /\ phase' = "idle" /\ pend' = pend /\ wild' = wild
  BY <1>1 DEF Call, Prepared, regs
<1>. QED
  BY <1>1, <1>2 DEF Clean, Setup, Running, IInv, Always

-----------------------------------------------------------------------------
\* The correspondence is inductive: every step of every actor keeps it.
LEMMA CleanStep == IInv /\ [Next]_vars => (~dirty' => Clean')
<1>. SUFFICES ASSUME IInv, [Next]_vars, ~dirty' PROVE Clean'
  OBVIOUS
<1>1. CASE UNCHANGED vars
  BY <1>1 DEF IInv, Clean, Prepared, Running, OnTheWires, AtRest, Addressing, Addressed, Writing, Written,
              Reading, HasRead, Stopped, PrevDone, Accepted, AllSent, M, Direction,
              vars, xfer_data, regs, wires, caller
<1>2. ASSUME NEW q \in Calls, Call(q) PROVE Clean'
  BY <1>2, CallClean
<1>3. CASE Xfer
  <2>1. ~dirty
    BY <1>3 DEF Xfer, SetNum, SetCur, SetPtr, SetErr, StartState, StartData, StartStat, Finish, Timeout
  <2>. QED
    BY <1>3, <2>1, XferClean
<1>4. CASE Irq
  <2>1. ~dirty
    BY <1>4 DEF Irq, IrqStart, IrqWrite, IrqRead, IrqDefault, IrqWild, Handle
  <2>. QED
    BY <1>4, <2>1, IrqClean
<1>5. CASE Controller
  <2>1. ~dirty
    BY <1>5 DEF Controller, AddrDone, WriteDone, ReadDone, caller
  <2>. QED
    BY <1>5, <2>1, ControllerClean
<1>. QED
  BY <1>1, <1>2, <1>3, <1>4, <1>5 DEF Next

\* The invariant holds in every reachable state, for any bounds and any callers.
THEOREM Invariance == Spec => []IInv
<1>1. IInv /\ [Next]_vars => IInv'
  BY TypeStep, CleanStep DEF IInv
<1>. QED
  BY <1>1, InitInv, PTL DEF Spec

\* Every field, register and counter stays in its range: cur_ptr never exceeds
\* the longest message even while an abandoned transfer interferes.
THEOREM TypeCorrect == Spec => []TypeOK
<1>1. IInv => TypeOK
  BY DEF IInv
<1>. QED
  BY <1>1, Invariance, PTL

\* The handler never leaves the caller's messages and buffers (262, 273, 293), for
\* messages of any number and length.
THEOREM InsideBuffers == Spec => []StaysInside
<1>1. IInv => StaysInside
  BY DEF IInv, Clean, StaysInside
<1>. QED
  BY <1>1, Invariance, PTL

\* xfer returns OK exactly when the slave acknowledged everything (163, 225-284).
THEOREM TrueResult == Spec => []ResultIsTrue
<1>1. IInv => ResultIsTrue
  BY DEF IInv, Clean, AtRest, ResultIsTrue
<1>. QED
  BY <1>1, Invariance, PTL

\* When xfer returns a result, the bus is released and nothing is pending.
THEOREM BusReleased == Spec => []ReturnsReleased
<1>1. IInv => ReturnsReleased
  BY DEF IInv, Clean, AtRest, ReturnsReleased
<1>. QED
  BY <1>1, Invariance, PTL

\* In a transfer begun on an idle controller an interrupt finds the handler in step
\* with the wires, its owner asleep or timed out (155-160, 221-329).  Of transfers
\* begun while an abandoned one was still on the bus it says nothing.
THEOREM HandlerKnowsItsByte == Spec => []HandlerInStep
<1>1. IInv => HandlerInStep
  <2>. SUFFICES ASSUME IInv, ~dirty, pend PROVE HandlerInStep
    BY DEF HandlerInStep
  <2>1. Clean /\ phase = "held" /\ pc \in Steps
    BY DEF IInv, Clean, TypeOK
  <2>2. Running /\ OnTheWires
    BY <2>1, BusyMeansRunning
  <2>3. Addressed \/ Written \/ HasRead
    BY <2>1, <2>2 DEF OnTheWires, Addressing, Writing, Reading, Stopped
  <2>. QED
    BY <2>2, <2>3 DEF HandlerInStep, Running, Addressed, Written, HasRead
<1>. QED
  BY <1>1, Invariance, PTL

-----------------------------------------------------------------------------
(***************************************************************************)
(* The read buffers.  IInv says nothing of them; what they hold follows    *)
(* the pointers: messages before ptr are read to their end, the current    *)
(* one up to cur_ptr, and a transfer that ends with OK has read them all.  *)
(***************************************************************************)

GotUpTo(b, m, n) == \A p \in 0..(n - 1) : b[<<m, p>>] = <<m, p>>

Received ==
  /\ \A m \in 1..(ptr - 1) : msgs[m].rd => GotUpTo(mem, m, msgs[m].len)
  /\ M.rd => GotUpTo(mem, ptr, cur_ptr)

AtTheEnd == ptr = Len(msgs) /\ cur_ptr >= M.len

Stored ==
  ~dirty => /\ Running => Received /\ (state = "STOP" /\ err = OK => AtTheEnd)
            /\ ReadsAreInPlace

\* A step that touches neither fields nor buffers keeps what they say.
LEMMA StoredUnchanged ==
  ASSUME Stored, UNCHANGED <<xfer_data, caller>>
  PROVE  Stored'
  BY DEF Stored, Running, Received, GotUpTo, AtTheEnd, ReadsAreInPlace, M, xfer_data, caller

\* The next message is only started when this one has been read to its end, which
\* is its n-th byte (271-279, 318-325).
LEMMA NextMsgStored ==
  ASSUME NextMsg, msgs' = msgs, ptr \in Nat, NEW n \in Nat, M.len \in Nat, isEndData(n),
         \A m \in 1..(ptr - 1) : msgs[m].rd => GotUpTo(mem', m, msgs[m].len),
         M.rd => GotUpTo(mem', ptr, n)
  PROVE  Received' /\ state' # "STOP"
<1>1. ptr' = ptr + 1 /\ cur_ptr' = 0 /\ state' = "START"
  BY DEF NextMsg
<1>2. M.rd => GotUpTo(mem', ptr, M.len)
  BY DEF isEndData, GotUpTo
<1>3. ASSUME NEW m \in 1..(ptr' - 1), msgs'[m].rd PROVE GotUpTo(mem', m, msgs[m].len)
  <2>1. m \in 1..(ptr - 1) \/ m = ptr
    BY <1>1
  <2>. QED
    BY <1>2, <1>3, <2>1 DEF M, GotUpTo
<1>4. GotUpTo(mem', ptr', cur_ptr')
  BY <1>1 DEF GotUpTo
<1>. QED
  BY <1>1, <1>3, <1>4 DEF Received

\* Within a message, nothing that was received is lost.
LEMMA SameMsgStored ==
  ASSUME UNCHANGED <<msgs, ptr>>, NEW n, cur_ptr' = n,
         \A m \in 1..(ptr - 1) : msgs[m].rd => GotUpTo(mem', m, msgs[m].len),
         M.rd => GotUpTo(mem', ptr, n)
  PROVE  Received'
<1>1. ASSUME NEW m \in 1..(ptr' - 1), msgs'[m].rd PROVE GotUpTo(mem', m, msgs[m].len)
  BY <1>1 DEF GotUpTo
<1>2. M'.rd => GotUpTo(mem', ptr', cur_ptr')
  BY DEF M, GotUpTo
<1>. QED
  BY <1>1, <1>2 DEF Received

\* The label next_read, after p bytes (297-331): either the message goes on, or it
\* is complete.
LEMMA NextReadStored ==
  ASSUME NEW p \in Nat, NextRead(p), isLastMsg => ptr = Len(msgs),
         msgs' = msgs, ptr \in Nat, M.len \in Nat, M.rd,
         \A m \in 1..(ptr - 1) : msgs[m].rd => GotUpTo(mem', m, msgs[m].len), GotUpTo(mem', ptr, p)
  PROVE  Received' /\ (state' = "STOP" => AtTheEnd')
<1>1. CASE isEndData(p) /\ ~isLastMsg /\ NextMsg
  BY <1>1, NextMsgStored
<1>2. CASE ~(isEndData(p) /\ ~isLastMsg /\ NextMsg)
  <2>1. ptr' = ptr /\ cur_ptr' = p /\ (state' = "STOP" => isEndData(p) /\ isLastMsg)
    BY <1>2 DEF NextRead, StopWith
  <2>2. Received'
    BY <2>1, SameMsgStored
  <2>3. state' = "STOP" => AtTheEnd'
    BY <2>1 DEF AtTheEnd, isEndData, M
  <2>. QED
    BY <2>2, <2>3
<1>. QED
  BY <1>1, <1>2

\* Case STATE_WRITE stores nothing, and ends a written message (259-287).
LEMMA WriteNextStored ==
  ASSUME WriteNext, isLastMsg => ptr = Len(msgs), UNCHANGED <<msgs, mem>>,
         ptr \in Nat, cur_ptr \in Nat, M.len \in Nat, ~M.rd, Received
  PROVE  Received' /\ (state' = "STOP" => AtTheEnd')
<1>1. \A m \in 1..(ptr - 1) : msgs[m].rd => GotUpTo(mem', m, msgs[m].len)
  BY DEF Received, GotUpTo
<1>2. CASE isEndData(cur_ptr) /\ ~isLastMsg /\ NextMsg
  BY <1>1, <1>2, NextMsgStored
<1>3. CASE ~(isEndData(cur_ptr) /\ ~isLastMsg /\ NextMsg)
  <2>1. /\ ptr' = ptr
        /\ state' = "STOP" => isEndData(cur_ptr) /\ isLastMsg /\ cur_ptr' = cur_ptr
    BY <1>3 DEF WriteNext, StopWith
  <2>2. Received'
    BY <1>1, <2>1, SameMsgStored
  <2>3. state' = "STOP" => AtTheEnd'
    BY <2>1 DEF AtTheEnd, isEndData, M
  <2>. QED
    BY <2>2, <2>3
<1>. QED
  BY <1>2, <1>3

\* One run of the handler stores one byte at most, the one that the controller has
\* just received (293).
LEMMA IrqStored ==
  ASSUME IInv, Stored, ~dirty, Irq
  PROVE  Received' /\ (state' = "STOP" /\ err' = OK => AtTheEnd')
<1>1. TypeOK /\ Always /\ Clean
  BY DEF IInv
<1>2. pend /\ UNCHANGED <<msgs, msgs_num, pc, ret>> /\ ~wild /\ pend' = FALSE
  BY DEF Irq, IrqStart, IrqWrite, IrqRead, IrqDefault, IrqWild, Handle
<1>3. phase = "held" /\ Running /\ OnTheWires
  BY <1>1, <1>2, BusyMeansRunning DEF Clean, TypeOK
<1>4. msgs \in Transfers /\ msgs_num = Len(msgs) /\ cur_msgs = ptr - 1
  BY <1>3 DEF OnTheWires
<1>5. /\ M.len \in 0..MaxLen /\ M.rd \in BOOLEAN /\ ptr \in 1..Len(msgs)
      /\ Len(msgs) \in 1..MaxMsgs /\ MaxLen \in Nat /\ MaxMsgs \in Nat
  BY <1>1, <1>4, CurrentMessage, BoundsAssumption
<1>6. (isLastMsg <=> ptr = Len(msgs)) /\ ptr \in Nat /\ M.len \in Nat
  BY <1>4, <1>5 DEF isLastMsg
<1>7. (Addressed \/ Written \/ HasRead) /\ cur_ptr \in 0..MaxLen
  BY <1>1, <1>3, <1>5 DEF OnTheWires, Addressing, Writing, Reading, Stopped, TypeOK
<1>8. ~IrqDefault
  BY <1>7 DEF IrqDefault, Addressed, Written, HasRead
<1>9. ~IrqWild
  BY <1>5, <1>6, <1>7 DEF IrqWild, Addressed, Written, HasRead
<1>10. Received /\ cur_ptr \in Nat
  BY <1>3, <1>5, <1>7 DEF Stored
<1>11. mem' = mem =>
         /\ \A m \in 1..(ptr - 1) : msgs[m].rd => GotUpTo(mem', m, msgs[m].len)
         /\ M.rd => GotUpTo(mem', ptr, cur_ptr)
  BY <1>2, <1>10 DEF Received, GotUpTo
<1>12. ASSUME StopWith(ENODEV), UNCHANGED <<mem, cur_ptr>> PROVE Received' /\ err' # OK
  BY <1>2, <1>11, <1>12, SameMsgStored DEF StopWith, OK, ENODEV
<1>13. CASE IrqStart
  <2>1. CASE lastbit
    BY <1>12, <1>13, <2>1 DEF IrqStart
  <2>2. CASE ~lastbit /\ isLastMsg /\ isEndData(cur_ptr)
    <3>1. UNCHANGED <<ptr, cur_ptr, mem>>
      BY <1>13, <2>2 DEF IrqStart, StopWith
    <3>2. Received'
      BY <1>2, <1>11, <3>1, SameMsgStored
    <3>3. AtTheEnd'
      BY <1>2, <1>6, <2>2, <3>1 DEF AtTheEnd, isEndData, M
    <3>. QED
      BY <3>2, <3>3
  <2>3. CASE ~lastbit /\ ~(isLastMsg /\ isEndData(cur_ptr)) /\ M.rd
    <3>1. NextRead(cur_ptr) /\ mem' = mem
      BY <1>13, <2>3 DEF IrqStart
    <3>. QED
      BY <1>2, <1>6, <1>10, <1>11, <2>3, <3>1, NextReadStored
  <2>4. CASE ~lastbit /\ ~(isLastMsg /\ isEndData(cur_ptr)) /\ ~M.rd
    <3>1. WriteNext /\ mem' = mem
      BY <1>13, <2>4 DEF IrqStart
    <3>. QED
      BY <1>2, <1>6, <1>10, <2>4, <3>1, WriteNextStored
  <2>. QED
    BY <1>5, <2>1, <2>2, <2>3, <2>4
<1>14. CASE IrqWrite
  <2>1. CASE lastbit
    BY <1>12, <1>14, <2>1 DEF IrqWrite
  <2>2. CASE ~lastbit
    <3>1. WriteNext /\ mem' = mem /\ ~M.rd
      BY <1>7, <1>14, <2>2 DEF IrqWrite, Written, Addressed, HasRead
    <3>. QED
      BY <1>2, <1>6, <1>10, <3>1, WriteNextStored
  <2>. QED
    BY <2>1, <2>2
<1>15. CASE IrqRead
  <2>1. HasRead /\ NextRead(cur_ptr + 1) /\ mem' = [mem EXCEPT ![<<ptr, cur_ptr>>] = ds]
    BY <1>7, <1>15 DEF IrqRead, Addressed, Written
  <2>2. M.rd /\ ds = <<ptr, cur_ptr>> /\ <<ptr, cur_ptr>> \in Cells /\ mem \in [Cells -> Byte]
    BY <1>1, <1>5, <1>7, <2>1 DEF HasRead, Cells, TypeOK
  <2>3. /\ mem'[<<ptr, cur_ptr>>] = <<ptr, cur_ptr>>
        /\ \A c : c # <<ptr, cur_ptr>> => mem'[c] = mem[c]
    BY <2>1, <2>2
  <2>4. GotUpTo(mem', ptr, cur_ptr + 1)
    <3>1. ASSUME NEW p \in 0..((cur_ptr + 1) - 1) PROVE mem'[<<ptr, p>>] = <<ptr, p>>
      <4>1. p = cur_ptr \/ p \in 0..(cur_ptr - 1)
        BY <1>10
      <4>. QED
        BY <1>10, <2>2, <2>3, <4>1 DEF Received, GotUpTo
    <3>. QED
      BY <3>1 DEF GotUpTo
  <2>5. ASSUME NEW m \in 1..(ptr - 1), msgs[m].rd PROVE GotUpTo(mem', m, msgs[m].len)
    <3>1. m # ptr /\ GotUpTo(mem, m, msgs[m].len)
      BY <1>6, <1>10, <2>5 DEF Received
    <3>. QED
      BY <1>2, <2>3, <3>1 DEF GotUpTo
  <2>. QED
    <3>1. cur_ptr + 1 \in Nat /\ NextRead(cur_ptr + 1) /\ msgs' = msgs /\ M.rd
      BY <1>2, <1>10, <2>1, <2>2
    <3>2. \A m \in 1..(ptr - 1) : msgs[m].rd => GotUpTo(mem', m, msgs[m].len)
      BY <2>5
    <3>. QED
      BY <1>6, <2>4, <3>1, <3>2, NextReadStored
<1>. QED
  BY <1>8, <1>9, <1>13, <1>14, <1>15 DEF Irq

\* Every step keeps what the buffers hold.
LEMMA StoredStep == IInv /\ Stored /\ [Next]_vars => Stored'
<1>. SUFFICES ASSUME IInv, Stored, [Next]_vars, ~dirty'
              PROVE  /\ Running' => Received' /\ (state' = "STOP" /\ err' = OK => AtTheEnd')
                     /\ ReadsAreInPlace'
  BY DEF Stored
<1>1. CASE UNCHANGED vars
  BY <1>1, StoredUnchanged DEF Stored, vars
<1>2. ASSUME NEW q \in Calls, Call(q) PROVE ~Running' /\ ReadsAreInPlace'
  BY <1>2 DEF Call, Step, Running, ReadsAreInPlace
<1>3. CASE SetNum \/ SetCur \/ SetPtr \/ SetErr \/ StartState \/ StartData
  BY <1>3 DEF SetNum, SetCur, SetPtr, SetErr, StartState, StartData, Step, Running, ReadsAreInPlace
<1>4. CASE StartStat
  <2>1. /\ ptr = 1 /\ cur_ptr = 0 /\ state = "START"
        /\ UNCHANGED xfer_data /\ pc' = "wait"
    BY <1>4 DEF StartStat, Step, IInv, Clean, Setup, Prepared
  <2>2. Received' /\ state' # "STOP"
    BY <2>1 DEF Received, GotUpTo, xfer_data
  <2>. QED
    BY <2>1, <2>2 DEF ReadsAreInPlace
<1>5. CASE Finish
  <2>1. /\ pc = "wait" /\ ~dirty /\ state = "STOP" /\ ret' = err /\ pc' = "idle"
        /\ UNCHANGED <<xfer_data, mem>> /\ err \in {OK, ENODEV} /\ OnTheWires
    BY <1>5 DEF Finish, Step, IInv, Clean, Running, TypeOK
  <2>2. ~Running'
    BY <2>1 DEF Running, OK, ENODEV, ETIMEDOUT
  <2>3. ASSUME err = OK, NEW m \in 1..Len(msgs), msgs[m].rd, NEW p \in 0..(msgs[m].len - 1)
        PROVE  mem[<<m, p>>] = <<m, p>>
    <3>1. Received /\ AtTheEnd
      BY <2>1, <2>3 DEF Stored, Running
    <3>2. /\ msgs[m].len \in 0..MaxLen /\ cur_ptr \in Nat
          /\ ptr = Len(msgs) /\ Len(msgs) \in Nat /\ MaxLen \in Nat
      BY <2>1, <3>1, TransferFacts, BoundsAssumption DEF OnTheWires, IInv, TypeOK, AtTheEnd
    <3>3. CASE m = ptr
      BY <2>3, <3>1, <3>2, <3>3 DEF Received, GotUpTo, AtTheEnd, M
    <3>4. CASE m # ptr
      BY <2>3, <3>1, <3>2, <3>4 DEF Received, GotUpTo
    <3>. QED
      BY <3>3, <3>4
  <2>4. ReadsAreInPlace'
    BY <2>1, <2>3 DEF ReadsAreInPlace, xfer_data
  <2>. QED
    BY <2>2, <2>4
<1>6. CASE Timeout
  <2>1. /\ pc = "wait" /\ ~dirty /\ ret' = ETIMEDOUT /\ UNCHANGED <<xfer_data, mem>>
    BY <1>6 DEF Timeout, Step
  <2>2. Received' /\ (state' = "STOP" /\ err' = OK => AtTheEnd')
    BY <2>1 DEF Stored, Running, Received, GotUpTo, AtTheEnd, M, xfer_data
  <2>3. ReadsAreInPlace'
    BY <2>1 DEF ReadsAreInPlace, OK, ETIMEDOUT
  <2>. QED
    BY <2>2, <2>3
<1>7. CASE Irq
  <2>1. ~dirty /\ pend /\ UNCHANGED <<pc, ret, dirty>>
    BY <1>7 DEF Irq, IrqStart, IrqWrite, IrqRead, IrqDefault, IrqWild, Handle
  <2>2. ~(pc = "idle" /\ ret = OK)
    BY <2>1 DEF IInv, Clean, AtRest, OK, ETIMEDOUT
  <2>. QED
    BY <1>7, <2>1, <2>2, IrqStored DEF ReadsAreInPlace
<1>8. CASE Controller
  <2>1. UNCHANGED <<xfer_data, caller>>
    BY <1>8 DEF Controller, AddrDone, WriteDone, ReadDone
  <2>. QED
    BY <2>1, StoredUnchanged DEF Stored
<1>. QED
  BY <1>1, <1>2, <1>3, <1>4, <1>5, <1>6, <1>7, <1>8 DEF Next, Xfer

\* After a read that returned OK each byte is where it belongs: buf[p] of message m
\* is the p-th byte that the slave sent for it (293-294, 320), in transfers of any
\* number and length of messages, after timeouts too.
THEOREM ReadsInPlace == Spec => []ReadsAreInPlace
<1>1. Init => Stored
  BY DEF Init, Stored, Running, ReadsAreInPlace, OK, ETIMEDOUT
<1>2. Stored => ReadsAreInPlace
  BY DEF Stored, ReadsAreInPlace
<1>. QED
  BY <1>1, <1>2, StoredStep, Invariance, PTL DEF Spec

-----------------------------------------------------------------------------
\* What the controller puts on the wires is what the master promises: the next
\* address, the next byte written, the next byte read with its acknowledge bit.
LEMMA ControllerSimulates ==
  ASSUME IInv, ~dirty, Controller, pc # "idle"
  PROVE  Master!Next
<1>. USE BoundsAssumption
<1>1. Clean /\ pc \in Steps /\ TypeOK /\ Always
  BY DEF IInv, TypeOK
<1>2. phase # "idle" /\ UNCHANGED <<pc, ret, msgs>>
  BY DEF Controller, AddrDone, WriteDone, ReadDone, caller, xfer_data
<1>3. Running /\ OnTheWires /\ msgs \in Transfers
  BY <1>1, <1>2, BusyMeansRunning DEF OnTheWires
<1>4. M.len \in 0..MaxLen /\ ptr \in 1..Len(msgs) /\ Len(msgs) \in 1..MaxMsgs
      /\ sm \in Nat /\ sn \in 0..MaxLen
  BY <1>1, <1>3, CurrentMessage DEF TypeOK
<1>5. ASSUME NEW nack \in BOOLEAN, AddrDone(nack) PROVE Master!Start(~nack)
  <2>1. Addressing
    BY <1>3, <1>5 DEF AddrDone, OnTheWires, Addressing, Addressed, Writing, Written, Reading, HasRead, Stopped
  <2>2. sm = ptr - 1 /\ sm < Len(msgs) /\ (sm = 0 \/ sn = msgs[sm].len) /\ ds = <<sm + 1, Address>> /\ Accepted
    BY <1>4, <2>1 DEF Addressing, PrevDone
  <2>3. nack => UNCHANGED <<sm, sn>>
    BY <1>5 DEF AddrDone
  <2>4. ~nack => sm' = sm + 1 /\ sn' = 0
    BY <1>4, <1>5, <2>2 DEF AddrDone, Up
  <2>5. ev' = [op |-> "S", byte |-> <<sm + 1, Address>>, ack |-> ~nack]
    BY <1>5, <2>2 DEF AddrDone
  <2>6. Master!Open /\ Master!MessageDone
    BY <2>2 DEF Master!Open, Master!Refused, Master!MessageDone, Accepted
  <2>7. ev' = [op |-> "S", byte |-> <<sm + 1, Master!Address>>, ack |-> ~nack]
    BY <2>5 DEF Address, Master!Address
  <2>8. CASE nack
    BY <1>2, <2>2, <2>3, <2>6, <2>7, <2>8 DEF Master!Start
  <2>9. CASE ~nack
    BY <1>2, <2>2, <2>4, <2>6, <2>7, <2>9 DEF Master!Start
  <2>. QED
    BY <2>8, <2>9
<1>6. ASSUME NEW nack \in BOOLEAN, WriteDone(nack) PROVE Master!Write(~nack)
  <2>1. Writing
    BY <1>3, <1>6 DEF WriteDone, OnTheWires, Addressing, Addressed, Writing, Written, Reading, HasRead, Stopped
  <2>2. sm = ptr /\ sm # 0 /\ sn < M.len /\ ~M.rd /\ ds = <<sm, sn>> /\ Accepted
    BY <1>4, <2>1 DEF Writing
  <2>3. sn' = (IF nack THEN sn ELSE sn + 1) /\ sm' = sm
    BY <1>4, <1>6, <2>2 DEF WriteDone, Up
  <2>4. ev' = [op |-> "W", byte |-> <<sm, sn>>, ack |-> ~nack]
    BY <1>6, <2>2 DEF WriteDone
  <2>. QED
    BY <1>2, <1>4, <2>2, <2>3, <2>4
    DEF Master!Write, Master!Open, Master!Refused, Master!MessageDone, Accepted, M
<1>7. ASSUME ReadDone PROVE Master!Read
  <2>1. Reading
    BY <1>3, <1>7 DEF ReadDone, OnTheWires, Addressing, Addressed, Writing, Written, Reading, HasRead, Stopped
  <2>2. sm = ptr /\ sm # 0 /\ sn < M.len /\ M.rd /\ Accepted
    BY <1>4, <2>1 DEF Reading
  <2>3. sn' = sn + 1 /\ sm' = sm
    BY <1>4, <1>7, <2>2 DEF ReadDone, Up
  <2>4. ack = (sn + 1 < M.len)
    BY <1>1, <2>1 DEF Reading, TypeOK
  <2>5. ev' = [op |-> "R", byte |-> <<sm, sn>>, ack |-> sn + 1 < M.len]
    BY <1>7, <2>4 DEF ReadDone
  <2>. QED
    BY <1>2, <1>4, <2>2, <2>3, <2>5
    DEF Master!Read, Master!Open, Master!Refused, Master!MessageDone, Accepted, M
<1>. QED
  BY <1>5, <1>6, <1>7 DEF Controller, Master!Next, Master!Progress

\* The handler itself puts nothing on the wires but STOP, and that only when
\* everything was sent or the slave refused.
LEMMA IrqSimulates ==
  ASSUME IInv, ~dirty, Irq, pc # "idle"
  PROVE  Master!Stop \/ UNCHANGED Master!vars
<1>1. TypeOK /\ Always /\ Clean
  BY DEF IInv
<1>2. pend /\ UNCHANGED <<msgs, pc, ret>>
  BY DEF Irq, IrqStart, IrqWrite, IrqRead, IrqDefault, IrqWild, Handle
<1>3. phase = "held" /\ OnTheWires
  BY <1>1, <1>2, BusyMeansRunning DEF Clean, TypeOK
<1>4. CASE UNCHANGED wires
  BY <1>2, <1>4 DEF wires, Master!vars
<1>5. Addressed \/ Written \/ HasRead
  BY <1>3 DEF OnTheWires, Addressing, Writing, Reading, Stopped
<1>6. ASSUME StopWith(ENODEV), lastbit, state \in {"START", "WRITE"} PROVE Master!Stop
  <2>1. ev.op \in {"S", "W"} /\ ~ev.ack
    BY <1>5, <1>6 DEF Addressed, Written, HasRead
  <2>2. ev' = StopSent /\ UNCHANGED <<sm, sn>>
    BY <1>6 DEF StopWith
  <2>. QED
    BY <1>2, <2>1, <2>2 DEF Master!Stop, Master!Refused, Master!StopSent, StopSent, Master!NoByte, NoByte
<1>7. ASSUME StopWith(OK) PROVE Master!Stop
  <2>1. ev' = StopSent /\ UNCHANGED <<sm, sn>> /\ state' = "STOP" /\ err' = OK
    BY <1>7 DEF StopWith
  <2>2. Clean' /\ Running'
    BY <1>1, <1>2, <1>3, IrqClean, BusyMeansRunning DEF Running, TypeOK
  <2>3. Stopped'
    BY <2>1, <2>2 DEF Clean, OnTheWires, Addressing, Addressed, Writing, Written, Reading, HasRead
  <2>4. AllSent
    BY <1>2, <2>1, <2>3 DEF Stopped, AllSent
  <2>5. ev.op # "P"
    BY <1>5 DEF Addressed, Written, HasRead
  <2>. QED
    BY <1>2, <2>1, <2>4, <2>5
    DEF Master!Stop, Master!AllDone, Master!MessageDone, AllSent, Master!StopSent, StopSent, Master!NoByte, NoByte
<1>8. ~IrqDefault
  BY <1>5 DEF IrqDefault, Addressed, Written, HasRead
<1>9. CASE IrqStart
  BY <1>4, <1>6, <1>7, <1>9 DEF IrqStart, WriteNext, NextRead, NextMsg
<1>10. CASE IrqWrite
  BY <1>4, <1>6, <1>7, <1>10 DEF IrqWrite, WriteNext, NextMsg
<1>11. CASE IrqRead
  BY <1>4, <1>7, <1>11 DEF IrqRead, NextRead, NextMsg
<1>12. CASE IrqWild
  BY <1>4, <1>12 DEF IrqWild
<1>. QED
  BY <1>8, <1>9, <1>10, <1>11, <1>12 DEF Irq

\* Every step within a transfer that began on an idle controller is a step of the
\* promised master, or changes nothing that the master shows.
LEMMA StepSimulates ==
  ASSUME IInv, [Next]_vars, ~dirty', pc' # "idle"
  PROVE  Master!Next \/ UNCHANGED Master!vars
<1>1. CASE UNCHANGED vars
  BY <1>1 DEF vars, xfer_data, wires, caller, Master!vars
<1>2. ASSUME NEW q \in Calls, Call(q) PROVE Master!Next
  <2>1. /\ pc = "idle" /\ pc' # "idle" /\ msgs' = q /\ sm' = 0 /\ sn' = 0 /\ ev' = Quiet
        /\ UNCHANGED ret
    BY <1>2 DEF Call, Step
  <2>2. Master!Call(q)
    BY <2>1 DEF Master!Call, Master!Quiet, Quiet, Master!NoByte, NoByte
  <2>3. q \in Master!Transfers
    BY CallsAssumption DEF Transfers, Master!Transfers, Msg, Master!Msg
  <2>. QED
    BY <2>2, <2>3 DEF Master!Next
<1>3. CASE Xfer
  BY <1>3 DEF Xfer, Step, SetNum, SetCur, SetPtr, SetErr, StartState, StartData, StartStat, Finish, Timeout,
              xfer_data, wires, Master!vars
<1>4. CASE Irq
  <2>1. ~dirty /\ pc # "idle"
    BY <1>4 DEF Irq, IrqStart, IrqWrite, IrqRead, IrqDefault, IrqWild, Handle
  <2>. QED
    BY <1>4, <2>1, IrqSimulates DEF Master!Next, Master!Progress
<1>5. CASE Controller
  <2>1. ~dirty /\ pc # "idle"
    BY <1>5 DEF Controller, AddrDone, WriteDone, ReadDone, caller
  <2>. QED
    BY <1>5, <2>1, ControllerSimulates
<1>. QED
  BY <1>1, <1>2, <1>3, <1>4, <1>5 DEF Next

\* A transfer that finds the controller idle is carried out as its messages say,
\* whatever an abandoned one before it left behind (145-151).
THEOREM CleanTransfersHold == Spec => CleanTransfers
<1>1. IInv /\ [Next]_vars => [~dirty' /\ pc' # "idle" => Master!Next \/ UNCHANGED Master!vars]_vars
  BY StepSimulates
<1>. QED
  BY <1>1, Invariance, PTL DEF Spec, CleanTransfers

-----------------------------------------------------------------------------
\* Without timeouts no transfer finds the controller busy ...
NoTimeouts == ~Timeouts => ~dirty /\ ret # ETIMEDOUT

\* ... because a transfer that returns a result has released the bus.
LEMMA NeverDirty == Spec => []NoTimeouts
<1>1. Init => NoTimeouts
  BY DEF Init, NoTimeouts, OK, ETIMEDOUT
<1>2. IInv /\ NoTimeouts /\ [Next]_vars => NoTimeouts'
  <2>. SUFFICES ASSUME IInv, ~dirty, ret # ETIMEDOUT, ~Timeouts, [Next]_vars PROVE ~dirty' /\ ret' # ETIMEDOUT
    BY DEF NoTimeouts
  <2>1. CASE UNCHANGED vars
    BY <2>1 DEF vars, caller
  <2>2. ASSUME NEW q \in Calls, Call(q) PROVE ~dirty' /\ ret' # ETIMEDOUT
    BY <2>2 DEF Call, Step, IInv, Clean, AtRest
  <2>3. CASE Xfer
    BY <2>3 DEF Xfer, SetNum, SetCur, SetPtr, SetErr, StartState, StartData, StartStat, Finish, Timeout,
                IInv, TypeOK, OK, ENODEV, ETIMEDOUT
  <2>4. CASE Irq
    BY <2>4 DEF Irq, IrqStart, IrqWrite, IrqRead, IrqDefault, IrqWild, Handle
  <2>5. CASE Controller
    BY <2>5 DEF Controller, AddrDone, WriteDone, ReadDone, caller
  <2>. QED
    BY <2>1, <2>2, <2>3, <2>4, <2>5 DEF Next
<1>. QED
  BY <1>1, <1>2, Invariance, PTL DEF Spec

\* What xfer returns is what the master promises to return (163).
LEMMA FinishSimulates ==
  ASSUME IInv, ~dirty, Finish
  PROVE  Master!Return
<1>1. Stopped /\ pc = "wait" /\ pc' = "idle" /\ ret' = err /\ UNCHANGED <<msgs, sm, sn, ev>> /\ err \in {OK, ENODEV}
  BY DEF Finish, Step, IInv, Clean, Running, OnTheWires, Addressing, Addressed, Writing, Written, Reading,
         HasRead, xfer_data, wires, TypeOK
<1>2. Master!AllDone <=> AllSent
  BY DEF Master!AllDone, Master!MessageDone, AllSent
<1>. QED
  BY <1>1, <1>2 DEF Stopped, Master!Return, OK, ENODEV, Master!OK, Master!ENODEV

\* When nothing times out, the driver with its controller and its interrupt
\* implements the master: START, address, bytes, acknowledge bits, STOP and result
\* are the promised ones, for messages of any number and length (safety only).
THEOREM Implements == ~Timeouts => (Spec => Master!Init /\ [][Master!Next]_Master!vars)
<1>. SUFFICES ASSUME ~Timeouts PROVE Spec => Master!Init /\ [][Master!Next]_Master!vars
  OBVIOUS
<1>1. Init => Master!Init
  BY DEF Init, Master!Init, Quiet, Master!Quiet, NoByte, Master!NoByte, OK, Master!OK
<1>2. IInv /\ NoTimeouts /\ NoTimeouts' /\ [Next]_vars => [Master!Next]_Master!vars
  <2>. SUFFICES ASSUME IInv, ~dirty, ~dirty', ret' # ETIMEDOUT, [Next]_vars PROVE [Master!Next]_Master!vars
    BY DEF NoTimeouts
  <2>1. CASE pc' # "idle"
    BY <2>1, StepSimulates
  <2>2. CASE pc' = "idle" /\ Finish
    BY <2>2, FinishSimulates DEF Master!Next, Master!Progress
  <2>3. CASE pc' = "idle" /\ ~Finish
    <3>1. CASE UNCHANGED vars
      BY <3>1 DEF vars, xfer_data, wires, caller, Master!vars
    <3>2. CASE Irq \/ Controller
      <4>1. pc = "idle" /\ pend' # pend /\ phase # "idle" /\ ret # ETIMEDOUT
        BY <2>3, <3>2 DEF Irq, IrqStart, IrqWrite, IrqRead, IrqDefault, IrqWild, Handle,
           Controller, AddrDone, WriteDone, ReadDone, Interrupt, caller, IInv, Always
      <4>. QED
        BY <4>1 DEF IInv, Clean, AtRest
    <3>. QED
      BY <2>3, <3>1, <3>2 DEF Next, Call, Xfer, Step, SetNum, SetCur, SetPtr, SetErr, StartState, StartData,
           StartStat, Timeout
  <2>. QED
    BY <2>1, <2>2, <2>3
<1>. QED
  BY <1>1, <1>2, Invariance, NeverDirty, PTL DEF Spec
=============================================================================
