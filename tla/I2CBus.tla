-------------------------------- MODULE I2CBus --------------------------------
(***************************************************************************)
(* The I2C adapter driver 21th_i2c_drv/6th_i2c_bus/2th/i2c_bus_s3c2440.c:  *)
(* s3c2440_i2c_xfer() in process context, one assignment per step, and its *)
(* interrupt handler, which runs in one step because interrupts are off,   *)
(* around the S3C2440 IIC controller and a slave that acknowledges or      *)
(* refuses as it likes (both modelled from how the driver uses them).      *)
(*                                                                         *)
(* The kernel is uniprocessor and does not preempt kernel code, and the    *)
(* core holds the adapter's lock around xfer, so the only interleaving is  *)
(* of xfer with the interrupt.  It becomes dangerous after a timeout: xfer *)
(* returns, the controller and the handler go on with the old messages.    *)
(* "dirty" marks a transfer that was begun before they had finished.       *)
(***************************************************************************)
EXTENDS I2CMsg

CONSTANTS Calls,     \* the transfers clients ask for
          Timeouts   \* may the five seconds of wait_event_timeout() run out?

ASSUME CallsAssumption    == Calls \subseteq Transfers
ASSUME TimeoutsAssumption == Timeouts \in BOOLEAN

VARIABLES
  \* struct s3c2440_i2c_xfer_data; the pointer msgs is the array and a place in it
  msgs, ptr, msgs_num, cur_msgs, cur_ptr, state, err,
  \* IICCON: acknowledge enable, interrupt pending; IICSTAT: direction, last
  \* received bit; IICDS; what the controller is doing
  ack, pend, mode, lastbit, ds, phase,
  \* seen on the wires since the call: STARTs and bytes acknowledged, last element
  sm, sn, ev,
  \* the process in xfer, what xfer returned, the callers' read buffers
  pc, ret, mem,
  \* begun on a controller still busy; memory outside the messages was touched
  dirty, wild

xfer_data == <<msgs, ptr, msgs_num, cur_msgs, cur_ptr, state, err>>
regs      == <<ack, pend, mode, lastbit, ds, phase>>
wires     == <<sm, sn, ev>>
caller    == <<pc, ret, mem, dirty, wild>>
vars      == <<xfer_data, regs, wires, caller>>

States == {"IDLE", "START", "READ", "WRITE", "STOP"}
Steps  == {"idle", "num", "cur", "ptr", "err", "state", "iicds", "iicstat", "wait"}
Phases == {"idle", "addr", "tx", "rx", "held"}
Cells  == (1..MaxMsgs) \X (0..MaxLen)

TypeOK ==
  /\ msgs \in Transfers \cup {<<>>}
  /\ ptr \in 1..MaxMsgs
  /\ msgs_num \in 0..MaxMsgs
  /\ cur_msgs \in Nat
  /\ cur_ptr \in 0..MaxLen
  /\ state \in States
  /\ err \in {OK, ENODEV}
  /\ ack \in BOOLEAN /\ pend \in BOOLEAN /\ lastbit \in BOOLEAN
  /\ mode \in {"rx", "tx"}
  /\ ds \in Byte
  /\ phase \in Phases
  /\ sm \in 0..MaxMsgs /\ sn \in 0..MaxLen /\ ev \in Event
  /\ pc \in Steps
  /\ ret \in {OK, ENODEV, ETIMEDOUT}
  /\ mem \in [Cells -> Byte]
  /\ dirty \in BOOLEAN /\ wild \in BOOLEAN

\* i2c_bus_s3c2440_init(): the registers are set up, static data is zero
Init ==
  /\ msgs = <<>> /\ ptr = 1 /\ msgs_num = 0 /\ cur_msgs = 0 /\ cur_ptr = 0
  /\ state = "IDLE" /\ err = OK
  /\ ack = TRUE /\ pend = FALSE /\ mode = "rx"
  /\ lastbit = FALSE /\ ds = NoByte /\ phase = "idle"
  /\ sm = 0 /\ sn = 0 /\ ev = Quiet
  /\ pc = "idle" /\ ret = OK /\ mem = [c \in Cells |-> NoByte]
  /\ dirty = FALSE /\ wild = FALSE

-------------------------------------------------------------------------------
(* The message under the handler, and the three tests on it. *)

M == msgs[ptr]

\* faults: one too many, never
isLastMsgLate      == cur_msgs = msgs_num
isEndDataLate(p)   == p > M.len
isLastDataNever(p) == FALSE

isLastMsg     == cur_msgs = msgs_num - 1
isEndData(p)  == p >= M.len
isLastData(p) == p = M.len - 1

Direction(m) == IF m.rd THEN "rx" ELSE "tx"

-------------------------------------------------------------------------------
(* s3c2440_i2c_xfer(), process context.  A pending interrupt is taken      *)
(* before the next statement.                                              *)

\* the process goes from one statement to another
Step(from, to) == pc = from /\ pc' = to /\ ~pend

\* The call, and the first assignment: msgs.
Call(q) ==
  /\ Step("idle", "num")
  /\ msgs' = q /\ ptr' = 1
  /\ mem' = [c \in Cells |-> NoByte]
  /\ dirty' = (phase # "idle")
  /\ sm' = 0 /\ sn' = 0 /\ ev' = Quiet
  /\ UNCHANGED <<msgs_num, cur_msgs, cur_ptr, state, err, regs, ret, wild>>

SetNum ==
  /\ Step("num", "cur")
  /\ msgs_num' = Len(msgs)
  /\ UNCHANGED <<msgs, ptr, cur_msgs, cur_ptr, state, err, regs, wires, ret, mem, dirty, wild>>

SetCur ==
  /\ Step("cur", "ptr")
  /\ cur_msgs' = 0
  /\ UNCHANGED <<msgs, ptr, msgs_num, cur_ptr, state, err, regs, wires, ret, mem, dirty, wild>>

\* fault: cur_ptr keeps what the last transfer left
SetPtrForgotten ==
  /\ Step("ptr", "err")
  /\ UNCHANGED <<xfer_data, regs, wires, ret, mem, dirty, wild>>

SetPtr ==
  /\ Step("ptr", "err")
  /\ cur_ptr' = 0
  /\ UNCHANGED <<msgs, ptr, msgs_num, cur_msgs, state, err, regs, wires, ret, mem, dirty, wild>>

SetErr ==
  /\ Step("err", "state")
  /\ err' = ENODEV
  /\ UNCHANGED <<msgs, ptr, msgs_num, cur_msgs, cur_ptr, state, regs, wires, ret, mem, dirty, wild>>

\* s3c2440_i2c_start() called by xfer: state, then IICDS, then IICSTAT, which
\* sends START whatever the controller was shifting.
StartState ==
  /\ Step("state", "iicds")
  /\ state' = "START"
  /\ UNCHANGED <<msgs, ptr, msgs_num, cur_msgs, cur_ptr, err, regs, wires, ret, mem, dirty, wild>>

StartData ==
  /\ Step("iicds", "iicstat")
  /\ ds' = <<ptr, Address>>
  /\ UNCHANGED <<xfer_data, ack, pend, mode, lastbit, phase, wires, ret, mem, dirty, wild>>

StartStat ==
  /\ Step("iicstat", "wait")
  /\ mode' = Direction(M)
  /\ phase' = "addr"
  /\ UNCHANGED <<xfer_data, ack, pend, lastbit, ds, wires, ret, mem, dirty, wild>>

\* wait_event_timeout() ends because the condition holds ...
Finish ==
  /\ Step("wait", "idle")
  /\ state = "STOP"
  /\ ret' = err
  /\ UNCHANGED <<xfer_data, regs, wires, mem, dirty, wild>>

\* ... or because time is up; the condition is not looked at again
Timeout ==
  /\ Timeouts
  /\ Step("wait", "idle")
  /\ ret' = ETIMEDOUT
  /\ UNCHANGED <<xfer_data, regs, wires, mem, dirty, wild>>

Xfer ==
  SetNum \/ SetCur \/ SetPtr \/ SetErr \/ StartState \/ StartData \/ StartStat
  \/ Finish \/ Timeout

-------------------------------------------------------------------------------
(* s3c2440_i2c_xfer_irq().  Each branch ends by clearing IRQPEND, which    *)
(* resumes the bus: with the START or the STOP that IICSTAT asks for, or   *)
(* with the next byte in its direction.                                    *)

\* what every run of the handler does, and what it never touches
Handle == pend /\ ~wild /\ pend' = FALSE /\ UNCHANGED <<msgs, msgs_num, lastbit, pc, ret, dirty>>

Resume == phase' = mode

\* fault: IICSTAT is not told to send STOP
StopSilent(e) ==
  /\ state' = "STOP" /\ err' = e /\ ack' = TRUE /\ Resume
  /\ UNCHANGED <<ptr, cur_msgs, mode, ds, wires>>

\* s3c2440_i2c_stop()
StopWith(e) ==
  /\ state' = "STOP" /\ err' = e
  /\ ack' = TRUE /\ mode' = Direction(M) /\ phase' = "idle"
  /\ ev' = StopSent
  /\ UNCHANGED <<ptr, cur_msgs, ds, sm, sn>>

\* fault: the next message starts where this one ended
NextMsgKeepsPtr ==
  /\ ptr < Len(msgs)
  /\ ptr' = ptr + 1 /\ cur_msgs' = cur_msgs + 1 /\ cur_ptr' = cur_ptr
  /\ state' = "START"
  /\ ds' = <<ptr + 1, Address>> /\ mode' = Direction(msgs[ptr + 1])
  /\ phase' = "addr"
  /\ UNCHANGED <<err, ack, wires>>

\* msgs++ and s3c2440_i2c_start() for the message it now points at
NextMsg ==
  /\ ptr < Len(msgs)
  /\ ptr' = ptr + 1 /\ cur_msgs' = cur_msgs + 1 /\ cur_ptr' = 0
  /\ state' = "START"
  /\ ds' = <<ptr + 1, Address>> /\ mode' = Direction(msgs[ptr + 1])
  /\ phase' = "addr"
  /\ UNCHANGED <<err, ack, wires>>

\* case STATE_WRITE once the last byte was acknowledged
WriteNext ==
  \/ /\ ~isEndData(cur_ptr)
     /\ state' = "WRITE"
     /\ ds' = <<ptr, cur_ptr>> /\ cur_ptr' = cur_ptr + 1
     /\ ack' = TRUE /\ Resume
     /\ UNCHANGED <<ptr, cur_msgs, err, mode, wires>>
  \/ isEndData(cur_ptr) /\ ~isLastMsg /\ NextMsg
  \/ isEndData(cur_ptr) /\ isLastMsg /\ StopWith(OK) /\ UNCHANGED cur_ptr

\* label next_read, with p bytes read: refuse to acknowledge only the last byte
NextRead(p) ==
  \/ /\ ~isEndData(p)
     /\ state' = "READ" /\ cur_ptr' = p
     /\ ack' = ~isLastData(p) /\ Resume
     /\ UNCHANGED <<ptr, cur_msgs, err, mode, ds, wires>>
  \/ isEndData(p) /\ ~isLastMsg /\ NextMsg
  \/ isEndData(p) /\ isLastMsg /\ StopWith(OK) /\ cur_ptr' = p

IrqStart ==
  /\ Handle
  /\ state = "START"
  /\ \/ lastbit /\ StopWith(ENODEV) /\ UNCHANGED cur_ptr
     \/ ~lastbit /\ isLastMsg /\ isEndData(cur_ptr) /\ StopWith(OK) /\ UNCHANGED cur_ptr
     \/ ~lastbit /\ ~(isLastMsg /\ isEndData(cur_ptr)) /\ M.rd /\ NextRead(cur_ptr)
     \/ ~lastbit /\ ~(isLastMsg /\ isEndData(cur_ptr)) /\ ~M.rd /\ WriteNext
  /\ UNCHANGED <<mem, wild>>

\* fault: a byte that was refused counts as sent
IrqWriteBlind ==
  /\ Handle
  /\ state = "WRITE"
  /\ WriteNext
  /\ UNCHANGED <<mem, wild>>

IrqWrite ==
  /\ Handle
  /\ state = "WRITE"
  /\ \/ lastbit /\ StopWith(ENODEV) /\ UNCHANGED cur_ptr
     \/ ~lastbit /\ WriteNext
  /\ UNCHANGED <<mem, wild>>

IrqRead ==
  /\ Handle
  /\ state = "READ" /\ cur_ptr < M.len
  /\ mem' = [mem EXCEPT ![<<ptr, cur_ptr>>] = ds]
  /\ NextRead(cur_ptr + 1)
  /\ UNCHANGED wild

\* no case of the switch applies: only the pending bit is cleared
IrqDefault ==
  /\ Handle
  /\ state \in {"IDLE", "STOP"}
  /\ Resume
  /\ UNCHANGED <<ptr, cur_msgs, cur_ptr, state, err, ack, mode, ds, wires, mem, wild>>

\* The handler stores past the end of buf, or moves msgs past the last message:
\* C gives such a run no meaning; here the handler does nothing any more.
IrqWild ==
  /\ Handle
  /\ \/ state = "READ" /\ cur_ptr >= M.len
     \/ /\ ptr = Len(msgs) /\ ~isLastMsg
        /\ \/ state \in {"START", "WRITE"} /\ ~lastbit /\ isEndData(cur_ptr)
           \/ state = "READ" /\ isLastData(cur_ptr)
  /\ wild' = TRUE
  /\ UNCHANGED <<ptr, cur_msgs, cur_ptr, state, err, ack, mode, ds, phase, wires, mem>>

Irq == IrqStart \/ IrqWrite \/ IrqRead \/ IrqDefault \/ IrqWild

-------------------------------------------------------------------------------
(* The controller and the slave (external): a byte has been shifted, the   *)
(* clock line is held low and the interrupt becomes pending.               *)

Interrupt(nack) == pend' = TRUE /\ phase' = "held" /\ lastbit' = nack

\* The counters only saturate in a dirty transfer.
Up(n, bound) == IF n < bound THEN n + 1 ELSE n

AddrDone(nack) ==
  /\ phase = "addr"
  /\ Interrupt(nack)
  /\ ev' = [op |-> "S", byte |-> ds, ack |-> ~nack]
  /\ IF nack THEN UNCHANGED <<sm, sn>> ELSE sm' = Up(sm, MaxMsgs) /\ sn' = 0
  /\ UNCHANGED <<xfer_data, ack, mode, ds, caller>>

WriteDone(nack) ==
  /\ phase = "tx"
  /\ Interrupt(nack)
  /\ ev' = [op |-> "W", byte |-> ds, ack |-> ~nack]
  /\ sn' = IF nack THEN sn ELSE Up(sn, MaxLen)
  /\ UNCHANGED <<xfer_data, ack, mode, ds, sm, caller>>

ReadDone ==
  /\ phase = "rx"
  /\ Interrupt(~ack)
  /\ ds' = <<sm, sn>>
  /\ ev' = [op |-> "R", byte |-> <<sm, sn>>, ack |-> ack]
  /\ sn' = Up(sn, MaxLen)
  /\ UNCHANGED <<xfer_data, ack, mode, sm, caller>>

Controller == (\E nack \in BOOLEAN : AddrDone(nack) \/ WriteDone(nack)) \/ ReadDone

-------------------------------------------------------------------------------
Next == (\E q \in Calls : Call(q)) \/ Xfer \/ Irq \/ Controller

(* The process is scheduled, the interrupt is taken, and the controller    *)
(* finishes the byte it shifts.  Nothing makes a client call.              *)
Fairness == WF_vars(Xfer) /\ WF_vars(Irq) /\ WF_vars(Controller)

Spec == Init /\ [][Next]_vars /\ Fairness

-------------------------------------------------------------------------------
(* Properties. *)

Master == INSTANCE I2CMaster
            WITH req <- msgs, active <- pc # "idle", reply <- ret

AllSent == sm = Len(msgs) /\ (sm = 0 \/ sn = msgs[sm].len)

\* While nothing times out the driver, the controller and the interrupt
\* together are a correct I2C master: the wires carry START, address and the
\* bytes of every message in order and once, only the last byte of a read is
\* left unacknowledged (299-312), the transfer ends with one STOP, the result
\* says whether everything was sent, and every call returns.
ImplementsMaster == Master!Spec

\* After timeouts too, each transfer that finds the controller idle is carried
\* out as the messages say: nothing an earlier, abandoned transfer left in the
\* driver's fields or in IICCON leaks into it (145-151).
CleanTransfers ==
  [][~dirty' /\ pc' # "idle" => Master!Next \/ UNCHANGED Master!vars]_vars

\* xfer's result is the truth about the wires: OK exactly when every message
\* was acknowledged to its last byte (225-229, 254-258, 284, 329).
ResultIsTrue ==
  ~dirty /\ pc = "idle" /\ ret # ETIMEDOUT => (ret = OK <=> AllSent)

\* When xfer returns a result the controller has released the bus and no
\* interrupt of this transfer can still arrive.
ReturnsReleased ==
  ~dirty /\ pc = "idle" /\ ret # ETIMEDOUT => phase = "idle" /\ ~pend

\* The handler stays inside the caller's buffers and messages (262, 273, 293).
StaysInside == ~dirty => ~wild

\* In a transfer begun on an idle controller, given up since or not, an interrupt
\* comes only while the owner sleeps in xfer or after it has given up, and the
\* handler's state, ptr and cur_ptr are in step with the byte the wires have just
\* carried, so that it never takes one byte for another (221-329).
HandlerInStep ==
  ~dirty /\ pend =>
    /\ pc = "wait" \/ (pc = "idle" /\ ret = ETIMEDOUT)
    /\ \/ state = "START" /\ ev.op = "S" /\ cur_ptr = 0 /\ (~lastbit => sm = ptr)
       \/ state = "WRITE" /\ ev.op = "W" /\ sm = ptr /\ cur_ptr = (IF lastbit THEN sn + 1 ELSE sn)
       \/ state = "READ" /\ ev.op = "R" /\ sm = ptr /\ sn = cur_ptr + 1 /\ ds = <<ptr, cur_ptr>>

\* After a read that returned OK each byte is where it belongs: buf[p] of message
\* m is the p-th byte the slave sent after the m-th address (293-294, 320).
ReadsAreInPlace ==
  ~dirty /\ pc = "idle" /\ ret = OK =>
    \A m \in 1..Len(msgs) : msgs[m].rd =>
      \A p \in 0..(msgs[m].len - 1) : mem[<<m, p>>] = <<m, p>>

\* An abandoned transfer is not abandoned by the handler: left alone, it brings
\* the bus to rest, so that a later call finds the controller idle.
AbandonedTransferEnds ==
  (~dirty /\ pc = "idle" /\ ret = ETIMEDOUT) ~> (pc # "idle" \/ (phase = "idle" /\ ~pend))
===============================================================================
