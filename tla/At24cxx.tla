------------------------------- MODULE At24cxx -------------------------------
(***************************************************************************)
(* /dev/at24cxx from read() and write() down to the memory cells: the      *)
(* character driver, the i2c core's adapter lock and SMBus messages        *)
(* (external), the adapter, taken at the level of I2CMaster, which I2CBus  *)
(* implements, and the EEPROM (external): it keeps an address counter,     *)
(* programs a cell after STOP, and answers to nothing while it does.       *)
(*                                                                         *)
(* There are two drivers, and a behaviour runs one of them:                *)
(* 21th_i2c_drv/4th_drv_dev_test/at24cxx_drv.c uses the core's SMBus       *)
(* calls, and 19th_i2c_drv/5th/at24cxx.c, for an older kernel, makes its   *)
(* own messages and expects that their number is returned, as it is by     *)
(* the adapters of that kernel (external).                                 *)
(***************************************************************************)
EXTENDS Integers, Sequences

CONSTANTS Procs, Addrs, Data, Junk, NoProc

ASSUME AddrsAssumption == Addrs \subseteq Nat /\ Addrs # {}
ASSUME JunkAssumption  == Junk \notin Data /\ NoProc \notin Procs

VARIABLES
  driver,   \* 19th or 21th
  \* the adapter (I2CMaster)
  req, active, sm, sn, ev, reply,
  \* the EEPROM: cells, address counter, byte to be programmed, programming
  cells, counter, latch, busy,
  \* the adapter's lock and the processes: where they are, what they asked for,
  \* the byte and the status that came back, and what user space was given
  owner, pc, op, got, status, out

adapter == <<req, active, sm, sn, ev, reply>>
eeprom  == <<cells, counter, latch, busy>>
procs   == <<owner, pc, op, got, status, out>>
vars    == <<driver, adapter, eeprom, procs>>

Bus == INSTANCE I2CMaster WITH MaxMsgs <- 2, MaxLen <- 2

\* The store; where a call is decided is the STOP that ends its transfer.
Decided(p) == pc[p] = "done" \/ (pc[p] = "bus" /\ ev.op = "P")

Happened(p) == Decided(p) /\ IF pc[p] = "bus" THEN Bus!AllDone ELSE status[p] = Bus!OK

Store == INSTANCE ByteStore WITH
  store <- cells,
  st    <- [p \in Procs |-> IF pc[p] = "idle" THEN "idle" ELSE IF Decided(p) THEN "decided" ELSE "called"],
  val   <- [p \in Procs |->
             [ok |-> Happened(p), byte |-> IF Happened(p) THEN got[p] ELSE Junk]]

Ops == Store!Ops

TypeOK ==
  /\ driver \in {"19th", "21th"}
  /\ Bus!TypeOK
  /\ cells \in [Addrs -> Data] /\ counter \in Addrs /\ latch \in Data \cup {Junk} /\ busy \in BOOLEAN
  /\ owner \in Procs \cup {NoProc}
  /\ pc \in [Procs -> {"idle", "lock", "bus", "done"}]
  /\ op \in [Procs -> Ops \cup {Store!Nothing}]
  /\ got \in [Procs -> Data \cup {Junk}]
  /\ status \in [Procs -> {Bus!OK, Bus!ENODEV}]
  /\ out \in [Procs -> [ret : {0, 1, 2, Store!EIO, Store!EPERM}, buf : {<<>>} \cup [{0} -> Data \cup {Junk}]]]

Init ==
  /\ driver \in {"19th", "21th"}
  /\ Bus!Init
  /\ cells \in [Addrs -> Data] /\ counter \in Addrs /\ latch = Junk /\ busy = FALSE
  /\ owner = NoProc
  /\ pc = [p \in Procs |-> "idle"]
  /\ op = [p \in Procs |-> Store!Nothing]
  /\ got = [p \in Procs |-> Junk]
  /\ status = [p \in Procs |-> Bus!ENODEV]
  /\ out = [p \in Procs |-> Store!NoAnswer]

-----------------------------------------------------------------------------
(* at24cxx_read() and at24cxx_write() *)

\* copy_from_user(), and i2c_smbus_{read,write}_byte_data() or i2c_transfer() is called
Enter(p, o) ==
  /\ pc[p] = "idle"
  /\ pc' = [pc EXCEPT ![p] = "lock"]
  /\ op' = [op EXCEPT ![p] = o]
  /\ out' = [out EXCEPT ![p] = Store!NoAnswer]
  /\ UNCHANGED <<adapter, eeprom, owner, got, status>>

\* The 19th reads one byte and writes two, and refuses a buffer of any other size.
\* The 21th looks at no size: it is called with the right one.
WrongSize(p) ==
  /\ driver = "19th" /\ pc[p] = "idle"
  /\ out' = [out EXCEPT ![p] = [ret |-> Store!EPERM, buf |-> <<>>]]
  /\ UNCHANGED <<adapter, eeprom, owner, pc, op, got, status>>

\* fault: the cell address is not sent before a read
MessagesCurrent(o) ==
  IF o.kind = "write" THEN <<[rd |-> FALSE, len |-> 2]>> ELSE <<[rd |-> TRUE, len |-> 1]>>

\* msgs of the 19th driver, and what the core makes of the SMBus calls of the 21th
Messages(o) ==
  IF o.kind = "write" THEN <<[rd |-> FALSE, len |-> 2]>>
  ELSE <<[rd |-> FALSE, len |-> 1], [rd |-> TRUE, len |-> 1]>>

\* What user space gets from the 21th: read looks at no error and stores an error
\* code, cut to 8 bits, as if it were data; write turns any error into -EIO.
ReadResult(p)  == [ret |-> 1, buf |-> [i \in {0} |-> IF status[p] = Bus!OK THEN got[p] ELSE Junk]]
WriteResult(p) == [ret |-> IF status[p] = Bus!OK THEN 2 ELSE Store!EIO, buf |-> <<>>]

\* and from the 19th, which compares what i2c_transfer returned with the number of
\* messages, and leaves the user's buffer alone after an error
iRet(p) == IF status[p] = Bus!OK THEN Len(Messages(op[p])) ELSE status[p]

at24cxx_read(p)  == IF iRet(p) = 2 THEN [ret |-> 1, buf |-> [i \in {0} |-> got[p]]]
                    ELSE [ret |-> Store!EPERM, buf |-> <<>>]
at24cxx_write(p) == [ret |-> IF iRet(p) = 1 THEN 2 ELSE Store!EPERM, buf |-> <<>>]

\* fault: the status of the bus is returned as it is
ResultRaw(p) ==
  IF op[p].kind = "read" THEN ReadResult(p) ELSE [WriteResult(p) EXCEPT !.ret = status[p]]

Result(p) ==
  CASE driver = "21th" /\ op[p].kind = "read"  -> ReadResult(p)
    [] driver = "21th" /\ op[p].kind = "write" -> WriteResult(p)
    [] driver = "19th" /\ op[p].kind = "read"  -> at24cxx_read(p)
    [] driver = "19th" /\ op[p].kind = "write" -> at24cxx_write(p)

Leave(p) ==
  /\ pc[p] = "done"
  /\ pc' = [pc EXCEPT ![p] = "idle"]
  /\ out' = [out EXCEPT ![p] = Result(p)]
  /\ op' = [op EXCEPT ![p] = Store!Nothing]
  /\ got' = [got EXCEPT ![p] = Junk]
  /\ status' = [status EXCEPT ![p] = Bus!ENODEV]
  /\ UNCHANGED <<adapter, eeprom, owner>>

-----------------------------------------------------------------------------
(* The i2c core: one lock around a transfer.                                *)

Transfer(p) ==
  /\ pc[p] = "lock" /\ owner = NoProc
  /\ owner' = p
  /\ pc' = [pc EXCEPT ![p] = "bus"]
  /\ Bus!Call(Messages(op[p]))
  /\ UNCHANGED <<eeprom, op, got, status, out>>

Transferred(p) ==
  /\ pc[p] = "bus"
  /\ Bus!Return
  /\ owner' = NoProc
  /\ pc' = [pc EXCEPT ![p] = "done"]
  /\ status' = [status EXCEPT ![p] = reply']
  /\ UNCHANGED <<eeprom, op, got, out>>

-----------------------------------------------------------------------------
(* The wires, as the EEPROM sees them.  It may refuse anything it is sent, *)
(* and does refuse its address while it is programming.                    *)

\* fault: addr and data are static, one pair for all callers
SentShared == op[CHOOSE p \in Procs : op[p] # Store!Nothing]

\* the first byte written is a cell address, the second one is for that cell
Sent == op[owner]

Start ==
  /\ \E ack \in BOOLEAN : (busy => ~ack) /\ Bus!Start(ack)
  /\ latch' = Junk
  /\ UNCHANGED <<cells, counter, busy, procs>>

Write ==
  /\ \E ack \in BOOLEAN :
       /\ Bus!Write(ack)
       /\ counter' = IF ack /\ sn = 0 THEN Sent.addr ELSE counter
       /\ latch' = IF ack /\ sn = 1 THEN Sent.data ELSE latch
  /\ UNCHANGED <<cells, busy, procs>>

NextCell(a) == IF a + 1 \in Addrs THEN a + 1 ELSE CHOOSE b \in Addrs : \A c \in Addrs : b <= c

Read ==
  /\ Bus!Read
  /\ got' = [got EXCEPT ![owner] = cells[counter]]
  /\ counter' = NextCell(counter)
  /\ UNCHANGED <<cells, latch, busy, owner, pc, op, status, out>>

Stop ==
  /\ Bus!Stop
  /\ IF latch # Junk
     THEN cells' = [cells EXCEPT ![counter] = latch] /\ busy' = TRUE
     ELSE UNCHANGED <<cells, busy>>
  /\ latch' = Junk
  /\ UNCHANGED <<counter, procs>>

Programmed ==
  /\ busy /\ busy' = FALSE
  /\ UNCHANGED <<adapter, cells, counter, latch, procs>>

Wires == Start \/ Write \/ Read \/ Stop

-----------------------------------------------------------------------------
Next ==
  /\ UNCHANGED driver
  /\ \/ \E p \in Procs : (\E o \in Ops : Enter(p, o)) \/ WrongSize(p) \/ Transfer(p) \/ Transferred(p) \/ Leave(p)
     \/ Wires
     \/ Programmed

(* The wires make progress because I2CMaster does; the lock is an rt_mutex *)
(* that serves waiters of one priority in turn, so that a waiter gets it   *)
(* if it becomes free again and again.                                     *)
Fairness ==
  /\ WF_vars(Wires /\ UNCHANGED driver)
  /\ \A p \in Procs : /\ SF_vars(Transfer(p) /\ UNCHANGED driver)
                       /\ WF_vars((Transferred(p) \/ Leave(p)) /\ UNCHANGED driver)

Spec == Init /\ [][Next]_vars /\ Fairness

-----------------------------------------------------------------------------
\* Calls of several processes behave like reads and writes of single bytes, each
\* at one moment: a write that returned 2 is seen by every later read, one that
\* returned an error by none, a read of the 19th driver that returned an error
\* stored nothing, the two messages of a read are not split by another
\* process, and every call returns (28, 49-52).
ImplementsByteStore == Store!Spec

\* A cell changes only to a byte some process is writing to that very cell, and
\* only while it owns the bus: programming at STOP uses the right address (45-49).
CellsChangeByWriter ==
  [][\A a \in Addrs : cells'[a] # cells[a] =>
       owner # NoProc /\ op[owner] = Store!Write(a, cells'[a])]_vars
=============================================================================
