---------------------------- MODULE At24cxxProofs ----------------------------
(***************************************************************************)
(* /dev/at24cxx is an array of bytes, for any processes, addresses and     *)
(* data: the safety part of what At24cxx promises.                         *)
(***************************************************************************)
EXTENDS At24cxx, SequenceTheorems, WellFoundedInduction, TLAPS

EepromTyped ==
  cells \in [Addrs -> Data] /\ counter \in Addrs /\ latch \in Data \cup {Junk} /\ busy \in BOOLEAN

CallsTyped ==
  /\ owner \in Procs \cup {NoProc}
  /\ pc \in [Procs -> {"idle", "lock", "bus", "done"}]
  /\ op \in [Procs -> Ops \cup {Store!Nothing}]

AnswersTyped ==
  /\ got \in [Procs -> Data \cup {Junk}]
  /\ status \in [Procs -> {Bus!OK, Bus!ENODEV}]
  /\ out \in [Procs -> [ret : {0, 1, 2, Store!EIO, Store!EPERM}, buf : {<<>>} \cup [{0} -> Data \cup {Junk}]]]

\* a process that is not idle has asked for something
Asked == \A p \in Procs : IF pc[p] = "idle" THEN op[p] = Store!Nothing ELSE op[p] \in Ops

\* only the process that has the lock is on the bus, with its own messages
Locked ==
  /\ \A p \in Procs : pc[p] = "bus" => p = owner
  /\ IF owner = NoProc THEN ~active
     ELSE pc[owner] = "bus" /\ active /\ req = Messages(op[owner])

\* nothing has been received before the transfer, nor for a write
Unread == \A p \in Procs : pc[p] \in {"idle", "lock"} \/ op[p].kind = "write" => got[p] = Junk

\* how the EEPROM follows the transfer of a write, and of a read
WriteSoFar(o) ==
  /\ sm \in 0..1 /\ (sm = 0 => sn = 0)
  /\ sn > 0 => counter = o.addr
  /\ latch = IF sn = 2 THEN o.data ELSE Junk

ReadSoFar(o) ==
  /\ latch = Junk /\ sn \in 0..1 /\ (sm = 0 => sn = 0)
  /\ (sm = 1 /\ sn = 1) \/ (sm = 2 /\ sn = 0) => counter = o.addr
  /\ sm = 2 /\ sn = 1 => got[owner] = cells[o.addr]

OnTheWires ==
  IF active /\ ev.op # "P"
  THEN IF op[owner].kind = "write" THEN WriteSoFar(op[owner]) ELSE ReadSoFar(op[owner])
  ELSE latch = Junk

IInv == TypeOK /\ Asked /\ Locked /\ Unread /\ OnTheWires

-----------------------------------------------------------------------------
(* Requests, messages and addresses *)

LEMMA OpFacts ==
  ASSUME NEW o \in Ops
  PROVE  /\ o.addr \in Addrs /\ o # Store!Nothing
         /\ \/ o.kind = "read" /\ o = Store!Read(o.addr)
            \/ o.kind = "write" /\ o.data \in Data /\ o = Store!Write(o.addr, o.data)
BY DEF Ops, Store!Ops, Store!Read, Store!Write, Store!Nothing

\* A write has one message of two bytes; a read writes one byte and reads one.
LEMMA MessageFacts ==
  ASSUME NEW o
  PROVE  /\ o.kind = "write" => /\ Len(Messages(o)) = 1
                                /\ Messages(o)[1] = [rd |-> FALSE, len |-> 2]
         /\ o.kind # "write" => /\ Len(Messages(o)) = 2
                                /\ Messages(o)[1] = [rd |-> FALSE, len |-> 1]
                                /\ Messages(o)[2] = [rd |-> TRUE, len |-> 1]
         /\ Messages(o) \in Bus!Transfers
<1>1. CASE o.kind = "write"
  <2>1. Messages(o) = <<[rd |-> FALSE, len |-> 2]>>
    BY <1>1 DEF Messages
  <2>2. [rd |-> FALSE, len |-> 2] \in Bus!Msg
    BY DEF Bus!Msg
  <2>3. Messages(o) \in [1..1 -> Bus!Msg]
    <3>1. Messages(o) \in Seq(Bus!Msg) /\ Len(Messages(o)) = 1
      BY <2>1, <2>2
    <3>2. Messages(o) \in [1..Len(Messages(o)) -> Bus!Msg]
      BY <3>1, LenProperties, Zenon
    <3> QED
      BY <3>1, <3>2, Zenon
  <2> QED
    BY <1>1, <2>1, <2>3 DEF Bus!Transfers
<1>2. CASE o.kind # "write"
  <2>1. Messages(o) = <<[rd |-> FALSE, len |-> 1], [rd |-> TRUE, len |-> 1]>>
    BY <1>2 DEF Messages
  <2>2. [rd |-> FALSE, len |-> 1] \in Bus!Msg /\ [rd |-> TRUE, len |-> 1] \in Bus!Msg
    BY DEF Bus!Msg
  <2>3. Messages(o) \in [1..2 -> Bus!Msg]
    <3>1. Messages(o) \in Seq(Bus!Msg) /\ Len(Messages(o)) = 2
      BY <2>1, <2>2
    <3>2. Messages(o) \in [1..Len(Messages(o)) -> Bus!Msg]
      BY <3>1, LenProperties, Zenon
    <3> QED
      BY <3>1, <3>2, Zenon
  <2> QED
    BY <1>2, <2>1, <2>3 DEF Bus!Transfers
<1> QED
  BY <1>1, <1>2

LEMMA LeastOf ==
  ASSUME NEW S, S \subseteq Nat, S # {} PROVE \E m \in S : \A n \in S : m <= n
<1> DEFINE R == OpToRel(<, Nat)
<1>1. IsWellFoundedOn(R, Nat)
  BY NatLessThanWellFounded, Zenon
<1>2. \A x, y \in Nat : x < y => <<x, y>> \in R
  BY DEF OpToRel
<1> HIDE DEF R
<1>3. PICK m \in S : \A y \in S : ~(<<y, m>> \in R)
  BY <1>1, WFMin, Zenon
<1>4. \A n \in S : ~(n < m)
  BY <1>2, <1>3, Zenon
<1> QED
  BY <1>4

\* The address counter wraps.
LEMMA NextCellTyped == ASSUME NEW a \in Addrs PROVE NextCell(a) \in Addrs
<1>1. \E b \in Addrs : \A c \in Addrs : b <= c
  BY LeastOf, AddrsAssumption, Zenon
<1>2. (CHOOSE b \in Addrs : \A c \in Addrs : b <= c) \in Addrs
  BY <1>1
<1> QED
  BY <1>2 DEF NextCell

\* Which function the answer is from.
LEMMA ResultIs ==
  ASSUME NEW p
  PROVE  /\ driver = "21th" /\ op[p].kind = "read"  => Result(p) = ReadResult(p)
         /\ driver = "21th" /\ op[p].kind = "write" => Result(p) = WriteResult(p)
         /\ driver = "19th" /\ op[p].kind = "read"  => Result(p) = at24cxx_read(p)
         /\ driver = "19th" /\ op[p].kind = "write" => Result(p) = at24cxx_write(p)
<1>1. "read" # "write" /\ "write" # "read" /\ "19th" # "21th" /\ "21th" # "19th"
  OBVIOUS
<1> QED
  BY <1>1, Zenon DEF Result

\* What user space can be given.
LEMMA ResultTyped ==
  ASSUME NEW p \in Procs, TypeOK, op[p] \in Ops
  PROVE  Result(p) \in [ret : {0, 1, 2, Store!EIO, Store!EPERM}, buf : {<<>>} \cup [{0} -> Data \cup {Junk}]]
<1>1. /\ driver \in {"19th", "21th"} /\ got[p] \in Data \cup {Junk}
      /\ op[p].kind \in {"read", "write"}
  BY OpFacts DEF TypeOK
<1>2. Result(p) \in {ReadResult(p), WriteResult(p), at24cxx_read(p), at24cxx_write(p)}
  BY <1>1, ResultIs
<1>3. [i \in {0} |-> IF status[p] = Bus!OK THEN got[p] ELSE Junk] \in [{0} -> Data \cup {Junk}]
  BY <1>1
<1>4. [i \in {0} |-> got[p]] \in [{0} -> Data \cup {Junk}]
  BY <1>1
<1> QED
  BY <1>2, <1>3, <1>4 DEF ReadResult, WriteResult, at24cxx_read, at24cxx_write

-----------------------------------------------------------------------------
(* The wires *)

\* Where a transfer stands between its call and its STOP.
LEMMA WireFacts ==
  ASSUME IInv, active, ev.op # "P"
  PROVE  /\ owner \in Procs /\ owner # NoProc /\ op[owner] \in Ops /\ pc[owner] = "bus"
         /\ sm \in 0..2 /\ sn \in 0..2
         /\ \/ /\ op[owner].kind = "write" /\ WriteSoFar(op[owner])
               /\ Len(req) = 1 /\ req[1].rd = FALSE /\ req[1].len = 2
            \/ /\ op[owner].kind = "read" /\ ReadSoFar(op[owner])
               /\ Len(req) = 2 /\ req[1].rd = FALSE /\ req[1].len = 1
               /\ req[2].rd = TRUE /\ req[2].len = 1
<1>1. owner \in Procs /\ owner # NoProc /\ pc[owner] = "bus" /\ req = Messages(op[owner])
  BY DEF IInv, Locked, TypeOK
<1>2. op[owner] \in Ops
  BY <1>1 DEF IInv, Asked
<1>3. sm \in 0..2 /\ sn \in 0..2
  BY DEF IInv, TypeOK, Bus!TypeOK
<1>4. CASE op[owner].kind = "write"
  <2>1. WriteSoFar(op[owner])
    BY <1>4 DEF IInv, OnTheWires
  <2>2. Len(req) = 1 /\ req[1] = [rd |-> FALSE, len |-> 2]
    BY <1>1, <1>4, MessageFacts
  <2> QED
    BY <1>1, <1>2, <1>3, <1>4, <2>1, <2>2
<1>5. CASE op[owner].kind = "read"
  <2>1. ReadSoFar(op[owner])
    BY <1>5 DEF IInv, OnTheWires
  <2>2. Len(req) = 2 /\ req[1] = [rd |-> FALSE, len |-> 1] /\ req[2] = [rd |-> TRUE, len |-> 1]
    BY <1>1, <1>5, MessageFacts
  <2> QED
    BY <1>1, <1>2, <1>3, <1>5, <2>1, <2>2
<1> QED
  BY <1>2, <1>4, <1>5, OpFacts

LEMMA StartKeeps == ASSUME IInv, Start, UNCHANGED driver PROVE IInv'
<1>1. PICK ack \in BOOLEAN : Bus!Start(ack)
  BY DEF Start
<1>2. /\ active /\ ev.op # "P" /\ (sm > 0 => sn = req[sm].len) /\ sm < Len(req)
      /\ ev' = [op |-> "S", byte |-> <<sm + 1, -1>>, ack |-> ack]
      /\ IF ack THEN sm' = sm + 1 /\ sn' = 0 ELSE UNCHANGED <<sm, sn>>
      /\ UNCHANGED <<req, active, reply>>
  BY <1>1 DEF Bus!Start, Bus!Open, Bus!MessageDone, Bus!Address
<1>3. latch' = Junk /\ UNCHANGED <<cells, counter, busy, owner, pc, op, got, status, out>>
  BY DEF Start, procs
<1>4. /\ sm + 1 \in 0..2 /\ sm' \in 0..2 /\ sn' \in 0..2
      /\ \/ op[owner].kind = "write" /\ WriteSoFar(op[owner])'
         \/ op[owner].kind = "read" /\ ReadSoFar(op[owner])'
  <2>1. CASE op[owner].kind = "write"
    <3>1. WriteSoFar(op[owner]) /\ Len(req) = 1 /\ sn \in 0..2
      BY <1>2, <2>1, WireFacts
    <3>2. sm = 0 /\ sn = 0
      BY <1>2, <3>1 DEF WriteSoFar
    <3> QED
      BY <1>2, <1>3, <2>1, <3>1, <3>2 DEF WriteSoFar
  <2>2. CASE op[owner].kind = "read"
    <3>1. ReadSoFar(op[owner]) /\ Len(req) = 2 /\ req[1].len = 1 /\ sm \in 0..2
      BY <1>2, <2>2, WireFacts
    <3>2. (sm = 0 /\ sn = 0) \/ (sm = 1 /\ sn = 1)
      <4>1. sm = 0 \/ sm = 1
        BY <1>2, <3>1
      <4> QED
        BY <1>2, <3>1, <4>1 DEF ReadSoFar
    <3> QED
      BY <1>2, <1>3, <2>2, <3>1, <3>2 DEF ReadSoFar
  <2> QED
    BY <1>2, <2>1, <2>2, WireFacts
<1>5. ev' \in Bus!Event /\ ev'.op = "S"
  <2>1. <<sm + 1, -1>> \in Bus!Byte
    BY <1>4 DEF Bus!Byte
  <2> QED
    BY <1>2, <2>1 DEF Bus!Event
<1>6. TypeOK'
  <2>1. Bus!TypeOK'
    BY <1>2, <1>4, <1>5 DEF IInv, TypeOK, Bus!TypeOK
  <2> QED
    BY <1>3, <2>1 DEF IInv, TypeOK
<1>7. OnTheWires'
  BY <1>2, <1>3, <1>4, <1>5 DEF OnTheWires
<1> QED
  BY <1>2, <1>3, <1>6, <1>7 DEF IInv, Asked, Locked, Unread

LEMMA WriteKeeps == ASSUME IInv, Write, UNCHANGED driver PROVE IInv'
<1>1. PICK ack \in BOOLEAN : /\ Bus!Write(ack)
                             /\ counter' = IF ack /\ sn = 0 THEN Sent.addr ELSE counter
                             /\ latch' = IF ack /\ sn = 1 THEN Sent.data ELSE latch
  BY DEF Write
<1>2. /\ active /\ ev.op # "P" /\ sm > 0 /\ sn # req[sm].len /\ ~req[sm].rd
      /\ ev' = [op |-> "W", byte |-> <<sm, sn>>, ack |-> ack]
      /\ sn' = IF ack THEN sn + 1 ELSE sn
      /\ UNCHANGED <<req, active, sm, reply>>
  BY <1>1 DEF Bus!Write, Bus!Open, Bus!MessageDone
<1>3. UNCHANGED <<cells, busy, owner, pc, op, got, status, out>>
  BY DEF Write, procs
<1>4. op[owner].addr \in Addrs /\ (op[owner].kind = "write" => op[owner].data \in Data)
  BY <1>2, WireFacts, OpFacts
<1>5. /\ sn' \in 0..2 /\ counter' \in Addrs /\ latch' \in Data \cup {Junk}
      /\ \/ op[owner].kind = "write" /\ WriteSoFar(op[owner])'
         \/ op[owner].kind = "read" /\ ReadSoFar(op[owner])'
  <2>0. counter \in Addrs /\ latch \in Data \cup {Junk}
    BY DEF IInv, TypeOK
  <2>1. CASE op[owner].kind = "write"
    <3>1. sm = 1 /\ sn \in 0..1 /\ WriteSoFar(op[owner])
      BY <1>2, <2>1, WireFacts DEF WriteSoFar
    <3>2. CASE ack /\ sn = 0
      BY <1>1, <1>2, <1>3, <1>4, <2>0, <2>1, <3>1, <3>2 DEF WriteSoFar, Sent
    <3>3. CASE ack /\ sn = 1
      BY <1>1, <1>2, <1>3, <1>4, <2>0, <2>1, <3>1, <3>3 DEF WriteSoFar, Sent
    <3>4. CASE ~ack
      BY <1>1, <1>2, <1>3, <1>4, <2>0, <2>1, <3>1, <3>4 DEF WriteSoFar
    <3> QED
      BY <3>1, <3>2, <3>3, <3>4
  <2>2. CASE op[owner].kind = "read"
    <3>1. sm = 1 /\ sn = 0 /\ ReadSoFar(op[owner])
      <4>1. /\ ReadSoFar(op[owner]) /\ sm \in 0..2
            /\ req[1].len = 1 /\ req[2].rd = TRUE
        BY <1>2, <2>2, WireFacts
      <4>2. sm = 1
        BY <1>2, <4>1
      <4> QED
        BY <1>2, <4>1, <4>2 DEF ReadSoFar
    <3> QED
      BY <1>1, <1>2, <1>3, <1>4, <2>0, <2>2, <3>1 DEF ReadSoFar, Sent
  <2> QED
    BY <1>2, <2>1, <2>2, WireFacts
<1>6. ev' \in Bus!Event /\ ev'.op = "W"
  <2>1. <<sm, sn>> \in Bus!Byte
    BY <1>2, WireFacts DEF Bus!Byte
  <2> QED
    BY <1>2, <2>1 DEF Bus!Event
<1>7. TypeOK'
  <2>1. Bus!TypeOK'
    BY <1>2, <1>5, <1>6 DEF IInv, TypeOK, Bus!TypeOK
  <2> QED
    BY <1>3, <1>5, <2>1 DEF IInv, TypeOK
<1>8. OnTheWires'
  BY <1>2, <1>3, <1>5, <1>6 DEF OnTheWires
<1> QED
  BY <1>2, <1>3, <1>7, <1>8 DEF IInv, Asked, Locked, Unread

LEMMA ReadKeeps == ASSUME IInv, Read, UNCHANGED driver PROVE IInv'
<1>1. /\ active /\ ev.op # "P" /\ sm > 0 /\ sn # req[sm].len /\ req[sm].rd
      /\ ev' = [op |-> "R", byte |-> <<sm, sn>>, ack |-> sn + 1 < req[sm].len]
      /\ sn' = sn + 1
      /\ UNCHANGED <<req, active, sm, reply>>
  BY DEF Read, Bus!Read, Bus!Open, Bus!MessageDone
<1>2. /\ got' = [got EXCEPT ![owner] = cells[counter]] /\ counter' = NextCell(counter)
      /\ UNCHANGED <<cells, latch, busy, owner, pc, op, status, out>>
  BY DEF Read
<1>3. op[owner].kind = "read" /\ ReadSoFar(op[owner]) /\ sm = 2 /\ sn = 0
  <2>1. op[owner].kind = "read"
    <3>1. ASSUME op[owner].kind = "write" PROVE FALSE
      <4>1. WriteSoFar(op[owner]) /\ req[1].rd = FALSE
        BY <1>1, <3>1, WireFacts
      <4>2. sm = 1
        BY <1>1, <4>1 DEF WriteSoFar
      <4> QED
        BY <1>1, <4>1, <4>2
    <3> QED
      BY <1>1, <3>1, WireFacts
  <2>2. /\ ReadSoFar(op[owner]) /\ sm \in 0..2
        /\ req[1].rd = FALSE /\ req[2].len = 1
    BY <1>1, <2>1, WireFacts
  <2>3. sm = 2
    BY <1>1, <2>2
  <2> QED
    BY <1>1, <2>1, <2>2, <2>3 DEF ReadSoFar
<1>4. owner \in Procs /\ op[owner].addr \in Addrs /\ pc[owner] = "bus"
  BY <1>1, WireFacts, OpFacts
<1>5. counter' \in Addrs /\ got' \in [Procs -> Data \cup {Junk}]
  BY <1>2, <1>4, NextCellTyped DEF IInv, TypeOK
<1>6. ReadSoFar(op[owner])'
  <2>1. got'[owner] = cells[op[owner].addr]
    BY <1>2, <1>3, <1>4 DEF IInv, TypeOK, ReadSoFar
  <2> QED
    BY <1>1, <1>2, <1>3, <2>1 DEF ReadSoFar
<1>7. ev' \in Bus!Event /\ ev'.op = "R"
  <2>1. <<sm, sn>> \in Bus!Byte
    BY <1>3 DEF Bus!Byte
  <2>2. (sn + 1 < req[sm].len) \in BOOLEAN
    OBVIOUS
  <2> QED
    BY <1>1, <2>1, <2>2 DEF Bus!Event
<1>8. TypeOK'
  <2>1. Bus!TypeOK'
    BY <1>1, <1>3, <1>7 DEF IInv, TypeOK, Bus!TypeOK
  <2> QED
    BY <1>2, <1>5, <2>1 DEF IInv, TypeOK
<1>9. OnTheWires'
  BY <1>1, <1>2, <1>3, <1>6, <1>7 DEF OnTheWires
<1>10. Unread'
  BY <1>2, <1>3, <1>4 DEF IInv, TypeOK, Unread
<1> QED
  BY <1>1, <1>2, <1>8, <1>9, <1>10 DEF IInv, Asked, Locked

\* STOP stores the byte of a write of which everything was sent, in its cell, and
\* nothing else; then what a read received is what its cell holds.
LEMMA StopStores ==
  ASSUME IInv, Stop
  PROVE  /\ active /\ ev.op # "P" /\ owner \in Procs /\ op[owner] \in Ops
         /\ op[owner].kind = "write" /\ Bus!AllDone =>
              cells' = [cells EXCEPT ![op[owner].addr] = op[owner].data]
         /\ ~(op[owner].kind = "write" /\ Bus!AllDone) => cells' = cells
         /\ op[owner].kind = "read" /\ Bus!AllDone => got[owner] = cells[op[owner].addr]
<1>1. active /\ ev.op # "P"
  BY DEF Stop, Bus!Stop
<1>2. /\ latch # Junk => cells' = [cells EXCEPT ![counter] = latch]
      /\ latch = Junk => cells' = cells
  BY DEF Stop
<1>3. CASE op[owner].kind = "write"
  <2>1. WriteSoFar(op[owner]) /\ Len(req) = 1 /\ req[1].len = 2 /\ sn \in 0..2
    BY <1>1, <1>3, WireFacts
  <2>2. op[owner].data \in Data /\ op[owner].data # Junk
    BY <1>1, <1>3, WireFacts, OpFacts, JunkAssumption
  <2>3. Bus!AllDone <=> sn = 2
    BY <2>1 DEF Bus!AllDone, Bus!MessageDone, WriteSoFar
  <2>4. CASE sn = 2
    <3>1. latch = op[owner].data /\ counter = op[owner].addr
      BY <2>1, <2>4 DEF WriteSoFar
    <3> QED
      BY <1>1, <1>2, <1>3, <2>2, <2>3, <2>4, <3>1, WireFacts
  <2>5. CASE sn # 2
    <3>1. latch = Junk
      BY <2>1, <2>5 DEF WriteSoFar
    <3> QED
      BY <1>1, <1>2, <1>3, <2>3, <2>5, <3>1, WireFacts
  <2> QED
    BY <2>4, <2>5
<1>4. CASE op[owner].kind = "read"
  <2>1. ReadSoFar(op[owner]) /\ Len(req) = 2 /\ req[2].len = 1
    BY <1>1, <1>4, WireFacts
  <2>2. Bus!AllDone => got[owner] = cells[op[owner].addr]
    BY <2>1 DEF Bus!AllDone, Bus!MessageDone, ReadSoFar
  <2>3. cells' = cells
    BY <1>2, <2>1 DEF ReadSoFar
  <2> QED
    BY <1>1, <1>4, <2>2, <2>3, WireFacts
<1> QED
  BY <1>1, <1>3, <1>4, WireFacts

LEMMA StopKeeps == ASSUME IInv, Stop, UNCHANGED driver PROVE IInv'
<1>1. ev' = [op |-> "P", byte |-> <<0, 0>>, ack |-> TRUE] /\ UNCHANGED <<req, active, sm, sn, reply>>
  BY DEF Stop, Bus!Stop, Bus!StopSent, Bus!NoByte
<1>2. latch' = Junk /\ busy' \in BOOLEAN /\ UNCHANGED <<counter, owner, pc, op, got, status, out>>
  BY DEF Stop, procs, IInv, TypeOK
<1>3. cells' \in [Addrs -> Data]
  BY StopStores, OpFacts DEF IInv, TypeOK
<1>4. Bus!TypeOK'
  <2>1. <<0, 0>> \in Bus!Byte
    BY DEF Bus!Byte
  <2>2. ev' \in Bus!Event
    BY <1>1, <2>1 DEF Bus!Event
  <2> QED
    BY <1>1, <2>2 DEF IInv, TypeOK, Bus!TypeOK
<1>5. TypeOK'
  BY <1>2, <1>3, <1>4 DEF IInv, TypeOK
<1>6. OnTheWires'
  BY <1>1, <1>2 DEF OnTheWires
<1> QED
  BY <1>1, <1>2, <1>5, <1>6 DEF IInv, Asked, Locked, Unread

-----------------------------------------------------------------------------
(* The calls *)

LEMMA EnterKeeps ==
  ASSUME IInv, NEW p \in Procs, NEW o \in Ops, Enter(p, o), UNCHANGED driver PROVE IInv'
<1>1. /\ pc[p] = "idle" /\ pc' = [pc EXCEPT ![p] = "lock"] /\ op' = [op EXCEPT ![p] = o]
      /\ out' = [out EXCEPT ![p] = Store!NoAnswer]
      /\ UNCHANGED <<cells, counter, latch, busy, owner, got, status>>
      /\ UNCHANGED <<req, active, sm, sn, ev, reply>>
  BY DEF Enter, adapter, eeprom
<1>2. Bus!TypeOK'
  BY <1>1 DEF IInv, TypeOK, Bus!TypeOK
<1>3. Store!NoAnswer \in [ret : {0, 1, 2, Store!EIO, Store!EPERM}, buf : {<<>>} \cup [{0} -> Data \cup {Junk}]]
  BY DEF Store!NoAnswer
<1>4. out' \in [Procs -> [ret : {0, 1, 2, Store!EIO, Store!EPERM}, buf : {<<>>} \cup [{0} -> Data \cup {Junk}]]]
  BY <1>1, <1>3 DEF IInv, TypeOK
<1>5. TypeOK'
  BY <1>1, <1>2, <1>4 DEF IInv, TypeOK
<1>6. Asked' /\ Unread'
  BY <1>1 DEF IInv, TypeOK, Asked, Unread
<1>7. active => owner \in Procs /\ owner # p
  BY <1>1 DEF IInv, TypeOK, Locked
<1>8. Locked'
  BY <1>1, <1>7 DEF IInv, TypeOK, Locked
<1>9. OnTheWires'
  <2>1. active => op'[owner] = op[owner]
    BY <1>1, <1>7 DEF IInv, TypeOK
  <2> QED
    BY <1>1, <2>1 DEF IInv, OnTheWires, WriteSoFar, ReadSoFar
<1> QED
  BY <1>5, <1>6, <1>8, <1>9 DEF IInv

LEMMA WrongSizeKeeps ==
  ASSUME IInv, NEW p \in Procs, WrongSize(p), UNCHANGED driver PROVE IInv'
<1>1. /\ out' = [out EXCEPT ![p] = [ret |-> Store!EPERM, buf |-> <<>>]]
      /\ UNCHANGED <<cells, counter, latch, busy, owner, pc, op, got, status>>
      /\ UNCHANGED <<req, active, sm, sn, ev, reply>>
  BY DEF WrongSize, adapter, eeprom
<1>2. Bus!TypeOK'
  BY <1>1 DEF IInv, TypeOK, Bus!TypeOK
<1>3. out' \in [Procs -> [ret : {0, 1, 2, Store!EIO, Store!EPERM}, buf : {<<>>} \cup [{0} -> Data \cup {Junk}]]]
  BY <1>1 DEF IInv, TypeOK
<1>4. TypeOK'
  BY <1>1, <1>2, <1>3 DEF IInv, TypeOK
<1> QED
  BY <1>1, <1>4 DEF IInv, Asked, Locked, Unread, OnTheWires, WriteSoFar, ReadSoFar

LEMMA TransferKeeps ==
  ASSUME IInv, NEW p \in Procs, Transfer(p), UNCHANGED driver PROVE IInv'
<1>1. /\ pc[p] = "lock" /\ owner = NoProc /\ owner' = p /\ pc' = [pc EXCEPT ![p] = "bus"]
      /\ ~active /\ active' = TRUE /\ req' = Messages(op[p]) /\ sm' = 0 /\ sn' = 0
      /\ ev' = [op |-> "-", byte |-> <<0, 0>>, ack |-> TRUE]
      /\ UNCHANGED <<cells, counter, latch, busy, op, got, status, out, reply>>
  BY DEF Transfer, Bus!Call, Bus!Quiet, Bus!NoByte, eeprom
<1>2. Bus!TypeOK'
  <2>1. <<0, 0>> \in Bus!Byte
    BY DEF Bus!Byte
  <2>2. ev' \in Bus!Event
    BY <1>1, <2>1 DEF Bus!Event
  <2>3. req' \in Bus!Transfers
    BY <1>1, MessageFacts
  <2> QED
    BY <1>1, <2>2, <2>3 DEF IInv, TypeOK, Bus!TypeOK
<1>3. TypeOK'
  BY <1>1, <1>2 DEF IInv, TypeOK
<1>4. Asked' /\ Unread'
  BY <1>1 DEF IInv, TypeOK, Asked, Unread
<1>5. p # NoProc
  BY JunkAssumption
<1>6. Locked'
  <2>1. \A q \in Procs : pc[q] # "bus"
    BY <1>1, JunkAssumption DEF IInv, Locked
  <2>2. pc'[p] = "bus" /\ \A q \in Procs : pc'[q] = "bus" => q = p
    BY <1>1, <2>1 DEF IInv, TypeOK
  <2> QED
    BY <1>1, <1>5, <2>2 DEF Locked
<1>7. OnTheWires'
  <2>1. latch = Junk
    BY <1>1 DEF IInv, OnTheWires
  <2> QED
    BY <1>1, <2>1 DEF OnTheWires, WriteSoFar, ReadSoFar
<1> QED
  BY <1>3, <1>4, <1>6, <1>7 DEF IInv

LEMMA TransferredKeeps ==
  ASSUME IInv, NEW p \in Procs, Transferred(p), UNCHANGED driver PROVE IInv'
<1>1. /\ pc[p] = "bus" /\ owner' = NoProc /\ pc' = [pc EXCEPT ![p] = "done"]
      /\ status' = [status EXCEPT ![p] = reply'] /\ reply' \in {Bus!OK, Bus!ENODEV}
      /\ active /\ active' = FALSE /\ ev.op = "P"
      /\ UNCHANGED <<cells, counter, latch, busy, op, got, out, req, sm, sn, ev>>
  BY DEF Transferred, Bus!Return, eeprom
<1>2. Bus!TypeOK'
  BY <1>1 DEF IInv, TypeOK, Bus!TypeOK
<1>3. TypeOK'
  BY <1>1, <1>2 DEF IInv, TypeOK
<1>4. Asked' /\ Unread'
  BY <1>1 DEF IInv, TypeOK, Asked, Unread
<1>5. Locked'
  <2>1. \A q \in Procs : pc[q] = "bus" => q = p
    BY <1>1 DEF IInv, Locked
  <2>2. \A q \in Procs : pc'[q] # "bus"
    BY <1>1, <2>1 DEF IInv, TypeOK
  <2> QED
    BY <1>1, <2>2 DEF Locked
<1>6. OnTheWires'
  BY <1>1 DEF IInv, OnTheWires
<1> QED
  BY <1>3, <1>4, <1>5, <1>6 DEF IInv

LEMMA LeaveKeeps ==
  ASSUME IInv, NEW p \in Procs, Leave(p), UNCHANGED driver PROVE IInv'
<1>1. /\ pc[p] = "done" /\ pc' = [pc EXCEPT ![p] = "idle"] /\ out' = [out EXCEPT ![p] = Result(p)]
      /\ op' = [op EXCEPT ![p] = Store!Nothing] /\ got' = [got EXCEPT ![p] = Junk]
      /\ status' = [status EXCEPT ![p] = Bus!ENODEV]
      /\ UNCHANGED <<cells, counter, latch, busy, owner, req, active, sm, sn, ev, reply>>
  BY DEF Leave, adapter, eeprom
<1>2. Bus!TypeOK'
  BY <1>1 DEF IInv, TypeOK, Bus!TypeOK
<1>3. op[p] \in Ops
  BY <1>1 DEF IInv, Asked
<1>4. out' \in [Procs -> [ret : {0, 1, 2, Store!EIO, Store!EPERM}, buf : {<<>>} \cup [{0} -> Data \cup {Junk}]]]
  BY <1>1, <1>3, ResultTyped DEF IInv, TypeOK
<1>5. TypeOK'
  BY <1>1, <1>2, <1>4 DEF IInv, TypeOK
<1>6. Asked' /\ Unread'
  BY <1>1 DEF IInv, TypeOK, Asked, Unread
<1>7. active => owner \in Procs /\ owner # p
  BY <1>1 DEF IInv, TypeOK, Locked
<1>8. Locked'
  BY <1>1, <1>7 DEF IInv, TypeOK, Locked
<1>9. OnTheWires'
  <2>1. active => op'[owner] = op[owner] /\ got'[owner] = got[owner]
    BY <1>1, <1>7 DEF IInv, TypeOK
  <2> QED
    BY <1>1, <2>1 DEF IInv, OnTheWires, WriteSoFar, ReadSoFar
<1> QED
  BY <1>5, <1>6, <1>8, <1>9 DEF IInv

-----------------------------------------------------------------------------
(* The inductive invariant *)

LEMMA Initially == Init => IInv
<1> SUFFICES ASSUME Init PROVE IInv
  OBVIOUS
<1>1. Bus!TypeOK /\ ~active
  <2>1. <<0, 0>> \in Bus!Byte
    BY DEF Bus!Byte
  <2>2. Bus!Quiet \in Bus!Event
    BY <2>1 DEF Bus!Quiet, Bus!NoByte, Bus!Event
  <2>3. req = <<>> /\ active = FALSE /\ sm = 0 /\ sn = 0 /\ ev = Bus!Quiet /\ reply = Bus!OK
    BY DEF Init, Bus!Init
  <2>4. active \in BOOLEAN /\ sm \in 0..2 /\ sn \in 0..2
    <3>1. 0 \in 0..2
      OBVIOUS
    <3> QED
      BY <2>3, <3>1, Zenon
  <2>7. req \in Bus!Transfers \cup {<<>>}
    BY <2>3, Zenon
  <2>5. ev \in Bus!Event
    BY <2>2, <2>3
  <2>6. reply \in {Bus!OK, Bus!ENODEV, Bus!ETIMEDOUT}
    BY <2>3
  <2> QED
    BY <2>3, <2>4, <2>5, <2>6, <2>7 DEF Bus!TypeOK
<1>2. Store!NoAnswer \in [ret : {0, 1, 2, Store!EIO, Store!EPERM}, buf : {<<>>} \cup [{0} -> Data \cup {Junk}]]
  BY DEF Store!NoAnswer
<1>3. TypeOK
  BY <1>1, <1>2 DEF Init, TypeOK
<1> QED
  BY <1>1, <1>3 DEF Init, IInv, Asked, Locked, Unread, OnTheWires

LEMMA Stutters == IInv /\ UNCHANGED vars => IInv'
<1> SUFFICES ASSUME IInv, UNCHANGED vars PROVE IInv'
  OBVIOUS
<1>1. /\ UNCHANGED <<driver, req, active, sm, sn, ev, reply, cells, counter, latch, busy>>
      /\ UNCHANGED <<owner, pc, op, got, status, out>>
  BY DEF vars, adapter, eeprom, procs
<1>2. Bus!TypeOK'
  BY <1>1 DEF IInv, TypeOK, Bus!TypeOK
<1>3. TypeOK'
  BY <1>1, <1>2 DEF IInv, TypeOK
<1> QED
  BY <1>1, <1>3 DEF IInv, Asked, Locked, Unread, OnTheWires, WriteSoFar, ReadSoFar

LEMMA ProgrammedKeeps == ASSUME IInv, Programmed, UNCHANGED driver PROVE IInv'
<1>1. /\ UNCHANGED <<req, active, sm, sn, ev, reply, cells, counter, latch>> /\ busy' = FALSE
      /\ UNCHANGED <<owner, pc, op, got, status, out>>
  BY DEF Programmed, adapter, procs
<1>2. Bus!TypeOK'
  BY <1>1 DEF IInv, TypeOK, Bus!TypeOK
<1>3. TypeOK'
  BY <1>1, <1>2 DEF IInv, TypeOK
<1> QED
  BY <1>1, <1>3 DEF IInv, Asked, Locked, Unread, OnTheWires, WriteSoFar, ReadSoFar

LEMMA StepKeeps == IInv /\ [Next]_vars => IInv'
<1> SUFFICES ASSUME IInv, [Next]_vars PROVE IInv'
  OBVIOUS
<1>1. CASE UNCHANGED vars
  BY <1>1, Stutters
<1>2. CASE Next
  <2>1. UNCHANGED driver
    BY <1>2 DEF Next
  <2>2. ASSUME NEW p \in Procs, NEW o \in Ops, Enter(p, o) PROVE IInv'
    BY <2>1, <2>2, EnterKeeps
  <2>3. ASSUME NEW p \in Procs, WrongSize(p) \/ Transfer(p) \/ Transferred(p) \/ Leave(p) PROVE IInv'
    BY <2>1, <2>3, WrongSizeKeeps, TransferKeeps, TransferredKeeps, LeaveKeeps
  <2>4. CASE Start \/ Write \/ Read \/ Stop \/ Programmed
    BY <2>1, <2>4, StartKeeps, WriteKeeps, ReadKeeps, StopKeeps, ProgrammedKeeps
  <2> QED
    BY <1>2, <2>2, <2>3, <2>4 DEF Next, Wires
<1> QED
  BY <1>1, <1>2

\* The EEPROM's counter and latch follow the messages of the process that has the
\* lock, and what has been received is what its cell holds.
THEOREM Invariance == Spec => []IInv
BY Initially, StepKeeps, PTL DEF Spec

\* Counter and cells stay inside the EEPROM, and user space gets one of the values
\* that the drivers return.
THEOREM TypeCorrect == Spec => []TypeOK
<1>1. IInv => TypeOK
  BY DEF IInv
<1> QED
  BY <1>1, Invariance, PTL

\* at24cxx_drv.c: a cell changes only to a byte that some process is writing to
\* that cell while it has the bus.
THEOREM CellsAreWritten == Spec => CellsChangeByWriter
<1> DEFINE Written(a) == owner # NoProc /\ op[owner] = Store!Write(a, cells'[a])
           Change == \A a \in Addrs : cells'[a] # cells[a] => Written(a)
<1>1. IInv /\ [Next]_vars => Change
  <2> SUFFICES ASSUME IInv, [Next]_vars PROVE Change
    OBVIOUS
  <2>1. CASE Stop
    <3>1. CASE op[owner].kind = "write" /\ Bus!AllDone
      <4>1. /\ op[owner] = Store!Write(op[owner].addr, op[owner].data)
            /\ op[owner].addr \in Addrs /\ owner # NoProc
            /\ cells' = [cells EXCEPT ![op[owner].addr] = op[owner].data] /\ cells \in [Addrs -> Data]
        BY <2>1, <3>1, StopStores, OpFacts, JunkAssumption DEF IInv, TypeOK
      <4>2. \A a \in Addrs : cells'[a] # cells[a] => a = op[owner].addr /\ cells'[a] = op[owner].data
        BY <4>1
      <4> QED
        BY <4>1, <4>2
    <3>2. CASE ~(op[owner].kind = "write" /\ Bus!AllDone)
      BY <2>1, <3>2, StopStores
    <3> QED
      BY <3>1, <3>2
  <2>2. CASE ~Stop
    <3>1. cells' = cells
      BY <2>2 DEF Next, Wires, Enter, WrongSize, Transfer, Transferred, Leave, Start, Write, Read, Programmed, eeprom, vars
    <3> QED
      BY <3>1
  <2> QED
    BY <2>1, <2>2
<1> QED
  BY <1>1, Invariance, PTL DEF Spec, CellsChangeByWriter

-----------------------------------------------------------------------------
(***************************************************************************)
(* The refinement: a call is decided by the STOP of its transfer, and all  *)
(* other steps between call and return are stuttering steps.               *)
(***************************************************************************)

St(p)  == IF pc[p] = "idle" THEN "idle" ELSE IF Decided(p) THEN "decided" ELSE "called"
Val(p) == [ok |-> Happened(p), byte |-> IF Happened(p) THEN got[p] ELSE Junk]

st  == [p \in Procs |-> St(p)]
val == [p \in Procs |-> Val(p)]

\* nothing changes for a process but p
OnlyFor(p) == \A q \in Procs \ {p} : St(q)' = St(q) /\ Val(q)' = Val(q)

LEMMA ValIs ==
  ASSUME NEW p
  PROVE  /\ Happened(p) => Val(p) = [ok |-> TRUE, byte |-> got[p]]
         /\ ~Happened(p) => Val(p) = [ok |-> FALSE, byte |-> Junk]
<1>1. CASE Happened(p)
  <2>1. Happened(p) = TRUE
    BY <1>1 DEF Happened, Decided
  <2>2. (IF Happened(p) THEN got[p] ELSE Junk) = got[p]
    BY <1>1
  <2> QED
    BY <1>1, <2>1, <2>2, Zenon DEF Val
<1>2. CASE ~Happened(p)
  <2>1. Happened(p) = FALSE
    BY <1>2 DEF Happened, Decided
  <2>2. (IF Happened(p) THEN got[p] ELSE Junk) = Junk
    BY <1>2
  <2> QED
    BY <1>2, <2>1, <2>2, Zenon DEF Val
<1> QED
  BY <1>1, <1>2

\* the same, after a step
LEMMA ValIsNext ==
  ASSUME NEW p
  PROVE  /\ Happened(p)' => Val(p)' = [ok |-> TRUE, byte |-> got'[p]]
         /\ ~Happened(p)' => Val(p)' = [ok |-> FALSE, byte |-> Junk]
<1>1. CASE Happened(p)'
  <2>1. Happened(p)' = TRUE
    BY <1>1 DEF Happened, Decided
  <2>2. (IF Happened(p)' THEN got'[p] ELSE Junk) = got'[p]
    BY <1>1
  <2> QED
    BY <1>1, <2>1, <2>2, Zenon DEF Val
<1>2. CASE ~Happened(p)'
  <2>1. Happened(p)' = FALSE
    BY <1>2 DEF Happened, Decided
  <2>2. (IF Happened(p)' THEN got'[p] ELSE Junk) = Junk
    BY <1>2
  <2> QED
    BY <1>2, <2>1, <2>2, Zenon DEF Val
<1> QED
  BY <1>1, <1>2

\* A process of which nothing changes, nor of its transfer if it is on the bus, is
\* as it was.
LEMMA Bystander ==
  ASSUME NEW q, pc'[q] = pc[q], status'[q] = status[q], got'[q] = got[q],
         pc[q] # "bus" \/ UNCHANGED <<ev, req, sm, sn>>
  PROVE  St(q)' = St(q) /\ Val(q)' = Val(q)
<1>1. Decided(q)' <=> Decided(q)
  BY DEF Decided
<1>2. UNCHANGED <<req, sm, sn>> => (Bus!AllDone' <=> Bus!AllDone)
  BY DEF Bus!AllDone, Bus!MessageDone
<1>3. Happened(q)' <=> Happened(q)
  BY <1>1, <1>2 DEF Happened, Decided
<1>4. Val(q)' = Val(q)
  BY <1>3, ValIs, ValIsNext
<1> QED
  BY <1>1, <1>4 DEF St

LEMMA Maps ==
  ASSUME NEW p \in Procs, OnlyFor(p)
  PROVE  st' = [st EXCEPT ![p] = St(p)'] /\ val' = [val EXCEPT ![p] = Val(p)']
BY DEF OnlyFor, st, val

\* while a transfer goes on, only its process is concerned
LEMMA OnlyOwner ==
  ASSUME IInv, active, UNCHANGED <<pc, status>>, \A q \in Procs \ {owner} : got'[q] = got[q]
  PROVE  OnlyFor(owner)
<1>1. \A q \in Procs \ {owner} : pc[q] # "bus"
  BY DEF IInv, Locked
<1> QED
  BY <1>1, Bystander DEF OnlyFor

LEMMA EnterMaps ==
  ASSUME IInv, NEW p \in Procs, NEW o \in Ops, Enter(p, o) PROVE Store!Invoke(p, o)
<1>1. /\ pc[p] = "idle" /\ pc' = [pc EXCEPT ![p] = "lock"] /\ op' = [op EXCEPT ![p] = o]
      /\ out' = [out EXCEPT ![p] = Store!NoAnswer]
      /\ UNCHANGED <<cells, owner, got, status, ev, req, sm, sn>>
  BY DEF Enter, adapter, eeprom
<1>2. pc'[p] = "lock" /\ \A q \in Procs \ {p} : pc'[q] = pc[q]
  BY <1>1 DEF IInv, TypeOK
<1>3. OnlyFor(p)
  BY <1>1, <1>2, Bystander DEF OnlyFor
<1>4. St(p) = "idle" /\ St(p)' = "called" /\ Val(p)' = Store!Failed
  <2>1. ~Decided(p)' /\ ~Happened(p)'
    BY <1>2 DEF Decided, Happened
  <2> QED
    BY <1>1, <1>2, <2>1, ValIsNext DEF St, Store!Failed
<1>5. st[p] = "idle" /\ st' = [st EXCEPT ![p] = "called"] /\ val' = [val EXCEPT ![p] = Store!Failed]
  BY <1>3, <1>4, Maps DEF st
<1> QED
  BY <1>1, <1>5 DEF Store!Invoke, st, val, St, Val

LEMMA WrongSizeMaps ==
  ASSUME IInv, NEW p \in Procs, WrongSize(p) PROVE Store!Refuse(p)
<1>1. /\ driver = "19th" /\ pc[p] = "idle"
      /\ out' = [out EXCEPT ![p] = [ret |-> Store!EPERM, buf |-> <<>>]]
      /\ UNCHANGED <<cells, pc, op, got, status, ev, req, sm, sn>>
  BY DEF WrongSize, adapter, eeprom
<1>2. UNCHANGED <<st, val>>
  BY <1>1, Bystander DEF st, val
<1>3. st[p] = "idle"
  BY <1>1 DEF st, St
<1> QED
  BY <1>1, <1>2, <1>3 DEF Store!Refuse, st, val, St, Val

\* Each driver answers what the store answers.
LEMMA Answers ==
  ASSUME IInv, NEW p \in Procs, pc[p] = "done" PROVE Result(p) = Store!Answer(p)
<1>1. /\ driver \in {"19th", "21th"} /\ op[p].kind \in {"read", "write"}
      /\ status[p] \in {Bus!OK, Bus!ENODEV}
  BY OpFacts DEF IInv, TypeOK, Asked
<1>2. Happened(p) <=> status[p] = Bus!OK
  BY DEF Happened, Decided
<1>3. val[p] = Val(p)
  BY DEF val
<1>4. /\ status[p] = Bus!OK => val[p].ok /\ val[p].byte = got[p]
      /\ status[p] # Bus!OK => ~val[p].ok /\ val[p].byte = Junk
  BY <1>2, <1>3, ValIs
<1>5. "read" # "write" /\ "write" # "read" /\ "19th" # "21th" /\ "21th" # "19th"
  OBVIOUS
<1>6. /\ op[p].kind = "read" => Len(Messages(op[p])) = 2
      /\ op[p].kind = "write" => Len(Messages(op[p])) = 1
  BY MessageFacts
<1>7. CASE status[p] = Bus!OK
  <2>1. val[p].ok /\ val[p].byte = got[p] /\ iRet(p) = Len(Messages(op[p]))
    BY <1>4, <1>7 DEF iRet
  <2>2. CASE op[p].kind = "read"
    <3>1. Store!Answer(p) = [ret |-> 1, buf |-> [i \in {0} |-> got[p]]]
      BY <1>5, <2>1, <2>2, Zenon DEF Store!Answer, val, Val
    <3>2. ReadResult(p) = [ret |-> 1, buf |-> [i \in {0} |-> got[p]]]
      BY <1>7 DEF ReadResult
    <3>3. at24cxx_read(p) = [ret |-> 1, buf |-> [i \in {0} |-> got[p]]]
      BY <1>6, <2>1, <2>2 DEF at24cxx_read
    <3> QED
      BY <1>1, <2>2, <3>1, <3>2, <3>3, ResultIs
  <2>3. CASE op[p].kind = "write"
    <3>1. Store!Answer(p) = [ret |-> 2, buf |-> <<>>]
      BY <1>5, <2>1, <2>3, Zenon DEF Store!Answer, val, Val
    <3>2. WriteResult(p) = [ret |-> 2, buf |-> <<>>]
      BY <1>7 DEF WriteResult
    <3>3. at24cxx_write(p) = [ret |-> 2, buf |-> <<>>]
      BY <1>6, <2>1, <2>3 DEF at24cxx_write
    <3> QED
      BY <1>1, <2>3, <3>1, <3>2, <3>3, ResultIs
  <2> QED
    BY <1>1, <2>2, <2>3
<1>8. CASE status[p] # Bus!OK
  <2>1. ~val[p].ok /\ val[p].byte = Junk
    BY <1>4, <1>8
  <2>2. iRet(p) # 1 /\ iRet(p) # 2
    BY <1>1, <1>8 DEF iRet, Bus!OK, Bus!ENODEV
  <2>3. CASE driver = "21th" /\ op[p].kind = "read"
    <3>1. Store!Answer(p) = [ret |-> 1, buf |-> [i \in {0} |-> Junk]]
      BY <1>5, <2>1, <2>3, Zenon DEF Store!Answer, val, Val
    <3>2. ReadResult(p) = [ret |-> 1, buf |-> [i \in {0} |-> Junk]]
      BY <1>8 DEF ReadResult
    <3> QED
      BY <2>3, <3>1, <3>2, ResultIs
  <2>4. CASE driver = "21th" /\ op[p].kind = "write"
    <3>1. Store!Answer(p) = [ret |-> Store!EIO, buf |-> <<>>]
      BY <1>5, <2>1, <2>4, Zenon DEF Store!Answer, val, Val
    <3>2. WriteResult(p) = [ret |-> Store!EIO, buf |-> <<>>]
      BY <1>8 DEF WriteResult
    <3> QED
      BY <2>4, <3>1, <3>2, ResultIs
  <2>5. CASE driver = "19th"
    <3>1. Store!Answer(p) = [ret |-> Store!EPERM, buf |-> <<>>]
      BY <1>5, <2>1, <2>5, Zenon DEF Store!Answer, val, Val
    <3>2. /\ at24cxx_read(p) = [ret |-> Store!EPERM, buf |-> <<>>]
          /\ at24cxx_write(p) = [ret |-> Store!EPERM, buf |-> <<>>]
      BY <2>2 DEF at24cxx_read, at24cxx_write
    <3> QED
      BY <1>1, <2>5, <3>1, <3>2, ResultIs
  <2> QED
    BY <1>1, <2>3, <2>4, <2>5
<1> QED
  BY <1>7, <1>8

LEMMA LeaveMaps == ASSUME IInv, NEW p \in Procs, Leave(p) PROVE Store!Return(p)
<1>1. /\ pc[p] = "done" /\ pc' = [pc EXCEPT ![p] = "idle"] /\ out' = [out EXCEPT ![p] = Result(p)]
      /\ op' = [op EXCEPT ![p] = Store!Nothing] /\ got' = [got EXCEPT ![p] = Junk]
      /\ status' = [status EXCEPT ![p] = Bus!ENODEV]
      /\ UNCHANGED <<cells, owner, req, active, sm, sn, ev>>
  BY DEF Leave, adapter, eeprom
<1>2. /\ pc'[p] = "idle"
      /\ \A q \in Procs \ {p} : pc'[q] = pc[q] /\ got'[q] = got[q] /\ status'[q] = status[q]
  BY <1>1 DEF IInv, TypeOK
<1>3. OnlyFor(p)
  BY <1>1, <1>2, Bystander DEF OnlyFor
<1>4. St(p) = "decided" /\ St(p)' = "idle" /\ Val(p)' = Store!Failed
  <2>1. Decided(p) /\ ~Happened(p)'
    BY <1>1, <1>2 DEF Decided, Happened
  <2> QED
    BY <1>1, <1>2, <2>1, ValIsNext DEF St, Store!Failed
<1>5. st[p] = "decided" /\ st' = [st EXCEPT ![p] = "idle"] /\ val' = [val EXCEPT ![p] = Store!Failed]
  BY <1>3, <1>4, Maps DEF st
<1>6. out' = [out EXCEPT ![p] = Store!Answer(p)]
  BY <1>1, Answers
<1> QED
  BY <1>1, <1>5, <1>6 DEF Store!Return, st, val, St, Val

LEMMA TransferMaps ==
  ASSUME IInv, NEW p \in Procs, Transfer(p) PROVE UNCHANGED <<cells, st, op, val, out>>
<1>1. /\ pc[p] = "lock" /\ owner = NoProc /\ pc' = [pc EXCEPT ![p] = "bus"] /\ ev'.op = "-"
      /\ UNCHANGED <<cells, op, got, status, out>>
  BY DEF Transfer, Bus!Call, Bus!Quiet, eeprom
<1>2. pc'[p] = "bus" /\ \A q \in Procs \ {p} : pc'[q] = pc[q]
  BY <1>1 DEF IInv, TypeOK
<1>3. \A q \in Procs : pc[q] # "bus"
  BY <1>1, JunkAssumption DEF IInv, Locked
<1>4. OnlyFor(p)
  BY <1>1, <1>2, <1>3, Bystander DEF OnlyFor
<1>5. St(p)' = St(p) /\ Val(p)' = Val(p)
  <2>1. ~Decided(p) /\ ~Decided(p)' /\ ~Happened(p) /\ ~Happened(p)'
    BY <1>1, <1>2 DEF Decided, Happened
  <2> QED
    BY <1>1, <1>2, <2>1, ValIs, ValIsNext DEF St
<1> QED
  BY <1>1, <1>4, <1>5 DEF OnlyFor, st, val

LEMMA TransferredMaps ==
  ASSUME IInv, NEW p \in Procs, Transferred(p) PROVE UNCHANGED <<cells, st, op, val, out>>
<1>1. /\ pc[p] = "bus" /\ pc' = [pc EXCEPT ![p] = "done"] /\ ev.op = "P"
      /\ status' = [status EXCEPT ![p] = reply']
      /\ reply' = IF Bus!AllDone THEN Bus!OK ELSE Bus!ENODEV
      /\ UNCHANGED <<cells, op, got, out, req, sm, sn, ev>>
  BY DEF Transferred, Bus!Return, eeprom
<1>2. /\ pc'[p] = "done" /\ status'[p] = reply'
      /\ \A q \in Procs \ {p} : pc'[q] = pc[q] /\ status'[q] = status[q]
  BY <1>1 DEF IInv, TypeOK
<1>3. OnlyFor(p)
  BY <1>1, <1>2, Bystander DEF OnlyFor
<1>4. St(p)' = St(p) /\ Val(p)' = Val(p)
  <2>1. Decided(p) /\ Decided(p)'
    BY <1>1, <1>2 DEF Decided
  <2>2. Happened(p)' <=> Happened(p)
    BY <1>1, <1>2, <2>1 DEF Happened, Bus!OK, Bus!ENODEV
  <2>3. St(p)' = St(p)
    BY <1>1, <1>2, <2>1 DEF St
  <2>4. Val(p)' = Val(p)
    <3>1. got'[p] = got[p]
      BY <1>1
    <3> QED
      BY <2>2, <3>1, ValIs, ValIsNext, Zenon
  <2> QED
    BY <2>3, <2>4
<1> QED
  BY <1>1, <1>3, <1>4 DEF OnlyFor, st, val

\* Before the STOP nothing is decided.
LEMMA WireMaps ==
  ASSUME IInv, Start \/ Write \/ Read PROVE UNCHANGED <<cells, st, op, val, out>>
<1>1. /\ active /\ ev.op # "P" /\ ev'.op # "P"
      /\ UNCHANGED <<cells, owner, pc, op, status, out>>
      /\ got' = got \/ got' = [got EXCEPT ![owner] = cells[counter]]
  BY DEF Start, Write, Read, Bus!Start, Bus!Write, Bus!Read, Bus!Open, procs
<1>2. owner \in Procs /\ pc[owner] = "bus"
  BY <1>1, WireFacts
<1>3. \A q \in Procs \ {owner} : got'[q] = got[q]
  BY <1>1 DEF IInv, TypeOK
<1>4. OnlyFor(owner)
  BY <1>1, <1>3, OnlyOwner
<1>5. St(owner)' = St(owner) /\ Val(owner)' = Val(owner)
  <2>1. ~Decided(owner) /\ ~Decided(owner)' /\ ~Happened(owner) /\ ~Happened(owner)'
    BY <1>1, <1>2 DEF Decided, Happened
  <2> QED
    BY <1>1, <1>2, <2>1, ValIs, ValIsNext DEF St
<1> QED
  BY <1>1, <1>2, <1>4, <1>5 DEF OnlyFor, st, val

\* The STOP carries the call out, or makes it fail.
LEMMA StopMaps ==
  ASSUME IInv, Stop, NEW p \in Procs, p = owner PROVE Store!Apply(p) \/ Store!Fail(p)
<1>1. /\ active /\ ev.op # "P" /\ ev'.op = "P"
      /\ UNCHANGED <<owner, pc, op, got, status, out, req, sm, sn>>
  BY DEF Stop, Bus!Stop, Bus!StopSent, procs
<1>2. pc[p] = "bus" /\ op[p] \in Ops
  BY <1>1, WireFacts
<1>3. OnlyFor(p)
  <2>1. \A q \in Procs \ {p} : pc[q] # "bus"
    BY <1>1 DEF IInv, Locked
  <2> QED
    BY <1>1, <2>1, Bystander DEF OnlyFor
<1>4. /\ ~Decided(p) /\ Decided(p)' /\ ~Happened(p)
      /\ Happened(p)' <=> Bus!AllDone
  BY <1>1, <1>2 DEF Decided, Happened, Bus!AllDone, Bus!MessageDone
<1>5. St(p) = "called" /\ St(p)' = "decided" /\ Val(p) = [ok |-> FALSE, byte |-> Junk]
  BY <1>1, <1>2, <1>4, ValIs DEF St
<1>6. st[p] = "called" /\ st' = [st EXCEPT ![p] = "decided"]
  BY <1>3, <1>5, Maps DEF st
<1>7. val' = [val EXCEPT ![p] = Val(p)']
  BY <1>3, Maps
<1>8. CASE ~Bus!AllDone
  <2>1. Val(p)' = Val(p)
    BY <1>4, <1>5, <1>8, ValIsNext
  <2>2. val' = val
    BY <1>7, <2>1 DEF val
  <2>3. cells' = cells
    BY <1>8, StopStores
  <2> QED
    BY <1>1, <1>6, <2>2, <2>3 DEF Store!Fail, st, val, St, Val
<1>9. CASE Bus!AllDone /\ op[p].kind = "write"
  <2>1. Val(p)' = [ok |-> TRUE, byte |-> Junk]
    BY <1>1, <1>2, <1>4, <1>9, ValIsNext DEF IInv, Unread
  <2>2. cells' = [cells EXCEPT ![op[p].addr] = op[p].data]
    BY <1>9, StopStores
  <2>3. val' = [val EXCEPT ![p] = [ok |-> TRUE, byte |-> Junk]]
    BY <1>7, <2>1
  <2> QED
    BY <1>1, <1>6, <1>9, <2>2, <2>3 DEF Store!Apply, st, val, St, Val
<1>10. CASE Bus!AllDone /\ op[p].kind # "write"
  <2>1. cells' = cells /\ got[p] = cells[op[p].addr]
    BY <1>2, <1>10, StopStores, OpFacts
  <2>2. Val(p)' = [ok |-> TRUE, byte |-> cells[op[p].addr]]
    BY <1>1, <1>4, <1>10, <2>1, ValIsNext
  <2>3. val' = [val EXCEPT ![p] = [ok |-> TRUE, byte |-> cells[op[p].addr]]]
    BY <1>7, <2>2
  <2> QED
    BY <1>1, <1>6, <1>10, <2>1, <2>3 DEF Store!Apply, st, val, St, Val
<1> QED
  BY <1>8, <1>9, <1>10

LEMMA InitMaps == Init => Store!Init
<1> SUFFICES ASSUME Init PROVE Store!Init
  OBVIOUS
<1>1. \A p \in Procs : St(p) = "idle" /\ Val(p) = Store!Failed
  <2> SUFFICES ASSUME NEW p \in Procs PROVE St(p) = "idle" /\ Val(p) = Store!Failed
    OBVIOUS
  <2>1. pc[p] = "idle"
    BY DEF Init
  <2>2. ~Happened(p)
    BY <2>1 DEF Happened, Decided
  <2> QED
    BY <2>1, <2>2, ValIs DEF St, Store!Failed
<1>2. st = [p \in Procs |-> "idle"] /\ val = [p \in Procs |-> Store!Failed]
  BY <1>1 DEF st, val
<1> QED
  BY <1>2 DEF Init, Store!Init, st, val, St, Val

LEMMA StepMaps == IInv /\ [Next]_vars => [Store!Next]_Store!vars
<1> SUFFICES ASSUME IInv, [Next]_vars PROVE [Store!Next]_Store!vars
  OBVIOUS
<1>1. UNCHANGED <<driver, cells, st, op, val, out>> => UNCHANGED Store!vars
  BY DEF Store!vars, st, val, St, Val
<1>2. CASE UNCHANGED vars
  <2>1. UNCHANGED <<driver, cells, op, out, pc, status, got, ev, req, sm, sn>>
    BY <1>2 DEF vars, adapter, eeprom, procs
  <2>2. UNCHANGED <<st, val>>
    BY <2>1, Bystander DEF st, val
  <2> QED
    BY <1>1, <2>1, <2>2
<1>3. CASE Next
  <2>1. UNCHANGED driver
    BY <1>3 DEF Next
  <2>2. ASSUME NEW p \in Procs, NEW o \in Ops, Enter(p, o) PROVE Store!Next
    BY <2>1, <2>2, EnterMaps DEF Store!Next, Ops
  <2>3. ASSUME NEW p \in Procs, WrongSize(p) \/ Leave(p) PROVE Store!Next
    BY <2>1, <2>3, WrongSizeMaps, LeaveMaps DEF Store!Next
  <2>4. ASSUME NEW p \in Procs, Transfer(p) \/ Transferred(p) PROVE UNCHANGED Store!vars
    BY <1>1, <2>1, <2>4, TransferMaps, TransferredMaps
  <2>5. CASE Start \/ Write \/ Read
    BY <1>1, <2>1, <2>5, WireMaps
  <2>6. CASE Stop
    <3>1. PICK p \in Procs : p = owner
      BY <2>6, WireFacts DEF Stop, Bus!Stop
    <3>2. Store!Apply(p) \/ Store!Fail(p)
      BY <2>6, <3>1, StopMaps
    <3> QED
      BY <2>1, <3>2 DEF Store!Next
  <2>7. CASE Programmed
    <3>1. UNCHANGED <<cells, op, out, pc, status, got, ev, req, sm, sn>>
      BY <2>7 DEF Programmed, adapter, procs
    <3>2. UNCHANGED <<st, val>>
      BY <3>1, Bystander DEF st, val
    <3> QED
      BY <1>1, <2>1, <3>1, <3>2
  <2> QED
    BY <1>3, <2>2, <2>3, <2>4, <2>5, <2>6, <2>7 DEF Next, Wires
<1> QED
  BY <1>2, <1>3

\* The safety part of ImplementsByteStore: whatever processes call either driver,
\* and whatever the EEPROM refuses, each call takes effect at one moment between
\* its start and its return, as a read or a write of one byte, or fails and has no
\* effect (that every call returns stays with TLC).
THEOREM StoreIsSafe == Spec => Store!Init /\ [][Store!Next]_Store!vars
BY InitMaps, StepMaps, Invariance, PTL DEF Spec
=============================================================================
