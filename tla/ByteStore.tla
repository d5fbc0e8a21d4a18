------------------------------ MODULE ByteStore ------------------------------
(***************************************************************************)
(* What /dev/at24cxx promises its users: the EEPROM is an array of bytes   *)
(* and each read() and write() takes effect at one moment between its call *)
(* and its return, or fails and has no effect.  The driver under 19th      *)
(* tells both failures and refuses a buffer of the wrong size.  The one    *)
(* under 21th tells a failed write only: a failed read returns 1 and a     *)
(* byte that means nothing.                                                *)
(***************************************************************************)
EXTENDS Integers

CONSTANTS Procs, Addrs, Data,
          Junk     \* the byte that an error code leaves when it is cut to 8 bits

EIO == -5
EPERM == -1

Read(a)     == [kind |-> "read", addr |-> a, data |-> Junk]
Write(a, d) == [kind |-> "write", addr |-> a, data |-> d]
Nothing     == [kind |-> "none"]
Ops == {Read(a) : a \in Addrs} \cup {Write(a, d) : a \in Addrs, d \in Data}

VARIABLES driver,  \* whose device it is: 19th or 21th
          store,   \* the bytes
          st,      \* per process: "idle", "called", or "decided"
          op,      \* what it asked for
          val,     \* what was decided: did it happen, and the byte
          out      \* what its last call gave it: the return value and
                 \* the bytes stored in its buffer, by index

vars == <<driver, store, st, op, val, out>>

Failed   == [ok |-> FALSE, byte |-> Junk]
NoAnswer == [ret |-> 0, buf |-> <<>>]

Init ==
  /\ driver \in {"19th", "21th"}
  /\ store \in [Addrs -> Data]
  /\ st = [p \in Procs |-> "idle"]
  /\ op = [p \in Procs |-> Nothing]
  /\ val = [p \in Procs |-> Failed]
  /\ out = [p \in Procs |-> NoAnswer]

Refuse(p) ==
  /\ driver = "19th" /\ st[p] = "idle"
  /\ out' = [out EXCEPT ![p] = [ret |-> EPERM, buf |-> <<>>]]
  /\ UNCHANGED <<store, st, op, val>>

Invoke(p, o) ==
  /\ st[p] = "idle"
  /\ st' = [st EXCEPT ![p] = "called"]
  /\ op' = [op EXCEPT ![p] = o]
  /\ val' = [val EXCEPT ![p] = Failed]
  /\ out' = [out EXCEPT ![p] = NoAnswer]
  /\ UNCHANGED store

Apply(p) ==
  /\ st[p] = "called"
  /\ st' = [st EXCEPT ![p] = "decided"]
  /\ IF op[p].kind = "write"
     THEN /\ store' = [store EXCEPT ![op[p].addr] = op[p].data]
          /\ val' = [val EXCEPT ![p] = [ok |-> TRUE, byte |-> Junk]]
     ELSE /\ val' = [val EXCEPT ![p] = [ok |-> TRUE, byte |-> store[op[p].addr]]]
          /\ UNCHANGED store
  /\ UNCHANGED <<op, out>>

Fail(p) ==
  /\ st[p] = "called"
  /\ st' = [st EXCEPT ![p] = "decided"]
  /\ UNCHANGED <<store, op, val, out>>

Answer(p) ==
  CASE op[p].kind = "read" /\ (val[p].ok \/ driver = "21th") -> [ret |-> 1, buf |-> [i \in {0} |-> val[p].byte]]
    [] op[p].kind = "write" /\ val[p].ok -> [ret |-> 2, buf |-> <<>>]
    [] OTHER -> [ret |-> IF driver = "21th" THEN EIO ELSE EPERM, buf |-> <<>>]

Return(p) ==
  /\ st[p] = "decided"
  /\ st' = [st EXCEPT ![p] = "idle"]
  /\ out' = [out EXCEPT ![p] = Answer(p)]
  /\ op' = [op EXCEPT ![p] = Nothing]
  /\ val' = [val EXCEPT ![p] = Failed]
  /\ UNCHANGED store

Next ==
  /\ UNCHANGED driver
  /\ \E p \in Procs : (\E o \in Ops : Invoke(p, o)) \/ Refuse(p) \/ Apply(p) \/ Fail(p) \/ Return(p)

Spec == Init /\ [][Next]_vars /\ \A p \in Procs : WF_vars((Apply(p) \/ Fail(p) \/ Return(p)) /\ UNCHANGED driver)
=============================================================================
