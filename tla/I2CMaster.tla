------------------------------ MODULE I2CMaster ------------------------------
(***************************************************************************)
(* What the i2c core is promised by an adapter's master_xfer(): for each   *)
(* call the wires carry, in order, one START and address per message, each *)
(* byte of each message once, and one STOP; every byte read but the last   *)
(* of its message is acknowledged; a byte the slave refuses ends the       *)
(* transfer at once; and the call returns OK exactly when everything was   *)
(* sent.  I2CBus is shown to implement this.                               *)
(***************************************************************************)
EXTENDS I2CMsg

VARIABLES req,     \* the messages of the current or last call
          active,  \* is a call in progress?
          sm,      \* STARTs acknowledged since the call
          sn,      \* bytes of message sm that have been exchanged
          ev,      \* the last element seen on the wires
          reply    \* what the last call returned

vars == <<req, active, sm, sn, ev, reply>>

TypeOK ==
  /\ req \in Transfers \cup {<<>>}
  /\ active \in BOOLEAN
  /\ sm \in 0..MaxMsgs
  /\ sn \in 0..MaxLen
  /\ ev \in Event
  /\ reply \in {OK, ENODEV, ETIMEDOUT}

Init ==
  /\ req = <<>>
  /\ active = FALSE
  /\ sm = 0
  /\ sn = 0
  /\ ev = Quiet
  /\ reply = OK

MessageDone == sm > 0 => sn = req[sm].len
AllDone     == sm = Len(req) /\ MessageDone

\* the slave did not acknowledge the last address or byte it was sent
Refused == ev.op \in {"S", "W"} /\ ~ev.ack
Open    == active /\ ev.op # "P" /\ ~Refused

Call(q) ==
  /\ ~active
  /\ active' = TRUE
  /\ req' = q
  /\ sm' = 0
  /\ sn' = 0
  /\ ev' = Quiet
  /\ UNCHANGED reply

Start(ack) ==
  /\ Open /\ MessageDone /\ sm < Len(req)
  /\ ev' = [op |-> "S", byte |-> <<sm + 1, Address>>, ack |-> ack]
  /\ IF ack THEN sm' = sm + 1 /\ sn' = 0 ELSE UNCHANGED <<sm, sn>>
  /\ UNCHANGED <<req, active, reply>>

Write(ack) ==
  /\ Open /\ ~MessageDone /\ ~req[sm].rd
  /\ ev' = [op |-> "W", byte |-> <<sm, sn>>, ack |-> ack]
  /\ sn' = IF ack THEN sn + 1 ELSE sn
  /\ UNCHANGED <<req, active, sm, reply>>

Read ==
  /\ Open /\ ~MessageDone /\ req[sm].rd
  /\ ev' = [op |-> "R", byte |-> <<sm, sn>>, ack |-> sn + 1 < req[sm].len]
  /\ sn' = sn + 1
  /\ UNCHANGED <<req, active, sm, reply>>

Stop ==
  /\ active /\ ev.op # "P"
  /\ AllDone \/ Refused
  /\ ev' = StopSent
  /\ UNCHANGED <<req, active, sm, sn, reply>>

Return ==
  /\ active /\ ev.op = "P"
  /\ active' = FALSE
  /\ reply' = IF AllDone THEN OK ELSE ENODEV
  /\ UNCHANGED <<req, sm, sn, ev>>

Progress == (\E ack \in BOOLEAN : Start(ack) \/ Write(ack)) \/ Read \/ Stop \/ Return

Next == (\E q \in Transfers : Call(q)) \/ Progress

Spec == Init /\ [][Next]_vars /\ WF_vars(Progress)
=============================================================================
