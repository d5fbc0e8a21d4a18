------------------------------ MODULE MCI2CBus ------------------------------
(***************************************************************************)
(* I2CBus for TLC.  Without timeouts every transfer of up to MaxMsgs       *)
(* messages of 0..MaxLen bytes is tried, in any sequence.  With timeouts   *)
(* the callers are the clients of this repository.                         *)
(***************************************************************************)
EXTENDS I2CBus

Wr(n) == [rd |-> FALSE, len |-> n]
Rd(n) == [rd |-> TRUE, len |-> n]

AllTransfers == Transfers

\* Probing with a quick write (21th_i2c_drv/2th), a byte write of at24cxx_write,
\* and the random read of at24cxx_read, here of two bytes so that one of them is
\* to be acknowledged.
ClientTransfers == { <<Wr(0)>>, <<Wr(2)>>, <<Wr(1), Rd(2)>> }
ByteWrite == { <<Wr(2)>> }

\* A comment of xfer says that it sends out or reads in the data of all num
\* messages (144): so after a successful return each one was on the wires, in
\* whatever state an earlier transfer had left the controller.
SuccessMeansSent == pc = "idle" /\ ret = OK => AllSent
=============================================================================
