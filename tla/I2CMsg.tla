------------------------------- MODULE I2CMsg -------------------------------
(***************************************************************************)
(* The vocabulary that i2c_bus_s3c2440.c shares with the i2c core: what a  *)
(* transfer is, how its bytes are named, and the error codes.              *)
(*                                                                         *)
(* A byte is named by the place it belongs to, <<m, p>>: byte p of the     *)
(* buffer of message m, or the address byte of message m when p = Address. *)
(* All bytes are therefore different, which is what it takes to notice     *)
(* that a byte is skipped, repeated, or stored in a neighbouring cell.     *)
(***************************************************************************)
EXTENDS Integers, Sequences

CONSTANTS MaxMsgs,  \* most messages of one i2c_transfer()
          MaxLen    \* longest message

ASSUME BoundsAssumption == MaxMsgs \in Nat \ {0} /\ MaxLen \in Nat

OK        == 0
ENODEV    == -19
ETIMEDOUT == -110

\* struct i2c_msg: the direction flag I2C_M_RD and the length of buf
Msg == [rd : BOOLEAN, len : 0..MaxLen]

\* The msgs/num arguments of i2c_transfer(): the core's callers pass at least
\* one message.
Transfers == UNION { [1..n -> Msg] : n \in 1..MaxMsgs }

Address == -1
Byte    == (0..MaxMsgs) \X (-1..MaxLen)
NoByte  == <<0, 0>>

\* What the two wires carry, one element at a time: S and an address byte, a
\* byte written (W) or read (R) with its acknowledge bit, and P.
Event == [op : {"-", "S", "W", "R", "P"}, byte : Byte, ack : BOOLEAN]
Quiet == [op |-> "-", byte |-> NoByte, ack |-> TRUE]
StopSent == [op |-> "P", byte |-> NoByte, ack |-> TRUE]
=============================================================================
