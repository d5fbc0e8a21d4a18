------------------------------- MODULE DiskReq -------------------------------
(***************************************************************************)
(* Requests of a block device: what they are and what carrying one out     *)
(* does.                                                                   *)
(***************************************************************************)
EXTENDS Integers, Sequences

CONSTANTS Sectors,   \* capacity
          Values,    \* contents of a sector; one of them is Zero
          Zero

ASSUME SectorsAssumption == Sectors \in Nat \ {0}
ASSUME ZeroAssumption    == Zero \in Values

None == [dir |-> "none", pos |-> 0, data |-> <<>>]

\* requests lie inside the device: the block layer sees to that
Requests == UNION {[dir : {"READ"}, pos : 0..Sectors - n, data : {[i \in 1..n |-> Zero]}]
                   \cup [dir : {"WRITE"}, pos : 0..Sectors - n, data : [1..n -> Values]]
                   : n \in 1..Sectors}

Covers(r, s) == s \in r.pos..(r.pos + Len(r.data) - 1)

Written(d, r) == IF r.dir # "WRITE" THEN d
                 ELSE [s \in DOMAIN d |-> IF Covers(r, s) THEN r.data[s - r.pos + 1] ELSE d[s]]

Filled(d, r)  == IF r.dir # "READ" THEN r
                 ELSE [r EXCEPT !.data = [i \in DOMAIN r.data |-> d[r.pos + i - 1]]]
=============================================================================
