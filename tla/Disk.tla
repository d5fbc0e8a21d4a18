--------------------------------- MODULE Disk ---------------------------------
(***************************************************************************)
(* What a block device promises: every request that is queued is carried   *)
(* out once, as a whole, in some order.                                    *)
(***************************************************************************)
EXTENDS DiskReq

CONSTANT Slots   \* for requests that are outstanding

VARIABLES disk, todo, done   \* contents; per slot, the request queued, and the one carried out

vars == <<disk, todo, done>>

Init == /\ disk = [s \in 0..Sectors - 1 |-> Zero]
        /\ todo = [k \in Slots |-> None] /\ done = [k \in Slots |-> None]

Queue(k) ==
  /\ todo[k] = None
  /\ \E r \in Requests : todo' = [todo EXCEPT ![k] = r]
  /\ done' = [done EXCEPT ![k] = None]
  /\ UNCHANGED disk

Carry(k) ==
  /\ todo[k] # None
  /\ disk' = Written(disk, todo[k])
  /\ done' = [done EXCEPT ![k] = Filled(disk, todo[k])]
  /\ todo' = [todo EXCEPT ![k] = None]

Next == \E k \in Slots : Queue(k) \/ Carry(k)

Spec == Init /\ [][Next]_vars /\ \A k \in Slots : WF_vars(Carry(k))
=============================================================================
