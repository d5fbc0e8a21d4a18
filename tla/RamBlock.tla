------------------------------- MODULE RamBlock -------------------------------
(***************************************************************************)
(* 13th-ramblock/ramblock.c: do_ramblock_request, called with the queue's  *)
(* lock held, takes requests from the queue until it is empty.  A request  *)
(* the elevator merged has several segments; one turn of the loop copies   *)
(* one of them.  Sectors stand for 512 bytes.                              *)
(***************************************************************************)
EXTENDS DiskReq

CONSTANT Slots   \* for requests that are outstanding

ASSUME SlotsAssumption == 0 \notin Slots

VARIABLES
  p_ramblock_buf,
  queue,            \* per slot, the request that waits, cut into segments
  running,          \* is the request function running, which has the queue's lock?
  req, slot,        \* the request it serves, with the segments left, and its slot
  done              \* per slot, the request last ended

vars == <<p_ramblock_buf, queue, running, req, slot, done>>

NoSlot == 0
NoReq  == [rq |-> None, segs |-> <<>>, at |-> 0]

\* what the block layer sees: a request is carried out when it is fetched
D == INSTANCE Disk WITH
       disk <- IF slot = NoSlot THEN p_ramblock_buf ELSE Written(p_ramblock_buf, req.rq),
       todo <- [k \in Slots |-> queue[k].rq],
       done <- [k \in Slots |-> IF k = slot THEN Filled(p_ramblock_buf, req.rq) ELSE done[k]]

\* how the elevator may have made n sectors of segments: of one, or of two
Cuts(n) == {<<n>>} \cup {<<i, n - i>> : i \in 1..n - 1}

Queued == UNION {{[rq |-> r, segs |-> c, at |-> r.pos] : c \in Cuts(Len(r.data))} : r \in Requests}

TypeOK ==
  /\ p_ramblock_buf \in [0..Sectors - 1 -> Values]
  /\ queue \in [Slots -> Queued \cup {NoReq}]
  /\ running \in BOOLEAN /\ slot \in Slots \cup {NoSlot}
  /\ (slot = NoSlot) = (req = NoReq) /\ (slot # NoSlot => running)
  /\ \A i \in 1..Len(req.segs) : req.at + req.segs[i] <= Sectors

Init ==
  /\ p_ramblock_buf = [s \in 0..Sectors - 1 |-> Zero]
  /\ queue = [k \in Slots |-> NoReq] /\ running = FALSE
  /\ req = NoReq /\ slot = NoSlot
  /\ done = [k \in Slots |-> None]

-----------------------------------------------------------------------------
\* a request is queued, which needs the lock
Submit(k) ==
  /\ ~running /\ queue[k] = NoReq
  /\ \E q \in Queued : queue' = [queue EXCEPT ![k] = q]
  /\ done' = [done EXCEPT ![k] = None]
  /\ UNCHANGED <<p_ramblock_buf, running, req, slot>>

\* the elevator gives any of them
blk_fetch_request(k) ==
  /\ slot = NoSlot /\ queue[k] # NoReq
  /\ running' = TRUE
  /\ req' = queue[k] /\ slot' = k
  /\ queue' = [queue EXCEPT ![k] = NoReq]
  /\ UNCHANGED <<p_ramblock_buf, done>>

\* the queue is empty: the function returns
Leave ==
  /\ running /\ slot = NoSlot /\ \A k \in Slots : queue[k] = NoReq
  /\ running' = FALSE
  /\ UNCHANGED <<p_ramblock_buf, queue, req, slot, done>>

\* fault: the request moves on by its whole length
End_whole(r) ==
  IF Len(r.segs) > 1
  THEN req' = [r EXCEPT !.at = @ + Len(r.rq.data), !.segs = Tail(@)] /\ UNCHANGED <<slot, done>>
  ELSE req' = NoReq /\ slot' = NoSlot /\ done' = [done EXCEPT ![slot] = r.rq]

\* __blk_end_request_cur: the request moves on by the segment, and ends with its last
End(r) ==
  IF Len(r.segs) > 1
  THEN req' = [r EXCEPT !.at = @ + r.segs[1], !.segs = Tail(@)] /\ UNCHANGED <<slot, done>>
  ELSE req' = NoReq /\ slot' = NoSlot /\ done' = [done EXCEPT ![slot] = r.rq]

\* fault: every segment is copied to where the request begins
Offset_start(r) == r.rq.pos

\* blk_rq_pos(req): the position of the current segment
Offset(r) == r.at

\* one turn of the loop: memcpy of the current segment from or to the buffer
do_ramblock_request ==
  /\ slot # NoSlot
  /\ LET len    == req.segs[1]
         copied == req.at - req.rq.pos
         shift  == Offset(req) - copied - 1   \* from an index of the data to its sector
         cur    == copied + 1 .. copied + len
     IN \/ /\ req.rq.dir = "READ"
           /\ End([req EXCEPT !.rq.data =
                     [i \in DOMAIN @ |-> IF i \in cur THEN p_ramblock_buf[i + shift] ELSE @[i]]])
           /\ UNCHANGED p_ramblock_buf
        \/ /\ req.rq.dir = "WRITE"
           /\ p_ramblock_buf' = [s \in DOMAIN p_ramblock_buf |->
                                   IF s - shift \in cur THEN req.rq.data[s - shift] ELSE p_ramblock_buf[s]]
           /\ End(req)
  /\ UNCHANGED <<queue, running>>

Next == do_ramblock_request \/ Leave \/ \E k \in Slots : Submit(k) \/ blk_fetch_request(k)

\* the request function runs when something is queued, and goes on
Serve == do_ramblock_request \/ Leave \/ \E k \in Slots : blk_fetch_request(k)

Spec == Init /\ [][Next]_vars /\ WF_vars(Serve)

-----------------------------------------------------------------------------
\* Every request is carried out once and as a whole, although it is copied
\* segment by segment: a read returns what the last writes of its sectors left,
\* a write changes its sectors and no others, and none stays in the queue
\* (59-88).
CarriesOut == D!Spec
=============================================================================
