--------------------------- MODULE RamBlockProofs ---------------------------
(***************************************************************************)
(* The RAM block device carries out every request once and as a whole, for *)
(* any capacity, contents and number of requests.                          *)
(***************************************************************************)
EXTENDS RamBlock, SequenceTheorems, TLAPS

Disks == [0..Sectors - 1 -> Values]

\* a request inside the device
Legal(r) ==
  /\ r \in [dir : {"READ", "WRITE"}, pos : Nat, data : Seq(Values)]
  /\ Len(r.data) > 0 /\ r.pos + Len(r.data) <= Sectors

Rest(q) == IF Len(q.segs) = 1 THEN q.segs[1] ELSE q.segs[1] + q.segs[2]

\* the segments that are left are the end of the request
Cut(q) ==
  /\ q = [rq |-> q.rq, segs |-> q.segs, at |-> q.at]
  /\ Legal(q.rq) /\ q.at \in Nat
  /\ q.segs \in Seq(Nat \ {0}) /\ Len(q.segs) \in {1, 2}
  /\ q.rq.pos <= q.at /\ q.at + Rest(q) = q.rq.pos + Len(q.rq.data)

\* the first n sectors of the request and of the device agree
Agree(r, n, buf) == \A i \in 1..Len(r.data) : i <= n => r.data[i] = buf[r.pos + i - 1]

Queueing == queue \in [Slots -> Queued \cup {NoReq}]

\* what has been copied so far, in whichever direction, agrees
Serving ==
  IF slot = NoSlot THEN req = NoReq
  ELSE slot \in Slots /\ running /\ Cut(req) /\ Agree(req.rq, req.at - req.rq.pos, p_ramblock_buf)

\* what was ended is a request, with as many sectors as it had
Answers ==
  /\ done = [k \in Slots |-> done[k]]
  /\ \A k \in Slots : done[k] = None \/ Legal(done[k])

IInv == p_ramblock_buf \in Disks /\ Queueing /\ running \in BOOLEAN /\ Serving /\ Answers

-----------------------------------------------------------------------------
(* Requests and what carrying them out does *)

LEMMA RequestsAreLegal == \A r \in Requests : Legal(r)
<1> SUFFICES ASSUME NEW r \in Requests PROVE Legal(r)
  OBVIOUS
<1>1. PICK n \in 1..Sectors :
        \/ r \in [dir : {"READ"}, pos : 0..Sectors - n, data : {[i \in 1..n |-> Zero]}]
        \/ r \in [dir : {"WRITE"}, pos : 0..Sectors - n, data : [1..n -> Values]]
  BY DEF Requests
<1>2. n \in Nat /\ n > 0 /\ 0..Sectors - n \subseteq Nat
  BY SectorsAssumption
<1>3. /\ r.data \in [1..n -> Values] /\ r.pos \in 0..Sectors - n /\ r.dir \in {"READ", "WRITE"}
      /\ r = [dir |-> r.dir, pos |-> r.pos, data |-> r.data]
  BY <1>1, ZeroAssumption
<1>4. r.data \in Seq(Values) /\ Len(r.data) = n
  BY <1>2, <1>3
<1>5. r.pos + n <= Sectors /\ r.pos \in Nat
  BY <1>2, <1>3, SectorsAssumption
<1> QED
  BY <1>2, <1>3, <1>4, <1>5 DEF Legal

LEMMA QueuedIsCut ==
  ASSUME NEW q \in Queued PROVE q.rq \in Requests /\ Cut(q) /\ q.at = q.rq.pos
<1>1. PICK r \in Requests : \E c \in Cuts(Len(r.data)) : q = [rq |-> r, segs |-> c, at |-> r.pos]
  BY DEF Queued
<1>2. PICK c \in Cuts(Len(r.data)) : q = [rq |-> r, segs |-> c, at |-> r.pos]
  BY <1>1
<1>3. Legal(r) /\ r.pos \in Nat /\ Len(r.data) \in Nat \ {0}
  BY RequestsAreLegal DEF Legal
<1>4. /\ c \in Seq(Nat \ {0}) /\ Len(c) \in {1, 2}
      /\ (IF Len(c) = 1 THEN c[1] ELSE c[1] + c[2]) = Len(r.data)
  <2>1. CASE c = <<Len(r.data)>>
    BY <1>3, <2>1
  <2>2. ASSUME NEW i \in 1..Len(r.data) - 1, c = <<i, Len(r.data) - i>>
        PROVE  /\ c \in Seq(Nat \ {0}) /\ Len(c) \in {1, 2}
               /\ (IF Len(c) = 1 THEN c[1] ELSE c[1] + c[2]) = Len(r.data)
    BY <1>3, <2>2
  <2> QED
    BY <2>1, <2>2 DEF Cuts
<1> QED
  BY <1>2, <1>3, <1>4 DEF Cut, Rest

\* When all of a request agrees with the device, it has been carried out.
LEMMA AgreeIsDone ==
  ASSUME NEW r, Legal(r), NEW buf \in Disks, Agree(r, Len(r.data), buf)
  PROVE  Written(buf, r) = buf /\ Filled(buf, r) = r
<1>1. /\ r = [dir |-> r.dir, pos |-> r.pos, data |-> r.data]
      /\ r.pos \in Nat /\ r.data \in Seq(Values) /\ Len(r.data) \in Nat
  BY DEF Legal
<1>2. \A i \in 1..Len(r.data) : r.data[i] = buf[r.pos + i - 1]
  BY <1>1 DEF Agree
<1>3. \A s \in 0..Sectors - 1 : Covers(r, s) => r.data[s - r.pos + 1] = buf[s]
  <2> SUFFICES ASSUME NEW s \in 0..Sectors - 1, Covers(r, s) PROVE r.data[s - r.pos + 1] = buf[s]
    OBVIOUS
  <2>1. s - r.pos + 1 \in 1..Len(r.data) /\ r.pos + (s - r.pos + 1) - 1 = s
    BY <1>1, SectorsAssumption DEF Covers
  <2> QED
    BY <1>2, <2>1
<1>4. Written(buf, r) = buf
  BY <1>3 DEF Written, Disks
<1>5. [i \in DOMAIN r.data |-> buf[r.pos + i - 1]] = r.data
  BY <1>1, <1>2
<1>6. Filled(buf, r) = r
  BY <1>1, <1>5 DEF Filled
<1> QED
  BY <1>4, <1>6

-----------------------------------------------------------------------------
(* One turn of the loop *)

\* r and t ask for the same sectors in the same direction
SameSectors(r, t) ==
  Legal(t) /\ t.dir = r.dir /\ t.pos = r.pos /\ Len(t.data) = Len(r.data)

\* A turn for a read: the data of the next len sectors become the device's.
LEMMA ReadTurn ==
  ASSUME NEW buf \in Disks, NEW r, Legal(r), r.dir = "READ",
         NEW c \in Nat, NEW len \in Nat, c + len <= Len(r.data), Agree(r, c, buf)
  PROVE  LET t == [r EXCEPT !.data = [i \in DOMAIN r.data |->
                     IF i \in c + 1..c + len THEN buf[i + (r.pos - 1)] ELSE r.data[i]]]
         IN  /\ SameSectors(r, t) /\ Agree(t, c + len, buf)
             /\ Written(buf, t) = Written(buf, r) /\ Filled(buf, t) = Filled(buf, r)
<1> DEFINE data == [i \in DOMAIN r.data |->
                     IF i \in c + 1..c + len THEN buf[i + (r.pos - 1)] ELSE r.data[i]]
           t == [r EXCEPT !.data = data]
<1>1. /\ r = [dir |-> r.dir, pos |-> r.pos, data |-> r.data]
      /\ r.pos \in Nat /\ r.data \in Seq(Values) /\ Len(r.data) \in Nat
      /\ Len(r.data) > 0 /\ r.pos + Len(r.data) <= Sectors /\ Sectors \in Nat
  BY SectorsAssumption DEF Legal
<1>2. \A i \in 1..Len(r.data) : i + (r.pos - 1) \in 0..Sectors - 1
  BY <1>1
<1>3. \A i \in 1..Len(r.data) : buf[i + (r.pos - 1)] \in Values
  BY <1>2 DEF Disks
<1>4. DOMAIN r.data = 1..Len(r.data) /\ \A i \in 1..Len(r.data) : r.data[i] \in Values
  BY <1>1
<1>5. data \in [1..Len(r.data) -> Values]
  BY <1>3, <1>4
<1>6. data \in Seq(Values) /\ Len(data) = Len(r.data) /\ DOMAIN data = 1..Len(r.data)
  <2> HIDE DEF data
  <2> QED
    BY <1>1, <1>5
<1>7. \A i \in 1..Len(r.data) : data[i] = IF i \in c + 1..c + len THEN buf[i + (r.pos - 1)] ELSE r.data[i]
  BY <1>4
<1> HIDE DEF data
<1>8. t = [dir |-> r.dir, pos |-> r.pos, data |-> data]
  BY <1>1
<1>9. SameSectors(r, t)
  BY <1>1, <1>6, <1>8 DEF SameSectors, Legal
<1>10. Agree(t, c + len, buf)
  <2> SUFFICES ASSUME NEW i \in 1..Len(r.data), i <= c + len PROVE data[i] = buf[r.pos + i - 1]
    BY <1>6, <1>8 DEF Agree
  <2>1. i + (r.pos - 1) = r.pos + i - 1
    BY <1>1
  <2>2. CASE i \in c + 1..c + len
    BY <1>7, <2>1, <2>2
  <2>3. CASE i \notin c + 1..c + len
    <3>1. i <= c
      BY <1>1, <2>3
    <3> QED
      BY <1>7, <2>3, <3>1 DEF Agree
  <2> QED
    BY <2>2, <2>3
<1>11. Written(buf, t) = buf /\ Written(buf, r) = buf
  BY <1>8 DEF Written
<1>12. Filled(buf, t) = Filled(buf, r)
  <2>1. DOMAIN data = DOMAIN r.data
    BY <1>4, <1>6
  <2>2. t.pos = r.pos /\ t.dir = r.dir /\ t.data = data
    BY <1>8
  <2>3. [t EXCEPT !.data = [i \in DOMAIN t.data |-> buf[t.pos + i - 1]]]
          = [r EXCEPT !.data = [i \in DOMAIN r.data |-> buf[r.pos + i - 1]]]
    BY <1>1, <1>8, <2>1
  <2> QED
    BY <2>2, <2>3 DEF Filled
<1> QED
  BY <1>9, <1>10, <1>11, <1>12 DEF data

\* A turn for a write: the device's next len sectors become the data.
LEMMA WriteTurn ==
  ASSUME NEW buf \in Disks, NEW r, Legal(r), r.dir = "WRITE",
         NEW c \in Nat, NEW len \in Nat, c + len <= Len(r.data), Agree(r, c, buf)
  PROVE  LET new == [s \in DOMAIN buf |->
                       IF s - (r.pos - 1) \in c + 1..c + len THEN r.data[s - (r.pos - 1)] ELSE buf[s]]
         IN  /\ new \in Disks /\ Agree(r, c + len, new)
             /\ Written(new, r) = Written(buf, r) /\ Filled(new, r) = Filled(buf, r)
<1> DEFINE new == [s \in DOMAIN buf |->
                     IF s - (r.pos - 1) \in c + 1..c + len THEN r.data[s - (r.pos - 1)] ELSE buf[s]]
<1>1. /\ r.pos \in Nat /\ r.data \in Seq(Values) /\ Len(r.data) \in Nat
      /\ r.pos + Len(r.data) <= Sectors /\ Sectors \in Nat
  BY SectorsAssumption DEF Legal
<1>2. \A i \in 1..Len(r.data) : r.data[i] \in Values
  BY <1>1
<1>3. /\ DOMAIN buf = 0..Sectors - 1
      /\ \A s \in 0..Sectors - 1 : buf[s] \in Values
  BY DEF Disks
<1>4. \A s \in 0..Sectors - 1 : s - (r.pos - 1) \in c + 1..c + len =>
        s - (r.pos - 1) \in 1..Len(r.data) /\ Covers(r, s)
  BY <1>1, SMTT(30) DEF Covers
<1>5. new \in Disks
  BY <1>2, <1>3, <1>4 DEF Disks
<1>6. \A s \in 0..Sectors - 1 : new[s] =
        IF s - (r.pos - 1) \in c + 1..c + len THEN r.data[s - (r.pos - 1)] ELSE buf[s]
  BY <1>3
<1> HIDE DEF new
<1>7. Agree(r, c + len, new)
  <2> SUFFICES ASSUME NEW i \in 1..Len(r.data), i <= c + len PROVE r.data[i] = new[r.pos + i - 1]
    BY DEF Agree
  <2>1. r.pos + i - 1 \in 0..Sectors - 1 /\ (r.pos + i - 1) - (r.pos - 1) = i
    BY <1>1
  <2>2. CASE i \in c + 1..c + len
    BY <1>6, <2>1, <2>2
  <2>3. CASE i \notin c + 1..c + len
    <3>1. i <= c
      BY <1>1, <2>3
    <3> QED
      BY <1>6, <2>1, <2>3, <3>1 DEF Agree
  <2> QED
    BY <2>2, <2>3
<1>8. Written(new, r) = Written(buf, r)
  BY <1>4, <1>5, <1>6 DEF Written, Disks
<1>9. Filled(new, r) = Filled(buf, r)
  BY DEF Filled
<1> QED
  BY <1>5, <1>7, <1>8, <1>9 DEF new

\* What is known of the request that is served.
LEMMA Served ==
  ASSUME IInv, slot # NoSlot
  PROVE  /\ slot \in Slots /\ running
         /\ Cut(req) /\ Legal(req.rq) /\ Sectors \in Nat
         /\ req.rq.pos \in Nat /\ Len(req.rq.data) \in Nat /\ req.at \in Nat
         /\ req.rq.pos <= req.at /\ req.rq.pos + Len(req.rq.data) <= Sectors
         /\ req.segs \in Seq(Nat \ {0}) /\ Len(req.segs) \in {1, 2} /\ req.segs[1] \in Nat \ {0}
         /\ Len(req.segs) = 1 => req.at + req.segs[1] = req.rq.pos + Len(req.rq.data)
         /\ Len(req.segs) = 2 => /\ req.segs[2] \in Nat \ {0}
                                 /\ req.at + (req.segs[1] + req.segs[2]) = req.rq.pos + Len(req.rq.data)
BY SectorsAssumption DEF IInv, Serving, Cut, Legal, Rest

\* One turn of do_ramblock_request, for either direction: q is the request with
\* the data that were read.
LEMMA Turn ==
  ASSUME IInv, do_ramblock_request
  PROVE  \E q : /\ End(q) /\ q = [rq |-> q.rq, segs |-> req.segs, at |-> req.at]
                /\ SameSectors(req.rq, q.rq) /\ p_ramblock_buf' \in Disks
                /\ Agree(q.rq, req.at + req.segs[1] - req.rq.pos, p_ramblock_buf')
                /\ Written(p_ramblock_buf', q.rq) = Written(p_ramblock_buf, req.rq)
                /\ Filled(p_ramblock_buf', q.rq) = Filled(p_ramblock_buf, req.rq)
<1> DEFINE r     == req.rq
           c     == req.at - r.pos
           len   == req.segs[1]
           shift == req.at - c - 1
<1>1. /\ req = [rq |-> r, segs |-> req.segs, at |-> req.at] /\ Legal(r)
      /\ p_ramblock_buf \in Disks /\ Agree(r, c, p_ramblock_buf)
  BY DEF IInv, Serving, Cut, do_ramblock_request
<1>2. /\ r.pos \in Nat /\ req.at \in Nat /\ c \in Nat /\ len \in Nat
      /\ c + len <= Len(r.data) /\ c + len = req.at + len - r.pos /\ shift = r.pos - 1
  <2>1. slot # NoSlot
    BY DEF do_ramblock_request
  <2>2. /\ r.pos \in Nat /\ Len(r.data) \in Nat /\ req.at \in Nat /\ r.pos <= req.at /\ len \in Nat
        /\ req.at + len <= r.pos + Len(r.data)
    <3>1. Len(req.segs) = 1 \/ Len(req.segs) = 2
      BY <2>1, Served
    <3>2. CASE Len(req.segs) = 1
      BY <2>1, <3>2, Served
    <3>3. CASE Len(req.segs) = 2
      BY <2>1, <3>3, Served
    <3> QED
      BY <3>1, <3>2, <3>3
  <2> QED
    BY <2>2, SMTT(30)
<1>3. CASE r.dir = "READ"
  <2> DEFINE t == [r EXCEPT !.data = [i \in DOMAIN r.data |->
                     IF i \in c + 1..c + len THEN p_ramblock_buf[i + (r.pos - 1)] ELSE r.data[i]]]
             q == [rq |-> t, segs |-> req.segs, at |-> req.at]
             v == [i \in DOMAIN r.data |->
                     IF i \in c + 1..c + len THEN p_ramblock_buf[i + shift] ELSE r.data[i]]
             u == [req EXCEPT !.rq.data = v]
  <2>1. End(u) /\ UNCHANGED p_ramblock_buf
    BY <1>3 DEF do_ramblock_request, Offset
  <2>2. u = q
    <3>1. v = [i \in DOMAIN r.data |->
                 IF i \in c + 1..c + len THEN p_ramblock_buf[i + (r.pos - 1)] ELSE r.data[i]]
      <4> HIDE DEF c, len
      <4> QED
        BY <1>2
    <3> HIDE DEF v
    <3>2. u = [rq |-> [r EXCEPT !.data = v], segs |-> req.segs, at |-> req.at]
      BY <1>1
    <3> QED
      BY <3>1, <3>2, Zenon
  <2>3. /\ SameSectors(r, t) /\ Agree(t, c + len, p_ramblock_buf)
        /\ Written(p_ramblock_buf, t) = Written(p_ramblock_buf, r)
        /\ Filled(p_ramblock_buf, t) = Filled(p_ramblock_buf, r)
    BY <1>1, <1>2, <1>3, ReadTurn, ZenonT(30)
  <2> HIDE DEF t, u
  <2>4. End(q) /\ q.rq = t
    BY <2>1, <2>2, Zenon
  <2>5. Agree(t, req.at + req.segs[1] - r.pos, p_ramblock_buf)
    BY <1>2, <2>3
  <2> WITNESS q
  <2> QED
    BY <1>1, <2>1, <2>3, <2>4, <2>5
<1>4. CASE r.dir = "WRITE"
  <2> DEFINE new == [s \in DOMAIN p_ramblock_buf |->
                       IF s - (r.pos - 1) \in c + 1..c + len THEN r.data[s - (r.pos - 1)] ELSE p_ramblock_buf[s]]
  <2>1. /\ End(req)
        /\ p_ramblock_buf' = [s \in DOMAIN p_ramblock_buf |->
                                IF s - shift \in c + 1..c + len THEN r.data[s - shift] ELSE p_ramblock_buf[s]]
    BY <1>4 DEF do_ramblock_request, Offset
  <2>2. p_ramblock_buf' = new
    BY <1>2, <2>1
  <2>3. /\ new \in Disks /\ Agree(r, c + len, new)
        /\ Written(new, r) = Written(p_ramblock_buf, r) /\ Filled(new, r) = Filled(p_ramblock_buf, r)
    BY <1>1, <1>2, <1>4, WriteTurn, ZenonT(30)
  <2> HIDE DEF new
  <2>4. SameSectors(r, r)
    BY <1>1 DEF SameSectors
  <2> QED
    BY <1>1, <1>2, <2>1, <2>2, <2>3, <2>4
<1> QED
  BY <1>1, <1>3, <1>4 DEF Legal

\* The turn that copies the last segment leaves request and device as one whole
\* transfer would have.
LEMMA LastTurn ==
  ASSUME IInv, do_ramblock_request, Len(req.segs) = 1
  PROVE  /\ p_ramblock_buf' = Written(p_ramblock_buf, req.rq) /\ p_ramblock_buf' \in Disks
         /\ req' = NoReq /\ slot' = NoSlot
         /\ done' = [done EXCEPT ![slot] = Filled(p_ramblock_buf, req.rq)]
         /\ Legal(Filled(p_ramblock_buf, req.rq))
<1>1. PICK q : /\ End(q) /\ q = [rq |-> q.rq, segs |-> req.segs, at |-> req.at]
               /\ SameSectors(req.rq, q.rq) /\ p_ramblock_buf' \in Disks
               /\ Agree(q.rq, req.at + req.segs[1] - req.rq.pos, p_ramblock_buf')
               /\ Written(p_ramblock_buf', q.rq) = Written(p_ramblock_buf, req.rq)
               /\ Filled(p_ramblock_buf', q.rq) = Filled(p_ramblock_buf, req.rq)
  BY Turn
<1>2. q.segs = req.segs
  BY <1>1
<1>0. slot # NoSlot
  BY DEF do_ramblock_request
<1>3. req.at + req.segs[1] - req.rq.pos = Len(req.rq.data)
  <2>1. /\ req.at + req.segs[1] = req.rq.pos + Len(req.rq.data)
        /\ req.at \in Nat /\ req.segs[1] \in Nat /\ req.rq.pos \in Nat /\ Len(req.rq.data) \in Nat
    BY <1>0, Served
  <2> QED
    BY <2>1, SMTT(30)
<1>4. Legal(q.rq) /\ Agree(q.rq, Len(q.rq.data), p_ramblock_buf')
  BY <1>1, <1>3 DEF SameSectors
<1>5. Written(p_ramblock_buf', q.rq) = p_ramblock_buf' /\ Filled(p_ramblock_buf', q.rq) = q.rq
  BY <1>1, <1>4, AgreeIsDone
<1>6. req' = NoReq /\ slot' = NoSlot /\ done' = [done EXCEPT ![slot] = q.rq]
  <2>1. \A n : n = 1 => ~(n > 1)
    OBVIOUS
  <2>2. Len(q.segs) = 1
    BY <1>2
  <2>3. ~(Len(q.segs) > 1)
    BY <2>1, <2>2, Zenon
  <2> QED
    BY <1>1, <2>3, Zenon DEF End
<1> QED
  BY <1>1, <1>4, <1>5, <1>6

\* Any other turn changes nothing of what the transfer will come to.
LEMMA OtherTurn ==
  ASSUME IInv, do_ramblock_request, Len(req.segs) # 1
  PROVE  /\ Written(p_ramblock_buf', req'.rq) = Written(p_ramblock_buf, req.rq)
         /\ Filled(p_ramblock_buf', req'.rq) = Filled(p_ramblock_buf, req.rq)
         /\ p_ramblock_buf' \in Disks /\ UNCHANGED <<slot, done>>
         /\ Cut(req') /\ Agree(req'.rq, req'.at - req'.rq.pos, p_ramblock_buf')
<1>1. PICK q : /\ End(q) /\ q = [rq |-> q.rq, segs |-> req.segs, at |-> req.at]
               /\ SameSectors(req.rq, q.rq) /\ p_ramblock_buf' \in Disks
               /\ Agree(q.rq, req.at + req.segs[1] - req.rq.pos, p_ramblock_buf')
               /\ Written(p_ramblock_buf', q.rq) = Written(p_ramblock_buf, req.rq)
               /\ Filled(p_ramblock_buf', q.rq) = Filled(p_ramblock_buf, req.rq)
  BY Turn
<1>2. /\ req.segs \in Seq(Nat \ {0}) /\ Len(req.segs) = 2
      /\ req.segs[1] \in Nat \ {0} /\ req.segs[2] \in Nat \ {0}
      /\ req.at \in Nat /\ req.rq.pos \in Nat /\ Len(req.rq.data) \in Nat /\ req.rq.pos <= req.at
      /\ req.at + (req.segs[1] + req.segs[2]) = req.rq.pos + Len(req.rq.data)
  <2>1. slot # NoSlot
    BY DEF do_ramblock_request
  <2> QED
    BY <2>1, Served
<1>3. /\ req' = [rq |-> q.rq, segs |-> Tail(req.segs), at |-> req.at + req.segs[1]]
      /\ UNCHANGED <<slot, done>>
  <2>1. q.segs = req.segs /\ q.at = req.at
    BY <1>1
  <2>2. req' = [q EXCEPT !.at = @ + q.segs[1], !.segs = Tail(@)] /\ UNCHANGED <<slot, done>>
    BY <1>1, <1>2, <2>1 DEF End
  <2> QED
    BY <1>1, <2>1, <2>2
<1>4. /\ Tail(req.segs) \in Seq(Nat \ {0}) /\ Len(Tail(req.segs)) = 1
      /\ Tail(req.segs)[1] = req.segs[2]
  BY <1>2
<1>5. req'.rq = q.rq /\ req'.at = req.at + req.segs[1] /\ req'.segs = Tail(req.segs)
  BY <1>3
<1>6. Legal(q.rq) /\ q.rq.pos = req.rq.pos /\ Len(q.rq.data) = Len(req.rq.data)
  BY <1>1 DEF SameSectors
<1>7. Cut(req')
  <2>1. req' = [rq |-> req'.rq, segs |-> req'.segs, at |-> req'.at]
    BY <1>3
  <2>2. Rest(req') = req.segs[2]
    BY <1>4, <1>5 DEF Rest
  <2>3. /\ req'.at \in Nat /\ req'.rq.pos <= req'.at
        /\ req'.at + Rest(req') = req'.rq.pos + Len(req'.rq.data)
    BY <1>2, <1>5, <1>6, <2>2, SMTT(30)
  <2>4. Legal(req'.rq) /\ req'.segs \in Seq(Nat \ {0}) /\ Len(req'.segs) \in {1, 2}
    BY <1>4, <1>5, <1>6
  <2> QED
    BY <2>1, <2>3, <2>4, Zenon DEF Cut
<1>8. Agree(req'.rq, req'.at - req'.rq.pos, p_ramblock_buf')
  <2>1. req'.at - req'.rq.pos = req.at + req.segs[1] - req.rq.pos
    BY <1>2, <1>5, <1>6
  <2> QED
    BY <1>1, <1>5, <2>1, Zenon
<1> QED
  BY <1>1, <1>3, <1>5, <1>7, <1>8

-----------------------------------------------------------------------------
(* The inductive invariant *)

LEMMA NoneIsQueued == NoReq \notin Queued /\ None \notin Requests
<1>1. None \notin Requests
  BY RequestsAreLegal DEF None, Legal
<1> QED
  BY <1>1, QueuedIsCut DEF NoReq

LEMMA Initially == Init => IInv
BY ZeroAssumption DEF Init, IInv, Disks, Queueing, Serving, Answers

LEMMA SubmitKeeps == ASSUME IInv, NEW k \in Slots, Submit(k) PROVE IInv'
<1>1. slot = NoSlot
  BY DEF IInv, Serving, Submit
<1> QED
  BY <1>1 DEF IInv, Queueing, Serving, Answers, Submit

LEMMA FetchKeeps == ASSUME IInv, NEW k \in Slots, blk_fetch_request(k) PROVE IInv'
<1>1. queue[k] \in Queued /\ Queueing'
  BY DEF IInv, Queueing, blk_fetch_request
<1>2. Cut(queue[k]) /\ queue[k].at = queue[k].rq.pos /\ queue[k].rq.pos \in Nat
  BY <1>1, QueuedIsCut DEF Cut, Legal
<1>3. Agree(queue[k].rq, queue[k].at - queue[k].rq.pos, p_ramblock_buf)
  <2>1. queue[k].at - queue[k].rq.pos = 0
    BY <1>2
  <2> QED
    BY <2>1 DEF Agree
<1> QED
  <2>1. Serving'
    <3>1. req' = queue[k] /\ slot' = k /\ running' = TRUE /\ p_ramblock_buf' = p_ramblock_buf
      BY DEF blk_fetch_request
    <3>2. k # NoSlot
      BY SlotsAssumption DEF NoSlot
    <3> QED
      BY <1>2, <1>3, <3>1, <3>2, Zenon DEF Serving
  <2>2. Answers'
    BY DEF IInv, Answers, blk_fetch_request
  <2> QED
    BY <1>1, <2>1, <2>2 DEF IInv, blk_fetch_request

LEMMA CopyKeeps == ASSUME IInv, do_ramblock_request PROVE IInv'
<1>0. slot # NoSlot /\ UNCHANGED <<queue, running>>
  BY DEF do_ramblock_request
<1>1. CASE Len(req.segs) = 1
  <2>1. /\ p_ramblock_buf' \in Disks /\ req' = NoReq /\ slot' = NoSlot
        /\ done' = [done EXCEPT ![slot] = Filled(p_ramblock_buf, req.rq)]
        /\ Legal(Filled(p_ramblock_buf, req.rq))
    BY <1>1, LastTurn
  <2>2. Answers'
    BY <2>1 DEF IInv, Answers
  <2>3. Serving'
    BY <2>1 DEF Serving
  <2> QED
    BY <1>0, <2>1, <2>2, <2>3 DEF IInv, Queueing
<1>2. CASE Len(req.segs) # 1
  <2>1. /\ p_ramblock_buf' \in Disks /\ UNCHANGED <<slot, done>> /\ Cut(req')
        /\ Agree(req'.rq, req'.at - req'.rq.pos, p_ramblock_buf')
    BY <1>2, OtherTurn
  <2>2. slot \in Slots /\ running
    BY <1>0 DEF IInv, Serving
  <2>3. Serving'
    BY <1>0, <2>1, <2>2 DEF Serving
  <2> QED
    BY <1>0, <2>1, <2>3 DEF IInv, Queueing, Answers
<1> QED
  BY <1>1, <1>2

LEMMA StepKeeps == IInv /\ [Next]_vars => IInv'
<1> SUFFICES ASSUME IInv, [Next]_vars PROVE IInv'
  OBVIOUS
<1>1. CASE do_ramblock_request
  BY <1>1, CopyKeeps
<1>2. CASE Leave
  BY <1>2 DEF IInv, Queueing, Serving, Answers, Leave
<1>3. ASSUME NEW k \in Slots, Submit(k) PROVE IInv'
  BY <1>3, SubmitKeeps
<1>4. ASSUME NEW k \in Slots, blk_fetch_request(k) PROVE IInv'
  BY <1>4, FetchKeeps
<1>5. CASE UNCHANGED vars
  BY <1>5 DEF IInv, Queueing, Serving, Answers, vars
<1> QED
  BY <1>1, <1>2, <1>3, <1>4, <1>5 DEF Next

\* What has been copied so far agrees with the device, and what is left is the end
\* of the request.
THEOREM Invariance == Spec => []IInv
BY Initially, StepKeeps, PTL DEF Spec

\* The segment that is copied next lies inside the device, and the request function
\* has a request only while it runs.
THEOREM TypeCorrect == Spec => []TypeOK
<1>1. IInv => TypeOK
  <2> SUFFICES ASSUME IInv PROVE TypeOK
    OBVIOUS
  <2>1. CASE slot = NoSlot
    BY <2>1, SlotsAssumption DEF IInv, Disks, Queueing, Serving, TypeOK, NoReq
  <2>2. CASE slot # NoSlot
    <3>1. Cut(req) /\ slot \in Slots /\ running
      BY <2>2 DEF IInv, Serving
    <3>2. \A i \in 1..Len(req.segs) : req.at + req.segs[i] <= Sectors
      <4>1. \A i \in 1..Len(req.segs) : i = 1 \/ (i = 2 /\ Len(req.segs) = 2)
        <5>1. \A n \in {1, 2} : \A i \in 1..n : i = 1 \/ (i = 2 /\ n = 2)
          OBVIOUS
        <5>2. Len(req.segs) \in {1, 2}
          BY <2>2, Served
        <5> QED
          BY <5>1, <5>2, Zenon
      <4>2. /\ req.at + req.segs[1] <= Sectors
            /\ Len(req.segs) = 2 => req.at + req.segs[2] <= Sectors
        BY <2>2, Served, SMTT(30)
      <4> QED
        BY <4>1, <4>2, Zenon
    <3>3. req # NoReq
      BY <2>2, Served DEF NoReq
    <3> QED
      BY <2>2, <3>1, <3>2, <3>3 DEF IInv, Disks, Queueing, TypeOK
  <2> QED
    BY <2>1, <2>2
<1> QED
  BY <1>1, Invariance, PTL

-----------------------------------------------------------------------------
(***************************************************************************)
(* The refinement: fetching a request carries it out, and the turns of the *)
(* loop are stuttering steps.                                              *)
(***************************************************************************)

disk    == IF slot = NoSlot THEN p_ramblock_buf ELSE Written(p_ramblock_buf, req.rq)
todo    == [k \in Slots |-> queue[k].rq]
carried == [k \in Slots |-> IF k = slot THEN Filled(p_ramblock_buf, req.rq) ELSE done[k]]

\* The instance's operators are those of DiskReq.
LEMMA SameRequests ==
  /\ D!None = None /\ D!Requests = Requests
  /\ \A d, r : D!Written(d, r) = Written(d, r) /\ D!Filled(d, r) = Filled(d, r)
BY DEF D!None, None, D!Requests, Requests, D!Written, Written, D!Covers, Covers, D!Filled, Filled

LEMMA InitMaps == Init => D!Init
<1> SUFFICES ASSUME Init PROVE D!Init
  OBVIOUS
<1>1. disk = p_ramblock_buf /\ carried = done
  BY SlotsAssumption DEF Init, disk, carried, NoSlot
<1>2. todo = [k \in Slots |-> None]
  BY DEF Init, todo, NoReq
<1> QED
  BY <1>1, <1>2, SameRequests DEF Init, D!Init, disk, todo, carried

LEMMA SubmitMaps == ASSUME IInv, NEW k \in Slots, Submit(k) PROVE D!Queue(k)
<1>1. PICK q \in Queued : queue' = [queue EXCEPT ![k] = q]
  BY DEF Submit
<1>2. slot = NoSlot /\ slot' = NoSlot /\ NoSlot \notin Slots
  BY SlotsAssumption DEF IInv, Serving, Submit, NoSlot
<1>3. todo[k] = None /\ q.rq \in Requests
  BY <1>1, QueuedIsCut DEF Submit, todo, NoReq
<1>4. todo' = [todo EXCEPT ![k] = q.rq]
  BY <1>1 DEF IInv, Queueing, todo
<1>5. carried' = [carried EXCEPT ![k] = None]
  BY <1>2 DEF IInv, Answers, Submit, carried
<1>6. disk' = disk
  BY <1>2 DEF Submit, disk
<1> QED
  BY <1>3, <1>4, <1>5, <1>6, SameRequests DEF D!Queue, disk, todo, carried

LEMMA FetchMaps == ASSUME IInv, NEW k \in Slots, blk_fetch_request(k) PROVE D!Carry(k)
<1>1. /\ slot = NoSlot /\ slot' = k /\ NoSlot \notin Slots
      /\ req' = queue[k] /\ queue' = [queue EXCEPT ![k] = NoReq]
      /\ UNCHANGED <<p_ramblock_buf, done>>
  BY SlotsAssumption DEF blk_fetch_request, NoSlot
<1>2. todo[k] = queue[k].rq /\ todo[k] # None
  BY NoneIsQueued, QueuedIsCut DEF IInv, Queueing, todo, blk_fetch_request
<1>3. todo' = [todo EXCEPT ![k] = None]
  BY <1>1 DEF IInv, Queueing, todo, NoReq
<1>4. disk' = Written(disk, todo[k])
  BY <1>1, <1>2 DEF disk
<1>5. carried' = [carried EXCEPT ![k] = Filled(disk, todo[k])]
  BY <1>1, <1>2 DEF disk, carried
<1> QED
  BY <1>2, <1>3, <1>4, <1>5, SameRequests DEF D!Carry, disk, todo, carried

LEMMA CopyMaps == ASSUME IInv, do_ramblock_request PROVE UNCHANGED <<disk, todo, carried>>
<1>1. slot # NoSlot /\ slot \in Slots /\ NoSlot \notin Slots /\ UNCHANGED queue
  BY SlotsAssumption DEF IInv, Serving, do_ramblock_request, NoSlot
<1>2. UNCHANGED todo
  BY <1>1 DEF todo
<1>3. CASE Len(req.segs) = 1
  <2>1. /\ p_ramblock_buf' = Written(p_ramblock_buf, req.rq) /\ slot' = NoSlot
        /\ done' = [done EXCEPT ![slot] = Filled(p_ramblock_buf, req.rq)]
    BY <1>3, LastTurn
  <2>2. UNCHANGED disk
    BY <1>1, <2>1 DEF disk
  <2>3. UNCHANGED carried
    BY <1>1, <2>1 DEF IInv, Answers, carried
  <2> QED
    BY <1>2, <2>2, <2>3
<1>4. CASE Len(req.segs) # 1
  BY <1>1, <1>2, <1>4, OtherTurn DEF disk, carried
<1> QED
  BY <1>3, <1>4

LEMMA StepMaps == IInv /\ [Next]_vars => [D!Next]_D!vars
<1> SUFFICES ASSUME IInv, [Next]_vars PROVE [D!Next]_D!vars
  OBVIOUS
<1>0. UNCHANGED <<disk, todo, carried>> => UNCHANGED D!vars
  BY DEF D!vars, disk, todo, carried
<1>1. CASE do_ramblock_request
  BY <1>0, <1>1, CopyMaps
<1>2. CASE Leave
  BY <1>0, <1>2 DEF Leave, disk, todo, carried
<1>3. ASSUME NEW k \in Slots, Submit(k) PROVE D!Next
  BY <1>3, SubmitMaps DEF D!Next
<1>4. ASSUME NEW k \in Slots, blk_fetch_request(k) PROVE D!Next
  BY <1>4, FetchMaps DEF D!Next
<1>5. CASE UNCHANGED vars
  BY <1>0, <1>5 DEF vars, disk, todo, carried
<1> QED
  BY <1>1, <1>2, <1>3, <1>4, <1>5 DEF Next

\* The safety part of CarriesOut: the driver implements the abstract disk, on which
\* every request is carried out as a whole, in one step (its liveness part stays
\* with TLC).
THEOREM CarriesOutSafely == Spec => D!Init /\ [][D!Next]_D!vars
BY InitMaps, StepMaps, Invariance, PTL DEF Spec
=============================================================================
