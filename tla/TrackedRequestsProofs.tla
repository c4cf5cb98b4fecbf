----------------------- MODULE TrackedRequestsProofs -----------------------
(***************************************************************************)
(* The safety of the serialisation of requests, for any requests, image    *)
(* size, alignment and cluster size: a serialising request is alone in the *)
(* driver, nobody waits in a circle, the code's assertions hold, and no    *)
(* read-modify-write cycle undoes another request's write.                 *)
(***************************************************************************)
EXTENDS TrackedRequests, Cardinalities, TLAPS

(* The alignment with which a request is marked, if it is.                 *)
Grain(r) == IF work[r].op = "cor" THEN Cluster ELSE Align

(* What mark_request_serialising makes of the tracked span.                *)
Widened(r) ==
    LET b == Begins(r)
        off == Down(b.off, Grain(r))
    IN  [off |-> off, len |-> Up(b.off + b.len, Grain(r)) - off]

Ends(x) == x.off + x.len

(* The list holds every request under way, once.                           *)
Listed ==
    /\ \A i, j \in DOMAIN tracked : tracked[i] = tracked[j] => i = j
    /\ \A r \in Requests : r \in Range(tracked) <=> pc[r] \notin {"new", "done"}

(* waiting_for is set from the wait until the coroutine runs again.        *)
WaitsFor ==
    \A r \in Requests : waiting_for[r] # NULL <=> pc[r] \in {"waiting", "woken"}

(* A request serialises from its first call with padding on, and is then   *)
(* tracked with the widened span for good: marking it again changes        *)
(* nothing.                                                                *)
Marked ==
    \A r \in Requests :
        /\ phase[r] \in DOMAIN Calls(work[r])
        /\ pc[r] = "new" => phase[r] = 1
        /\ serialising[r] <=>
               pc[r] # "new" /\ \E k \in 1 .. phase[r] : Calls(work[r])[k].mark > 0
        /\ overlap[r] = IF serialising[r] THEN Widened(r) ELSE Begins(r)

(* A serialising request waits only before the call that made it one.      *)
WaitsOnce ==
    \A r \in Requests : pc[r] \in {"waiting", "woken"} /\ serialising[r] =>
        /\ Present(r).mark > 0
        /\ \A k \in 1 .. phase[r] - 1 : Calls(work[r])[k].mark = 0

(* What a request has read around its own span is what the image holds,    *)
(* until it has written it back.                                           *)
FreshAt(r, u) ==
    /\ InDriver(r) /\ ~Covers(Own(r), u) =>
           \A k \in 1 .. phase[r] - 1 :
               Calls(work[r])[k].io = "read" /\ Covers(Calls(work[r])[k].span, u) =>
                   buf[r][u] = disk[u]
    /\ pc[r] = "copying" =>
           (Covers(Clusters(r), u) => buf[r][u] = disk[u])

Fresh == \A r \in Requests, u \in Units : FreshAt(r, u)

(* Somebody copies a cluster only for a copy on read.                      *)
CopiesOnRead == \A r \in Requests : pc[r] = "copying" => work[r].op = "cor"

(* The part of the invariant that says who is where.                       *)
CoreTypeOK ==
    /\ work \in Workloads /\ pc \in [Requests -> Places] /\ phase \in [Requests -> Nat]
    /\ tracked \in Seq(Requests) /\ in_flight \in Nat
    /\ serialising \in [Requests -> BOOLEAN] /\ overlap \in [Requests -> Extents]
    /\ waiting_for \in [Requests -> Requests \cup {NULL}]

Core ==
    /\ CoreTypeOK /\ Listed /\ WaitsFor /\ SerialisingCounted /\ Marked /\ WaitsOnce
    /\ SerialisingAlone /\ NoWaitCycle

(* The part that says what the image and the buffers hold.                 *)
DataOK ==
    /\ disk \in [Units -> Requests \cup {NULL}] /\ allocated \subseteq Units
    /\ buf \in [Requests -> [Units -> Requests \cup {NULL}]]

(* The inductive invariant.                                                *)
IInv == Core /\ DataOK /\ CopiesOnRead /\ Fresh

-----------------------------------------------------------------------------
(* Rounding, as the head, the tail and the clusters of a request are.      *)

-----------------------------------------------------------------------------
(* The driver calls of a request.                                          *)
CallSet == [io : {"read", "write"}, mark : Nat, span : [lo : Nat, hi : Nat]]

(* bdrv_co_do_pwritev: the head if the start is not aligned (h = 1), the   *)
(* tail if the end is not (t = 1), and everything.                         *)
WriteForm(w, C, h, t) ==
    /\ C \in Seq(CallSet) /\ Len(C) = h + t + 1
    /\ h = 1 <=> w.off % Align # 0
    /\ t = 1 <=> (w.off + w.len) % Align # 0
    /\ h = 1 => C[1] = ReadBlock(w.off)
    /\ t = 1 => C[h + 1] = ReadBlock(w.off + w.len)
    /\ C[h + t + 1] = Call("write", 0, Down(w.off, Align), Up(w.off + w.len, Align))

(* bdrv_co_do_zero_pwritev: the block of the start is read and written if  *)
(* the start is not aligned (a = 2), then the aligned middle is written    *)
(* (b = 1), then the block where it ends is read and written if the end is *)
(* not aligned (c = 2).                                                    *)
ZeroForm(w, C, a, b, c, off, mid) ==
    /\ C \in Seq(CallSet) /\ Len(C) = a + b + c /\ a + b + c >= 1
    /\ w.off <= off /\ off + mid <= w.off + w.len
    /\ a = 2 => C[1] = ReadBlock(w.off) /\ C[2] = WriteBlock(w.off)
    /\ b = 1 => C[a + 1] = Call("write", 0, off, off + mid)
    /\ c = 2 => /\ off + mid < w.off + w.len
                /\ C[a + b + 1] = ReadBlock(off + mid)
                /\ C[a + b + 2] = WriteBlock(off + mid)

-----------------------------------------------------------------------------
(* What is used of the k-th of the calls C of r: a read of a request that  *)
(* writes is marked, a call is inside the widened span, a write without a  *)
(* mark before it is inside the request, and what a write writes outside   *)
(* of it has been read by a call before.                                   *)
CallOK(r, C, k) ==
    /\ C[k].mark \in {0, Grain(r)}
    /\ C[k].mark > 0 => C[k].io = "read"
    /\ ~IsRead(r) /\ C[k].io = "read" => C[k].mark > 0
    /\ C[k].io = "write" => ~IsRead(r)
    /\ work[r].op = "write" /\ k > 1 => C[1].mark > 0
    /\ Widened(r).off <= C[k].span.lo /\ C[k].span.hi <= Ends(Widened(r))
    /\ C[k].io = "write" /\ (\A j \in 1 .. k : C[j].mark = 0) =>
           Begins(r).off <= C[k].span.lo /\ C[k].span.hi <= Ends(Begins(r))
    /\ C[k].io = "write" =>
           \A u \in Nat : Covers(C[k].span, u) /\ ~Covers(Own(r), u) =>
               \E j \in 1 .. k - 1 : C[j].io = "read" /\ Covers(C[j].span, u)

(* What is known of a request before it arrives: the span tracked of it,   *)
(* before and after it is marked, and its calls.                           *)
ExtentsOK(r) ==
    LET w == work[r]
        B == Begins(r)
        W == Widened(r)
    IN  /\ w \in Work /\ Grain(r) \in Nat \ {0}
        /\ B \in Extents /\ W \in Extents
        /\ W.off <= B.off /\ Ends(B) <= Ends(W)
        /\ W.off = Down(B.off, Grain(r)) /\ Ends(W) = Up(Ends(B), Grain(r))
        /\ IsRead(r) => B.off = Down(w.off, Align) /\ Ends(B) = Up(w.off + w.len, Align)
        /\ ~IsRead(r) => B.off = w.off /\ Ends(B) = w.off + w.len

CallsOK(r) ==
    LET C == Calls(work[r]) IN
    /\ C \in Seq(CallSet) /\ Len(C) >= 1 /\ DOMAIN C = 1 .. Len(C)
    /\ \A k \in 1 .. Len(C) : CallOK(r, C, k) /\ C[k] \in CallSet
    /\ IsRead(r) => /\ Len(C) = 1
                    /\ C[1].io = "read" /\ (C[1].mark > 0 <=> work[r].op = "cor")
                    /\ C[1].span.lo = Begins(r).off /\ C[1].span.hi = Ends(Begins(r))

(* c is the list x, then y, then z.                                        *)
Joined(c, x, y, z) ==
    /\ c \in Seq(CallSet) /\ Len(c) = Len(x) + Len(y) + Len(z)
    /\ \A i \in 1 .. Len(x) : c[i] = x[i]
    /\ \A i \in 1 .. Len(y) : c[Len(x) + i] = y[i]
    /\ \A i \in 1 .. Len(z) : c[Len(x) + Len(y) + i] = z[i]

(* What a request that enters changes: it serialises once it is marked,    *)
(* with the widened span, and the others keep theirs.                      *)
Enters(r, k, list) ==
    /\ serialising'[r] <=> (serialising[r] \/ Calls(work[r])[k].mark > 0)
    /\ \A s \in Requests \ {r} : /\ serialising'[s] = serialising[s]
                                 /\ overlap'[s] = overlap[s]
    /\ overlap'[r] = IF serialising'[r] THEN Widened(r) ELSE Begins(r)
    /\ serialising[r] => overlap'[r] = overlap[r]
    /\ in_flight' = IF serialising'[r] /\ ~serialising[r] THEN in_flight + 1 ELSE in_flight
    /\ serialising' \in [Requests -> BOOLEAN] /\ overlap' \in [Requests -> Extents]
    /\ phase' = [phase EXCEPT ![r] = k] /\ tracked' = list

(* The spans and the calls of every request are as they should be.         *)
LEMMA WorkOK ==
    work \in Workloads => \A r \in Requests : ExtentsOK(r) /\ CallsOK(r)
(* A smaller multiple is smaller by the grain at least.                    *)
<1>Multiples.
    ASSUME NEW p \in Int, NEW q \in Int, NEW a \in Nat \ {0}
    PROVE  /\ p < q => p * a + a <= q * a
           /\ p <= q => p * a <= q * a
           /\ p * a < q * a => p < q
  OBVIOUS

(* Rounding down loses less than the grain.                                *)
<1>DownFacts.
    ASSUME NEW n \in Nat, NEW a \in Nat \ {0}
    PROVE  Down(n, a) \in Nat /\ Down(n, a) <= n /\ n < Down(n, a) + a
  BY DEF Down

(* It gives a multiple of the grain.                                       *)
<1>DownIs.
    ASSUME NEW n \in Nat, NEW a \in Nat \ {0}
    PROVE  n \div a \in Nat /\ Down(n, a) = (n \div a) * a
  BY DEF Down

(* Rounding down keeps the order.                                          *)
<1>DownMonotonic.
    ASSUME NEW m \in Nat, NEW n \in Nat, NEW a \in Nat \ {0}, m <= n
    PROVE  Down(m, a) <= Down(n, a)
  <2> USE <1>DownMonotonic
  <2> DEFINE p == m \div a
             q == n \div a
  <2>1. p \in Nat /\ q \in Nat /\ p * a <= m /\ n < q * a + a
    BY <1>DownFacts, <1>DownIs
  <2>2. q < p => q * a + a <= p * a
    BY <2>1, <1>Multiples
  <2>3. p <= q => p * a <= q * a
    BY <2>1, <1>Multiples
  <2>4. Down(m, a) = p * a /\ Down(n, a) = q * a
    BY <1>DownIs, Zenon
  <2> HIDE DEF p, q
  <2>5. ~(q < p)
    BY <2>1, <2>2
  <2> QED BY <2>1, <2>3, <2>4, <2>5

(* A multiple of the grain is rounded to itself.                           *)
<1>DownExact.
    ASSUME NEW n \in Nat, NEW a \in Nat \ {0}
    PROVE  /\ n % a = 0 => Down(n, a) = n
           /\ n % a # 0 => Down(n, a) < n
           /\ Down(Down(n, a), a) = Down(n, a)
  <2>1. n % a = 0 => n = (n \div a) * a
    OBVIOUS
  <2>2. n = (n \div a) * a => n % a = 0
    OBVIOUS
  <2>3. Down(n, a) = (n \div a) * a /\ Down(n, a) \in Nat /\ Down(n, a) <= n
    BY <1>DownFacts, <1>DownIs, Zenon
  <2>4. n % a = 0 <=> Down(n, a) = n
    BY <2>1, <2>2, <2>3, Zenon
  <2>5. n % a # 0 => Down(n, a) < n
    <3>1. n % a # 0 => Down(n, a) # n
      BY <2>4, Zenon
    <3> QED BY <2>3, <3>1
  <2>6. Down(Down(n, a), a) = Down(n, a)
    <3> DEFINE d == Down(n, a)
               p == n \div a
               q == d \div a
    <3>1. p \in Nat /\ d = p * a /\ d \in Nat
      BY <1>DownFacts, <1>DownIs, Zenon
    <3>2. q \in Nat /\ Down(d, a) = q * a /\ Down(d, a) <= d /\ d < Down(d, a) + a
      BY <3>1, <1>DownFacts, <1>DownIs, Zenon
    <3> HIDE DEF d, p, q
    <3>3. q < p => q * a + a <= p * a
      BY <3>1, <3>2, <1>Multiples
    <3>4. p < q => p * a + a <= q * a
      BY <3>1, <3>2, <1>Multiples
    <3>5. ~(q < p) /\ ~(p < q)
      <4> DEFINE pa == p * a
                 qa == q * a
      <4>1. pa \in Int /\ qa \in Int /\ qa <= pa /\ pa < qa + a
        BY <3>1, <3>2
      <4>2. (q < p => qa + a <= pa) /\ (p < q => pa + a <= qa)
        BY <3>3, <3>4, Zenon
      <4> HIDE DEF pa, qa
      <4> QED BY <4>1, <4>2
    <3>6. p = q
      BY <3>1, <3>2, <3>5
    <3> QED BY <3>1, <3>2, <3>6, Zenon DEF d
  <2> QED BY <2>4, <2>5, <2>6, Zenon

(* Rounding up adds less than the grain, and no more than it takes.        *)
<1>UpFacts.
    ASSUME NEW n \in Nat, NEW a \in Nat \ {0}
    PROVE  /\ Up(n, a) \in Nat /\ n <= Up(n, a) /\ Up(n, a) <= Down(n, a) + a
           /\ n % a = 0 => Up(n, a) = n
  <2> DEFINE x == n + a - 1
             p == n \div a
             q == x \div a
  <2>1. x \in Nat /\ Up(n, a) = Down(x, a)
    BY DEF Up
  <2>2. /\ p \in Nat /\ q \in Nat /\ Down(n, a) = p * a /\ Down(x, a) = q * a
        /\ n < p * a + a /\ q * a <= x /\ x < q * a + a
    <3>1. p \in Nat /\ q \in Nat /\ Down(n, a) = p * a /\ Down(x, a) = q * a
      BY <2>1, <1>DownIs, Zenon
    <3>2. n < Down(n, a) + a /\ Down(x, a) <= x /\ x < Down(x, a) + a
      BY <2>1, <1>DownFacts, Zenon
    <3> QED BY <3>1, <3>2, Zenon
  <2>3. q > p + 1 => (p + 1) * a + a <= q * a
    BY <2>2, <1>Multiples
  <2>4. (p + 1) * a = p * a + a
    BY <2>2
  <2>5. p + 1 >= q => q * a <= (p + 1) * a
    BY <2>2, <1>Multiples
  <2>6. p < q => p * a + a <= q * a
    BY <2>2, <1>Multiples
  <2>7. n % a = 0 => p * a = n
    BY <2>2, <1>DownExact, Zenon
  <2>8. q <= p => q * a <= p * a
    BY <2>2, <1>Multiples
  <2> HIDE DEF x, p, q
  <2>9. x = n + a - 1
    BY DEF x
  <2>10. Up(n, a) \in Nat /\ n <= Up(n, a)
    BY <2>1, <2>2, <2>9, <1>DownFacts
  <2>11. Up(n, a) <= Down(n, a) + a
    BY <2>1, <2>2, <2>3, <2>4, <2>5, <2>9
  <2>12. ASSUME n % a = 0 PROVE Up(n, a) = n
    <3> DEFINE pa == p * a
               qa == q * a
    <3>1. pa = n /\ qa <= x /\ Up(n, a) = qa /\ (p < q => pa + a <= qa) /\ (q <= p => qa <= pa)
      BY <2>1, <2>2, <2>6, <2>7, <2>8, <2>12, Zenon
    <3>2. pa \in Int /\ qa \in Int
      BY <2>2
    <3> HIDE DEF pa, qa
    <3> QED BY <2>2, <2>9, <2>10, <3>1, <3>2
  <2> QED BY <2>10, <2>11, <2>12

(* Rounding up keeps the order, and stays below a bound that is a multiple *)
(* of the grain; the block of a smaller position ends within.              *)
<1>UpBounds.
    ASSUME NEW m \in Nat, NEW n \in Nat, NEW a \in Nat \ {0}
    PROVE  /\ m <= n => Up(m, a) <= Up(n, a)
           /\ m <= n /\ n % a = 0 => Up(m, a) <= n
           /\ m < n => Down(m, a) + a <= Up(n, a)
  <2>1. m <= n => Up(m, a) <= Up(n, a)
    BY <1>DownMonotonic DEF Up
  <2>2. m <= n /\ n % a = 0 => Up(m, a) <= n
    BY <2>1, <1>UpFacts
  <2>3. ASSUME m < n PROVE Down(m, a) + a <= Up(n, a)
    <3> DEFINE p == m \div a
               x == n + a - 1
               q == x \div a
    <3>0. x \in Nat /\ Up(n, a) = Down(x, a) /\ n <= Up(n, a)
      BY <1>UpFacts DEF Up
    <3>1. /\ p \in Nat /\ q \in Nat /\ Down(m, a) = p * a /\ Up(n, a) = q * a
          /\ p * a <= m /\ n <= q * a
      <4>1. p \in Nat /\ q \in Nat /\ Down(m, a) = p * a /\ Down(x, a) = q * a
        BY <3>0, <1>DownIs, Zenon
      <4>2. Down(m, a) <= m
        BY <1>DownFacts, Zenon
      <4> QED BY <3>0, <4>1, <4>2, Zenon
    <3>2. p * a < q * a
      BY <2>3, <3>1
    <3>3. p * a + a <= q * a
      BY <3>1, <3>2, <1>Multiples
    <3> QED BY <3>1, <3>3
  <2> QED BY <2>1, <2>2, <2>3

(* The same of three lists.                                                *)
<1>JoinThree.
    ASSUME NEW x \in Seq(CallSet), NEW y \in Seq(CallSet), NEW z \in Seq(CallSet)
    PROVE  Joined(x \o y \o z, x, y, z)
(* Where the entries of joined lists are.                                  *)
  <2>JoinTwo.
      ASSUME NEW xx \in Seq(CallSet), NEW yy \in Seq(CallSet)
      PROVE  /\ xx \o yy \in Seq(CallSet) /\ Len(xx \o yy) = Len(xx) + Len(yy)
             /\ \A i \in 1 .. Len(xx) : (xx \o yy)[i] = xx[i]
             /\ \A i \in 1 .. Len(yy) : (xx \o yy)[Len(xx) + i] = yy[i]
    OBVIOUS

  <2> DEFINE xy == x \o y
             c == xy \o z
  <2>1. /\ xy \in Seq(CallSet) /\ Len(xy) = Len(x) + Len(y)
        /\ \A i \in 1 .. Len(x) : xy[i] = x[i]
        /\ \A i \in 1 .. Len(y) : xy[Len(x) + i] = y[i]
    BY <2>JoinTwo, Zenon
  <2>2. Len(x) \in Nat /\ Len(y) \in Nat /\ Len(z) \in Nat
    OBVIOUS
  <2> HIDE DEF xy
  <2>3. /\ c \in Seq(CallSet) /\ Len(c) = Len(xy) + Len(z)
        /\ \A i \in 1 .. Len(xy) : c[i] = xy[i]
        /\ \A i \in 1 .. Len(z) : c[Len(xy) + i] = z[i]
    BY <2>1, <2>JoinTwo, Zenon
  <2> HIDE DEF c
  <2>4. \A i \in 1 .. Len(x) : c[i] = x[i]
    BY <2>1, <2>2, <2>3
  <2>5. \A i \in 1 .. Len(y) : c[Len(x) + i] = y[i]
    BY <2>1, <2>2, <2>3
  <2>6. \A i \in 1 .. Len(z) : c[Len(x) + Len(y) + i] = z[i]
    BY <2>1, <2>2, <2>3
  <2>7. c \in Seq(CallSet) /\ Len(c) = Len(x) + Len(y) + Len(z)
    BY <2>1, <2>3, Zenon
  <2>8. Joined(c, x, y, z)
    BY <2>4, <2>5, <2>6, <2>7, Zenon DEF Joined
  <2> QED BY <2>8, Zenon DEF c, xy

(* The constants and the work of a request.                                *)
<1>WorkFacts.
    ASSUME NEW w \in Work
    PROVE  /\ w.op \in Ops /\ w.off \in Nat /\ w.len \in Nat /\ w.len >= 1
           /\ w.off + w.len <= Size
           /\ Size \in Nat /\ Align \in Nat \ {0} /\ Cluster \in Nat \ {0}
           /\ Size % Align = 0 /\ Size % Cluster = 0
  BY TrackedAssumption DEF Work

(* The read and the write of the block that holds a position.              *)
<1>BlockFacts.
    ASSUME NEW n \in Nat
    PROVE  /\ ReadBlock(n) \in CallSet /\ WriteBlock(n) \in CallSet
           /\ ReadBlock(n).io = "read" /\ ReadBlock(n).mark = Align
           /\ WriteBlock(n).io = "write" /\ WriteBlock(n).mark = 0
           /\ ReadBlock(n).span.lo = Down(n, Align)
           /\ ReadBlock(n).span.hi = Down(n, Align) + Align
           /\ WriteBlock(n).span = ReadBlock(n).span
  <2>1. Align \in Nat \ {0}
    BY TrackedAssumption
  <2>2. Down(n, Align) \in Nat
    BY <2>1, <1>DownFacts
  <2> QED BY <2>1, <2>2 DEF ReadBlock, WriteBlock, Call, Span, CallSet

(* The calls of a write are of that form.                                  *)
<1>WriteShape.
    ASSUME NEW w \in Work
    PROVE  \E h, t \in {0, 1} : WriteForm(w, WriteCalls(w), h, t)
  <2> DEFINE end == w.off + w.len
             head == IF w.off % Align # 0 THEN <<ReadBlock(w.off)>> ELSE << >>
             tail == IF end % Align # 0 THEN <<ReadBlock(end)>> ELSE << >>
             all == Call("write", 0, Down(w.off, Align), Up(end, Align))
             C == head \o tail \o <<all>>
  <2>1. w.off \in Nat /\ end \in Nat /\ Align \in Nat \ {0}
    BY <1>WorkFacts
  <2>2. ReadBlock(w.off) \in CallSet /\ ReadBlock(end) \in CallSet
    BY <2>1, <1>BlockFacts
  <2>3. all \in CallSet
    <3>1. Down(w.off, Align) \in Nat /\ Up(end, Align) \in Nat
      BY <2>1, <1>DownFacts, <1>UpFacts, Zenon
    <3> QED BY <3>1 DEF Call, Span, CallSet
  <2>4. WriteCalls(w) = C
    BY DEF WriteCalls
  <2> HIDE DEF all
  <2>5. /\ head \in Seq(CallSet) /\ Len(head) \in {0, 1}
        /\ Len(head) = 1 <=> w.off % Align # 0
        /\ Len(head) = 1 => head[1] = ReadBlock(w.off)
    BY <2>2
  <2>6. /\ tail \in Seq(CallSet) /\ Len(tail) \in {0, 1}
        /\ Len(tail) = 1 <=> end % Align # 0
        /\ Len(tail) = 1 => tail[1] = ReadBlock(end)
    BY <2>2
  <2>7. <<all>> \in Seq(CallSet) /\ Len(<<all>>) = 1 /\ <<all>>[1] = all
    BY <2>3
  <2> DEFINE one == <<all>>
  <2>9. C = head \o tail \o one /\ one \in Seq(CallSet) /\ Len(one) = 1 /\ one[1] = all
    BY <2>7, Zenon
  <2> HIDE DEF head, tail, end, one, C
  <2>8. Joined(head \o tail \o one, head, tail, one)
    BY <2>5, <2>6, <2>9, <1>JoinThree, Zenon
  <2>10. Len(head) \in {0, 1} /\ Len(tail) \in {0, 1}
    BY <2>5, <2>6, Zenon
  <2>11. WriteForm(w, C, Len(head), Len(tail))
    BY <2>5, <2>6, <2>8, <2>9 DEF Joined, WriteForm, all, end
  <2> QED BY <2>4, <2>10, <2>11, Zenon

(* The calls of a write of zeroes are of that form.                        *)
<1>ZeroShape.
    ASSUME NEW w \in Work
    PROVE  \E a \in {0, 2}, b \in {0, 1}, c \in {0, 2}, off \in Nat, mid \in Nat :
               ZeroForm(w, ZeroCalls(w), a, b, c, off, mid)
(* A multiple of the grain that is not zero is not below it.               *)
  <2>NotBelow.
      ASSUME NEW n \in Nat, NEW a \in Nat \ {0}, n % a = 0, n < a
      PROVE  n = 0
    <3> USE <2>NotBelow
    <3> DEFINE q == n \div a
    <3>1. q \in Nat /\ n = q * a
      BY <1>DownIs, <1>DownExact, Zenon
    <3> HIDE DEF q
    <3>2. q < 1
      BY <3>1, <1>Multiples
    <3> QED BY <3>1, <3>2

  <2> DEFINE end == w.off + w.len
             pad == w.off % Align
             zeroed == IF pad = 0 THEN 0 ELSE Least(w.len, Align - pad)
             off == w.off + zeroed
             len == w.len - zeroed
             mid == Down(len, Align)
             all == Call("write", 0, off, off + mid)
             x == IF pad # 0 THEN <<ReadBlock(w.off), WriteBlock(w.off)>> ELSE << >>
             y == IF len >= Align THEN <<all>> ELSE << >>
             z == IF len % Align # 0
                  THEN <<ReadBlock(off + mid), WriteBlock(off + mid)>> ELSE << >>
             C == x \o y \o z
  <2>1. w.off \in Nat /\ w.len \in Nat /\ w.len >= 1 /\ Align \in Nat \ {0}
    BY <1>WorkFacts
  <2>2. pad \in 0 .. Align - 1
    BY <2>1
  <2>3. ZeroCalls(w) = C
    BY DEF ZeroCalls
  <2> HIDE DEF pad
  <2>4. zeroed \in Nat /\ zeroed <= w.len /\ (pad = 0 => zeroed = 0)
    BY <2>1, <2>2 DEF Least
  <2> HIDE DEF zeroed
  <2>5. off \in Nat /\ w.off <= off /\ len \in Nat /\ off + len = end /\ end \in Nat
    BY <2>1, <2>4
  <2>6. pad = 0 => len >= 1
    BY <2>1, <2>4
  <2> HIDE DEF off, len, end
  <2>7. mid \in Nat /\ mid <= len /\ (len % Align # 0 => mid < len)
    BY <2>1, <2>5, <1>DownFacts, <1>DownExact, Zenon
  <2>8. len >= 1 => len >= Align \/ len % Align # 0
    BY <2>1, <2>5, <2>NotBelow
  <2> HIDE DEF mid
  <2>9. off + mid \in Nat /\ off + mid <= end /\ (len % Align # 0 => off + mid < end)
    BY <2>5, <2>7
  <2>10. /\ ReadBlock(w.off) \in CallSet /\ WriteBlock(w.off) \in CallSet
         /\ ReadBlock(off + mid) \in CallSet /\ WriteBlock(off + mid) \in CallSet
    BY <2>1, <2>9, <1>BlockFacts
  <2>11. all \in CallSet
    BY <2>5, <2>9 DEF Call, Span, CallSet
  <2> HIDE DEF all
  <2>12. /\ x \in Seq(CallSet) /\ Len(x) \in {0, 2} /\ (pad # 0 => Len(x) = 2)
         /\ Len(x) = 2 => x[1] = ReadBlock(w.off) /\ x[2] = WriteBlock(w.off)
    BY <2>10
  <2>13. /\ y \in Seq(CallSet) /\ Len(y) \in {0, 1} /\ (len >= Align => Len(y) = 1)
         /\ Len(y) = 1 => y[1] = all
    BY <2>11
  <2>14. /\ z \in Seq(CallSet) /\ Len(z) \in {0, 2} /\ (len % Align # 0 <=> Len(z) = 2)
         /\ Len(z) = 2 => z[1] = ReadBlock(off + mid) /\ z[2] = WriteBlock(off + mid)
    BY <2>10
  <2> HIDE DEF x, y, z
  <2>15. /\ C \in Seq(CallSet) /\ Len(C) = Len(x) + Len(y) + Len(z)
         /\ \A i \in 1 .. Len(x) : C[i] = x[i]
         /\ \A i \in 1 .. Len(y) : C[Len(x) + i] = y[i]
         /\ \A i \in 1 .. Len(z) : C[Len(x) + Len(y) + i] = z[i]
    <3>1. x \in Seq(CallSet) /\ y \in Seq(CallSet) /\ z \in Seq(CallSet)
      BY <2>12, <2>13, <2>14
    <3>2. Joined(C, x, y, z)
      BY <3>1, <1>JoinThree, Zenon
    <3> QED BY <3>2, Zenon DEF Joined
  <2> HIDE DEF C
  <2>16. Len(x) + Len(y) + Len(z) >= 1
    BY <2>6, <2>8, <2>12, <2>13, <2>14
  <2>17. Len(x) = 2 => C[1] = ReadBlock(w.off) /\ C[2] = WriteBlock(w.off)
    BY <2>12, <2>15
  <2>18. Len(y) = 1 => C[Len(x) + 1] = all
    BY <2>13, <2>15
  <2>19. Len(z) = 2 => /\ off + mid < end
                       /\ C[Len(x) + Len(y) + 1] = ReadBlock(off + mid)
                       /\ C[Len(x) + Len(y) + 2] = WriteBlock(off + mid)
    BY <2>9, <2>14, <2>15
  <2>20. Len(x) \in {0, 2} /\ Len(y) \in {0, 1} /\ Len(z) \in {0, 2}
    BY <2>12, <2>13, <2>14, Zenon
  <2>21. off \in Nat /\ mid \in Nat
    BY <2>5, <2>7, Zenon
  <2>22. ZeroForm(w, C, Len(x), Len(y), Len(z), off, mid)
    BY <2>5, <2>9, <2>15, <2>16, <2>17, <2>18, <2>19, Zenon DEF all, end, ZeroForm
  <2> QED BY <2>3, <2>20, <2>21, <2>22, Zenon

(* The tracked span before and after the request is marked.                *)
<1>ExtentFacts.
    ASSUME work \in Workloads, NEW r \in Requests
    PROVE  LET w == work[r]
               B == Begins(r)
               W == Widened(r)
           IN  /\ w \in Work /\ Grain(r) \in Nat \ {0}
               /\ B \in Extents /\ W \in Extents
               /\ W.off <= B.off /\ Ends(B) <= Ends(W)
               /\ W.off = Down(B.off, Grain(r)) /\ Ends(W) = Up(Ends(B), Grain(r))
               /\ IsRead(r) => B.off = Down(w.off, Align) /\ Ends(B) = Up(w.off + w.len, Align)
               /\ ~IsRead(r) => B.off = w.off /\ Ends(B) = w.off + w.len
  <2> USE <1>ExtentFacts
  <2> DEFINE w == work[r]
             end == w.off + w.len
             g == Grain(r)
  <2>1. w \in Work
    BY TrackedAssumption
  <2>2. /\ w.off \in Nat /\ w.len \in Nat /\ end \in Nat /\ w.off < end /\ end <= Size
        /\ Size \in Nat /\ Align \in Nat \ {0} /\ Cluster \in Nat \ {0}
        /\ Size % Align = 0 /\ Size % Cluster = 0
    BY <2>1, <1>WorkFacts
  <2>3. g \in Nat \ {0} /\ Size % g = 0
    BY <2>2 DEF Grain
  <2>4. /\ Down(w.off, Align) \in Nat /\ Up(end, Align) \in Nat
        /\ Down(w.off, Align) <= w.off /\ end <= Up(end, Align) /\ Up(end, Align) <= Size
    BY <2>2, <1>DownFacts, <1>UpFacts, <1>UpBounds, Zenon
  <2> HIDE DEF g
  <2>5. /\ Begins(r).off \in Nat /\ Begins(r).len \in Nat
        /\ Begins(r) = [off |-> Begins(r).off, len |-> Begins(r).len]
        /\ Begins(r).off < Ends(Begins(r)) /\ Ends(Begins(r)) <= Size
        /\ Ends(Begins(r)) = Begins(r).off + Begins(r).len
        /\ IsRead(r) => /\ Begins(r).off = Down(w.off, Align)
                        /\ Ends(Begins(r)) = Up(end, Align)
        /\ ~IsRead(r) => Begins(r).off = w.off /\ Ends(Begins(r)) = end
    <3>1. CASE IsRead(r)
      <4>1. Calls(w)[1].span = Span(Down(w.off, Align), Up(end, Align))
        BY <3>1 DEF IsRead, Calls, ReadCalls, Call
      <4>2. Begins(r) = [off |-> Down(w.off, Align), len |-> Up(end, Align) - Down(w.off, Align)]
        BY <3>1, <4>1 DEF Begins, Span
      <4> HIDE DEF w, end
      <4> QED BY <3>1, <4>2, <2>2, <2>4 DEF Ends
    <3>2. CASE ~IsRead(r)
      <4>1. Begins(r) = [off |-> w.off, len |-> end - w.off]
        BY <3>2 DEF Begins, Span, Own
      <4> HIDE DEF w, end
      <4> QED BY <3>2, <4>1, <2>2, <2>4 DEF Ends
    <3> QED BY <3>1, <3>2
  <2> DEFINE o == Begins(r).off
             e == Ends(Begins(r))
  <2>6. Widened(r) = [off |-> Down(o, g), len |-> Up(e, g) - Down(o, g)]
    BY <2>5 DEF Widened, g
  <2>7. o \in Nat /\ e \in Nat /\ o < e /\ e <= Size
    BY <2>5
  <2> HIDE DEF o, e
  <2>8. /\ Down(o, g) \in Nat /\ Down(o, g) <= o /\ Up(e, g) \in Nat /\ e <= Up(e, g)
        /\ Up(e, g) <= Size
    BY <2>2, <2>3, <2>7, <1>DownFacts, <1>UpFacts, <1>UpBounds, Zenon
  <2>9. Widened(r) \in Extents /\ Ends(Widened(r)) = Up(e, g) /\ Widened(r).off = Down(o, g)
    BY <2>2, <2>6, <2>7, <2>8 DEF Extents, Ends
  <2>10. Begins(r) \in Extents
    BY <2>2, <2>5 DEF Extents
  <2> QED BY <2>1, <2>3, <2>5, <2>8, <2>9, <2>10 DEF g, o, e

(* The read of a block of a request that writes.                           *)
<1>ReadBlockOK.
    ASSUME work \in Workloads, NEW r \in Requests, ~IsRead(r),
           NEW k \in Nat \ {0}, NEW n \in Nat,
           Calls(work[r])[k] = ReadBlock(n), k > 1 => work[r].op = "zero" \/ Calls(work[r])[1].mark > 0,
           work[r].off <= n,
           \/ n < work[r].off + work[r].len
           \/ n = work[r].off + work[r].len /\ n % Align # 0
    PROVE  CallOK(r, Calls(work[r]), k)
  <2> USE <1>ReadBlockOK
  <2> DEFINE C == Calls(work[r])
             w == work[r]
             end == w.off + w.len
  <2>1. /\ Grain(r) = Align /\ Align \in Nat \ {0}
        /\ w \in Work /\ w.off \in Nat /\ end \in Nat
        /\ Widened(r).off = Down(w.off, Align) /\ Ends(Widened(r)) = Up(end, Align)
    BY <1>ExtentFacts, <1>WorkFacts DEF Grain, IsRead
  <2>2. /\ C[k].io = "read" /\ C[k].mark = Align
        /\ C[k].span.lo = Down(n, Align) /\ C[k].span.hi = Down(n, Align) + Align
    BY <1>BlockFacts
  <2>3. Down(w.off, Align) <= Down(n, Align)
    BY <2>1, <1>DownMonotonic
  <2>4. Down(n, Align) + Align <= Up(end, Align)
    <3>1. CASE n < end
      BY <2>1, <3>1, <1>UpBounds
    <3>2. CASE n = end /\ n % Align # 0
      <4>1. Down(n, Align) < n /\ Down(n, Align) \in Nat
        BY <2>1, <3>2, <1>DownExact, <1>DownFacts, Zenon
      <4>2. Down(Down(n, Align), Align) + Align <= Up(end, Align)
        BY <2>1, <3>2, <4>1, <1>UpBounds
      <4>3. Down(Down(n, Align), Align) = Down(n, Align)
        BY <2>1, <1>DownExact, Zenon
      <4> QED BY <4>2, <4>3
    <3> QED BY <3>1, <3>2
  <2>5. work[r].op = "write" /\ k > 1 => C[1].mark > 0
    OBVIOUS
  <2> QED BY <2>1, <2>2, <2>3, <2>4, <2>5 DEF CallOK

(* The write of a block after it was read.                                 *)
<1>WriteBlockOK.
    ASSUME work \in Workloads, NEW r \in Requests, work[r].op = "zero",
           NEW k \in Nat \ {0}, NEW n \in Nat,
           Calls(work[r])[k] = ReadBlock(n), Calls(work[r])[k + 1] = WriteBlock(n), CallOK(r, Calls(work[r]), k)
    PROVE  CallOK(r, Calls(work[r]), k + 1)
  <2> USE <1>WriteBlockOK
  <2> DEFINE C == Calls(work[r])
  <2>1. /\ C[k + 1].io = "write" /\ C[k + 1].mark = 0 /\ C[k + 1].span = C[k].span
        /\ C[k].io = "read" /\ C[k].mark = Align /\ Align \in Nat \ {0}
    BY <1>BlockFacts, TrackedAssumption
  <2>2. ~IsRead(r) /\ k \in 1 .. (k + 1) /\ k \in 1 .. (k + 1) - 1
    BY DEF IsRead
  <2>3. ~(\A j \in 1 .. k + 1 : C[j].mark = 0)
    BY <2>1, <2>2
  <2>4. \A u \in Nat : Covers(C[k + 1].span, u) =>
            \E j \in 1 .. (k + 1) - 1 : C[j].io = "read" /\ Covers(C[j].span, u)
    BY <2>1, <2>2, Zenon
  <2>5. Widened(r).off <= C[k + 1].span.lo /\ C[k + 1].span.hi <= Ends(Widened(r))
    BY <2>1, Zenon DEF CallOK
  <2> QED BY <2>1, <2>2, <2>3, <2>4, <2>5 DEF CallOK

(* The calls of a read: one, of the aligned span that is tracked.          *)
<1>ReadsOK.
    ASSUME work \in Workloads, NEW r \in Requests, IsRead(r)
    PROVE  LET C == Calls(work[r]) IN
           /\ C \in Seq(CallSet) /\ Len(C) = 1 /\ CallOK(r, C, 1)
           /\ C[1].io = "read" /\ (C[1].mark > 0 <=> work[r].op = "cor")
           /\ C[1].span.lo = Begins(r).off /\ C[1].span.hi = Ends(Begins(r))
  <2> USE <1>ReadsOK
  <2> DEFINE w == work[r]
             lo == Down(w.off, Align)
             hi == Up(w.off + w.len, Align)
             c == Call("read", IF w.op = "cor" THEN Cluster ELSE 0, lo, hi)
             C == <<c>>
  <2>1. Calls(w) = C
    BY DEF Calls, IsRead, ReadCalls
  <2>2. /\ Begins(r).off = lo /\ Ends(Begins(r)) = hi /\ w \in Work
        /\ Widened(r).off <= lo /\ hi <= Ends(Widened(r))
    BY <1>ExtentFacts
  <2>3. w.off \in Nat /\ w.off + w.len \in Nat /\ Align \in Nat \ {0} /\ Cluster \in Nat \ {0}
    BY <2>2, <1>WorkFacts
  <2>4. lo \in Nat /\ hi \in Nat
    BY <2>3, <1>DownFacts, <1>UpFacts, Zenon
  <2> HIDE DEF lo, hi
  <2>5. /\ c.io = "read" /\ c.mark \in {0, Grain(r)} /\ (c.mark > 0 <=> w.op = "cor")
        /\ c.span.lo = lo /\ c.span.hi = hi /\ c \in CallSet
    BY <2>3, <2>4 DEF Call, Span, CallSet, Grain
  <2> HIDE DEF c
  <2>6. C \in Seq(CallSet) /\ Len(C) = 1 /\ C[1] = c
    BY <2>5
  <2> HIDE DEF C
  <2>7. work[r].op # "write"
    BY DEF IsRead
  <2>8. CallOK(r, C, 1)
    BY <2>2, <2>5, <2>6, <2>7, Zenon DEF CallOK
  <2> QED BY <2>1, <2>2, <2>5, <2>6, <2>8, Zenon

(* The calls of a write.                                                   *)
<1>WritesOK.
    ASSUME work \in Workloads, NEW r \in Requests, work[r].op = "write"
    PROVE  LET C == Calls(work[r]) IN
           C \in Seq(CallSet) /\ Len(C) >= 1 /\ \A k \in 1 .. Len(C) : CallOK(r, C, k)
  <2> USE <1>WritesOK
  <2> DEFINE w == work[r]
             end == w.off + w.len
             C == Calls(w)
  <2>1. C = WriteCalls(w)
    BY DEF Calls
  <2>2. w \in Work /\ ~IsRead(r)
    BY <1>ExtentFacts DEF IsRead
  <2>3. PICK h \in {0, 1}, t \in {0, 1} : WriteForm(w, C, h, t)
    BY <2>1, <2>2, <1>WriteShape, Zenon
  <2>4. /\ w.off \in Nat /\ end \in Nat /\ Align \in Nat \ {0} /\ w.off < end
    BY <2>2, <1>WorkFacts
  <2>5. /\ Widened(r).off = Down(w.off, Align) /\ Ends(Widened(r)) = Up(end, Align)
        /\ Begins(r).off = w.off /\ Ends(Begins(r)) = end
        /\ Own(r).lo = w.off /\ Own(r).hi = end
    BY <2>2, <1>ExtentFacts DEF Grain, Own, Span
  <2> HIDE DEF C
  <2>6. ASSUME h = 1 PROVE C[1] = ReadBlock(w.off) /\ C[1].mark > 0 /\ CallOK(r, C, 1)
    <3>1. C[1] = ReadBlock(w.off)
      BY <2>3, <2>6, Zenon DEF WriteForm
    <3>2. C[1].mark > 0
      BY <2>4, <3>1, <1>BlockFacts
    <3>3. ~(1 > 1) /\ w.off <= w.off /\ 1 \in Nat \ {0}
      BY <2>4
    <3>4. CallOK(r, C, 1)
      BY <2>2, <2>4, <3>1, <3>3, <1>ReadBlockOK, Zenon DEF C
    <3> QED BY <3>1, <3>2, <3>4
  <2>7. ASSUME t = 1
        PROVE  C[h + 1] = ReadBlock(end) /\ C[h + 1].mark > 0 /\ CallOK(r, C, h + 1)
    <3>1. C[h + 1] = ReadBlock(end) /\ end % Align # 0
      BY <2>3, <2>7, Zenon DEF WriteForm
    <3>2. C[h + 1].mark > 0
      BY <2>4, <3>1, <1>BlockFacts
    <3>3. h + 1 > 1 => C[1].mark > 0
      BY <2>6
    <3>4. CallOK(r, C, h + 1)
      BY <2>2, <2>4, <3>1, <3>3, <1>ReadBlockOK DEF C
    <3> QED BY <3>1, <3>2, <3>4
  <2> DEFINE n == h + t + 1
  <2>8. /\ C[n].io = "write" /\ C[n].mark = 0
        /\ C[n].span.lo = Down(w.off, Align) /\ C[n].span.hi = Up(end, Align)
    BY <2>3 DEF WriteForm, Call, Span
  <2>9. n \in Nat /\ 1 <= n /\ (h = 1 => 1 \in 1 .. n - 1) /\ (t = 1 => h + 1 \in 1 .. n - 1)
        /\ (n > 1 => h = 1 \/ (h = 0 /\ t = 1))
    <3>1. h \in {0, 1} /\ t \in {0, 1}
      BY <2>3
    <3> HIDE <2>3
    <3> QED BY <3>1
  <2>10. (h = 1 <=> w.off % Align # 0) /\ (t = 1 <=> end % Align # 0)
    BY <2>3, Zenon DEF WriteForm
  <2> HIDE DEF n
  <2>11. n > 1 => C[1].mark > 0
    BY <2>6, <2>7, <2>9
  <2>12. (\A j \in 1 .. n : C[j].mark = 0) => C[n].span.lo = w.off /\ C[n].span.hi = end
    <3> SUFFICES ASSUME \A j \in 1 .. n : C[j].mark = 0
                 PROVE  C[n].span.lo = w.off /\ C[n].span.hi = end
      OBVIOUS
    <3>1. h # 1 /\ t # 1
      BY <2>6, <2>7, <2>9
    <3>2. w.off % Align = 0 /\ end % Align = 0
      BY <2>10, <3>1
    <3>3. Down(w.off, Align) = w.off /\ Up(end, Align) = end
      BY <2>4, <3>2, <1>DownExact, <1>UpFacts, Zenon
    <3> QED BY <2>8, <3>3
  <2>13. ASSUME NEW u \in Nat, Covers(C[n].span, u), ~Covers(Own(r), u)
         PROVE  \E j \in 1 .. n - 1 : C[j].io = "read" /\ Covers(C[j].span, u)
    <3>1. Down(w.off, Align) <= u /\ u < Up(end, Align) /\ (u < w.off \/ end <= u)
      BY <2>4, <2>5, <2>8, <2>13 DEF Covers
    <3>2. CASE u < w.off
      <4>0. Down(w.off, Align) \in Nat /\ w.off < Down(w.off, Align) + Align
        BY <2>4, <1>DownFacts, Zenon
      <4>1. Down(w.off, Align) # w.off
        BY <2>4, <3>1, <3>2, <4>0
      <4>2. h = 1
        BY <2>4, <2>10, <4>1, <1>DownExact
      <4>3. C[1].io = "read" /\ Covers(C[1].span, u)
        <5>1. /\ C[1].io = "read" /\ C[1].span.lo = Down(w.off, Align)
              /\ C[1].span.hi = Down(w.off, Align) + Align
          BY <2>4, <2>6, <4>2, <1>BlockFacts
        <5> QED BY <2>4, <3>1, <3>2, <4>0, <5>1 DEF Covers
      <4> QED BY <2>9, <4>2, <4>3
    <3>3. CASE end <= u
      <4>1. Up(end, Align) # end
        BY <2>4, <3>1, <3>3, <1>UpFacts
      <4>2. t = 1
        BY <2>4, <2>10, <4>1, <1>UpFacts
      <4>3. C[h + 1].io = "read" /\ Covers(C[h + 1].span, u)
        <5>1. /\ Down(end, Align) <= end /\ Up(end, Align) <= Down(end, Align) + Align
              /\ Down(end, Align) \in Nat /\ Up(end, Align) \in Nat
          BY <2>4, <1>DownFacts, <1>UpFacts
        <5>2. /\ C[h + 1].io = "read" /\ C[h + 1].span.lo = Down(end, Align)
              /\ C[h + 1].span.hi = Down(end, Align) + Align
          BY <2>4, <2>7, <4>2, <1>BlockFacts
        <5> QED BY <2>4, <3>1, <3>3, <5>1, <5>2 DEF Covers
      <4> QED BY <2>9, <4>2, <4>3
    <3> QED BY <3>1, <3>2, <3>3
  <2>14. CallOK(r, C, n)
    <3>1. /\ Down(w.off, Align) \in Nat /\ Up(end, Align) \in Nat
      BY <2>4, <1>DownFacts, <1>UpFacts, Zenon
    <3>2. /\ Widened(r).off <= C[n].span.lo /\ C[n].span.hi <= Ends(Widened(r))
      BY <2>5, <2>8, <3>1
    <3>3. (\A j \in 1 .. n : C[j].mark = 0) =>
              Begins(r).off <= C[n].span.lo /\ C[n].span.hi <= Ends(Begins(r))
      BY <2>4, <2>5, <2>12
    <3>4. ~(C[n].mark > 0)
      BY <2>8
    <3> QED BY <2>2, <2>8, <2>11, <2>13, <3>2, <3>3, <3>4, Zenon DEF CallOK
  <2>15. ASSUME NEW k \in 1 .. Len(C) PROVE CallOK(r, C, k)
    <3>1. Len(C) = n
      BY <2>3 DEF WriteForm, n
    <3>2. k = n \/ (h = 1 /\ k = 1) \/ (t = 1 /\ k = h + 1)
      BY <2>15, <3>1 DEF n
    <3> QED BY <2>6, <2>7, <2>14, <3>2
  <2>16. C \in Seq(CallSet) /\ Len(C) >= 1
    BY <2>3 DEF WriteForm
  <2> QED BY <2>15, <2>16, Zenon DEF C

(* The calls of a write of zeroes.                                         *)
<1>ZeroesOK.
    ASSUME work \in Workloads, NEW r \in Requests, work[r].op = "zero"
    PROVE  LET C == Calls(work[r]) IN
           C \in Seq(CallSet) /\ Len(C) >= 1 /\ \A k \in 1 .. Len(C) : CallOK(r, C, k)
  <2> USE <1>ZeroesOK
  <2> DEFINE w == work[r]
             end == w.off + w.len
             C == Calls(w)
  <2>1. C = ZeroCalls(w)
    BY DEF Calls
  <2>2. w \in Work /\ ~IsRead(r)
    BY <1>ExtentFacts DEF IsRead
  <2>3. PICK a \in {0, 2}, b \in {0, 1}, c \in {0, 2}, off \in Nat, mid \in Nat :
            ZeroForm(w, C, a, b, c, off, mid)
    <3>1. \E a \in {0, 2}, b \in {0, 1}, c \in {0, 2}, off \in Nat, mid \in Nat :
              ZeroForm(w, ZeroCalls(w), a, b, c, off, mid)
      BY <2>2, <1>ZeroShape, Zenon
    <3> HIDE DEF C
    <3> QED BY <2>1, <3>1
  <2>4. /\ w.off \in Nat /\ end \in Nat /\ Align \in Nat \ {0} /\ w.off < end
        /\ w.off <= w.off
    BY <2>2, <1>WorkFacts
  <2>5. /\ Widened(r).off <= w.off /\ end <= Ends(Widened(r))
        /\ Widened(r).off \in Nat /\ Ends(Widened(r)) \in Nat
        /\ Begins(r).off = w.off /\ Ends(Begins(r)) = end
        /\ Own(r).lo = w.off /\ Own(r).hi = end
    BY <2>2, <2>4, <1>ExtentFacts DEF Own, Span, Extents, Ends
  <2> HIDE DEF C
  <2>6. ASSUME a = 2 PROVE CallOK(r, C, 1) /\ CallOK(r, C, 2)
    <3>1. C[1] = ReadBlock(w.off) /\ C[2] = WriteBlock(w.off)
      BY <2>3, <2>6, Zenon DEF ZeroForm
    <3>2. ~(1 > 1) /\ 1 \in Nat \ {0} /\ 1 + 1 = 2
      OBVIOUS
    <3>3. CallOK(r, C, 1)
      BY <2>2, <2>4, <3>1, <3>2, <1>ReadBlockOK, Zenon DEF C
    <3>4. CallOK(r, C, 1 + 1)
      BY <2>4, <3>1, <3>2, <3>3, <1>WriteBlockOK, Zenon DEF C
    <3> QED BY <3>2, <3>3, <3>4, Zenon
  <2>7. ASSUME c = 2 PROVE CallOK(r, C, a + b + 1) /\ CallOK(r, C, a + b + 2)
    <3> DEFINE k == a + b + 1
               n == off + mid
    <3>1. C[k] = ReadBlock(n) /\ C[a + b + 2] = WriteBlock(n) /\ n < end /\ w.off <= off
      BY <2>3, <2>7, Zenon DEF ZeroForm
    <3>2. k \in Nat \ {0} /\ k + 1 = a + b + 2 /\ n \in Nat /\ w.off <= n
      BY <2>3, <2>4, <3>1
    <3> HIDE DEF k, n
    <3>3. CallOK(r, C, k)
      BY <2>2, <3>1, <3>2, <1>ReadBlockOK, Zenon DEF C
    <3>4. CallOK(r, C, k + 1)
      BY <3>1, <3>2, <3>3, <1>WriteBlockOK, Zenon DEF C
    <3> QED BY <3>2, <3>3, <3>4, Zenon DEF k
  <2>8. ASSUME b = 1 PROVE CallOK(r, C, a + 1)
    <3> DEFINE k == a + 1
    <3>1. C[k] = Call("write", 0, off, off + mid) /\ w.off <= off /\ off + mid <= end
      BY <2>3, <2>8, Zenon DEF ZeroForm
    <3> HIDE DEF k
    <3>2. C[k].io = "write" /\ C[k].mark = 0 /\ C[k].span.lo = off /\ C[k].span.hi = off + mid
      BY <3>1 DEF Call, Span
    <3>3. \A u \in Nat : Covers(C[k].span, u) => Covers(Own(r), u)
      BY <2>3, <2>4, <2>5, <3>1, <3>2 DEF Covers
    <3>4. /\ Widened(r).off <= off /\ off + mid <= Ends(Widened(r))
          /\ Begins(r).off <= off /\ off + mid <= Ends(Begins(r))
      BY <2>3, <2>4, <2>5, <3>1
    <3>5. ~(C[k].mark > 0) /\ work[r].op # "write"
      BY <3>2
    <3>6. CallOK(r, C, k)
      BY <2>2, <3>2, <3>3, <3>4, <3>5, Zenon DEF CallOK
    <3> QED BY <3>6, Zenon DEF k
  <2>9. ASSUME NEW k \in 1 .. Len(C) PROVE CallOK(r, C, k)
    <3>1. Len(C) = a + b + c
      BY <2>3, Zenon DEF ZeroForm
    <3>2. \/ a = 2 /\ (k = 1 \/ k = 2)
          \/ b = 1 /\ k = a + 1
          \/ c = 2 /\ (k = a + b + 1 \/ k = a + b + 2)
      BY <2>3, <2>9, <3>1
    <3> QED BY <2>6, <2>7, <2>8, <3>2
  <2>10. C \in Seq(CallSet) /\ Len(C) >= 1
    BY <2>3, Zenon DEF ZeroForm
  <2> QED BY <2>9, <2>10, Zenon DEF C

(* What every proof below uses of the calls of a request.                  *)
<1>CallFacts.
    ASSUME work \in Workloads, NEW r \in Requests
    PROVE  LET C == Calls(work[r]) IN
           /\ C \in Seq(CallSet) /\ Len(C) >= 1 /\ DOMAIN C = 1 .. Len(C)
           /\ \A k \in 1 .. Len(C) : CallOK(r, C, k) /\ C[k] \in CallSet
           /\ IsRead(r) => /\ Len(C) = 1
                           /\ C[1].io = "read" /\ (C[1].mark > 0 <=> work[r].op = "cor")
                           /\ C[1].span.lo = Begins(r).off /\ C[1].span.hi = Ends(Begins(r))
  <2> USE <1>CallFacts
  <2> DEFINE C == Calls(work[r])
  <2>1. work[r].op \in Ops
    BY <1>ExtentFacts, <1>WorkFacts
  <2>2. CASE IsRead(r)
    <3>1. /\ C \in Seq(CallSet) /\ Len(C) = 1 /\ CallOK(r, C, 1)
          /\ C[1].io = "read" /\ (C[1].mark > 0 <=> work[r].op = "cor")
          /\ C[1].span.lo = Begins(r).off /\ C[1].span.hi = Ends(Begins(r))
      BY <2>2, <1>ReadsOK, Zenon
    <3> HIDE DEF C
    <3>2. DOMAIN C = 1 .. Len(C) /\ \A k \in 1 .. Len(C) : k = 1 /\ C[k] \in CallSet
      BY <3>1, SMTT(30)
    <3>3. Len(C) >= 1
      BY <3>1
    <3> QED BY <3>1, <3>2, <3>3, Zenon DEF C
  <2>3. CASE work[r].op \in {"write", "zero"}
    <3>1. C \in Seq(CallSet) /\ Len(C) >= 1 /\ \A k \in 1 .. Len(C) : CallOK(r, C, k)
      BY <2>3, <1>WritesOK, <1>ZeroesOK, Zenon
    <3> HIDE DEF C
    <3>2. DOMAIN C = 1 .. Len(C) /\ \A k \in 1 .. Len(C) : C[k] \in CallSet
      BY <3>1
    <3>3. ~IsRead(r)
      BY <2>3 DEF IsRead
    <3> QED BY <3>1, <3>2, <3>3, Zenon DEF C
  <2> QED BY <2>1, <2>2, <2>3 DEF IsRead, Ops

<1>1. ASSUME work \in Workloads, NEW r \in Requests PROVE ExtentsOK(r)
  BY <1>1, <1>ExtentFacts, Zenon DEF ExtentsOK
<1>2. ASSUME work \in Workloads, NEW r \in Requests PROVE CallsOK(r)
  BY <1>2, <1>CallFacts, Zenon DEF CallsOK
<1> QED BY <1>1, <1>2, Zenon

(* A request's calls are a nonempty list, of one call for a read.          *)
LEMMA CallsListed ==
    ASSUME work \in Workloads, NEW r \in Requests
    PROVE  /\ Calls(work[r]) \in Seq(CallSet)
           /\ DOMAIN Calls(work[r]) = 1 .. Len(Calls(work[r]))
           /\ Len(Calls(work[r])) \in Nat /\ Len(Calls(work[r])) >= 1
           /\ \A k \in 1 .. Len(Calls(work[r])) : Calls(work[r])[k] \in CallSet
           /\ IsRead(r) => Len(Calls(work[r])) = 1
<1>1. /\ Calls(work[r]) \in Seq(CallSet)
      /\ DOMAIN Calls(work[r]) = 1 .. Len(Calls(work[r])) /\ Len(Calls(work[r])) >= 1
      /\ \A k \in 1 .. Len(Calls(work[r])) : Calls(work[r])[k] \in CallSet
      /\ IsRead(r) => Len(Calls(work[r])) = 1
  BY WorkOK, Zenon DEF CallsOK
<1>2. \A s \in Seq(CallSet) : Len(s) \in Nat
  OBVIOUS
<1> QED BY <1>1, <1>2, Zenon

-----------------------------------------------------------------------------
(* The list of tracked requests.                                           *)

-----------------------------------------------------------------------------
(* r comes to its next call, as a new request or from the one before.      *)
Arrives(r, k, list) ==
    \/ pc[r] = "new" /\ k = 1 /\ list = <<r>> \o tracked
    \/ pc[r] = "io" /\ k = phase[r] + 1 /\ k \in DOMAIN Calls(work[r]) /\ list = tracked

(* What depends on the work only does not change.                          *)
LEMMA WorkSame ==
    ASSUME work' = work, NEW r \in Requests
    PROVE  /\ Begins(r)' = Begins(r) /\ Widened(r)' = Widened(r)
           /\ Own(r)' = Own(r) /\ IsRead(r)' = IsRead(r)
           /\ phase'[r] = phase[r] => Present(r)' = Present(r) /\ Clusters(r)' = Clusters(r)
<1>1. IsRead(r)' = IsRead(r) /\ Own(r)' = Own(r)
  BY Zenon DEF IsRead, Own
<1>2. Begins(r)' = Begins(r)
  BY <1>1, Zenon DEF Begins
<1>3. Grain(r)' = Grain(r)
  BY Zenon DEF Grain
<1>4. Widened(r)' = Widened(r)
  BY <1>2, <1>3, Zenon DEF Widened
<1>5. phase'[r] = phase[r] => Present(r)' = Present(r)
  BY Zenon DEF Present
<1>6. phase'[r] = phase[r] => Clusters(r)' = Clusters(r)
  BY <1>5, Zenon DEF Clusters
<1> QED BY <1>1, <1>2, <1>4, <1>5, <1>6, Zenon

(* r stays in the driver, to write the clusters it has read.               *)
Copies(r) ==
    /\ pc' = [pc EXCEPT ![r] = "copying"]
    /\ UNCHANGED <<phase, tracked, in_flight, serialising, overlap, waiting_for>>

(* The others stay where they are, or are woken.                           *)
OthersStay(r) ==
    \A s \in Requests \ {r} :
        /\ pc'[s] \in {"io", "copying"} => pc'[s] = pc[s] /\ phase'[s] = phase[s]
        /\ pc'[s] = "copying" => pc[s] = "copying"

(* Every step keeps Core; and what it does to the places of the others.    *)
LEMMA CoreKept ==
    ASSUME Counting, LeastNumber
    PROVE  Core /\ work' = work =>
               /\ UNCHANGED vars => Core'
               /\ \A r \in Requests :
                  /\ Begin(r) =>
                         Core' /\ (pc' = [pc EXCEPT ![r] = "waiting"] \/ pc' = [pc EXCEPT ![r] = "io"])
                  /\ Resume(r) => Core'
                  /\ InDriver(r) /\ End(r) => Core' /\ OthersStay(r) /\ pc'[r] = "done"
                  /\ pc[r] = "io" /\ Continue(r) =>
                         /\ Core' /\ OthersStay(r) /\ pc'[r] # "copying"
                         /\ pc'[r] = "io" => phase'[r] = phase[r] + 1
                  /\ pc[r] = "io" /\ Copies(r) => Core'
(* The walk of wait_serialising_requests: r waits for a request that       *)
(* blocks it, or none does.                                                *)
<1>WalkFacts.
    ASSUME NEW r \in Requests, NEW list \in Seq(Requests), NEW ser, NEW ov,
           Walk(r, list, ser, ov)
    PROVE  \/ /\ pc' = [pc EXCEPT ![r] = "waiting"]
              /\ \E s \in Range(list) : /\ Blocks(s, r, ser, ov)
                                        /\ waiting_for' = [waiting_for EXCEPT ![r] = s]
           \/ /\ pc' = [pc EXCEPT ![r] = "io"]
              /\ waiting_for' = [waiting_for EXCEPT ![r] = NULL]
              /\ \A s \in Range(list) : ~Blocks(s, r, ser, ov)
  <2> USE <1>WalkFacts
  <2> DEFINE blockers == {i \in DOMAIN list : Blocks(list[i], r, ser, ov)}
  <2>1. DOMAIN list \subseteq Nat
    OBVIOUS
  <2>2. blockers \in SUBSET Nat
    BY <2>1, Zenon
  <2>3. CASE blockers # {}
    <3>1. Min(blockers) \in blockers
      BY <2>2, <2>3, Zenon DEF LeastNumber, Min
    <3>2. /\ Min(blockers) \in DOMAIN list /\ Blocks(list[Min(blockers)], r, ser, ov)
      BY <3>1, Zenon
    <3>3. list[Min(blockers)] \in Range(list)
      BY <3>2, Zenon DEF Range
    <3>4. /\ pc' = [pc EXCEPT ![r] = "waiting"]
          /\ waiting_for' = [waiting_for EXCEPT ![r] = list[Min(blockers)]]
      BY <2>3, Zenon DEF Walk
    <3> HIDE DEF blockers
    <3> QED BY <3>2, <3>3, <3>4, Zenon
  <2>4. CASE blockers = {}
    <3>1. /\ pc' = [pc EXCEPT ![r] = "io"] /\ waiting_for' = [waiting_for EXCEPT ![r] = NULL]
      BY <2>4, Zenon DEF Walk
    <3>2. \A s \in Range(list) : ~Blocks(s, r, ser, ov)
      BY <2>4, Zenon DEF Range
    <3> QED BY <3>1, <3>2, Zenon
  <2> QED BY <2>3, <2>4

(* Nobody serialises when the counter is zero, and the set counted is      *)
(* finite.                                                                 *)
<1>NoneInFlight.
    ASSUME NEW q \in Seq(Requests), NEW ser \in [Requests -> BOOLEAN]
    PROVE  /\ IsFiniteSet({s \in Range(q) : ser[s]})
           /\ Cardinality({s \in Range(q) : ser[s]}) \in Nat
           /\ Cardinality({s \in Range(q) : ser[s]}) = 0 => \A s \in Range(q) : ~ser[s]
  <2> DEFINE S == {s \in Range(q) : ser[s]}
  <2>1. Range(q) \subseteq Requests
    BY DEF Range
  <2>2. S \subseteq Requests /\ IsFiniteSet(Requests)
    BY <2>1, TrackedAssumption, Zenon
  <2> HIDE DEF S
  <2>3. IsFiniteSet(S)
    BY <2>2, Zenon DEF Counting
  <2>4. Cardinality(S) \in Nat /\ (Cardinality(S) = 0 <=> S = {})
    BY <2>3, Zenon DEF Counting
  <2> QED BY <2>3, <2>4 DEF S

(* Nobody comes to wait for itself when r, who was not waiting, starts to  *)
(* wait for somebody who is not.                                           *)
<1>NoCycleYet.
    ASSUME Core, NEW r \in Requests, NEW s \in Requests, s # r,
           waiting_for[s] = NULL, s \in Range(tracked'),
           \A t \in Requests : t # r /\ t \in Range(tracked) => t \in Range(tracked'),
           r \in Range(tracked'),
           pc' = [pc EXCEPT ![r] = "waiting"],
           waiting_for' = [waiting_for EXCEPT ![r] = s]
    PROVE  NoWaitCycle'
  <2> USE <1>NoCycleYet
  <2> DEFINE waits == {t \in Requests : pc[t] = "waiting"}
             after == {t \in Requests : pc'[t] = "waiting"}
  <2>1. pc \in [Requests -> Places] /\ waiting_for \in [Requests -> Requests \cup {NULL}]
    BY DEF Core, CoreTypeOK
  <2>2. /\ \A t \in waits : waiting_for[t] \in Range(tracked)
        /\ \A S \in SUBSET waits : S # {} => \E t \in S : waiting_for[t] \notin S
    BY DEF Core, NoWaitCycle
  <2>3. s \notin waits
    BY Zenon DEF Core, WaitsFor
  <2>4. /\ waiting_for'[r] = s
        /\ \A t \in Requests : t # r => pc'[t] = pc[t] /\ waiting_for'[t] = waiting_for[t]
    BY <2>1
  <2>5. s \notin after
    BY <2>3, <2>4, Zenon
  <2>6. \A t \in after : t # r => t \in waits
    BY <2>4, Zenon
  <2>7. \A t \in after : waiting_for'[t] \in Range(tracked')
    <3> SUFFICES ASSUME NEW t \in after, t # r PROVE waiting_for'[t] \in Range(tracked')
      BY <2>4, Zenon
    <3>1. waiting_for[t] \in Range(tracked) /\ waiting_for'[t] = waiting_for[t]
      BY <2>2, <2>4, <2>6, Zenon
    <3>2. waiting_for[t] \in Requests
      <4>1. tracked \in Seq(Requests)
        BY Zenon DEF Core, CoreTypeOK
      <4>2. Range(tracked) \subseteq Requests
        BY <4>1 DEF Range
      <4> QED BY <3>1, <4>2, Zenon
    <3> QED BY <3>1, <3>2, Zenon
  <2>8. ASSUME NEW S \in SUBSET after, S # {} PROVE \E t \in S : waiting_for'[t] \notin S
    <3>1. CASE r \in S
      BY <2>4, <2>5, <3>1, ZenonT(30)
    <3>2. CASE r \notin S
      <4>1. S \in SUBSET waits /\ \A t \in S : waiting_for'[t] = waiting_for[t]
        BY <2>4, <2>6, <3>2, Zenon
      <4> QED BY <2>2, <2>8, <4>1, Zenon
    <3> QED BY <3>1, <3>2
  <2> QED BY <2>7, <2>8, Zenon DEF NoWaitCycle

(* Nobody else starts to wait, and those who still do wait for a request   *)
(* that is still there.                                                    *)
<1>NoNewCycle.
    ASSUME Core,
           \A t \in Requests : pc'[t] = "waiting" =>
               /\ pc[t] = "waiting" /\ waiting_for'[t] = waiting_for[t]
               /\ waiting_for[t] \in Range(tracked')
    PROVE  NoWaitCycle'
  <2> USE <1>NoNewCycle
  <2> DEFINE waits == {t \in Requests : pc[t] = "waiting"}
             after == {t \in Requests : pc'[t] = "waiting"}
  <2>1. \A S \in SUBSET waits : S # {} => \E t \in S : waiting_for[t] \notin S
    BY DEF Core, NoWaitCycle
  <2>2. after \subseteq waits
    BY Zenon
  <2>3. ASSUME NEW S \in SUBSET after, S # {} PROVE \E t \in S : waiting_for'[t] \notin S
    <3>1. PICK t \in S : waiting_for[t] \notin S
      BY <2>1, <2>2, <2>3, Zenon
    <3>2. waiting_for'[t] = waiting_for[t]
      BY <3>1, Zenon
    <3> QED BY <3>1, <3>2, Zenon
  <2> QED BY <2>3, Zenon DEF NoWaitCycle

(* What r's coming to its k-th call does to its mark and its span.         *)
<1>MarkFacts.
    ASSUME Core, NEW r \in Requests, NEW k \in DOMAIN Calls(work[r]), NEW list,
           work' = work, Enter(r, k, list)
    PROVE  Enters(r, k, list)
(* Marking a request gives it the widened span, the second time too.       *)
  <2> USE <1>MarkFacts
  <2>MarkingWidens.
      ASSUME work \in Workloads, NEW rr \in Requests,
             overlap[rr] = Begins(rr) \/ overlap[rr] = Widened(rr)
      PROVE  MarkedOverlap(rr, Grain(rr)) = Widened(rr)
    <3> USE <2>MarkingWidens
    <3> DEFINE B == Begins(rr)
               W == Widened(rr)
               g == Grain(rr)
               len == Up(B.off + B.len, g) - Down(B.off, g)
    <3>1. /\ B \in Extents /\ W \in Extents /\ W.off <= B.off /\ Ends(B) <= Ends(W)
          /\ g \in Nat \ {0}
      BY WorkOK DEF ExtentsOK
    <3>2. W = [off |-> Down(B.off, g), len |-> len]
      BY DEF Widened
    <3>3. MarkedOverlap(rr, g) = [off |-> Least(overlap[rr].off, W.off),
                                 len |-> Greatest(overlap[rr].len, W.len)]
      BY <3>2 DEF MarkedOverlap
    <3>4. W = [off |-> W.off, len |-> W.len]
      BY <3>2
    <3> HIDE DEF B, W, g, len
    <3>5. /\ B.off \in Nat /\ B.len \in Nat /\ W.off \in Nat /\ W.len \in Nat
          /\ B.off + B.len <= W.off + W.len
      BY <3>1, TrackedAssumption DEF Extents, Ends
    <3>6. Least(B.off, W.off) = W.off /\ Least(W.off, W.off) = W.off
      BY <3>1, <3>5 DEF Least
    <3>7. Greatest(B.len, W.len) = W.len /\ Greatest(W.len, W.len) = W.len
      BY <3>1, <3>5 DEF Greatest
    <3>8. overlap[rr] = B \/ overlap[rr] = W
      BY DEF B, W
    <3> QED BY <3>3, <3>4, <3>6, <3>7, <3>8, Zenon DEF W, g

  <2> DEFINE m == Calls(work[r])[k].mark
  <2>1. /\ serialising \in [Requests -> BOOLEAN] /\ overlap \in [Requests -> Extents]
        /\ work \in Workloads
    BY Zenon DEF Core, CoreTypeOK
  <2>2. m \in {0, Grain(r)} /\ Grain(r) \in Nat \ {0}
    BY <2>1, WorkOK, Zenon DEF ExtentsOK, CallsOK, CallOK
  <2>3. /\ serialising' = [serialising EXCEPT ![r] = @ \/ m > 0]
        /\ in_flight' = IF m > 0 /\ ~serialising[r] THEN in_flight + 1 ELSE in_flight
        /\ overlap' = IF m > 0 THEN [overlap EXCEPT ![r] = MarkedOverlap(r, m)] ELSE overlap
        /\ phase' = [phase EXCEPT ![r] = k] /\ tracked' = list
    BY DEF Enter, Mark, CountsFirst
  <2>4. overlap[r] = IF serialising[r] THEN Widened(r) ELSE Begins(r)
    BY Zenon DEF Core, Marked
  <2>5. m > 0 => MarkedOverlap(r, m) = Widened(r)
    <3>1. MarkedOverlap(r, Grain(r)) = Widened(r)
      BY <2>1, <2>4, <2>MarkingWidens
    <3>2. m > 0 => m = Grain(r)
      BY <2>2
    <3> QED BY <3>1, <3>2, Zenon
  <2>6. Widened(r) \in Extents /\ Begins(r) \in Extents
    BY <2>1, WorkOK DEF ExtentsOK
  <2> DEFINE p == m > 0
  <2>7. /\ serialising' = [serialising EXCEPT ![r] = @ \/ p]
        /\ in_flight' = IF p /\ ~serialising[r] THEN in_flight + 1 ELSE in_flight
        /\ overlap' = IF p THEN [overlap EXCEPT ![r] = Widened(r)] ELSE overlap
    <3>1. overlap' = IF p THEN [overlap EXCEPT ![r] = Widened(r)] ELSE overlap
      <4>1. CASE p
        BY <2>3, <2>5, <4>1, Zenon
      <4>2. CASE ~p
        BY <2>3, <4>2, Zenon
      <4> QED BY <4>1, <4>2, Zenon
    <3> QED BY <2>3, <3>1, Zenon
  <2>8. p \in BOOLEAN
    OBVIOUS
  <2> HIDE DEF p, m
  <2>9. (serialising'[r] <=> (serialising[r] \/ p)) /\ serialising' \in [Requests -> BOOLEAN]
        /\ \A s \in Requests \ {r} : serialising'[s] = serialising[s]
    BY <2>1, <2>7, <2>8, Zenon
  <2>10. /\ overlap'[r] = IF p THEN Widened(r) ELSE overlap[r]
         /\ overlap' \in [Requests -> Extents]
         /\ \A s \in Requests \ {r} : overlap'[s] = overlap[s]
    BY <2>1, <2>6, <2>7
  <2>11. overlap'[r] = IF serialising'[r] THEN Widened(r) ELSE Begins(r)
    BY <2>4, <2>9, <2>10
  <2>12. serialising[r] => overlap'[r] = overlap[r]
    BY <2>4, <2>9, <2>11
  <2>13. in_flight' = IF serialising'[r] /\ ~serialising[r] THEN in_flight + 1 ELSE in_flight
    BY <2>7, <2>9
  <2> QED BY <2>3, <2>9, <2>10, <2>11, <2>12, <2>13, Zenon DEF Enters, p, m

(* Who waits and who goes on when r arrives; one that serialises already   *)
(* does not wait.                                                          *)
<1>EnterFacts.
    ASSUME Core, NEW r \in Requests, NEW k, NEW list, work' = work,
           Arrives(r, k, list), Enter(r, k, list)
    PROVE  /\ k \in DOMAIN Calls(work[r]) /\ k \in Nat
           /\ list \in Seq(Requests) /\ Range(list) = Range(tracked) \cup {r}
           /\ \A i, j \in DOMAIN list : list[i] = list[j] => i = j
           /\ SerialisingCounted'
           /\ \/ /\ pc' = [pc EXCEPT ![r] = "waiting"]
                 /\ \E s \in Range(tracked) :
                        /\ s # r /\ waiting_for[s] = NULL
                        /\ Overlap(overlap'[s], overlap'[r])
                        /\ waiting_for' = [waiting_for EXCEPT ![r] = s]
                 /\ ~serialising[r]
              \/ /\ pc' = [pc EXCEPT ![r] = "io"]
                 /\ waiting_for' = [waiting_for EXCEPT ![r] = NULL]
                 /\ \A s \in Range(tracked) \ {r} :
                        waiting_for[s] = NULL /\ (serialising'[s] \/ serialising'[r]) =>
                            ~Overlap(overlap'[s], overlap'[r])
(* QLIST_INSERT_HEAD of a request that is not tracked.                     *)
  <2> USE <1>EnterFacts
  <2>Inserted.
      ASSUME NEW q \in Seq(Requests), NEW rr \in Requests, rr \notin Range(q),
             \A i, j \in DOMAIN q : q[i] = q[j] => i = j
      PROVE  LET p == <<rr>> \o q IN
             /\ p \in Seq(Requests) /\ Range(p) = Range(q) \cup {rr}
             /\ \A i, j \in DOMAIN p : p[i] = p[j] => i = j
    <3> USE <2>Inserted
    <3> DEFINE p == <<rr>> \o q
    <3>1. /\ p \in Seq(Requests) /\ Len(p) = Len(q) + 1 /\ p[1] = rr /\ Len(q) \in Nat
          /\ \A i \in 2 .. Len(q) + 1 : p[i] = q[i - 1]
      OBVIOUS
    <3>2. DOMAIN p = 1 .. Len(q) + 1 /\ DOMAIN q = 1 .. Len(q)
      BY <3>1
    <3> HIDE DEF p
    <3>3. \A i \in 2 .. Len(q) + 1 : p[i] = q[i - 1] /\ i - 1 \in DOMAIN q
      BY <3>1, <3>2
    <3>4. \A i \in DOMAIN q : i + 1 \in DOMAIN p /\ p[i + 1] = q[i]
      BY <3>1, <3>2
    <3>5. Range(p) \subseteq Range(q) \cup {rr}
      BY <3>1, <3>2, <3>3 DEF Range
    <3>6. Range(q) \subseteq Range(p)
      BY <3>4, Zenon DEF Range
    <3>7. rr \in Range(p)
      BY <3>1, <3>2 DEF Range
    <3>8. ASSUME NEW i \in DOMAIN p, NEW j \in DOMAIN p, p[i] = p[j] PROVE i = j
      <4>1. \A m \in 2 .. Len(q) + 1 : p[m] # rr
        BY <3>3, ZenonT(30) DEF Range
      <4>2. CASE i = 1
        BY <3>1, <3>2, <3>8, <4>1, <4>2
      <4>3. CASE j = 1
        BY <3>1, <3>2, <3>8, <4>1, <4>3
      <4>4. CASE i # 1 /\ j # 1
        <5>1. i \in 2 .. Len(q) + 1 /\ j \in 2 .. Len(q) + 1
          BY <3>1, <3>2, <4>4
        <5>2. i - 1 = j - 1
          BY <3>3, <3>8, <5>1
        <5> QED BY <5>1, <5>2
      <4> QED BY <4>2, <4>3, <4>4
    <3> QED BY <3>1, <3>5, <3>6, <3>7, <3>8 DEF p

  <2>1. /\ CoreTypeOK /\ Listed /\ WaitsFor /\ SerialisingCounted /\ Marked
        /\ SerialisingAlone
    BY Zenon DEF Core
  <2>2. /\ work \in Workloads /\ tracked \in Seq(Requests) /\ in_flight \in Nat
        /\ serialising \in [Requests -> BOOLEAN] /\ phase \in [Requests -> Nat]
    BY <2>1, Zenon DEF CoreTypeOK
  <2>3. DOMAIN Calls(work[r]) = 1 .. Len(Calls(work[r])) /\ Len(Calls(work[r])) >= 1
        /\ Len(Calls(work[r])) \in Nat
    BY <2>2, CallsListed, Zenon
  <2>4. k \in DOMAIN Calls(work[r]) /\ k \in Nat
    <3>1. 1 \in DOMAIN Calls(work[r])
      BY <2>3
    <3>2. k \in DOMAIN Calls(work[r])
      BY <3>1, Zenon DEF Arrives
    <3> QED BY <2>3, <3>2
  <2>5. pc[r] \in {"new", "io"}
    BY Zenon DEF Arrives
  <2>6. pc[r] = "new" => r \notin Range(tracked) /\ ~serialising[r]
    BY <2>1, Zenon DEF Listed, Marked
  <2>7. /\ list \in Seq(Requests) /\ Range(list) = Range(tracked) \cup {r}
        /\ \A i, j \in DOMAIN list : list[i] = list[j] => i = j
    <3>1. \A i, j \in DOMAIN tracked : tracked[i] = tracked[j] => i = j
      BY <2>1, Zenon DEF Listed
    <3>2. CASE pc[r] = "new"
      <4>1. list = <<r>> \o tracked
        BY <3>2 DEF Arrives
      <4> QED BY <2>2, <2>6, <3>1, <3>2, <4>1, <2>Inserted, Zenon
    <3>3. CASE pc[r] = "io"
      <4>1. list = tracked
        BY <3>3 DEF Arrives
      <4>2. r \in Range(tracked)
        BY <2>1, <3>3 DEF Listed
      <4> QED BY <2>2, <3>1, <4>1, <4>2
    <3> QED BY <2>5, <3>2, <3>3
  <2> DEFINE ser == serialising'
             ov == overlap'
             S == {s \in Range(tracked) : serialising[s]}
             S2 == {s \in Range(list) : ser[s]}
  <2>8. /\ \A s \in Requests \ {r} : ser[s] = serialising[s] /\ ov[s] = overlap[s]
        /\ serialising[r] => ser[r] /\ ov[r] = overlap[r]
        /\ in_flight' = IF ser[r] /\ ~serialising[r] THEN in_flight + 1 ELSE in_flight
        /\ ser \in [Requests -> BOOLEAN] /\ tracked' = list
    <3>1. /\ serialising'[r] <=> (serialising[r] \/ Calls(work[r])[k].mark > 0)
          /\ \A s \in Requests \ {r} : /\ serialising'[s] = serialising[s]
                                       /\ overlap'[s] = overlap[s]
          /\ serialising[r] => overlap'[r] = overlap[r]
          /\ in_flight' = IF serialising'[r] /\ ~serialising[r] THEN in_flight + 1
                                                                ELSE in_flight
          /\ serialising' \in [Requests -> BOOLEAN] /\ tracked' = list
      <4>1. Enters(r, k, list)
        BY <2>4, <1>MarkFacts, Zenon
      <4> QED BY <4>1, Zenon DEF Enters
    <3> QED BY <3>1, Zenon
  <2>9. Range(tracked) \subseteq Requests
    BY <2>2 DEF Range
  <2>10. in_flight = Cardinality(S) /\ IsFiniteSet(S)
    <3>1. IsFiniteSet(S)
      BY <2>2, <1>NoneInFlight
    <3> QED BY <2>1, <3>1, Zenon DEF SerialisingCounted
  <2> HIDE DEF ser, ov
  <2>11. in_flight' = Cardinality(S2)
    <3>1. CASE ser[r] /\ ~serialising[r]
      <4>1. S2 = S \cup {r} /\ r \notin S
        BY <2>7, <2>8, <2>9, <3>1, Zenon
      <4>2. Cardinality(S2) = Cardinality(S) + 1
        <5> HIDE DEF S, S2
        <5> QED BY <2>10, <4>1, Zenon DEF Counting
      <4> QED BY <2>8, <2>10, <3>1, <4>2, Zenon
    <3>2. CASE ~(ser[r] /\ ~serialising[r])
      <4>1. S2 = S
        <5>1. CASE ser[r]
          <6>1. serialising[r] /\ r \in Range(tracked)
            BY <2>1, <2>5, <2>6, <3>2, <5>1, Zenon DEF Listed
          <6> QED BY <2>7, <2>8, <2>9, <5>1, <6>1, Zenon
        <5>2. CASE ~ser[r]
          <6>1. ~serialising[r]
            BY <2>8, <5>2, Zenon
          <6> QED BY <2>7, <2>8, <2>9, <5>2, <6>1, Zenon
        <5> QED BY <5>1, <5>2
      <4> QED BY <2>8, <2>10, <3>2, <4>1, Zenon
    <3> QED BY <3>1, <3>2
  <2>12. SerialisingCounted'
    BY <2>8, <2>11, Zenon DEF SerialisingCounted, ser
  <2>13. in_flight' = 0 => \A s \in Range(list) : ~ser[s]
    <3>1. list \in Seq(Requests) /\ ser \in [Requests -> BOOLEAN]
      BY <2>7, <2>8, Zenon
    <3>2. Cardinality(S2) = 0 => \A s \in Range(list) : ~ser[s]
      BY <3>1, <1>NoneInFlight, Zenon
    <3> QED BY <2>11, <3>2, Zenon
  <2> DEFINE walked == IF in_flight' = 0 THEN << >> ELSE list
  <2>14. Walk(r, walked, ser, ov) /\ walked \in Seq(Requests)
    BY <2>7 DEF Enter, ser, ov
  <2> HIDE DEF walked
  <2>15. \A s \in Range(list) : ~Blocks(s, r, ser, ov) \/ s \in Range(walked)
    <3>1. CASE in_flight' = 0
      <4>1. r \in Range(list)
        BY <2>7, Zenon
      <4> QED BY <2>13, <3>1, <4>1, Zenon DEF Blocks
    <3>2. CASE in_flight' # 0
      BY <3>2 DEF walked
    <3> QED BY <3>1, <3>2
  <2>16. Range(walked) \subseteq Range(list)
    BY DEF walked, Range
  <2>17. CASE /\ pc' = [pc EXCEPT ![r] = "waiting"]
              /\ \E s \in Range(walked) : /\ Blocks(s, r, ser, ov)
                                          /\ waiting_for' = [waiting_for EXCEPT ![r] = s]
    <3>1. PICK s \in Range(walked) : /\ Blocks(s, r, ser, ov)
                                     /\ waiting_for' = [waiting_for EXCEPT ![r] = s]
      BY <2>17, Zenon
    <3>2. s # r /\ waiting_for[s] = NULL /\ Overlap(ov[s], ov[r]) /\ s \in Range(tracked)
      BY <2>7, <2>16, <3>1, Zenon DEF Blocks
    <3>3. ~serialising[r]
      <4> SUFFICES ASSUME serialising[r] PROVE FALSE
        OBVIOUS
      <4>1. pc[r] = "io" /\ ov[r] = overlap[r] /\ ov[s] = overlap[s] /\ s \in Requests
        BY <2>5, <2>6, <2>8, <2>9, <3>2, Zenon
      <4>2. pc[s] \notin {"new", "done", "waiting", "woken"} /\ pc[s] \in Places
        BY <2>1, <3>2, <4>1, Zenon DEF Listed, WaitsFor, CoreTypeOK
      <4>3. InDriver(s) /\ InDriver(r)
        BY <4>1, <4>2 DEF InDriver, Places
      <4>4. ~Overlap(overlap[r], overlap[s])
        BY <2>1, <3>2, <4>1, <4>3, Zenon DEF SerialisingAlone
      <4> QED BY <3>2, <4>1, <4>4, Zenon DEF Overlap
    <3> QED BY <2>4, <2>7, <2>12, <2>17, <3>1, <3>2, <3>3, Zenon DEF ov
  <2>18. CASE /\ pc' = [pc EXCEPT ![r] = "io"]
              /\ waiting_for' = [waiting_for EXCEPT ![r] = NULL]
              /\ \A s \in Range(walked) : ~Blocks(s, r, ser, ov)
    <3>1. \A s \in Range(list) : ~Blocks(s, r, ser, ov)
      BY <2>15, <2>18, Zenon
    <3>2. \A s \in Range(tracked) \ {r} :
              waiting_for[s] = NULL /\ (ser[s] \/ ser[r]) => ~Overlap(ov[s], ov[r])
      BY <2>7, <3>1, Zenon DEF Blocks
    <3> QED BY <2>4, <2>7, <2>12, <2>18, <3>2, Zenon DEF ov, ser
  <2> QED BY <2>14, <2>17, <2>18, <1>WalkFacts, Zenon

(* A request that is neither new nor done is tracked, and one that does    *)
(* not wait is in the driver.                                              *)
<1>TrackedFacts.
    ASSUME Core, NEW s \in Requests
    PROVE  /\ s \in Range(tracked) <=> pc[s] \notin {"new", "done"}
           /\ InDriver(s) => s \in Range(tracked) /\ waiting_for[s] = NULL
           /\ s \in Range(tracked) /\ waiting_for[s] = NULL => InDriver(s)
  <2> USE <1>TrackedFacts
  <2>1. pc[s] \in Places
    BY Zenon DEF Core, CoreTypeOK
  <2>2. /\ s \in Range(tracked) <=> pc[s] \notin {"new", "done"}
        /\ waiting_for[s] # NULL <=> pc[s] \in {"waiting", "woken"}
    BY Zenon DEF Core, Listed, WaitsFor
  <2> QED BY <2>1, <2>2 DEF InDriver, Places

(* Arriving keeps the invariant.                                           *)
<1>EnterCore.
    ASSUME Core, NEW r \in Requests, NEW k, NEW list, work' = work,
           Arrives(r, k, list), Enter(r, k, list)
    PROVE  Core'
  <2> USE <1>EnterCore
  <2>1. /\ CoreTypeOK /\ Listed /\ WaitsFor /\ SerialisingCounted /\ Marked /\ WaitsOnce
        /\ SerialisingAlone
    BY Zenon DEF Core
  <2>2. /\ work \in Workloads /\ tracked \in Seq(Requests) /\ in_flight \in Nat
        /\ serialising \in [Requests -> BOOLEAN] /\ phase \in [Requests -> Nat]
        /\ pc \in [Requests -> Places]
        /\ waiting_for \in [Requests -> Requests \cup {NULL}]
    BY <2>1, Zenon DEF CoreTypeOK
  <2>3. /\ k \in DOMAIN Calls(work[r]) /\ k \in Nat
        /\ list \in Seq(Requests) /\ Range(list) = Range(tracked) \cup {r}
        /\ \A i, j \in DOMAIN list : list[i] = list[j] => i = j
        /\ SerialisingCounted'
    BY <1>EnterFacts, Zenon
  <2>4. /\ serialising'[r] <=> (serialising[r] \/ Calls(work[r])[k].mark > 0)
        /\ \A s \in Requests \ {r} : /\ serialising'[s] = serialising[s]
                                     /\ overlap'[s] = overlap[s]
        /\ overlap'[r] = IF serialising'[r] THEN Widened(r) ELSE Begins(r)
        /\ in_flight' = IF serialising'[r] /\ ~serialising[r] THEN in_flight + 1 ELSE in_flight
        /\ serialising' \in [Requests -> BOOLEAN] /\ overlap' \in [Requests -> Extents]
        /\ phase' = [phase EXCEPT ![r] = k] /\ tracked' = list
    <3>1. k \in DOMAIN Calls(work[r])
      BY <2>3, Zenon
    <3>2. Enters(r, k, list)
      BY <3>1, <1>MarkFacts, Zenon
    <3> QED BY <3>2, Zenon DEF Enters
  <2>5. pc[r] \in {"new", "io"} /\ waiting_for[r] = NULL
    BY <2>1 DEF Arrives, WaitsFor
  <2>6. /\ \A s \in Requests \ {r} : phase'[s] = phase[s]
        /\ phase'[r] = k /\ phase' \in [Requests -> Nat]
    BY <2>2, <2>3, <2>4, Zenon
  <2>7. \/ /\ pc' = [pc EXCEPT ![r] = "waiting"] /\ ~serialising[r]
           /\ \E s \in Range(tracked) :
                  /\ s # r /\ waiting_for[s] = NULL
                  /\ waiting_for' = [waiting_for EXCEPT ![r] = s]
        \/ /\ pc' = [pc EXCEPT ![r] = "io"]
           /\ waiting_for' = [waiting_for EXCEPT ![r] = NULL]
           /\ \A s \in Range(tracked) \ {r} :
                  waiting_for[s] = NULL /\ (serialising'[s] \/ serialising'[r]) =>
                      ~Overlap(overlap'[s], overlap'[r])
    BY <1>EnterFacts, Zenon
  <2>8. Range(tracked) \subseteq Requests
    BY <2>2 DEF Range
  <2>9. /\ pc' \in [Requests -> Places]
        /\ waiting_for' \in [Requests -> Requests \cup {NULL}]
        /\ \A s \in Requests \ {r} : pc'[s] = pc[s] /\ waiting_for'[s] = waiting_for[s]
        /\ \/ pc'[r] = "waiting" /\ waiting_for'[r] \in Requests /\ ~serialising[r]
           \/ pc'[r] = "io" /\ waiting_for'[r] = NULL
    <3>1. "waiting" \in Places /\ "io" \in Places
      BY DEF Places
    <3> QED BY <2>2, <2>7, <2>8, <3>1, ZenonT(60)
  <2>10. CoreTypeOK'
    <3>1. in_flight' \in Nat
      BY <2>2, <2>4
    <3> QED BY <2>2, <2>3, <2>4, <2>6, <2>9, <3>1, Zenon DEF CoreTypeOK
  <2>11. Listed'
    <3>1. pc'[r] \notin {"new", "done"} /\ r \in Range(list)
      BY <2>3, <2>9
    <3>2. \A s \in Requests \ {r} : s \in Range(list) <=> pc'[s] \notin {"new", "done"}
      BY <2>1, <2>3, <2>9, Zenon DEF Listed
    <3> QED BY <2>3, <2>4, <3>1, <3>2, ZenonT(30) DEF Listed
  <2>12. WaitsFor'
    <3>1. waiting_for'[r] # NULL <=> pc'[r] \in {"waiting", "woken"}
      BY <2>9, TrackedAssumption
    <3> QED BY <2>1, <2>9, <3>1, Zenon DEF WaitsFor
  <2>13. Marked'
    <3>1. ASSUME NEW s \in Requests, s # r
          PROVE  /\ phase'[s] \in DOMAIN Calls(work'[s])
                 /\ pc'[s] = "new" => phase'[s] = 1
                 /\ serialising'[s] <=>
                        (pc'[s] # "new" /\ \E j \in 1 .. phase'[s] : Calls(work'[s])[j].mark > 0)
                 /\ overlap'[s] = IF serialising'[s] THEN Widened(s)' ELSE Begins(s)'
      <4>1. Widened(s)' = Widened(s) /\ Begins(s)' = Begins(s)
        BY WorkSame, Zenon
      <4>2. /\ phase'[s] = phase[s] /\ pc'[s] = pc[s] /\ serialising'[s] = serialising[s]
            /\ overlap'[s] = overlap[s]
        BY <2>4, <2>6, <2>9, <3>1, Zenon
      <4> QED BY <2>1, <4>1, <4>2, Zenon DEF Marked
    <3>2. k \in DOMAIN Calls(work'[r]) /\ pc'[r] # "new"
      BY <2>3, <2>9, SMTT(30)
    <3>3. serialising'[r] <=> \E j \in 1 .. k : Calls(work[r])[j].mark > 0
      <4>1. CASE pc[r] = "new"
        <5>1. k = 1 /\ ~serialising[r]
          BY <2>1, <4>1 DEF Arrives, Marked
        <5>2. \A j \in 1 .. k : j = k
          BY <5>1
        <5>3. k \in 1 .. k
          BY <5>1
        <5> QED BY <2>4, <5>1, <5>2, <5>3, Zenon
      <4>2. CASE pc[r] = "io"
        <5>1. k = phase[r] + 1 /\ phase[r] \in Nat
          BY <2>2, <4>2 DEF Arrives
        <5>2. serialising[r] <=> \E j \in 1 .. phase[r] : Calls(work[r])[j].mark > 0
          BY <2>1, <4>2 DEF Marked
        <5>3. (\A j \in 1 .. k : j = k \/ j \in 1 .. phase[r]) /\ 1 .. phase[r] \subseteq 1 .. k
              /\ k \in 1 .. k
          BY <5>1
        <5> QED BY <2>4, <5>2, <5>3, Zenon
      <4> QED BY <2>5, <4>1, <4>2
    <3>4. overlap'[r] = IF serialising'[r] THEN Widened(r)' ELSE Begins(r)'
      BY <2>4, WorkSame, Zenon
    <3> QED BY <2>6, <3>1, <3>2, <3>3, <3>4, Zenon DEF Marked
  <2>14. WaitsOnce'
    <3>1. ASSUME NEW s \in Requests, s # r, pc'[s] \in {"waiting", "woken"}, serialising'[s]
          PROVE  /\ Present(s)'.mark > 0
                 /\ \A j \in 1 .. phase'[s] - 1 : Calls(work'[s])[j].mark = 0
      <4>1. /\ phase'[s] = phase[s] /\ pc'[s] = pc[s] /\ serialising'[s] = serialising[s]
        BY <2>4, <2>6, <2>9, <3>1, Zenon
      <4>2. Present(s)' = Present(s)
        BY <4>1, WorkSame, Zenon
      <4> QED BY <2>1, <3>1, <4>1, <4>2, Zenon DEF WaitsOnce
    <3>2. ASSUME pc'[r] \in {"waiting", "woken"}, serialising'[r]
          PROVE  /\ Present(r)'.mark > 0
                 /\ \A j \in 1 .. phase'[r] - 1 : Calls(work'[r])[j].mark = 0
      <4>1. ~serialising[r] /\ Calls(work[r])[k].mark > 0
        BY <2>4, <2>9, <3>2
      <4>2. Present(r)'.mark > 0
        BY <2>6, <4>1, Zenon DEF Present
      <4>3. ASSUME NEW j \in 1 .. k - 1 PROVE Calls(work[r])[j].mark = 0
        <5>1. pc[r] = "io" /\ k = phase[r] + 1 /\ phase[r] \in Nat
          BY <2>2, <4>3 DEF Arrives
        <5>2. j \in 1 .. phase[r]
          BY <5>1
        <5>3. ~(Calls(work[r])[j].mark > 0)
          BY <2>1, <4>1, <5>1, <5>2 DEF Marked
        <5>4. phase[r] \in DOMAIN Calls(work[r]) /\ DOMAIN Calls(work[r]) = 1 .. Len(Calls(work[r]))
              /\ Len(Calls(work[r])) \in Nat
          BY <2>1, <2>2, CallsListed, Zenon DEF Marked
        <5>5. j \in 1 .. Len(Calls(work[r]))
          BY <5>1, <5>2, <5>4
        <5>6. Calls(work[r])[j] \in CallSet
          BY <2>2, <5>5, WorkOK, Zenon DEF CallsOK
        <5> QED BY <5>3, <5>6 DEF CallSet
      <4> QED BY <2>6, <4>2, <4>3, ZenonT(30)
    <3> QED BY <3>1, <3>2, Zenon DEF WaitsOnce
  <2>15. SerialisingAlone'
    <3>1. ASSUME NEW s \in Requests, s # r, InDriver(r)', InDriver(s)',
                 serialising'[s] \/ serialising'[r]
          PROVE  ~Overlap(overlap'[s], overlap'[r])
      <4>1. pc'[r] = "io" /\ pc'[s] = pc[s]
        BY <2>9, <3>1 DEF InDriver
      <4>2. InDriver(s)
        BY <3>1, <4>1, Zenon DEF InDriver
      <4>3. s \in Range(tracked) /\ waiting_for[s] = NULL
        BY <4>2, <1>TrackedFacts, Zenon
      <4>4. pc' # [pc EXCEPT ![r] = "waiting"]
        BY <2>2, <4>1
      <4> QED BY <2>7, <3>1, <4>3, <4>4, Zenon
    <3>2. ASSUME NEW s \in Requests, NEW t \in Requests, s # r, t # r, s # t,
                 serialising'[s], InDriver(s)', InDriver(t)'
          PROVE  ~Overlap(overlap'[s], overlap'[t])
      <4>1. serialising[s] /\ InDriver(s) /\ InDriver(t) /\ overlap'[s] = overlap[s]
            /\ overlap'[t] = overlap[t]
        BY <2>4, <2>9, <3>2, Zenon DEF InDriver
      <4> QED BY <2>1, <3>2, <4>1, Zenon DEF SerialisingAlone
    <3>3. \A a, b : Overlap(a, b) <=> Overlap(b, a)
      BY Zenon DEF Overlap
    <3> QED BY <3>1, <3>2, <3>3, Zenon DEF SerialisingAlone
  <2>16. NoWaitCycle'
    <3>1. CASE /\ pc' = [pc EXCEPT ![r] = "waiting"]
               /\ \E s \in Range(tracked) :
                      /\ s # r /\ waiting_for[s] = NULL
                      /\ waiting_for' = [waiting_for EXCEPT ![r] = s]
      <4>1. PICK s \in Range(tracked) : /\ s # r /\ waiting_for[s] = NULL
                                        /\ waiting_for' = [waiting_for EXCEPT ![r] = s]
        BY <3>1, Zenon
      <4>2. s \in Requests /\ s \in Range(tracked') /\ r \in Range(tracked')
        BY <2>3, <2>4, <2>8, <4>1, Zenon
      <4>3. \A t \in Requests : t # r /\ t \in Range(tracked) => t \in Range(tracked')
        BY <2>3, <2>4, Zenon
      <4> QED BY <3>1, <4>1, <4>2, <4>3, <1>NoCycleYet, Zenon
    <3>2. CASE pc' = [pc EXCEPT ![r] = "io"]
      <4>1. pc'[r] = "io"
        BY <2>2, <3>2
      <4>2. ASSUME NEW t \in Requests, pc'[t] = "waiting"
            PROVE  /\ pc[t] = "waiting" /\ waiting_for'[t] = waiting_for[t]
                   /\ waiting_for[t] \in Range(tracked')
        <5>1. t # r
          BY <4>1, <4>2
        <5>2. pc[t] = "waiting" /\ waiting_for'[t] = waiting_for[t]
          BY <2>9, <4>2, <5>1, Zenon
        <5>3. waiting_for[t] \in Range(tracked)
          BY <5>2, Zenon DEF Core, NoWaitCycle
        <5> QED BY <2>3, <2>4, <5>2, <5>3, Zenon
      <4> QED BY <4>2, <1>NoNewCycle, Zenon
    <3> QED BY <2>7, <3>1, <3>2, Zenon
  <2> QED BY <2>3, <2>10, <2>11, <2>12, <2>13, <2>14, <2>15, <2>16, Zenon DEF Core

(* What an action leaves alone of marks and spans stays as it should.      *)
<1>MarksSame.
    ASSUME Core, work' = work, phase' = phase, serialising' = serialising,
           overlap' = overlap, \A s \in Requests : pc'[s] = "new" <=> pc[s] = "new"
    PROVE  Marked'
  <2> USE <1>MarksSame
  <2> SUFFICES ASSUME NEW s \in Requests
               PROVE  /\ phase'[s] \in DOMAIN Calls(work'[s])
                      /\ pc'[s] = "new" => phase'[s] = 1
                      /\ serialising'[s] <=>
                             (pc'[s] # "new" /\ \E j \in 1 .. phase'[s] :
                                                   Calls(work'[s])[j].mark > 0)
                      /\ overlap'[s] = IF serialising'[s] THEN Widened(s)' ELSE Begins(s)'
    BY Zenon DEF Marked
  <2>1. Widened(s)' = Widened(s) /\ Begins(s)' = Begins(s)
    BY WorkSame, Zenon
  <2> QED BY <2>1, Zenon DEF Core, Marked

(* The same of the waits, and of those in the driver.                      *)
<1>WaitsSame.
    ASSUME Core, work' = work, phase' = phase, serialising' = serialising,
           overlap' = overlap,
           \A s \in Requests : pc'[s] \in {"waiting", "woken"} => pc[s] \in {"waiting", "woken"}
    PROVE  WaitsOnce'
  <2> USE <1>WaitsSame
  <2> SUFFICES ASSUME NEW s \in Requests, pc'[s] \in {"waiting", "woken"}, serialising'[s]
               PROVE  /\ Present(s)'.mark > 0
                      /\ \A j \in 1 .. phase'[s] - 1 : Calls(work'[s])[j].mark = 0
    BY Zenon DEF WaitsOnce
  <2>1. Present(s)' = Present(s)
    BY WorkSame, Zenon
  <2>2. pc[s] \in {"waiting", "woken"} /\ serialising[s]
    BY Zenon
  <2> QED BY <2>1, <2>2, Zenon DEF Core, WaitsOnce

(* Nobody new in the driver, and the spans as they were: a serialising     *)
(* request is still alone there.                                           *)
<1>AloneSame.
    ASSUME Core, serialising' = serialising, overlap' = overlap,
           \A s \in Requests : InDriver(s)' => InDriver(s)
    PROVE  SerialisingAlone'
  BY <1>AloneSame, Zenon DEF Core, SerialisingAlone

(* A request that ends.                                                    *)
<1>EndCore.
    ASSUME Core, NEW r \in Requests, work' = work, InDriver(r), End(r)
    PROVE  Core'
(* QLIST_REMOVE.                                                           *)
  <2> USE <1>EndCore
  <2>Unlinked.
      ASSUME NEW q \in Seq(Requests), NEW n \in DOMAIN q,
             \A i, j \in DOMAIN q : q[i] = q[j] => i = j
      PROVE  /\ Unlink(q, n) \in Seq(Requests) /\ Range(Unlink(q, n)) = Range(q) \ {q[n]}
             /\ \A i, j \in DOMAIN Unlink(q, n) :
                    Unlink(q, n)[i] = Unlink(q, n)[j] => i = j
    <3> USE <2>Unlinked
    <3> DEFINE a == SubSeq(q, 1, n - 1)
               b == SubSeq(q, n + 1, Len(q))
               p == a \o b
    <3>1. Len(q) \in Nat /\ DOMAIN q = 1 .. Len(q) /\ n \in 1 .. Len(q)
      OBVIOUS
    <3>2. /\ a \in Seq(Requests) /\ Len(a) = n - 1
          /\ \A i \in 1 .. n - 1 : a[i] = q[i]
      BY <3>1
    <3>3. /\ b \in Seq(Requests) /\ Len(b) = Len(q) - n
          /\ \A i \in 1 .. Len(q) - n : b[i] = q[n + i]
      <4>1. \A i \in n + 1 .. Len(q) : q[i] \in Requests
        BY <3>1
      <4>2. b \in Seq(Requests)
        BY <3>1, <4>1
      <4>3. Len(b) = Len(q) - n
        BY <3>1
      <4>4. \A i \in 1 .. Len(q) - n : b[i] = q[n + 1 + i - 1]
        BY <3>1
      <4>5. \A i \in 1 .. Len(q) - n : n + 1 + i - 1 = n + i
        BY <3>1
      <4> QED BY <4>2, <4>3, <4>4, <4>5, SMTT(30)
    <3>4. Unlink(q, n) = p
      BY DEF Unlink
    <3> HIDE DEF a, b
    <3>5. /\ p \in Seq(Requests) /\ Len(p) = Len(a) + Len(b)
          /\ \A i \in 1 .. Len(a) : p[i] = a[i]
          /\ \A i \in 1 .. Len(b) : p[Len(a) + i] = b[i]
      <4>1. a \in Seq(Requests) /\ b \in Seq(Requests)
        BY <3>2, <3>3, Zenon
      <4> QED BY <4>1
    <3> HIDE DEF p
    <3>6. DOMAIN p = 1 .. Len(q) - 1
      BY <3>1, <3>2, <3>3, <3>5
    <3> DEFINE at(i) == IF i < n THEN i ELSE i + 1
    <3>7. ASSUME NEW i \in DOMAIN p PROVE at(i) \in DOMAIN q /\ at(i) # n /\ p[i] = q[at(i)]
      <4>1. CASE i < n
        <5>1. i \in 1 .. n - 1 /\ i \in 1 .. Len(a) /\ at(i) = i /\ i \in DOMAIN q /\ i # n
          BY <3>1, <3>2, <3>6, <4>1
        <5>2. p[i] = a[i] /\ a[i] = q[i]
          BY <3>2, <3>5, <5>1, Zenon
        <5> QED BY <5>1, <5>2, Zenon
      <4>2. CASE ~(i < n)
        <5>1. i - (n - 1) \in 1 .. Len(b) /\ i = Len(a) + (i - (n - 1))
              /\ i - (n - 1) \in 1 .. Len(q) - n /\ n + (i - (n - 1)) = i + 1
          BY <3>1, <3>2, <3>3, <3>6, <4>2, SMTT(30)
        <5>2. p[i] = b[i - (n - 1)] /\ b[i - (n - 1)] = q[i + 1]
          BY <3>3, <3>5, <5>1, ZenonT(30)
        <5> QED BY <3>1, <3>6, <4>2, <5>2
      <4> QED BY <4>1, <4>2
    <3>8. ASSUME NEW i \in DOMAIN q, i # n PROVE \E j \in DOMAIN p : at(j) = i
      <4>1. CASE i < n
        BY <3>1, <3>6, <4>1
      <4>2. CASE i > n
        <5>1. i - 1 \in DOMAIN p /\ at(i - 1) = i
          BY <3>1, <3>6, <4>2
        <5> QED BY <5>1
      <4> QED BY <3>1, <3>8, <4>1, <4>2
    <3>9. \A i, j \in DOMAIN p : at(i) = at(j) => i = j
      BY <3>1, <3>6
    <3> HIDE DEF at
    <3>10. Range(p) = Range(q) \ {q[n]}
      <4>1. Range(p) \subseteq Range(q) \ {q[n]}
        <5> SUFFICES ASSUME NEW i \in DOMAIN p PROVE p[i] \in Range(q) \ {q[n]}
          BY Zenon DEF Range
        <5>1. at(i) \in DOMAIN q /\ at(i) # n /\ p[i] = q[at(i)]
          BY <3>7, Zenon
        <5>2. q[at(i)] # q[n]
          BY <5>1, Zenon
        <5> QED BY <5>1, <5>2, Zenon DEF Range
      <4>2. ASSUME NEW i \in DOMAIN q, q[i] # q[n] PROVE q[i] \in Range(p)
        BY <3>7, <3>8, <4>2, ZenonT(30) DEF Range
      <4> QED BY <4>1, <4>2, ZenonT(30) DEF Range
    <3>11. \A i, j \in DOMAIN p : p[i] = p[j] => i = j
      BY <3>7, <3>9, Zenon
    <3> QED BY <3>4, <3>5, <3>10, <3>11

  <2>1. /\ CoreTypeOK /\ Listed /\ WaitsFor /\ SerialisingCounted
    BY Zenon DEF Core
  <2>2. /\ work \in Workloads /\ tracked \in Seq(Requests) /\ in_flight \in Nat
        /\ serialising \in [Requests -> BOOLEAN] /\ phase \in [Requests -> Nat]
        /\ pc \in [Requests -> Places] /\ overlap \in [Requests -> Extents]
        /\ waiting_for \in [Requests -> Requests \cup {NULL}]
    BY <2>1, Zenon DEF CoreTypeOK
  <2> DEFINE n == CHOOSE i \in DOMAIN tracked : tracked[i] = r
  <2>3. /\ in_flight' = IF serialising[r] THEN in_flight - 1 ELSE in_flight
        /\ tracked' = Unlink(tracked, n)
        /\ pc' = [s \in Requests |->
                     IF s = r THEN "done"
                     ELSE IF pc[s] = "waiting" /\ waiting_for[s] = r THEN "woken" ELSE pc[s]]
        /\ waiting_for' = waiting_for /\ phase' = phase
        /\ serialising' = serialising /\ overlap' = overlap
    BY Zenon DEF End, Counted, KeepsWaiters, Wakes
  <2>4. n \in DOMAIN tracked /\ tracked[n] = r
    <3>1. r \in Range(tracked)
      BY <1>TrackedFacts, Zenon
    <3> QED BY <3>1, Zenon DEF Range
  <2> HIDE DEF n
  <2>5. /\ tracked' \in Seq(Requests) /\ Range(tracked') = Range(tracked) \ {r}
        /\ \A i, j \in DOMAIN tracked' : tracked'[i] = tracked'[j] => i = j
    <3>1. \A i, j \in DOMAIN tracked : tracked[i] = tracked[j] => i = j
      BY <2>1, Zenon DEF Listed
    <3> QED BY <2>2, <2>3, <2>4, <3>1, <2>Unlinked, Zenon
  <2>6. /\ pc'[r] = "done" /\ pc' \in [Requests -> Places]
        /\ \A s \in Requests \ {r} :
               \/ pc'[s] = pc[s] /\ ~(pc[s] = "waiting" /\ waiting_for[s] = r)
               \/ pc'[s] = "woken" /\ pc[s] = "waiting"
    <3>1. "done" \in Places /\ "woken" \in Places
      BY DEF Places
    <3> QED BY <2>2, <2>3, <3>1
  <2>7. pc[r] \in {"io", "copying"} /\ r \in Range(tracked) /\ waiting_for[r] = NULL
    BY <1>TrackedFacts, Zenon DEF InDriver
  <2> DEFINE S == {s \in Range(tracked) : serialising[s]}
             S2 == {s \in Range(tracked') : serialising[s]}
  <2>8. in_flight = Cardinality(S) /\ IsFiniteSet(S)
    <3>1. IsFiniteSet(S)
      BY <2>2, <1>NoneInFlight, Zenon
    <3> QED BY <2>1, <3>1, Zenon DEF SerialisingCounted
  <2>9. in_flight' = Cardinality(S2) /\ in_flight' \in Nat
    <3>1. CASE serialising[r]
      <4>1. S2 = S \ {r} /\ r \in S
        BY <2>5, <2>7, <3>1, Zenon
      <4>2. Cardinality(S2) = Cardinality(S) - 1
        <5> HIDE DEF S, S2
        <5> QED BY <2>8, <4>1, Zenon DEF Counting
      <4>3. Cardinality(S2) \in Nat
        BY <2>2, <2>5, <1>NoneInFlight, Zenon
      <4> QED BY <2>3, <2>8, <3>1, <4>2, <4>3, Zenon
    <3>2. CASE ~serialising[r]
      <4>1. S2 = S
        BY <2>5, <3>2, Zenon
      <4> QED BY <2>2, <2>3, <2>8, <3>2, <4>1, Zenon
    <3> QED BY <3>1, <3>2
  <2>10. SerialisingCounted'
    BY <2>3, <2>9, Zenon DEF SerialisingCounted
  <2>11. CoreTypeOK'
    BY <2>2, <2>3, <2>5, <2>6, <2>9, Zenon DEF CoreTypeOK
  <2>12. Listed'
    <3>1. \A s \in Requests \ {r} : s \in Range(tracked') <=> pc'[s] \notin {"new", "done"}
      BY <2>1, <2>5, <2>6 DEF Listed
    <3> QED BY <2>5, <2>6, <3>1, Zenon DEF Listed
  <2>13. WaitsFor'
    <3>1. \A s \in Requests \ {r} : waiting_for'[s] # NULL <=> pc'[s] \in {"waiting", "woken"}
      BY <2>1, <2>3, <2>6 DEF WaitsFor
    <3>2. waiting_for'[r] = NULL /\ pc'[r] \notin {"waiting", "woken"}
      BY <2>3, <2>6, <2>7
    <3> QED BY <3>1, <3>2, Zenon DEF WaitsFor
  <2>14. Marked'
    <3>1. \A s \in Requests : pc'[s] = "new" <=> pc[s] = "new"
      BY <2>6, <2>7
    <3> QED BY <2>3, <3>1, <1>MarksSame, Zenon
  <2>15. WaitsOnce'
    <3>1. \A s \in Requests : pc'[s] \in {"waiting", "woken"} => pc[s] \in {"waiting", "woken"}
      BY <2>6
    <3> QED BY <2>3, <3>1, <1>WaitsSame, Zenon
  <2>16. SerialisingAlone'
    <3>1. \A s \in Requests : InDriver(s)' => InDriver(s)
      BY <2>6, <2>7 DEF InDriver
    <3> QED BY <2>3, <3>1, <1>AloneSame, Zenon
  <2>17. NoWaitCycle'
    <3>1. ASSUME NEW t \in Requests, pc'[t] = "waiting"
          PROVE  /\ pc[t] = "waiting" /\ waiting_for'[t] = waiting_for[t]
                 /\ waiting_for[t] \in Range(tracked')
      <4>1. pc[t] = "waiting" /\ waiting_for[t] # r /\ waiting_for'[t] = waiting_for[t]
        BY <2>3, <2>6, <3>1
      <4>2. waiting_for[t] \in Range(tracked)
        BY <4>1, Zenon DEF Core, NoWaitCycle
      <4> QED BY <2>5, <4>1, <4>2, Zenon
    <3> QED BY <3>1, <1>NoNewCycle, Zenon
  <2> QED BY <2>10, <2>11, <2>12, <2>13, <2>14, <2>15, <2>16, <2>17, Zenon DEF Core

(* A request that was woken walks the list again.                          *)
<1>ResumeCore.
    ASSUME Core, NEW r \in Requests, Resume(r)
    PROVE  Core'
  <2> USE <1>ResumeCore
  <2>1. /\ CoreTypeOK /\ Listed /\ WaitsFor /\ SerialisingCounted /\ SerialisingAlone
    BY Zenon DEF Core
  <2>2. /\ tracked \in Seq(Requests) /\ pc \in [Requests -> Places]
        /\ waiting_for \in [Requests -> Requests \cup {NULL}]
    BY <2>1, Zenon DEF CoreTypeOK
  <2>3. /\ pc[r] = "woken" /\ Walk(r, tracked, serialising, overlap)
        /\ work' = work /\ phase' = phase /\ tracked' = tracked /\ in_flight' = in_flight
        /\ serialising' = serialising /\ overlap' = overlap
    BY Zenon DEF Resume
  <2>4. Range(tracked) \subseteq Requests
    BY <2>2 DEF Range
  <2>5. \/ /\ pc' = [pc EXCEPT ![r] = "waiting"]
           /\ \E s \in Range(tracked) : /\ Blocks(s, r, serialising, overlap)
                                        /\ waiting_for' = [waiting_for EXCEPT ![r] = s]
        \/ /\ pc' = [pc EXCEPT ![r] = "io"]
           /\ waiting_for' = [waiting_for EXCEPT ![r] = NULL]
           /\ \A s \in Range(tracked) : ~Blocks(s, r, serialising, overlap)
    BY <2>2, <2>3, <1>WalkFacts, Zenon
  <2>6. /\ pc' \in [Requests -> Places]
        /\ waiting_for' \in [Requests -> Requests \cup {NULL}]
        /\ \A s \in Requests \ {r} : pc'[s] = pc[s] /\ waiting_for'[s] = waiting_for[s]
        /\ \/ pc'[r] = "waiting" /\ waiting_for'[r] \in Requests
           \/ pc'[r] = "io" /\ waiting_for'[r] = NULL
    <3>1. "waiting" \in Places /\ "io" \in Places
      BY DEF Places
    <3> QED BY <2>2, <2>4, <2>5, <3>1, ZenonT(60)
  <2>7. CoreTypeOK'
    BY <2>1, <2>3, <2>6, Zenon DEF CoreTypeOK
  <2>8. Listed'
    <3>1. \A s \in Requests : s \in Range(tracked) <=> pc'[s] \notin {"new", "done"}
      BY <2>1, <2>3, <2>6 DEF Listed
    <3> QED BY <2>1, <2>3, <3>1, Zenon DEF Listed
  <2>9. WaitsFor'
    <3>1. waiting_for'[r] # NULL <=> pc'[r] \in {"waiting", "woken"}
      BY <2>6, TrackedAssumption
    <3> QED BY <2>1, <2>6, <3>1, Zenon DEF WaitsFor
  <2>10. SerialisingCounted'
    BY <2>1, <2>3, Zenon DEF SerialisingCounted
  <2>11. Marked'
    <3>1. \A s \in Requests : pc'[s] = "new" <=> pc[s] = "new"
      BY <2>3, <2>6
    <3> QED BY <2>3, <3>1, <1>MarksSame, Zenon
  <2>12. WaitsOnce'
    <3>1. \A s \in Requests : pc'[s] \in {"waiting", "woken"} => pc[s] \in {"waiting", "woken"}
      BY <2>3, <2>6
    <3> QED BY <2>3, <3>1, <1>WaitsSame, Zenon
  <2>13. SerialisingAlone'
    <3>1. ASSUME NEW s \in Requests, s # r, InDriver(r)', InDriver(s)',
                 serialising[s] \/ serialising[r]
          PROVE  ~Overlap(overlap[s], overlap[r])
      <4>1. pc'[r] = "io" /\ pc'[s] = pc[s]
        BY <2>6, <3>1 DEF InDriver
      <4>2. InDriver(s)
        BY <3>1, <4>1, Zenon DEF InDriver
      <4>3. s \in Range(tracked) /\ waiting_for[s] = NULL
        BY <4>2, <1>TrackedFacts, Zenon
      <4>4. pc' # [pc EXCEPT ![r] = "waiting"]
        BY <2>2, <4>1
      <4> QED BY <2>5, <3>1, <4>3, <4>4, Zenon DEF Blocks
    <3>2. ASSUME NEW s \in Requests, NEW t \in Requests, s # r, t # r, s # t,
                 serialising[s], InDriver(s)', InDriver(t)'
          PROVE  ~Overlap(overlap[s], overlap[t])
      <4>1. InDriver(s) /\ InDriver(t)
        BY <2>6, <3>2, Zenon DEF InDriver
      <4> QED BY <2>1, <3>2, <4>1, Zenon DEF SerialisingAlone
    <3>3. \A a, b : Overlap(a, b) <=> Overlap(b, a)
      BY Zenon DEF Overlap
    <3> QED BY <2>3, <3>1, <3>2, <3>3, Zenon DEF SerialisingAlone
  <2>14. NoWaitCycle'
    <3>1. CASE /\ pc' = [pc EXCEPT ![r] = "waiting"]
               /\ \E s \in Range(tracked) : /\ Blocks(s, r, serialising, overlap)
                                            /\ waiting_for' = [waiting_for EXCEPT ![r] = s]
      <4>1. PICK s \in Range(tracked) : /\ Blocks(s, r, serialising, overlap)
                                        /\ waiting_for' = [waiting_for EXCEPT ![r] = s]
        BY <3>1, Zenon
      <4>2. s \in Requests /\ s # r /\ waiting_for[s] = NULL /\ s \in Range(tracked')
        BY <2>3, <2>4, <4>1, Zenon DEF Blocks
      <4>3. r \in Range(tracked')
            /\ \A t \in Requests : t # r /\ t \in Range(tracked) => t \in Range(tracked')
        BY <2>1, <2>3, Zenon DEF Listed
      <4> QED BY <3>1, <4>1, <4>2, <4>3, <1>NoCycleYet, Zenon
    <3>2. CASE pc' = [pc EXCEPT ![r] = "io"]
      <4>1. pc'[r] = "io"
        BY <2>2, <3>2
      <4>2. ASSUME NEW t \in Requests, pc'[t] = "waiting"
            PROVE  /\ pc[t] = "waiting" /\ waiting_for'[t] = waiting_for[t]
                   /\ waiting_for[t] \in Range(tracked')
        <5>1. t # r
          BY <4>1, <4>2
        <5>2. pc[t] = "waiting" /\ waiting_for'[t] = waiting_for[t]
          BY <2>6, <4>2, <5>1, Zenon
        <5>3. waiting_for[t] \in Range(tracked)
          BY <5>2, Zenon DEF Core, NoWaitCycle
        <5> QED BY <2>3, <5>2, <5>3, Zenon
      <4> QED BY <4>2, <1>NoNewCycle, Zenon
    <3> QED BY <2>5, <3>1, <3>2, Zenon
  <2> QED BY <2>7, <2>8, <2>9, <2>10, <2>11, <2>12, <2>13, <2>14, Zenon DEF Core

(* The driver has read the clusters, and now writes them.                  *)
<1>CopyCore.
    ASSUME Core, NEW r \in Requests, pc[r] = "io", work' = work, Copies(r)
    PROVE  Core'
  <2> USE <1>CopyCore
  <2>1. /\ CoreTypeOK /\ Listed /\ WaitsFor /\ SerialisingCounted
    BY Zenon DEF Core
  <2>2. pc \in [Requests -> Places] /\ "copying" \in Places
    BY <2>1 DEF CoreTypeOK, Places
  <2>3. /\ pc' \in [Requests -> Places] /\ pc'[r] = "copying"
        /\ \A s \in Requests \ {r} : pc'[s] = pc[s]
    BY <2>2, Zenon DEF Copies
  <2>4. /\ phase' = phase /\ tracked' = tracked /\ in_flight' = in_flight
        /\ serialising' = serialising /\ overlap' = overlap /\ waiting_for' = waiting_for
    BY DEF Copies
  <2>5. /\ \A s \in Requests : pc'[s] = "new" <=> pc[s] = "new"
        /\ \A s \in Requests : pc'[s] = "done" <=> pc[s] = "done"
        /\ \A s \in Requests : pc'[s] = "waiting" <=> pc[s] = "waiting"
        /\ \A s \in Requests : pc'[s] = "woken" <=> pc[s] = "woken"
        /\ \A s \in Requests : InDriver(s)' => InDriver(s)
    BY <2>3 DEF InDriver
  <2>6. CoreTypeOK'
    BY <2>1, <2>3, <2>4, Zenon DEF CoreTypeOK
  <2>7. Listed'
    <3>1. \A s \in Requests : pc'[s] \in {"new", "done"} <=> pc[s] \in {"new", "done"}
      BY <2>5
    <3> QED BY <2>1, <2>4, <3>1, Zenon DEF Listed
  <2>8. WaitsFor'
    <3>1. \A s \in Requests : pc'[s] \in {"waiting", "woken"} <=> pc[s] \in {"waiting", "woken"}
      BY <2>5
    <3> QED BY <2>1, <2>4, <3>1, Zenon DEF WaitsFor
  <2>9. SerialisingCounted'
    BY <2>1, <2>4, Zenon DEF SerialisingCounted
  <2>10. Marked'
    BY <2>4, <2>5, <1>MarksSame, Zenon
  <2>11. WaitsOnce'
    <3>1. \A s \in Requests : pc'[s] \in {"waiting", "woken"} => pc[s] \in {"waiting", "woken"}
      BY <2>5
    <3> QED BY <2>4, <3>1, <1>WaitsSame, Zenon
  <2>12. SerialisingAlone'
    BY <2>4, <2>5, <1>AloneSame, Zenon
  <2>13. NoWaitCycle'
    <3>1. ASSUME NEW t \in Requests, pc'[t] = "waiting"
          PROVE  /\ pc[t] = "waiting" /\ waiting_for'[t] = waiting_for[t]
                 /\ waiting_for[t] \in Range(tracked')
      <4>1. pc[t] = "waiting"
        BY <2>5, <3>1, Zenon
      <4>2. waiting_for[t] \in Range(tracked)
        BY <4>1, Zenon DEF Core, NoWaitCycle
      <4> QED BY <2>4, <4>1, <4>2, Zenon
    <3> QED BY <3>1, <1>NoNewCycle, Zenon
  <2> QED BY <2>6, <2>7, <2>8, <2>9, <2>10, <2>11, <2>12, <2>13, Zenon DEF Core

(* A step that changes nothing keeps Core.                                 *)
<1>CoreStays.
    ASSUME Core, work' = work, pc' = pc, phase' = phase, tracked' = tracked,
           in_flight' = in_flight, serialising' = serialising, overlap' = overlap,
           waiting_for' = waiting_for
    PROVE  Core'
  <2> USE <1>CoreStays
  <2>1. CoreTypeOK' /\ WaitsFor'
    BY Zenon DEF Core, CoreTypeOK, WaitsFor
  <2>2. Listed'
    BY ZenonT(60) DEF Core, Listed, Range
  <2>3. SerialisingCounted'
    BY Zenon DEF Core, SerialisingCounted, Range
  <2>4. Marked' /\ WaitsOnce'
    BY <1>MarksSame, <1>WaitsSame, Zenon
  <2>5. SerialisingAlone'
    BY <1>AloneSame, Zenon DEF InDriver
  <2>6. NoWaitCycle'
    <3>1. \A t \in Requests : pc[t] = "waiting" => waiting_for[t] \in Range(tracked')
      BY DEF Core, NoWaitCycle
    <3> QED BY <3>1, <1>NoNewCycle, Zenon
  <2> QED BY <2>1, <2>2, <2>3, <2>4, <2>5, <2>6, Zenon DEF Core

(* A request that ends wakes others but sends nobody to the driver.        *)
<1>EndStays.
    ASSUME Core, NEW r \in Requests, End(r)
    PROVE  OthersStay(r) /\ pc'[r] = "done"
  <2> USE <1>EndStays
  <2>1. /\ pc' = [s \in Requests |->
                     IF s = r THEN "done"
                     ELSE IF pc[s] = "waiting" /\ waiting_for[s] = r THEN "woken" ELSE pc[s]]
        /\ phase' = phase
    BY Zenon DEF End, Wakes
  <2> QED BY <2>1 DEF OthersStay

(* A request goes on to its next call, or ends.                            *)
<1>ContinueCore.
    ASSUME Core, NEW r \in Requests, work' = work, pc[r] = "io", Continue(r)
    PROVE  /\ Core' /\ OthersStay(r) /\ pc'[r] # "copying"
           /\ pc'[r] = "io" => phase'[r] = phase[r] + 1
  <2> USE <1>ContinueCore
  <2> DEFINE C == Calls(work[r])
  <2>1. /\ work \in Workloads /\ pc \in [Requests -> Places] /\ phase \in [Requests -> Nat]
        /\ phase[r] \in DOMAIN C
    BY Zenon DEF Core, CoreTypeOK, Marked
  <2>2. CASE phase[r] < Len(C)
    <3>1. Enter(r, phase[r] + 1, tracked)
      BY <2>2, Zenon DEF Continue
    <3>2. phase[r] + 1 \in DOMAIN C
      <4>1. DOMAIN C = 1 .. Len(C) /\ Len(C) \in Nat
        BY <2>1, CallsListed, Zenon
      <4> HIDE DEF C
      <4> QED BY <2>1, <2>2, <4>1
    <3>3. Arrives(r, phase[r] + 1, tracked)
      BY <3>2, Zenon DEF Arrives
    <3>4. Core'
      BY <3>1, <3>3, <1>EnterCore, Zenon
    <3>5. pc' = [pc EXCEPT ![r] = "waiting"] \/ pc' = [pc EXCEPT ![r] = "io"]
      BY <3>1, <3>3, <1>EnterFacts, Zenon
    <3>6. phase' = [phase EXCEPT ![r] = phase[r] + 1]
      BY <3>1, Zenon DEF Enter
    <3>7. phase'[r] = phase[r] + 1 /\ \A s \in Requests \ {r} : phase'[s] = phase[s]
      BY <2>1, <3>6, Zenon
    <3>8. pc'[r] \in {"waiting", "io"} /\ \A s \in Requests \ {r} : pc'[s] = pc[s]
      BY <2>1, <3>5, Zenon
    <3> QED BY <3>4, <3>7, <3>8, Zenon DEF OthersStay
  <2>3. CASE ~(phase[r] < Len(C))
    <3>1. End(r)
      BY <2>3, Zenon DEF Continue
    <3>2. InDriver(r)
      BY DEF InDriver
    <3>3. Core'
      BY <3>1, <3>2, <1>EndCore, Zenon
    <3>4. OthersStay(r) /\ pc'[r] = "done"
      BY <3>1, <1>EndStays, Zenon
    <3> QED BY <3>3, <3>4
  <2> QED BY <2>2, <2>3

<1> SUFFICES ASSUME Core, work' = work
             PROVE  /\ UNCHANGED vars => Core'
                    /\ \A r \in Requests :
                       /\ Begin(r) =>
                              /\ Core'
                              /\ \/ pc' = [pc EXCEPT ![r] = "waiting"]
                                 \/ pc' = [pc EXCEPT ![r] = "io"]
                       /\ Resume(r) => Core'
                       /\ InDriver(r) /\ End(r) => Core' /\ OthersStay(r) /\ pc'[r] = "done"
                       /\ pc[r] = "io" /\ Continue(r) =>
                              /\ Core' /\ OthersStay(r) /\ pc'[r] # "copying"
                              /\ pc'[r] = "io" => phase'[r] = phase[r] + 1
                       /\ pc[r] = "io" /\ Copies(r) => Core'
  BY Zenon
<1>1. ASSUME NEW r \in Requests, Begin(r)
      PROVE  Core' /\ (pc' = [pc EXCEPT ![r] = "waiting"] \/ pc' = [pc EXCEPT ![r] = "io"])
  <2>1. pc[r] = "new" /\ Enter(r, 1, <<r>> \o tracked)
    BY <1>1, Zenon DEF Begin
  <2>2. Arrives(r, 1, <<r>> \o tracked)
    BY <2>1, Zenon DEF Arrives
  <2>3. Core'
    BY <2>1, <2>2, <1>EnterCore, Zenon
  <2>4. pc' = [pc EXCEPT ![r] = "waiting"] \/ pc' = [pc EXCEPT ![r] = "io"]
    BY <2>1, <2>2, <1>EnterFacts, Zenon
  <2> QED BY <2>3, <2>4, Zenon
<1>2. ASSUME NEW r \in Requests, Resume(r) PROVE Core'
  BY <1>2, <1>ResumeCore, Zenon
<1>3. ASSUME NEW r \in Requests, InDriver(r), End(r)
      PROVE  Core' /\ OthersStay(r) /\ pc'[r] = "done"
  BY <1>3, <1>EndCore, <1>EndStays, Zenon
<1>4. ASSUME NEW r \in Requests, pc[r] = "io", Continue(r)
      PROVE  /\ Core' /\ OthersStay(r) /\ pc'[r] # "copying"
             /\ pc'[r] = "io" => phase'[r] = phase[r] + 1
  BY <1>4, <1>ContinueCore, Zenon
<1>5. ASSUME NEW r \in Requests, pc[r] = "io", Copies(r) PROVE Core'
  BY <1>5, <1>CopyCore, Zenon
<1>6. ASSUME UNCHANGED vars PROVE Core'
  BY <1>6, <1>CoreStays, ZenonT(60) DEF vars
<1> QED BY <1>1, <1>2, <1>3, <1>4, <1>5, <1>6, Zenon

-----------------------------------------------------------------------------
(* What the calls of a request in the driver touch.                        *)

(* A write is inside what is tracked of its request.                       *)
LEMMA WriteInside ==
    ASSUME Core, NEW r \in Requests, pc[r] # "new", Present(r).io = "write"
    PROVE  /\ ~IsRead(r)
           /\ overlap[r].off <= Present(r).span.lo
           /\ Present(r).span.hi <= Ends(overlap[r])
<1> DEFINE C == Calls(work[r])
           k == phase[r]
<1>1. /\ work \in Workloads /\ k \in DOMAIN C
      /\ serialising[r] <=> \E j \in 1 .. k : C[j].mark > 0
      /\ overlap[r] = IF serialising[r] THEN Widened(r) ELSE Begins(r)
  BY Zenon DEF Core, CoreTypeOK, Marked
<1>2. DOMAIN C = 1 .. Len(C) /\ Len(C) \in Nat /\ \A j \in 1 .. Len(C) : C[j] \in CallSet
  BY <1>1, CallsListed, Zenon
<1>3. CallOK(r, C, k)
  BY <1>1, WorkOK, ZenonT(60) DEF CallsOK
<1>4. Present(r) = C[k]
  BY DEF Present
<1> HIDE DEF C, k
<1>5. CASE serialising[r]
  BY <1>1, <1>3, <1>4, <1>5, Zenon DEF CallOK
<1>6. CASE ~serialising[r]
  <2>1. \A j \in 1 .. k : C[j].mark = 0
    <3> SUFFICES ASSUME NEW j \in 1 .. k PROVE C[j].mark = 0
      OBVIOUS
    <3>1. ~(C[j].mark > 0)
      BY <1>1, <1>6, Zenon
    <3>2. j \in 1 .. Len(C)
      BY <1>1, <1>2
    <3>3. C[j] \in CallSet
      BY <1>2, <3>2, Zenon
    <3> QED BY <3>1, <3>3 DEF CallSet
  <2> QED BY <1>1, <1>3, <1>4, <1>6, <2>1, Zenon DEF CallOK
<1> QED BY <1>5, <1>6

(* The clusters of a copy on read are what is tracked of it.               *)
LEMMA ClustersInside ==
    ASSUME Core, NEW r \in Requests, pc[r] # "new", work[r].op = "cor"
    PROVE  /\ serialising[r] /\ phase[r] = 1
           /\ Clusters(r).lo = overlap[r].off /\ Clusters(r).hi = Ends(overlap[r])
<1> DEFINE C == Calls(work[r])
<1>1. /\ work \in Workloads /\ phase[r] \in DOMAIN C
      /\ serialising[r] <=> \E j \in 1 .. phase[r] : C[j].mark > 0
      /\ overlap[r] = IF serialising[r] THEN Widened(r) ELSE Begins(r)
  BY Zenon DEF Core, CoreTypeOK, Marked
<1>2. IsRead(r) /\ Grain(r) = Cluster
  BY DEF IsRead, Grain
<1>3. /\ Len(C) = 1 /\ DOMAIN C = 1 .. Len(C) /\ C[1].mark > 0
      /\ C[1].span.lo = Begins(r).off /\ C[1].span.hi = Ends(Begins(r))
  BY <1>1, <1>2, WorkOK, Zenon DEF CallsOK
<1> HIDE DEF C
<1>4. phase[r] = 1 /\ 1 \in 1 .. phase[r]
  BY <1>1, <1>3
<1>5. serialising[r] /\ overlap[r] = Widened(r)
  BY <1>1, <1>3, <1>4, ZenonT(30)
<1>6. Widened(r).off = Down(Begins(r).off, Cluster) /\ Ends(Widened(r)) = Up(Ends(Begins(r)), Cluster)
  BY <1>1, <1>2, WorkOK, ZenonT(60) DEF ExtentsOK
<1>7. Present(r) = C[1]
  BY <1>4, ZenonT(30) DEF Present, C
<1>8. Clusters(r).lo = Down(C[1].span.lo, Cluster) /\ Clusters(r).hi = Up(C[1].span.hi, Cluster)
  BY <1>7 DEF Clusters, Span
<1> QED BY <1>3, <1>4, <1>5, <1>6, <1>8, Zenon

(* What a request that writes has read before is inside too, and it        *)
(* serialises.                                                             *)
LEMMA ReadInside ==
    ASSUME Core, NEW r \in Requests, pc[r] # "new", NEW k \in 1 .. phase[r] - 1,
           Calls(work[r])[k].io = "read"
    PROVE  /\ serialising[r]
           /\ overlap[r].off <= Calls(work[r])[k].span.lo
           /\ Calls(work[r])[k].span.hi <= Ends(overlap[r])
<1> DEFINE C == Calls(work[r])
<1>1. /\ work \in Workloads /\ phase[r] \in DOMAIN C
      /\ serialising[r] <=> \E j \in 1 .. phase[r] : C[j].mark > 0
      /\ overlap[r] = IF serialising[r] THEN Widened(r) ELSE Begins(r)
  BY Zenon DEF Core, CoreTypeOK, Marked
<1>2. /\ DOMAIN C = 1 .. Len(C) /\ Len(C) \in Nat /\ (IsRead(r) => Len(C) = 1)
  BY <1>1, CallsListed, Zenon
<1> HIDE DEF C
<1>3. k \in 1 .. Len(C) /\ k \in 1 .. phase[r] /\ ~IsRead(r)
  BY <1>1, <1>2
<1>4. CallOK(r, C, k)
  BY <1>1, <1>3, WorkOK, Zenon DEF CallsOK, C
<1>5. C[k].mark > 0
  BY <1>3, <1>4, Zenon DEF CallOK, C
<1>6. serialising[r] /\ overlap[r] = Widened(r)
  BY <1>1, <1>3, <1>5, Zenon
<1> QED BY <1>4, <1>6, Zenon DEF CallOK, C

(* While r writes, what others in the driver have read and will write back *)
(* is not where it writes.                                                 *)
LEMMA NobodyReads ==
    ASSUME Core, CopiesOnRead, NEW r \in Requests, pc[r] = "io", Present(r).io = "write",
           NEW s \in Requests, s # r, InDriver(s),
           NEW u \in Units, Covers(Present(r).span, u)
    PROVE  /\ \A k \in 1 .. phase[s] - 1 :
                  ~(Calls(work[s])[k].io = "read" /\ Covers(Calls(work[s])[k].span, u))
           /\ pc[s] = "copying" => ~Covers(Clusters(s), u)
(* Two spans inside spans that do not overlap have no unit in common.      *)
<1>Disjoint.
    ASSUME NEW a \in Extents, NEW b \in Extents, ~Overlap(a, b), NEW uu \in Units,
           NEW ss \in [lo : Nat, hi : Nat], NEW t \in [lo : Nat, hi : Nat],
           a.off <= ss.lo, ss.hi <= Ends(a), b.off <= t.lo, t.hi <= Ends(b),
           Covers(ss, uu), Covers(t, uu)
    PROVE  FALSE
  <2> USE <1>Disjoint
  <2>1. /\ a.off \in Nat /\ a.len \in Nat /\ b.off \in Nat /\ b.len \in Nat /\ uu \in Nat
        /\ ss.lo \in Nat /\ ss.hi \in Nat /\ t.lo \in Nat /\ t.hi \in Nat
    BY TrackedAssumption DEF Extents, Units
  <2> QED BY <2>1 DEF Overlap, Ends, Covers

<1>1. /\ work \in Workloads /\ overlap \in [Requests -> Extents] /\ SerialisingAlone
      /\ phase[r] \in DOMAIN Calls(work[r]) /\ phase[s] \in DOMAIN Calls(work[s])
  BY Zenon DEF Core, CoreTypeOK, Marked
<1>2. overlap[r] \in Extents /\ overlap[s] \in Extents /\ InDriver(r) /\ pc[s] # "new"
      /\ pc[r] # "new"
  BY <1>1 DEF InDriver
<1>3. overlap[r].off <= Present(r).span.lo /\ Present(r).span.hi <= Ends(overlap[r])
  BY <1>2, WriteInside, Zenon
<1>4. Present(r).span \in [lo : Nat, hi : Nat]
  <2>1. Present(r) \in CallSet
    BY <1>1, WorkOK, Zenon DEF CallsOK, Present
  <2> QED BY <2>1 DEF CallSet
<1>5. serialising[s] => ~Overlap(overlap[s], overlap[r])
  BY <1>1, <1>2, Zenon DEF SerialisingAlone
<1>6. ASSUME NEW k \in 1 .. phase[s] - 1, Calls(work[s])[k].io = "read",
             Covers(Calls(work[s])[k].span, u)
      PROVE  FALSE
  <2>1. /\ serialising[s] /\ overlap[s].off <= Calls(work[s])[k].span.lo
        /\ Calls(work[s])[k].span.hi <= Ends(overlap[s])
    BY <1>2, <1>6, ReadInside, ZenonT(30)
  <2>2. Calls(work[s])[k].span \in [lo : Nat, hi : Nat]
    <3>1. DOMAIN Calls(work[s]) = 1 .. Len(Calls(work[s])) /\ Calls(work[s]) \in Seq(CallSet)
      BY <1>1, WorkOK, Zenon DEF CallsOK
    <3>2. k \in 1 .. Len(Calls(work[s]))
      BY <1>1, <1>6, <3>1
    <3>3. Calls(work[s])[k] \in CallSet
      BY <1>1, <3>2, WorkOK, Zenon DEF CallsOK
    <3> QED BY <3>3 DEF CallSet
  <2> QED BY <1>2, <1>3, <1>4, <1>5, <1>6, <2>1, <2>2, <1>Disjoint, Zenon
<1>7. ASSUME pc[s] = "copying", Covers(Clusters(s), u) PROVE FALSE
  <2>1. work[s].op = "cor"
    BY <1>7, Zenon DEF CopiesOnRead
  <2>2. /\ serialising[s] /\ Clusters(s).lo = overlap[s].off
        /\ Clusters(s).hi = Ends(overlap[s])
    BY <1>2, <2>1, ClustersInside, Zenon
  <2>3. overlap[s].off \in Nat /\ Ends(overlap[s]) \in Nat
    BY <1>2, TrackedAssumption DEF Extents, Ends
  <2>4. Clusters(s) = [lo |-> Clusters(s).lo, hi |-> Clusters(s).hi]
    BY DEF Clusters, Span
  <2>5. Clusters(s) \in [lo : Nat, hi : Nat]
    BY <2>2, <2>3, <2>4, SMTT(30)
  <2>6. overlap[s].off <= Clusters(s).lo /\ Clusters(s).hi <= Ends(overlap[s])
    BY <2>2, <2>3
  <2> QED BY <1>2, <1>3, <1>4, <1>5, <1>7, <2>2, <2>5, <2>6, <1>Disjoint, ZenonT(60)
<1> QED BY <1>6, <1>7, ZenonT(30)

-----------------------------------------------------------------------------
(* The image and what is read of it.                                       *)

(* What another request read is fresh as long as the image keeps it.       *)
LEMMA StaysFresh ==
    ASSUME NEW s \in Requests, NEW u \in Units, FreshAt(s, u), work' = work,
           pc'[s] \in {"io", "copying"} => pc'[s] = pc[s] /\ phase'[s] = phase[s],
           buf'[s] = buf[s], disk'[u] = disk[u]
    PROVE  FreshAt(s, u)'
<1>1. Own(s)' = Own(s) /\ (phase'[s] = phase[s] => Clusters(s)' = Clusters(s))
  BY WorkSame, Zenon
<1>2. CASE pc'[s] \in {"io", "copying"}
  <2>1. pc'[s] = pc[s] /\ phase'[s] = phase[s]
    BY <1>2, Zenon
  <2> QED BY <1>1, <2>1, Zenon DEF FreshAt, InDriver
<1>3. CASE pc'[s] \notin {"io", "copying"}
  <2>1. ~InDriver(s)' /\ pc'[s] # "copying"
    BY <1>3, Zenon DEF InDriver
  <2> QED BY <2>1, Zenon DEF FreshAt
<1> QED BY <1>2, <1>3

(* A write changes only what is its own: what it writes around it was read *)
(* before and is still so.                                                 *)
LEMMA WritesOwn ==
    ASSUME Core, Fresh, NEW r \in Requests, pc[r] = "io", Present(r).io = "write",
           Store(r, Present(r).span), NEW u \in Units, disk'[u] # disk[u]
    PROVE  /\ Covers(Present(r).span, u) /\ ~IsRead(r) /\ Covers(Own(r), u)
           /\ disk'[u] = r
<1> DEFINE C == Calls(work[r])
           k == phase[r]
<1>1. work \in Workloads /\ k \in DOMAIN C /\ pc[r] # "new" /\ InDriver(r) /\ u \in Nat
  BY TrackedAssumption DEF Core, CoreTypeOK, Marked, InDriver, Units
<1>2. ~IsRead(r)
  BY <1>1, WriteInside, ZenonT(30)
<1>3. disk'[u] = IF ~Covers(Present(r).span, u) THEN disk[u]
                 ELSE IF Covers(Own(r), u) /\ ~IsRead(r) THEN r ELSE buf[r][u]
  BY ZenonT(60) DEF Store
<1>4. Covers(Present(r).span, u)
  BY <1>3, Zenon
<1>5. ASSUME ~Covers(Own(r), u) PROVE FALSE
  <2>1. CallOK(r, C, k) /\ Present(r) = C[k]
    BY <1>1, WorkOK, Zenon DEF CallsOK, Present
  <2>2. PICK j \in 1 .. k - 1 : C[j].io = "read" /\ Covers(C[j].span, u)
    BY <1>1, <1>4, <1>5, <2>1, Zenon DEF CallOK
  <2>3. FreshAt(r, u)
    BY Zenon DEF Fresh
  <2>4. buf[r][u] = disk[u]
    BY <1>1, <1>5, <2>2, <2>3, Zenon DEF FreshAt
  <2> QED BY <1>3, <1>4, <1>5, <2>4, Zenon
<1> QED BY <1>2, <1>3, <1>4, <1>5, ZenonT(30)

(* A copy on read writes what is there.                                    *)
LEMMA CopiesSame ==
    ASSUME Core, CopiesOnRead, Fresh, NEW r \in Requests, pc[r] = "copying",
           Store(r, Clusters(r)), NEW u \in Units
    PROVE  disk'[u] = disk[u]
<1>1. IsRead(r)
  BY DEF CopiesOnRead, IsRead
<1>2. disk'[u] = IF ~Covers(Clusters(r), u) THEN disk[u]
                 ELSE IF Covers(Own(r), u) /\ ~IsRead(r) THEN r ELSE buf[r][u]
  BY DEF Store
<1>3. Covers(Clusters(r), u) => buf[r][u] = disk[u]
  BY Zenon DEF Fresh, FreshAt
<1> QED BY <1>1, <1>2, <1>3, Zenon

(* Reading and writing keep the types of the image and the buffers.        *)
LEMMA DataTypes ==
    ASSUME DataOK, NEW r \in Requests, NEW s
    PROVE  /\ Fetch(r, s) => buf' \in [Requests -> [Units -> Requests \cup {NULL}]]
           /\ Store(r, s) => /\ disk' \in [Units -> Requests \cup {NULL}]
                             /\ allocated' \subseteq Units
<1>1. ASSUME Fetch(r, s) PROVE buf' \in [Requests -> [Units -> Requests \cup {NULL}]]
  <2> DEFINE b == [u \in Units |-> IF Covers(s, u) THEN disk[u] ELSE buf[r][u]]
  <2>1. b \in [Units -> Requests \cup {NULL}]
    BY DEF DataOK
  <2>2. buf' = [buf EXCEPT ![r] = b]
    BY <1>1, Zenon DEF Fetch
  <2> HIDE DEF b
  <2> QED BY <2>1, <2>2, Zenon DEF DataOK
<1>2. ASSUME Store(r, s)
      PROVE  disk' \in [Units -> Requests \cup {NULL}] /\ allocated' \subseteq Units
  BY <1>2 DEF Store, DataOK
<1> QED BY <1>1, <1>2

(* Before a request has gone to the driver there is nothing it has read.   *)
LEMMA NothingRead ==
    ASSUME Core, NEW r \in Requests, pc[r] \in {"waiting", "woken"},
           NEW k \in 1 .. phase[r] - 1
    PROVE  Calls(work[r])[k].io # "read"
<1> SUFFICES ASSUME Calls(work[r])[k].io = "read" PROVE FALSE
  OBVIOUS
<1> DEFINE C == Calls(work[r])
<1>1. /\ work \in Workloads /\ phase[r] \in DOMAIN C
      /\ serialising[r] => \A j \in 1 .. phase[r] - 1 : C[j].mark = 0
  BY Zenon DEF Core, CoreTypeOK, Marked, WaitsOnce
<1>2. serialising[r]
  BY ReadInside, Zenon
<1>3. DOMAIN C = 1 .. Len(C) /\ Len(C) \in Nat /\ (IsRead(r) => Len(C) = 1)
  BY <1>1, CallsListed, Zenon
<1>4. C[k].mark = 0
  BY <1>1, <1>2, Zenon
<1> HIDE DEF C
<1>5. k \in 1 .. Len(C) /\ ~IsRead(r)
  BY <1>1, <1>3
<1>6. CallOK(r, C, k)
  BY <1>1, <1>5, WorkOK, Zenon DEF CallsOK, C
<1>7. C[k].mark > 0
  BY <1>5, <1>6, Zenon DEF CallOK, C
<1> QED BY <1>4, <1>7

-----------------------------------------------------------------------------
(* Every step keeps the invariant.                                         *)

(* A request that arrives is at its first call: it has read nothing.       *)
LEMMA BeginStep ==
    ASSUME Counting, LeastNumber, IInv, NEW r \in Requests, Begin(r)
    PROVE  IInv'
<1>1. Core /\ DataOK /\ CopiesOnRead /\ Fresh
  BY Zenon DEF IInv
<1>2. /\ pc[r] = "new" /\ Enter(r, 1, <<r>> \o tracked) /\ work' = work
      /\ disk' = disk /\ allocated' = allocated /\ buf' = buf
  BY Zenon DEF Begin
<1>3. phase' = [phase EXCEPT ![r] = 1]
  BY <1>2, Zenon DEF Enter
<1>4. Core' /\ (pc' = [pc EXCEPT ![r] = "waiting"] \/ pc' = [pc EXCEPT ![r] = "io"])
  BY <1>1, <1>2, CoreKept, Zenon
<1>6. pc \in [Requests -> Places] /\ phase \in [Requests -> Nat]
  BY <1>1, Zenon DEF Core, CoreTypeOK
<1>7. /\ \A s \in Requests \ {r} : pc'[s] = pc[s] /\ phase'[s] = phase[s]
      /\ pc'[r] # "copying" /\ phase'[r] = 1
  BY <1>3, <1>4, <1>6
<1>8. CopiesOnRead'
  BY <1>1, <1>2, <1>7, Zenon DEF CopiesOnRead
<1>9. ASSUME NEW s \in Requests, NEW u \in Units PROVE FreshAt(s, u)'
  <2>1. CASE s = r
    <3>1. \A k \in 1 .. phase'[r] - 1 : FALSE
      BY <1>7
    <3> QED BY <1>7, <2>1, <3>1, Zenon DEF FreshAt
  <2>2. CASE s # r
    <3>1. FreshAt(s, u)
      BY <1>1, Zenon DEF Fresh
    <3> QED BY <1>2, <1>7, <2>2, <3>1, StaysFresh, Zenon
  <2> QED BY <2>1, <2>2
<1>10. Fresh' /\ DataOK'
  BY <1>1, <1>2, <1>9, Zenon DEF Fresh, DataOK, Units
<1> QED BY <1>4, <1>8, <1>10, Zenon DEF IInv

(* A request that has waited has read nothing yet either.                  *)
LEMMA ResumeStep ==
    ASSUME Counting, LeastNumber, IInv, NEW r \in Requests, Resume(r)
    PROVE  IInv'
<1>1. Core /\ DataOK /\ CopiesOnRead /\ Fresh
  BY Zenon DEF IInv
<1>2. /\ pc[r] = "woken" /\ work' = work /\ phase' = phase
      /\ disk' = disk /\ allocated' = allocated /\ buf' = buf
      /\ \/ pc' = [pc EXCEPT ![r] = "waiting"]
         \/ pc' = [pc EXCEPT ![r] = "io"]
  BY Zenon DEF Resume, Walk
<1>3. Core'
  BY <1>1, <1>2, CoreKept, Zenon
<1>4. pc \in [Requests -> Places]
  BY <1>1, Zenon DEF Core, CoreTypeOK
<1>5. /\ \A s \in Requests \ {r} : pc'[s] = pc[s]
      /\ pc'[r] # "copying"
  BY <1>2, <1>4
<1>6. CopiesOnRead'
  BY <1>1, <1>2, <1>5, Zenon DEF CopiesOnRead
<1>7. ASSUME NEW s \in Requests, NEW u \in Units PROVE FreshAt(s, u)'
  <2>1. CASE s = r
    <3>1. \A k \in 1 .. phase[r] - 1 : Calls(work[r])[k].io # "read"
      BY <1>1, <1>2, NothingRead, Zenon
    <3> QED BY <1>2, <1>5, <2>1, <3>1, Zenon DEF FreshAt
  <2>2. CASE s # r
    <3>1. FreshAt(s, u)
      BY <1>1, Zenon DEF Fresh
    <3> QED BY <1>2, <1>5, <2>2, <3>1, StaysFresh, Zenon
  <2> QED BY <2>1, <2>2
<1>8. Fresh' /\ DataOK'
  BY <1>1, <1>2, <1>7, Zenon DEF Fresh, DataOK, Units
<1> QED BY <1>3, <1>6, <1>8, Zenon DEF IInv

(* A request that has failed leaves.                                       *)
LEMMA FailStep ==
    ASSUME Counting, LeastNumber, IInv, NEW r \in Requests, Fail(r)
    PROVE  IInv'
<1>1. Core /\ DataOK /\ CopiesOnRead /\ Fresh
  BY Zenon DEF IInv
<1>2. /\ InDriver(r) /\ End(r) /\ work' = work
      /\ disk' = disk /\ allocated' = allocated /\ buf' = buf
  BY Zenon DEF Fail, InDriver
<1>3. Core'
  BY <1>1, <1>2, CoreKept, Zenon
<1>4. OthersStay(r) /\ pc'[r] = "done"
  BY <1>1, <1>2, CoreKept, Zenon
<1>5. CopiesOnRead'
  BY <1>1, <1>2, <1>4, Zenon DEF CopiesOnRead, OthersStay
<1>6. ASSUME NEW s \in Requests, NEW u \in Units PROVE FreshAt(s, u)'
  <2>1. pc'[s] \in {"io", "copying"} => pc'[s] = pc[s] /\ phase'[s] = phase[s]
    BY <1>4 DEF OthersStay
  <2>2. FreshAt(s, u)
    BY <1>1, Zenon DEF Fresh
  <2> QED BY <1>2, <2>1, <2>2, StaysFresh, ZenonT(60)
<1>7. Fresh' /\ DataOK'
  BY <1>1, <1>2, <1>6, Zenon DEF Fresh, DataOK, Units
<1> QED BY <1>3, <1>5, <1>7, Zenon DEF IInv

(* A copy on read that is done leaves; the image is as it was.             *)
LEMMA CopiedStep ==
    ASSUME Counting, LeastNumber, IInv, NEW r \in Requests, Copied(r)
    PROVE  IInv'
<1>1. Core /\ DataOK /\ CopiesOnRead /\ Fresh
  BY Zenon DEF IInv
<1>2. /\ pc[r] = "copying" /\ Store(r, Clusters(r)) /\ End(r) /\ work' = work /\ buf' = buf
      /\ InDriver(r)
  BY Zenon DEF Copied, InDriver
<1>3. Core'
  BY <1>1, <1>2, CoreKept, Zenon
<1>4. OthersStay(r) /\ pc'[r] = "done"
  BY <1>1, <1>2, CoreKept, Zenon
<1>5. CopiesOnRead'
  BY <1>1, <1>2, <1>4, Zenon DEF CopiesOnRead, OthersStay
<1>6. ASSUME NEW s \in Requests, NEW u \in Units PROVE FreshAt(s, u)'
  <2>1. pc'[s] \in {"io", "copying"} => pc'[s] = pc[s] /\ phase'[s] = phase[s]
    BY <1>4 DEF OthersStay
  <2>2. FreshAt(s, u)
    BY <1>1, Zenon DEF Fresh
  <2>3. disk'[u] = disk[u]
    BY <1>1, <1>2, CopiesSame, Zenon
  <2> QED BY <1>2, <2>1, <2>2, <2>3, StaysFresh, Zenon
<1>7. DataOK'
  BY <1>1, <1>2, DataTypes, Zenon DEF DataOK, Units
<1>8. Fresh'
  BY <1>6, Zenon DEF Fresh, Units
<1> QED BY <1>3, <1>5, <1>7, <1>8, Zenon DEF IInv

(* What the driver has read is what the image holds.                       *)
LEMMA ReadStep ==
    ASSUME Counting, LeastNumber, IInv, NEW r \in Requests, Read(r)
    PROVE  IInv'
<1>1. Core /\ DataOK /\ CopiesOnRead /\ Fresh
  BY Zenon DEF IInv
<1>2. /\ pc[r] = "io" /\ work' = work /\ disk' = disk /\ allocated' = allocated
      /\ InDriver(r)
  BY Zenon DEF Read, InDriver
<1>3. /\ pc \in [Requests -> Places] /\ phase \in [Requests -> Nat]
      /\ buf \in [Requests -> [Units -> Requests \cup {NULL}]]
  BY <1>1, Zenon DEF Core, CoreTypeOK, DataOK
<1>4. ASSUME NEW t, Fetch(r, t)
      PROVE  /\ \A s \in Requests \ {r} : buf'[s] = buf[s]
             /\ \A u \in Units : buf'[r][u] = IF Covers(t, u) THEN disk[u] ELSE buf[r][u]
  BY <1>3, <1>4 DEF Fetch
<1>5. ASSUME ~MustCopy(r), Fetch(r, Present(r).span), Continue(r) PROVE IInv'
  <2>1. /\ Core' /\ OthersStay(r) /\ pc'[r] # "copying"
        /\ pc'[r] = "io" => phase'[r] = phase[r] + 1
    BY <1>1, <1>2, <1>5, CoreKept, Zenon
  <2>2. CopiesOnRead'
    BY <1>1, <1>2, <2>1, Zenon DEF CopiesOnRead, OthersStay
  <2>3. ASSUME NEW s \in Requests, NEW u \in Units PROVE FreshAt(s, u)'
    <3>1. FreshAt(s, u)
      BY <1>1, Zenon DEF Fresh
    <3>2. CASE s = r
      <4>1. SUFFICES ASSUME InDriver(r)', ~Covers(Own(r)', u), NEW k \in 1 .. phase'[r] - 1,
                            Calls(work'[r])[k].io = "read", Covers(Calls(work'[r])[k].span, u)
                     PROVE  buf'[r][u] = disk'[u]
        BY <2>1, <3>2, Zenon DEF FreshAt
      <4>2. phase'[r] = phase[r] + 1 /\ phase[r] \in Nat
        BY <1>3, <2>1, <4>1, ZenonT(60) DEF InDriver
      <4>3. k = phase[r] \/ k \in 1 .. phase[r] - 1
        BY <4>2
      <4>4. buf'[r][u] = IF Covers(Present(r).span, u) THEN disk[u] ELSE buf[r][u]
        BY <1>4, <1>5, Zenon
      <4>5. CASE Covers(Present(r).span, u)
        BY <1>2, <4>4, <4>5, Zenon
      <4>6. CASE ~Covers(Present(r).span, u)
        <5>1. k \in 1 .. phase[r] - 1
          BY <1>2, <4>1, <4>3, <4>6, Zenon DEF Present
        <5>2. ~Covers(Own(r), u)
          BY <1>2, <4>1, WorkSame, Zenon
        <5>3. buf[r][u] = disk[u]
          BY <1>2, <3>1, <3>2, <4>1, <5>1, <5>2, Zenon DEF FreshAt
        <5> QED BY <1>2, <4>4, <4>6, <5>3, Zenon
      <4> QED BY <4>5, <4>6
    <3>3. CASE s # r
      <4>1. pc'[s] \in {"io", "copying"} => pc'[s] = pc[s] /\ phase'[s] = phase[s]
        BY <2>1, <3>3 DEF OthersStay
      <4>2. buf'[s] = buf[s]
        BY <1>4, <1>5, <3>3, Zenon
      <4> QED BY <1>2, <3>1, <4>1, <4>2, StaysFresh, Zenon
    <3> QED BY <3>2, <3>3
  <2>4. DataOK'
    BY <1>1, <1>2, <1>5, DataTypes, Zenon DEF DataOK, Units
  <2>5. Fresh'
    BY <2>3, Zenon DEF Fresh, Units
  <2> QED BY <2>1, <2>2, <2>4, <2>5, Zenon DEF IInv
<1>6. ASSUME MustCopy(r), Fetch(r, Clusters(r)), pc' = [pc EXCEPT ![r] = "copying"],
             UNCHANGED <<phase, tracked, in_flight, serialising, overlap, waiting_for>>
      PROVE  IInv'
  <2>1. Core'
    BY <1>1, <1>2, <1>6, CoreKept, ZenonT(60) DEF Copies
  <2>2. /\ \A s \in Requests \ {r} : pc'[s] = pc[s]
        /\ pc'[r] = "copying" /\ phase' = phase /\ work[r].op = "cor"
    BY <1>3, <1>6 DEF MustCopy
  <2>3. CopiesOnRead'
    BY <1>1, <1>2, <2>2, Zenon DEF CopiesOnRead
  <2>4. ASSUME NEW s \in Requests, NEW u \in Units PROVE FreshAt(s, u)'
    <3>1. CASE s = r
      <4>1. phase[r] = 1
        BY <1>1, <1>2, <2>2, ClustersInside, Zenon
      <4>2. \A k \in 1 .. phase'[r] - 1 : FALSE
        BY <2>2, <4>1
      <4>3. Clusters(r)' = Clusters(r)
        BY <1>2, <2>2, WorkSame, Zenon
      <4>4. Covers(Clusters(r), u) => buf'[r][u] = disk[u]
        BY <1>4, <1>6, Zenon
      <4> QED BY <1>2, <3>1, <4>2, <4>3, <4>4, Zenon DEF FreshAt
    <3>2. CASE s # r
      <4>1. FreshAt(s, u)
        BY <1>1, Zenon DEF Fresh
      <4>2. buf'[s] = buf[s]
        BY <1>4, <1>6, <3>2, Zenon
      <4> QED BY <1>2, <2>2, <3>2, <4>1, <4>2, StaysFresh, Zenon
    <3> QED BY <3>1, <3>2
  <2>5. DataOK'
    BY <1>1, <1>2, <1>6, DataTypes, Zenon DEF DataOK, Units
  <2>6. Fresh'
    BY <2>4, Zenon DEF Fresh, Units
  <2> QED BY <2>1, <2>3, <2>5, <2>6, Zenon DEF IInv
<1> QED BY <1>5, <1>6, Zenon DEF Read

(* A write changes its own part, which nobody else has read to write back. *)
LEMMA WriteStep ==
    ASSUME Counting, LeastNumber, IInv, NEW r \in Requests, Write(r)
    PROVE  IInv'
<1>1. Core /\ DataOK /\ CopiesOnRead /\ Fresh
  BY Zenon DEF IInv
<1>2. /\ pc[r] = "io" /\ Present(r).io = "write" /\ work' = work /\ buf' = buf
      /\ Store(r, Present(r).span) /\ Continue(r)
  BY Zenon DEF Write
<1>3. /\ Core' /\ OthersStay(r) /\ pc'[r] # "copying"
      /\ pc'[r] = "io" => phase'[r] = phase[r] + 1
  BY <1>1, <1>2, CoreKept, Zenon
<1>4. CopiesOnRead'
  BY <1>1, <1>2, <1>3, Zenon DEF CopiesOnRead, OthersStay
<1>5. ASSUME NEW s \in Requests, NEW u \in Units PROVE FreshAt(s, u)'
  <2>1. FreshAt(s, u)
    BY <1>1, Zenon DEF Fresh
  <2>2. disk'[u] # disk[u] => Covers(Present(r).span, u) /\ Covers(Own(r), u)
    BY <1>1, <1>2, WritesOwn, Zenon
  <2>3. CASE s = r
    <3>1. SUFFICES ASSUME InDriver(r)', ~Covers(Own(r)', u), NEW k \in 1 .. phase'[r] - 1,
                          Calls(work'[r])[k].io = "read", Covers(Calls(work'[r])[k].span, u)
                   PROVE  buf'[r][u] = disk'[u]
      BY <1>3, <2>3, Zenon DEF FreshAt
    <3>2. phase'[r] = phase[r] + 1 /\ phase[r] \in Nat
      BY <1>1, <1>3, <3>1, Zenon DEF InDriver, Core, CoreTypeOK
    <3>3. k = phase[r] \/ k \in 1 .. phase[r] - 1
      BY <3>2
    <3>4. "read" # "write"
      OBVIOUS
    <3>5. k \in 1 .. phase[r] - 1
      BY <1>2, <3>1, <3>3, <3>4, Zenon DEF Present
    <3>6. ~Covers(Own(r), u)
      BY <1>2, <3>1, WorkSame, Zenon
    <3>7. InDriver(r)
      BY <1>2, Zenon DEF InDriver
    <3>8. buf[r][u] = disk[u]
      BY <1>2, <2>1, <2>3, <3>1, <3>5, <3>6, <3>7, ZenonT(30) DEF FreshAt
    <3> QED BY <1>2, <2>2, <3>6, <3>8, Zenon
  <2>4. CASE s # r
    <3>1. pc'[s] \in {"io", "copying"} => pc'[s] = pc[s] /\ phase'[s] = phase[s]
      BY <1>3, <2>4 DEF OthersStay
    <3>2. CASE disk'[u] = disk[u]
      BY <1>2, <2>1, <3>1, <3>2, StaysFresh, Zenon
    <3>3. CASE disk'[u] # disk[u]
      <4>1. Covers(Present(r).span, u)
        BY <2>2, <3>3, Zenon
      <4>2. CASE InDriver(s)'
        <5>1. pc'[s] = pc[s] /\ phase'[s] = phase[s] /\ InDriver(s)
          BY <3>1, <4>2, Zenon DEF InDriver
        <5>2. /\ \A k \in 1 .. phase[s] - 1 :
                     ~(Calls(work[s])[k].io = "read" /\ Covers(Calls(work[s])[k].span, u))
              /\ pc[s] = "copying" => ~Covers(Clusters(s), u)
          BY <1>1, <1>2, <2>4, <4>1, <5>1, NobodyReads, Zenon
        <5>3. Clusters(s)' = Clusters(s)
          BY <1>2, <5>1, WorkSame, Zenon
        <5> QED BY <1>2, <5>1, <5>2, <5>3, Zenon DEF FreshAt
      <4>3. CASE ~InDriver(s)'
        BY <4>3, Zenon DEF FreshAt, InDriver
      <4> QED BY <4>2, <4>3
    <3> QED BY <3>2, <3>3
  <2> QED BY <2>3, <2>4
<1>6. DataOK'
  BY <1>1, <1>2, DataTypes, Zenon DEF DataOK, Units
<1>7. Fresh'
  BY <1>5, Zenon DEF Fresh, Units
<1> QED BY <1>3, <1>4, <1>6, <1>7, Zenon DEF IInv

(* Nobody has arrived.                                                     *)
LEMMA InitIInv ==
    ASSUME Counting, LeastNumber, Init
    PROVE  IInv
<1>1. work \in Workloads /\ tracked = << >> /\ in_flight = 0
  BY ZenonT(30) DEF Init
<1>2. \A r \in Requests :
        /\ pc[r] = "new" /\ phase[r] = 1 /\ serialising[r] = FALSE /\ waiting_for[r] = NULL
        /\ overlap[r] = Begins(r) /\ Begins(r) \in Extents
  BY <1>1, WorkOK, Zenon DEF ExtentsOK, Init
<1>3. CoreTypeOK /\ DataOK
  <2>1. disk \in [Units -> Requests \cup {NULL}]
    BY DEF Init
  <2>2. buf \in [Requests -> [Units -> Requests \cup {NULL}]]
    BY <2>1 DEF Init
  <2>3. /\ pc \in [Requests -> Places] /\ phase \in [Requests -> Nat]
        /\ serialising \in [Requests -> BOOLEAN]
        /\ waiting_for \in [Requests -> Requests \cup {NULL}]
    BY DEF Init, Places
  <2>4. overlap \in [Requests -> Extents]
    BY <1>2 DEF Init
  <2>5. allocated \subseteq Units /\ tracked \in Seq(Requests) /\ in_flight \in Nat
    BY DEF Init
  <2> QED BY <1>1, <2>1, <2>2, <2>3, <2>4, <2>5, Zenon DEF CoreTypeOK, DataOK
<1>4. DOMAIN tracked = {} /\ Range(tracked) = {}
  BY <1>1 DEF Range
<1>5. Listed /\ WaitsFor /\ WaitsOnce /\ SerialisingAlone /\ CopiesOnRead
  BY <1>2, <1>4, Zenon DEF Listed, WaitsFor, WaitsOnce, SerialisingAlone, CopiesOnRead, InDriver
<1>6. SerialisingCounted
  <2>1. {r \in Range(tracked) : serialising[r]} = {}
    BY <1>4
  <2> QED BY <1>1, <2>1, Zenon DEF SerialisingCounted, Counting
<1>7. Marked
  <2> SUFFICES ASSUME NEW r \in Requests
               PROVE  /\ phase[r] \in DOMAIN Calls(work[r])
                      /\ pc[r] = "new" => phase[r] = 1
                      /\ serialising[r] <=>
                            pc[r] # "new" /\ \E k \in 1 .. phase[r] : Calls(work[r])[k].mark > 0
                      /\ overlap[r] = IF serialising[r] THEN Widened(r) ELSE Begins(r)
    BY ZenonT(60) DEF Marked
  <2>1. 1 \in DOMAIN Calls(work[r])
    <3>1. Calls(work[r]) \in Seq(CallSet) /\ Len(Calls(work[r])) >= 1
      BY <1>1, CallsListed, Zenon
    <3> QED BY <3>1
  <2> QED BY <1>2, <2>1, ZenonT(60)
<1>8. NoWaitCycle
  <2>1. {r \in Requests : pc[r] = "waiting"} = {}
    BY <1>2, SMTT(30)
  <2> QED BY <2>1 DEF NoWaitCycle
<1>9. Fresh
  BY <1>2 DEF Fresh, FreshAt, InDriver
<1> QED BY <1>3, <1>5, <1>6, <1>7, <1>8, <1>9, Zenon DEF IInv, Core

(* So every step keeps the invariant.                                      *)
LEMMA NextIInv ==
    ASSUME Counting, LeastNumber, IInv, [Next]_vars
    PROVE  IInv'
<1>1. ASSUME NEW r \in Requests,
             Begin(r) \/ Resume(r) \/ Read(r) \/ Copied(r) \/ Write(r) \/ Fail(r)
      PROVE  IInv'
  BY <1>1, BeginStep, ResumeStep, ReadStep, CopiedStep, WriteStep, FailStep, Zenon
<1>2. CASE UNCHANGED vars
  <2>1. /\ work' = work /\ disk' = disk /\ allocated' = allocated /\ buf' = buf /\ pc' = pc
        /\ phase' = phase /\ tracked' = tracked /\ in_flight' = in_flight
        /\ serialising' = serialising /\ overlap' = overlap /\ waiting_for' = waiting_for
    BY <1>2 DEF vars
  <2>2. Core'
    BY <1>2, <2>1, CoreKept, Zenon DEF IInv
  <2>3. CopiesOnRead' /\ DataOK'
    BY <2>1, Zenon DEF IInv, CopiesOnRead, DataOK, Units
  <2>4. ASSUME NEW s \in Requests, NEW u \in Units PROVE FreshAt(s, u)'
    <3>1. FreshAt(s, u)
      BY Zenon DEF IInv, Fresh
    <3> QED BY <2>1, <3>1, StaysFresh, Zenon
  <2>5. Fresh'
    BY <2>4, Zenon DEF Fresh, Units
  <2> QED BY <2>2, <2>3, <2>5, Zenon DEF IInv
<1> QED BY <1>1, <1>2, Zenon DEF Next

-----------------------------------------------------------------------------
(* The assertions follow: a request that serialises waits at the call      *)
(* that made it so, which reads, and for a write that is the first.        *)
LEMMA IInvAsserted == IInv => Asserted
<1> SUFFICES ASSUME IInv PROVE Asserted
  OBVIOUS
<1>1. Core /\ TypeOK /\ SerialisingCounted
  BY Zenon DEF IInv, Core, TypeOK, CoreTypeOK, DataOK
<1>2. ASSUME NEW r \in Requests, pc[r] = "waiting", serialising[r]
      PROVE  Present(r).io = "read" /\ (work[r].op = "write" => phase[r] = 1)
  <2> DEFINE C == Calls(work[r])
             k == phase[r]
  <2>1. /\ work \in Workloads /\ k \in DOMAIN C
        /\ C[k].mark > 0 /\ \A j \in 1 .. k - 1 : C[j].mark = 0
    BY <1>1, <1>2, Zenon DEF Core, CoreTypeOK, Marked, WaitsOnce, Present
  <2>2. DOMAIN C = 1 .. Len(C) /\ Len(C) \in Nat
    BY <2>1, CallsListed, Zenon
  <2>3. CallOK(r, C, k)
    BY <2>1, WorkOK, Zenon DEF CallsOK
  <2>4. C[k].io = "read" /\ (work[r].op = "write" /\ k > 1 => C[1].mark > 0)
    BY <2>1, <2>3, Zenon DEF CallOK
  <2>5. ASSUME work[r].op = "write", k > 1 PROVE FALSE
    <3> HIDE DEF C, k
    <3>1. 1 \in 1 .. k - 1
      BY <2>1, <2>2, <2>5, SMTT(30)
    <3> QED BY <2>1, <2>4, <2>5, <3>1, SMTT(30)
  <2>6. k > 1 \/ k = 1
    <3> HIDE DEF C, k
    <3>1. k \in 1 .. Len(C) /\ Len(C) \in Nat
      BY <2>1, <2>2, Zenon
    <3> QED BY <3>1, SMTT(30)
  <2> QED BY <2>4, <2>5, <2>6, Zenon DEF Present
<1>3. ASSUME NEW r \in Requests, pc[r] = "io", Present(r).io = "write"
      PROVE  /\ overlap[r].off <= Present(r).span.lo
             /\ Present(r).span.hi <= overlap[r].off + overlap[r].len
  BY <1>1, <1>3, WriteInside, Zenon DEF Ends
<1> QED BY <1>1, <1>2, <1>3, Zenon DEF Asserted

Lib == INSTANCE FiniteSetTheorems

(* Cardinalities are what the proofs take them to be.                      *)
LEMMA CountingHolds == Counting
<1>1. \A S : IsFiniteSet(S) <=> Lib!IsFiniteSet(S)
  BY Zenon DEF IsFiniteSet, Lib!IsFiniteSet
<1>2. \A S : Cardinality(S) = Lib!Cardinality(S)
  BY Zenon DEF Cardinality, Lib!Cardinality
<1>3. Cardinality({}) = 0
  BY <1>2, Lib!FS_EmptySet, Zenon
<1>4. \A S : IsFiniteSet(S) => Cardinality(S) \in Nat /\ (Cardinality(S) = 0 => S = {})
  BY <1>1, <1>2, Lib!FS_EmptySet, Lib!FS_CardinalityType, Zenon
<1>5. \A S : IsFiniteSet(S) =>
          \A T \in SUBSET S : IsFiniteSet(T) /\ Cardinality(T) <= Cardinality(S)
  BY <1>1, <1>2, Lib!FS_Subset, Zenon
<1>6. \A S, x : IsFiniteSet(S) =>
          IsFiniteSet(S \cup {x}) /\ (x \notin S => Cardinality(S \cup {x}) = Cardinality(S) + 1)
  BY <1>1, <1>2, Lib!FS_AddElement, Zenon
<1>7. \A S, x : IsFiniteSet(S) =>
          IsFiniteSet(S \ {x}) /\ (x \in S => Cardinality(S \ {x}) = Cardinality(S) - 1)
  BY <1>1, <1>2, Lib!FS_RemoveElement, Zenon
<1> QED BY <1>3, <1>4, <1>5, <1>6, <1>7, ZenonT(60) DEF Counting

(* Of a set of numbers, by the well-foundedness of their order.            *)
LEMMA LeastHolds == LeastNumber
<1> SUFFICES ASSUME NEW S \in SUBSET Nat, S # {}
             PROVE  \E x \in S : \A y \in S : x <= y
  BY DEF LeastNumber
<1>1. PICK x \in S : \A y \in S : ~(<<y, x>> \in Lib!OpToRel(<, Nat))
  BY Lib!NatLessThanWellFounded, Lib!WFMin, ZenonT(60)
<1>2. \A y \in S : y < x => <<y, x>> \in Lib!OpToRel(<, Nat)
  BY DEF Lib!OpToRel
<1>3. \A y \in S : ~(y < x)
  BY <1>1, <1>2, Zenon
<1>4. \A y \in S : x <= y
  <2> HIDE <1>1, <1>2
  <2> QED BY <1>3, SMT
<1> QED BY <1>4, Zenon

(* The invariant holds at every moment.                                    *)
THEOREM Invariance == Spec => []IInv
<1>1. Init => IInv
  BY CountingHolds, LeastHolds, InitIInv
<1>2. IInv /\ [Next]_vars => IInv'
  BY CountingHolds, LeastHolds, NextIInv
<1> QED BY <1>1, <1>2, PTL DEF Spec

(* bdrv_co_do_preadv and bdrv_co_do_pwritev: while a serialising request   *)
(* is in the driver nobody it overlaps is, whatever arrives, waits, is     *)
(* woken or fails, for any number of requests and any alignment.           *)
THEOREM SerialisingSafe == Spec => []SerialisingAlone
<1>1. IInv => SerialisingAlone
  BY Zenon DEF IInv, Core
<1> QED BY <1>1, Invariance, PTL

(* wait_serialising_requests never has requests wait in a circle, nor for  *)
(* one that has gone.                                                      *)
THEOREM WaitsSafe == Spec => []NoWaitCycle
<1>1. IInv => NoWaitCycle
  BY Zenon DEF IInv, Core
<1> QED BY <1>1, Invariance, PTL

(* The assertions of bdrv_co_do_pwritev and bdrv_aligned_pwritev never     *)
(* fail, and serialising_in_flight is the number of serialising requests.  *)
THEOREM AssertionsHold == Spec => []Asserted
BY IInvAsserted, Invariance, PTL

(* No read-modify-write cycle and no copy on read changes anything outside *)
(* a request's own write: each step of the driver that changes a unit of   *)
(* the image puts there the data of a write whose span holds the unit.     *)
THEOREM OthersKeptHolds == Spec => OthersKept
<1> DEFINE Keeps == \A u \in Units : disk'[u] # disk[u] =>
                       \E r \in Requests : disk'[u] = r /\ ~IsRead(r) /\ Covers(Own(r), u)
<1>1. ASSUME IInv, [Next]_vars PROVE [Keeps]_vars
  <2>1. Core /\ CopiesOnRead /\ Fresh
    BY <1>1, Zenon DEF IInv
  <2>2. ASSUME NEW r \in Requests, Begin(r) \/ Resume(r) \/ Read(r) \/ Fail(r) PROVE Keeps
    <3>1. disk' = disk
      BY <2>2, Zenon DEF Begin, Resume, Read, Fail
    <3> QED BY <3>1, Zenon
  <2>3. ASSUME NEW r \in Requests, Copied(r) PROVE Keeps
    <3>1. \A u \in Units : disk'[u] = disk[u]
      BY <2>1, <2>3, CopiesSame, Zenon DEF Copied
    <3> QED BY <3>1, Zenon
  <2>4. ASSUME NEW r \in Requests, Write(r) PROVE Keeps
    <3>1. pc[r] = "io" /\ Present(r).io = "write" /\ Store(r, Present(r).span)
      BY <2>4, Zenon DEF Write
    <3>2. \A u \in Units : disk'[u] # disk[u] =>
              disk'[u] = r /\ ~IsRead(r) /\ Covers(Own(r), u)
      BY <2>1, <3>1, WritesOwn, Zenon
    <3> QED BY <3>2, Zenon
  <2> QED BY <1>1, <2>2, <2>3, <2>4, Zenon DEF Next
<1> QED BY <1>1, Invariance, PTL DEF Spec, OthersKept

=============================================================================
