--------------------------- MODULE ThrottleProofs ---------------------------
(***************************************************************************)
(* The safety of the throttling for any requests, limits and clock: no     *)
(* request is lost, every throttled one will be woken, draining drains.    *)
(***************************************************************************)
EXTENDS Throttle, TLAPS

-----------------------------------------------------------------------------
(* What the operations of a CoQueue do to the set of queued coroutines.    *)

(* What qemu_co_queue_wait does to the set of queued coroutines.           *)
LEMMA WaitRange ==
    ASSUME NEW q \in Seq(Co), NEW c \in Co
    PROVE  /\ QueueWait(q, c) \in Seq(Co)
           /\ Range(QueueWait(q, c)) = Range(q) \cup {c}
           /\ QueueWait(q, c) # << >>
<1> DEFINE r == QueueWait(q, c)
<1>1. r \in Seq(Co) /\ Len(r) = Len(q) + 1 /\ r[Len(r)] = c
      /\ \A i \in 1 .. Len(q) : r[i] = q[i]
  BY DEF QueueWait
<1>2. DOMAIN r = 1 .. (Len(q) + 1) /\ DOMAIN q = 1 .. Len(q) /\ Len(q) \in Nat
  BY <1>1
<1>3. Range(r) = Range(q) \cup {c}
  BY <1>1, <1>2 DEF Range
<1> QED BY <1>1, <1>3

(* Appending a coroutine that is not queued keeps the entries distinct.    *)
LEMMA WaitDistinct ==
    ASSUME NEW q \in Seq(Co), NEW c \in Co, c \notin Range(q),
           \A i, j \in DOMAIN q : q[i] = q[j] => i = j
    PROVE  \A i, j \in DOMAIN QueueWait(q, c) :
               QueueWait(q, c)[i] = QueueWait(q, c)[j] => i = j
<1> DEFINE r == QueueWait(q, c)
<1>1. r \in Seq(Co) /\ Len(r) = Len(q) + 1 /\ r[Len(r)] = c
      /\ \A i \in 1 .. Len(q) : r[i] = q[i]
  BY DEF QueueWait
<1>2. DOMAIN r = 1 .. (Len(q) + 1) /\ DOMAIN q = 1 .. Len(q) /\ Len(q) \in Nat
  BY <1>1
<1>3. \A i \in 1 .. Len(q) : r[i] # c
  BY <1>1, <1>2 DEF Range
<1> QED BY <1>1, <1>2, <1>3

(* What qemu_co_queue_next does: the entries it moves and those it leaves  *)
(* are together the old queue, without overlap.                            *)
LEMMA NextSplits ==
    ASSUME NEW q \in Seq(Co),
           \A i, j \in DOMAIN q : q[i] = q[j] => i = j
    PROVE  /\ NextRest(q) \in Seq(Co)
           /\ Range(NextEntries(q)) \cup Range(NextRest(q)) = Range(q)
           /\ Range(NextEntries(q)) \cap Range(NextRest(q)) = {}
           /\ q # << >> => Range(NextEntries(q)) # {}
           /\ q = << >> => NextRest(q) = << >>
           /\ \A i, j \in DOMAIN NextRest(q) :
                  NextRest(q)[i] = NextRest(q)[j] => i = j
<1>1. CASE q = << >>
  BY <1>1 DEF NextRest, NextEntries, QueueEmpty, Range
<1>2. CASE q # << >>
  <2> DEFINE t == Tail(q)
  <2>1. t \in Seq(Co) /\ Len(t) = Len(q) - 1 /\ Len(q) \in Nat \ {0}
        /\ \A i \in 1 .. Len(t) : t[i] = q[i + 1]
    BY <1>2
  <2>2. DOMAIN t = 1 .. (Len(q) - 1) /\ DOMAIN q = 1 .. Len(q) /\ Head(q) = q[1]
    BY <2>1, <1>2
  <2>3. \A x \in Range(t) : \E i \in 2 .. Len(q) : x = q[i]
    <3> SUFFICES ASSUME NEW i \in DOMAIN t PROVE \E k \in 2 .. Len(q) : t[i] = q[k]
      BY DEF Range
    <3> WITNESS i + 1 \in 2 .. Len(q)
    <3> QED BY <2>1, <2>2
  <2>4. \A i \in 2 .. Len(q) : q[i] \in Range(t)
    <3> TAKE i \in 2 .. Len(q)
    <3>1. i - 1 \in DOMAIN t /\ t[i - 1] = q[i]
      BY <2>1, <2>2
    <3> QED BY <3>1, Zenon DEF Range
  <2>5. Range(<<Head(q)>>) = {q[1]}
    BY <2>2 DEF Range
  <2>6. NextRest(q) = t /\ NextEntries(q) = <<Head(q)>>
    BY <1>2 DEF NextRest, NextEntries, QueueEmpty
  <2>7. {q[1]} \cup Range(t) = Range(q)
    <3>1. Range(t) \subseteq Range(q) /\ q[1] \in Range(q)
      BY <2>1, <2>2, <2>3 DEF Range
    <3>2. ASSUME NEW i \in DOMAIN q PROVE q[i] \in {q[1]} \cup Range(t)
      BY <2>1, <2>2, <2>4
    <3> QED BY <3>1, <3>2 DEF Range
  <2>8. q[1] \notin Range(t)
    BY <2>1, <2>2, <2>3
  <2>9. \A i, j \in DOMAIN t : t[i] = t[j] => i = j
    BY <2>1, <2>2
  <2> QED BY <1>2, <2>1, <2>5, <2>6, <2>7, <2>8, <2>9, SMTT(60)
<1> QED BY <1>1, <1>2

(* Joining two lists that have nothing in common.                          *)
LEMMA Joined ==
    ASSUME NEW p \in Seq(Co), NEW q \in Seq(Co),
           Range(p) \cap Range(q) = {},
           \A i, j \in DOMAIN p : p[i] = p[j] => i = j,
           \A i, j \in DOMAIN q : q[i] = q[j] => i = j
    PROVE  /\ p \o q \in Seq(Co)
           /\ Range(p \o q) = Range(p) \cup Range(q)
           /\ \A i, j \in DOMAIN (p \o q) : (p \o q)[i] = (p \o q)[j] => i = j
<1> DEFINE r == p \o q
           m == Len(p)
           n == Len(q)
<1>1. /\ r \in Seq(Co) /\ Len(r) = m + n /\ m \in Nat /\ n \in Nat
      /\ DOMAIN p = 1 .. m /\ DOMAIN q = 1 .. n /\ DOMAIN r = 1 .. (m + n)
  OBVIOUS
<1>2. \A i \in 1 .. m : r[i] = p[i]
  OBVIOUS
<1>3. \A i \in (m + 1) .. (m + n) : r[i] = q[i - m] /\ i - m \in 1 .. n
  OBVIOUS
<1> HIDE DEF r, m, n
<1>4. \A i \in 1 .. m : r[i] \in Range(p)
  BY <1>1, <1>2, Zenon DEF Range
<1>5. \A i \in (m + 1) .. (m + n) : r[i] \in Range(q)
  <2>1. \A k \in 1 .. n : q[k] \in Range(q)
    BY <1>1, Zenon DEF Range
  <2> QED BY <1>3, <2>1
<1>6. \A i \in DOMAIN r : i \in 1 .. m \/ i \in (m + 1) .. (m + n)
  BY <1>1
<1>7. Range(r) \subseteq Range(p) \cup Range(q)
  BY <1>4, <1>5, <1>6 DEF Range
<1>8. Range(p) \subseteq Range(r)
  <2> SUFFICES ASSUME NEW i \in 1 .. m PROVE p[i] \in Range(r)
    BY <1>1 DEF Range
  <2>1. i \in DOMAIN r /\ r[i] = p[i]
    BY <1>1, <1>2
  <2> QED BY <2>1 DEF Range
<1>9. Range(q) \subseteq Range(r)
  <2> SUFFICES ASSUME NEW i \in 1 .. n PROVE q[i] \in Range(r)
    BY <1>1 DEF Range
  <2>1. i + m \in DOMAIN r /\ r[i + m] = q[i]
    BY <1>1, <1>3
  <2> QED BY <2>1 DEF Range
<1>10. ASSUME NEW i \in DOMAIN r, NEW j \in DOMAIN r, r[i] = r[j] PROVE i = j
  <2>1. CASE i \in 1 .. m /\ j \in 1 .. m
    BY <1>1, <1>2, <1>10, <2>1
  <2>2. CASE i \in (m + 1) .. (m + n) /\ j \in (m + 1) .. (m + n)
    <3>1. q[i - m] = q[j - m] /\ i - m \in DOMAIN q /\ j - m \in DOMAIN q
      BY <1>1, <1>3, <1>10, <2>2
    <3>2. i - m = j - m
      BY <3>1
    <3> QED BY <1>1, <2>2, <3>2
  <2>3. ~(i \in 1 .. m /\ j \in (m + 1) .. (m + n))
    BY <1>4, <1>5, <1>10
  <2>4. ~(j \in 1 .. m /\ i \in (m + 1) .. (m + n))
    BY <1>4, <1>5, <1>10
  <2> QED BY <1>6, <2>1, <2>2, <2>3, <2>4
<1>11. Range(r) = Range(p) \cup Range(q)
  BY <1>7, <1>8, <1>9
<1> QED BY <1>1, <1>10, <1>11 DEF r

(* A list of one entry.                                                    *)
LEMMA Single ==
    ASSUME NEW c \in Co
    PROVE  /\ <<c>> \in Seq(Co) /\ Range(<<c>>) = {c}
           /\ \A i, j \in DOMAIN <<c>> : <<c>>[i] = <<c>>[j] => i = j
BY DEF Range

(* What qemu_co_queue_wait_insert_head does.                               *)
LEMMA InsertHeadFacts ==
    ASSUME NEW q \in Seq(Co), NEW c \in Co, c \notin Range(q),
           \A i, j \in DOMAIN q : q[i] = q[j] => i = j
    PROVE  LET r == QueueWaitInsertHead(q, c)
           IN  /\ r \in Seq(Co) /\ r # << >> /\ Range(r) = Range(q) \cup {c}
               /\ \A i, j \in DOMAIN r : r[i] = r[j] => i = j
<1>1. Range(<<c>>) \cap Range(q) = {}
  BY Single
<1> DEFINE r == <<c>> \o q
<1>2. r # << >>
  OBVIOUS
<1>3. /\ r \in Seq(Co) /\ Range(r) = Range(<<c>>) \cup Range(q)
      /\ \A i, j \in DOMAIN r : r[i] = r[j] => i = j
  BY <1>1, Single, Joined, Zenon
<1>4. Range(r) = Range(q) \cup {c}
  BY <1>3, Single
<1> HIDE DEF r
<1>5. QueueWaitInsertHead(q, c) = r
  BY DEF QueueWaitInsertHead, r
<1> QED BY <1>2, <1>3, <1>4, <1>5

(* The bottom halves of repeated qemu_co_queue_next hold the same entries. *)
LEMMA NextAllFacts ==
    ASSUME NEW q \in Seq(Co), \A i, j \in DOMAIN q : q[i] = q[j] => i = j
    PROVE  LET r == NextAllEntries(q)
           IN  /\ r \in Seq(Co) /\ Range(r) = Range(q)
               /\ \A i, j \in DOMAIN r : r[i] = r[j] => i = j
<1> DEFINE r == NextAllEntries(q)
           n == Len(q)
<1>1. n \in Nat /\ DOMAIN q = 1 .. n /\ DOMAIN r = 1 .. n
  BY DEF NextAllEntries
<1>2. \A i \in 1 .. n : r[i] = q[n + 1 - i] /\ n + 1 - i \in 1 .. n
  BY <1>1 DEF NextAllEntries
<1>3. r \in Seq(Co)
  <2>1. \A i \in 1 .. n : q[n + 1 - i] \in Co
    BY <1>1, <1>2
  <2> QED BY <1>1, <2>1 DEF NextAllEntries
<1> HIDE DEF r, n
<1>4. Range(r) \subseteq Range(q)
  BY <1>1, <1>2 DEF Range
<1>5. Range(q) \subseteq Range(r)
  <2> SUFFICES ASSUME NEW i \in 1 .. n PROVE q[i] \in Range(r)
    BY <1>1 DEF Range
  <2>1. n + 1 - i \in DOMAIN r /\ r[n + 1 - i] = q[i]
    BY <1>1, <1>2
  <2> QED BY <2>1 DEF Range
<1>6. ASSUME NEW i \in DOMAIN r, NEW j \in DOMAIN r, r[i] = r[j] PROVE i = j
  <2>1. n + 1 - i = n + 1 - j
    BY <1>1, <1>2, <1>6
  <2> QED BY <1>1, <2>1
<1> QED BY <1>3, <1>4, <1>5, <1>6, Zenon DEF r

-----------------------------------------------------------------------------
(* What an evaluation of the limits leaves.                                *)

(* A request over its limit is not yet earned: the wait is not negative.   *)
LEMMA WaitIsNat ==
    ASSUME NEW rate \in Nat, NEW units \in Nat, NEW s \in Slices, NEW t \in Nat,
           s.start <= t, t <= s.end, Exceeds(rate, units, s)
    PROVE  WaitTime(rate, units, t - s.start) \in Nat
<1>1. rate \in Nat \ {0} /\ units * NanosPerSecond > rate * (s.end - s.start)
  BY DEF Exceeds
<1>2. s.start \in Nat /\ s.end \in Nat /\ NanosPerSecond \in Nat
  BY IoLimitsAssumption DEF Slices
<1>3. rate * (s.end - t) >= 0
  BY <1>1, <1>2
<1>4. rate * (s.end - t) = rate * (s.end - s.start) - rate * (t - s.start)
  BY <1>1, <1>2
<1>5. units * NanosPerSecond - rate * (t - s.start) \in Nat
  BY <1>1, <1>2, <1>3, <1>4
<1> QED BY <1>1, <1>5 DEF WaitTime

(* The slice extended to a later end.                                      *)
LEMMA Extended ==
    ASSUME NEW s \in Slices, NEW more \in Nat
    PROVE  /\ [s EXCEPT !.end = @ + more] \in Slices
           /\ [s EXCEPT !.end = @ + more].start = s.start
           /\ [s EXCEPT !.end = @ + more].end >= s.end
BY DEF Slices

(* A request of n bytes charged to the slice.                              *)
LEMMA Charges ==
    ASSUME NEW s \in Slices, NEW dir \in Dirs, NEW n \in Nat
    PROVE  /\ [s EXCEPT !.bytes[dir] = @ + n, !.ios[dir] = @ + 1] \in Slices
           /\ [s EXCEPT !.bytes[dir] = @ + n, !.ios[dir] = @ + 1].start = s.start
<1> DEFINE x == [s EXCEPT !.bytes[dir] = @ + n, !.ios[dir] = @ + 1]
<1>1. s.bytes \in [Dirs -> Nat] /\ s.ios \in [Dirs -> Nat]
  BY DEF Slices
<1>2. /\ [s.bytes EXCEPT ![dir] = @ + n] \in [Dirs -> Nat]
      /\ [s.ios EXCEPT ![dir] = @ + 1] \in [Dirs -> Nat]
  BY <1>1
<1>3. ASSUME NEW y, y = x
      PROVE  y = [start |-> s.start, end |-> s.end, bytes |-> [s.bytes EXCEPT ![dir] = @ + n],
                  ios |-> [s.ios EXCEPT ![dir] = @ + 1]]
  BY <1>3, Zenon DEF Slices
<1> HIDE DEF x
<1>4. x = [start |-> s.start, end |-> s.end, bytes |-> [s.bytes EXCEPT ![dir] = @ + n],
           ios |-> [s.ios EXCEPT ![dir] = @ + 1]]
  BY <1>3, Zenon
<1>5. x \in Slices /\ x.start = s.start
  BY <1>2, <1>4 DEF Slices
<1> QED BY <1>5, Zenon DEF x

(* bdrv_exceed_bps_limits and bdrv_exceed_iops_limits give a time to wait  *)
(* and lengthen the slice s.                                               *)
Verdict(v, s) ==
    /\ v.exceeds \in BOOLEAN /\ v.wait \in Nat /\ v.slice \in Slices
    /\ v.slice.start = s.start /\ v.slice.end >= s.end

(* Both return a verdict.                                                  *)
LEMMA ExceedFacts ==
    ASSUME NEW l \in Limits, NEW s \in Slices, NEW t \in Nat,
           s.start <= t, t <= s.end, NEW dir \in Dirs, NEW n \in Nat
    PROVE  Verdict(ExceedBps(l, s, t, dir, n), s) /\ Verdict(ExceedIops(l, s, t, dir), s)
<1>1. /\ l.bps \in [Kinds -> Nat] /\ s.bytes \in [Dirs -> Nat]
      /\ l.iops \in [Kinds -> Nat] /\ s.ios \in [Dirs -> Nat]
  BY DEF Limits, Slices
<1>2. ASSUME NEW r \in [Kinds -> Nat], NEW f \in [Dirs -> Nat]
      PROVE  Governing(r, dir) \in Nat /\ Base(r, f, dir) \in Nat
  BY <1>2 DEF Governing, Base, Kinds, Dirs, Other
<1>3. ASSUME NEW b, b = ExceedBps(l, s, t, dir, n)
      PROVE  Verdict(b, s)
  <2> DEFINE rate == Governing(l.bps, dir)
             units == Base(l.bps, s.bytes, dir) + n
  <2>1. rate \in Nat /\ units \in Nat
    BY <1>1, <1>2
  <2>2. /\ b.exceeds = Exceeds(rate, units, s)
        /\ b.wait = IF b.exceeds THEN WaitTime(rate, units, t - s.start) ELSE 0
        /\ b.slice = [s EXCEPT !.end = @ + RoundUpToSlice(b.wait)]
    BY <1>3 DEF ExceedBps
  <2> HIDE DEF rate, units
  <2>3. b.wait \in Nat
    BY <2>1, <2>2, WaitIsNat
  <2>4. RoundUpToSlice(b.wait) \in Nat
    BY <2>3, IoLimitsAssumption DEF RoundUpToSlice
  <2>5. b.exceeds \in BOOLEAN
    BY <2>2 DEF Exceeds
  <2> QED BY <2>2, <2>3, <2>4, <2>5, Extended, Zenon DEF Verdict
<1>4. ASSUME NEW i, i = ExceedIops(l, s, t, dir)
      PROVE  Verdict(i, s)
  <2> DEFINE rate == Governing(l.iops, dir)
             units == Base(l.iops, s.ios, dir) + 1
             more == IF i.exceeds THEN SliceTime ELSE 0
  <2>1. rate \in Nat /\ units \in Nat
    BY <1>1, <1>2
  <2>2. /\ i.exceeds = Exceeds(rate, units, s)
        /\ i.wait = IF i.exceeds THEN MaxOf(0, WaitTime(rate, units, t - s.start)) ELSE 0
        /\ i.slice = [s EXCEPT !.end = @ + more]
    BY <1>4 DEF ExceedIops
  <2>3. more \in Nat
    BY IoLimitsAssumption
  <2> HIDE DEF rate, units, more
  <2>4. i.wait \in Nat
    BY <2>1, <2>2, WaitIsNat DEF MaxOf
  <2>5. i.exceeds \in BOOLEAN
    BY <2>2 DEF Exceeds
  <2> QED BY <2>2, <2>3, <2>4, <2>5, Extended, Zenon DEF Verdict
<1> QED BY <1>3, <1>4, Zenon

(* bdrv_exceed_io_limits gives a verdict, a time to wait and a slice that  *)
(* has begun.                                                              *)
LEMMA EvaluationFacts ==
    ASSUME NEW l \in Limits, NEW old \in Slices, NEW t \in Nat, old.start <= t,
           NEW dir \in Dirs, NEW n \in Nat
    PROVE  LET e == ExceedIoLimits(l, old, t, dir, n)
           IN  /\ e.exceeds \in BOOLEAN /\ e.wait \in Nat
               /\ e.slice \in Slices /\ e.slice.start <= t
<1> DEFINE e == ExceedIoLimits(l, old, t, dir, n)
           s == CurrentSlice(old, t)
           b == ExceedBps(l, s, t, dir, n)
           i == ExceedIops(l, b.slice, t, dir)
           wait == MaxOf(b.wait, i.wait)
<1>1. s \in Slices /\ s.start <= t /\ t <= s.end
  BY IoLimitsAssumption DEF CurrentSlice, Slices, Dirs
<1>2. Verdict(b, s)
  BY <1>1, ExceedFacts, Zenon
<1>3. b.slice \in Slices /\ b.slice.start <= t /\ t <= b.slice.end
  <2> HIDE DEF s, b
  <2> QED BY <1>1, <1>2 DEF Slices, Verdict
<1>4. Verdict(i, b.slice)
  BY <1>3, ExceedFacts, Zenon
<1>5. e = IF b.exceeds \/ i.exceeds
          THEN [exceeds |-> TRUE, wait |-> wait,
                slice |-> [i.slice EXCEPT !.end = MaxOf(@, t + wait)]]
          ELSE [exceeds |-> FALSE, wait |-> 0,
                slice |-> [i.slice EXCEPT !.bytes[dir] = @ + n, !.ios[dir] = @ + 1]]
  BY DEF ExceedIoLimits
<1> HIDE DEF e, s, b, i
<1>6. wait \in Nat /\ i.slice \in Slices /\ i.slice.start <= t
  BY <1>2, <1>3, <1>4 DEF MaxOf, Verdict
<1> HIDE DEF wait
<1> SUFFICES /\ e.exceeds \in BOOLEAN /\ e.wait \in Nat
             /\ e.slice \in Slices /\ e.slice.start <= t
  BY DEF e
<1>7. CASE b.exceeds \/ i.exceeds
  <2>1. MaxOf(i.slice.end, t + wait) \in Nat
    BY <1>6 DEF MaxOf, Slices
  <2> QED BY <1>5, <1>6, <1>7, <2>1 DEF Slices
<1>8. CASE ~(b.exceeds \/ i.exceeds)
  <2>1. /\ e.exceeds = FALSE /\ e.wait = 0
        /\ e.slice = [i.slice EXCEPT !.bytes[dir] = @ + n, !.ios[dir] = @ + 1]
    BY <1>5, <1>8
  <2>2. e.slice \in Slices /\ e.slice.start = i.slice.start
    <3> DEFINE x == [i.slice EXCEPT !.bytes[dir] = @ + n, !.ios[dir] = @ + 1]
    <3>1. x \in Slices /\ x.start = i.slice.start
      BY <1>6, Charges, Zenon
    <3> HIDE DEF x
    <3>2. e.slice = x
      BY <2>1, Zenon DEF x
    <3> QED BY <3>1, <3>2, Zenon
  <2>3. e.exceeds \in BOOLEAN
    BY <2>1, Zenon
  <2>4. e.wait \in Nat /\ e.slice.start <= t
    BY <1>6, <2>1, <2>2
  <2> QED BY <2>2, <2>3, <2>4, Zenon
<1> QED BY <1>7, <1>8, Zenon

-----------------------------------------------------------------------------

(* LinkedOnce of given lists and requests.                                 *)
Linked(q, b, w, r) ==
    /\ Distinct(q) /\ Distinct(b) /\ Distinct(w)
    /\ Range(q) \cap Range(b) = {}
    /\ Range(q) \cap Range(w) = {}
    /\ Range(b) \cap Range(w) = {}
    /\ \A c \in Co : r[c] = "waiting" <=> c \in Range(q) \cup Range(b) \cup Range(w)

Throttling == IF mode = "unthrottled" THEN saved ELSE enabled

(* Where the throttling is off there is nothing to arm and nobody queued;  *)
(* bdrv_read_unthrottled only hides what is on.                            *)
OffIsQuiet ==
    /\ mode = "unthrottled" => ~enabled
    /\ ~Throttling => timer = NULL /\ queue = << >>

(* The inductive invariant.  slice.start <= now makes the waiting time a   *)
(* number the timer can be set to; ThrottledHasMedium is what keeps a      *)
(* bottom half from queueing a request on a drive without medium.          *)
IInv ==
    /\ TypeOK
    /\ slice.start <= now
    /\ ~crashed => Linked(queue, bhs, walk, req)
    /\ NoLostWakeup
    /\ OffIsQuiet
    /\ ~medium => queue = << >>
    /\ medium /\ Throttling => timer # NULL
    /\ ThrottledHasMedium

(* The property is Linked of the present lists.                            *)
LEMMA LinkedOnceIsLinked ==
    LinkedOnce <=> (~crashed => Linked(queue, bhs, walk, req))
BY DEF LinkedOnce, Linked

-----------------------------------------------------------------------------
(* Entries that leave the queue for a new bottom half stay linked once.    *)
LEMMA Moved ==
    ASSUME NEW q \in Seq(Co), NEW b \in Seq(Co), NEW w \in Seq(Co),
           NEW r \in [Co -> Steps], Linked(q, b, w, r),
           NEW e \in Seq(Co), NEW rest \in Seq(Co),
           Distinct(e), Distinct(rest),
           Range(e) \cup Range(rest) = Range(q), Range(e) \cap Range(rest) = {}
    PROVE  e \o b \in Seq(Co) /\ Linked(rest, e \o b, w, r)
<1>1. Range(e) \cap Range(b) = {}
  BY DEF Linked
<1>2. /\ e \o b \in Seq(Co) /\ Range(e \o b) = Range(e) \cup Range(b)
      /\ Distinct(e \o b)
  BY <1>1, Joined, Zenon DEF Linked, Distinct
<1>3. /\ Range(rest) \cap Range(e \o b) = {} /\ Range(rest) \cap Range(w) = {}
      /\ Range(e \o b) \cap Range(w) = {}
  BY <1>2 DEF Linked
<1>4. Range(rest) \cup Range(e \o b) \cup Range(w) = Range(q) \cup Range(b) \cup Range(w)
  BY <1>2
<1> QED BY <1>2, <1>3, <1>4 DEF Linked

(* qemu_co_queue_next.                                                     *)
LEMMA MovedNext ==
    ASSUME NEW q \in Seq(Co), NEW b \in Seq(Co), NEW w \in Seq(Co),
           NEW r \in [Co -> Steps], Linked(q, b, w, r)
    PROVE  /\ NextRest(q) \in Seq(Co) /\ NextEntries(q) \o b \in Seq(Co)
           /\ Linked(NextRest(q), NextEntries(q) \o b, w, r)
           /\ q # << >> => NextEntries(q) \o b # << >>
           /\ q = << >> => NextRest(q) = << >>
<1>1. Distinct(q)
  BY DEF Linked
<1>2. /\ NextEntries(q) \in Seq(Co) /\ Distinct(NextEntries(q))
      /\ q # << >> => NextEntries(q) # << >>
  <2>1. CASE q = << >>
    BY <2>1 DEF NextEntries, QueueEmpty, Distinct
  <2>2. CASE q # << >>
    <3>1. Head(q) \in Co /\ NextEntries(q) = <<Head(q)>>
      BY <2>2 DEF NextEntries, QueueEmpty
    <3> QED BY <3>1, Single DEF Distinct
  <2> QED BY <2>1, <2>2
<1>3. /\ NextRest(q) \in Seq(Co) /\ Distinct(NextRest(q))
      /\ Range(NextEntries(q)) \cup Range(NextRest(q)) = Range(q)
      /\ Range(NextEntries(q)) \cap Range(NextRest(q)) = {}
      /\ q = << >> => NextRest(q) = << >>
  BY <1>1, NextSplits DEF Distinct
<1>4. NextEntries(q) \o b \in Seq(Co) /\ Linked(NextRest(q), NextEntries(q) \o b, w, r)
  BY <1>2, <1>3, Moved, Zenon
<1>5. q # << >> => NextEntries(q) \o b # << >>
  BY <1>2
<1> QED BY <1>3, <1>4, <1>5

(* Everything leaves: repeated qemu_co_queue_next, and restart_all.        *)
LEMMA MovedAll ==
    ASSUME NEW q \in Seq(Co), NEW b \in Seq(Co), NEW w \in Seq(Co),
           NEW r \in [Co -> Steps], Linked(q, b, w, r)
    PROVE  /\ NextAllEntries(q) \o b \in Seq(Co)
           /\ Linked(<< >>, NextAllEntries(q) \o b, w, r)
           /\ q \o b \in Seq(Co)
           /\ Linked(<< >>, q \o b, w, r)
<1>1. Distinct(q) /\ << >> \in Seq(Co) /\ Distinct(<< >>) /\ Range(<< >>) = {}
  BY DEF Linked, Distinct, Range
<1>2. /\ NextAllEntries(q) \in Seq(Co) /\ Distinct(NextAllEntries(q))
      /\ Range(NextAllEntries(q)) = Range(q)
  BY <1>1, NextAllFacts DEF Distinct
<1> DEFINE none == << >>
<1>3. /\ Range(q) \cup Range(none) = Range(q) /\ Range(q) \cap Range(none) = {}
      /\ none \in Seq(Co) /\ Distinct(none)
  BY <1>1
<1> HIDE DEF none
<1>4. q \o b \in Seq(Co) /\ Linked(none, q \o b, w, r)
  BY <1>1, <1>3, Moved, Zenon
<1>5. NextAllEntries(q) \o b \in Seq(Co) /\ Linked(none, NextAllEntries(q) \o b, w, r)
  BY <1>2, <1>3, Moved, Zenon
<1> QED BY <1>4, <1>5 DEF none

(* A request on no list may queue at either end, or go on.                 *)
LEMMA Queued ==
    ASSUME NEW q \in Seq(Co), NEW b \in Seq(Co), NEW w \in Seq(Co),
           NEW r \in [Co -> Steps], NEW c \in Co, NEW q2 \in Seq(Co),
           Linked(q, b, w, [r EXCEPT ![c] = "new"]),
           Distinct(q2), Range(q2) = Range(q) \cup {c}
    PROVE  Linked(q2, b, w, [r EXCEPT ![c] = "waiting"])
<1>1. c \notin Range(q) \cup Range(b) \cup Range(w)
  BY DEF Linked
<1>2. Range(q2) \cap Range(b) = {} /\ Range(q2) \cap Range(w) = {}
  BY <1>1 DEF Linked
<1>3. ASSUME NEW d \in Co
      PROVE  [r EXCEPT ![c] = "waiting"][d] = "waiting"
                <=> d \in Range(q2) \cup Range(b) \cup Range(w)
  BY DEF Linked
<1> QED BY <1>2, <1>3 DEF Linked

(* A request that is on no list may take any step but waiting.              *)
LEMMA GoesOn ==
    ASSUME NEW q \in Seq(Co), NEW b \in Seq(Co), NEW w \in Seq(Co),
           NEW r \in [Co -> Steps], NEW c \in Co, NEW s \in Steps \ {"waiting"},
           Linked(q, b, w, [r EXCEPT ![c] = "new"])
    PROVE  Linked(q, b, w, [r EXCEPT ![c] = s])
<1>1. ASSUME NEW d \in Co
      PROVE  [r EXCEPT ![c] = s][d] = "waiting"
                <=> [r EXCEPT ![c] = "new"][d] = "waiting"
  OBVIOUS
<1> QED BY <1>1 DEF Linked

(* The first request of a bottom half is taken off it.                     *)
LEMMA Taken ==
    ASSUME NEW q \in Seq(Co), NEW b \in Seq(Co), NEW w \in Seq(Co),
           NEW r \in [Co -> Steps], Linked(q, b, w, r), w # << >>
    PROVE  /\ Head(w) \in Co /\ Tail(w) \in Seq(Co) /\ r[Head(w)] = "waiting"
           /\ Linked(q, b, Tail(w), [r EXCEPT ![Head(w)] = "new"])
<1> DEFINE c == Head(w)
           t == Tail(w)
<1>1. Distinct(w)
  BY DEF Linked
<1>2. NextRest(w) = t /\ NextEntries(w) = <<c>> /\ c \in Co
  BY DEF NextRest, NextEntries, QueueEmpty
<1> HIDE DEF c, t
<1>3. /\ t \in Seq(Co) /\ Distinct(t)
      /\ {c} \cup Range(t) = Range(w) /\ {c} \cap Range(t) = {}
  <2>1. /\ NextRest(w) \in Seq(Co) /\ Distinct(NextRest(w))
        /\ Range(NextEntries(w)) \cup Range(NextRest(w)) = Range(w)
        /\ Range(NextEntries(w)) \cap Range(NextRest(w)) = {}
    BY <1>1, NextSplits DEF Distinct
  <2>2. Range(<<c>>) = {c}
    BY <1>2, Single
  <2> QED BY <1>2, <2>1, <2>2
<1>4. c \notin Range(q) /\ c \notin Range(b) /\ c \in Range(w)
  BY <1>3 DEF Linked
<1>5. ASSUME NEW d \in Co
      PROVE  [r EXCEPT ![c] = "new"][d] = "waiting"
                <=> d \in Range(q) \cup Range(b) \cup Range(t)
  BY <1>2, <1>3, <1>4 DEF Linked
<1>6. Range(q) \cap Range(t) = {} /\ Range(b) \cap Range(t) = {}
  BY <1>3 DEF Linked
<1>7. Linked(q, b, t, [r EXCEPT ![c] = "new"])
  BY <1>3, <1>5, <1>6 DEF Linked
<1>8. r[c] = "waiting"
  BY <1>2, <1>4, Zenon DEF Linked
<1> QED BY <1>2, <1>3, <1>7, <1>8 DEF c, t

-----------------------------------------------------------------------------
(* What a step of bdrv_io_limits_intercept leaves behind, for a request on *)
(* no list.                                                                *)
LEMMA InterceptFacts ==
    ASSUME IInv, ~crashed, medium, NEW c \in Co, NEW w \in Seq(Co),
           Linked(queue, bhs, w, [req EXCEPT ![c] = "new"]),
           Intercept(c)
    PROVE  /\ req' \in [Co -> Steps] /\ slice' \in Slices /\ slice'.start <= now
           /\ timer' \in Nat \cup {NULL, Idle} /\ (timer' = NULL <=> timer = NULL)
           /\ queue' \in Seq(Co) /\ bhs' \in Seq(Co) /\ crashed' \in BOOLEAN
           /\ ~crashed' => Linked(queue', bhs', w, req')
           /\ ~crashed' /\ queue' # << >> => timer' >= 0 \/ bhs' # << >>
           /\ timer = NULL /\ queue = << >> => queue' = << >>
<1> DEFINE e == ExceedIoLimits(limits, slice, now, work[c].dir, Charged(c))
<1>1. /\ limits \in Limits /\ slice \in Slices /\ now \in Nat /\ slice.start <= now
      /\ req \in [Co -> Steps] /\ queue \in Seq(Co) /\ bhs \in Seq(Co)
      /\ timer \in Nat \cup {NULL, Idle} /\ crashed \in BOOLEAN
  BY DEF IInv, TypeOK
<1>2. work[c].dir \in Dirs /\ Charged(c) \in Nat
  <2>1. work[c] \in [dir : Dirs, bytes : Nat] /\ SectorSize \in Nat \ {0}
    BY ThrottleAssumption DEF IInv, TypeOK
  <2>2. work[c].bytes \div SectorSize \in Nat
    BY <2>1
  <2> QED BY <2>1, <2>2 DEF Charged
<1>3. e.exceeds \in BOOLEAN /\ e.wait \in Nat /\ e.slice \in Slices /\ e.slice.start <= now
  BY <1>1, <1>2, EvaluationFacts, Zenon
<1> HIDE DEF e
<1>4. /\ slice' = e.slice
      /\ \/ /\ e.exceeds /\ timer # NULL
            /\ timer' = now + e.wait
            /\ queue' = QueueWaitInsertHead(queue, c)
            /\ req' = [req EXCEPT ![c] = "waiting"]
            /\ UNCHANGED <<bhs, crashed>>
         \/ /\ e.exceeds /\ timer = NULL
            /\ crashed' = TRUE
            /\ UNCHANGED <<timer, queue, req, bhs>>
         \/ /\ ~e.exceeds
            /\ req' = [req EXCEPT ![c] = "serving"]
            /\ queue' = NextRest(queue)
            /\ bhs' = NextEntries(queue) \o bhs
            /\ UNCHANGED <<timer, crashed>>
  BY Zenon DEF Intercept, e
<1>5. CASE /\ e.exceeds /\ timer # NULL
           /\ timer' = now + e.wait
           /\ queue' = QueueWaitInsertHead(queue, c)
           /\ req' = [req EXCEPT ![c] = "waiting"]
           /\ UNCHANGED <<bhs, crashed>>
  <2>1. c \notin Range(queue) /\ Distinct(queue)
    BY <1>1 DEF Linked
  <2>2. /\ queue' \in Seq(Co) /\ queue' # << >> /\ Distinct(queue')
        /\ Range(queue') = Range(queue) \cup {c}
    BY <1>1, <1>5, <2>1, InsertHeadFacts DEF Distinct
  <2>3. Linked(queue', bhs', w, req')
    BY <1>1, <1>5, <2>2, Queued, Zenon
  <2>4. req' \in [Co -> Steps]
    BY <1>1, <1>5 DEF Steps
  <2>5. timer' \in Nat /\ timer' # NULL /\ timer' >= 0
    <3>1. now \in Nat /\ e.wait \in Nat /\ timer' = now + e.wait
      BY <1>1, <1>3, <1>5, Zenon
    <3> QED BY <3>1 DEF NULL
  <2> QED BY <1>1, <1>3, <1>4, <1>5, <2>2, <2>3, <2>4, <2>5, Zenon
<1>6. CASE /\ e.exceeds /\ timer = NULL
           /\ crashed' = TRUE
           /\ UNCHANGED <<timer, queue, req, bhs>>
  BY <1>1, <1>3, <1>4, <1>6
<1>7. CASE /\ ~e.exceeds
           /\ req' = [req EXCEPT ![c] = "serving"]
           /\ queue' = NextRest(queue)
           /\ bhs' = NextEntries(queue) \o bhs
           /\ UNCHANGED <<timer, crashed>>
  <2>1. req' \in [Co -> Steps]
    BY <1>1, <1>7 DEF Steps
  <2>2. Linked(queue, bhs, w, req')
    BY <1>1, <1>7, GoesOn, Zenon DEF Steps
  <2>3. /\ queue' \in Seq(Co) /\ bhs' \in Seq(Co) /\ Linked(queue', bhs', w, req')
        /\ queue # << >> => bhs' # << >>
        /\ queue = << >> => queue' = << >>
    BY <1>1, <1>7, <2>1, <2>2, MovedNext, Zenon
  <2>4. crashed' \in BOOLEAN
    BY <1>1, <1>7
  <2> QED BY <1>1, <1>3, <1>4, <1>7, <2>1, <2>3, <2>4, Zenon
<1> QED BY <1>4, <1>5, <1>6, <1>7, Zenon

(* bdrv_co_do_preadv and bdrv_co_do_pwritev.                               *)
LEMMA ArriveKeepsIInv ==
    ASSUME IInv, NEW c \in Co, Arrive(c)
    PROVE  IInv'
<1>1. /\ TypeOK /\ ~crashed /\ walk = << >> /\ req[c] = "new"
      /\ Linked(queue, bhs, walk, req)
      /\ now' = now /\ work' = work /\ medium' = medium /\ limits' = limits
      /\ enabled' = enabled /\ walk' = walk /\ polled' = polled
      /\ mode' = mode /\ saved' = saved /\ stray' = stray /\ calls' = calls
  BY DEF IInv, Arrive, Choosing
<1>2. req = [req EXCEPT ![c] = "new"] /\ req \in [Co -> Steps]
      /\ queue \in Seq(Co) /\ bhs \in Seq(Co) /\ walk \in Seq(Co)
  BY <1>1 DEF TypeOK
<1>3. Linked(queue, bhs, walk, [req EXCEPT ![c] = "new"])
  BY <1>1, <1>2, Zenon
<1>4. Throttling' = Throttling
  BY <1>1 DEF Throttling
<1>5. CASE /\ ~medium \/ ~enabled
           /\ UNCHANGED <<slice, timer, queue, bhs, crashed>>
           /\ \/ ~medium /\ req' = [req EXCEPT ![c] = "done"]
              \/ medium /\ req' = [req EXCEPT ![c] = "serving"]
  <2>1. req' \in [Co -> Steps]
    BY <1>2, <1>5, Zenon DEF Steps
  <2>2. TypeOK'
    BY <1>1, <1>5, <2>1 DEF TypeOK
  <2>3. Linked(queue', bhs', walk', req')
    <3>1. CASE req' = [req EXCEPT ![c] = "done"]
      BY <1>1, <1>2, <1>3, <1>5, <3>1, GoesOn, Zenon DEF Steps
    <3>2. CASE req' = [req EXCEPT ![c] = "serving"]
      BY <1>1, <1>2, <1>3, <1>5, <3>2, GoesOn, Zenon DEF Steps
    <3> QED BY <1>5, <3>1, <3>2
  <2>4. ThrottledHasMedium'
    BY <1>1, <1>2, <1>5 DEF IInv, ThrottledHasMedium
  <2> QED BY <1>1, <1>4, <1>5, <2>2, <2>3, <2>4
          DEF IInv, NoLostWakeup, OffIsQuiet, Armed
<1>6. CASE /\ medium /\ enabled /\ ~QueueEmpty(queue)
           /\ queue' = QueueWait(queue, c)
           /\ req' = [req EXCEPT ![c] = "waiting"]
           /\ UNCHANGED <<slice, timer, bhs, crashed>>
  <2>1. req' \in [Co -> Steps]
    BY <1>2, <1>6 DEF Steps
  <2>2. c \notin Range(queue) /\ Distinct(queue)
    BY <1>3, <1>2 DEF Linked
  <2>3. /\ queue' \in Seq(Co) /\ Distinct(queue')
        /\ Range(queue') = Range(queue) \cup {c}
    BY <1>2, <1>6, <2>2, WaitRange, WaitDistinct, Zenon DEF Distinct
  <2>4. TypeOK'
    BY <1>1, <1>6, <2>1, <2>3, Zenon DEF TypeOK
  <2>5. Linked(queue', bhs', walk', req')
    BY <1>1, <1>2, <1>3, <1>6, <2>3, Queued, Zenon
  <2>6. ThrottledHasMedium'
    BY <1>1, <1>6 DEF ThrottledHasMedium
  <2>7. NoLostWakeup'
    BY <1>1, <1>6 DEF IInv, NoLostWakeup, QueueEmpty, Armed
  <2>8. Throttling
    BY <1>6 DEF Throttling, IInv, OffIsQuiet
  <2> QED BY <1>1, <1>4, <1>6, <2>4, <2>5, <2>6, <2>7, <2>8 DEF IInv, OffIsQuiet
<1>7. CASE medium /\ enabled /\ QueueEmpty(queue) /\ Intercept(c)
  <2>1. /\ req' \in [Co -> Steps] /\ slice' \in Slices /\ slice'.start <= now
        /\ timer' \in Nat \cup {NULL, Idle} /\ (timer' = NULL <=> timer = NULL)
        /\ queue' \in Seq(Co) /\ bhs' \in Seq(Co) /\ crashed' \in BOOLEAN
        /\ ~crashed' => Linked(queue', bhs', walk, req')
        /\ ~crashed' /\ queue' # << >> => timer' >= 0 \/ bhs' # << >>
    BY <1>1, <1>2, <1>3, <1>7, InterceptFacts, Zenon
  <2>2. TypeOK'
    BY <1>1, <2>1 DEF TypeOK
  <2>3. ThrottledHasMedium' /\ NoLostWakeup'
    BY <1>1, <1>7, <2>1, Zenon DEF ThrottledHasMedium, NoLostWakeup, Armed
  <2>4. Throttling
    BY <1>7 DEF Throttling, IInv, OffIsQuiet
  <2> QED BY <1>1, <1>4, <1>7, <2>1, <2>2, <2>3, <2>4, Zenon DEF IInv, OffIsQuiet
<1> QED BY <1>5, <1>6, <1>7 DEF Arrive

(* qemu_co_queue_next_bh.                                                  *)
LEMMA NextBhKeepsIInv ==
    ASSUME IInv, NextBh
    PROVE  IInv'
<1> DEFINE c == Head(walk)
<1>1. /\ TypeOK /\ ~crashed /\ walk # << >> /\ walk' = Tail(walk) /\ Intercept(c)
      /\ Linked(queue, bhs, walk, req)
      /\ now' = now /\ work' = work /\ medium' = medium /\ limits' = limits
      /\ enabled' = enabled /\ polled' = polled
      /\ mode' = mode /\ saved' = saved /\ stray' = stray /\ calls' = calls
  BY DEF IInv, NextBh
<1>2. req \in [Co -> Steps]
      /\ queue \in Seq(Co) /\ bhs \in Seq(Co) /\ walk \in Seq(Co)
  BY <1>1 DEF TypeOK
<1>3. /\ c \in Co /\ walk' \in Seq(Co) /\ req[c] = "waiting"
      /\ Linked(queue, bhs, walk', [req EXCEPT ![c] = "new"])
  BY <1>1, <1>2, Taken, Zenon
<1>4. Throttling' = Throttling
  BY <1>1 DEF Throttling
<1> HIDE DEF c
<1>5. medium
  BY <1>3 DEF IInv, ThrottledHasMedium
<1>6. /\ req' \in [Co -> Steps] /\ slice' \in Slices /\ slice'.start <= now
      /\ timer' \in Nat \cup {NULL, Idle} /\ (timer' = NULL <=> timer = NULL)
      /\ queue' \in Seq(Co) /\ bhs' \in Seq(Co) /\ crashed' \in BOOLEAN
      /\ ~crashed' => Linked(queue', bhs', walk', req')
      /\ ~crashed' /\ queue' # << >> => timer' >= 0 \/ bhs' # << >>
      /\ timer = NULL /\ queue = << >> => queue' = << >>
  BY <1>1, <1>2, <1>3, <1>5, InterceptFacts, Zenon
<1>7. TypeOK'
  BY <1>1, <1>3, <1>6 DEF TypeOK
<1>8. ThrottledHasMedium' /\ NoLostWakeup'
  BY <1>1, <1>5, <1>6, Zenon DEF ThrottledHasMedium, NoLostWakeup, Armed
<1> QED BY <1>1, <1>4, <1>5, <1>6, <1>7, <1>8, Zenon DEF IInv, OffIsQuiet

-----------------------------------------------------------------------------
(* The types of the single variables, for use in the steps below.          *)
LEMMA Typed ==
    ASSUME IInv
    PROVE  /\ now \in Nat /\ work \in Workloads /\ req \in [Co -> Steps]
           /\ medium \in BOOLEAN /\ limits \in Limits /\ enabled \in BOOLEAN
           /\ slice \in Slices /\ timer \in Nat \cup {NULL, Idle}
           /\ queue \in Seq(Co) /\ bhs \in Seq(Co) /\ walk \in Seq(Co)
           /\ polled \in BOOLEAN /\ mode \in Modes /\ saved \in BOOLEAN
           /\ stray \in Nat /\ calls \in Nat /\ crashed \in BOOLEAN
           /\ slice.start <= now
BY DEF IInv, TypeOK

(* bdrv_io_limits_disable.                                                 *)
LEMMA DisableFacts ==
    ASSUME IInv, ~crashed, Disable
    PROVE  /\ enabled' = FALSE /\ timer' = NULL /\ queue' = << >>
           /\ bhs' \in Seq(Co) /\ Linked(queue', bhs', walk, req)
           /\ slice' \in Slices /\ slice'.start <= now
<1>1. bhs' \in Seq(Co) /\ Linked(<< >>, bhs', walk, req)
  BY Typed, MovedAll DEF IInv, Disable
<1>2. slice' \in Slices /\ slice'.start = 0
  BY Typed, Zenon DEF Disable, Slices
<1>3. slice'.start <= now
  BY <1>2, Typed
<1> QED BY <1>1, <1>2, <1>3 DEF Disable

(* bdrv_io_limits_enable, where nobody is queued.                          *)
LEMMA EnableFacts ==
    ASSUME IInv, ~crashed, queue = << >>, Enable
    PROVE  /\ enabled' = TRUE /\ timer' = Idle /\ queue' = queue
           /\ bhs' = bhs /\ slice' = slice /\ stray' \in Nat
           /\ Linked(queue', bhs', walk, req)
BY Typed DEF IInv, Enable

(* qmp_block_set_io_throttle.                                              *)
LEMMA SetKeepsIInv ==
    ASSUME IInv, NEW l \in LimitSettings, SetIoThrottle(l)
    PROVE  IInv'
<1>1. /\ ~crashed /\ walk = << >> /\ mode = "run" /\ calls' = calls + 1
      /\ now' = now /\ work' = work /\ req' = req /\ medium' = medium
      /\ walk' = walk /\ polled' = polled /\ mode' = mode /\ saved' = saved
      /\ crashed' = crashed /\ limits' = l /\ Linked(queue, bhs, walk, req)
  BY DEF SetIoThrottle, Call, Choosing, reqs, IInv
<1>2. l \in Limits
  <2>1. l \in [bps : [Kinds -> Int], iops : [Kinds -> Int]] /\ LimitsValid(l)
    BY ThrottleAssumption DEF SetIoThrottle
  <2>2. l.bps \in [Kinds -> Nat] /\ l.iops \in [Kinds -> Nat]
    BY <2>1 DEF LimitsValid
  <2> QED BY <2>1, <2>2 DEF Limits
<1>3. ThrottledHasMedium'
  BY <1>1 DEF IInv, ThrottledHasMedium
<1>4. Throttling = enabled /\ Throttling' = enabled'
  BY <1>1, Zenon DEF Throttling
<1>5. CASE ~enabled /\ SomeLimit(l) /\ Enable
  <2>1. queue = << >>
    BY <1>4, <1>5 DEF IInv, OffIsQuiet
  <2>2. /\ enabled' = TRUE /\ timer' = Idle /\ queue' = queue
        /\ bhs' = bhs /\ slice' = slice /\ stray' \in Nat
        /\ Linked(queue', bhs', walk, req)
    BY <1>1, <1>5, <2>1, EnableFacts, Zenon
  <2>3. TypeOK'
    BY <1>1, <1>2, <2>2, Typed DEF TypeOK
  <2>4. timer' # NULL
    BY <2>2 DEF Idle, NULL
  <2> QED BY <1>1, <1>3, <1>4, <2>1, <2>2, <2>3, <2>4, Typed, Zenon
          DEF IInv, OffIsQuiet, NoLostWakeup
<1>6. CASE enabled /\ ~SomeLimit(l) /\ Disable /\ UNCHANGED stray
  <2>1. /\ enabled' = FALSE /\ timer' = NULL /\ queue' = << >>
        /\ bhs' \in Seq(Co) /\ Linked(queue', bhs', walk, req)
        /\ slice' \in Slices /\ slice'.start <= now
    BY <1>1, <1>6, DisableFacts, Zenon
  <2>2. TypeOK'
    <3>1. enabled' \in BOOLEAN
      BY <2>1, ZenonT(60)
    <3>2. timer' \in Nat \cup {NULL, Idle} /\ queue' \in Seq(Co)
      BY <2>1
    <3> TypeOK
      BY DEF IInv
    <3> QED BY <1>1, <1>2, <1>6, <2>1, <3>1, <3>2 DEF TypeOK
  <2> QED BY <1>1, <1>3, <1>4, <2>1, <2>2 DEF IInv, OffIsQuiet, NoLostWakeup
<1>7. CASE /\ enabled = SomeLimit(l)
           /\ timer' = IF timer = NULL THEN NULL ELSE now
           /\ UNCHANGED <<enabled, slice, queue, bhs, stray>>
  <2> TypeOK
    BY DEF IInv
  <2>0. timer' \in Nat \cup {NULL, Idle}
    BY <1>7, Typed
  <2>1. TypeOK'
    BY <1>1, <1>2, <1>7, <2>0 DEF TypeOK
  <2>2. (timer' = NULL <=> timer = NULL) /\ (timer >= 0 => timer' >= 0)
    BY <1>7, Typed, SMTT(60) DEF NULL, Idle
  <2>3. NoLostWakeup'
    BY <1>1, <1>7, <2>2 DEF IInv, NoLostWakeup, Armed
  <2> QED BY <1>1, <1>3, <1>4, <1>7, <2>1, <2>2, <2>3, Typed DEF IInv, OffIsQuiet
<1> QED BY <1>5, <1>6, <1>7 DEF SetIoThrottle

(* bdrv_prwv_co and bdrv_read_unthrottled.                                 *)
LEMMA SyncKeepsIInv ==
    ASSUME IInv, SyncIo \/ ReadUnthrottled \/ SyncDone
    PROVE  IInv'
<1>1. CASE SyncIo
  <2>1. /\ ~crashed /\ walk = << >> /\ mode = "run" /\ calls' = calls + 1
        /\ now' = now /\ work' = work /\ req' = req /\ medium' = medium
        /\ limits' = limits /\ walk' = walk /\ polled' = polled
        /\ mode' = "sync" /\ saved' = saved /\ stray' = stray
        /\ crashed' = crashed /\ Linked(queue, bhs, walk, req)
    BY <1>1 DEF SyncIo, Call, Choosing, reqs, IInv
  <2>2. ThrottledHasMedium'
    BY <2>1 DEF IInv, ThrottledHasMedium
  <2>3. Throttling = enabled /\ Throttling' = enabled'
    BY <2>1 DEF Throttling
  <2>4. CASE enabled /\ Disable
    <3>1. /\ enabled' = FALSE /\ timer' = NULL /\ queue' = << >>
          /\ bhs' \in Seq(Co) /\ Linked(queue', bhs', walk, req)
          /\ slice' \in Slices /\ slice'.start <= now
      BY <2>1, <2>4, DisableFacts, Zenon
    <3>2. TypeOK'
      <4>1. enabled' \in BOOLEAN
        BY <3>1, ZenonT(60)
      <4>2. timer' \in Nat \cup {NULL, Idle} /\ queue' \in Seq(Co)
        BY <3>1
      <4> TypeOK
        BY DEF IInv
      <4> QED BY <2>1, <3>1, <4>1, <4>2 DEF TypeOK, Modes
    <3> QED BY <2>1, <2>2, <2>3, <3>1, <3>2 DEF IInv, OffIsQuiet, NoLostWakeup
  <2>5. CASE ~enabled /\ UNCHANGED <<enabled, bhs, queue, timer, slice>>
    <3> TypeOK
      BY DEF IInv
    <3>1. TypeOK'
      BY <2>1, <2>5 DEF TypeOK, Modes
    <3> QED BY <2>1, <2>2, <2>3, <2>5, <3>1, Typed
            DEF IInv, OffIsQuiet, NoLostWakeup, Armed
  <2> QED BY <1>1, <2>4, <2>5, Zenon DEF SyncIo
<1>2. CASE ReadUnthrottled
  <2>1. /\ ~crashed /\ mode = "run" /\ calls' = calls + 1 /\ crashed' = crashed
        /\ now' = now /\ work' = work /\ req' = req /\ medium' = medium
        /\ limits' = limits /\ slice' = slice /\ timer' = timer /\ queue' = queue
        /\ bhs' = bhs /\ walk' = walk /\ polled' = polled /\ stray' = stray
        /\ mode' = "unthrottled" /\ saved' = enabled /\ enabled' = FALSE
    BY <1>2 DEF ReadUnthrottled, Call, Choosing, reqs
  <2>2. Throttling' = Throttling
    BY <2>1, Zenon DEF Throttling
  <2> TypeOK
    BY DEF IInv
  <2>3. TypeOK'
    <3>1. enabled' \in BOOLEAN /\ saved' \in BOOLEAN
      BY <2>1, ZenonT(60) DEF TypeOK
    <3> QED BY <2>1, <3>1, SMTT(60) DEF TypeOK, Modes
  <2> QED BY <2>1, <2>2, <2>3, Typed, Zenon
          DEF IInv, OffIsQuiet, NoLostWakeup, Armed, ThrottledHasMedium
<1>3. CASE SyncDone
  <2>1. /\ ~crashed /\ mode \in {"sync", "unthrottled"} /\ calls' = calls
        /\ crashed' = crashed /\ now' = now /\ work' = work /\ req' = req
        /\ medium' = medium /\ limits' = limits /\ slice' = slice
        /\ timer' = timer /\ queue' = queue /\ bhs' = bhs /\ walk' = walk
        /\ polled' = polled /\ stray' = stray /\ saved' = saved
        /\ mode' = "run"
        /\ enabled' = IF mode = "unthrottled" THEN saved ELSE enabled
    BY <1>3 DEF SyncDone, Choosing, reqs
  <2>2. Throttling' = Throttling
    BY <2>1 DEF Throttling
  <2> TypeOK
    BY DEF IInv
  <2>3. TypeOK'
    BY <2>1 DEF TypeOK, Modes
  <2> QED BY <2>1, <2>2, <2>3, Typed
          DEF IInv, OffIsQuiet, NoLostWakeup, Armed, ThrottledHasMedium
<1> QED BY <1>1, <1>2, <1>3

(* bdrv_drain_all, bdrv_close and bdrv_open.                               *)
LEMMA DrainDoneKeepsIInv ==
    ASSUME IInv, DrainDone
    PROVE  IInv'
<1>1. /\ ~crashed /\ walk = << >> /\ bhs = << >> /\ queue = << >>
      /\ mode \in {"drain", "close"} /\ \A c \in Co : req[c] # "serving"
      /\ now' = now /\ work' = work /\ req' = req /\ limits' = limits
      /\ walk' = walk /\ polled' = polled /\ mode' = "run" /\ saved' = saved
      /\ stray' = stray /\ calls' = calls /\ crashed' = crashed
      /\ Linked(queue, bhs, walk, req) /\ TypeOK
  BY DEF DrainDone, Choosing, Draining, reqs, QueueEmpty, IInv
<1>2. \A c \in Co : req[c] \notin {"waiting", "serving"}
  BY <1>1 DEF Linked, Range
<1>3. ThrottledHasMedium'
  BY <1>1, <1>2 DEF ThrottledHasMedium
<1>4. Throttling = enabled /\ Throttling' = enabled'
  BY <1>1 DEF Throttling
<1>5. CASE mode = "drain" /\ UNCHANGED <<medium, enabled, bhs, queue, timer, slice>>
  <2>1. TypeOK'
    BY <1>1, <1>5, Zenon DEF TypeOK, Modes
  <2> QED BY <1>1, <1>3, <1>4, <1>5, <2>1, Typed DEF IInv, OffIsQuiet, NoLostWakeup
<1>6. CASE medium' = FALSE /\ enabled /\ Disable
  <2>1. /\ enabled' = FALSE /\ timer' = NULL /\ queue' = << >>
        /\ bhs' \in Seq(Co) /\ Linked(queue', bhs', walk, req)
        /\ slice' \in Slices /\ slice'.start <= now
    BY <1>1, <1>6, DisableFacts
  <2>2. enabled' \in BOOLEAN /\ medium' \in BOOLEAN
    BY <1>6, <2>1, Zenon
  <2>3. timer' \in Nat \cup {NULL, Idle} /\ queue' \in Seq(Co)
    BY <2>1
  <2>4. TypeOK'
    BY <1>1, <2>1, <2>2, <2>3 DEF TypeOK, Modes
  <2> QED BY <1>1, <1>3, <1>4, <1>6, <2>1, <2>4, Zenon DEF IInv, OffIsQuiet, NoLostWakeup
<1>7. CASE /\ medium' = FALSE
           /\ ~enabled /\ UNCHANGED <<enabled, bhs, queue, timer, slice>>
  <2>1. medium' \in BOOLEAN
    BY <1>7, Zenon
  <2>2. TypeOK'
    BY <1>1, <1>7, <2>1 DEF TypeOK, Modes
  <2> QED BY <1>1, <1>3, <1>4, <1>7, <2>2, Typed DEF IInv, OffIsQuiet, NoLostWakeup
<1> QED BY <1>5, <1>6, <1>7, ZenonT(60) DEF DrainDone

(* bdrv_open.                                                              *)
LEMMA OpenKeepsIInv ==
    ASSUME IInv, Open
    PROVE  IInv'
<1>1. /\ ~crashed /\ walk = << >> /\ mode = "run" /\ calls' = calls + 1
      /\ ~medium /\ medium' = TRUE /\ queue = << >>
      /\ now' = now /\ work' = work /\ req' = req /\ limits' = limits
      /\ walk' = walk /\ polled' = polled /\ mode' = mode /\ saved' = saved
      /\ crashed' = crashed /\ Linked(queue, bhs, walk, req) /\ TypeOK
  BY DEF Open, Call, Choosing, reqs, IInv
<1>2. ThrottledHasMedium'
  BY <1>1 DEF ThrottledHasMedium
<1>3. Throttling = enabled /\ Throttling' = enabled'
  BY <1>1 DEF Throttling
<1>4. medium' \in BOOLEAN
  BY <1>1, Zenon
<1>5. CASE enabled /\ Enable
  <2>1. /\ enabled' = TRUE /\ timer' = Idle /\ queue' = queue
        /\ bhs' = bhs /\ slice' = slice /\ stray' \in Nat
        /\ Linked(queue', bhs', walk, req)
    BY <1>1, <1>5, EnableFacts
  <2>2. enabled' \in BOOLEAN
    BY <2>1
  <2>3. timer' \in Nat \cup {NULL, Idle} /\ timer' # NULL
    BY <2>1, SMTT(60) DEF Idle, NULL
  <2>4. TypeOK'
    BY <1>1, <1>4, <2>1, <2>2, <2>3, SMTT(60) DEF TypeOK
  <2> QED BY <1>1, <1>2, <1>3, <2>1, <2>3, <2>4, Typed, Zenon
          DEF IInv, OffIsQuiet, NoLostWakeup
<1>6. CASE ~enabled /\ UNCHANGED <<enabled, bhs, queue, timer, slice, stray>>
  <2>1. TypeOK'
    BY <1>1, <1>4, <1>6, SMTT(60) DEF TypeOK
  <2> QED BY <1>1, <1>2, <1>3, <1>6, <2>1, Typed, Zenon DEF IInv, OffIsQuiet, NoLostWakeup
<1> QED BY <1>5, <1>6 DEF Open

(* The callbacks that only move requests from the queue to a bottom half:  *)
(* bdrv_block_timer and the restart in bdrv_drain_all.                     *)
LEMMA WakeKeepsIInv ==
    ASSUME IInv, BlockTimer \/ StrayTimer \/ DrainRestart
    PROVE  IInv'
<1>1. /\ ~crashed /\ Linked(queue, bhs, walk, req) /\ TypeOK
      /\ now' = now /\ work' = work /\ req' = req /\ medium' = medium
      /\ limits' = limits /\ enabled' = enabled /\ slice' = slice /\ walk' = walk
      /\ mode' = mode /\ saved' = saved /\ calls' = calls /\ crashed' = crashed
      /\ polled' \in BOOLEAN
      /\ \/ queue' = NextRest(queue) /\ bhs' = NextEntries(queue) \o bhs
         \/ queue' = << >> /\ bhs' = queue \o bhs
  BY ZenonT(60) DEF BlockTimer, StrayTimer, DrainRestart, Choosing, reqs, IInv,
         RestartAllEntries, RestartAllRest
<1>2. /\ queue' \in Seq(Co) /\ bhs' \in Seq(Co) /\ Linked(queue', bhs', walk, req)
      /\ queue = << >> => queue' = << >>
      /\ queue' # << >> => bhs' # << >>
  <2>1. CASE queue' = NextRest(queue) /\ bhs' = NextEntries(queue) \o bhs
    <3>1. /\ queue' \in Seq(Co) /\ bhs' \in Seq(Co) /\ Linked(queue', bhs', walk, req)
          /\ queue # << >> => bhs' # << >>
          /\ queue = << >> => queue' = << >>
      BY <1>1, <2>1, MovedNext DEF TypeOK
    <3> QED BY <3>1
  <2>2. CASE queue' = << >> /\ bhs' = queue \o bhs
    <3>1. bhs' \in Seq(Co) /\ Linked(<< >>, bhs', walk, req)
      BY <1>1, <2>2, MovedAll, ZenonT(60) DEF TypeOK
    <3> QED BY <2>2, <3>1, SMTT(60)
  <2> QED BY <1>1, <2>1, <2>2
<1>3. /\ timer' \in Nat \cup {NULL, Idle} /\ (timer' = NULL <=> timer = NULL)
      /\ stray' \in Nat
  <2>1. CASE timer' = timer /\ stray' = stray
    BY <1>1, <2>1 DEF TypeOK
  <2>2. CASE timer >= 0 /\ timer' = Idle /\ stray' = stray
    BY <1>1, <2>2, SMTT(60) DEF TypeOK, NULL, Idle
  <2>3. CASE timer' = timer /\ stray > 0 /\ stray' = stray - 1
    BY <1>1, <2>3 DEF TypeOK
  <2> QED BY <2>1, <2>2, <2>3, Zenon DEF BlockTimer, StrayTimer, DrainRestart, Armed
<1>4. polled' \in BOOLEAN
  BY <1>1, Zenon
<1>5. TypeOK'
  BY <1>1, <1>2, <1>3, <1>4 DEF TypeOK
<1>6. Throttling' = Throttling
  BY <1>1 DEF Throttling
<1> QED BY <1>1, <1>2, <1>3, <1>5, <1>6, Typed, ZenonT(60)
        DEF IInv, OffIsQuiet, NoLostWakeup, ThrottledHasMedium

(* Every step keeps the invariant.                                         *)
THEOREM Invariance == Spec => []IInv
<1>1. Init => IInv
  <2> SUFFICES ASSUME Init PROVE IInv
    OBVIOUS
  <2>1. limits \in Limits
    <3>1. /\ limits \in [bps : [Kinds -> Int], iops : [Kinds -> Int]]
          /\ LimitsValid(limits)
      BY ThrottleAssumption DEF Init
    <3>2. limits.bps \in [Kinds -> Nat] /\ limits.iops \in [Kinds -> Nat]
      BY <3>1 DEF LimitsValid
    <3> QED BY <3>1, <3>2, Zenon DEF Limits
  <2>2. slice \in Slices /\ slice.start <= now
    BY SMTT(60) DEF Init, Slices, NoIo
  <2>3. enabled \in BOOLEAN
    BY ZenonT(60) DEF Init, SomeLimit
  <2>4. timer \in Nat \cup {NULL, Idle} /\ (medium /\ enabled <=> timer # NULL)
    BY SMTT(60) DEF Init, NULL, Idle
  <2>5. req \in [Co -> Steps]
    BY Zenon DEF Init, Steps
  <2>6. polled \in BOOLEAN /\ saved \in BOOLEAN /\ crashed \in BOOLEAN
        /\ medium \in BOOLEAN
    BY ZenonT(60) DEF Init
  <2>7. TypeOK
    BY <2>1, <2>2, <2>3, <2>4, <2>5, <2>6 DEF Init, TypeOK, Modes
  <2>8. Linked(queue, bhs, walk, req)
    <3>1. /\ queue = << >> /\ bhs = << >> /\ walk = << >>
          /\ req = [c \in Co |-> "new"]
      BY Zenon DEF Init
    <3>2. Distinct(<< >>) /\ Range(<< >>) = {}
      BY DEF Distinct, Range
    <3> QED BY <3>1, <3>2 DEF Linked
  <2> QED BY <2>2, <2>4, <2>7, <2>8
          DEF Init, IInv, OffIsQuiet, NoLostWakeup, ThrottledHasMedium, Throttling
<1>2. IInv /\ [Next]_vars => IInv'
  <2> SUFFICES ASSUME IInv, [Next]_vars PROVE IInv'
    OBVIOUS
  <2> USE DEF reqs, device, loop
  <2>1. ASSUME NEW c \in Co, Arrive(c) PROVE IInv'
    BY <2>1, ArriveKeepsIInv, Zenon
  <2>2. ASSUME NEW c \in Co, Complete(c) PROVE IInv'
    <3>1. /\ ~crashed /\ req[c] = "serving" /\ req' = [req EXCEPT ![c] = "done"]
          /\ UNCHANGED <<now, work, device, loop>>
      BY <2>2, Zenon DEF Complete, Choosing
    <3>2. req' \in [Co -> Steps]
      BY <3>1, Typed, Zenon DEF Steps
    <3>3. TypeOK'
      BY <3>1, <3>2, ZenonT(60) DEF IInv, TypeOK
    <3>4. \A d \in Co : req'[d] = "waiting" <=> req[d] = "waiting"
      BY <3>1, Typed, Zenon
    <3>5. Linked(queue', bhs', walk', req')
      BY <3>1, <3>4, Zenon DEF IInv, Linked
    <3>6. ThrottledHasMedium'
      BY <3>1, Typed, Zenon DEF IInv, ThrottledHasMedium
    <3> QED BY <3>1, <3>3, <3>5, <3>6, Typed, ZenonT(60)
            DEF IInv, OffIsQuiet, NoLostWakeup, Throttling, Armed
  <2>3. CASE Poll
    <3>1. /\ ~crashed /\ walk = << >> /\ bhs # << >> /\ walk' = bhs /\ bhs' = << >>
          /\ polled' = TRUE
          /\ UNCHANGED <<now, reqs, device, mode, saved, stray, calls, crashed>>
      BY <2>3 DEF Poll, Choosing
    <3>2. polled' \in BOOLEAN
      BY <3>1, Zenon
    <3>3. TypeOK'
      BY <3>1, <3>2, Zenon DEF IInv, TypeOK
    <3>4. Linked(queue', bhs', walk', req')
      BY <3>1 DEF IInv, Linked
    <3> QED BY <3>1, <3>3, <3>4, Typed, ZenonT(60)
            DEF IInv, OffIsQuiet, NoLostWakeup, Throttling, Armed, ThrottledHasMedium
  <2>4. CASE NextBh
    BY <2>4, NextBhKeepsIInv
  <2>5. CASE BlockTimer \/ StrayTimer \/ DrainRestart
    BY <2>5, WakeKeepsIInv, Zenon
  <2>6. CASE Tick
    <3>1. now' = now + 1 /\ UNCHANGED <<reqs, device, loop>>
      BY <2>6, Zenon DEF Tick
    <3>2. TypeOK'
      BY <3>1, SMTT(60) DEF IInv, TypeOK
    <3>3. slice'.start <= now'
      BY <3>1, Typed, SMTT(60) DEF Slices
    <3> QED BY <3>1, <3>2, <3>3
            DEF IInv, OffIsQuiet, NoLostWakeup, Throttling, Armed, ThrottledHasMedium
  <2>7. ASSUME NEW l \in LimitSettings, SetIoThrottle(l) PROVE IInv'
    BY <2>7, SetKeepsIInv
  <2>8. CASE SyncIo \/ ReadUnthrottled \/ SyncDone
    BY <2>8, SyncKeepsIInv
  <2>9. ASSUME NEW m \in {"drain", "close"}, Drain(m) PROVE IInv'
    <3>1. /\ ~crashed /\ mode = "run" /\ mode' = m /\ polled' = FALSE
          /\ calls' = calls + 1
          /\ UNCHANGED <<now, reqs, device, bhs, walk, saved, stray, crashed>>
      BY <2>9 DEF Drain, Call, Choosing
    <3>2. polled' \in BOOLEAN
      BY <3>1, ZenonT(60)
    <3>3. TypeOK'
      BY <3>1, <3>2 DEF IInv, TypeOK, Modes
    <3> QED BY <3>1, <3>3, Typed, ZenonT(60)
            DEF IInv, OffIsQuiet, NoLostWakeup, Throttling, Armed, ThrottledHasMedium
  <2>10. CASE DrainDone
    BY <2>10, DrainDoneKeepsIInv
  <2>11. CASE Open
    BY <2>11, OpenKeepsIInv
  <2>12. CASE UNCHANGED vars
    <3>1. TypeOK'
      BY <2>12, ZenonT(60) DEF vars, IInv, TypeOK
    <3> QED BY <2>12, <3>1, ZenonT(60)
            DEF vars, IInv, OffIsQuiet, NoLostWakeup, Throttling, Armed,
                ThrottledHasMedium
  <2> QED BY <2>1, <2>2, <2>3, <2>4, <2>5, <2>6, <2>7, <2>8, <2>9, <2>10, <2>11,
             <2>12 DEF Next
<1> QED BY <1>1, <1>2, PTL DEF Spec

(* Every throttled request is linked once and will be woken; where         *)
(* bdrv_io_limits_enable may be called nobody is queued; a throttled       *)
(* request finds a timer and keeps its medium.                             *)
THEOREM Safety ==
    Spec => [](/\ TypeOK /\ LinkedOnce /\ NoLostWakeup /\ EnableLosesNobody
               /\ EnabledHasTimer /\ ThrottledHasMedium)
<1>1. IInv => /\ TypeOK /\ LinkedOnce /\ NoLostWakeup /\ EnableLosesNobody
              /\ EnabledHasTimer /\ ThrottledHasMedium
  <2> SUFFICES ASSUME IInv
               PROVE  /\ LinkedOnce /\ EnableLosesNobody /\ EnabledHasTimer
    BY DEF IInv
  <2>1. LinkedOnce
    BY LinkedOnceIsLinked, Zenon DEF IInv
  <2>2. EnableLosesNobody
    BY Typed, Zenon DEF IInv, OffIsQuiet, EnableLosesNobody, Throttling
  <2>3. EnabledHasTimer
    BY Typed DEF IInv, OffIsQuiet, EnabledHasTimer, Throttling
  <2> QED BY <2>1, <2>2, <2>3
<1> QED BY <1>1, Invariance, PTL

(* bdrv_drain_all returns only when no request is left.                    *)
THEOREM DrainDrains == Spec => AllDrained
<1>1. IInv /\ [Next]_vars =>
        [Draining /\ mode' = "run" => \A c \in Co : req[c] \in {"new", "done"}]_vars
  <2> SUFFICES ASSUME IInv, Next, Draining, mode' = "run", NEW c \in Co
               PROVE  req[c] \in {"new", "done"}
    BY DEF vars
  <2>1. mode \in {"drain", "close"} /\ mode # "run"
    BY Zenon DEF Draining
  <2>2. DrainDone
    BY <2>1, ZenonT(60) DEF Next, Arrive, Complete, Poll, NextBh, BlockTimer, StrayTimer, Tick,
                SetIoThrottle, SyncIo, ReadUnthrottled, SyncDone, Drain, Call,
                DrainRestart, Open, loop
  <2>3. /\ queue = << >> /\ bhs = << >> /\ walk = << >> /\ req[c] # "serving"
        /\ Linked(queue, bhs, walk, req) /\ req[c] \in Steps
    BY <2>2, Typed, Zenon DEF DrainDone, Choosing, QueueEmpty, IInv
  <2>4. req[c] # "waiting"
    BY <2>3 DEF Linked, Range
  <2> QED BY <2>3, <2>4 DEF Steps
<1> QED BY <1>1, Invariance, PTL DEF Spec, AllDrained

(* A throttled request is in exactly one of throttled_reqs, the bottom     *)
(* halves and the list being entered, and nothing else is in them: none is *)
(* entered twice, none is forgotten.                                       *)
THEOREM LinkedOnceHolds == Spec => []LinkedOnce
BY Safety, PTL

(* A request sleeping in the throttling queue still has the medium it was  *)
(* sent to: bdrv_close waits for it.                                       *)
THEOREM MediumIsKept == Spec => []ThrottledHasMedium
BY Safety, PTL

=============================================================================
