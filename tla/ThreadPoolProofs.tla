-------------------------- MODULE ThreadPoolProofs --------------------------
(***************************************************************************)
(* The safety of the thread pool, for any requests, any size of the pool   *)
(* and any nesting of callbacks, cancellations and event loops: lists,     *)
(* states and counters agree, the semaphore counts the queued requests,    *)
(* no completion is forgotten, a cancelled element is released before      *)
(* thread_pool_cancel returns, and a freed pool has no thread left.        *)
(***************************************************************************)
EXTENDS ThreadPool, Cardinalities, TLAPS

(* Which function may be called from which.  The others are called from    *)
(* nowhere: they are alone on the stack.                                   *)
Calls(callee, caller_) ==
    \/ callee \in {"post", "cancel", "drain"} /\ caller_ \in {"loop", "callback"}
    \/ callee = "scan" /\ caller_ \in {"loop", "callback", "drain"}
    \/ callee = "callback" /\ caller_ = "scan"

Proper(s) ==
    /\ s \in Seq(Frames) /\ s # << >>
    /\ \A k \in 1 .. Len(s) - 1 : Calls(s[k].fn, s[k + 1].fn)
    /\ s[Len(s)].fn \in {"loop", "free", "freed"}
    /\ \A k \in 1 .. Len(s) : s[k].fn \in {"callback", "cancel"} => s[k].elem # NULL

(* What thread_pool_cancel and thread_pool_free have set.                  *)
FlagsOK ==
    /\ stopping <=> Top \in {"free", "freed"}
    /\ stopping => head = << >> /\ new_threads = 0
    /\ Top = "freed" => cur_threads = 0
    /\ pending_cancellations = IF Top = "cancel" THEN 1 ELSE 0

JobsOK == \A w \in Workers : worker[w] = "active" <=> job[w] # NULL

(* A completion function runs for an element that is done, once.           *)
CallbacksOK(s, st) ==
    /\ \A k \in 1 .. Len(s) : s[k].fn = "callback" => st[s[k].elem] = "DONE"
    /\ \A j, k \in 1 .. Len(s) : s[j].fn = "callback" /\ s[k] = s[j] => j = k

(* Only the walk at the top has elements to visit, and they are listed.    *)
TodoOK ==
    /\ Distinct(todo) /\ Range(todo) \subseteq Range(head)
    /\ Top # "scan" => todo = << >>

(* An element for whose cancellation somebody walks the list has finished  *)
(* or is released; one somebody waits for is not released.  No completion  *)
(* function of it is running further down.                                 *)
CancelsOK(s, st) ==
    \A k \in 1 .. Len(s) : s[k].fn \in {"scan", "cancel"} /\ s[k].elem # NULL =>
        /\ s[k].fn = "scan" => st[s[k].elem] \in {"FREE", "DONE", "CANCELED"}
        /\ s[k].fn = "cancel" => st[s[k].elem] # "FREE"
        /\ \A j \in 1 .. Len(s) : k < j /\ s[j].fn = "callback" => s[j].elem # s[k].elem

(* The walk at the top will come to the element it is for.                 *)
Ahead ==
    Top = "scan" /\ Head(stack).elem # NULL =>
        state[Head(stack).elem] = "FREE" \/ Head(stack).elem \in Range(todo)

(* How many threads are where.                                             *)
Count(p, P) == Cardinality({w \in Workers : p[w] \in P})

Working == Places \ {"none"}

Idling == {"waiting", "grabbed", "timedout"}

(* The same for the places that are counted.                               *)
Shift(p, q, P, a, b) ==
    /\ Count(p, P) \in Nat /\ Count(q, P) \in Nat
    /\ Count(q, P) = Count(p, P) + (IF b \in P THEN 1 ELSE 0) - (IF a \in P THEN 1 ELSE 0)

(* The frame of the completion function of e.                             *)
Callback(e) == [fn |-> "callback", elem |-> e]

(* t is s with the frame f on top.                                         *)
Extends(t, s, f) ==
    /\ s \in Seq(Frames) /\ t \in Seq(Frames) /\ f \in Frames
    /\ Len(t) = Len(s) + 1 /\ t[1] = f /\ Head(t) = f
    /\ \A k \in 1 .. Len(s) : t[k + 1] = s[k]
    /\ \A k \in 1 .. Len(t) : k = 1 \/ (k - 1 \in 1 .. Len(s) /\ t[k] = s[k - 1])
    /\ Range(t) = Range(s) \cup {f}

(* The part of the invariant that is about elements and calls.             *)
ElementTypes ==
    /\ state \in [Elems -> States] /\ head \in Seq(Elems) /\ request_list \in Seq(Elems)
    /\ worker \in [Workers -> Places] /\ job \in [Workers -> Elems \cup {NULL}]
    /\ todo \in Seq(Elems)

Queued ==
    /\ Distinct(request_list)
    /\ \A e \in Elems : state[e] = "QUEUED" <=> e \in Range(request_list)

Worked ==
    /\ \A e \in Elems : state[e] = "ACTIVE" <=> \E w \in Workers : job[w] = e
    /\ \A v, w \in Workers : job[v] = job[w] /\ job[v] # NULL => v = w

Listed ==
    /\ Distinct(head)
    /\ \A e \in Elems :
           e \in Range(head) <=> state[e] # "FREE" /\ Callback(e) \notin Range(stack)

Elements ==
    /\ ElementTypes /\ Proper(stack) /\ JobsOK /\ TodoOK /\ Ahead
    /\ CallbacksOK(stack, state) /\ CancelsOK(stack, state)
    /\ Queued /\ Worked /\ Listed

(* The part of the invariant that is about numbers and flags.              *)
Numbers ==
    /\ withCb \subseteq Elems /\ sem \in Nat /\ notifier \in BOOLEAN /\ bh \in BOOLEAN
    /\ cur_threads \in 0 .. MaxThreads /\ idle_threads \in Nat
    /\ new_threads \in Nat /\ pending_threads \in Nat /\ pending_cancellations \in 0 .. 1
    /\ stopping \in BOOLEAN /\ asleep \in BOOLEAN
    /\ FlagsOK /\ WorkersCome
    /\ cur_threads = new_threads + Count(worker, Working)
    /\ pending_threads = Count(worker, {"starting"})
    /\ idle_threads = Count(worker, Idling)
    /\ ~stopping => sem + Count(worker, {"grabbed"}) + (IF Top = "post" THEN 1 ELSE 0)
                        = Len(request_list)

(* The inductive invariant.                                                *)
IInv == Elements /\ Numbers /\ CompletionNoticed

-----------------------------------------------------------------------------
(* Lists of elements.                                                      *)

(* An element put at the head of a list that does not have it.             *)
LEMMA Inserted ==
    ASSUME NEW q \in Seq(Elems), NEW e \in Elems, e \notin Range(q), Distinct(q)
    PROVE  /\ <<e>> \o q \in Seq(Elems) /\ Distinct(<<e>> \o q)
           /\ Range(<<e>> \o q) = Range(q) \cup {e}
<1> DEFINE p == <<e>> \o q
<1>1. /\ p \in Seq(Elems) /\ Len(p) = Len(q) + 1 /\ p[1] = e /\ Len(q) \in Nat
      /\ \A i \in 2 .. Len(q) + 1 : p[i] = q[i - 1]
  OBVIOUS
<1>2. DOMAIN p = 1 .. Len(q) + 1 /\ DOMAIN q = 1 .. Len(q)
  BY <1>1
<1> HIDE DEF p
<1>3. \A i \in 2 .. Len(q) + 1 : p[i] = q[i - 1] /\ i - 1 \in DOMAIN q
  BY <1>1, <1>2
<1>4. \A i \in DOMAIN q : i + 1 \in DOMAIN p /\ p[i + 1] = q[i]
  BY <1>1, <1>2
<1>5. Range(p) \subseteq Range(q) \cup {e}
  BY <1>1, <1>2, <1>3 DEF Range
<1>6. Range(q) \subseteq Range(p)
  BY <1>4, Zenon DEF Range
<1>7. e \in Range(p)
  BY <1>1, <1>2 DEF Range
<1>8. ASSUME NEW i \in DOMAIN p, NEW j \in DOMAIN p, p[i] = p[j] PROVE i = j
  <2>1. \A m \in 2 .. Len(q) + 1 : p[m] # e
    BY <1>3, Zenon DEF Range
  <2>2. CASE i = 1
    BY <1>1, <1>2, <1>8, <2>1, <2>2
  <2>3. CASE j = 1
    BY <1>1, <1>2, <1>8, <2>1, <2>3
  <2>4. CASE i # 1 /\ j # 1
    <3>1. i \in 2 .. Len(q) + 1 /\ j \in 2 .. Len(q) + 1
      BY <1>1, <1>2, <2>4
    <3>2. i - 1 = j - 1
      BY <1>3, <1>8, <3>1 DEF Distinct
    <3> QED BY <3>1, <3>2
  <2> QED BY <2>2, <2>3, <2>4
<1> QED BY <1>1, <1>5, <1>6, <1>7, <1>8 DEF p, Distinct

(* An element appended to such a list.                                     *)
LEMMA Appended ==
    ASSUME NEW q \in Seq(Elems), NEW e \in Elems, e \notin Range(q), Distinct(q)
    PROVE  /\ Append(q, e) \in Seq(Elems) /\ Distinct(Append(q, e))
           /\ Range(Append(q, e)) = Range(q) \cup {e}
           /\ Len(Append(q, e)) = Len(q) + 1 /\ Append(q, e) # << >>
<1> DEFINE p == Append(q, e)
<1>1. /\ p \in Seq(Elems) /\ Len(p) = Len(q) + 1 /\ p[Len(q) + 1] = e /\ Len(q) \in Nat
      /\ \A i \in 1 .. Len(q) : p[i] = q[i]
      /\ p # << >>
  OBVIOUS
<1>2. DOMAIN p = 1 .. Len(q) + 1 /\ DOMAIN q = 1 .. Len(q)
  BY <1>1
<1> HIDE DEF p
<1>3. \A i \in DOMAIN p : i = Len(q) + 1 \/ i \in DOMAIN q
  BY <1>1, <1>2
<1>4. \A i \in DOMAIN q : i \in DOMAIN p /\ p[i] = q[i] /\ q[i] # e
  BY <1>1, <1>2 DEF Range
<1>5. Len(q) + 1 \in DOMAIN p
  BY <1>1, <1>2
<1>6. Range(p) = Range(q) \cup {e}
  BY <1>1, <1>3, <1>4, <1>5 DEF Range
<1>7. Distinct(p)
  BY <1>1, <1>3, <1>4, <1>5 DEF Distinct
<1> QED BY <1>1, <1>6, <1>7 DEF p

(* The first element leaves.                                               *)
LEMMA Tailed ==
    ASSUME NEW q \in Seq(Elems), q # << >>, Distinct(q)
    PROVE  /\ Tail(q) \in Seq(Elems) /\ Distinct(Tail(q)) /\ Len(Tail(q)) = Len(q) - 1
           /\ Head(q) \in Elems /\ Head(q) \in Range(q) /\ Range(Tail(q)) = Range(q) \ {Head(q)}
<1> DEFINE p == Tail(q)
<1>1. /\ p \in Seq(Elems) /\ Len(p) = Len(q) - 1 /\ Len(q) \in Nat /\ Len(q) > 0
      /\ \A i \in 1 .. Len(q) - 1 : p[i] = q[i + 1]
      /\ Head(q) = q[1]
  OBVIOUS
<1>2. DOMAIN p = 1 .. Len(q) - 1 /\ DOMAIN q = 1 .. Len(q)
  BY <1>1
<1> HIDE DEF p
<1>3. \A i \in DOMAIN p : i + 1 \in DOMAIN q /\ i + 1 # 1 /\ p[i] = q[i + 1]
  BY <1>1, <1>2
<1>4. \A i \in DOMAIN q : i = 1 \/ (i - 1 \in DOMAIN p /\ p[i - 1] = q[i])
  BY <1>1, <1>2
<1>5. 1 \in DOMAIN q /\ q[1] \in Elems
  BY <1>1, <1>2
<1>6. Range(p) \subseteq Range(q) \ {q[1]}
  BY <1>3, <1>5 DEF Range, Distinct
<1>7. Range(q) \ {q[1]} \subseteq Range(p)
  BY <1>4 DEF Range
<1>8. Distinct(p)
  BY <1>2, <1>3 DEF Distinct
<1>9. q[1] \in Range(q)
  BY <1>5 DEF Range
<1> QED BY <1>1, <1>5, <1>6, <1>7, <1>8, <1>9 DEF p

(* An element is taken out.                                                *)
LEMMA Removed ==
    ASSUME NEW q \in Seq(Elems), NEW e \in Range(q), Distinct(q)
    PROVE  /\ Without(q, e) \in Seq(Elems) /\ Range(Without(q, e)) = Range(q) \ {e}
           /\ Distinct(Without(q, e)) /\ Len(Without(q, e)) = Len(q) - 1
(* What is before and after the n-th element.                              *)
<1>Around.
    ASSUME NEW qq \in Seq(Elems), NEW n \in 1 .. Len(qq)
    PROVE  /\ SubSeq(qq, 1, n - 1) \in Seq(Elems) /\ Len(SubSeq(qq, 1, n - 1)) = n - 1
           /\ \A i \in 1 .. n - 1 : SubSeq(qq, 1, n - 1)[i] = qq[i]
           /\ SubSeq(qq, n + 1, Len(qq)) \in Seq(Elems)
           /\ Len(SubSeq(qq, n + 1, Len(qq))) = Len(qq) - n
           /\ \A i \in 1 .. Len(qq) - n : SubSeq(qq, n + 1, Len(qq))[i] = qq[n + i]
  <2> DEFINE b == SubSeq(qq, n + 1, Len(qq))
  <2>1. \A i \in n + 1 .. Len(qq) : qq[i] \in Elems
    OBVIOUS
  <2>2. b \in Seq(Elems) /\ Len(b) = Len(qq) - n
    BY <2>1
  <2>3. \A i \in 1 .. Len(qq) - n : b[i] = qq[n + 1 + i - 1]
    OBVIOUS
  <2>4. \A i \in 1 .. Len(qq) - n : n + 1 + i - 1 = n + i
    OBVIOUS
  <2>5. \A i \in 1 .. Len(qq) - n : b[i] = qq[n + i]
    BY <2>3, <2>4
  <2>6. /\ SubSeq(qq, 1, n - 1) \in Seq(Elems) /\ Len(SubSeq(qq, 1, n - 1)) = n - 1
        /\ \A i \in 1 .. n - 1 : SubSeq(qq, 1, n - 1)[i] = qq[i]
    OBVIOUS
  <2> QED BY <2>2, <2>5, <2>6, Zenon

<1> DEFINE n == CHOOSE i \in DOMAIN q : q[i] = e
           a == SubSeq(q, 1, n - 1)
           b == SubSeq(q, n + 1, Len(q))
           p == a \o b
<1>0. \E i \in DOMAIN q : q[i] = e
  BY Zenon DEF Range
<1>1. n \in DOMAIN q /\ q[n] = e
  BY <1>0, Zenon
<1> HIDE DEF n
<1>2. Len(q) \in Nat /\ DOMAIN q = 1 .. Len(q) /\ n \in 1 .. Len(q)
  BY <1>1
<1>3. /\ a \in Seq(Elems) /\ Len(a) = n - 1
      /\ \A i \in 1 .. n - 1 : a[i] = q[i]
  BY <1>2, <1>Around, Zenon
<1>4. /\ b \in Seq(Elems) /\ Len(b) = Len(q) - n
      /\ \A i \in 1 .. Len(q) - n : b[i] = q[n + i]
  BY <1>2, <1>Around, Zenon
<1>5. Without(q, e) = p
  BY Zenon DEF Without, n
<1> HIDE DEF a, b
<1>6. /\ p \in Seq(Elems) /\ Len(p) = Len(a) + Len(b)
      /\ \A i \in 1 .. Len(a) : p[i] = a[i]
      /\ \A i \in 1 .. Len(b) : p[Len(a) + i] = b[i]
  <2>1. a \in Seq(Elems) /\ b \in Seq(Elems)
    BY <1>3, <1>4, Zenon
  <2> QED BY <2>1
<1> HIDE DEF p
<1>7. DOMAIN p = 1 .. Len(q) - 1 /\ Len(p) = Len(q) - 1
  BY <1>2, <1>3, <1>4, <1>6
<1> DEFINE at(i) == IF i < n THEN i ELSE i + 1
<1>8. ASSUME NEW i \in DOMAIN p PROVE at(i) \in DOMAIN q /\ at(i) # n /\ p[i] = q[at(i)]
  <2>1. CASE i < n
    <3>1. i \in 1 .. n - 1 /\ i \in 1 .. Len(a) /\ at(i) = i /\ i \in DOMAIN q /\ i # n
      BY <1>2, <1>3, <1>7, <2>1
    <3>2. p[i] = a[i] /\ a[i] = q[i]
      BY <1>3, <1>6, <3>1, Zenon
    <3> QED BY <3>1, <3>2, Zenon
  <2>2. CASE ~(i < n)
    <3>1. i - (n - 1) \in 1 .. Len(b) /\ i = Len(a) + (i - (n - 1))
          /\ i - (n - 1) \in 1 .. Len(q) - n /\ n + (i - (n - 1)) = i + 1
      BY <1>2, <1>3, <1>4, <1>7, <2>2
    <3>2. p[i] = b[i - (n - 1)] /\ b[i - (n - 1)] = q[i + 1]
      BY <1>4, <1>6, <3>1
    <3> QED BY <1>2, <1>7, <2>2, <3>2
  <2> QED BY <2>1, <2>2
<1>9. ASSUME NEW i \in DOMAIN q, i # n PROVE \E j \in DOMAIN p : at(j) = i
  <2>1. CASE i < n
    BY <1>2, <1>7, <2>1
  <2>2. CASE i > n
    <3>1. i - 1 \in DOMAIN p /\ at(i - 1) = i
      BY <1>2, <1>7, <2>2
    <3> QED BY <3>1
  <2> QED BY <1>2, <1>9, <2>1, <2>2
<1>10. \A i, j \in DOMAIN p : at(i) = at(j) => i = j
  BY <1>2, <1>7
<1> HIDE DEF at
<1>11. Range(p) \subseteq Range(q) \ {e}
  <2> SUFFICES ASSUME NEW i \in DOMAIN p PROVE p[i] \in Range(q) \ {e}
    BY Zenon DEF Range
  <2>1. at(i) \in DOMAIN q /\ at(i) # n /\ p[i] = q[at(i)]
    BY <1>8, Zenon
  <2>2. q[at(i)] # e
    BY <1>1, <2>1, Zenon DEF Distinct
  <2> QED BY <2>1, <2>2, Zenon DEF Range
<1>12. ASSUME NEW i \in DOMAIN q, q[i] # e PROVE q[i] \in Range(p)
  BY <1>1, <1>8, <1>9, <1>12, Zenon DEF Range
<1>13. Range(p) = Range(q) \ {e}
  BY <1>11, <1>12, Zenon DEF Range
<1>14. Distinct(p)
  BY <1>8, <1>10, Zenon DEF Distinct
<1> QED BY <1>5, <1>6, <1>7, <1>13, <1>14

-----------------------------------------------------------------------------
(* How many threads are where.                                             *)

(* What a move does to each of the counts the counters stand for.          *)
LEMMA Shifted ==
    ASSUME Counting,
           NEW p \in [Workers -> Places], NEW w \in Workers, NEW b \in Places, NEW q,
           q = [p EXCEPT ![w] = b]
    PROVE  /\ q \in [Workers -> Places]
           /\ Shift(p, q, Working, p[w], b) /\ Shift(p, q, Idling, p[w], b)
           /\ Shift(p, q, {"starting"}, p[w], b) /\ Shift(p, q, {"grabbed"}, p[w], b)
           /\ Shift(p, q, {"finishing"}, p[w], b)
(* One thread goes from one place to another.                              *)
<1>Moved.
    ASSUME NEW pp \in [Workers -> Places], NEW ww \in Workers, NEW bb \in Places,
           NEW P \in SUBSET Places
    PROVE  /\ Count(pp, P) \in Nat /\ Count([pp EXCEPT ![ww] = bb], P) \in Nat
           /\ bb \in P /\ pp[ww] \notin P => Count([pp EXCEPT ![ww] = bb], P) = Count(pp, P) + 1
           /\ bb \notin P /\ pp[ww] \in P => Count([pp EXCEPT ![ww] = bb], P) = Count(pp, P) - 1
           /\ (bb \in P <=> pp[ww] \in P) => Count([pp EXCEPT ![ww] = bb], P) = Count(pp, P)
  <2> DEFINE qq == [pp EXCEPT ![ww] = bb]
             S == {v \in Workers : pp[v] \in P}
             T == {v \in Workers : qq[v] \in P}
  <2>1. IsFiniteSet(Workers) /\ S \subseteq Workers /\ T \subseteq Workers
    BY PoolAssumption
  <2>2. IsFiniteSet(S) /\ IsFiniteSet(T)
    BY <2>1, Zenon DEF Counting
  <2>3. Count(pp, P) = Cardinality(S) /\ Count(qq, P) = Cardinality(T)
    BY Zenon DEF Count
  <2>4. Cardinality(S) \in Nat /\ Cardinality(T) \in Nat
    BY <2>2, Zenon DEF Counting
  <2>5. \A v \in Workers : qq[v] = IF v = ww THEN bb ELSE pp[v]
    BY Zenon
  <2>6. CASE bb \in P /\ pp[ww] \notin P
    <3>1. T = S \cup {ww} /\ ww \notin S
      BY <2>5, <2>6
    <3> HIDE DEF S, T
    <3>2. Cardinality(T) = Cardinality(S) + 1
      BY <2>2, <3>1, Zenon DEF Counting
    <3> QED BY <2>3, <2>4, <2>6, <3>2
  <2>7. CASE bb \notin P /\ pp[ww] \in P
    <3>1. T = S \ {ww} /\ ww \in S
      BY <2>5, <2>7
    <3> HIDE DEF S, T
    <3>2. Cardinality(T) = Cardinality(S) - 1
      BY <2>2, <3>1, Zenon DEF Counting
    <3> QED BY <2>3, <2>4, <2>7, <3>2
  <2>8. CASE bb \in P <=> pp[ww] \in P
    <3>1. T = S
      BY <2>5, <2>8
    <3> HIDE DEF S, T
    <3> QED BY <2>3, <2>4, <2>8, <3>1
  <2> QED BY <2>6, <2>7, <2>8

<1>1. ASSUME NEW P \in SUBSET Places PROVE Shift(p, q, P, p[w], b)
  <2>1. /\ Count(p, P) \in Nat /\ Count(q, P) \in Nat
        /\ b \in P /\ p[w] \notin P => Count(q, P) = Count(p, P) + 1
        /\ b \notin P /\ p[w] \in P => Count(q, P) = Count(p, P) - 1
        /\ (b \in P <=> p[w] \in P) => Count(q, P) = Count(p, P)
    BY <1>Moved, Zenon
  <2> QED BY <2>1 DEF Shift
<1>2. /\ Working \in SUBSET Places /\ Idling \in SUBSET Places
      /\ {"starting"} \in SUBSET Places /\ {"grabbed"} \in SUBSET Places
      /\ {"finishing"} \in SUBSET Places
  BY DEF Working, Idling, Places
<1>3. q \in [Workers -> Places]
  OBVIOUS
<1> QED BY <1>1, <1>2, <1>3, Zenon

(* A thread that is somewhere counts there.                                *)
LEMMA Counts ==
    ASSUME Counting, NEW p \in [Workers -> Places], NEW P \in SUBSET Places
    PROVE  /\ Count(p, P) \in Nat
           /\ \A w \in Workers : p[w] \in P => Count(p, P) > 0
           /\ Count(p, P) = 0 => \A w \in Workers : p[w] \notin P
           /\ (\A w \in Workers : p[w] \in P) => Count(p, P) = MaxThreads
<1> DEFINE S == {v \in Workers : p[v] \in P}
<1>1. IsFiniteSet(Workers) /\ S \subseteq Workers
  BY PoolAssumption
<1>2. IsFiniteSet(S)
  BY <1>1, Zenon DEF Counting
<1>3. Count(p, P) = Cardinality(S)
  BY Zenon DEF Count
<1>4. Cardinality(S) \in Nat /\ (Cardinality(S) = 0 <=> S = {})
  BY <1>2, Zenon DEF Counting
<1>5. (\A w \in Workers : p[w] \in P) => Cardinality(S) = MaxThreads
  <2>1. (\A w \in Workers : p[w] \in P) => S = Workers
    OBVIOUS
  <2> QED BY <2>1, PoolAssumption, Zenon
<1>6. \A w \in Workers : p[w] \in P => S # {}
  OBVIOUS
<1>7. S = {} => \A w \in Workers : p[w] \notin P
  OBVIOUS
<1> HIDE DEF S
<1> QED BY <1>3, <1>4, <1>5, <1>6, <1>7

(* No thread is anywhere else.                                             *)
LEMMA NoThreads ==
    ASSUME Counting, NEW p \in [Workers -> Places], Count(p, Working) = 0
    PROVE  /\ \A w \in Workers : p[w] = "none"
           /\ Count(p, {"grabbed"}) = 0
<1>1. Working \in SUBSET Places
  BY DEF Working
<1>2. \A w \in Workers : p[w] \notin Working
  BY <1>1, Counts, Zenon
<1>3. \A w \in Workers : p[w] = "none"
  BY <1>2 DEF Working
<1>4. {w \in Workers : p[w] \in {"grabbed"}} = {}
  BY <1>3, Zenon
<1>5. Count(p, {"grabbed"}) = 0
  BY <1>4, Zenon DEF Count, Counting
<1> QED BY <1>3, <1>5

(* Threads that idle or start are threads, and not both.                   *)
LEMMA SomeThreads ==
    ASSUME Counting, NEW p \in [Workers -> Places]
    PROVE  /\ Count(p, Idling) > 0 => Count(p, Working) > 0
           /\ \A w \in Workers : p[w] # "none" => Count(p, Working) > 0
<1>1. Working \in SUBSET Places /\ Idling \in SUBSET Places /\ Idling \subseteq Working
  BY DEF Working, Idling, Places
<1>2. ASSUME \A w \in Workers : p[w] \notin Idling PROVE Count(p, Idling) = 0
  <2>1. {w \in Workers : p[w] \in Idling} = {}
    BY <1>2
  <2> QED BY <2>1, Zenon DEF Count, Counting
<1>3. Count(p, Idling) > 0 => \E w \in Workers : p[w] \in Idling
  BY <1>2
<1>4. \A w \in Workers : p[w] # "none" => p[w] \in Working
  BY DEF Working
<1> QED BY <1>1, <1>3, <1>4, Counts, Zenon

-----------------------------------------------------------------------------
(* The frame at the top of the stack, and who has completions in view.     *)

(* A frame taken off.                                                      *)
LEMMA Popped ==
    ASSUME NEW t \in Seq(Frames), t # << >>
    PROVE  Extends(t, Tail(t), Head(t))
<1> DEFINE s == Tail(t)
<1>1. /\ s \in Seq(Frames) /\ Len(t) = Len(s) + 1 /\ t[1] = Head(t) /\ Head(t) \in Frames
      /\ Len(s) \in Nat
  OBVIOUS
<1>2. \A k \in 1 .. Len(s) : t[k + 1] = s[k]
  OBVIOUS
<1>3. DOMAIN s = 1 .. Len(s) /\ DOMAIN t = 1 .. Len(s) + 1
  BY <1>1
<1> HIDE DEF s
<1>4. \A k \in 1 .. Len(t) : k = 1 \/ (k - 1 \in 1 .. Len(s) /\ t[k] = s[k - 1])
  BY <1>1, <1>2
<1>5. \A k \in DOMAIN s : k + 1 \in DOMAIN t /\ t[k + 1] = s[k]
  BY <1>1, <1>2, <1>3
<1>6. 1 \in DOMAIN t
  BY <1>1, <1>3
<1>7. \A k \in DOMAIN t : k = 1 \/ (k - 1 \in DOMAIN s /\ t[k] = s[k - 1])
  BY <1>1, <1>3, <1>4
<1>8. Range(t) = Range(s) \cup {Head(t)}
  <2>1. Range(t) \subseteq Range(s) \cup {Head(t)}
    BY <1>1, <1>7 DEF Range
  <2>2. Range(s) \cup {Head(t)} \subseteq Range(t)
    BY <1>1, <1>5, <1>6 DEF Range
  <2> QED BY <2>1, <2>2
<1> QED BY <1>1, <1>2, <1>4, <1>8, Zenon DEF Extends, s

(* A frame of a completion function, by its element.                       *)
LEMMA CallbackFrame ==
    ASSUME NEW s \in Seq(Frames), NEW e
    PROVE  Callback(e) \in Range(s) <=>
               \E k \in 1 .. Len(s) : s[k].fn = "callback" /\ s[k].elem = e
<1>1. DOMAIN s = 1 .. Len(s) /\ \A k \in 1 .. Len(s) : s[k] \in Frames
  OBVIOUS
<1>2. \A k \in 1 .. Len(s) : s[k] = Callback(e) <=> s[k].fn = "callback" /\ s[k].elem = e
  BY <1>1 DEF Frames, Callback
<1> QED BY <1>1, <1>2 DEF Range

(* Only the states of the elements that are cancelled matter.              *)
LEMMA CancelsStill ==
    ASSUME NEW s, NEW st, NEW new, CancelsOK(s, st),
           \A k \in 1 .. Len(s) : s[k].fn \in {"scan", "cancel"} /\ s[k].elem # NULL =>
               /\ s[k].fn = "scan" => new[s[k].elem] \in {"FREE", "DONE", "CANCELED"}
               /\ s[k].fn = "cancel" => new[s[k].elem] # "FREE"
    PROVE  CancelsOK(s, new)
BY Zenon DEF CancelsOK

(* An element whose completion function runs is done; one in the list that *)
(* somebody waits for or walks for has no completion function running.     *)
LEMMA RunsWhenDone ==
    ASSUME Elements, NEW e \in Elems, Callback(e) \in Range(stack)
    PROVE  state[e] = "DONE"
<1>1. stack \in Seq(Frames) /\ CallbacksOK(stack, state)
  BY Zenon DEF Elements, Proper
<1>2. PICK k \in 1 .. Len(stack) : stack[k].fn = "callback" /\ stack[k].elem = e
  BY <1>1, CallbackFrame, Zenon
<1> QED BY <1>1, <1>2, Zenon DEF CallbacksOK

(* What frames are about, for the frame at the top.                        *)
LEMMA TopFacts ==
    ASSUME Elements
    PROVE  /\ stack \in Seq(Frames) /\ stack # << >> /\ Extends(stack, Tail(stack), Head(stack))
           /\ Head(stack) \in Frames /\ Top = Head(stack).fn
           /\ Head(stack).fn \in Functs /\ Head(stack).elem \in Elems \cup {NULL}
           /\ Top \in {"callback", "cancel"} => Head(stack).elem \in Elems
<1>1. stack \in Seq(Frames) /\ stack # << >>
  BY Zenon DEF Elements, Proper
<1>2. Extends(stack, Tail(stack), Head(stack))
  BY <1>1, Popped, Zenon
<1>3. Head(stack) \in Frames /\ stack[1] = Head(stack) /\ 1 \in 1 .. Len(stack)
  BY <1>1
<1>4. Head(stack).fn \in Functs /\ Head(stack).elem \in Elems \cup {NULL}
  BY <1>3 DEF Frames
<1>5. Top \in {"callback", "cancel"} => Head(stack).elem # NULL
  BY <1>3, Zenon DEF Elements, Proper, Top
<1> QED BY <1>1, <1>2, <1>3, <1>4, <1>5 DEF Top

(* Threads move, but not to or from req->func.                             *)
LEMMA ThreadsOnly ==
    ASSUME Elements, worker' \in [Workers -> Places],
           \A w \in Workers : worker'[w] = "active" <=> worker[w] = "active",
           state' = state, head' = head, request_list' = request_list, job' = job,
           todo' = todo, stack' = stack
    PROVE  Elements'
<1>1. ElementTypes' /\ JobsOK'
  BY DEF Elements, ElementTypes, JobsOK
<1>2. Queued /\ Worked /\ Listed /\ TodoOK /\ Ahead
  BY Zenon DEF Elements
<1>3. Queued' /\ Worked'
  BY <1>2 DEF Queued, Worked, Distinct, Range
<1>4. Listed' /\ TodoOK'
  BY <1>2 DEF Listed, TodoOK, Top, Distinct, Range, Callback
<1>5. Ahead'
  BY <1>2 DEF Ahead, Top, Range
<1>6. Proper(stack)' /\ CallbacksOK(stack, state)' /\ CancelsOK(stack, state)'
  BY Zenon DEF Elements
<1> QED BY <1>1, <1>3, <1>4, <1>5, <1>6, Zenon DEF Elements

(* A queued or active element goes on.                                     *)
LEMMA Advances ==
    ASSUME Elements, NEW e \in Elems, state[e] \in {"QUEUED", "ACTIVE"},
           NEW b \in {"ACTIVE", "DONE", "CANCELED"}, state' = [state EXCEPT ![e] = b]
    PROVE  /\ state' \in [Elems -> States] /\ state'[e] = b
           /\ \A x \in Elems \ {e} : state'[x] = state[x]
           /\ \A x \in Elems : state'[x] = "FREE" <=> state[x] = "FREE"
           /\ CallbacksOK(stack, state') /\ CancelsOK(stack, state')
(* Only the states of the elements whose functions run matter.             *)
<1>CallbacksStill.
    ASSUME NEW s, NEW st, NEW new, CallbacksOK(s, st),
           \A k \in 1 .. Len(s) : s[k].fn = "callback" => new[s[k].elem] = st[s[k].elem]
    PROVE  CallbacksOK(s, new)
  BY <1>CallbacksStill, Zenon DEF CallbacksOK

<1>1. state \in [Elems -> States] /\ stack \in Seq(Frames)
  BY Zenon DEF Elements, ElementTypes, Proper
<1>2. /\ state' \in [Elems -> States] /\ state'[e] = b
      /\ \A x \in Elems \ {e} : state'[x] = state[x]
      /\ \A x \in Elems : state'[x] = "FREE" <=> state[x] = "FREE"
  BY <1>1 DEF States
<1>3. ASSUME NEW k \in 1 .. Len(stack) PROVE stack[k].elem \in Elems \cup {NULL}
  <2>1. stack[k] \in Frames
    BY <1>1
  <2> QED BY <2>1 DEF Frames
<1>4. \A k \in 1 .. Len(stack) :
          stack[k].fn = "callback" => stack[k].elem \in Elems /\ state[stack[k].elem] = "DONE"
  BY <1>3 DEF Elements, Proper, CallbacksOK
<1>5. CallbacksOK(stack, state')
  <2>1. \A k \in 1 .. Len(stack) :
            stack[k].fn = "callback" => state'[stack[k].elem] = state[stack[k].elem]
    BY <1>2, <1>4
  <2> QED BY <2>1, <1>CallbacksStill, Zenon DEF Elements
<1>6. CancelsOK(stack, state')
  <2>1. ASSUME NEW k \in 1 .. Len(stack), stack[k].fn \in {"scan", "cancel"}, stack[k].elem # NULL
        PROVE  /\ stack[k].fn = "scan" => state'[stack[k].elem] \in {"FREE", "DONE", "CANCELED"}
               /\ stack[k].fn = "cancel" => state'[stack[k].elem] # "FREE"
    <3>1. /\ stack[k].fn = "scan" => state[stack[k].elem] \in {"FREE", "DONE", "CANCELED"}
          /\ stack[k].fn = "cancel" => state[stack[k].elem] # "FREE"
      BY <2>1, Zenon DEF Elements, CancelsOK
    <3>2. stack[k].elem \in Elems
      BY <1>3, <2>1, Zenon
    <3> QED BY <1>2, <3>1, <3>2
  <2> QED BY <2>1, CancelsStill, Zenon DEF Elements
<1> QED BY <1>2, <1>5, <1>6

(* What is queued is listed.                                               *)
LEMMA QueuedIsListed ==
    ASSUME Elements, head = << >>
    PROVE  request_list = << >>
<1>1. /\ request_list \in Seq(Elems) /\ Queued /\ Listed
  BY Zenon DEF Elements, ElementTypes
<1>2. ASSUME request_list # << >> PROVE FALSE
  <2>1. Head(request_list) \in Elems /\ Head(request_list) \in Range(request_list)
    BY <1>1, <1>2 DEF Range
  <2>2. state[Head(request_list)] = "QUEUED"
    BY <1>1, <2>1, Zenon DEF Queued
  <2>3. Callback(Head(request_list)) \notin Range(stack)
    BY <2>1, <2>2, RunsWhenDone
  <2>4. Head(request_list) \in Range(head)
    BY <1>1, <2>1, <2>2, <2>3 DEF Listed
  <2>5. Range(<< >>) = {}
    BY DEF Range
  <2> QED BY <2>4, <2>5
<1> QED BY <1>2

(* A pool that stops has nothing queued.                                   *)
LEMMA StopsEmpty ==
    ASSUME Elements, Numbers, stopping
    PROVE  head = << >> /\ request_list = << >> /\ new_threads = 0
<1>1. head = << >> /\ new_threads = 0
  BY Zenon DEF Numbers, FlagsOK
<1> QED BY <1>1, QueuedIsListed, Zenon

(* Somebody has the completions in view after a step.                      *)
LEMMA NoticedNow ==
    ASSUME \/ notifier' \/ Count(worker', {"finishing"}) > 0
           \/ todo' = head' \/ head' = << >>
           \/ \E f \in Range(stack') : f.fn = "callback"
    PROVE  CompletionNoticed'
<1>1. At({"finishing"})' = Count(worker', {"finishing"})
  BY Zenon DEF At, Count
<1>2. head' = << >> => Range(head') = {}
  BY DEF Range
<1> QED BY <1>1, <1>2, Zenon DEF CompletionNoticed

(* Or had them before, and still has.                                      *)
LEMMA NoticedStill ==
    ASSUME CompletionNoticed, notifier => notifier',
           Count(worker, {"finishing"}) > 0 => Count(worker', {"finishing"}) > 0,
           \A e \in Range(head') : Finished(e)' =>
               e \in Range(head) /\ Finished(e) /\ (e \in Range(todo) => e \in Range(todo')),
           \A f \in Range(stack) : f.fn = "callback" => f \in Range(stack')
    PROVE  CompletionNoticed'
<1>1. At({"finishing"})' = Count(worker', {"finishing"}) /\ At({"finishing"}) = Count(worker, {"finishing"})
  BY Zenon DEF At, Count
<1> SUFFICES ASSUME NEW e \in Range(head'), Finished(e)'
             PROVE  \/ notifier' \/ At({"finishing"})' > 0
                    \/ e \in Range(todo')
                    \/ \E f \in Range(stack') : f.fn = "callback"
  BY Zenon DEF CompletionNoticed
<1>2. \/ notifier \/ At({"finishing"}) > 0
      \/ e \in Range(todo)
      \/ \E f \in Range(stack) : f.fn = "callback"
  BY Zenon DEF CompletionNoticed
<1> QED BY <1>1, <1>2, Zenon

-----------------------------------------------------------------------------
(* Steps of the workers.                                                   *)

(* A step of a worker, or of the bottom half that starts workers, keeps    *)
(* the invariant.                                                          *)
LEMMA WorkersKeep ==
    ASSUME Counting
    PROVE  IInv => /\ \A w \in Workers : WorkerStep(w) => IInv'
                   /\ SpawnThreadBh => IInv'
(* A worker takes the first request.                                       *)
<1>TakeElements.
    ASSUME Elements, NEW w \in Workers, worker[w] = "grabbed", request_list # << >>,
           request_list' = Tail(request_list),
           state' = [state EXCEPT ![Head(request_list)] = "ACTIVE"],
           job' = [job EXCEPT ![w] = Head(request_list)],
           worker' = [worker EXCEPT ![w] = "active"],
           head' = head, stack' = stack, todo' = todo
    PROVE  Elements'
  <2> USE <1>TakeElements
  <2> DEFINE e == Head(request_list)
  <2>1. /\ ElementTypes /\ Queued /\ Worked /\ Listed /\ JobsOK /\ TodoOK /\ Ahead
        /\ Proper(stack)
    BY Zenon DEF Elements
  <2>2. /\ state \in [Elems -> States] /\ request_list \in Seq(Elems) /\ Distinct(request_list)
        /\ job \in [Workers -> Elems \cup {NULL}] /\ worker \in [Workers -> Places]
    BY <2>1, Zenon DEF ElementTypes, Queued
  <2>3. /\ request_list' \in Seq(Elems) /\ Distinct(request_list')
        /\ e \in Elems /\ e \in Range(request_list) /\ Range(request_list') = Range(request_list) \ {e}
    BY <2>2, Tailed, Zenon
  <2> HIDE DEF e
  <2>4. state[e] = "QUEUED" /\ state' = [state EXCEPT ![e] = "ACTIVE"] /\ job' = [job EXCEPT ![w] = e]
    BY <2>1, <2>3, Zenon DEF Queued, e
  <2>5. /\ state' \in [Elems -> States] /\ state'[e] = "ACTIVE"
        /\ \A x \in Elems \ {e} : state'[x] = state[x]
        /\ \A x \in Elems : state'[x] = "FREE" <=> state[x] = "FREE"
        /\ CallbacksOK(stack, state') /\ CancelsOK(stack, state')
    BY <2>3, <2>4, Advances, Zenon
  <2>6. /\ job' \in [Workers -> Elems \cup {NULL}] /\ job'[w] = e /\ job[w] = NULL /\ e # NULL
        /\ \A v \in Workers \ {w} : job'[v] = job[v]
        /\ worker' \in [Workers -> Places] /\ worker'[w] = "active"
        /\ \A v \in Workers \ {w} : worker'[v] = worker[v]
    BY <2>1, <2>2, <2>3, <2>4, PoolAssumption DEF JobsOK, Places
  <2>7. ElementTypes'
    BY <2>1, <2>3, <2>5, <2>6, Zenon DEF ElementTypes
  <2>8. JobsOK'
    BY <2>1, <2>6, Zenon DEF JobsOK
  <2>9. Queued'
    <3>1. ASSUME NEW x \in Elems PROVE state'[x] = "QUEUED" <=> x \in Range(request_list')
      <4>1. state[x] = "QUEUED" <=> x \in Range(request_list)
        BY <2>1, Zenon DEF Queued
      <4> QED BY <2>3, <2>5, <4>1
    <3> QED BY <2>3, <3>1, Zenon DEF Queued
  <2>10. Worked'
    <3>1. ASSUME NEW x \in Elems PROVE state'[x] = "ACTIVE" <=> \E v \in Workers : job'[v] = x
      <4>1. CASE x = e
        BY <2>5, <2>6, <4>1, Zenon
      <4>2. CASE x # e
        <5>1. \A v \in Workers : job'[v] = x <=> job[v] = x
          BY <2>6, <4>2, PoolAssumption, Zenon
        <5>2. state'[x] = state[x]
          BY <2>5, <4>2
        <5>3. state[x] = "ACTIVE" <=> \E v \in Workers : job[v] = x
          BY <2>1, Zenon DEF Worked
        <5> QED BY <5>1, <5>2, <5>3, Zenon
      <4> QED BY <4>1, <4>2
    <3>2. \A v \in Workers : job[v] # e
      BY <2>1, <2>3, <2>4, Zenon DEF Worked
    <3>3. ASSUME NEW u \in Workers, NEW v \in Workers, job'[u] = job'[v], job'[u] # NULL
          PROVE  u = v
      <4>1. job[u] = job[v] /\ job[u] # NULL => u = v
        BY <2>1, Zenon DEF Worked
      <4> QED BY <2>6, <3>2, <3>3, <4>1
    <3> QED BY <3>1, <3>3, Zenon DEF Worked
  <2>11. Listed' /\ TodoOK'
    <3>1. ASSUME NEW x \in Elems
          PROVE  x \in Range(head) <=> state'[x] # "FREE" /\ Callback(x) \notin Range(stack)
      BY <2>1, <2>5, Zenon DEF Listed
    <3> QED BY <2>1, <3>1, Zenon DEF Listed, TodoOK, Top, Callback
  <2>12. Ahead'
    <3>1. Head(stack).elem \in Elems \cup {NULL}
      BY TopFacts, Zenon
    <3> QED BY <2>1, <2>5, <3>1 DEF Ahead, Top, Range
  <2>13. Proper(stack)' /\ CallbacksOK(stack, state)' /\ CancelsOK(stack, state)'
    BY <2>1, <2>5, Zenon
  <2> QED BY <2>7, <2>8, <2>9, <2>10, <2>11, <2>12, <2>13, Zenon DEF Elements

(* req->func has returned.                                                 *)
<1>DoneElements.
    ASSUME Elements, NEW w \in Workers, worker[w] = "active",
           state' = [state EXCEPT ![job[w]] = "DONE"], job' = [job EXCEPT ![w] = NULL],
           worker' = [worker EXCEPT ![w] = "finishing"],
           request_list' = request_list, head' = head, stack' = stack, todo' = todo
    PROVE  Elements'
  <2> USE <1>DoneElements
  <2> DEFINE e == job[w]
  <2>1. /\ ElementTypes /\ Queued /\ Worked /\ Listed /\ JobsOK /\ TodoOK /\ Ahead
        /\ Proper(stack)
    BY Zenon DEF Elements
  <2>2. /\ state \in [Elems -> States]
        /\ job \in [Workers -> Elems \cup {NULL}] /\ worker \in [Workers -> Places]
    BY <2>1, Zenon DEF ElementTypes
  <2>3. e \in Elems /\ e # NULL
    BY <2>1, <2>2 DEF JobsOK
  <2>4. state[e] = "ACTIVE"
    BY <2>1, <2>3, Zenon DEF Worked
  <2>5. /\ state' \in [Elems -> States] /\ state'[e] = "DONE"
        /\ \A x \in Elems \ {e} : state'[x] = state[x]
        /\ \A x \in Elems : state'[x] = "FREE" <=> state[x] = "FREE"
        /\ CallbacksOK(stack, state') /\ CancelsOK(stack, state')
    BY <2>3, <2>4, Advances, Zenon
  <2>6. /\ job' \in [Workers -> Elems \cup {NULL}] /\ job'[w] = NULL
        /\ \A v \in Workers \ {w} : job'[v] = job[v]
        /\ worker' \in [Workers -> Places] /\ worker'[w] = "finishing"
        /\ \A v \in Workers \ {w} : worker'[v] = worker[v]
    BY <2>2 DEF Places
  <2>7. ElementTypes'
    BY <2>1, <2>5, <2>6, Zenon DEF ElementTypes
  <2>8. JobsOK'
    BY <2>1, <2>6 DEF JobsOK
  <2> HIDE DEF e
  <2>9. Queued'
    BY <2>1, <2>3, <2>4, <2>5 DEF Queued, Distinct, Range
  <2>10. Worked'
    <3>1. ASSUME NEW x \in Elems PROVE state'[x] = "ACTIVE" <=> \E v \in Workers : job'[v] = x
      <4>1. CASE x = e
        <5>1. \A v \in Workers : job[v] = e => v = w
          BY <2>1, <2>3, Zenon DEF Worked, e
        <5>2. \A v \in Workers : job'[v] # e
          BY <2>3, <2>6, <5>1
        <5> QED BY <2>5, <4>1, <5>2
      <4>2. CASE x # e
        <5>1. \A v \in Workers : job'[v] = x <=> job[v] = x
          BY <2>6, <4>2, PoolAssumption, Zenon DEF e
        <5>2. state'[x] = state[x]
          BY <2>5, <4>2
        <5>3. state[x] = "ACTIVE" <=> \E v \in Workers : job[v] = x
          BY <2>1, Zenon DEF Worked
        <5> QED BY <5>1, <5>2, <5>3, Zenon
      <4> QED BY <4>1, <4>2
    <3>2. ASSUME NEW u \in Workers, NEW v \in Workers, job'[u] = job'[v], job'[u] # NULL
          PROVE  u = v
      <4>1. job[u] = job[v] /\ job[u] # NULL => u = v
        BY <2>1, Zenon DEF Worked
      <4> QED BY <2>6, <3>2, <4>1
    <3> QED BY <3>1, <3>2, Zenon DEF Worked
  <2>11. Listed' /\ TodoOK'
    <3>1. ASSUME NEW x \in Elems
          PROVE  x \in Range(head) <=> state'[x] # "FREE" /\ Callback(x) \notin Range(stack)
      BY <2>1, <2>5, Zenon DEF Listed
    <3> QED BY <2>1, <3>1, Zenon DEF Listed, TodoOK, Top, Callback
  <2>12. Ahead'
    <3>1. Head(stack).elem \in Elems \cup {NULL}
      BY TopFacts, Zenon
    <3> QED BY <2>1, <2>5, <3>1 DEF Ahead, Top, Range
  <2>13. Proper(stack)' /\ CallbacksOK(stack, state)' /\ CancelsOK(stack, state)'
    BY <2>1, <2>5, Zenon
  <2> QED BY <2>7, <2>8, <2>9, <2>10, <2>11, <2>12, <2>13, Zenon DEF Elements

(* A worker goes from one place to another that is not req->func.          *)
<1>MoveElements.
    ASSUME Elements, NEW w \in Workers, NEW b \in Places, b # "active", worker[w] # "active",
           worker' = [worker EXCEPT ![w] = b],
           state' = state, head' = head, request_list' = request_list, job' = job,
           todo' = todo, stack' = stack
    PROVE  Elements'
  <2> USE <1>MoveElements
  <2>1. worker \in [Workers -> Places]
    BY Zenon DEF Elements, ElementTypes
  <2>2. worker' \in [Workers -> Places] /\ \A v \in Workers : worker'[v] = "active" <=> worker[v] = "active"
    BY <2>1
  <2> QED BY <2>2, ThreadsOnly, Zenon

(* Nor has it finished a request before it goes.                           *)
<1>MoveNoticed.
    ASSUME Elements, CompletionNoticed, NEW w \in Workers, NEW b \in Places,
           worker[w] # "finishing", worker' = [worker EXCEPT ![w] = b],
           state' = state, head' = head, todo' = todo, stack' = stack, notifier' = notifier
    PROVE  CompletionNoticed'
  <2> USE <1>MoveNoticed
  <2>1. worker \in [Workers -> Places]
    BY Zenon DEF Elements, ElementTypes
  <2>2. Shift(worker, worker', {"finishing"}, worker[w], b)
    BY <2>1, Shifted, Zenon
  <2>3. Count(worker, {"finishing"}) > 0 => Count(worker', {"finishing"}) > 0
    BY <2>2 DEF Shift
  <2>4. \A e : Finished(e)' <=> Finished(e)
    BY Zenon DEF Finished
  <2> QED BY <2>3, <2>4, NoticedStill, Zenon

(* qemu_sem_timedwait returns, or its result is looked at.                 *)
<1>GrabStep.
    ASSUME IInv, NEW w \in Workers, Grab(w)
    PROVE  IInv'
  <2> USE <1>GrabStep
  <2>1. Elements /\ Numbers /\ CompletionNoticed /\ worker \in [Workers -> Places]
    BY Zenon DEF IInv, Elements, ElementTypes
  <2>2. /\ worker[w] = "waiting" /\ sem > 0 /\ sem' = sem - 1
        /\ worker' = [worker EXCEPT ![w] = "grabbed"]
        /\ state' = state /\ withCb' = withCb /\ head' = head /\ request_list' = request_list
        /\ cur_threads' = cur_threads /\ idle_threads' = idle_threads
        /\ new_threads' = new_threads /\ pending_threads' = pending_threads
        /\ notifier' = notifier /\ bh' = bh
        /\ pending_cancellations' = pending_cancellations /\ stopping' = stopping
        /\ stack' = stack /\ todo' = todo /\ asleep' = asleep /\ job' = job /\ Top' = Top
    BY DEF Grab, elements, lists, counters, caller, Top
  <2>3. "grabbed" \in Places /\ "grabbed" # "active" /\ worker[w] # "active" /\ worker[w] # "finishing"
    BY <2>2 DEF Places
  <2>4. Elements'
    BY <2>1, <2>2, <2>3, <1>MoveElements, Zenon
  <2>5. CompletionNoticed'
    BY <2>1, <2>2, <2>3, <1>MoveNoticed, Zenon
  <2>6. /\ Shift(worker, worker', Working, worker[w], "grabbed")
        /\ Shift(worker, worker', Idling, worker[w], "grabbed")
        /\ Shift(worker, worker', {"starting"}, worker[w], "grabbed")
        /\ Shift(worker, worker', {"grabbed"}, worker[w], "grabbed")
    BY <2>1, <2>2, <2>3, Shifted, Zenon
  <2>7. /\ Count(worker', Working) = Count(worker, Working)
        /\ Count(worker', Idling) = Count(worker, Idling)
        /\ Count(worker', {"starting"}) = Count(worker, {"starting"})
        /\ Count(worker', {"grabbed"}) = Count(worker, {"grabbed"}) + 1
        /\ Count(worker, {"grabbed"}) \in Nat
    BY <2>2, <2>6 DEF Shift, Working, Idling, Places
  <2>8. Numbers'
    <3>1. FlagsOK' /\ WorkersCome'
      BY <2>1, <2>2, Zenon DEF Numbers, FlagsOK, WorkersCome
    <3> QED BY <2>1, <2>2, <2>7, <3>1 DEF Numbers
  <2> QED BY <2>4, <2>5, <2>8, Zenon DEF IInv

(* qemu_sem_timedwait returns after ten seconds.                           *)
<1>TimeoutStep.
    ASSUME IInv, NEW w \in Workers, Timeout(w)
    PROVE  IInv'
  <2> USE <1>TimeoutStep
  <2>1. Elements /\ Numbers /\ CompletionNoticed /\ worker \in [Workers -> Places]
    BY Zenon DEF IInv, Elements, ElementTypes
  <2>2. /\ worker[w] = "waiting" /\ worker' = [worker EXCEPT ![w] = "timedout"]
        /\ state' = state /\ withCb' = withCb /\ head' = head /\ request_list' = request_list
        /\ cur_threads' = cur_threads /\ idle_threads' = idle_threads
        /\ new_threads' = new_threads /\ pending_threads' = pending_threads
        /\ sem' = sem /\ notifier' = notifier /\ bh' = bh
        /\ pending_cancellations' = pending_cancellations /\ stopping' = stopping
        /\ stack' = stack /\ todo' = todo /\ asleep' = asleep /\ job' = job /\ Top' = Top
    BY Zenon DEF Timeout, elements, lists, counters, signals, caller, Top
  <2>3. "timedout" \in Places /\ "timedout" # "active" /\ worker[w] # "active" /\ worker[w] # "finishing"
    BY <2>2 DEF Places
  <2>4. Elements'
    BY <2>1, <2>2, <2>3, <1>MoveElements, Zenon
  <2>5. CompletionNoticed'
    BY <2>1, <2>2, <2>3, <1>MoveNoticed, Zenon
  <2>6. /\ Shift(worker, worker', Working, worker[w], "timedout")
        /\ Shift(worker, worker', Idling, worker[w], "timedout")
        /\ Shift(worker, worker', {"starting"}, worker[w], "timedout")
        /\ Shift(worker, worker', {"grabbed"}, worker[w], "timedout")
    BY <2>1, <2>2, <2>3, Shifted, Zenon
  <2>7. /\ Count(worker', Working) = Count(worker, Working)
        /\ Count(worker', Idling) = Count(worker, Idling)
        /\ Count(worker', {"starting"}) = Count(worker, {"starting"})
        /\ Count(worker', {"grabbed"}) = Count(worker, {"grabbed"})
    BY <2>2, <2>6 DEF Shift, Working, Idling, Places
  <2>8. Numbers'
    <3>1. FlagsOK' /\ WorkersCome'
      BY <2>1, <2>2, Zenon DEF Numbers, FlagsOK, WorkersCome
    <3> QED BY <2>1, <2>2, <2>7, <3>1 DEF Numbers
  <2> QED BY <2>4, <2>5, <2>8, Zenon DEF IInv

(* A thread leaves, with nothing queued.                                   *)
<1>ExitNumbers.
    ASSUME Elements, Numbers, NEW w \in Workers, worker[w] # "none", Exit(w),
           request_list = << >>, stopping \/ worker[w] = "timedout",
           idle_threads' = idle_threads - (IF worker[w] \in Idling THEN 1 ELSE 0),
           pending_threads' = pending_threads - (IF worker[w] = "starting" THEN 1 ELSE 0),
           notifier' \in BOOLEAN, withCb' = withCb, sem' = sem, bh' = bh, head' = head,
           request_list' = request_list, new_threads' = new_threads,
           pending_cancellations' = pending_cancellations, stopping' = stopping, stack' = stack
    PROVE  Numbers' /\ worker' = [worker EXCEPT ![w] = "none"] /\ "none" \in Places
  <2> USE <1>ExitNumbers
  <2>1. worker \in [Workers -> Places] /\ Top' = Top
    BY Zenon DEF Elements, ElementTypes, Top
  <2>2. /\ worker' = [worker EXCEPT ![w] = "none"] /\ cur_threads' = cur_threads - 1
        /\ asleep' = (asleep /\ Top # "free") /\ "none" \in Places
    BY DEF Exit, Places
  <2>3. /\ Shift(worker, worker', Working, worker[w], "none")
        /\ Shift(worker, worker', Idling, worker[w], "none")
        /\ Shift(worker, worker', {"starting"}, worker[w], "none")
        /\ Shift(worker, worker', {"grabbed"}, worker[w], "none")
    BY <2>1, <2>2, Shifted, Zenon
  <2>4. worker[w] \in Working
    BY <2>1 DEF Working
  <2>5. /\ Count(worker', Working) = Count(worker, Working) - 1
        /\ Count(worker', Working) \in Nat /\ Count(worker, Working) \in Nat
    BY <2>3, <2>4 DEF Shift, Working
  <2>6. /\ Count(worker', Idling) = Count(worker, Idling) - (IF worker[w] \in Idling THEN 1 ELSE 0)
        /\ Count(worker', Idling) \in Nat
    BY <2>3 DEF Shift, Idling
  <2>7. /\ Count(worker', {"starting"})
               = Count(worker, {"starting"}) - (IF worker[w] = "starting" THEN 1 ELSE 0)
        /\ Count(worker', {"starting"}) \in Nat
    BY <2>3 DEF Shift
  <2>8. ~stopping => Count(worker', {"grabbed"}) = Count(worker, {"grabbed"})
    BY <2>3 DEF Shift
  <2>9. FlagsOK'
    <3>1. Top = "freed" => FALSE
      BY <2>5 DEF Numbers, FlagsOK
    <3> QED BY <2>1, <3>1, Zenon DEF Numbers, FlagsOK
  <2>10. WorkersCome'
    <3>1. new_threads > 0 => ~stopping
      BY DEF Numbers, FlagsOK
    <3>2. ~stopping => pending_threads' = pending_threads
      BY DEF Numbers
    <3> QED BY <3>1, <3>2, Zenon DEF Numbers, WorkersCome
  <2>11. asleep' \in BOOLEAN
    BY <2>2
  <2>12. cur_threads' \in 0 .. MaxThreads /\ cur_threads' = new_threads' + Count(worker', Working)
    BY <2>2, <2>5, PoolAssumption, SMTT(30) DEF Numbers
  <2>13. /\ idle_threads' = Count(worker', Idling) /\ pending_threads' = Count(worker', {"starting"})
    <3>1. idle_threads = Count(worker, Idling) /\ pending_threads = Count(worker, {"starting"})
      BY Zenon DEF Numbers
    <3> QED BY <2>6, <2>7, <3>1, Zenon
  <2>14. ~stopping' => sem' + Count(worker', {"grabbed"}) + (IF Top' = "post" THEN 1 ELSE 0)
                           = Len(request_list')
    BY <2>1, <2>8, Zenon DEF Numbers
  <2>15. /\ withCb' \subseteq Elems /\ sem' \in Nat /\ bh' \in BOOLEAN
         /\ new_threads' \in Nat /\ pending_cancellations' \in 0 .. 1 /\ stopping' \in BOOLEAN
    BY Zenon DEF Numbers
  <2> QED BY <2>2, <2>6, <2>7, <2>9, <2>10, <2>11, <2>12, <2>13, <2>14, <2>15, Zenon DEF Numbers

(* worker_thread begins.                                                   *)
<1>StartStep.
    ASSUME IInv, NEW w \in Workers, Start(w)
    PROVE  IInv'
  <2> USE <1>StartStep
  <2>1. Elements /\ Numbers /\ CompletionNoticed /\ worker \in [Workers -> Places]
    BY Zenon DEF IInv, Elements, ElementTypes
  <2>2. /\ worker[w] = "starting"
        /\ state' = state /\ withCb' = withCb /\ head' = head /\ request_list' = request_list
        /\ sem' = sem /\ notifier' = notifier /\ bh' = bh
        /\ pending_cancellations' = pending_cancellations /\ stopping' = stopping
        /\ stack' = stack /\ todo' = todo /\ job' = job /\ Top' = Top
    BY DEF Start, elements, lists, signals, Top
  <2>3. "waiting" \in Places /\ "starting" \in Places /\ "none" \in Places
    BY DEF Places
  <2>4. CASE stopping
    <3>1. /\ pending_threads' = pending_threads - 1 /\ Exit(w)
          /\ idle_threads' = idle_threads /\ new_threads' = new_threads
      BY <2>4, Zenon DEF Start
    <3>2. request_list = << >>
      BY <2>1, <2>4, StopsEmpty, Zenon
    <3>3. /\ idle_threads' = idle_threads - (IF worker[w] \in Idling THEN 1 ELSE 0)
          /\ pending_threads' = pending_threads - (IF worker[w] = "starting" THEN 1 ELSE 0)
          /\ notifier' \in BOOLEAN /\ worker[w] # "none"
      BY <2>1, <2>2, <3>1 DEF Idling, Numbers
    <3>4. Numbers' /\ worker' = [worker EXCEPT ![w] = "none"]
      BY <2>1, <2>2, <2>4, <3>1, <3>2, <3>3, <1>ExitNumbers, Zenon
    <3>5. "none" # "active" /\ worker[w] # "active" /\ worker[w] # "finishing"
      BY <2>2
    <3>6. Elements'
      BY <2>1, <2>2, <2>3, <3>4, <3>5, <1>MoveElements, Zenon
    <3>7. CompletionNoticed'
      BY <2>1, <2>2, <2>3, <3>4, <3>5, <1>MoveNoticed, Zenon
    <3> QED BY <3>4, <3>6, <3>7, Zenon DEF IInv
  <2>5. CASE ~stopping
    <3> DEFINE p == [worker EXCEPT ![w] = "waiting"]
    <3>1. /\ DoSpawnThread(p, pending_threads - 1) /\ idle_threads' = idle_threads + 1
          /\ cur_threads' = cur_threads /\ asleep' = asleep
      BY <2>5, Zenon DEF Start
    <3>2. /\ p \in [Workers -> Places] /\ p[w] = "waiting"
          /\ \A v \in Workers : p[v] = "active" <=> worker[v] = "active"
          /\ \A v \in Workers : p[v] # "active" => worker[v] # "active"
      BY <2>1, <2>2, <2>3
    <3>3. /\ Shift(worker, p, Working, worker[w], "waiting")
          /\ Shift(worker, p, Idling, worker[w], "waiting")
          /\ Shift(worker, p, {"starting"}, worker[w], "waiting")
          /\ Shift(worker, p, {"grabbed"}, worker[w], "waiting")
          /\ Shift(worker, p, {"finishing"}, worker[w], "waiting")
      BY <2>1, <2>3, Shifted, Zenon
    <3> HIDE DEF p
    <3>4. /\ Count(p, Working) = Count(worker, Working)
          /\ Count(p, Idling) = Count(worker, Idling) + 1
          /\ Count(p, {"starting"}) = Count(worker, {"starting"}) - 1
          /\ Count(p, {"grabbed"}) = Count(worker, {"grabbed"})
          /\ Count(p, {"finishing"}) = Count(worker, {"finishing"})
          /\ Count(p, Working) \in Nat /\ Count(p, {"starting"}) \in Nat
          /\ Count(p, Idling) \in Nat
      BY <2>2, <3>3 DEF Shift, Working, Idling, Places
    <3>5. CASE new_threads = 0
      <4>1. worker' = p /\ pending_threads' = pending_threads - 1 /\ new_threads' = new_threads
        BY <2>1, <3>1, <3>5 DEF DoSpawnThread, Numbers
      <4>2. Elements'
        BY <2>1, <2>2, <3>2, <4>1, ThreadsOnly, Zenon
      <4>3. CompletionNoticed'
        <5>1. \A e : Finished(e)' <=> Finished(e)
          BY <2>2, Zenon DEF Finished
        <5> QED BY <2>1, <2>2, <3>4, <4>1, <5>1, NoticedStill, Zenon
      <4>4. FlagsOK'
        BY <2>1, <2>2, <3>1, <4>1, Zenon DEF Numbers, FlagsOK
      <4>5. WorkersCome'
        BY <2>1, <2>2, <3>1, <3>5, <4>1 DEF Numbers, WorkersCome
      <4>6. Numbers'
        BY <2>1, <2>2, <3>1, <3>4, <4>1, <4>4, <4>5 DEF Numbers
      <4> QED BY <4>2, <4>3, <4>6, Zenon DEF IInv
    <3>6. CASE new_threads > 0
      <4>1. worker' \in Spawned(p) /\ new_threads' = new_threads - 1
            /\ pending_threads' = (pending_threads - 1) + 1
        BY <2>1, <3>1, <3>6 DEF DoSpawnThread, Numbers
      <4>2. PICK v \in Workers : p[v] = "none" /\ worker' = [p EXCEPT ![v] = "starting"]
        BY <4>1, Zenon DEF Spawned
      <4>3. /\ worker' \in [Workers -> Places]
            /\ Shift(p, worker', Working, p[v], "starting")
            /\ Shift(p, worker', Idling, p[v], "starting")
            /\ Shift(p, worker', {"starting"}, p[v], "starting")
            /\ Shift(p, worker', {"grabbed"}, p[v], "starting")
            /\ Shift(p, worker', {"finishing"}, p[v], "starting")
        BY <2>3, <3>2, <4>2, Shifted, Zenon
      <4>4. /\ Count(worker', Working) = Count(p, Working) + 1
            /\ Count(worker', Idling) = Count(p, Idling)
            /\ Count(worker', {"starting"}) = Count(p, {"starting"}) + 1
            /\ Count(worker', {"grabbed"}) = Count(p, {"grabbed"})
            /\ Count(worker', {"finishing"}) = Count(p, {"finishing"})
        BY <4>2, <4>3 DEF Shift, Working, Idling, Places
      <4>5. Elements'
        <5>1. \A u \in Workers : worker'[u] = "active" <=> worker[u] = "active"
          BY <3>2, <4>2
        <5> QED BY <2>1, <2>2, <4>3, <5>1, ThreadsOnly, Zenon
      <4>6. CompletionNoticed'
        <5>1. \A e : Finished(e)' <=> Finished(e)
          BY <2>2, Zenon DEF Finished
        <5> QED BY <2>1, <2>2, <3>4, <4>4, <5>1, NoticedStill, Zenon
      <4>7. FlagsOK'
        BY <2>1, <2>2, <2>5, <3>1, Zenon DEF Numbers, FlagsOK
      <4>8. pending_threads' > 0
        BY <2>1, <3>4, <4>1 DEF Numbers
      <4>9. WorkersCome'
        BY <2>1, <2>2, <3>1, <4>8, Zenon DEF Numbers, WorkersCome
      <4>10. Numbers'
        <5>1. /\ new_threads' \in Nat /\ pending_threads' \in Nat /\ cur_threads \in 0 .. MaxThreads
              /\ cur_threads = new_threads' + Count(worker', Working)
              /\ pending_threads' = Count(worker', {"starting"})
          BY <2>1, <3>4, <3>6, <4>1, <4>4 DEF Numbers
        <5>2. idle_threads' = Count(worker', Idling) /\ idle_threads' \in Nat
          BY <2>1, <3>1, <3>4, <4>4 DEF Numbers
        <5>3. Count(worker', {"grabbed"}) = Count(worker, {"grabbed"})
          BY <3>4, <4>4, Zenon
        <5> QED BY <2>1, <2>2, <3>1, <4>7, <4>9, <5>1, <5>2, <5>3, Zenon DEF Numbers
      <4> QED BY <4>5, <4>6, <4>10, Zenon DEF IInv
    <3> QED BY <2>1, <3>5, <3>6 DEF Numbers
  <2> QED BY <2>4, <2>5

(* A thread leaves: the whole invariant.                                   *)
<1>ExitStep.
    ASSUME IInv, NEW w \in Workers, worker[w] \notin {"none", "active"}, Exit(w),
           stopping \/ (worker[w] = "timedout" /\ request_list = << >>),
           idle_threads' = idle_threads - (IF worker[w] \in Idling THEN 1 ELSE 0),
           pending_threads' = pending_threads - (IF worker[w] = "starting" THEN 1 ELSE 0),
           notifier' \in BOOLEAN, worker[w] = "finishing" \/ notifier' = notifier,
           worker[w] = "finishing" => notifier',
           withCb' = withCb, sem' = sem, bh' = bh, head' = head,
           request_list' = request_list, new_threads' = new_threads,
           pending_cancellations' = pending_cancellations, stopping' = stopping,
           stack' = stack, state' = state, job' = job, todo' = todo
    PROVE  IInv'
  <2> USE <1>ExitStep
  <2>1. Elements /\ Numbers /\ CompletionNoticed
    BY Zenon DEF IInv
  <2>2. request_list = << >> /\ worker[w] # "none" /\ worker[w] # "active"
    BY <2>1, StopsEmpty
  <2>3. Numbers' /\ worker' = [worker EXCEPT ![w] = "none"] /\ "none" \in Places
    BY <2>1, <2>2, <1>ExitNumbers, Zenon
  <2>4. "none" # "active"
    OBVIOUS
  <2>5. Elements'
    BY <2>1, <2>2, <2>3, <2>4, <1>MoveElements, Zenon
  <2>6. CompletionNoticed'
    <3>1. CASE worker[w] = "finishing"
      BY <3>1, NoticedNow, Zenon
    <3>2. CASE worker[w] # "finishing"
      BY <2>1, <2>3, <3>2, <1>MoveNoticed, Zenon
    <3> QED BY <3>1, <3>2
  <2> QED BY <2>3, <2>5, <2>6, Zenon DEF IInv

(* A worker with the semaphore takes a request, or leaves.                 *)
<1>TakeStep.
    ASSUME IInv, NEW w \in Workers, Take(w)
    PROVE  IInv'
  <2> USE <1>TakeStep
  <2>1. Elements /\ Numbers /\ CompletionNoticed /\ worker \in [Workers -> Places]
        /\ request_list \in Seq(Elems) /\ state \in [Elems -> States]
    BY Zenon DEF IInv, Elements, ElementTypes
  <2>2. /\ worker[w] = "grabbed" /\ idle_threads' = idle_threads - 1
        /\ withCb' = withCb /\ head' = head
        /\ new_threads' = new_threads /\ pending_threads' = pending_threads
        /\ sem' = sem /\ notifier' = notifier /\ bh' = bh
        /\ pending_cancellations' = pending_cancellations /\ stopping' = stopping
        /\ stack' = stack /\ todo' = todo /\ Top' = Top
    BY DEF Take, signals, Top
  <2>3. CASE stopping
    <3>1. Exit(w) /\ request_list' = request_list /\ state' = state /\ job' = job
      BY <2>3, Zenon DEF Take
    <3>2. /\ idle_threads' = idle_threads - (IF worker[w] \in Idling THEN 1 ELSE 0)
          /\ pending_threads' = pending_threads - (IF worker[w] = "starting" THEN 1 ELSE 0)
          /\ notifier' \in BOOLEAN /\ worker[w] \notin {"none", "active"}
          /\ worker[w] # "finishing"
      BY <2>1, <2>2 DEF Idling, Numbers
    <3> QED BY <2>2, <2>3, <3>1, <3>2, <1>ExitStep, Zenon
  <2>4. CASE ~stopping
    <3> DEFINE e == Head(request_list)
    <3>1. /\ request_list # << >> /\ request_list' = Tail(request_list)
          /\ state' = [state EXCEPT ![e] = "ACTIVE"]
          /\ job' = [job EXCEPT ![w] = e]
          /\ worker' = [worker EXCEPT ![w] = "active"]
          /\ cur_threads' = cur_threads /\ asleep' = asleep
      BY <2>4, Zenon DEF Take, RemoveFirst
    <3>2. Elements'
      BY <2>1, <2>2, <3>1, <1>TakeElements, Zenon
    <3>3. "active" \in Places /\ Len(request_list') = Len(request_list) - 1 /\ e \in Elems
      BY <2>1, <3>1 DEF Places
    <3>4. /\ Shift(worker, worker', Working, worker[w], "active")
          /\ Shift(worker, worker', Idling, worker[w], "active")
          /\ Shift(worker, worker', {"starting"}, worker[w], "active")
          /\ Shift(worker, worker', {"grabbed"}, worker[w], "active")
          /\ Shift(worker, worker', {"finishing"}, worker[w], "active")
      BY <2>1, <3>1, <3>3, Shifted, Zenon
    <3>5. /\ Count(worker', Working) = Count(worker, Working)
          /\ Count(worker', Idling) = Count(worker, Idling) - 1
          /\ Count(worker', {"starting"}) = Count(worker, {"starting"})
          /\ Count(worker', {"grabbed"}) = Count(worker, {"grabbed"}) - 1
          /\ Count(worker', {"finishing"}) = Count(worker, {"finishing"})
          /\ Count(worker', Idling) \in Nat /\ Count(worker, {"grabbed"}) \in Nat
      BY <2>2, <3>4 DEF Shift, Working, Idling, Places
    <3>6. FlagsOK' /\ WorkersCome'
      BY <2>1, <2>2, <3>1, Zenon DEF Numbers, FlagsOK, WorkersCome
    <3>7. sem + Count(worker, {"grabbed"}) + (IF Top = "post" THEN 1 ELSE 0) = Len(request_list)
          /\ sem \in Nat /\ Len(request_list) \in Nat
      BY <2>1, <2>4 DEF Numbers
    <3>8. sem' + Count(worker', {"grabbed"}) + (IF Top' = "post" THEN 1 ELSE 0) = Len(request_list')
      BY <2>2, <3>3, <3>5, <3>7
    <3> HIDE DEF e
    <3>9. Numbers'
      BY <2>1, <2>2, <3>1, <3>5, <3>6, <3>8 DEF Numbers
    <3>10. CompletionNoticed'
      <4>1. ASSUME NEW x \in Range(head), Finished(x)' PROVE Finished(x)
        <5>1. head \in Seq(Elems)
          BY <2>1, Zenon DEF Elements, ElementTypes
        <5>2. x \in Elems
          BY <4>1, <5>1 DEF Range
        <5> QED BY <2>1, <3>1, <3>3, <4>1, <5>2 DEF Finished
      <4> QED BY <2>1, <2>2, <3>5, <4>1, NoticedStill, Zenon
    <3> QED BY <3>2, <3>9, <3>10, Zenon DEF IInv
  <2> QED BY <2>3, <2>4

(* A worker that timed out waits again, or leaves.                         *)
<1>TimedOutStep.
    ASSUME IInv, NEW w \in Workers, TimedOut(w)
    PROVE  IInv'
  <2> USE <1>TimedOutStep
  <2>1. Elements /\ Numbers /\ CompletionNoticed /\ worker \in [Workers -> Places]
    BY Zenon DEF IInv, Elements, ElementTypes
  <2>2. /\ worker[w] = "timedout"
        /\ state' = state /\ withCb' = withCb /\ head' = head /\ request_list' = request_list
        /\ new_threads' = new_threads /\ pending_threads' = pending_threads
        /\ sem' = sem /\ notifier' = notifier /\ bh' = bh
        /\ pending_cancellations' = pending_cancellations /\ stopping' = stopping
        /\ stack' = stack /\ todo' = todo /\ job' = job /\ Top' = Top
    BY Zenon DEF TimedOut, elements, lists, signals, Top
  <2>3. CASE GiveUp
    <3>1. idle_threads' = idle_threads - 1 /\ Exit(w) /\ request_list = << >>
      BY <2>3, Zenon DEF TimedOut, GiveUp
    <3>2. /\ idle_threads' = idle_threads - (IF worker[w] \in Idling THEN 1 ELSE 0)
          /\ pending_threads' = pending_threads - (IF worker[w] = "starting" THEN 1 ELSE 0)
          /\ notifier' \in BOOLEAN /\ worker[w] \notin {"none", "active"}
          /\ worker[w] # "finishing"
      BY <2>1, <2>2, <3>1 DEF Idling, Numbers
    <3> QED BY <2>2, <3>1, <3>2, <1>ExitStep, Zenon
  <2>4. CASE ~GiveUp
    <3>1. /\ worker' = [worker EXCEPT ![w] = "waiting"] /\ cur_threads' = cur_threads
          /\ idle_threads' = idle_threads /\ asleep' = asleep
      BY <2>4, Zenon DEF TimedOut
    <3>2. "waiting" \in Places /\ "waiting" # "active" /\ worker[w] # "active" /\ worker[w] # "finishing"
      BY <2>2 DEF Places
    <3>3. Elements'
      BY <2>1, <2>2, <3>1, <3>2, <1>MoveElements, Zenon
    <3>4. CompletionNoticed'
      BY <2>1, <2>2, <3>1, <3>2, <1>MoveNoticed, Zenon
    <3>5. /\ Shift(worker, worker', Working, worker[w], "waiting")
          /\ Shift(worker, worker', Idling, worker[w], "waiting")
          /\ Shift(worker, worker', {"starting"}, worker[w], "waiting")
          /\ Shift(worker, worker', {"grabbed"}, worker[w], "waiting")
      BY <2>1, <3>1, <3>2, Shifted, Zenon
    <3>6. /\ Count(worker', Working) = Count(worker, Working)
          /\ Count(worker', Idling) = Count(worker, Idling)
          /\ Count(worker', {"starting"}) = Count(worker, {"starting"})
          /\ Count(worker', {"grabbed"}) = Count(worker, {"grabbed"})
      BY <2>2, <3>5 DEF Shift, Working, Idling, Places
    <3>7. FlagsOK' /\ WorkersCome'
      BY <2>1, <2>2, <3>1, Zenon DEF Numbers, FlagsOK, WorkersCome
    <3>8. Numbers'
      BY <2>1, <2>2, <3>1, <3>6, <3>7 DEF Numbers
    <3> QED BY <3>3, <3>4, <3>8, Zenon DEF IInv
  <2> QED BY <2>3, <2>4

(* req->func returns.                                                      *)
<1>DoneStep.
    ASSUME IInv, NEW w \in Workers, Done(w)
    PROVE  IInv'
  <2> USE <1>DoneStep
  <2>1. Elements /\ Numbers /\ worker \in [Workers -> Places]
    BY Zenon DEF IInv, Elements, ElementTypes
  <2>2. /\ worker[w] = "active" /\ worker' = [worker EXCEPT ![w] = "finishing"]
        /\ state' = [state EXCEPT ![job[w]] = "DONE"] /\ job' = [job EXCEPT ![w] = NULL]
        /\ withCb' = withCb /\ head' = head /\ request_list' = request_list
        /\ cur_threads' = cur_threads /\ idle_threads' = idle_threads
        /\ new_threads' = new_threads /\ pending_threads' = pending_threads
        /\ sem' = sem /\ notifier' = notifier /\ bh' = bh
        /\ pending_cancellations' = pending_cancellations /\ stopping' = stopping
        /\ stack' = stack /\ todo' = todo /\ asleep' = asleep /\ Top' = Top
    BY Zenon DEF Done, lists, counters, signals, caller, Top
  <2>3. "finishing" \in Places
    BY DEF Places
  <2>4. Elements'
    BY <2>1, <2>2, <1>DoneElements, Zenon
  <2>5. /\ Shift(worker, worker', Working, worker[w], "finishing")
        /\ Shift(worker, worker', Idling, worker[w], "finishing")
        /\ Shift(worker, worker', {"starting"}, worker[w], "finishing")
        /\ Shift(worker, worker', {"grabbed"}, worker[w], "finishing")
        /\ Shift(worker, worker', {"finishing"}, worker[w], "finishing")
    BY <2>1, <2>2, <2>3, Shifted, Zenon
  <2>6. /\ Count(worker', Working) = Count(worker, Working)
        /\ Count(worker', Idling) = Count(worker, Idling)
        /\ Count(worker', {"starting"}) = Count(worker, {"starting"})
        /\ Count(worker', {"grabbed"}) = Count(worker, {"grabbed"})
        /\ Count(worker', {"finishing"}) > 0
    BY <2>2, <2>5 DEF Shift, Working, Idling, Places
  <2>7. CompletionNoticed'
    BY <2>6, NoticedNow, Zenon
  <2>8. Numbers'
    <3>1. FlagsOK' /\ WorkersCome'
      BY <2>1, <2>2, Zenon DEF Numbers, FlagsOK, WorkersCome
    <3> QED BY <2>1, <2>2, <2>6, <3>1 DEF Numbers
  <2> QED BY <2>4, <2>7, <2>8, Zenon DEF IInv

(* The worker notifies, and waits again or leaves.                         *)
<1>FinishStep.
    ASSUME IInv, NEW w \in Workers, Finish(w)
    PROVE  IInv'
  <2> USE <1>FinishStep
  <2>1. Elements /\ Numbers /\ worker \in [Workers -> Places]
    BY Zenon DEF IInv, Elements, ElementTypes
  <2>2. /\ worker[w] = "finishing" /\ notifier' = TRUE
        /\ state' = state /\ withCb' = withCb /\ head' = head /\ request_list' = request_list
        /\ new_threads' = new_threads /\ pending_threads' = pending_threads
        /\ sem' = sem /\ bh' = bh
        /\ pending_cancellations' = pending_cancellations /\ stopping' = stopping
        /\ stack' = stack /\ todo' = todo /\ job' = job /\ Top' = Top
    BY Zenon DEF Finish, elements, lists, Notify, Top
  <2>3. CASE stopping
    <3>1. idle_threads' = idle_threads /\ Exit(w)
      BY <2>3, Zenon DEF Finish
    <3>2. /\ idle_threads' = idle_threads - (IF worker[w] \in Idling THEN 1 ELSE 0)
          /\ pending_threads' = pending_threads - (IF worker[w] = "starting" THEN 1 ELSE 0)
          /\ notifier' \in BOOLEAN /\ worker[w] \notin {"none", "active"}
      BY <2>1, <2>2, <3>1 DEF Idling, Numbers
    <3> QED BY <2>2, <2>3, <3>1, <3>2, <1>ExitStep, Zenon
  <2>4. CASE ~stopping
    <3>1. /\ worker' = [worker EXCEPT ![w] = "waiting"] /\ cur_threads' = cur_threads
          /\ idle_threads' = idle_threads + 1
          /\ asleep' = (asleep /\ pending_cancellations = 0)
      BY <2>4, Zenon DEF Finish, Broadcast
    <3>2. "waiting" \in Places /\ "waiting" # "active" /\ worker[w] # "active"
      BY <2>2 DEF Places
    <3>3. Elements'
      BY <2>1, <2>2, <3>1, <3>2, <1>MoveElements, Zenon
    <3>4. CompletionNoticed'
      BY <2>2, NoticedNow, Zenon
    <3>5. /\ Shift(worker, worker', Working, worker[w], "waiting")
          /\ Shift(worker, worker', Idling, worker[w], "waiting")
          /\ Shift(worker, worker', {"starting"}, worker[w], "waiting")
          /\ Shift(worker, worker', {"grabbed"}, worker[w], "waiting")
      BY <2>1, <3>1, <3>2, Shifted, Zenon
    <3>6. /\ Count(worker', Working) = Count(worker, Working)
          /\ Count(worker', Idling) = Count(worker, Idling) + 1
          /\ Count(worker', {"starting"}) = Count(worker, {"starting"})
          /\ Count(worker', {"grabbed"}) = Count(worker, {"grabbed"})
      BY <2>2, <3>5 DEF Shift, Working, Idling, Places
    <3>7. FlagsOK' /\ WorkersCome'
      BY <2>1, <2>2, <3>1, Zenon DEF Numbers, FlagsOK, WorkersCome
    <3>8. asleep' \in BOOLEAN /\ notifier' \in BOOLEAN
      BY <2>2, <3>1
    <3>9. Numbers'
      BY <2>1, <2>2, <3>1, <3>6, <3>7, <3>8 DEF Numbers
    <3> QED BY <3>3, <3>4, <3>9, Zenon DEF IInv
  <2> QED BY <2>3, <2>4

(* spawn_thread_bh_fn.                                                     *)
<1>SpawnThreadBhStep.
    ASSUME IInv, SpawnThreadBh
    PROVE  IInv'
  <2> USE <1>SpawnThreadBhStep
  <2>1. Elements /\ Numbers /\ CompletionNoticed /\ worker \in [Workers -> Places]
    BY Zenon DEF IInv, Elements, ElementTypes
  <2>2. /\ Top \in {"loop", "drain"} /\ bh' = FALSE /\ DoSpawnThread(worker, pending_threads)
        /\ state' = state /\ withCb' = withCb /\ head' = head /\ request_list' = request_list
        /\ cur_threads' = cur_threads /\ idle_threads' = idle_threads
        /\ sem' = sem /\ notifier' = notifier
        /\ pending_cancellations' = pending_cancellations /\ stopping' = stopping
        /\ stack' = stack /\ todo' = todo /\ asleep' = asleep /\ job' = job /\ Top' = Top
    BY Zenon DEF SpawnThreadBh, elements, lists, caller, Top
  <2>3. \A e : Finished(e)' <=> Finished(e)
    BY <2>2, Zenon DEF Finished
  <2>4. ~stopping
    BY <2>1, <2>2 DEF Numbers, FlagsOK
  <2>5. FlagsOK'
    BY <2>1, <2>2, <2>4, Zenon DEF Numbers, FlagsOK
  <2>0. bh' \in BOOLEAN /\ notifier' \in BOOLEAN /\ stopping' \in BOOLEAN /\ asleep' \in BOOLEAN
    BY <2>1, <2>2, Zenon DEF Numbers
  <2>6. CASE new_threads = 0
    <3>1. worker' = worker /\ pending_threads' = pending_threads /\ new_threads' = new_threads
      BY <2>2, <2>6 DEF DoSpawnThread
    <3>2. Elements'
      BY <2>1, <2>2, <3>1, ThreadsOnly, Zenon
    <3>3. CompletionNoticed'
      BY <2>1, <2>2, <2>3, <3>1, NoticedStill, Zenon
    <3>4. WorkersCome'
      BY <2>1, <2>2, <2>6, <3>1 DEF Numbers, WorkersCome
    <3>5. Numbers'
      <4>1. ~stopping' => sem' + Count(worker', {"grabbed"}) + (IF Top' = "post" THEN 1 ELSE 0)
                              = Len(request_list')
        BY <2>1, <2>2, <3>1, Zenon DEF Numbers
      <4>2. /\ cur_threads' = new_threads' + Count(worker', Working)
            /\ pending_threads' = Count(worker', {"starting"})
            /\ idle_threads' = Count(worker', Idling)
        BY <2>1, <2>2, <3>1, Zenon DEF Numbers
      <4> QED BY <2>0, <2>1, <2>2, <2>5, <3>1, <3>4, <4>1, <4>2, Zenon DEF Numbers
    <3> QED BY <3>2, <3>3, <3>5, Zenon DEF IInv
  <2>7. CASE new_threads > 0
    <3>1. /\ worker' \in Spawned(worker) /\ new_threads' = new_threads - 1
          /\ pending_threads' = pending_threads + 1
      BY <2>2, <2>7 DEF DoSpawnThread
    <3>2. PICK v \in Workers : worker[v] = "none" /\ worker' = [worker EXCEPT ![v] = "starting"]
      BY <3>1, Zenon DEF Spawned
    <3>3. "starting" \in Places /\ "starting" # "active" /\ worker[v] # "active" /\ worker[v] # "finishing"
      BY <3>2 DEF Places
    <3>4. Elements'
      BY <2>1, <2>2, <3>2, <3>3, <1>MoveElements, Zenon
    <3>5. CompletionNoticed'
      BY <2>1, <2>2, <3>2, <3>3, <1>MoveNoticed, Zenon
    <3>6. /\ Shift(worker, worker', Working, worker[v], "starting")
          /\ Shift(worker, worker', Idling, worker[v], "starting")
          /\ Shift(worker, worker', {"starting"}, worker[v], "starting")
          /\ Shift(worker, worker', {"grabbed"}, worker[v], "starting")
      BY <2>1, <3>2, <3>3, Shifted, Zenon
    <3>7. /\ Count(worker', Working) = Count(worker, Working) + 1
          /\ Count(worker', Idling) = Count(worker, Idling)
          /\ Count(worker', {"starting"}) = Count(worker, {"starting"}) + 1
          /\ Count(worker', {"grabbed"}) = Count(worker, {"grabbed"})
          /\ Count(worker, Working) \in Nat
      BY <3>2, <3>6 DEF Shift, Working, Idling, Places
    <3>8. pending_threads' > 0
      BY <2>1, <3>1 DEF Numbers
    <3>9. WorkersCome'
      BY <2>1, <2>2, <3>8, Zenon DEF Numbers, WorkersCome
    <3>10. Numbers'
      <4>1. ~stopping' => sem' + Count(worker', {"grabbed"}) + (IF Top' = "post" THEN 1 ELSE 0)
                              = Len(request_list')
        BY <2>1, <2>2, <3>7, Zenon DEF Numbers
      <4>2. /\ cur_threads' = new_threads' + Count(worker', Working)
            /\ pending_threads' = Count(worker', {"starting"})
            /\ idle_threads' = Count(worker', Idling)
            /\ new_threads' \in Nat /\ pending_threads' \in Nat
        BY <2>1, <2>2, <2>7, <3>1, <3>7 DEF Numbers
      <4> QED BY <2>0, <2>1, <2>2, <2>5, <3>9, <4>1, <4>2, Zenon DEF Numbers
    <3> QED BY <3>4, <3>5, <3>10, Zenon DEF IInv
  <2> QED BY <2>1, <2>6, <2>7 DEF Numbers

<1>1. ASSUME IInv, NEW w \in Workers, WorkerStep(w) PROVE IInv'
  BY <1>1, <1>StartStep, <1>GrabStep, <1>TimeoutStep, <1>TakeStep, <1>TimedOutStep, <1>DoneStep, <1>FinishStep,
     Zenon DEF WorkerStep
<1>2. ASSUME IInv, SpawnThreadBh PROVE IInv'
  BY <1>2, <1>SpawnThreadBhStep, Zenon
<1> QED BY <1>1, <1>2, Zenon

-----------------------------------------------------------------------------
(* The stack.                                                              *)

(* Calls and returns that leave elements and threads alone, and run no     *)
(* completion function.                                                    *)
LEMMA CallsOnly ==
    ASSUME Elements, worker' = worker, state' = state, head' = head,
           request_list' = request_list, job' = job, todo' \in Seq(Elems), TodoOK', Ahead',
           Proper(stack'), CallbacksOK(stack', state), CancelsOK(stack', state),
           \A e \in Elems : Callback(e) \in Range(stack') <=> Callback(e) \in Range(stack)
    PROVE  Elements'
<1>1. ElementTypes' /\ JobsOK'
  BY Zenon DEF Elements, ElementTypes, JobsOK
<1>2. Queued' /\ Worked'
  <2>1. Queued /\ Worked
    BY Zenon DEF Elements
  <2> QED BY <2>1, Zenon DEF Queued, Worked
<1>3. Listed'
  <2>1. \A e \in Elems : e \in Range(head') <=> state'[e] # "FREE" /\ Callback(e) \notin Range(stack')
    BY Zenon DEF Elements, Listed
  <2>2. Distinct(head')
    BY Zenon DEF Elements, Listed
  <2> QED BY <2>1, <2>2, Zenon DEF Listed, Callback, Distinct, Range
<1>4. Proper(stack)' /\ CallbacksOK(stack, state)' /\ CancelsOK(stack, state)'
  BY Zenon
<1> QED BY <1>1, <1>2, <1>3, <1>4, Zenon DEF Elements

(* Functions that do not call stay at the top, and those that are not      *)
(* called are alone.                                                       *)
LEMMA Inner ==
    ASSUME NEW s, Proper(s)
    PROVE  /\ \A k \in 1 .. Len(s) : k = 1 \/ s[k].fn \notin {"post", "cancel", "free", "freed"}
           /\ Head(s).fn \in {"loop", "free", "freed"} => Len(s) = 1
<1>1. s \in Seq(Frames) /\ s # << >> /\ Len(s) \in Nat /\ Len(s) > 0 /\ Head(s) = s[1]
  BY DEF Proper
<1>2. ASSUME NEW k \in 1 .. Len(s), k # 1 PROVE s[k].fn \notin {"post", "cancel", "free", "freed"}
  <2>1. k - 1 \in 1 .. Len(s) - 1 /\ (k - 1) + 1 = k
    BY <1>1, <1>2
  <2>2. Calls(s[k - 1].fn, s[(k - 1) + 1].fn)
    BY <2>1, Zenon DEF Proper
  <2> QED BY <2>1, <2>2 DEF Calls
<1>3. ASSUME s[1].fn \in {"loop", "free", "freed"}, Len(s) # 1 PROVE FALSE
  <2>1. \A n \in Nat : n > 0 /\ n # 1 => 1 \in 1 .. n - 1
    OBVIOUS
  <2>2. Calls(s[1].fn, s[1 + 1].fn)
    BY <1>1, <1>3, <2>1, Zenon DEF Proper
  <2> QED BY <1>3, <2>2, Zenon DEF Calls
<1> QED BY <1>1, <1>2, <1>3, Zenon

(* A stack of one frame, that is called from nowhere.                      *)
LEMMA Alone ==
    ASSUME NEW f \in Frames, f.fn \in {"loop", "free", "freed"}, NEW s, s = <<f>>, NEW st
    PROVE  /\ Proper(s) /\ CallbacksOK(s, st) /\ CancelsOK(s, st) /\ Head(s) = f
           /\ \A g \in Range(s) : g = f
<1>1. s \in Seq(Frames) /\ s # << >> /\ Len(s) = 1 /\ s[1] = f /\ Head(s) = f /\ DOMAIN s = 1 .. 1
  OBVIOUS
<1>2. \A k \in 1 .. Len(s) : s[k].fn \notin {"callback", "cancel", "scan"}
  BY <1>1
<1>3. 1 .. Len(s) - 1 = {}
  BY <1>1
<1>4. Proper(s)
  BY <1>1, <1>2, <1>3 DEF Proper
<1>5. CallbacksOK(s, st) /\ CancelsOK(s, st)
  BY <1>2 DEF CallbacksOK, CancelsOK
<1>6. \A g \in Range(s) : g = f
  BY <1>1 DEF Range
<1> QED BY <1>1, <1>4, <1>5, <1>6

(* A step of thread_pool_free or thread_pool_new keeps the invariant.      *)
LEMMA FreesKeep ==
    ASSUME Counting
    PROVE  IInv /\ (Free \/ FreeWake \/ New) => IInv'
(* thread_pool_free and thread_pool_new.                                   *)
<1>AloneElements.
    ASSUME Elements, Top \in {"loop", "free", "freed"},
           NEW fn \in {"loop", "free", "freed"}, stack' = <<[fn |-> fn, elem |-> NULL]>>,
           worker' = worker, state' = state, head' = head, request_list' = request_list,
           job' = job, todo' = todo
    PROVE  Elements'
  <2> USE <1>AloneElements
  <2> DEFINE f == [fn |-> fn, elem |-> NULL]
  <2>1. f \in Frames /\ f.fn = fn /\ f.fn \in {"loop", "free", "freed"} /\ stack' = <<f>>
    BY DEF Frames, Functs
  <2> HIDE DEF f
  <2>2. /\ Proper(stack') /\ CallbacksOK(stack', state) /\ CancelsOK(stack', state) /\ Head(stack') = f
        /\ \A g \in Range(stack') : g = f
    BY <2>1, Alone, Zenon
  <2>3. stack \in Seq(Frames) /\ Len(stack) = 1 /\ stack[1] = Head(stack)
    <3>1. stack \in Seq(Frames) /\ Proper(stack) /\ Head(stack).fn \in {"loop", "free", "freed"}
      BY TopFacts, Zenon DEF Elements
    <3>2. Len(stack) = 1
      BY <3>1, Inner, Zenon
    <3> QED BY <3>1, <3>2
  <2>4. ASSUME NEW e \in Elems PROVE Callback(e) \notin Range(stack) /\ Callback(e) \notin Range(stack')
    <3>1. Callback(e) # f /\ Callback(e) # Head(stack)
      BY <2>1 DEF Callback, Top
    <3>2. \A g \in Range(stack) : g = Head(stack)
      BY <2>3 DEF Range
    <3> QED BY <2>2, <3>1, <3>2, Zenon
  <2>5. TodoOK /\ todo \in Seq(Elems) /\ Top' = fn /\ fn # "scan" /\ Top # "scan"
    BY <2>1, <2>2 DEF Elements, ElementTypes, Top
  <2>6. TodoOK' /\ Ahead'
    BY <2>5, Zenon DEF TodoOK, Ahead
  <2> QED BY <2>2, <2>4, <2>5, <2>6, CallsOnly

(* thread_pool_free waits, or frees the pool.                              *)
<1>FreeLoopStep.
    ASSUME IInv, Top \in {"loop", "free"}, head = << >>, FreeLoop(Count(worker, Working)),
           cur_threads' = Count(worker, Working), new_threads' = 0, stopping' = TRUE,
           bh' \in BOOLEAN, idle_threads' = idle_threads, pending_threads' = pending_threads,
           state' = state, withCb' = withCb, head' = head, request_list' = request_list,
           notifier' = notifier, pending_cancellations' = pending_cancellations, todo' = todo,
           worker' = worker, job' = job
    PROVE  IInv'
  <2> USE <1>FreeLoopStep
  <2>1. Elements /\ Numbers /\ worker \in [Workers -> Places]
    BY Zenon DEF IInv, Elements, ElementTypes
  <2>2. CompletionNoticed'
    BY NoticedNow, Zenon
  <2>3. \E fn \in {"free", "freed"} :
            /\ stack' = <<[fn |-> fn, elem |-> NULL]>> /\ sem' \in Nat /\ asleep' \in BOOLEAN
            /\ fn = "freed" => ~(Count(worker, Working) > 0)
    <3>1. sem \in Nat /\ asleep \in BOOLEAN
      BY <2>1, Zenon DEF Numbers
    <3>2. CASE Count(worker, Working) > 0
      <4>1. sem' = sem + 1 /\ asleep' = TRUE /\ stack' = <<[fn |-> "free", elem |-> NULL]>>
        BY <3>2, Zenon DEF FreeLoop, MustWait, PostStop
      <4>2. sem' \in Nat
        BY <3>1, <4>1
      <4> QED BY <4>1, <4>2
    <3>3. CASE ~(Count(worker, Working) > 0)
      <4>1. sem' = sem /\ asleep' = asleep /\ stack' = <<[fn |-> "freed", elem |-> NULL]>>
        BY <3>3, Zenon DEF FreeLoop, MustWait
      <4> QED BY <3>1, <3>3, <4>1, Zenon
    <3> QED BY <3>2, <3>3
  <2>4. PICK fn \in {"free", "freed"} :
            /\ stack' = <<[fn |-> fn, elem |-> NULL]>> /\ sem' \in Nat /\ asleep' \in BOOLEAN
            /\ fn = "freed" => ~(Count(worker, Working) > 0)
    BY <2>3, Zenon
  <2>5. Elements'
    <3>1. Top \in {"loop", "free", "freed"} /\ fn \in {"loop", "free", "freed"}
      OBVIOUS
    <3> QED BY <2>1, <2>4, <3>1, <1>AloneElements, Zenon
  <2>6. Count(worker, Working) \in Nat
    <3>1. Working \in SUBSET Places
      BY DEF Working
    <3> QED BY <2>1, <3>1, Counts, Zenon
  <2>7. Top' = fn
    BY <2>4 DEF Top
  <2>8. request_list = << >>
    BY <2>1, QueuedIsListed, Zenon
  <2>9. FlagsOK'
    <3>1. Top # "cancel" /\ Top' # "cancel" /\ Top' \in {"free", "freed"}
      BY <2>7
    <3>2. pending_cancellations = 0
      BY <2>1, <3>1, Zenon DEF Numbers, FlagsOK
    <3>3. Top' = "freed" => cur_threads' = 0
      BY <2>4, <2>6, <2>7
    <3> QED BY <3>1, <3>2, <3>3, Zenon DEF FlagsOK
  <2>10. WorkersCome'
    BY <2>8 DEF WorkersCome
  <2>11. /\ cur_threads' \in 0 .. MaxThreads /\ cur_threads' = new_threads' + Count(worker', Working)
         /\ new_threads' \in Nat
    BY <2>1, <2>6, PoolAssumption DEF Numbers
  <2>12. stopping' \in BOOLEAN /\ stopping'
    BY Zenon
  <2>13. Numbers'
    BY <2>1, <2>4, <2>9, <2>10, <2>11, <2>12, Zenon DEF Numbers
  <2> QED BY <2>2, <2>5, <2>13, Zenon DEF IInv

(* thread_pool_free begins.                                                *)
<1>FreeStep.
    ASSUME IInv, Free
    PROVE  IInv'
  <2> USE <1>FreeStep
  <2>1. Elements /\ Numbers /\ worker \in [Workers -> Places]
    BY Zenon DEF IInv, Elements, ElementTypes
  <2>2. Count(worker, Working) \in Nat
    <3>1. Working \in SUBSET Places
      BY DEF Working
    <3> QED BY <2>1, <3>1, Counts, Zenon
  <2>3. cur_threads - new_threads = Count(worker, Working)
    BY <2>1, <2>2 DEF Numbers
  <2>4. /\ Top = "loop" /\ head = << >> /\ bh' = FALSE /\ new_threads' = 0 /\ stopping' = TRUE
        /\ cur_threads' = cur_threads - new_threads /\ FreeLoop(cur_threads - new_threads)
        /\ idle_threads' = idle_threads /\ pending_threads' = pending_threads
        /\ state' = state /\ withCb' = withCb /\ head' = head /\ request_list' = request_list
        /\ notifier' = notifier /\ pending_cancellations' = pending_cancellations /\ todo' = todo
        /\ worker' = worker /\ job' = job
    BY DEF Free, elements, lists
  <2>5. Top \in {"loop", "free"}
    BY <2>4
  <2>6. bh' \in BOOLEAN
    BY <2>4, Zenon
  <2>7. FreeLoop(Count(worker, Working)) /\ cur_threads' = Count(worker, Working)
    BY <2>3, <2>4, Zenon
  <2> QED BY <2>4, <2>5, <2>6, <2>7, <1>FreeLoopStep, Zenon

(* thread_pool_free goes on after qemu_cond_wait.                          *)
<1>FreeWakeStep.
    ASSUME IInv, FreeWake
    PROVE  IInv'
  <2> USE <1>FreeWakeStep
  <2>1. Elements /\ Numbers /\ worker \in [Workers -> Places]
    BY Zenon DEF IInv, Elements, ElementTypes
  <2>2. Count(worker, Working) \in Nat
    <3>1. Working \in SUBSET Places
      BY DEF Working
    <3> QED BY <2>1, <3>1, Counts, Zenon
  <2>3. /\ Top = "free" /\ FreeLoop(cur_threads) /\ cur_threads' = cur_threads
        /\ idle_threads' = idle_threads /\ new_threads' = new_threads
        /\ pending_threads' = pending_threads /\ stopping' = stopping /\ bh' = bh
        /\ state' = state /\ withCb' = withCb /\ head' = head /\ request_list' = request_list
        /\ notifier' = notifier /\ pending_cancellations' = pending_cancellations /\ todo' = todo
        /\ worker' = worker /\ job' = job
    BY DEF FreeWake, elements, lists, counters
  <2>4. Top \in {"loop", "free"} /\ Top \in {"free", "freed"}
    BY <2>3
  <2>5. stopping = TRUE
    <3>1. stopping \in BOOLEAN /\ stopping
      BY <2>1, <2>4, Zenon DEF Numbers, FlagsOK
    <3> QED BY <3>1, Zenon
  <2>6. head = << >> /\ new_threads = 0
    BY <2>1, <2>5, StopsEmpty, Zenon
  <2>7. cur_threads = Count(worker, Working) /\ bh \in BOOLEAN
    BY <2>1, <2>2, <2>6 DEF Numbers
  <2>8. FreeLoop(Count(worker, Working)) /\ cur_threads' = Count(worker, Working)
        /\ new_threads' = 0 /\ stopping' = TRUE /\ bh' \in BOOLEAN
    BY <2>3, <2>5, <2>6, <2>7, Zenon
  <2> QED BY <2>3, <2>4, <2>6, <2>8, <1>FreeLoopStep, Zenon

(* thread_pool_new.                                                        *)
<1>NewStep.
    ASSUME IInv, New
    PROVE  IInv'
  <2> USE <1>NewStep
  <2>1. Elements /\ Numbers /\ worker \in [Workers -> Places]
    BY Zenon DEF IInv, Elements, ElementTypes
  <2>2. /\ Top = "freed" /\ sem' = 0 /\ notifier' = FALSE /\ stopping' = FALSE
        /\ stack' = <<[fn |-> "loop", elem |-> NULL]>>
        /\ cur_threads' = cur_threads /\ idle_threads' = idle_threads
        /\ new_threads' = new_threads /\ pending_threads' = pending_threads
        /\ state' = state /\ withCb' = withCb /\ head' = head /\ request_list' = request_list
        /\ bh' = bh /\ pending_cancellations' = pending_cancellations /\ todo' = todo
        /\ asleep' = asleep /\ worker' = worker /\ job' = job
    BY DEF New, elements, lists, counters
  <2>3. Top \in {"free", "freed"} /\ Top \in {"loop", "free", "freed"} /\ "loop" \in {"loop", "free", "freed"}
    BY <2>2
  <2>4. stopping /\ cur_threads = 0
    BY <2>1, <2>2, <2>3, Zenon DEF Numbers, FlagsOK
  <2>5. head = << >> /\ request_list = << >> /\ new_threads = 0
    BY <2>1, <2>4, StopsEmpty, Zenon
  <2>6. Elements'
    BY <2>1, <2>2, <2>3, <1>AloneElements, Zenon
  <2>7. CompletionNoticed'
    BY <2>2, <2>5, NoticedNow, Zenon
  <2>8. Count(worker, Working) = 0
    <3>1. Count(worker, Working) \in Nat
      <4>1. Working \in SUBSET Places
        BY DEF Working
      <4> QED BY <2>1, <4>1, Counts, Zenon
    <3> QED BY <2>1, <2>4, <2>5, <3>1 DEF Numbers
  <2>9. Count(worker, {"grabbed"}) = 0
    BY <2>1, <2>8, NoThreads, Zenon
  <2>10. Top' = "loop"
    BY <2>2 DEF Top
  <2>11. FlagsOK'
    <3>1. Top' \notin {"free", "freed"} /\ Top' # "cancel" /\ Top # "cancel" /\ Top' # "freed"
      BY <2>2, <2>10
    <3>2. pending_cancellations = 0
      BY <2>1, <3>1, Zenon DEF Numbers, FlagsOK
    <3> QED BY <2>2, <3>1, <3>2, Zenon DEF FlagsOK
  <2>12. WorkersCome'
    BY <2>1, <2>2, Zenon DEF Numbers, WorkersCome
  <2>13. sem' + Count(worker', {"grabbed"}) + (IF Top' = "post" THEN 1 ELSE 0) = Len(request_list')
         /\ sem' \in Nat
    BY <2>2, <2>5, <2>9, <2>10
  <2>14. stopping' \in BOOLEAN /\ notifier' \in BOOLEAN
    BY <2>2, Zenon
  <2>15. Numbers'
    BY <2>1, <2>2, <2>11, <2>12, <2>13, <2>14, Zenon DEF Numbers
  <2> QED BY <2>6, <2>7, <2>15, Zenon DEF IInv

<1>1. ASSUME IInv, Free \/ FreeWake \/ New PROVE IInv'
  BY <1>1, <1>FreeStep, <1>FreeWakeStep, <1>NewStep, Zenon
<1> QED BY <1>1, Zenon

-----------------------------------------------------------------------------
(* Steps of the owner of the global mutex.                                 *)

(* A step of the owner of the global mutex in thread_pool_submit_aio,      *)
(* thread_pool_cancel, event_notifier_ready, a callback or a nested event  *)
(* loop keeps the invariant.                                               *)
LEMMA CallsKeep ==
    ASSUME Counting
    PROVE  IInv => /\ Post \/ Return \/ Drain \/ DrainDone \/ NotifierReady => IInv'
                   /\ Visit \/ CallbackReturn \/ CancelWake => IInv'
                   /\ \A e \in Elems : Cancel(e) \/ (\E cb \in BOOLEAN : Submit(e, cb)) => IInv'
(* A frame put on top.                                                     *)
<1>Pushed.
    ASSUME NEW s \in Seq(Frames), NEW f \in Frames
    PROVE  Extends(<<f>> \o s, s, f)
  <2> DEFINE t == <<f>> \o s
  <2>1. /\ t \in Seq(Frames) /\ Len(t) = Len(s) + 1 /\ t[1] = f /\ Head(t) = f /\ Len(s) \in Nat
    OBVIOUS
  <2>2. \A k \in 1 .. Len(s) : t[k + 1] = s[k]
    OBVIOUS
  <2>3. DOMAIN s = 1 .. Len(s) /\ DOMAIN t = 1 .. Len(s) + 1
    BY <2>1
  <2> HIDE DEF t
  <2>4. \A k \in 1 .. Len(t) : k = 1 \/ (k - 1 \in 1 .. Len(s) /\ t[k] = s[k - 1])
    BY <2>1, <2>2
  <2>5. \A k \in DOMAIN s : k + 1 \in DOMAIN t /\ t[k + 1] = s[k]
    BY <2>1, <2>2, <2>3
  <2>6. 1 \in DOMAIN t
    BY <2>1, <2>3
  <2>7. \A k \in DOMAIN t : k = 1 \/ (k - 1 \in DOMAIN s /\ t[k] = s[k - 1])
    BY <2>1, <2>3, <2>4
  <2>8. Range(t) = Range(s) \cup {f}
    <3>1. Range(t) \subseteq Range(s) \cup {f}
      BY <2>1, <2>7 DEF Range
    <3>2. Range(s) \cup {f} \subseteq Range(t)
      BY <2>1, <2>5, <2>6 DEF Range
    <3> QED BY <3>1, <3>2
  <2> QED BY <2>1, <2>2, <2>4, <2>8, Zenon DEF Extends, t

(* A function is called, and returns.                                      *)
<1>CallProper.
    ASSUME NEW s, NEW t, NEW f, Extends(t, s, f), Proper(s), Calls(f.fn, Head(s).fn),
           f.fn \in {"callback", "cancel"} => f.elem # NULL
    PROVE  Proper(t)
  <2> USE <1>CallProper
  <2>1. /\ s \in Seq(Frames) /\ t \in Seq(Frames) /\ Len(t) = Len(s) + 1 /\ t[1] = f
        /\ \A k \in 1 .. Len(s) : t[k + 1] = s[k]
        /\ \A k \in 1 .. Len(t) : k = 1 \/ (k - 1 \in 1 .. Len(s) /\ t[k] = s[k - 1])
    BY Zenon DEF Extends
  <2>2. Len(s) \in Nat /\ Len(s) > 0 /\ Head(s) = s[1]
    BY <2>1, SMTT(30) DEF Proper
  <2>3. ASSUME NEW k \in 1 .. Len(t) - 1 PROVE Calls(t[k].fn, t[k + 1].fn)
    <3>1. k \in 1 .. Len(s) /\ k \in 1 .. Len(t) /\ t[k + 1] = s[k]
      BY <2>1, <2>2
    <3>2. CASE k = 1
      BY <2>1, <2>2, <3>1, <3>2, Zenon
    <3>3. CASE k # 1
      <4>1. k - 1 \in 1 .. Len(s) - 1 /\ (k - 1) + 1 = k /\ t[k] = s[k - 1]
        BY <2>1, <2>2, <3>1, <3>3
      <4>2. Calls(s[k - 1].fn, s[(k - 1) + 1].fn)
        BY <4>1, Zenon DEF Proper
      <4> QED BY <3>1, <4>1, <4>2, Zenon
    <3> QED BY <3>2, <3>3
  <2>4. t[Len(t)] = s[Len(s)] /\ t # << >>
    BY <2>1, <2>2
  <2>5. \A k \in 1 .. Len(t) : t[k].fn \in {"callback", "cancel"} => t[k].elem # NULL
    BY <2>1, Zenon DEF Proper
  <2> QED BY <2>1, <2>3, <2>4, <2>5, Zenon DEF Proper

(* A function that was called returns to one that may call it.             *)
<1>ReturnProper.
    ASSUME NEW s, NEW t, NEW f, Extends(t, s, f), Proper(t),
           f.fn \notin {"loop", "free", "freed"}
    PROVE  Proper(s) /\ Calls(f.fn, Head(s).fn)
  <2> USE <1>ReturnProper
  <2>1. /\ s \in Seq(Frames) /\ t \in Seq(Frames) /\ Len(t) = Len(s) + 1 /\ t[1] = f
        /\ \A k \in 1 .. Len(s) : t[k + 1] = s[k]
    BY Zenon DEF Extends
  <2>2. Len(s) \in Nat /\ Len(t) \in Nat /\ t[Len(t)].fn \in {"loop", "free", "freed"}
    BY <2>1 DEF Proper
  <2>3. Len(s) > 0
    BY <2>1, <2>2
  <2>4. s # << >> /\ Head(s) = s[1] /\ t[Len(t)] = s[Len(s)]
    BY <2>1, <2>2, <2>3
  <2>5. ASSUME NEW k \in 1 .. Len(s) - 1 PROVE Calls(s[k].fn, s[k + 1].fn)
    <3>1. k + 1 \in 1 .. Len(t) - 1 /\ t[k + 1] = s[k] /\ t[(k + 1) + 1] = s[k + 1]
      BY <2>1, <2>2
    <3> QED BY <3>1, Zenon DEF Proper
  <2>6. Calls(f.fn, s[1].fn)
    <3>1. 1 \in 1 .. Len(t) - 1 /\ t[1 + 1] = s[1]
      BY <2>1, <2>2, <2>3
    <3> QED BY <2>1, <3>1, Zenon DEF Proper
  <2>7. ASSUME NEW k \in 1 .. Len(s), s[k].fn \in {"callback", "cancel"} PROVE s[k].elem # NULL
    <3>1. k + 1 \in 1 .. Len(t) /\ t[k + 1] = s[k]
      BY <2>1, <2>2
    <3> QED BY <2>7, <3>1, Zenon DEF Proper
  <2> QED BY <2>1, <2>2, <2>4, <2>5, <2>6, <2>7, Zenon DEF Proper

(* Completion functions: a frame more, a frame less, other states.         *)
<1>CallbacksMore.
    ASSUME NEW s, NEW t, NEW f, NEW st, Extends(t, s, f), CallbacksOK(s, st),
           f.fn = "callback" => st[f.elem] = "DONE" /\ f \notin Range(s)
    PROVE  CallbacksOK(t, st)
  <2> USE <1>CallbacksMore
  <2>1. /\ s \in Seq(Frames) /\ Len(t) = Len(s) + 1 /\ t[1] = f
        /\ \A k \in 1 .. Len(t) : k = 1 \/ (k - 1 \in 1 .. Len(s) /\ t[k] = s[k - 1])
    BY Zenon DEF Extends
  <2>2. \A k \in 1 .. Len(s) : s[k] \in Range(s)
    BY <2>1 DEF Range
  <2>3. \A k \in 1 .. Len(t) : t[k].fn = "callback" => st[t[k].elem] = "DONE"
    BY <2>1, Zenon DEF CallbacksOK
  <2>4. ASSUME NEW j \in 1 .. Len(t), NEW k \in 1 .. Len(t), t[j].fn = "callback", t[k] = t[j]
        PROVE  j = k
    <3>1. CASE j = 1 \/ k = 1
      BY <2>1, <2>2, <2>4, <3>1, Zenon
    <3>2. CASE j # 1 /\ k # 1
      <4>1. /\ j - 1 \in 1 .. Len(s) /\ t[j] = s[j - 1]
            /\ k - 1 \in 1 .. Len(s) /\ t[k] = s[k - 1]
        BY <2>1, <3>2, Zenon
      <4>2. j - 1 = k - 1
        BY <2>4, <4>1, Zenon DEF CallbacksOK
      <4> QED BY <4>1, <4>2
    <3> QED BY <3>1, <3>2
  <2> QED BY <2>3, <2>4, Zenon DEF CallbacksOK

(* With a frame less, a completion function that returned runs nowhere.    *)
<1>CallbacksLess.
    ASSUME NEW s, NEW t, NEW f, NEW st, Extends(t, s, f), CallbacksOK(t, st)
    PROVE  CallbacksOK(s, st) /\ (f.fn = "callback" => f \notin Range(s))
  <2> USE <1>CallbacksLess
  <2>1. /\ s \in Seq(Frames) /\ Len(t) = Len(s) + 1 /\ t[1] = f /\ Len(s) \in Nat
        /\ \A k \in 1 .. Len(s) : t[k + 1] = s[k]
    BY DEF Extends
  <2>2. \A k \in 1 .. Len(s) : k + 1 \in 1 .. Len(t) /\ k + 1 # 1 /\ t[k + 1] = s[k]
    BY <2>1
  <2>3. \A j, k \in 1 .. Len(s) : j + 1 = k + 1 => j = k
    BY <2>1
  <2>4. 1 \in 1 .. Len(t) /\ DOMAIN s = 1 .. Len(s)
    BY <2>1
  <2>5. CallbacksOK(s, st)
    <3>1. ASSUME NEW k \in 1 .. Len(s), s[k].fn = "callback" PROVE st[s[k].elem] = "DONE"
      <4>1. k + 1 \in 1 .. Len(t) /\ t[k + 1] = s[k] /\ t[k + 1].fn = "callback"
        BY <2>2, <3>1, Zenon
      <4>2. st[t[k + 1].elem] = "DONE"
        BY <4>1, Zenon DEF CallbacksOK
      <4> QED BY <4>1, <4>2, Zenon
    <3>2. ASSUME NEW j \in 1 .. Len(s), NEW k \in 1 .. Len(s), s[j].fn = "callback", s[k] = s[j]
          PROVE  j = k
      <4>1. /\ j + 1 \in 1 .. Len(t) /\ k + 1 \in 1 .. Len(t)
            /\ t[j + 1].fn = "callback" /\ t[k + 1] = t[j + 1]
        BY <2>2, <3>2, Zenon
      <4>2. j + 1 = k + 1
        BY <4>1, Zenon DEF CallbacksOK
      <4> QED BY <2>3, <4>2, Zenon
    <3> QED BY <3>1, <3>2, Zenon DEF CallbacksOK
  <2>6. ASSUME f.fn = "callback", NEW k \in 1 .. Len(s), s[k] = f PROVE FALSE
    BY <2>1, <2>2, <2>4, <2>6, ZenonT(60) DEF CallbacksOK
  <2>7. ASSUME f.fn = "callback" PROVE f \notin Range(s)
    BY <2>4, <2>6, <2>7, Zenon DEF Range
  <2> QED BY <2>5, <2>7

(* The same of cancellations.                                              *)
<1>CancelsMore.
    ASSUME NEW s, NEW t, NEW f, NEW st, Extends(t, s, f), CancelsOK(s, st),
           f.fn \in {"scan", "cancel"} /\ f.elem # NULL =>
               /\ f.fn = "scan" => st[f.elem] \in {"FREE", "DONE", "CANCELED"}
               /\ f.fn = "cancel" => st[f.elem] # "FREE"
               /\ Callback(f.elem) \notin Range(s)
    PROVE  CancelsOK(t, st)
  <2> USE <1>CancelsMore
  <2>1. /\ s \in Seq(Frames) /\ Len(t) = Len(s) + 1 /\ t[1] = f /\ Len(s) \in Nat
        /\ \A k \in 1 .. Len(t) : k = 1 \/ (k - 1 \in 1 .. Len(s) /\ t[k] = s[k - 1])
    BY DEF Extends
  <2> SUFFICES ASSUME NEW k \in 1 .. Len(t), t[k].fn \in {"scan", "cancel"}, t[k].elem # NULL
               PROVE  /\ t[k].fn = "scan" => st[t[k].elem] \in {"FREE", "DONE", "CANCELED"}
                      /\ t[k].fn = "cancel" => st[t[k].elem] # "FREE"
                      /\ \A j \in 1 .. Len(t) :
                             k < j /\ t[j].fn = "callback" => t[j].elem # t[k].elem
    BY Zenon DEF CancelsOK
  <2>2. \A j \in 1 .. Len(t) : k < j => j # 1
    BY <2>1
  <2>3. CASE k = 1
    <3>1. ASSUME NEW j \in 1 .. Len(t), k < j, t[j].fn = "callback", t[j].elem = t[k].elem
          PROVE  FALSE
      <4>1. j - 1 \in 1 .. Len(s) /\ t[j] = s[j - 1]
        BY <2>1, <2>2, <3>1, Zenon
      <4>2. s[j - 1].fn = "callback" /\ s[j - 1].elem = f.elem
        BY <2>1, <2>3, <3>1, <4>1, Zenon
      <4>3. (\E i \in 1 .. Len(s) : s[i].fn = "callback" /\ s[i].elem = f.elem)
                => Callback(f.elem) \in Range(s)
        BY <2>1, CallbackFrame, Zenon
      <4> QED BY <2>1, <2>3, <4>1, <4>2, <4>3, Zenon
    <3> QED BY <2>1, <2>3, <3>1, Zenon
  <2>4. CASE k # 1
    <3>1. k - 1 \in 1 .. Len(s) /\ t[k] = s[k - 1]
      BY <2>1, <2>4, Zenon
    <3>2. \A j \in 1 .. Len(t) : k < j => j - 1 \in 1 .. Len(s) /\ t[j] = s[j - 1] /\ k - 1 < j - 1
      BY <2>1, <2>2, <3>1
    <3> QED BY <3>1, <3>2, ZenonT(60) DEF CancelsOK
  <2> QED BY <2>3, <2>4, SMTT(30)

(* With a frame less, cancellations are as they were.                      *)
<1>CancelsLess.
    ASSUME NEW s, NEW t, NEW f, NEW st, Extends(t, s, f), CancelsOK(t, st)
    PROVE  /\ CancelsOK(s, st)
           /\ f.fn \in {"scan", "cancel"} /\ f.elem # NULL =>
                  /\ f.fn = "scan" => st[f.elem] \in {"FREE", "DONE", "CANCELED"}
                  /\ f.fn = "cancel" => st[f.elem] # "FREE"
                  /\ Callback(f.elem) \notin Range(s)
  <2> USE <1>CancelsLess
  <2>1. /\ s \in Seq(Frames) /\ Len(t) = Len(s) + 1 /\ t[1] = f /\ Len(s) \in Nat
        /\ \A k \in 1 .. Len(s) : t[k + 1] = s[k]
    BY DEF Extends
  <2>2. \A k \in 1 .. Len(s) : k + 1 \in 1 .. Len(t) /\ 1 < k + 1 /\ t[k + 1] = s[k]
    BY <2>1
  <2>3. \A j, k \in 1 .. Len(s) : k < j => k + 1 < j + 1
    BY <2>1
  <2>4. 1 \in 1 .. Len(t)
    BY <2>1
  <2>5. CancelsOK(s, st)
    <3> SUFFICES ASSUME NEW k \in 1 .. Len(s), s[k].fn \in {"scan", "cancel"}, s[k].elem # NULL
                 PROVE  /\ s[k].fn = "scan" => st[s[k].elem] \in {"FREE", "DONE", "CANCELED"}
                        /\ s[k].fn = "cancel" => st[s[k].elem] # "FREE"
                        /\ \A j \in 1 .. Len(s) :
                               k < j /\ s[j].fn = "callback" => s[j].elem # s[k].elem
      BY Zenon DEF CancelsOK
    <3>1. k + 1 \in 1 .. Len(t) /\ t[k + 1] = s[k]
      BY <2>2, Zenon
    <3>2. /\ t[k + 1].fn = "scan" => st[t[k + 1].elem] \in {"FREE", "DONE", "CANCELED"}
          /\ t[k + 1].fn = "cancel" => st[t[k + 1].elem] # "FREE"
          /\ \A j \in 1 .. Len(t) :
                 k + 1 < j /\ t[j].fn = "callback" => t[j].elem # t[k + 1].elem
      BY <3>1, Zenon DEF CancelsOK
    <3>3. \A j \in 1 .. Len(s) : k < j /\ s[j].fn = "callback" => s[j].elem # s[k].elem
      BY <2>2, <2>3, <3>1, <3>2, Zenon
    <3> QED BY <3>1, <3>2, <3>3, Zenon
  <2>6. ASSUME f.fn \in {"scan", "cancel"}, f.elem # NULL
        PROVE  /\ f.fn = "scan" => st[f.elem] \in {"FREE", "DONE", "CANCELED"}
               /\ f.fn = "cancel" => st[f.elem] # "FREE"
               /\ Callback(f.elem) \notin Range(s)
    <3>1. /\ f.fn = "scan" => st[f.elem] \in {"FREE", "DONE", "CANCELED"}
          /\ f.fn = "cancel" => st[f.elem] # "FREE"
          /\ \A j \in 1 .. Len(t) : 1 < j /\ t[j].fn = "callback" => t[j].elem # f.elem
      BY <2>1, <2>4, <2>6, Zenon DEF CancelsOK
    <3>2. \A k \in 1 .. Len(s) : s[k].fn = "callback" => s[k].elem # f.elem
      BY <2>2, <3>1, Zenon
    <3>3. Callback(f.elem) \in Range(s) =>
              \E k \in 1 .. Len(s) : s[k].fn = "callback" /\ s[k].elem = f.elem
      BY <2>1, CallbackFrame, ZenonT(60)
    <3> QED BY <3>1, <3>2, <3>3, Zenon
  <2> QED BY <2>5, <2>6, Zenon

(* A call of a function that is no completion function.                    *)
<1>CallFacts.
    ASSUME Elements, NEW f \in Frames, f.fn # "callback", Calls(f.fn, Top),
           f.fn = "cancel" => f.elem # NULL,
           f.fn \in {"scan", "cancel"} /\ f.elem # NULL =>
               /\ f.fn = "scan" => state[f.elem] \in {"FREE", "DONE", "CANCELED"}
               /\ f.fn = "cancel" => state[f.elem] # "FREE"
               /\ Callback(f.elem) \notin Range(stack),
           NEW t, t = <<f>> \o stack
    PROVE  /\ Proper(t) /\ CallbacksOK(t, state) /\ CancelsOK(t, state) /\ Head(t) = f
           /\ Range(t) = Range(stack) \cup {f}
           /\ \A e \in Elems : Callback(e) \in Range(t) <=> Callback(e) \in Range(stack)
  <2> USE <1>CallFacts
  <2>1. Extends(t, stack, f)
    BY TopFacts, <1>Pushed, Zenon
  <2>2. Proper(t)
    BY <2>1, <1>CallProper, Zenon DEF Elements, Top
  <2>3. CallbacksOK(t, state)
    BY <2>1, <1>CallbacksMore, Zenon DEF Elements
  <2>4. CancelsOK(t, state)
    BY <2>1, <1>CancelsMore, Zenon DEF Elements
  <2>5. Head(t) = f /\ Range(t) = Range(stack) \cup {f}
    BY <2>1, Zenon DEF Extends
  <2>6. \A e \in Elems : f # Callback(e)
    BY DEF Callback
  <2> QED BY <2>2, <2>3, <2>4, <2>5, <2>6, ZenonT(60)

(* Its return.                                                             *)
<1>ReturnFacts.
    ASSUME Elements, Top \notin {"loop", "free", "freed", "callback"}
    PROVE  /\ Proper(Tail(stack)) /\ Calls(Top, Head(Tail(stack)).fn)
           /\ CallbacksOK(Tail(stack), state) /\ CancelsOK(Tail(stack), state)
           /\ Range(stack) = Range(Tail(stack)) \cup {Head(stack)}
           /\ \A e \in Elems : Callback(e) \in Range(Tail(stack)) <=> Callback(e) \in Range(stack)
           /\ Head(stack).fn \in {"scan", "cancel"} /\ Head(stack).elem # NULL =>
                  Callback(Head(stack).elem) \notin Range(stack)
  <2> USE <1>ReturnFacts
  <2> DEFINE s == Tail(stack)
             f == Head(stack)
  <2>1. Extends(stack, s, f) /\ Top = f.fn /\ f \in Frames
    BY TopFacts, Zenon
  <2>2. Proper(stack) /\ CallbacksOK(stack, state) /\ CancelsOK(stack, state)
    BY Zenon DEF Elements
  <2> HIDE DEF s, f
  <2>3. Proper(s) /\ Calls(Top, Head(s).fn)
    BY <2>1, <2>2, <1>ReturnProper, Zenon
  <2>4. CallbacksOK(s, state)
    BY <2>1, <2>2, <1>CallbacksLess, Zenon
  <2>5. CancelsOK(s, state) /\ (f.fn \in {"scan", "cancel"} /\ f.elem # NULL => Callback(f.elem) \notin Range(s))
    BY <2>1, <2>2, <1>CancelsLess, Zenon
  <2>6. Range(stack) = Range(s) \cup {f}
    BY <2>1, Zenon DEF Extends
  <2>7. \A e : f # Callback(e)
    BY <2>1 DEF Callback
  <2>8. \A e : Callback(e) \in Range(s) <=> Callback(e) \in Range(stack)
    BY <2>6, <2>7, SMTT(30)
  <2> QED BY <2>3, <2>4, <2>5, <2>6, <2>8, Zenon DEF s, f

(* An element none of whose completion functions is in the stack s, and    *)
(* for which nobody waits there, is released.                              *)
<1>Releases.
    ASSUME NEW s, Proper(s), state \in [Elems -> States],
           CallbacksOK(s, state), CancelsOK(s, state), Head(s).fn # "cancel",
           NEW e \in Elems, Callback(e) \notin Range(s), state' = [state EXCEPT ![e] = "FREE"]
    PROVE  /\ state' \in [Elems -> States] /\ state'[e] = "FREE"
           /\ \A x \in Elems \ {e} : state'[x] = state[x]
           /\ CallbacksOK(s, state') /\ CancelsOK(s, state')
  <2> USE <1>Releases
  <2>1. /\ state' \in [Elems -> States] /\ state'[e] = "FREE"
        /\ \A x \in Elems \ {e} : state'[x] = state[x]
    BY DEF States
  <2>2. s \in Seq(Frames) /\ s # << >> /\ Head(s) = s[1]
    BY SMTT(30) DEF Proper
  <2>3. ASSUME NEW k \in 1 .. Len(s) PROVE s[k].elem \in Elems \cup {NULL}
    <3>1. s[k] \in Frames
      BY <2>2
    <3> QED BY <3>1 DEF Frames
  <2>4. CallbacksOK(s, state')
    <3>1. ASSUME NEW k \in 1 .. Len(s), s[k].fn = "callback"
          PROVE  state'[s[k].elem] = state[s[k].elem]
      <4>1. (\E j \in 1 .. Len(s) : s[j].fn = "callback" /\ s[j].elem = e) => Callback(e) \in Range(s)
        BY <2>2, CallbackFrame, Zenon
      <4>2. s[k].elem # NULL /\ s[k].elem # e
        BY <3>1, <4>1, Zenon DEF Proper
      <4> QED BY <2>1, <2>3, <4>2
    <3> QED BY <3>1, ZenonT(60) DEF CallbacksOK
  <2>5. CancelsOK(s, state')
    <3>1. ASSUME NEW k \in 1 .. Len(s), s[k].fn \in {"scan", "cancel"}, s[k].elem # NULL
          PROVE  /\ s[k].fn = "scan" => state'[s[k].elem] \in {"FREE", "DONE", "CANCELED"}
                 /\ s[k].fn = "cancel" => state'[s[k].elem] # "FREE"
      <4>1. /\ s[k].fn = "scan" => state[s[k].elem] \in {"FREE", "DONE", "CANCELED"}
        BY <3>1, Zenon DEF CancelsOK
      <4>2. k = 1 \/ s[k].fn \notin {"post", "cancel", "free", "freed"}
        BY Inner, Zenon
      <4>3. s[k].fn # "cancel"
        BY <2>2, <4>2, SMTT(30)
      <4>4. s[k].elem \in Elems
        BY <2>3, <3>1
      <4> QED BY <2>1, <4>1, <4>3, <4>4
    <3> QED BY <3>1, CancelsStill, ZenonT(60)
  <2> QED BY <2>1, <2>4, <2>5

(* Calls and returns leave the threads alone.                              *)
<1>CallNumbers.
    ASSUME Numbers, Top \notin {"free", "freed"}, Top' \notin {"free", "freed"},
           worker' = worker, withCb' = withCb, bh' = bh,
           cur_threads' = cur_threads, idle_threads' = idle_threads,
           new_threads' = new_threads, pending_threads' = pending_threads,
           stopping' = stopping, notifier' \in BOOLEAN, asleep' \in BOOLEAN, sem' \in Nat,
           pending_cancellations' = (IF Top' = "cancel" THEN 1 ELSE 0),
           request_list' # << >> => request_list # << >>,
           sem' + Count(worker, {"grabbed"}) + (IF Top' = "post" THEN 1 ELSE 0)
               = Len(request_list')
    PROVE  Numbers'
  <2> USE <1>CallNumbers
  <2>1. ~stopping
    BY DEF Numbers, FlagsOK
  <2>2. FlagsOK'
    BY <2>1 DEF FlagsOK
  <2>3. WorkersCome'
    BY Zenon DEF Numbers, WorkersCome
  <2>4. pending_cancellations' \in 0 .. 1
    OBVIOUS
  <2> QED BY <2>2, <2>3, <2>4, Zenon DEF Numbers

(* The semaphore, where nobody stops the pool.                             *)
<1>Tokens.
    ASSUME Elements, Numbers, Top \notin {"free", "freed"}
    PROVE  /\ ~stopping /\ sem \in Nat /\ Count(worker, {"grabbed"}) \in Nat
           /\ sem + Count(worker, {"grabbed"}) + (IF Top = "post" THEN 1 ELSE 0)
                  = Len(request_list)
           /\ pending_cancellations = (IF Top = "cancel" THEN 1 ELSE 0)
           /\ notifier \in BOOLEAN /\ asleep \in BOOLEAN /\ Len(request_list) \in Nat
  <2> USE <1>Tokens
  <2>1. ~stopping
    BY DEF Numbers, FlagsOK
  <2>2. worker \in [Workers -> Places] /\ {"grabbed"} \in SUBSET Places /\ request_list \in Seq(Elems)
    BY DEF Elements, ElementTypes, Places
  <2>3. Count(worker, {"grabbed"}) \in Nat /\ Len(request_list) \in Nat
    <3>1. Count(worker, {"grabbed"}) \in Nat
      BY <2>2, Counts, Zenon
    <3> QED BY <2>2, <3>1
  <2> QED BY <2>1, <2>3, Zenon DEF Numbers, FlagsOK

(* Functions that wait for nothing return.                                 *)
<1>ReturnStep.
    ASSUME IInv, Top \in {"post", "scan", "drain"}, todo = << >>, stack' = Tail(stack),
           sem' = sem + (IF Top = "post" THEN 1 ELSE 0),
           worker' = worker, state' = state, withCb' = withCb, head' = head,
           request_list' = request_list, job' = job, todo' = todo,
           bh' = bh, cur_threads' = cur_threads, idle_threads' = idle_threads,
           new_threads' = new_threads, pending_threads' = pending_threads,
           stopping' = stopping, notifier' = notifier, asleep' = asleep,
           pending_cancellations' = pending_cancellations
    PROVE  IInv'
(* Post, Return and DrainDone.                                             *)
  <2> USE <1>ReturnStep
  <2>ReturnElements.
      ASSUME Elements, Top \in {"post", "scan", "drain"}, todo = << >>, stack' = Tail(stack),
             worker' = worker, state' = state, head' = head, request_list' = request_list,
             job' = job, todo' = todo
      PROVE  Elements'
    <3> USE <2>ReturnElements
    <3>1. /\ Proper(stack') /\ Calls(Top, Head(stack').fn)
          /\ CallbacksOK(stack', state) /\ CancelsOK(stack', state)
          /\ \A e \in Elems : Callback(e) \in Range(stack') <=> Callback(e) \in Range(stack)
      <4>1. Top \notin {"loop", "free", "freed", "callback"}
        OBVIOUS
      <4> QED BY <4>1, <1>ReturnFacts, Zenon
    <3>2. Head(stack').fn # "scan"
      <4>1. ~ Calls(Top, "scan")
        BY DEF Calls
      <4> QED BY <3>1, <4>1, ZenonT(60)
    <3>3. Top' = Head(stack').fn /\ TodoOK /\ todo \in Seq(Elems)
      BY Zenon DEF Top, Elements, ElementTypes
    <3>4. Ahead'
      BY <3>2, <3>3, Zenon DEF Ahead
    <3>5. TodoOK'
      BY <3>3, Zenon DEF TodoOK
    <3> QED BY <3>1, <3>3, <3>4, <3>5, CallsOnly

  <2>1. Elements /\ Numbers /\ CompletionNoticed
    BY Zenon DEF IInv
  <2>2. Elements'
    BY <2>1, <2>ReturnElements, Zenon
  <2>3. /\ Calls(Top, Head(stack').fn) /\ Range(stack) = Range(stack') \cup {Head(stack)}
    <3>1. Top \notin {"loop", "free", "freed", "callback"}
      OBVIOUS
    <3> QED BY <2>1, <3>1, <1>ReturnFacts, Zenon
  <2>4. Top' = Head(stack').fn
    BY Zenon DEF Top
  <2>5. Top' \notin {"free", "freed", "post", "cancel"}
    <3>1. \A g : Calls(Top, g) => g \notin {"free", "freed", "post", "cancel"}
      BY DEF Calls
    <3> QED BY <2>3, <2>4, <3>1, Zenon
  <2>6. Numbers'
    <3>1. Top \notin {"free", "freed"} /\ Top # "cancel"
      OBVIOUS
    <3>2. /\ sem \in Nat /\ Count(worker, {"grabbed"}) \in Nat
          /\ sem + Count(worker, {"grabbed"}) + (IF Top = "post" THEN 1 ELSE 0) = Len(request_list)
          /\ pending_cancellations = (IF Top = "cancel" THEN 1 ELSE 0)
          /\ notifier \in BOOLEAN /\ asleep \in BOOLEAN
      BY <2>1, <3>1, <1>Tokens, Zenon
    <3>3. /\ sem' \in Nat /\ pending_cancellations' = (IF Top' = "cancel" THEN 1 ELSE 0)
          /\ sem' + Count(worker, {"grabbed"}) + (IF Top' = "post" THEN 1 ELSE 0)
                 = Len(request_list')
          /\ Top' \notin {"free", "freed"}
      BY <2>5, <3>1, <3>2
    <3> QED BY <2>1, <3>1, <3>2, <3>3, <1>CallNumbers, Zenon
  <2>7. CompletionNoticed'
    <3>1. \A f \in Range(stack) : f.fn = "callback" => f \in Range(stack')
      BY <2>3 DEF Top
    <3>2. \A e : Finished(e)' <=> Finished(e)
      BY Zenon DEF Finished
    <3> QED BY <2>1, <3>1, <3>2, NoticedStill, Zenon
  <2> QED BY <2>2, <2>6, <2>7, ZenonT(60) DEF IInv

(* The qemu_sem_post of thread_pool_submit_aio.                            *)
<1>PostStep.
    ASSUME IInv, Post
    PROVE  IInv'
  <2> USE <1>PostStep
  <2>1. /\ Top = "post" /\ sem' = sem + 1 /\ stack' = Tail(stack)
        /\ worker' = worker /\ state' = state /\ withCb' = withCb /\ head' = head
        /\ request_list' = request_list /\ job' = job /\ todo' = todo
        /\ bh' = bh /\ cur_threads' = cur_threads /\ idle_threads' = idle_threads
        /\ new_threads' = new_threads /\ pending_threads' = pending_threads
        /\ stopping' = stopping /\ notifier' = notifier /\ asleep' = asleep
        /\ pending_cancellations' = pending_cancellations
    BY DEF Post, elements, lists, counters
  <2>2. Top \in {"post", "scan", "drain"} /\ sem' = sem + (IF Top = "post" THEN 1 ELSE 0) /\ Top # "scan"
    BY <2>1
  <2>3. todo = << >>
    BY <2>2, Zenon DEF IInv, Elements, TodoOK
  <2> QED BY <2>1, <2>2, <2>3, <1>ReturnStep, Zenon

(* event_notifier_ready or bdrv_drain_all returns.                         *)
<1>ReturnDrainStep.
    ASSUME IInv, Return \/ DrainDone
    PROVE  IInv'
  <2> USE <1>ReturnDrainStep
  <2>1. /\ (Top = "scan" /\ todo = << >>) \/ Top = "drain" 
        /\ stack' = Tail(stack) /\ sem' = sem
        /\ worker' = worker /\ state' = state /\ withCb' = withCb /\ head' = head
        /\ request_list' = request_list /\ job' = job /\ todo' = todo
        /\ bh' = bh /\ cur_threads' = cur_threads /\ idle_threads' = idle_threads
        /\ new_threads' = new_threads /\ pending_threads' = pending_threads
        /\ stopping' = stopping /\ notifier' = notifier /\ asleep' = asleep
        /\ pending_cancellations' = pending_cancellations
    BY DEF Return, DrainDone, elements, lists, counters, signals
  <2>2. /\ Top \in {"post", "scan", "drain"} /\ sem \in Nat
        /\ Top # "post" /\ (Top = "drain" => Top # "scan")
    BY <2>1 DEF IInv, Numbers
  <2>3. todo = << >>
    BY <2>1, <2>2, Zenon DEF IInv, Elements, TodoOK
  <2>4. sem' = sem + (IF Top = "post" THEN 1 ELSE 0)
    BY <2>1, <2>2
  <2> QED BY <2>1, <2>2, <2>3, <2>4, <1>ReturnStep, Zenon

(* Drain, and thread_pool_cancel for an element in progress.               *)
<1>WaitElements.
    ASSUME Elements, NEW f \in Frames, Calls(f.fn, Top),
           \/ f.fn = "drain"
           \/ f.fn = "cancel" /\ f.elem \in Range(head),
           stack' = <<f>> \o stack,
           worker' = worker, state' = state, head' = head, request_list' = request_list,
           job' = job, todo' = todo
    PROVE  Elements'
  <2> USE <1>WaitElements
  <2>1. /\ head \in Seq(Elems) /\ todo \in Seq(Elems) /\ TodoOK /\ Listed
    BY Zenon DEF Elements, ElementTypes
  <2>2. Range(head) \subseteq Elems
    BY <2>1 DEF Range
  <2>3. ASSUME f.fn = "cancel"
        PROVE  f.elem # NULL /\ state[f.elem] # "FREE" /\ Callback(f.elem) \notin Range(stack)
    <3>1. f.elem \in Elems /\ f.elem \in Range(head)
      BY <2>2, <2>3
    <3> QED BY <2>1, <3>1, PoolAssumption, Zenon DEF Listed
  <2>4. /\ Proper(stack') /\ CallbacksOK(stack', state) /\ CancelsOK(stack', state) /\ Head(stack') = f
        /\ \A e \in Elems : Callback(e) \in Range(stack') <=> Callback(e) \in Range(stack)
    <3>1. f.fn # "callback" /\ (f.fn = "scan" => FALSE)
      OBVIOUS
    <3> QED BY <2>3, <3>1, <1>CallFacts, Zenon
  <2>5. Top' = f.fn /\ Top # "scan" /\ f.fn # "scan"
    BY <2>4 DEF Top, Calls
  <2>6. Ahead'
    BY <2>5, Zenon DEF Ahead
  <2>7. TodoOK'
    BY <2>1, <2>5, Zenon DEF TodoOK
  <2> QED BY <2>1, <2>4, <2>6, <2>7, CallsOnly

(* bdrv_drain_all begins.                                                  *)
<1>DrainStep.
    ASSUME IInv, Drain
    PROVE  IInv'
  <2> USE <1>DrainStep
  <2> DEFINE f == [fn |-> "drain", elem |-> NULL]
  <2>1. Elements /\ Numbers /\ CompletionNoticed
    BY Zenon DEF IInv
  <2>2. /\ Top \in {"loop", "callback"} /\ stack' = <<f>> \o stack
        /\ worker' = worker /\ state' = state /\ withCb' = withCb /\ head' = head
        /\ request_list' = request_list /\ job' = job /\ todo' = todo /\ sem' = sem
        /\ bh' = bh /\ cur_threads' = cur_threads /\ idle_threads' = idle_threads
        /\ new_threads' = new_threads /\ pending_threads' = pending_threads
        /\ stopping' = stopping /\ notifier' = notifier /\ asleep' = asleep
        /\ pending_cancellations' = pending_cancellations
    BY DEF Drain, May, Push, elements, lists, counters, signals
  <2>3. f \in Frames /\ f.fn = "drain"
    BY DEF Frames, Functs
  <2> HIDE DEF f
  <2>4. Calls(f.fn, Top)
    BY <2>2, <2>3 DEF Calls
  <2>5. Elements'
    BY <2>1, <2>2, <2>3, <2>4, <1>WaitElements, Zenon
  <2>6. Top' = "drain" /\ Range(stack') = Range(stack) \cup {f}
    <3>1. Extends(stack', stack, f)
      BY <2>1, <2>2, <2>3, TopFacts, <1>Pushed, Zenon
    <3> QED BY <2>3, <3>1, Zenon DEF Extends, Top
  <2>7. Numbers'
    <3>1. /\ Top \notin {"free", "freed"} /\ Top # "cancel" /\ Top # "post"
          /\ Top' \notin {"free", "freed"} /\ Top' # "cancel" /\ Top' # "post"
      BY <2>2, <2>6
    <3>2. /\ sem \in Nat /\ Count(worker, {"grabbed"}) \in Nat
          /\ sem + Count(worker, {"grabbed"}) + (IF Top = "post" THEN 1 ELSE 0) = Len(request_list)
          /\ pending_cancellations = (IF Top = "cancel" THEN 1 ELSE 0)
          /\ notifier \in BOOLEAN /\ asleep \in BOOLEAN
      BY <2>1, <3>1, <1>Tokens, Zenon
    <3>3. /\ sem' \in Nat /\ pending_cancellations' = (IF Top' = "cancel" THEN 1 ELSE 0)
          /\ sem' + Count(worker, {"grabbed"}) + (IF Top' = "post" THEN 1 ELSE 0)
                 = Len(request_list')
      BY <2>2, <3>1, <3>2
    <3> QED BY <2>1, <2>2, <3>1, <3>2, <3>3, <1>CallNumbers, Zenon
  <2>8. CompletionNoticed'
    <3>1. \A g \in Range(stack) : g \in Range(stack')
      BY <2>6, Zenon
    <3>2. \A e : Finished(e)' <=> Finished(e)
      BY <2>2, Zenon DEF Finished
    <3> QED BY <2>1, <2>2, <3>1, <3>2, NoticedStill, Zenon
  <2> QED BY <2>5, <2>7, <2>8, Zenon DEF IInv

(* event_notifier_ready is called: by aio_dispatch, or for an element that *)
(* has finished.                                                           *)
<1>ScanElements.
    ASSUME Elements, NEW f \in Frames, f.fn = "scan", Calls("scan", Top),
           f.elem # NULL => f.elem \in Range(head) /\ Finished(f.elem),
           stack' = <<f>> \o stack, todo' = head,
           worker' = worker, state' = state, head' = head, request_list' = request_list,
           job' = job
    PROVE  Elements'
  <2> USE <1>ScanElements
  <2>1. /\ head \in Seq(Elems) /\ Listed
    BY Zenon DEF Elements, ElementTypes
  <2>2. Range(head) \subseteq Elems
    BY <2>1 DEF Range
  <2>3. ASSUME f.elem # NULL
        PROVE  state[f.elem] \in {"FREE", "DONE", "CANCELED"} /\ Callback(f.elem) \notin Range(stack)
    <3>1. f.elem \in Elems /\ f.elem \in Range(head)
      BY <2>2, <2>3
    <3>2. Callback(f.elem) \notin Range(stack)
      BY <2>1, <3>1, Zenon DEF Listed
    <3> QED BY <2>3, <3>2 DEF Finished
  <2>4. /\ Proper(stack') /\ CallbacksOK(stack', state) /\ CancelsOK(stack', state) /\ Head(stack') = f
        /\ \A e \in Elems : Callback(e) \in Range(stack') <=> Callback(e) \in Range(stack)
    <3>1. f.fn # "callback" /\ (f.fn = "cancel" => FALSE)
      OBVIOUS
    <3>2. Calls(f.fn, Top)
      BY Zenon
    <3> QED BY <2>3, <3>1, <3>2, <1>CallFacts, Zenon
  <2>5. Top' = "scan" /\ Head(stack)' = f
    BY <2>4 DEF Top
  <2>6. Ahead'
    BY <2>5, Zenon DEF Ahead
  <2>7. TodoOK'
    BY <2>1, <2>5, ZenonT(60) DEF TodoOK, Listed
  <2> QED BY <2>1, <2>4, <2>6, <2>7, CallsOnly

(* event_notifier_ready is called from the event loop.                     *)
<1>NotifierReadyStep.
    ASSUME IInv, NotifierReady
    PROVE  IInv'
  <2> USE <1>NotifierReadyStep
  <2> DEFINE f == [fn |-> "scan", elem |-> NULL]
  <2>1. Elements /\ Numbers /\ CompletionNoticed
    BY Zenon DEF IInv
  <2>2. /\ Top \in {"loop", "drain"} /\ stack' = <<f>> \o stack /\ todo' = head
        /\ worker' = worker /\ state' = state /\ withCb' = withCb /\ head' = head
        /\ request_list' = request_list /\ job' = job /\ sem' = sem
        /\ bh' = bh /\ cur_threads' = cur_threads /\ idle_threads' = idle_threads
        /\ new_threads' = new_threads /\ pending_threads' = pending_threads
        /\ stopping' = stopping /\ notifier' = FALSE /\ asleep' = asleep
        /\ pending_cancellations' = pending_cancellations
    BY DEF NotifierReady, EventNotifierReady, elements, lists, counters
  <2>3. f \in Frames /\ f.fn = "scan" /\ f.elem = NULL
    BY DEF Frames, Functs
  <2> HIDE DEF f
  <2>4. Calls("scan", Top)
    BY <2>2 DEF Calls
  <2>5. Elements'
    BY <2>1, <2>2, <2>3, <2>4, <1>ScanElements, Zenon
  <2>6. Top' = "scan"
    <3>1. Extends(stack', stack, f)
      BY <2>1, <2>2, <2>3, TopFacts, <1>Pushed, Zenon
    <3> QED BY <2>3, <3>1, Zenon DEF Extends, Top
  <2>7. Numbers'
    <3>1. /\ Top \notin {"free", "freed"} /\ Top # "cancel" /\ Top # "post"
          /\ Top' \notin {"free", "freed"} /\ Top' # "cancel" /\ Top' # "post"
      BY <2>2, <2>6
    <3>0. notifier' \in BOOLEAN
      BY <2>2, Zenon
    <3>2. /\ sem \in Nat /\ Count(worker, {"grabbed"}) \in Nat
          /\ sem + Count(worker, {"grabbed"}) + (IF Top = "post" THEN 1 ELSE 0) = Len(request_list)
          /\ pending_cancellations = (IF Top = "cancel" THEN 1 ELSE 0)
          /\ asleep \in BOOLEAN
      BY <2>1, <3>1, <1>Tokens, ZenonT(60)
    <3>3. /\ sem' \in Nat /\ pending_cancellations' = (IF Top' = "cancel" THEN 1 ELSE 0)
          /\ sem' + Count(worker, {"grabbed"}) + (IF Top' = "post" THEN 1 ELSE 0)
                 = Len(request_list')
      BY <2>2, <3>1, <3>2
    <3> QED BY <2>1, <2>2, <3>0, <3>1, <3>2, <3>3, <1>CallNumbers, Zenon
  <2>8. CompletionNoticed'
    BY <2>2, NoticedNow, Zenon
  <2> QED BY <2>5, <2>7, <2>8, Zenon DEF IInv

(* thread_pool_cancel goes on after its wait, or waits again.              *)
<1>CancelWakeStep.
    ASSUME IInv, CancelWake
    PROVE  IInv'
(* thread_pool_cancel goes on after its wait.                              *)
  <2> USE <1>CancelWakeStep
  <2>WakeElements.
      ASSUME Elements, Top = "cancel", Finished(Head(stack).elem),
             stack' = <<[fn |-> "scan", elem |-> Head(stack).elem]>> \o Tail(stack), todo' = head,
             worker' = worker, state' = state, head' = head, request_list' = request_list,
             job' = job
      PROVE  Elements'
    <3> USE <2>WakeElements
    <3> DEFINE s == Tail(stack)
               e == Head(stack).elem
               f == [fn |-> "scan", elem |-> e]
    <3>1. e \in Elems /\ e # NULL /\ Head(stack).fn = "cancel" /\ f \in Frames
      BY TopFacts, PoolAssumption DEF Frames, Functs
    <3>2. /\ Proper(s) /\ Calls("cancel", Head(s).fn) /\ CallbacksOK(s, state) /\ CancelsOK(s, state)
          /\ \A x \in Elems : Callback(x) \in Range(s) <=> Callback(x) \in Range(stack)
          /\ Callback(e) \notin Range(stack)
      BY <3>1, <1>ReturnFacts, Zenon
    <3>3. head \in Seq(Elems) /\ Listed /\ f.fn = "scan" /\ f.elem = e /\ state[e] \in {"DONE", "CANCELED"}
          /\ stack' = <<f>> \o s
      BY Zenon DEF Elements, ElementTypes, Finished
    <3> HIDE DEF s, e, f
    <3>4. Extends(stack', s, f)
      BY <3>1, <3>2, <3>3, <1>Pushed, Zenon DEF Proper
    <3>5. Proper(stack')
      <4>1. Calls(f.fn, Head(s).fn)
        BY <3>2, <3>3, ZenonT(60) DEF Calls
      <4>2. f.fn \notin {"callback", "cancel"}
        BY <3>3, SMTT(30)
      <4> QED BY <3>2, <3>4, <4>1, <4>2, <1>CallProper, ZenonT(60)
    <3>6. CallbacksOK(stack', state)
      <4>1. f.fn # "callback"
        BY <3>3, SMTT(30)
      <4> QED BY <3>2, <3>4, <4>1, <1>CallbacksMore, ZenonT(60)
    <3>7. CancelsOK(stack', state)
      <4>1. Callback(f.elem) \notin Range(s) /\ state[f.elem] \in {"FREE", "DONE", "CANCELED"}
        BY <3>1, <3>2, <3>3, ZenonT(60)
      <4>2. f.fn # "cancel"
        BY <3>3, SMTT(30)
      <4> QED BY <3>2, <3>4, <4>1, <4>2, <1>CancelsMore, ZenonT(60)
    <3>8. ASSUME NEW x \in Elems PROVE Callback(x) \in Range(stack') <=> Callback(x) \in Range(stack)
      <4>1. Callback(x) # f
        BY <3>3 DEF Callback
      <4>2. Range(stack') = Range(s) \cup {f}
        BY <3>4, Zenon DEF Extends
      <4> QED BY <3>2, <4>1, <4>2
    <3>9. Top' = "scan" /\ Head(stack)' = f
      BY <3>3, <3>4, ZenonT(30) DEF Extends, Top
    <3>10. e \in Range(head)
      BY <3>1, <3>2, <3>3, ZenonT(60) DEF Listed
    <3>11. Ahead'
      BY <3>3, <3>9, <3>10, Zenon DEF Ahead
    <3>12. TodoOK'
      BY <3>3, <3>9, Zenon DEF TodoOK, Listed
    <3> QED BY <3>3, <3>5, <3>6, <3>7, <3>8, <3>11, <3>12, CallsOnly, SMTT(30)

  <2> DEFINE e == Head(stack).elem
             f == [fn |-> "scan", elem |-> e]
  <2>1. Elements /\ Numbers /\ CompletionNoticed
    BY Zenon DEF IInv
  <2>2. /\ Top = "cancel"
        /\ worker' = worker /\ state' = state /\ withCb' = withCb /\ head' = head
        /\ request_list' = request_list /\ job' = job /\ sem' = sem
        /\ bh' = bh /\ cur_threads' = cur_threads /\ idle_threads' = idle_threads
        /\ new_threads' = new_threads /\ pending_threads' = pending_threads
        /\ stopping' = stopping
    BY Zenon DEF CancelWake, elements, lists, counters
  <2>3. /\ Top \notin {"free", "freed"} /\ Top # "post" /\ sem \in Nat
        /\ Count(worker, {"grabbed"}) \in Nat
        /\ sem + Count(worker, {"grabbed"}) = Len(request_list)
        /\ pending_cancellations = 1 /\ notifier \in BOOLEAN /\ asleep \in BOOLEAN
    <3>1. Top \notin {"free", "freed"} /\ Top # "post"
      BY <2>2
    <3>2. /\ sem \in Nat /\ Count(worker, {"grabbed"}) \in Nat
          /\ sem + Count(worker, {"grabbed"}) + (IF Top = "post" THEN 1 ELSE 0) = Len(request_list)
          /\ pending_cancellations = (IF Top = "cancel" THEN 1 ELSE 0)
          /\ notifier \in BOOLEAN /\ asleep \in BOOLEAN
      BY <2>1, <3>1, <1>Tokens, Zenon
    <3> QED BY <2>2, <3>1, <3>2
  <2>4. CASE Finished(e)
    <3>1. /\ pending_cancellations' = pending_cancellations - 1 /\ notifier' = FALSE
          /\ stack' = <<f>> \o Tail(stack) /\ todo' = head /\ asleep' = asleep
      BY <2>4, Zenon DEF CancelWake, EventNotifierReady
    <3>2. Elements'
      BY <2>1, <2>2, <2>4, <3>1, <2>WakeElements, Zenon
    <3>3. Top' = "scan"
      <4>1. f \in Frames /\ f.fn = "scan" /\ Tail(stack) \in Seq(Frames)
        BY <2>1, TopFacts DEF Frames, Functs
      <4> HIDE DEF f
      <4>2. Extends(stack', Tail(stack), f)
        BY <3>1, <4>1, <1>Pushed, Zenon
      <4> QED BY <4>1, <4>2, ZenonT(60) DEF Extends, Top
    <3>4. Numbers'
      <4>1. /\ pending_cancellations' = (IF Top' = "cancel" THEN 1 ELSE 0)
            /\ sem' + Count(worker, {"grabbed"}) + (IF Top' = "post" THEN 1 ELSE 0)
                   = Len(request_list')
            /\ Top' \notin {"free", "freed"} /\ sem' \in Nat
        BY <2>2, <2>3, <3>1, <3>3
      <4>2. notifier' \in BOOLEAN
        BY <3>1, Zenon
      <4> QED BY <2>1, <2>2, <2>3, <3>1, <4>1, <4>2, <1>CallNumbers, ZenonT(30)
    <3>5. CompletionNoticed'
      BY <2>2, <3>1, NoticedNow, Zenon
    <3> QED BY <3>2, <3>4, <3>5, Zenon DEF IInv
  <2>5. CASE ~Finished(e)
    <3>1. /\ asleep' = TRUE /\ pending_cancellations' = pending_cancellations
          /\ notifier' = notifier /\ stack' = stack /\ todo' = todo /\ Top' = Top
      BY <2>5, Zenon DEF CancelWake, Top
    <3>2. Elements'
      <4>1. worker \in [Workers -> Places]
        BY <2>1, Zenon DEF Elements, ElementTypes
      <4> QED BY <2>1, <2>2, <3>1, <4>1, ThreadsOnly, Zenon
    <3>3. Numbers'
      <4>1. /\ pending_cancellations' = (IF Top' = "cancel" THEN 1 ELSE 0)
            /\ sem' + Count(worker, {"grabbed"}) + (IF Top' = "post" THEN 1 ELSE 0)
                   = Len(request_list')
            /\ asleep' \in BOOLEAN /\ Top' \notin {"free", "freed"} /\ sem' \in Nat
        BY <2>2, <2>3, <3>1
      <4> QED BY <2>1, <2>2, <2>3, <3>1, <4>1, <1>CallNumbers, Zenon
    <3>4. CompletionNoticed'
      <4>1. \A x : Finished(x)' <=> Finished(x)
        BY <2>2, Zenon DEF Finished
      <4> QED BY <2>1, <2>2, <3>1, <4>1, NoticedStill, Zenon
    <3> QED BY <3>2, <3>3, <3>4, Zenon DEF IInv
  <2> QED BY <2>4, <2>5, SMTT(30)

(* thread_pool_cancel.                                                     *)
<1>CancelStep.
    ASSUME IInv, NEW e \in Elems, Cancel(e)
    PROVE  IInv'
(* thread_pool_cancel steals a queued element and completes it.            *)
  <2> USE <1>CancelStep
  <2>StealElements.
      ASSUME Elements, NEW ee \in Range(head), Calls("scan", Top), state[ee] = "QUEUED",
             request_list' = Without(request_list, ee), state' = [state EXCEPT ![ee] = "CANCELED"],
             stack' = <<[fn |-> "scan", elem |-> ee]>> \o stack, todo' = head, head' = head,
             worker' = worker, job' = job
      PROVE  Elements'
    <3> USE <2>StealElements
    <3> DEFINE f == [fn |-> "scan", elem |-> ee]
    <3>1. /\ ElementTypes /\ Queued /\ Worked /\ Listed /\ JobsOK
          /\ head \in Seq(Elems) /\ request_list \in Seq(Elems)
          /\ Distinct(head) /\ Distinct(request_list)
          /\ Proper(stack) /\ state \in [Elems -> States] /\ stack \in Seq(Frames)
      BY Zenon DEF Elements, ElementTypes, Listed, Queued, Proper
    <3>2. ee \in Elems /\ ee # NULL
      <4>1. ee \in Elems
        BY <3>1 DEF Range
      <4> QED BY <4>1, PoolAssumption, SMTT(30)
    <3>3. ee \in Range(request_list) /\ Callback(ee) \notin Range(stack)
      BY <3>1, <3>2, Zenon DEF Queued, Listed
    <3>4. /\ request_list' \in Seq(Elems) /\ Distinct(request_list')
          /\ Range(request_list') = Range(request_list) \ {ee}
      BY <3>1, <3>3, Removed, Zenon
    <3>5. /\ state' \in [Elems -> States] /\ state'[ee] = "CANCELED"
          /\ \A x \in Elems \ {ee} : state'[x] = state[x]
          /\ \A x \in Elems : state'[x] = "FREE" <=> state[x] = "FREE"
          /\ CallbacksOK(stack, state') /\ CancelsOK(stack, state')
      <4>1. state[ee] \in {"QUEUED", "ACTIVE"} /\ "CANCELED" \in {"ACTIVE", "DONE", "CANCELED"}
        OBVIOUS
      <4> QED BY <3>2, <4>1, Advances, Zenon
    <3>6. f \in Frames /\ f.fn = "scan" /\ f.elem = ee
      BY <3>2 DEF Frames, Functs
    <3> HIDE DEF f
    <3>7. Extends(stack', stack, f)
      BY <3>1, <3>6, <1>Pushed, Zenon DEF f
    <3>8. Proper(stack')
      <4>1. Calls(f.fn, Head(stack).fn) /\ f.fn \notin {"callback", "cancel"}
        BY <3>6 DEF Top
      <4> QED BY <3>1, <3>7, <4>1, <1>CallProper, ZenonT(60)
    <3>9. CallbacksOK(stack', state')
      <4>1. f.fn # "callback"
        BY <3>6
      <4> QED BY <3>5, <3>7, <4>1, <1>CallbacksMore, Zenon
    <3>10. CancelsOK(stack', state')
      <4>1. f.fn # "cancel" /\ state'[f.elem] \in {"FREE", "DONE", "CANCELED"}
            /\ Callback(f.elem) \notin Range(stack)
        BY <3>3, <3>5, <3>6
      <4> QED BY <3>5, <3>7, <4>1, <1>CancelsMore, ZenonT(60)
    <3>11. Top' = "scan" /\ Head(stack)' = f /\ Range(stack') = Range(stack) \cup {f}
      BY <3>6, <3>7, Zenon DEF Top, Extends
    <3>12. TodoOK' /\ Ahead'
      BY <3>1, <3>6, <3>11, Zenon DEF TodoOK, Ahead
    <3>13. Listed'
      <4>1. ASSUME NEW x \in Elems
            PROVE  x \in Range(head) <=> state'[x] # "FREE" /\ Callback(x) \notin Range(stack')
        <5>1. x \in Range(head) <=> state[x] # "FREE" /\ Callback(x) \notin Range(stack)
          BY <3>1, Zenon DEF Listed
        <5>2. Callback(x) # f
          BY <3>6 DEF Callback
        <5>3. Callback(x) \in Range(stack') <=> Callback(x) \in Range(stack)
          BY <3>11, <5>2, Zenon
        <5> QED BY <3>5, <5>1, <5>3, Zenon
      <4> QED BY <3>1, <4>1, Zenon DEF Listed, Callback
    <3>14. Queued'
      <4>1. ASSUME NEW x \in Elems PROVE state'[x] = "QUEUED" <=> x \in Range(request_list')
        <5>1. state[x] = "QUEUED" <=> x \in Range(request_list)
          BY <3>1, Zenon DEF Queued
        <5> QED BY <3>4, <3>5, <5>1
      <4> QED BY <3>4, <4>1, ZenonT(60) DEF Queued
    <3>15. Worked'
      <4>1. ASSUME NEW x \in Elems PROVE state'[x] = "ACTIVE" <=> state[x] = "ACTIVE"
        BY <3>5
      <4> QED BY <3>1, <4>1, ZenonT(60) DEF Worked
    <3>16. ElementTypes' /\ JobsOK'
      BY <3>1, <3>4, <3>5, Zenon DEF ElementTypes, JobsOK
    <3>17. Proper(stack)' /\ CallbacksOK(stack, state)' /\ CancelsOK(stack, state)'
      BY <3>8, <3>9, <3>10, Zenon
    <3> QED BY <3>12, <3>13, <3>14, <3>15, <3>16, <3>17, Zenon DEF Elements

  <2>1. Elements /\ Numbers /\ CompletionNoticed
    BY Zenon DEF IInv
  <2>2. /\ Top \in {"loop", "callback"} /\ e \in Range(head)
        /\ worker' = worker /\ withCb' = withCb /\ head' = head /\ job' = job
        /\ bh' = bh /\ cur_threads' = cur_threads /\ idle_threads' = idle_threads
        /\ new_threads' = new_threads /\ pending_threads' = pending_threads
        /\ stopping' = stopping
    BY DEF Cancel, May, counters
  <2>3. /\ Top \notin {"free", "freed"} /\ Top # "post" /\ sem \in Nat
        /\ Count(worker, {"grabbed"}) \in Nat
        /\ sem + Count(worker, {"grabbed"}) = Len(request_list) /\ Len(request_list) \in Nat
        /\ pending_cancellations = 0 /\ notifier \in BOOLEAN /\ asleep \in BOOLEAN
    <3>1. Top \notin {"free", "freed"} /\ Top # "post" /\ Top # "cancel"
      BY <2>2
    <3>2. /\ sem \in Nat /\ Count(worker, {"grabbed"}) \in Nat
          /\ sem + Count(worker, {"grabbed"}) + (IF Top = "post" THEN 1 ELSE 0) = Len(request_list)
          /\ pending_cancellations = (IF Top = "cancel" THEN 1 ELSE 0)
          /\ notifier \in BOOLEAN /\ asleep \in BOOLEAN /\ Len(request_list) \in Nat
      BY <2>1, <3>1, <1>Tokens, Zenon
    <3> QED BY <3>1, <3>2
  <2>4. Calls("scan", Top) /\ Calls("cancel", Top)
    BY <2>2 DEF Calls
  <2>5. e # NULL /\ stack \in Seq(Frames) /\ request_list \in Seq(Elems)
        /\ [fn |-> "scan", elem |-> e] \in Frames /\ [fn |-> "cancel", elem |-> e] \in Frames
    BY <2>1, TopFacts, PoolAssumption, ZenonT(60) DEF Elements, ElementTypes, Frames, Functs
  <2>6. CASE stack' = <<[fn |-> "scan", elem |-> e]>> \o stack /\ todo' = head /\ notifier' = FALSE
    <3> DEFINE f == [fn |-> "scan", elem |-> e]
    <3>1. f.fn = "scan" /\ f.elem = e /\ f \in Frames
      BY <2>5, SMTT(30)
    <3>2. /\ asleep' = asleep /\ pending_cancellations' = pending_cancellations
          /\ \/ /\ state[e] = "QUEUED" /\ sem > 0 /\ sem' = sem - 1
                /\ request_list' = Without(request_list, e)
                /\ state' = [state EXCEPT ![e] = "CANCELED"]
             \/ /\ Finished(e) /\ sem' = sem /\ state' = state /\ request_list' = request_list
      <4>1. CASE CanSteal(e) /\ ~Finished(e)
        BY <4>1, Zenon DEF Cancel, CanSteal, TakeToken
      <4>2. CASE Finished(e)
        <5>1. ~CanSteal(e)
          BY <4>2 DEF CanSteal, Finished
        <5> QED BY <4>2, <5>1, Zenon DEF Cancel
      <4>3. CASE ~Finished(e) /\ ~CanSteal(e)
        <5>1. /\ stack' = <<[fn |-> "cancel", elem |-> e]>> \o stack
          BY <4>3, Zenon DEF Cancel, Push
        <5>2. Extends(stack', stack, [fn |-> "cancel", elem |-> e]) /\ Extends(stack', stack, f)
          BY <2>5, <2>6, <5>1, <1>Pushed, Zenon
        <5>3. [fn |-> "cancel", elem |-> e] = f
          BY <5>2, Zenon DEF Extends
        <5>4. "cancel" = "scan"
          BY <5>3
        <5> QED BY <5>4
      <4> QED BY <4>1, <4>2, <4>3
    <3> HIDE DEF f
    <3>3. Top' = "scan"
      <4>1. Extends(stack', stack, f)
        BY <2>5, <2>6, <3>1, <1>Pushed, Zenon DEF f
      <4> QED BY <3>1, <4>1, Zenon DEF Extends, Top
    <3>4. CompletionNoticed'
      BY <2>2, <2>6, NoticedNow, Zenon
    <3>5. notifier' \in BOOLEAN /\ asleep' \in BOOLEAN
      BY <2>3, <2>6, <3>2, Zenon
    <3>6. /\ pending_cancellations' = (IF Top' = "cancel" THEN 1 ELSE 0)
          /\ Top' \notin {"free", "freed"} /\ Top' # "post"
      BY <2>3, <3>2, <3>3
    <3>7. CASE Finished(e) /\ sem' = sem /\ state' = state /\ request_list' = request_list
      <4>1. Elements'
        <5>1. stack' = <<f>> \o stack /\ f.elem \in Range(head) /\ Finished(f.elem)
          BY <2>2, <2>6, <3>1, <3>7, Zenon DEF f
        <5> QED BY <2>1, <2>2, <2>4, <2>6, <3>1, <3>7, <5>1, <1>ScanElements, Zenon
      <4>2. Numbers'
        <5>1. sem' + Count(worker, {"grabbed"}) + (IF Top' = "post" THEN 1 ELSE 0)
                  = Len(request_list')
          BY <2>3, <3>6, <3>7
        <5> QED BY <2>1, <2>2, <2>3, <3>5, <3>6, <3>7, <5>1, <1>CallNumbers, Zenon
      <4> QED BY <3>4, <4>1, <4>2, Zenon DEF IInv
    <3>8. CASE /\ state[e] = "QUEUED" /\ sem > 0 /\ sem' = sem - 1
               /\ request_list' = Without(request_list, e)
               /\ state' = [state EXCEPT ![e] = "CANCELED"]
      <4>1. Elements'
        BY <2>1, <2>2, <2>4, <2>6, <3>8, <2>StealElements, Zenon
      <4>2. e \in Range(request_list) /\ Distinct(request_list)
        BY <2>1, <3>8, Zenon DEF Elements, Queued
      <4>3. Len(request_list') = Len(request_list) - 1
        BY <2>5, <3>8, <4>2, Removed, Zenon
      <4>4. Numbers'
        <5>1. /\ sem' + Count(worker, {"grabbed"}) + (IF Top' = "post" THEN 1 ELSE 0)
                     = Len(request_list')
              /\ sem' \in Nat
          BY <2>3, <3>6, <3>8, <4>3, SMTT(30)
        <5>2. request_list # << >>
          BY <2>5, <4>2, SMTT(30) DEF Range
        <5> QED BY <2>1, <2>2, <2>3, <3>5, <3>6, <5>1, <5>2, <1>CallNumbers, Zenon
      <4> QED BY <3>4, <4>1, <4>4, Zenon DEF IInv
    <3> QED BY <3>2, <3>7, <3>8, SMTT(30)
  <2>7. CASE /\ stack' = <<[fn |-> "cancel", elem |-> e]>> \o stack
             /\ pending_cancellations' = pending_cancellations + 1 /\ asleep' = TRUE
             /\ state' = state /\ request_list' = request_list /\ sem' = sem
             /\ notifier' = notifier /\ todo' = todo
    <3> DEFINE f == [fn |-> "cancel", elem |-> e]
    <3>1. f.fn = "cancel" /\ f.elem = e /\ f \in Frames /\ stack' = <<f>> \o stack
      BY <2>5, <2>7
    <3> HIDE DEF f
    <3>2. Elements'
      <4>1. Calls(f.fn, Top) /\ f.elem \in Range(head)
        BY <2>2, <2>4, <3>1, Zenon
      <4> QED BY <2>1, <2>2, <2>7, <3>1, <4>1, <1>WaitElements, Zenon
    <3>3. Extends(stack', stack, f)
      BY <2>5, <3>1, <1>Pushed, Zenon
    <3>4. Top' = "cancel" /\ Range(stack') = Range(stack) \cup {f}
      BY <3>1, <3>3, Zenon DEF Extends, Top
    <3>5. Numbers'
      <4>1. /\ pending_cancellations' = (IF Top' = "cancel" THEN 1 ELSE 0)
            /\ Top' \notin {"free", "freed"} /\ sem' \in Nat
            /\ sem' + Count(worker, {"grabbed"}) + (IF Top' = "post" THEN 1 ELSE 0)
                   = Len(request_list')
        BY <2>3, <2>7, <3>4
      <4>2. asleep' \in BOOLEAN
        BY <2>7, Zenon
      <4> QED BY <2>1, <2>2, <2>3, <2>7, <4>1, <4>2, <1>CallNumbers, ZenonT(30)
    <3>6. CompletionNoticed'
      <4>1. \A g \in Range(stack) : g \in Range(stack')
        BY <3>4, Zenon
      <4>2. \A x : Finished(x)' <=> Finished(x)
        BY <2>7, Zenon DEF Finished
      <4> QED BY <2>1, <2>2, <2>7, <4>1, <4>2, NoticedStill, Zenon
    <3> QED BY <3>2, <3>5, <3>6, Zenon DEF IInv
  <2> QED BY <2>6, <2>7, Zenon DEF Cancel, EventNotifierReady, Push

(* thread_pool_submit_aio, up to the release of the lock.                  *)
<1>SubmitStep.
    ASSUME IInv, NEW e \in Elems, NEW cb \in BOOLEAN, Submit(e, cb)
    PROVE  IInv'
(* thread_pool_submit_aio.                                                 *)
  <2> USE <1>SubmitStep
  <2>SubmitElements.
      ASSUME Elements, NEW ee \in Elems, Calls("post", Top), state[ee] = "FREE",
             \A f \in Range(stack) : f.elem # ee,
             state' = [state EXCEPT ![ee] = "QUEUED"], head' = <<ee>> \o head,
             request_list' = Append(request_list, ee), stack' = Push("post", NULL),
             worker' = worker, job' = job, todo' = todo
      PROVE  Elements'
    <3> USE <2>SubmitElements
    <3> DEFINE f == [fn |-> "post", elem |-> NULL]
    <3>1. /\ ElementTypes /\ Queued /\ Worked /\ Listed /\ JobsOK /\ TodoOK
          /\ state \in [Elems -> States] /\ head \in Seq(Elems) /\ request_list \in Seq(Elems)
          /\ stack \in Seq(Frames) /\ CallbacksOK(stack, state) /\ CancelsOK(stack, state)
          /\ Distinct(head) /\ Distinct(request_list)
      BY Zenon DEF Elements, ElementTypes, Proper, Listed, Queued
    <3>2. /\ state' \in [Elems -> States] /\ state'[ee] = "QUEUED"
          /\ \A x \in Elems \ {ee} : state'[x] = state[x]
      BY <3>1 DEF States
    <3>3. ee \notin Range(head) /\ ee \notin Range(request_list) /\ \A w \in Workers : job[w] # ee
      <4>1. state[ee] # "QUEUED" /\ state[ee] # "ACTIVE"
        OBVIOUS
      <4> QED BY <3>1, <4>1, Zenon DEF Listed, Queued, Worked
    <3>4. head' \in Seq(Elems) /\ Distinct(head') /\ Range(head') = Range(head) \cup {ee}
      BY <3>1, <3>3, Inserted, Zenon
    <3>5. /\ request_list' \in Seq(Elems) /\ Distinct(request_list')
          /\ Range(request_list') = Range(request_list) \cup {ee}
      BY <3>1, <3>3, Appended, Zenon
    <3>6. f \in Frames /\ f.fn = "post" /\ stack' = <<f>> \o stack
      BY DEF Frames, Functs, Push
    <3> HIDE DEF f
    <3>7. /\ Proper(stack') /\ CallbacksOK(stack', state) /\ CancelsOK(stack', state) /\ Head(stack') = f
          /\ Range(stack') = Range(stack) \cup {f}
          /\ \A x \in Elems : Callback(x) \in Range(stack') <=> Callback(x) \in Range(stack)
      <4>1. f.fn \notin {"callback", "cancel", "scan"} /\ f.fn # "callback" /\ f.fn # "cancel"
            /\ f.fn \notin {"scan", "cancel"}
        BY <3>6
      <4>2. Calls(f.fn, Top)
        BY <3>6, ZenonT(30)
      <4> QED BY <3>6, <4>1, <4>2, <1>CallFacts, Zenon
    <3>8. ASSUME NEW k \in 1 .. Len(stack'), stack'[k].fn # "post" PROVE stack'[k].elem # ee
      <4>1. stack' \in Seq(Frames)
        BY <3>7, ZenonT(30) DEF Proper
      <4>2. stack'[k] \in Range(stack')
        BY <4>1, SMTT(30) DEF Range
      <4> QED BY <3>6, <3>7, <3>8, <4>2, Zenon
    <3>9. ASSUME NEW k \in 1 .. Len(stack'), stack'[k].fn # "post", stack'[k].elem # NULL
          PROVE  state'[stack'[k].elem] = state[stack'[k].elem]
      <4>1. stack' \in Seq(Frames)
        BY <3>7, Zenon DEF Proper
      <4>2. stack'[k] \in Frames
        BY <4>1, SMTT(30)
      <4>3. stack'[k].elem \in Elems
        BY <3>9, <4>2 DEF Frames
      <4> QED BY <3>2, <3>8, <3>9, <4>3
    <3>10. CallbacksOK(stack', state')
      <4>1. ASSUME NEW k \in 1 .. Len(stack'), stack'[k].fn = "callback"
            PROVE  state'[stack'[k].elem] = state[stack'[k].elem]
        <5>1. stack'[k].elem # NULL
          BY <3>7, <4>1, Zenon DEF Proper
        <5>2. stack'[k].fn # "post"
          BY <4>1
        <5> QED BY <3>9, <5>1, <5>2, Zenon
      <4> QED BY <3>7, <4>1, Zenon DEF CallbacksOK
    <3>11. CancelsOK(stack', state')
      <4>1. ASSUME NEW k \in 1 .. Len(stack'), stack'[k].fn \in {"scan", "cancel"}, stack'[k].elem # NULL
            PROVE  /\ stack'[k].fn = "scan" => state'[stack'[k].elem] \in {"FREE", "DONE", "CANCELED"}
                   /\ stack'[k].fn = "cancel" => state'[stack'[k].elem] # "FREE"
        <5>1. /\ stack'[k].fn = "scan" => state[stack'[k].elem] \in {"FREE", "DONE", "CANCELED"}
              /\ stack'[k].fn = "cancel" => state[stack'[k].elem] # "FREE"
          BY <3>7, <4>1, Zenon DEF CancelsOK
        <5>2. stack'[k].fn # "post"
          BY <4>1
        <5> QED BY <3>9, <4>1, <5>1, <5>2, Zenon
      <4> QED BY <3>7, <4>1, CancelsStill, Zenon
    <3>12. Top' = "post" /\ Top # "scan"
      BY <3>6, <3>7 DEF Top, Calls
    <3>13. TodoOK' /\ Ahead'
      <4>1. Distinct(todo) /\ Range(todo) \subseteq Range(head') /\ todo = << >>
        BY <3>1, <3>4, <3>12, Zenon DEF TodoOK
      <4>2. Ahead'
        BY <3>12, Zenon DEF Ahead
      <4> QED BY <4>1, <4>2, Zenon DEF TodoOK
    <3>14. Queued'
      <4>1. ASSUME NEW x \in Elems PROVE state'[x] = "QUEUED" <=> x \in Range(request_list')
        <5>1. state[x] = "QUEUED" <=> x \in Range(request_list)
          BY <3>1, Zenon DEF Queued
        <5> QED BY <3>2, <3>5, <5>1
      <4> QED BY <3>5, <4>1, Zenon DEF Queued
    <3>15. Worked'
      <4>1. ASSUME NEW x \in Elems PROVE state'[x] = "ACTIVE" <=> \E v \in Workers : job[v] = x
        <5>1. state[x] = "ACTIVE" <=> \E v \in Workers : job[v] = x
          BY <3>1, Zenon DEF Worked
        <5> QED BY <3>2, <3>3, <5>1
      <4> QED BY <3>1, <4>1, Zenon DEF Worked
    <3>16. Listed'
      <4>1. ASSUME NEW x \in Elems
            PROVE  x \in Range(head') <=> state'[x] # "FREE" /\ Callback(x) \notin Range(stack')
        <5>1. x \in Range(head) <=> state[x] # "FREE" /\ Callback(x) \notin Range(stack)
          BY <3>1, Zenon DEF Listed
        <5>2. CASE x = ee
          <6>1. Callback(ee).elem = ee
            BY DEF Callback
          <6>2. Callback(ee) \notin Range(stack)
            BY <6>1, Zenon
          <6> QED BY <3>2, <3>4, <3>7, <5>2, <6>2, ZenonT(30)
        <5>3. CASE x # ee
          <6>1. state'[x] = state[x] /\ (x \in Range(head') <=> x \in Range(head))
            BY <3>2, <3>4, <5>3
          <6> QED BY <3>7, <5>1, <6>1, ZenonT(30)
        <5> QED BY <5>2, <5>3
      <4> QED BY <3>4, <4>1, Zenon DEF Listed, Callback
    <3>17. ElementTypes' /\ JobsOK'
      BY <3>1, <3>2, <3>4, <3>5, Zenon DEF ElementTypes, JobsOK
    <3>18. Proper(stack)' /\ CallbacksOK(stack, state)' /\ CancelsOK(stack, state)'
      BY <3>7, <3>10, <3>11, Zenon
    <3> QED BY <3>13, <3>14, <3>15, <3>16, <3>17, <3>18, Zenon DEF Elements

  <2>1. /\ Elements /\ Numbers /\ CompletionNoticed /\ request_list \in Seq(Elems)
        /\ head \in Seq(Elems) /\ stack \in Seq(Frames) /\ worker \in [Workers -> Places]
        /\ state \in [Elems -> States] /\ Distinct(request_list) /\ Distinct(head)
    BY Zenon DEF IInv, Elements, ElementTypes, Proper, Queued, Listed
  <2>2. /\ Top \in {"loop", "callback"} /\ state[e] = "FREE" /\ \A f \in Range(stack) : f.elem # e
        /\ state' = [state EXCEPT ![e] = "QUEUED"] /\ head' = <<e>> \o head
        /\ request_list' = Append(request_list, e) /\ stack' = Push("post", NULL)
        /\ withCb' = IF cb THEN withCb \cup {e} ELSE withCb \ {e}
        /\ idle_threads' = idle_threads /\ pending_threads' = pending_threads
        /\ sem' = sem /\ notifier' = notifier /\ pending_cancellations' = pending_cancellations
        /\ stopping' = stopping /\ todo' = todo /\ asleep' = asleep
        /\ worker' = worker /\ job' = job
    BY DEF Submit, May
  <2>3. \/ /\ idle_threads = 0 /\ cur_threads < MaxThreads /\ cur_threads' = cur_threads + 1
           /\ new_threads' = new_threads + 1 /\ bh' = (bh \/ pending_threads = 0)
        \/ /\ idle_threads > 0 \/ cur_threads = MaxThreads
           /\ cur_threads' = cur_threads /\ new_threads' = new_threads /\ bh' = bh
    BY Zenon DEF Submit, SpawnThread
  <2>4. Calls("post", Top) /\ Top \notin {"free", "freed"} /\ Top # "post" /\ Top # "cancel"
    BY <2>2 DEF Calls
  <2>5. Elements'
    BY <2>1, <2>2, <2>4, <2>SubmitElements, Zenon
  <2>6. e \notin Range(head) /\ e \notin Range(request_list)
    <3>1. state[e] # "QUEUED"
      BY <2>2
    <3> QED BY <2>1, <2>2, <3>1, Zenon DEF Elements, Listed, Queued
  <2>7. Len(request_list') = Len(request_list) + 1
    BY <2>1, <2>2, <2>6, Appended, Zenon
  <2>8. Top' = "post" /\ \A g \in Range(stack) : g \in Range(stack')
    <3> DEFINE f == [fn |-> "post", elem |-> NULL]
    <3>1. f \in Frames /\ f.fn = "post" /\ stack' = <<f>> \o stack
      BY <2>2 DEF Frames, Functs, Push
    <3> HIDE DEF f
    <3>2. Extends(stack', stack, f)
      BY <2>1, <3>1, <1>Pushed, Zenon
    <3>3. Range(stack') = Range(stack) \cup {f} /\ Head(stack') = f
      BY <3>2, Zenon DEF Extends
    <3> QED BY <3>1, <3>3 DEF Top
  <2>9. /\ sem \in Nat /\ Count(worker, {"grabbed"}) \in Nat /\ ~stopping
        /\ sem + Count(worker, {"grabbed"}) + (IF Top = "post" THEN 1 ELSE 0) = Len(request_list)
        /\ pending_cancellations = (IF Top = "cancel" THEN 1 ELSE 0)
        /\ notifier \in BOOLEAN /\ asleep \in BOOLEAN /\ Len(request_list) \in Nat
    BY <2>1, <2>4, <1>Tokens, Zenon
  <2>10. /\ Count(worker, Working) \in Nat /\ (Count(worker, Idling) > 0 => Count(worker, Working) > 0)
    <3>1. Working \in SUBSET Places
      BY DEF Working
    <3> QED BY <2>1, <3>1, Counts, SomeThreads, ZenonT(30)
  <2>11. Numbers'
    <3>1. /\ cur_threads \in 0 .. MaxThreads /\ new_threads \in Nat /\ pending_threads \in Nat
          /\ idle_threads \in Nat /\ MaxThreads \in Nat \ {0}
          /\ cur_threads = new_threads + Count(worker, Working)
          /\ idle_threads = Count(worker, Idling)
          /\ new_threads > 0 => bh \/ pending_threads > 0
          /\ bh \in BOOLEAN
      BY <2>1, PoolAssumption, Zenon DEF Numbers, WorkersCome
    <3>2. /\ cur_threads' \in 0 .. MaxThreads /\ new_threads' \in Nat
          /\ cur_threads' = new_threads' + Count(worker, Working) /\ cur_threads' > 0
      BY <2>3, <2>10, <3>1
    <3>3. bh' \in BOOLEAN
      <4>1. bh' = (bh \/ pending_threads = 0) \/ bh' = bh
        BY <2>3, Zenon
      <4>2. CASE bh' = bh
        BY <3>1, <4>2, Zenon
      <4>3. CASE bh' = (bh \/ pending_threads = 0)
        BY <4>3, Zenon
      <4> QED BY <4>1, <4>2, <4>3, Zenon
    <3>4. new_threads' > 0 => bh' \/ pending_threads > 0
      <4>1. pending_threads = 0 \/ pending_threads > 0
        BY <3>1
      <4> QED BY <2>3, <3>1, <4>1, ZenonT(30)
    <3>5. WorkersCome'
      BY <2>2, <3>2, <3>4, ZenonT(30) DEF WorkersCome
    <3>6. FlagsOK'
      BY <2>2, <2>4, <2>8, <2>9, SMTT(30) DEF FlagsOK
    <3>7. sem' + Count(worker', {"grabbed"}) + (IF Top' = "post" THEN 1 ELSE 0) = Len(request_list')
      BY <2>2, <2>4, <2>7, <2>8, <2>9, SMTT(30)
    <3>8. withCb' \subseteq Elems
      BY <2>1, <2>2 DEF Numbers
    <3> QED BY <2>1, <2>2, <3>2, <3>3, <3>5, <3>6, <3>7, <3>8, Zenon DEF Numbers
  <2>12. CompletionNoticed'
    <3>1. Range(head') = Range(head) \cup {e}
      BY <2>1, <2>2, <2>6, Inserted, ZenonT(30)
    <3>2. ASSUME NEW x \in Range(head'), Finished(x)' PROVE x \in Range(head) /\ Finished(x)
      <4>1. x # e
        BY <2>1, <2>2, <3>2 DEF Finished
      <4>2. x \in Range(head)
        BY <3>1, <4>1, SMTT(30)
      <4>3. x \in Elems
        BY <2>1, <4>2 DEF Range
      <4> QED BY <2>1, <2>2, <3>2, <4>1, <4>2, <4>3, SMTT(30) DEF Finished
    <3> QED BY <2>1, <2>2, <2>8, <3>2, NoticedStill, Zenon
  <2> QED BY <2>5, <2>11, <2>12, Zenon DEF IInv

(* event_notifier_ready looks at one element.                              *)
<1>VisitStep.
    ASSUME IInv, Visit
    PROVE  IInv'
(* event_notifier_ready goes past an element that has not finished.        *)
  <2> USE <1>VisitStep
  <2>SkipElements.
      ASSUME Elements, Top = "scan", todo # << >>, ~Seen(Head(todo)), todo' = Tail(todo),
             state' = state, head' = head, stack' = stack,
             worker' = worker, request_list' = request_list, job' = job
      PROVE  Elements'
    <3> USE <2>SkipElements
    <3>1. /\ todo \in Seq(Elems) /\ TodoOK /\ Ahead /\ Proper(stack) /\ CallbacksOK(stack, state)
          /\ CancelsOK(stack, state) /\ Distinct(todo)
      BY Zenon DEF Elements, ElementTypes, TodoOK
    <3>2. /\ todo' \in Seq(Elems) /\ Distinct(todo') /\ Head(todo) \in Elems
          /\ Range(todo') = Range(todo) \ {Head(todo)}
      BY <3>1, Tailed, Zenon
    <3>3. TodoOK'
      <4>1. Range(todo') \subseteq Range(head)
        BY <3>1, <3>2 DEF TodoOK
      <4>2. Top' = "scan"
        BY Zenon DEF Top
      <4> QED BY <3>2, <4>1, <4>2, ZenonT(60) DEF TodoOK
    <3>4. Ahead'
      <4>1. ASSUME Head(stack).elem # NULL, state[Head(stack).elem] # "FREE"
            PROVE  Head(stack).elem \in Range(todo')
        <5>1. Extends(stack, Tail(stack), Head(stack)) /\ Head(stack).fn = "scan"
          BY TopFacts, Zenon
        <5>2. state[Head(stack).elem] \in {"FREE", "DONE", "CANCELED"}
          BY <3>1, <4>1, <5>1, <1>CancelsLess, ZenonT(60)
        <5>3. Head(stack).elem # Head(todo)
          BY <4>1, <5>2 DEF Seen
        <5> QED BY <3>1, <3>2, <4>1, <5>3 DEF Ahead
      <4> QED BY <4>1, ZenonT(60) DEF Ahead
    <3> QED BY <3>1, <3>2, <3>3, <3>4, CallsOnly, Zenon

  (* It takes an element off the list and calls its completion function.     *)
  <2>InvokeElements.
      ASSUME Elements, Top = "scan", todo # << >>, state[Head(todo)] = "DONE",
             head' = Without(head, Head(todo)), stack' = Push("callback", Head(todo)),
             todo' = << >>, state' = state,
             worker' = worker, request_list' = request_list, job' = job
      PROVE  Elements'
    <3> USE <2>InvokeElements
    <3> DEFINE e == Head(todo)
               f == Callback(e)
    <3>1. /\ ElementTypes /\ Queued /\ Worked /\ Listed /\ JobsOK /\ TodoOK
          /\ todo \in Seq(Elems) /\ head \in Seq(Elems) /\ Distinct(todo) /\ Distinct(head)
          /\ Range(todo) \subseteq Range(head) /\ Proper(stack)
          /\ CallbacksOK(stack, state) /\ CancelsOK(stack, state) /\ stack \in Seq(Frames)
      BY Zenon DEF Elements, ElementTypes, TodoOK, Listed, Proper
    <3>2. e \in Elems /\ e \in Range(todo) /\ e # NULL
      BY <3>1, Tailed, PoolAssumption
    <3> HIDE DEF e
    <3>3. f \in Frames /\ f.fn = "callback" /\ f.elem = e /\ stack' = <<f>> \o stack /\ state[e] = "DONE"
          /\ head' = Without(head, e)
      BY <3>2 DEF Frames, Functs, Push, Callback, e
    <3>4. e \in Range(head) /\ f \notin Range(stack)
      BY <3>1, <3>2, Zenon DEF Listed
    <3>5. head' \in Seq(Elems) /\ Distinct(head') /\ Range(head') = Range(head) \ {e}
      BY <3>1, <3>3, <3>4, Removed, ZenonT(60)
    <3> HIDE DEF f
    <3>6. Extends(stack', stack, f)
      BY <3>1, <3>3, <1>Pushed, Zenon
    <3>7. Proper(stack')
      <4>1. Calls("callback", "scan")
        BY DEF Calls
      <4>2. Calls(f.fn, Head(stack).fn) /\ f.elem # NULL
        BY <3>2, <3>3, <4>1, Zenon DEF Top
      <4> QED BY <3>1, <3>6, <4>2, <1>CallProper, Zenon
    <3>8. CallbacksOK(stack', state)
      <4>1. state[f.elem] = "DONE"
        BY <3>3, Zenon
      <4> QED BY <3>1, <3>4, <3>6, <4>1, <1>CallbacksMore, Zenon
    <3>9. CancelsOK(stack', state)
      <4>1. f.fn \notin {"scan", "cancel"}
        BY <3>3
      <4> QED BY <3>1, <3>6, <4>1, <1>CancelsMore, ZenonT(30)
    <3>10. Top' = "callback" /\ Range(stack') = Range(stack) \cup {f}
      BY <3>3, <3>6, Zenon DEF Top, Extends
    <3>11. TodoOK' /\ Ahead'
      <4>1. Top' # "scan" /\ Distinct(<< >>) /\ Range(<< >>) = {}
        BY <3>10 DEF Distinct, Range
      <4>2. TodoOK'
        BY <4>1 DEF TodoOK
      <4> QED BY <4>1, <4>2, Zenon DEF Ahead
    <3>12. Listed'
      <4>1. ASSUME NEW x \in Elems
            PROVE  x \in Range(head') <=> state[x] # "FREE" /\ Callback(x) \notin Range(stack')
        <5>1. x \in Range(head) <=> state[x] # "FREE" /\ Callback(x) \notin Range(stack)
          BY <3>1, Zenon DEF Listed
        <5>2. CASE x = e
          BY <3>5, <3>10, <5>2 DEF f
        <5>3. CASE x # e
          <6>1. Callback(x) # f
            BY <5>3 DEF f, Callback
          <6>2. Callback(x) \in Range(stack') <=> Callback(x) \in Range(stack)
            BY <3>10, <6>1, Zenon
          <6>3. x \in Range(head') <=> x \in Range(head)
            BY <3>5, <5>3
          <6> QED BY <5>1, <6>2, <6>3, Zenon
        <5> QED BY <5>2, <5>3
      <4> QED BY <3>5, <4>1, Zenon DEF Listed, Callback
    <3>13. Queued' /\ Worked'
      <4>1. Distinct(request_list)' /\ Range(request_list)' = Range(request_list)
        BY <3>1 DEF Queued, Distinct, Range
      <4>2. Queued'
        BY <3>1, <4>1, Zenon DEF Queued
      <4>3. Worked'
        BY <3>1, Zenon DEF Worked
      <4> QED BY <4>2, <4>3, SMTT(30)
    <3>14. ElementTypes' /\ JobsOK'
      <4>1. todo' \in Seq(Elems)
        OBVIOUS
      <4> QED BY <3>1, <3>5, <4>1, Zenon DEF ElementTypes, JobsOK
    <3>15. Proper(stack)' /\ CallbacksOK(stack, state)' /\ CancelsOK(stack, state)'
      BY <3>7, <3>8, <3>9, Zenon
    <3> QED BY <3>11, <3>12, <3>13, <3>14, <3>15, Zenon DEF Elements

  (* It takes an element off the list and releases it at once.               *)
  <2>ReleaseElements.
      ASSUME Elements, Top = "scan", todo # << >>, Seen(Head(todo)),
             head' = Without(head, Head(todo)), state' = [state EXCEPT ![Head(todo)] = "FREE"],
             todo' = Tail(todo), stack' = stack,
             worker' = worker, request_list' = request_list, job' = job
      PROVE  Elements'
    <3> USE <2>ReleaseElements
    <3> DEFINE e == Head(todo)
    <3>1. /\ ElementTypes /\ Queued /\ Worked /\ Listed /\ JobsOK /\ TodoOK /\ Ahead
          /\ todo \in Seq(Elems) /\ head \in Seq(Elems) /\ Distinct(todo) /\ Distinct(head)
          /\ Range(todo) \subseteq Range(head) /\ Proper(stack) /\ state \in [Elems -> States]
          /\ CallbacksOK(stack, state) /\ CancelsOK(stack, state) /\ stack \in Seq(Frames)
      BY Zenon DEF Elements, ElementTypes, TodoOK, Listed, Proper
    <3>2. /\ e \in Elems /\ e \in Range(todo) /\ todo' \in Seq(Elems) /\ Distinct(todo')
          /\ Range(todo') = Range(todo) \ {e}
      BY <3>1, Tailed, Zenon
    <3> HIDE DEF e
    <3>3. head' = Without(head, e) /\ state' = [state EXCEPT ![e] = "FREE"] /\ state[e] \in {"DONE", "CANCELED"}
      BY Zenon DEF Seen, e
    <3>4. e \in Range(head) /\ Callback(e) \notin Range(stack)
      BY <3>1, <3>2, Zenon DEF Listed
    <3>5. head' \in Seq(Elems) /\ Distinct(head') /\ Range(head') = Range(head) \ {e}
      BY <3>1, <3>3, <3>4, Removed, Zenon
    <3>6. /\ state' \in [Elems -> States] /\ state'[e] = "FREE"
          /\ \A x \in Elems \ {e} : state'[x] = state[x]
          /\ CallbacksOK(stack, state') /\ CancelsOK(stack, state')
      <4>1. Head(stack).fn # "cancel"
        BY DEF Top
      <4> QED BY <3>1, <3>2, <3>3, <3>4, <4>1, <1>Releases, Zenon
    <3>7. TodoOK'
      <4>1. Range(todo') \subseteq Range(head') /\ Top' = "scan"
        BY <3>1, <3>2, <3>5 DEF Top
      <4> QED BY <3>2, <4>1, ZenonT(60) DEF TodoOK
    <3>8. Ahead'
      <4>1. ASSUME Head(stack).elem # NULL, state'[Head(stack).elem] # "FREE"
            PROVE  Head(stack).elem \in Range(todo')
        <5>1. Head(stack).elem \in Elems /\ Head(stack).elem # e
          BY <3>6, <4>1, TopFacts
        <5>2. state[Head(stack).elem] # "FREE"
          BY <3>6, <4>1, <5>1, Zenon
        <5> QED BY <3>1, <3>2, <4>1, <5>1, <5>2, SMTT(30) DEF Ahead
      <4> QED BY <4>1, ZenonT(30) DEF Ahead
    <3>9. Listed'
      <4>1. ASSUME NEW x \in Elems
            PROVE  x \in Range(head') <=> state'[x] # "FREE" /\ Callback(x) \notin Range(stack)
        <5>1. x \in Range(head) <=> state[x] # "FREE" /\ Callback(x) \notin Range(stack)
          BY <3>1, Zenon DEF Listed
        <5>2. CASE x = e
          BY <3>5, <3>6, <5>2
        <5>3. CASE x # e
          <6>1. state'[x] = state[x] /\ (x \in Range(head') <=> x \in Range(head))
            BY <3>5, <3>6, <5>3
          <6> QED BY <5>1, <6>1, Zenon
        <5> QED BY <5>2, <5>3
      <4> QED BY <3>5, <4>1, Zenon DEF Listed, Callback
    <3>10. Queued'
      <4>1. ASSUME NEW x \in Elems PROVE state'[x] = "QUEUED" <=> x \in Range(request_list)
        <5>1. state[x] = "QUEUED" <=> x \in Range(request_list)
          BY <3>1, Zenon DEF Queued
        <5> QED BY <3>3, <3>6, <5>1
      <4> QED BY <3>1, <4>1, Zenon DEF Queued
    <3>11. Worked'
      <4>1. ASSUME NEW x \in Elems PROVE state'[x] = "ACTIVE" <=> state[x] = "ACTIVE"
        BY <3>3, <3>6
      <4> QED BY <3>1, <4>1, Zenon DEF Worked
    <3>12. ElementTypes' /\ JobsOK'
      BY <3>1, <3>2, <3>5, <3>6, Zenon DEF ElementTypes, JobsOK
    <3>13. Proper(stack)' /\ CallbacksOK(stack, state)' /\ CancelsOK(stack, state)'
      BY <3>1, <3>6, Zenon
    <3> QED BY <3>7, <3>8, <3>9, <3>10, <3>11, <3>12, <3>13, Zenon DEF Elements

  <2> DEFINE e == Head(todo)
  <2>1. /\ Elements /\ Numbers /\ CompletionNoticed /\ todo \in Seq(Elems) /\ head \in Seq(Elems)
        /\ stack \in Seq(Frames) /\ Distinct(todo) /\ Distinct(head) /\ state \in [Elems -> States]
        /\ Range(todo) \subseteq Range(head)
    BY ZenonT(60) DEF IInv, Elements, ElementTypes, Proper, Listed, TodoOK
  <2>2. /\ Top = "scan" /\ todo # << >>
        /\ worker' = worker /\ withCb' = withCb /\ request_list' = request_list /\ job' = job
        /\ sem' = sem /\ notifier' = notifier /\ bh' = bh
        /\ cur_threads' = cur_threads /\ idle_threads' = idle_threads
        /\ new_threads' = new_threads /\ pending_threads' = pending_threads
        /\ stopping' = stopping /\ asleep' = asleep
        /\ pending_cancellations' = pending_cancellations
    BY DEF Visit, counters, signals
  <2>3. /\ e \in Elems /\ e \in Range(todo) /\ Range(Tail(todo)) = Range(todo) \ {e}
    BY <2>1, <2>2, Tailed, Zenon
  <2>4. ASSUME Top' \in {"scan", "callback"} PROVE Numbers'
    <3>1. /\ Top \notin {"free", "freed"} /\ Top # "cancel" /\ Top # "post"
          /\ Top' \notin {"free", "freed"} /\ Top' # "cancel" /\ Top' # "post"
      BY <2>2, <2>4
    <3>2. /\ sem \in Nat /\ Count(worker, {"grabbed"}) \in Nat
          /\ sem + Count(worker, {"grabbed"}) + (IF Top = "post" THEN 1 ELSE 0) = Len(request_list)
          /\ pending_cancellations = (IF Top = "cancel" THEN 1 ELSE 0)
          /\ notifier \in BOOLEAN /\ asleep \in BOOLEAN
      BY <2>1, <3>1, <1>Tokens, Zenon
    <3>3. /\ sem' \in Nat /\ pending_cancellations' = (IF Top' = "cancel" THEN 1 ELSE 0)
          /\ sem' + Count(worker, {"grabbed"}) + (IF Top' = "post" THEN 1 ELSE 0)
                 = Len(request_list')
      BY <2>2, <3>1, <3>2
    <3> QED BY <2>1, <2>2, <3>1, <3>2, <3>3, <1>CallNumbers, Zenon
  <2>5. CASE ~Seen(e) /\ todo' = Tail(todo) /\ state' = state /\ head' = head /\ stack' = stack
    <3>1. Elements'
      BY <2>1, <2>2, <2>5, <2>SkipElements, Zenon
    <3>2. Top' \in {"scan", "callback"}
      BY <2>2, <2>5 DEF Top
    <3>3. \A x : Finished(x)' => Finished(x) /\ x # e
      BY <2>5, Zenon DEF Finished, Seen
    <3>4. \A x \in Range(todo) : x # e => x \in Range(todo')
      BY <2>3, <2>5
    <3>5. CompletionNoticed'
      BY <2>1, <2>2, <2>5, <3>3, <3>4, NoticedStill, Zenon
    <3> QED BY <2>4, <3>1, <3>2, <3>5, Zenon DEF IInv
  <2>6. CASE /\ state[e] = "DONE" /\ e \in withCb /\ head' = Without(head, e)
             /\ stack' = Push("callback", e) /\ todo' = << >> /\ state' = state
    <3>1. Elements'
      BY <2>1, <2>2, <2>6, <2>InvokeElements, Zenon
    <3>2. Extends(stack', stack, Callback(e)) /\ Callback(e).fn = "callback"
      <4>1. Callback(e) \in Frames /\ stack' = <<Callback(e)>> \o stack /\ Callback(e).fn = "callback"
        BY <2>3, <2>6 DEF Callback, Frames, Functs, Push
      <4> QED BY <2>1, <4>1, <1>Pushed, ZenonT(60)
    <3>3. Head(stack') = Callback(e) /\ Range(stack') = Range(stack) \cup {Callback(e)}
      BY <3>2, Zenon DEF Extends
    <3>4. Callback(e) \in Range(stack')
      BY <3>3
    <3>5. CompletionNoticed'
      BY <3>2, <3>4, NoticedNow, Zenon
    <3>6. Top' \in {"scan", "callback"}
      BY <3>2, <3>3 DEF Top
    <3> QED BY <2>4, <3>1, <3>5, <3>6, Zenon DEF IInv
  <2>7. CASE /\ Seen(e) /\ head' = Without(head, e) /\ state' = [state EXCEPT ![e] = "FREE"]
             /\ todo' = Tail(todo) /\ stack' = stack
    <3>1. Elements'
      BY <2>1, <2>2, <2>7, <2>ReleaseElements, Zenon
    <3>2. Top' \in {"scan", "callback"}
      BY <2>2, <2>7 DEF Top
    <3>3. e \in Range(head)
      BY <2>1, <2>3
    <3>4. Range(head') = Range(head) \ {e}
      BY <2>1, <2>7, <3>3, Removed, Zenon
    <3>5. ASSUME NEW x \in Range(head'), Finished(x)'
          PROVE  x \in Range(head) /\ Finished(x) /\ (x \in Range(todo) => x \in Range(todo'))
      <4>1. x \in Range(head) /\ x # e
        BY <3>4
      <4>2. x \in Elems
        BY <2>1, <4>1, SMTT(30) DEF Range
      <4>3. Finished(x)
        BY <2>1, <2>7, <3>5, <4>1, <4>2, SMTT(30) DEF Finished
      <4>4. x \in Range(todo) => x \in Range(todo')
        BY <2>3, <2>7, <4>1
      <4> QED BY <4>1, <4>3, <4>4
    <3>6. CompletionNoticed'
      BY <2>1, <2>2, <2>7, <3>5, NoticedStill, Zenon
    <3> QED BY <2>4, <3>1, <3>2, <3>6, Zenon DEF IInv
  <2> QED BY <2>5, <2>6, <2>7, Zenon DEF Visit

(* The completion function returns.                                        *)
<1>CallbackReturnStep.
    ASSUME IInv, CallbackReturn
    PROVE  IInv'
(* The completion function returns.                                        *)
  <2> USE <1>CallbackReturnStep
  <2>CallbackReturnElements.
      ASSUME Elements, Top = "callback", state' = [state EXCEPT ![Head(stack).elem] = "FREE"],
             stack' = Tail(stack), todo' = head, head' = head,
             worker' = worker, request_list' = request_list, job' = job
      PROVE  Elements'
    <3> USE <2>CallbackReturnElements
    <3> DEFINE e == Head(stack).elem
               s == Tail(stack)
    <3>1. /\ ElementTypes /\ Queued /\ Worked /\ Listed /\ JobsOK
          /\ head \in Seq(Elems) /\ Distinct(head)
          /\ Proper(stack) /\ state \in [Elems -> States]
          /\ CallbacksOK(stack, state) /\ CancelsOK(stack, state) /\ stack \in Seq(Frames)
      BY Zenon DEF Elements, ElementTypes, Listed, Proper
    <3>2. /\ e \in Elems /\ Extends(stack, s, Head(stack)) /\ Head(stack) \in Frames
          /\ Head(stack).fn = "callback" /\ state' = [state EXCEPT ![e] = "FREE"]
      BY TopFacts
    <3>3. Head(stack) = Callback(e)
      BY <3>2 DEF Frames, Callback
    <3> HIDE DEF e, s
    <3>4. Proper(s) /\ Calls("callback", Head(s).fn)
      <4>1. Head(stack).fn \notin {"loop", "free", "freed"}
        BY <3>2
      <4>2. Proper(s) /\ Calls(Head(stack).fn, Head(s).fn)
        BY <3>1, <3>2, <4>1, <1>ReturnProper, Zenon
      <4> QED BY <3>2, <4>2, Zenon
    <3>5. CallbacksOK(s, state) /\ Callback(e) \notin Range(s)
      BY <3>1, <3>2, <3>3, <1>CallbacksLess, Zenon
    <3>6. CancelsOK(s, state)
      BY <3>1, <3>2, <1>CancelsLess, Zenon
    <3>7. Head(s).fn = "scan"
      BY <3>4 DEF Calls
    <3>8. /\ state' \in [Elems -> States] /\ state'[e] = "FREE"
          /\ \A x \in Elems \ {e} : state'[x] = state[x]
          /\ CallbacksOK(s, state') /\ CancelsOK(s, state')
      <4>1. Head(s).fn # "cancel"
        BY <3>7
      <4> QED BY <3>1, <3>2, <3>4, <3>5, <3>6, <4>1, <1>Releases, Zenon
    <3>9. Range(stack) = Range(s) \cup {Callback(e)}
      BY <3>2, <3>3, Zenon DEF Extends
    <3>10. state[e] = "DONE" /\ e \notin Range(head)
      <4>1. Callback(e) \in Range(stack)
        BY <3>9
      <4> QED BY <3>1, <3>2, <4>1, RunsWhenDone, Zenon DEF Listed
    <3>11. Listed'
      <4>1. ASSUME NEW x \in Elems
            PROVE  x \in Range(head) <=> state'[x] # "FREE" /\ Callback(x) \notin Range(s)
        <5>1. x \in Range(head) <=> state[x] # "FREE" /\ Callback(x) \notin Range(stack)
          BY <3>1, Zenon DEF Listed
        <5>2. CASE x = e
          BY <3>8, <3>10, <5>2
        <5>3. CASE x # e
          <6>1. Callback(x) # Callback(e)
            BY <5>3 DEF Callback
          <6>2. Callback(x) \in Range(s) <=> Callback(x) \in Range(stack)
            BY <3>9, <6>1, Zenon
          <6>3. state'[x] = state[x]
            BY <3>8, <5>3
          <6> QED BY <5>1, <6>2, <6>3, Zenon
        <5> QED BY <5>2, <5>3
      <4> QED BY <3>1, <4>1, ZenonT(60) DEF Listed, Callback, s
    <3>12. Top' = "scan" /\ Head(stack)' = Head(s)
      BY <3>7, Zenon DEF Top, s
    <3>13. TodoOK'
      BY <3>1, <3>12, Zenon DEF TodoOK
    <3>14. Ahead'
      <4>1. ASSUME Head(s).elem # NULL, state'[Head(s).elem] # "FREE" PROVE Head(s).elem \in Range(head)
        <5>1. Head(s).elem \in Elems
          <6>1. s \in Seq(Frames) /\ s # << >>
            BY <3>4, Zenon DEF Proper
          <6>2. Head(s) \in Frames
            BY <6>1, SMTT(30)
          <6> QED BY <4>1, <6>2 DEF Frames
        <5>2. Callback(Head(s).elem) \notin Range(s)
          <6>1. s \in Seq(Frames) /\ s # << >>
            BY <3>4, Zenon DEF Proper
          <6>2. Extends(s, Tail(s), Head(s))
            BY <6>1, Popped, Zenon
          <6>3. Callback(Head(s).elem) \notin Range(Tail(s))
            <7>1. Head(s).fn \in {"scan", "cancel"}
              BY <3>7
            <7> QED BY <3>6, <4>1, <6>2, <7>1, <1>CancelsLess, Zenon
          <6>4. Range(s) = Range(Tail(s)) \cup {Head(s)}
            BY <6>2, Zenon DEF Extends
          <6>5. Callback(Head(s).elem) # Head(s)
            BY <3>7 DEF Callback
          <6> QED BY <6>3, <6>4, <6>5
        <5>3. Listed' /\ head' = head
          BY <3>11
        <5> QED BY <4>1, <5>1, <5>2, <5>3, ZenonT(30) DEF Listed, Callback, s
      <4> QED BY <3>12, <4>1, Zenon DEF Ahead
    <3>15. Queued'
      <4>1. ASSUME NEW x \in Elems PROVE state'[x] = "QUEUED" <=> x \in Range(request_list)
        <5>1. state[x] = "QUEUED" <=> x \in Range(request_list)
          BY <3>1, Zenon DEF Queued
        <5> QED BY <3>8, <3>10, <5>1
      <4> QED BY <3>1, <4>1, Zenon DEF Queued
    <3>16. Worked'
      <4>1. ASSUME NEW x \in Elems PROVE state'[x] = "ACTIVE" <=> state[x] = "ACTIVE"
        BY <3>8, <3>10
      <4> QED BY <3>1, <4>1, Zenon DEF Worked
    <3>17. ElementTypes' /\ JobsOK'
      BY <3>1, <3>8, Zenon DEF ElementTypes, JobsOK
    <3>18. Proper(stack)' /\ CallbacksOK(stack, state)' /\ CancelsOK(stack, state)'
      BY <3>4, <3>8, Zenon DEF s
    <3> QED BY <3>11, <3>13, <3>14, <3>15, <3>16, <3>17, <3>18, Zenon DEF Elements

  <2>1. Elements /\ Numbers /\ CompletionNoticed
    BY Zenon DEF IInv
  <2>2. /\ Top = "callback" /\ state' = [state EXCEPT ![Head(stack).elem] = "FREE"]
        /\ stack' = Tail(stack) /\ todo' = head /\ head' = head
        /\ worker' = worker /\ withCb' = withCb /\ request_list' = request_list /\ job' = job
        /\ sem' = sem /\ notifier' = notifier /\ bh' = bh
        /\ cur_threads' = cur_threads /\ idle_threads' = idle_threads
        /\ new_threads' = new_threads /\ pending_threads' = pending_threads
        /\ stopping' = stopping /\ asleep' = asleep
        /\ pending_cancellations' = pending_cancellations
    BY DEF CallbackReturn, Restart, lists, counters, signals
  <2>3. Elements'
    BY <2>1, <2>2, <2>CallbackReturnElements, Zenon
  <2>4. CompletionNoticed'
    BY <2>2, NoticedNow, Zenon
  <2>5. Top' = "scan"
    <3>1. Extends(stack, stack', Head(stack)) /\ Head(stack).fn = "callback" /\ Proper(stack)
      BY <2>1, <2>2, TopFacts, Zenon DEF Elements
    <3>2. Head(stack).fn \notin {"loop", "free", "freed"}
      BY <3>1
    <3>3. Calls("callback", Head(stack').fn)
      BY <3>1, <3>2, <1>ReturnProper, Zenon
    <3> QED BY <3>3 DEF Calls, Top
  <2>6. Numbers'
    <3>1. /\ Top \notin {"free", "freed"} /\ Top # "cancel" /\ Top # "post"
          /\ Top' \notin {"free", "freed"} /\ Top' # "cancel" /\ Top' # "post"
      BY <2>2, <2>5, SMTT(30)
    <3>2. /\ sem \in Nat /\ Count(worker, {"grabbed"}) \in Nat
          /\ sem + Count(worker, {"grabbed"}) + (IF Top = "post" THEN 1 ELSE 0) = Len(request_list)
          /\ pending_cancellations = (IF Top = "cancel" THEN 1 ELSE 0)
          /\ notifier \in BOOLEAN /\ asleep \in BOOLEAN
      BY <2>1, <3>1, <1>Tokens, Zenon
    <3>3. /\ sem' \in Nat /\ pending_cancellations' = (IF Top' = "cancel" THEN 1 ELSE 0)
          /\ sem' + Count(worker, {"grabbed"}) + (IF Top' = "post" THEN 1 ELSE 0)
                 = Len(request_list')
      BY <2>2, <3>1, <3>2
    <3> QED BY <2>1, <2>2, <3>1, <3>2, <3>3, <1>CallNumbers, Zenon
  <2> QED BY <2>3, <2>4, <2>6, Zenon DEF IInv

<1>1. ASSUME IInv, Post \/ Return \/ Drain \/ DrainDone \/ NotifierReady PROVE IInv'
  BY <1>1, <1>PostStep, <1>ReturnDrainStep, <1>DrainStep, <1>NotifierReadyStep, Zenon
<1>2. ASSUME IInv, Visit \/ CallbackReturn \/ CancelWake PROVE IInv'
  BY <1>2, <1>VisitStep, <1>CallbackReturnStep, <1>CancelWakeStep, Zenon
<1>3. ASSUME IInv, NEW e \in Elems, Cancel(e) \/ (\E cb \in BOOLEAN : Submit(e, cb)) PROVE IInv'
  BY <1>3, <1>CancelStep, <1>SubmitStep, Zenon
<1> QED BY <1>1, <1>2, <1>3, Zenon

-----------------------------------------------------------------------------
(* The beginning, and a step that changes nothing.                         *)

(* A new pool.                                                             *)
LEMMA InitHolds ==
    ASSUME Counting, Init
    PROVE  IInv
<1>1. /\ state = [e \in Elems |-> "FREE"] /\ withCb = {} /\ head = << >> /\ request_list = << >>
      /\ sem = 0 /\ notifier = FALSE /\ bh = FALSE /\ cur_threads = 0 /\ idle_threads = 0
      /\ new_threads = 0 /\ pending_threads = 0 /\ pending_cancellations = 0 /\ stopping = FALSE
      /\ worker = [w \in Workers |-> "none"] /\ job = [w \in Workers |-> NULL]
      /\ stack = <<[fn |-> "loop", elem |-> NULL]>> /\ todo = << >> /\ asleep = FALSE
  BY DEF Init
<1>2. Range(<< >>) = {} /\ Distinct(<< >>)
  BY DEF Range, Distinct
<1>3. /\ Proper(stack) /\ CallbacksOK(stack, state) /\ CancelsOK(stack, state) /\ Top = "loop"
      /\ \A g \in Range(stack) : g = [fn |-> "loop", elem |-> NULL]
  <2> DEFINE f == [fn |-> "loop", elem |-> NULL]
  <2>1. f \in Frames /\ f.fn = "loop" /\ f.fn \in {"loop", "free", "freed"} /\ stack = <<f>>
    BY <1>1 DEF Frames, Functs
  <2> HIDE DEF f
  <2>2. /\ Proper(stack) /\ CallbacksOK(stack, state) /\ CancelsOK(stack, state) /\ Head(stack) = f
        /\ \A g \in Range(stack) : g = f
    BY <2>1, Alone, Zenon
  <2> QED BY <2>1, <2>2, Zenon DEF Top, f
<1>4. /\ state \in [Elems -> States] /\ worker \in [Workers -> Places]
      /\ job \in [Workers -> Elems \cup {NULL}]
      /\ head \in Seq(Elems) /\ request_list \in Seq(Elems) /\ todo \in Seq(Elems)
      /\ \A e \in Elems : state[e] = "FREE" /\ \A w \in Workers : worker[w] = "none" /\ job[w] = NULL
  BY <1>1 DEF States, Places
<1>5. Elements
  <2>1. ElementTypes /\ JobsOK
    BY <1>1, <1>4, SMTT(30) DEF ElementTypes, JobsOK
  <2>2. TodoOK /\ Ahead
    BY <1>1, <1>2, <1>3, ZenonT(60) DEF TodoOK, Ahead
  <2>3. Queued /\ Listed
    BY <1>1, <1>2, <1>4 DEF Queued, Listed
  <2>4. Worked
    BY <1>1, <1>4, PoolAssumption DEF Worked
  <2> QED BY <1>3, <2>1, <2>2, <2>3, <2>4, Zenon DEF Elements
<1>6. ASSUME NEW P \in SUBSET Places, "none" \notin P PROVE Count(worker, P) = 0
  <2>1. {w \in Workers : worker[w] \in P} = {}
    BY <1>1, <1>6
  <2> QED BY <2>1, Zenon DEF Count, Counting
<1>7. /\ Count(worker, Working) = 0 /\ Count(worker, Idling) = 0
      /\ Count(worker, {"starting"}) = 0 /\ Count(worker, {"grabbed"}) = 0
  <2>1. /\ Working \in SUBSET Places /\ Idling \in SUBSET Places
        /\ {"starting"} \in SUBSET Places /\ {"grabbed"} \in SUBSET Places
        /\ "none" \notin Working /\ "none" \notin Idling
        /\ "none" \notin {"starting"} /\ "none" \notin {"grabbed"}
    BY DEF Working, Idling, Places
  <2> QED BY <1>6, <2>1, Zenon
<1>8. Numbers
  <2>1. FlagsOK
    BY <1>1, <1>3 DEF FlagsOK
  <2>2. WorkersCome
    BY <1>1 DEF WorkersCome
  <2>3. stopping \in BOOLEAN /\ notifier \in BOOLEAN /\ bh \in BOOLEAN /\ asleep \in BOOLEAN
    BY <1>1, Zenon
  <2>4. sem + Count(worker, {"grabbed"}) + (IF Top = "post" THEN 1 ELSE 0) = Len(request_list)
    BY <1>1, <1>3, <1>7
  <2>5. cur_threads \in 0 .. MaxThreads /\ cur_threads = new_threads + Count(worker, Working)
        /\ sem \in Nat /\ idle_threads \in Nat /\ new_threads \in Nat /\ pending_threads \in Nat
        /\ pending_cancellations \in 0 .. 1
    BY <1>1, <1>7, PoolAssumption, SMTT(30)
  <2>6. withCb \subseteq Elems
    BY <1>1
  <2> QED BY <1>1, <1>7, <2>1, <2>2, <2>3, <2>4, <2>5, <2>6, ZenonT(30) DEF Numbers
<1>9. CompletionNoticed
  BY <1>1, <1>2, Zenon DEF CompletionNoticed
<1> QED BY <1>5, <1>8, <1>9, Zenon DEF IInv

(* Nothing happens.                                                        *)
LEMMA Stutters == ASSUME IInv, UNCHANGED vars PROVE IInv'
<1>1. Elements /\ Numbers /\ CompletionNoticed /\ worker \in [Workers -> Places]
  BY Zenon DEF IInv, Elements, ElementTypes
<1>2. /\ worker' = worker /\ state' = state /\ withCb' = withCb /\ head' = head
      /\ request_list' = request_list /\ job' = job /\ sem' = sem /\ stack' = stack
      /\ bh' = bh /\ cur_threads' = cur_threads /\ idle_threads' = idle_threads
      /\ new_threads' = new_threads /\ pending_threads' = pending_threads /\ todo' = todo
      /\ stopping' = stopping /\ notifier' = notifier /\ asleep' = asleep
      /\ pending_cancellations' = pending_cancellations /\ Top' = Top
  BY Zenon DEF vars, elements, lists, counters, signals, caller, Top
<1>3. Elements'
  BY <1>1, <1>2, ThreadsOnly, Zenon
<1>4. Numbers'
  <2>1. FlagsOK' /\ WorkersCome'
    BY <1>1, <1>2, Zenon DEF Numbers, FlagsOK, WorkersCome
  <2> QED BY <1>1, <1>2, <2>1, Zenon DEF Numbers
<1>5. CompletionNoticed'
  <2>1. \A x : Finished(x)' <=> Finished(x)
    BY <1>2, Zenon DEF Finished
  <2> QED BY <1>1, <1>2, <2>1, NoticedStill, Zenon
<1> QED BY <1>3, <1>4, <1>5, Zenon DEF IInv

(* What the invariant says in the words of the properties.                 *)
LEMMA IInvAgrees == IInv => PoolAgrees /\ TokenPerRequest
<1> SUFFICES ASSUME IInv PROVE PoolAgrees /\ TokenPerRequest
  OBVIOUS
<1>1. ThreadsCounted
  BY Zenon DEF IInv, Numbers, ThreadsCounted, At, Count, Working, Idling
<1>2. TokenPerRequest
  BY Zenon DEF IInv, Numbers, TokenPerRequest, At, Count
<1>3. TypeOK /\ WorkersCome
  BY Zenon DEF IInv, Elements, Numbers, ElementTypes, Proper, TypeOK
<1>4. ListsAgree
  BY Zenon DEF IInv, Elements, ListsAgree, Queued, Worked, Listed, Callback
<1> QED BY <1>1, <1>2, <1>3, <1>4, Zenon DEF PoolAgrees

-----------------------------------------------------------------------------
(* The theorems.                                                           *)

Lib == INSTANCE FiniteSetTheorems

(* Cardinalities are what the proofs take them to be.                      *)
LEMMA CountingHolds == Counting
<1>1. \A S : IsFiniteSet(S) <=> Lib!IsFiniteSet(S)
  BY Zenon DEF IsFiniteSet, Lib!IsFiniteSet
<1>2. \A S : Cardinality(S) = Lib!Cardinality(S)
  BY Zenon DEF Cardinality, Lib!Cardinality
<1>3. Cardinality({}) = 0
  BY <1>2, Lib!FS_EmptySet, Zenon
<1>4. \A S : IsFiniteSet(S) => Cardinality(S) \in Nat /\ (Cardinality(S) = 0 => S = {})
  BY <1>1, <1>2, Lib!FS_EmptySet, Lib!FS_CardinalityType, Zenon
<1>5. \A S : IsFiniteSet(S) =>
          \A T \in SUBSET S : IsFiniteSet(T) /\ Cardinality(T) <= Cardinality(S)
  BY <1>1, <1>2, Lib!FS_Subset, Zenon
<1>6. \A S, x : IsFiniteSet(S) =>
          IsFiniteSet(S \cup {x}) /\ (x \notin S => Cardinality(S \cup {x}) = Cardinality(S) + 1)
  BY <1>1, <1>2, Lib!FS_AddElement, Zenon
<1>7. \A S, x : IsFiniteSet(S) =>
          IsFiniteSet(S \ {x}) /\ (x \in S => Cardinality(S \ {x}) = Cardinality(S) - 1)
  BY <1>1, <1>2, Lib!FS_RemoveElement, Zenon
<1> QED BY <1>3, <1>4, <1>5, <1>6, <1>7, Zenon DEF Counting

(* The invariant of the thread pool holds: calls nest as they may, no      *)
(* completion function runs twice, a walk for a cancelled element has it   *)
(* ahead, and lists, states, counters and the semaphore agree.             *)
THEOREM Invariance == Spec => []IInv
<1> USE CountingHolds
<1>1. IInv /\ [Next]_vars => IInv'
  <2> SUFFICES ASSUME IInv, [Next]_vars PROVE IInv'
    OBVIOUS
  <2>1. ASSUME NEW w \in Workers, WorkerStep(w) PROVE IInv'
    BY <2>1, WorkersKeep, Zenon
  <2>2. ASSUME NEW e \in Elems, Cancel(e) \/ (\E cb \in BOOLEAN : Submit(e, cb)) PROVE IInv'
    BY <2>2, CallsKeep, Zenon
  <2>3. ASSUME Post \/ SpawnThreadBh \/ NotifierReady \/ Visit \/ CallbackReturn \/ Return
        PROVE  IInv'
    BY <2>3, WorkersKeep, CallsKeep, Zenon
  <2>4. ASSUME CancelWake \/ Drain \/ DrainDone \/ Free \/ FreeWake \/ New PROVE IInv'
    BY <2>4, CallsKeep, FreesKeep, Zenon
  <2>5. ASSUME UNCHANGED vars PROVE IInv'
    BY <2>5, Stutters, Zenon
  <2> QED BY <2>1, <2>2, <2>3, <2>4, <2>5, Zenon DEF Next
<1>2. Init => IInv
  BY InitHolds
<1> QED BY <1>1, <1>2, PTL DEF Spec

(* PoolAgrees: whenever pool->lock is free, request_list holds what is     *)
(* queued, each active element has one worker, head has every element that *)
(* is not released or in its callback, the thread counters are true, and   *)
(* threads come for what is queued.                                        *)
THEOREM PoolAgreesHolds == Spec => []PoolAgrees
<1>1. IInv => PoolAgrees
  BY IInvAgrees, Zenon
<1> QED BY <1>1, Invariance, PTL

(* TokenPerRequest: pool->sem counts the queued requests for which no      *)
(* worker is on its way, though qemu_sem_post comes after the lock is      *)
(* released and thread_pool_cancel takes tokens away.                      *)
THEOREM TokenPerRequestHolds == Spec => []TokenPerRequest
<1>1. IInv => TokenPerRequest
  BY IInvAgrees, Zenon
<1> QED BY <1>1, Invariance, PTL

(* CompletionNoticed: an element that has finished is never forgotten by   *)
(* event_notifier_ready, however its callbacks nest.                       *)
THEOREM CompletionNoticedHolds == Spec => []CompletionNoticed
<1>1. IInv => CompletionNoticed
  BY Zenon DEF IInv
<1> QED BY <1>1, Invariance, PTL

(* FreedIsQuiet: thread_pool_free frees the pool when no thread is left.   *)
THEOREM FreedIsQuietHolds == Spec => []FreedIsQuiet
<1>1. IInv => FreedIsQuiet
  <2> SUFFICES ASSUME IInv, Top = "freed" PROVE At({"none"}) = MaxThreads
    BY DEF FreedIsQuiet
  <2>1. Elements /\ Numbers /\ worker \in [Workers -> Places]
    BY Zenon DEF IInv, Elements, ElementTypes
  <2>2. Count(worker, Working) \in Nat /\ {"none"} \in SUBSET Places
    <3>1. Working \in SUBSET Places /\ {"none"} \in SUBSET Places
      BY DEF Working, Places
    <3> QED BY <2>1, <3>1, CountingHolds, Counts, Zenon
  <2>3. Count(worker, Working) = 0
    BY <2>1, <2>2 DEF Numbers, FlagsOK
  <2>4. \A w \in Workers : worker[w] \in {"none"}
    BY <2>1, <2>3, CountingHolds, NoThreads, SMTT(30)
  <2>5. Count(worker, {"none"}) = MaxThreads
    BY <2>1, <2>2, <2>4, CountingHolds, Counts, Zenon
  <2> QED BY <2>5, Zenon DEF At, Count
<1> QED BY <1>1, Invariance, PTL

(* CancelReleases: the call of event_notifier_ready that                   *)
(* thread_pool_cancel makes returns only when the element is released,     *)
(* though callbacks run, submit and cancel in between.                     *)
THEOREM CancelReleasesHolds == Spec => CancelReleases
<1> DEFINE A == \A e \in Elems : Head(stack) = [fn |-> "scan", elem |-> e] /\ stack' = Tail(stack)
                    => state[e] = "FREE"
<1>1. IInv /\ Next => A
  <2> SUFFICES ASSUME IInv, Next, NEW e \in Elems, Head(stack) = [fn |-> "scan", elem |-> e],
                      stack' = Tail(stack)
               PROVE  state[e] = "FREE"
    OBVIOUS
  <2>1. stack \in Seq(Frames) /\ stack # << >> /\ Ahead /\ Top = "scan" /\ Head(stack).elem = e
    BY DEF IInv, Elements, Proper, Top
  <2>2. stack' # stack /\ \A f : stack' # <<f>> \o stack
    BY <2>1
  <2>3. \A w \in Workers : ~WorkerStep(w)
    BY <2>2, Zenon DEF WorkerStep, Start, Grab, Timeout, Take, TimedOut, Done, Finish, caller
  <2>4. \A x \in Elems : ~Cancel(x) /\ \A cb \in BOOLEAN : ~Submit(x, cb)
    BY <2>1, Zenon DEF Cancel, Submit, May
  <2>5. ~Visit
    BY <2>2, Zenon DEF Visit, Push
  <2>6. /\ ~Post /\ ~SpawnThreadBh /\ ~NotifierReady /\ ~CallbackReturn /\ ~CancelWake
        /\ ~Drain /\ ~DrainDone /\ ~Free /\ ~FreeWake /\ ~New
    BY <2>1, Zenon DEF Post, SpawnThreadBh, NotifierReady, CallbackReturn, CancelWake, Drain, May,
                DrainDone, Free, FreeWake, New
  <2>7. Return
    BY <2>3, <2>4, <2>5, <2>6, ZenonT(60) DEF Next
  <2>8. Range(todo) = {}
    BY <2>7 DEF Return, Range
  <2>9. e # NULL
    BY PoolAssumption
  <2>10. state[Head(stack).elem] = "FREE" \/ Head(stack).elem \in Range(todo)
    BY <2>1, <2>9, Zenon DEF Ahead
  <2> QED BY <2>1, <2>8, <2>10, Zenon
<1>2. IInv /\ [Next]_vars => [A]_vars
  BY <1>1
<1> QED BY <1>2, Invariance, PTL DEF Spec, CancelReleases

=============================================================================
