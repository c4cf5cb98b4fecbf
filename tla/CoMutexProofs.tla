--------------------------- MODULE CoMutexProofs ---------------------------
(***************************************************************************)
(* The safety of the coroutine mutex for any set of coroutines.            *)
(***************************************************************************)
EXTENDS CoMutex, TLAPS

-----------------------------------------------------------------------------
(* The queue of the waiting coroutines.                                    *)

(* What qemu_co_queue_wait does to the set of queued coroutines.           *)
LEMMA WaitRange ==
    ASSUME NEW q \in Seq(Co), NEW c \in Co
    PROVE  /\ QueueWait(q, c) \in Seq(Co)
           /\ Range(QueueWait(q, c)) = Range(q) \cup {c}
           /\ QueueWait(q, c) # << >>
<1> DEFINE r == QueueWait(q, c)
<1>1. r \in Seq(Co) /\ Len(r) = Len(q) + 1 /\ r[Len(r)] = c
      /\ \A i \in 1 .. Len(q) : r[i] = q[i]
  BY DEF QueueWait
<1>2. DOMAIN r = 1 .. (Len(q) + 1) /\ DOMAIN q = 1 .. Len(q) /\ Len(q) \in Nat
  BY <1>1
<1>3. Range(r) = Range(q) \cup {c}
  BY <1>1, <1>2 DEF Range
<1> QED BY <1>1, <1>3

(* Appending a coroutine that is not queued keeps the entries distinct.    *)
LEMMA WaitDistinct ==
    ASSUME NEW q \in Seq(Co), NEW c \in Co, c \notin Range(q),
           \A i, j \in DOMAIN q : q[i] = q[j] => i = j
    PROVE  \A i, j \in DOMAIN QueueWait(q, c) :
               QueueWait(q, c)[i] = QueueWait(q, c)[j] => i = j
<1> DEFINE r == QueueWait(q, c)
<1>1. r \in Seq(Co) /\ Len(r) = Len(q) + 1 /\ r[Len(r)] = c
      /\ \A i \in 1 .. Len(q) : r[i] = q[i]
  BY DEF QueueWait
<1>2. DOMAIN r = 1 .. (Len(q) + 1) /\ DOMAIN q = 1 .. Len(q) /\ Len(q) \in Nat
  BY <1>1
<1>3. \A i \in 1 .. Len(q) : r[i] # c
  BY <1>1, <1>2 DEF Range
<1> QED BY <1>1, <1>2, <1>3

(* What qemu_co_queue_next does: the entries it moves and those it leaves  *)
(* are together the old queue, without overlap.                            *)
LEMMA NextSplits ==
    ASSUME NEW q \in Seq(Co),
           \A i, j \in DOMAIN q : q[i] = q[j] => i = j
    PROVE  /\ NextRest(q) \in Seq(Co)
           /\ Range(NextEntries(q)) \cup Range(NextRest(q)) = Range(q)
           /\ Range(NextEntries(q)) \cap Range(NextRest(q)) = {}
           /\ q # << >> => Range(NextEntries(q)) # {}
           /\ q = << >> => NextRest(q) = << >>
           /\ \A i, j \in DOMAIN NextRest(q) :
                  NextRest(q)[i] = NextRest(q)[j] => i = j
<1>1. CASE q = << >>
  BY <1>1 DEF NextRest, NextEntries, QueueEmpty, Range
<1>2. CASE q # << >>
  <2> DEFINE t == Tail(q)
  <2>1. t \in Seq(Co) /\ Len(t) = Len(q) - 1 /\ Len(q) \in Nat \ {0}
        /\ \A i \in 1 .. Len(t) : t[i] = q[i + 1]
    BY <1>2
  <2>2. DOMAIN t = 1 .. (Len(q) - 1) /\ DOMAIN q = 1 .. Len(q) /\ Head(q) = q[1]
    BY <2>1, <1>2
  <2>3. \A x \in Range(t) : \E i \in 2 .. Len(q) : x = q[i]
    <3> SUFFICES ASSUME NEW i \in DOMAIN t PROVE \E k \in 2 .. Len(q) : t[i] = q[k]
      BY DEF Range
    <3> WITNESS i + 1 \in 2 .. Len(q)
    <3> QED BY <2>1, <2>2
  <2>4. \A i \in 2 .. Len(q) : q[i] \in Range(t)
    <3> TAKE i \in 2 .. Len(q)
    <3>1. i - 1 \in DOMAIN t /\ t[i - 1] = q[i]
      BY <2>1, <2>2
    <3> QED BY <3>1, Zenon DEF Range
  <2>5. Range(<<Head(q)>>) = {q[1]}
    BY <2>2 DEF Range
  <2>6. NextRest(q) = t /\ NextEntries(q) = <<Head(q)>>
    BY <1>2 DEF NextRest, NextEntries, QueueEmpty
  <2>7. {q[1]} \cup Range(t) = Range(q)
    <3>1. Range(t) \subseteq Range(q) /\ q[1] \in Range(q)
      BY <2>1, <2>2, <2>3 DEF Range
    <3>2. ASSUME NEW i \in DOMAIN q PROVE q[i] \in {q[1]} \cup Range(t)
      BY <2>1, <2>2, <2>4
    <3> QED BY <3>1, <3>2 DEF Range
  <2>8. q[1] \notin Range(t)
    BY <2>1, <2>2, <2>3
  <2>9. \A i, j \in DOMAIN t : t[i] = t[j] => i = j
    BY <2>1, <2>2
  <2> QED BY <1>2, <2>1, <2>5, <2>6, <2>7, <2>8, <2>9, SMTT(60)
<1> QED BY <1>1, <1>2

-----------------------------------------------------------------------------
(* The inductive invariant: a wake-up can be lost only if a queued         *)
(* coroutine is also somewhere else, or the flag and the owners disagree,  *)
(* so the invariants are proved together.                                  *)
IInv == TypeOK /\ LinkedOnce /\ NoLostWakeup /\ OneOwner

(* No coroutine is lost, doubled or forgotten by the mutex and at most one *)
(* owns it, whatever the number of coroutines and the order of wake-ups.   *)
THEOREM Invariance == Spec => []IInv
<1>1. Init => IInv
  <2> SUFFICES ASSUME Init PROVE IInv
    OBVIOUS
  <2>1. Range(queue) = {} /\ DOMAIN queue = {} /\ queue \in Seq(Co)
    BY DEF Init, Range
  <2>2. TypeOK
    BY <2>1, Zenon DEF Init, TypeOK, States
  <2>3. LinkedOnce
    BY <2>1 DEF Init, LinkedOnce
  <2> QED
    BY <2>2, <2>3 DEF Init, IInv, NoLostWakeup, OneOwner
<1>2. IInv /\ [Next]_vars => IInv'
  <2> SUFFICES ASSUME IInv, [Next]_vars PROVE IInv'
    OBVIOUS
  <2> USE DEF IInv, TypeOK, States
  <2>1. ASSUME NEW c \in Co, c \notin Range(queue), state[c] # "holder",
               LockLoop(c), woken' = woken \ {c}
        PROVE  IInv'
    <3>1. CASE locked
      <4>1. /\ locked' = locked /\ queue' = QueueWait(queue, c)
            /\ state' = [state EXCEPT ![c] = "waiting"]
        BY <2>1, <3>1 DEF LockLoop
      <4>2. /\ queue' \in Seq(Co) /\ Range(queue') = Range(queue) \cup {c}
            /\ queue' # << >>
        BY <4>1, WaitRange, Zenon
      <4>3. \A i, j \in DOMAIN queue' : queue'[i] = queue'[j] => i = j
        BY <2>1, <4>1, WaitDistinct DEF LinkedOnce
      <4>4. LinkedOnce'
        BY <2>1, <4>1, <4>2, <4>3 DEF LinkedOnce
      <4> QED BY <2>1, <3>1, <4>1, <4>2, <4>4 DEF NoLostWakeup, OneOwner
    <3>2. CASE ~locked
      <4>1. /\ locked' = TRUE /\ queue' = queue
            /\ state' = [state EXCEPT ![c] = "holder"]
        BY <2>1, <3>2 DEF LockLoop
      <4>2. LinkedOnce'
        BY <2>1, <4>1 DEF LinkedOnce
      <4> QED BY <2>1, <3>2, <4>1, <4>2 DEF NoLostWakeup, OneOwner
    <3> QED BY <3>1, <3>2
  <2>2. ASSUME NEW c \in Co, Lock(c) PROVE IInv'
    <3>1. c \notin Range(queue) /\ c \notin woken
      BY <2>2 DEF Lock, LinkedOnce
    <3> QED BY <2>1, <2>2, <3>1 DEF Lock
  <2>3. ASSUME NEW c \in Co, Resume(c) PROVE IInv'
    <3>1. c \notin Range(queue) /\ state[c] = "waiting"
      BY <2>3 DEF Resume, LinkedOnce
    <3> QED BY <2>1, <2>3, <3>1 DEF Resume
  <2>4. ASSUME NEW c \in Co, Unlock(c) PROVE IInv'
    <3> DEFINE moved == Range(NextEntries(queue))
    <3>1. /\ queue' \in Seq(Co)
          /\ moved \cup Range(queue') = Range(queue)
          /\ moved \cap Range(queue') = {}
          /\ queue # << >> => moved # {}
          /\ queue = << >> => queue' = << >>
          /\ \A i, j \in DOMAIN queue' : queue'[i] = queue'[j] => i = j
      BY <2>4, NextSplits DEF Unlock, LinkedOnce
    <3>2. Range(queue) \subseteq Co
      BY DEF Range
    <3>3. /\ locked' = FALSE /\ woken' = woken \cup moved
          /\ state' = [state EXCEPT ![c] = "out"] /\ state[c] = "holder"
      BY <2>4 DEF Unlock
    <3> HIDE DEF moved
    <3>4. TypeOK'
      BY <3>1, <3>2, <3>3, Zenon
    <3>5. LinkedOnce'
      BY <3>1, <3>3 DEF LinkedOnce
    <3>6. NoLostWakeup' /\ OneOwner'
      BY <3>1, <3>3 DEF NoLostWakeup, OneOwner
    <3> QED BY <3>4, <3>5, <3>6
  <2>5. CASE UNCHANGED vars
    BY <2>5 DEF vars, LinkedOnce, NoLostWakeup, OneOwner
  <2> QED BY <2>2, <2>3, <2>4, <2>5 DEF Next
<1> QED BY <1>1, <1>2, PTL DEF Spec

(* The invariants of the mutex that matter to its users: each yielded      *)
(* coroutine stays reachable, and a free lock with waiters wakes one.      *)
THEOREM Safety == Spec => [](LinkedOnce /\ NoLostWakeup /\ OneOwner)
<1>1. IInv => LinkedOnce /\ NoLostWakeup /\ OneOwner
  BY DEF IInv
<1> QED BY <1>1, Invariance, PTL

(* The mutex implements RWLock with writers only.                          *)
THEOREM Refinement == Spec => ImplementsLock
<1> DEFINE Owners == {c \in Co : state[c] = "holder"}
<1>1. Init => Abstract!Init
  BY DEF Init, Abstract!Init
<1>2. IInv /\ [Next]_vars => [Abstract!Next]_(Abstract!vars)
  <2> SUFFICES ASSUME IInv, [Next]_vars
               PROVE  Abstract!Next \/ UNCHANGED Owners
    BY DEF Abstract!vars
  <2> USE DEF IInv, TypeOK, States
  <2>1. ASSUME NEW c \in Co, LockLoop(c), state[c] # "holder"
        PROVE  Abstract!AcquireWrite(c) \/ UNCHANGED Owners
    BY <2>1 DEF LockLoop, OneOwner, Abstract!AcquireWrite
  <2>2. ASSUME NEW c \in Co, Unlock(c) PROVE Abstract!Release(c)
    BY <2>2 DEF Unlock, Abstract!Release
  <2>3. CASE UNCHANGED vars
    BY <2>3 DEF vars
  <2>4. ASSUME NEW c \in Co, Resume(c) PROVE state[c] # "holder"
    BY <2>4 DEF Resume, LinkedOnce
  <2> QED BY <2>1, <2>2, <2>3, <2>4 DEF Next, Lock, Resume, Abstract!Next
<1> QED BY <1>1, <1>2, Invariance, PTL
        DEF Spec, ImplementsLock, Abstract!Spec

=============================================================================
