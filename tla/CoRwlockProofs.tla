--------------------------- MODULE CoRwlockProofs ---------------------------
(***************************************************************************)
(* The safety of the coroutine reader/writer lock for any finite set of    *)
(* coroutines, and that it implements RWLock.                              *)
(***************************************************************************)
EXTENDS CoRwlock, FiniteSetTheorems, TLAPS

-----------------------------------------------------------------------------
(* The queue of the waiting coroutines.                                    *)

(* What qemu_co_queue_wait does to the set of queued coroutines.           *)
LEMMA WaitRange ==
    ASSUME NEW q \in Seq(Co), NEW c \in Co
    PROVE  /\ QueueWait(q, c) \in Seq(Co)
           /\ Range(QueueWait(q, c)) = Range(q) \cup {c}
           /\ QueueWait(q, c) # << >>
<1> DEFINE r == QueueWait(q, c)
<1>1. r \in Seq(Co) /\ Len(r) = Len(q) + 1 /\ r[Len(r)] = c
      /\ \A i \in 1 .. Len(q) : r[i] = q[i]
  BY DEF QueueWait
<1>2. DOMAIN r = 1 .. (Len(q) + 1) /\ DOMAIN q = 1 .. Len(q) /\ Len(q) \in Nat
  BY <1>1
<1>3. Range(r) = Range(q) \cup {c}
  BY <1>1, <1>2 DEF Range
<1> QED BY <1>1, <1>3

(* Appending a coroutine that is not queued keeps the entries distinct.    *)
LEMMA WaitDistinct ==
    ASSUME NEW q \in Seq(Co), NEW c \in Co, c \notin Range(q),
           \A i, j \in DOMAIN q : q[i] = q[j] => i = j
    PROVE  \A i, j \in DOMAIN QueueWait(q, c) :
               QueueWait(q, c)[i] = QueueWait(q, c)[j] => i = j
<1> DEFINE r == QueueWait(q, c)
<1>1. r \in Seq(Co) /\ Len(r) = Len(q) + 1 /\ r[Len(r)] = c
      /\ \A i \in 1 .. Len(q) : r[i] = q[i]
  BY DEF QueueWait
<1>2. DOMAIN r = 1 .. (Len(q) + 1) /\ DOMAIN q = 1 .. Len(q) /\ Len(q) \in Nat
  BY <1>1
<1>3. \A i \in 1 .. Len(q) : r[i] # c
  BY <1>1, <1>2 DEF Range
<1> QED BY <1>1, <1>2, <1>3

(* What qemu_co_queue_next does: the entries it moves and those it leaves  *)
(* are together the old queue, without overlap.                            *)
LEMMA NextSplits ==
    ASSUME NEW q \in Seq(Co),
           \A i, j \in DOMAIN q : q[i] = q[j] => i = j
    PROVE  /\ NextRest(q) \in Seq(Co)
           /\ Range(NextEntries(q)) \cup Range(NextRest(q)) = Range(q)
           /\ Range(NextEntries(q)) \cap Range(NextRest(q)) = {}
           /\ q # << >> => Range(NextEntries(q)) # {}
           /\ q = << >> => NextRest(q) = << >>
           /\ \A i, j \in DOMAIN NextRest(q) :
                  NextRest(q)[i] = NextRest(q)[j] => i = j
<1>1. CASE q = << >>
  BY <1>1 DEF NextRest, NextEntries, QueueEmpty, Range
<1>2. CASE q # << >>
  <2> DEFINE t == Tail(q)
  <2>1. t \in Seq(Co) /\ Len(t) = Len(q) - 1 /\ Len(q) \in Nat \ {0}
        /\ \A i \in 1 .. Len(t) : t[i] = q[i + 1]
    BY <1>2
  <2>2. DOMAIN t = 1 .. (Len(q) - 1) /\ DOMAIN q = 1 .. Len(q) /\ Head(q) = q[1]
    BY <2>1, <1>2
  <2>3. \A x \in Range(t) : \E i \in 2 .. Len(q) : x = q[i]
    <3> SUFFICES ASSUME NEW i \in DOMAIN t PROVE \E k \in 2 .. Len(q) : t[i] = q[k]
      BY DEF Range
    <3> WITNESS i + 1 \in 2 .. Len(q)
    <3> QED BY <2>1, <2>2
  <2>4. \A i \in 2 .. Len(q) : q[i] \in Range(t)
    <3> TAKE i \in 2 .. Len(q)
    <3>1. i - 1 \in DOMAIN t /\ t[i - 1] = q[i]
      BY <2>1, <2>2
    <3> QED BY <3>1, Zenon DEF Range
  <2>5. Range(<<Head(q)>>) = {q[1]}
    BY <2>2 DEF Range
  <2>6. NextRest(q) = t /\ NextEntries(q) = <<Head(q)>>
    BY <1>2 DEF NextRest, NextEntries, QueueEmpty
  <2>7. {q[1]} \cup Range(t) = Range(q)
    <3>1. Range(t) \subseteq Range(q) /\ q[1] \in Range(q)
      BY <2>1, <2>2, <2>3 DEF Range
    <3>2. ASSUME NEW i \in DOMAIN q PROVE q[i] \in {q[1]} \cup Range(t)
      BY <2>1, <2>2, <2>4
    <3> QED BY <3>1, <3>2 DEF Range
  <2>8. q[1] \notin Range(t)
    BY <2>1, <2>2, <2>3
  <2>9. \A i, j \in DOMAIN t : t[i] = t[j] => i = j
    BY <2>1, <2>2
  <2> QED BY <1>2, <2>1, <2>5, <2>6, <2>7, <2>8, <2>9, SMTT(60)
<1> QED BY <1>1, <1>2

-----------------------------------------------------------------------------
(* The owners and the counters agree, lists are well formed, no wake-up is *)
(* lost: each conjunct is needed to keep another one.                      *)
IInv == /\ TypeOK
        /\ LinkedOnce
        /\ OwnersCounted
        /\ QueuedReaderHasWriter
        /\ NoLostWakeup

(* A coroutine that enters as a reader raises the number of readers by one *)
(* and one that leaves lowers it by one.                                   *)
LEMMA CountReaders ==
    ASSUME NEW R \in SUBSET Co, NEW c \in Co
    PROVE  /\ Cardinality(R) \in Nat
           /\ c \notin R => Cardinality(R \cup {c}) = Cardinality(R) + 1
           /\ c \in R => Cardinality(R \ {c}) = Cardinality(R) - 1
           /\ Cardinality(R) = 0 <=> R = {}
<1>1. IsFiniteSet(R)
  BY CoAssumption, FS_Subset
<1> QED BY <1>1, FS_AddElement, FS_RemoveElement, FS_CardinalityType, FS_EmptySet, Zenon

(* A coroutine that yields in qemu_co_queue_wait is linked once, and the   *)
(* lock's counters still describe the owners.                              *)
LEMMA Queued ==
    ASSUME NEW c \in Co, NEW w \in Waiting, TypeOK, LinkedOnce,
           c \notin Range(queue), state[c] \notin {"reading", "writing"},
           queue' = QueueWait(queue, c), woken' = woken \ {c},
           state' = [state EXCEPT ![c] = w]
    PROVE  /\ queue' \in Seq(Co) /\ Range(queue') = Range(queue) \cup {c}
           /\ LinkedOnce'
           /\ Readers' = Readers /\ Writers' = Writers
           /\ \A i \in DOMAIN queue' : 
                 queue'[i] = c \/ \E j \in DOMAIN queue : queue'[i] = queue[j]
<1>1. queue \in Seq(Co) /\ woken \subseteq Co /\ state \in [Co -> States]
  BY DEF TypeOK
<1>2. queue' \in Seq(Co) /\ Range(queue') = Range(queue) \cup {c}
  BY <1>1, WaitRange, Zenon
<1>3. \A i, j \in DOMAIN queue' : queue'[i] = queue'[j] => i = j
  BY <1>1, WaitDistinct DEF LinkedOnce
<1>4. LinkedOnce'
  BY <1>1, <1>2, <1>3 DEF LinkedOnce, Waiting, States
<1>5. Readers' = Readers /\ Writers' = Writers
  BY <1>1 DEF Readers, Writers, Waiting, States
<1>6. ASSUME NEW i \in DOMAIN queue'
      PROVE  queue'[i] = c \/ \E j \in DOMAIN queue : queue'[i] = queue[j]
  <2>1. queue'[i] \in Range(queue) \cup {c}
    BY <1>2, Zenon DEF Range
  <2> QED BY <2>1 DEF Range
<1> QED BY <1>2, <1>4, <1>5, <1>6

(* qemu_co_rwlock_rdlock, first call or after a wake-up.                   *)
LEMMA RdlockLoopKeepsIInv ==
    ASSUME NEW c \in Co, IInv, c \notin Range(queue),
           state[c] \notin {"reading", "writing"},
           RdlockLoop(c), woken' = woken \ {c}
    PROVE  IInv'
<1> USE DEF IInv, TypeOK, States, Waiting
<1>1. CASE writer
  <2>1. /\ writer' = writer /\ reader' = reader /\ queue' = QueueWait(queue, c)
        /\ state' = [state EXCEPT ![c] = "rdwait"]
    BY <1>1 DEF RdlockLoop
  <2>2. /\ queue' \in Seq(Co) /\ Range(queue') = Range(queue) \cup {c}
        /\ LinkedOnce'
        /\ Readers' = Readers /\ Writers' = Writers
        /\ \A i \in DOMAIN queue' :
              queue'[i] = c \/ \E j \in DOMAIN queue : queue'[i] = queue[j]
    BY <2>1, Queued, Zenon
  <2> QED
    BY <1>1, <2>1, <2>2
    DEF OwnersCounted, QueuedReaderHasWriter, NoLostWakeup
<1>2. CASE ~writer
  <2>1. /\ writer' = writer /\ reader' = reader + 1 /\ queue' = queue
        /\ state' = [state EXCEPT ![c] = "reading"]
    BY <1>2 DEF RdlockLoop
  <2>2. LinkedOnce'
    BY <2>1 DEF LinkedOnce
  <2>3. /\ Readers' = Readers \cup {c} /\ Writers' = Writers
        /\ c \notin Readers /\ Readers \in SUBSET Co
    BY <2>1 DEF Readers, Writers
  <2>4. OwnersCounted'
    BY <1>2, <2>1, <2>3, CountReaders DEF OwnersCounted
  <2>5. QueuedReaderHasWriter'
    BY <1>2, <2>1 DEF QueuedReaderHasWriter, LinkedOnce, Range
  <2> QED
    BY <1>2, <2>1, <2>2, <2>4, <2>5 DEF NoLostWakeup
<1> QED BY <1>1, <1>2

(* qemu_co_rwlock_wrlock, first call or after a wake-up.                   *)
LEMMA WrlockLoopKeepsIInv ==
    ASSUME NEW c \in Co, IInv, c \notin Range(queue),
           state[c] \notin {"reading", "writing"},
           WrlockLoop(c), woken' = woken \ {c}
    PROVE  IInv'
<1> USE DEF IInv, TypeOK, States, Waiting
<1>1. CASE writer \/ reader > 0
  <2>1. /\ writer' = writer /\ reader' = reader /\ queue' = QueueWait(queue, c)
        /\ state' = [state EXCEPT ![c] = "wrwait"]
    BY <1>1 DEF WrlockLoop
  <2>2. /\ queue' \in Seq(Co) /\ Range(queue') = Range(queue) \cup {c}
        /\ LinkedOnce'
        /\ Readers' = Readers /\ Writers' = Writers
        /\ \A i \in DOMAIN queue' :
              queue'[i] = c \/ \E j \in DOMAIN queue : queue'[i] = queue[j]
    BY <2>1, Queued, Zenon
  <2>3. ASSUME NEW i \in DOMAIN queue', state'[queue'[i]] = "rdwait" PROVE writer'
    <3>1. PICK j \in DOMAIN queue : queue'[i] = queue[j]
      BY <2>1, <2>2, <2>3
    <3>2. queue[j] \in Co
      OBVIOUS
    <3>3. state[queue[j]] = "rdwait"
      BY <2>1, <2>3, <3>1, <3>2
    <3> QED BY <2>1, <3>3 DEF QueuedReaderHasWriter
  <2> QED
    BY <1>1, <2>1, <2>2, <2>3
    DEF OwnersCounted, QueuedReaderHasWriter, NoLostWakeup
<1>2. CASE ~writer /\ reader = 0
  <2>1. /\ writer' = TRUE /\ reader' = reader /\ queue' = queue
        /\ state' = [state EXCEPT ![c] = "writing"]
    BY <1>2 DEF WrlockLoop
  <2>2. LinkedOnce'
    BY <2>1 DEF LinkedOnce
  <2>3. Readers' = Readers /\ Writers' = Writers \cup {c}
    BY <2>1 DEF Readers, Writers
  <2>4. OwnersCounted'
    BY <1>2, <2>1, <2>3, Zenon DEF OwnersCounted
  <2> QED
    BY <1>2, <2>1, <2>2, <2>4 DEF NoLostWakeup, QueuedReaderHasWriter
<1> QED BY <1>1, <1>2

(* A writer's unlock: everybody who waited is woken and nobody is inside.  *)
LEMMA UnlockWriterKeepsIInv ==
    ASSUME NEW c \in Co, IInv, UnlockWriter(c)
    PROVE  IInv'
<1> USE DEF IInv, TypeOK, States, Waiting
<1>1. /\ writer' = FALSE /\ reader' = reader /\ queue' = << >>
      /\ woken' = woken \cup Range(queue) /\ state[c] = "writing"
      /\ state' = [state EXCEPT ![c] = "out"]
  BY DEF UnlockWriter, RestartAllRest, RestartAllEntries
<1>2. Range(queue) \subseteq Co /\ Range(queue') = {} /\ DOMAIN queue' = {}
      /\ queue' \in Seq(Co)
  BY <1>1 DEF Range
<1>3. LinkedOnce'
  BY <1>1, <1>2 DEF LinkedOnce
<1>4. Readers' = Readers /\ Writers' = Writers \ {c} /\ c \in Writers
  BY <1>1 DEF Readers, Writers
<1>5. Writers' = {}
  BY <1>4 DEF OwnersCounted
<1>6. OwnersCounted'
  BY <1>1, <1>4, <1>5 DEF OwnersCounted
<1> QED BY <1>1, <1>2, <1>3, <1>6, Zenon DEF QueuedReaderHasWriter, NoLostWakeup

(* A reader's unlock: the last one out wakes the first waiter.             *)
LEMMA UnlockReaderKeepsIInv ==
    ASSUME NEW c \in Co, IInv, UnlockReader(c)
    PROVE  IInv'
<1> USE DEF IInv, TypeOK, States, Waiting
<1>1. /\ writer' = writer /\ reader' = reader - 1 /\ state[c] = "reading"
      /\ state' = [state EXCEPT ![c] = "out"]
  BY DEF UnlockReader
<1>2. /\ Readers' = Readers \ {c} /\ Writers' = Writers
      /\ c \in Readers /\ Readers \in SUBSET Co
  BY <1>1 DEF Readers, Writers
<1>3. OwnersCounted' /\ reader' \in Nat /\ ~writer
  <2>1. /\ Cardinality(Readers) \in Nat /\ Cardinality(Readers) # 0
        /\ Cardinality(Readers') = Cardinality(Readers) - 1
    BY <1>2, CountReaders, Zenon
  <2>2. ~writer /\ reader' \in Nat /\ reader' = Cardinality(Readers')
    BY <1>1, <2>1 DEF OwnersCounted
  <2> QED BY <1>1, <1>2, <2>2 DEF OwnersCounted
<1>4. CASE reader' = 0
  <2> DEFINE moved == Range(NextEntries(queue))
  <2>1. queue' = NextRest(queue) /\ woken' = woken \cup moved
    BY <1>4 DEF UnlockReader
  <2>2. /\ queue' \in Seq(Co)
        /\ moved \cup Range(queue') = Range(queue)
        /\ moved \cap Range(queue') = {}
        /\ queue # << >> => moved # {}
        /\ queue = << >> => queue' = << >>
        /\ \A i, j \in DOMAIN queue' : queue'[i] = queue'[j] => i = j
    BY <2>1, NextSplits DEF LinkedOnce
  <2>3. Range(queue) \subseteq Co
    BY DEF Range
  <2> HIDE DEF moved
  <2>4. LinkedOnce'
    BY <1>1, <2>1, <2>2 DEF LinkedOnce
  <2>5. ASSUME NEW i \in DOMAIN queue' PROVE state'[queue'[i]] # "rdwait"
    <3>1. queue'[i] \in Range(queue)
      BY <2>2, ZenonT(60) DEF Range
    <3>2. state[queue'[i]] # "rdwait" /\ queue'[i] \in Co
      BY <1>3, <2>3, <3>1 DEF QueuedReaderHasWriter, Range
    <3> QED BY <1>1, <3>2
  <2> QED
    BY <1>1, <1>3, <2>1, <2>2, <2>3, <2>4, <2>5
    DEF QueuedReaderHasWriter, NoLostWakeup
<1>5. CASE reader' # 0
  <2>1. queue' = queue /\ woken' = woken
    BY <1>5 DEF UnlockReader
  <2>2. LinkedOnce'
    BY <1>1, <2>1 DEF LinkedOnce
  <2>3. \A i \in DOMAIN queue : state'[queue[i]] = state[queue[i]]
    <3> TAKE i \in DOMAIN queue
    <3>1. queue[i] \in Co /\ queue[i] # c
      BY <1>1 DEF LinkedOnce, Range
    <3> QED BY <1>1, <3>1
  <2> QED
    BY <1>1, <1>3, <1>5, <2>1, <2>2, <2>3 DEF QueuedReaderHasWriter, NoLostWakeup
<1> QED BY <1>4, <1>5

(* The lists, the counters and the wake-ups of the lock are right in every *)
(* reachable state, for any number of coroutines.                          *)
THEOREM Invariance == Spec => []IInv
<1>1. Init => IInv
  <2> SUFFICES ASSUME Init PROVE IInv
    OBVIOUS
  <2>1. Range(queue) = {} /\ DOMAIN queue = {} /\ queue \in Seq(Co)
    BY DEF Init, Range
  <2>2. TypeOK
    BY <2>1, Zenon DEF Init, TypeOK, States
  <2>3. LinkedOnce
    BY <2>1 DEF Init, LinkedOnce, Waiting
  <2>4. OwnersCounted
    BY FS_EmptySet DEF Init, OwnersCounted, Readers, Writers
  <2> QED
    BY <2>1, <2>2, <2>3, <2>4 DEF Init, IInv, QueuedReaderHasWriter, NoLostWakeup
<1>2. IInv /\ [Next]_vars => IInv'
  <2> SUFFICES ASSUME IInv, [Next]_vars PROVE IInv'
    OBVIOUS
  <2>1. ASSUME NEW c \in Co, Rdlock(c) PROVE IInv'
    <3>1. c \notin Range(queue) /\ c \notin woken
      BY <2>1 DEF Rdlock, IInv, LinkedOnce, Waiting
    <3> QED BY <2>1, <3>1, RdlockLoopKeepsIInv DEF Rdlock
  <2>2. ASSUME NEW c \in Co, Wrlock(c) PROVE IInv'
    <3>1. c \notin Range(queue) /\ c \notin woken
      BY <2>2 DEF Wrlock, IInv, LinkedOnce, Waiting
    <3> QED BY <2>2, <3>1, WrlockLoopKeepsIInv DEF Wrlock
  <2>3. ASSUME NEW c \in Co, ResumeReader(c) PROVE IInv'
    <3>1. c \notin Range(queue)
      BY <2>3 DEF ResumeReader, IInv, LinkedOnce
    <3> QED BY <2>3, <3>1, RdlockLoopKeepsIInv DEF ResumeReader
  <2>4. ASSUME NEW c \in Co, ResumeWriter(c) PROVE IInv'
    <3>1. c \notin Range(queue)
      BY <2>4 DEF ResumeWriter, IInv, LinkedOnce
    <3> QED BY <2>4, <3>1, WrlockLoopKeepsIInv DEF ResumeWriter
  <2>5. ASSUME NEW c \in Co, UnlockWriter(c) PROVE IInv'
    BY <2>5, UnlockWriterKeepsIInv
  <2>6. ASSUME NEW c \in Co, UnlockReader(c) PROVE IInv'
    BY <2>6, UnlockReaderKeepsIInv
  <2>7. CASE UNCHANGED vars
    <3>1. Readers' = Readers /\ Writers' = Writers
      BY <2>7 DEF vars, Readers, Writers
    <3> QED BY <2>7, <3>1 DEF vars, IInv, TypeOK, LinkedOnce, OwnersCounted,
                              QueuedReaderHasWriter, NoLostWakeup
  <2> QED BY <2>1, <2>2, <2>3, <2>4, <2>5, <2>6, <2>7 DEF Next
<1> QED BY <1>1, <1>2, PTL DEF Spec

(* The invariants of the lock that matter to its users: each yielded       *)
(* coroutine stays reachable, and a free lock with waiters wakes one.      *)
THEOREM Safety == Spec => [](LinkedOnce /\ OwnersCounted /\ QueuedReaderHasWriter /\ NoLostWakeup)
<1>1. IInv => LinkedOnce /\ OwnersCounted /\ QueuedReaderHasWriter /\ NoLostWakeup
  BY DEF IInv
<1> QED BY <1>1, Invariance, PTL

(* The lock implements RWLock: readers share, a writer is alone.           *)
THEOREM Refinement == Spec => ImplementsLock
<1>1. Init => Abstract!Init
  BY DEF Init, Abstract!Init, Readers, Writers
<1>2. IInv /\ [Next]_vars => [Abstract!Next]_(Abstract!vars)
  <2> SUFFICES ASSUME IInv, [Next]_vars
               PROVE  Abstract!Next \/ UNCHANGED <<Readers, Writers>>
    BY DEF Abstract!vars
  <2> USE DEF IInv, TypeOK, States, Readers, Writers
  <2>1. ASSUME NEW c \in Co, RdlockLoop(c), state[c] \notin {"reading", "writing"}
        PROVE  Abstract!AcquireRead(c) \/ UNCHANGED <<Readers, Writers>>
    BY <2>1 DEF RdlockLoop, Abstract!AcquireRead, OwnersCounted
  <2>2. ASSUME NEW c \in Co, WrlockLoop(c), state[c] \notin {"reading", "writing"}
        PROVE  Abstract!AcquireWrite(c) \/ UNCHANGED <<Readers, Writers>>
    <3>1. CASE writer \/ reader > 0
      BY <2>2, <3>1 DEF WrlockLoop
    <3>2. CASE ~writer /\ reader = 0
      <4>1. Readers = {} /\ Writers = {}
        BY <3>2, CountReaders, Zenon DEF OwnersCounted
      <4> QED BY <2>2, <3>2, <4>1 DEF WrlockLoop, Abstract!AcquireWrite
    <3> QED BY <3>1, <3>2
  <2>3. ASSUME NEW c \in Co, UnlockReader(c) \/ UnlockWriter(c)
        PROVE  Abstract!Release(c)
    BY <2>3 DEF UnlockReader, UnlockWriter, Abstract!Release
  <2>4. CASE UNCHANGED vars
    BY <2>4 DEF vars
  <2> QED
    BY <2>1, <2>2, <2>3, <2>4
    DEF Next, Rdlock, Wrlock, ResumeReader, ResumeWriter, Abstract!Next
<1> QED BY <1>1, <1>2, Invariance, PTL DEF Spec, ImplementsLock, Abstract!Spec

=============================================================================
