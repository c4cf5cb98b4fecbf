------------------------------ MODULE CoRwlock ------------------------------
(***************************************************************************)
(* The coroutine reader/writer lock of qemu-coroutine-lock.c.  As in       *)
(* CoMutex an action is the code a coroutine runs between two yields.      *)
(* Both kinds of waiter share one queue; a writer's unlock restarts all of *)
(* it, the last reader's unlock only its first entry.                      *)
(***************************************************************************)
EXTENDS CoQueue, Functions

VARIABLES writer,      \* CoRwlock.writer
          reader,      \* CoRwlock.reader
          queue,       \* CoRwlock.queue.entries
          woken,       \* entries of the scheduled CoQueueNextData bottom halves
          state        \* what each coroutine is doing

vars == <<writer, reader, queue, woken, state>>

States == {"out", "rdwait", "wrwait", "reading", "writing"}
Waiting == {"rdwait", "wrwait"}

TypeOK ==
    /\ writer \in BOOLEAN
    /\ reader \in Nat
    /\ queue \in Seq(Co)
    /\ woken \subseteq Co
    /\ state \in [Co -> States]

Init ==
    /\ writer = FALSE
    /\ reader = 0
    /\ queue = << >>
    /\ woken = {}
    /\ state = [c \in Co |-> "out"]

(* One test of the loop in qemu_co_rwlock_rdlock.                          *)
RdlockLoop(c) ==
    \/ /\ writer
       /\ queue' = QueueWait(queue, c)
       /\ state' = [state EXCEPT ![c] = "rdwait"]
       /\ UNCHANGED <<writer, reader>>
    \/ /\ ~writer
       /\ reader' = reader + 1
       /\ state' = [state EXCEPT ![c] = "reading"]
       /\ UNCHANGED <<writer, queue>>

(* Mutant of WrlockLoop: a writer does not wait for readers.               *)
WrlockLoopIgnoresReaders(c) ==
    \/ /\ writer
       /\ queue' = QueueWait(queue, c)
       /\ state' = [state EXCEPT ![c] = "wrwait"]
       /\ UNCHANGED <<writer, reader>>
    \/ /\ ~writer
       /\ writer' = TRUE
       /\ state' = [state EXCEPT ![c] = "writing"]
       /\ UNCHANGED <<reader, queue>>

(* One test of the loop in qemu_co_rwlock_wrlock.                          *)
WrlockLoop(c) ==
    \/ /\ writer \/ reader > 0
       /\ queue' = QueueWait(queue, c)
       /\ state' = [state EXCEPT ![c] = "wrwait"]
       /\ UNCHANGED <<writer, reader>>
    \/ /\ ~writer /\ reader = 0
       /\ writer' = TRUE
       /\ state' = [state EXCEPT ![c] = "writing"]
       /\ UNCHANGED <<reader, queue>>

Rdlock(c) == state[c] = "out" /\ RdlockLoop(c) /\ UNCHANGED woken

Wrlock(c) == state[c] = "out" /\ WrlockLoop(c) /\ UNCHANGED woken

(* The bottom half enters a woken coroutine, which tests its loop again.   *)
ResumeReader(c) ==
    /\ c \in woken /\ state[c] = "rdwait"
    /\ woken' = woken \ {c}
    /\ RdlockLoop(c)

ResumeWriter(c) ==
    /\ c \in woken /\ state[c] = "wrwait"
    /\ woken' = woken \ {c}
    /\ WrlockLoop(c)

(* Mutant of UnlockWriter: only the first waiter is restarted.             *)
UnlockWriterWakesOne(c) ==
    /\ state[c] = "writing"
    /\ writer' = FALSE
    /\ queue' = NextRest(queue)
    /\ woken' = woken \cup Range(NextEntries(queue))
    /\ state' = [state EXCEPT ![c] = "out"]
    /\ UNCHANGED reader

(* qemu_co_rwlock_unlock, the branch lock->writer.                         *)
UnlockWriter(c) ==
    /\ state[c] = "writing"
    /\ writer' = FALSE
    /\ queue' = RestartAllRest(queue)
    /\ woken' = woken \cup Range(RestartAllEntries(queue))
    /\ state' = [state EXCEPT ![c] = "out"]
    /\ UNCHANGED reader

(* Mutant of UnlockReader: the last reader wakes nobody.                   *)
UnlockReaderSilently(c) ==
    /\ state[c] = "reading"
    /\ reader' = reader - 1
    /\ state' = [state EXCEPT ![c] = "out"]
    /\ UNCHANGED <<writer, queue, woken>>

(* qemu_co_rwlock_unlock, the branch of a reader.                          *)
UnlockReader(c) ==
    /\ state[c] = "reading"
    /\ reader' = reader - 1
    /\ IF reader' = 0
       THEN /\ queue' = NextRest(queue)
            /\ woken' = woken \cup Range(NextEntries(queue))
       ELSE UNCHANGED <<queue, woken>>
    /\ state' = [state EXCEPT ![c] = "out"]
    /\ UNCHANGED writer

Next == \E c \in Co : \/ Rdlock(c) \/ Wrlock(c)
                      \/ ResumeReader(c) \/ ResumeWriter(c)
                      \/ UnlockReader(c) \/ UnlockWriter(c)

Spec == Init /\ [][Next]_vars

(* Scheduled bottom halves are polled and owners leave the lock.           *)
FairSpec == Spec /\ \A c \in Co : /\ WF_vars(ResumeReader(c) \/ ResumeWriter(c))
                                  /\ WF_vars(UnlockReader(c) \/ UnlockWriter(c))

-----------------------------------------------------------------------------
Readers == {c \in Co : state[c] = "reading"}
Writers == {c \in Co : state[c] = "writing"}

(* Every yielded coroutine is on exactly one list, once (co_queue_next).   *)
LinkedOnce ==
    /\ \A i, j \in DOMAIN queue : queue[i] = queue[j] => i = j
    /\ Range(queue) \cap woken = {}
    /\ \A c \in Co : state[c] \in Waiting <=> c \in Range(queue) \cup woken

(* The counter and the flag describe the owners, so the assertion          *)
(* reader >= 0 of qemu_co_rwlock_unlock holds and the branch it takes on   *)
(* lock->writer is the caller's own.                                       *)
OwnersCounted ==
    /\ reader = Cardinality(Readers)
    /\ writer <=> Writers # {}
    /\ writer => reader = 0 /\ \E c \in Co : Writers = {c}

(* A reader queues only behind a writer that is still inside.  This is why *)
(* the last reader may "Wakeup only one waiting writer": the head of the   *)
(* queue cannot be a reader with other readers stuck behind it.            *)
QueuedReaderHasWriter ==
    (\E i \in DOMAIN queue : state[queue[i]] = "rdwait") => writer

(* No lost wake-up: with nobody inside, waiters have one of them woken.    *)
NoLostWakeup == queue # << >> /\ ~writer /\ reader = 0 => woken # {}

(* The lock implements RWLock.                                             *)
Abstract == INSTANCE RWLock WITH readers <- Readers, writers <- Writers
ImplementsLock == Abstract!Spec

(* The lock does not stay free for ever while coroutines wait for it.      *)
WaitersServed ==
    (\E c \in Co : state[c] \in Waiting) ~> (Readers \cup Writers # {})

=============================================================================
