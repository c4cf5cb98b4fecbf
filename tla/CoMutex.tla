------------------------------ MODULE CoMutex ------------------------------
(***************************************************************************)
(* The coroutine mutex of qemu-coroutine-lock.c.  Coroutines share one     *)
(* thread: between two yields a coroutine runs alone, so one action is one *)
(* such stretch of code.  An unlock does not hand the mutex over; it moves *)
(* one waiter to a bottom half, and until that bottom half runs any other  *)
(* coroutine may take the mutex, in which case the woken one queues again. *)
(***************************************************************************)
EXTENDS CoQueue, Functions

VARIABLES locked,      \* CoMutex.locked
          queue,       \* CoMutex.queue.entries
          woken,       \* coroutines on the entry list of a scheduled
                       \* CoQueueNextData bottom half
          state        \* what each coroutine is doing

vars == <<locked, queue, woken, state>>

(* "out": has no business with the mutex; "waiting": has yielded in        *)
(* qemu_co_queue_wait; "holder": returned from qemu_co_mutex_lock.         *)
States == {"out", "waiting", "holder"}

TypeOK ==
    /\ locked \in BOOLEAN
    /\ queue \in Seq(Co)
    /\ woken \subseteq Co
    /\ state \in [Co -> States]

Init ==
    /\ locked = FALSE
    /\ queue = << >>
    /\ woken = {}
    /\ state = [c \in Co |-> "out"]

(* One pass through the test of the loop in qemu_co_mutex_lock.            *)
LockLoop(c) ==
    \/ /\ locked
       /\ queue' = QueueWait(queue, c)
       /\ state' = [state EXCEPT ![c] = "waiting"]
       /\ UNCHANGED locked
    \/ /\ ~locked
       /\ locked' = TRUE
       /\ state' = [state EXCEPT ![c] = "holder"]
       /\ UNCHANGED queue

(* A coroutine calls qemu_co_mutex_lock.                                   *)
Lock(c) ==
    /\ state[c] = "out"
    /\ LockLoop(c)
    /\ UNCHANGED woken

(* Mutant of Resume: the mutex is taken after one wait, without the loop.  *)
ResumeWithoutRetest(c) ==
    /\ c \in woken
    /\ woken' = woken \ {c}
    /\ locked' = TRUE
    /\ state' = [state EXCEPT ![c] = "holder"]
    /\ UNCHANGED queue

(* The bottom half enters a woken coroutine, which tests the loop again.   *)
(* Which scheduled bottom half is polled first is left open.               *)
Resume(c) ==
    /\ c \in woken
    /\ woken' = woken \ {c}
    /\ LockLoop(c)

(* Mutant of Unlock: the mutex is released without waking a waiter.        *)
UnlockSilently(c) ==
    /\ state[c] = "holder"
    /\ locked' = FALSE
    /\ state' = [state EXCEPT ![c] = "out"]
    /\ UNCHANGED <<queue, woken>>

(* qemu_co_mutex_unlock.                                                   *)
Unlock(c) ==
    /\ state[c] = "holder"
    /\ locked' = FALSE
    /\ state' = [state EXCEPT ![c] = "out"]
    /\ queue' = NextRest(queue)
    /\ woken' = woken \cup Range(NextEntries(queue))

Next == \E c \in Co : Lock(c) \/ Resume(c) \/ Unlock(c)

Spec == Init /\ [][Next]_vars

(* A scheduled bottom half is polled and an owner leaves its critical      *)
(* section; nobody is obliged to ask for the mutex.                        *)
FairSpec == Spec /\ \A c \in Co : WF_vars(Resume(c)) /\ WF_vars(Unlock(c))

-----------------------------------------------------------------------------
(* A yielded coroutine is linked exactly once: queue and bottom-half entry *)
(* lists share the one link field co_queue_next, so a coroutine that were  *)
(* on both, or twice on one, would corrupt them; one on neither would      *)
(* never be entered again.                                                 *)
LinkedOnce ==
    /\ \A i, j \in DOMAIN queue : queue[i] = queue[j] => i = j
    /\ Range(queue) \cap woken = {}
    /\ \A c \in Co : state[c] = "waiting" <=> c \in Range(queue) \cup woken

(* No lost wake-up: qemu_co_mutex_unlock leaves the mutex free with        *)
(* waiters behind only while a woken one is on its way, also after that    *)
(* one was overtaken and had to queue again.                               *)
NoLostWakeup == queue # << >> /\ ~locked => woken # {}

(* The flag and the owners agree: qemu_co_mutex_lock returns in at most    *)
(* one coroutine at a time, and locked tells whether there is one.         *)
OneOwner ==
    /\ locked <=> \E c \in Co : state[c] = "holder"
    /\ \A c, d \in Co : state[c] = "holder" /\ state[d] = "holder" => c = d

(* The CoMutex implements the lock RWLock specifies, all owners writing.   *)
Abstract == INSTANCE RWLock WITH
                readers <- {},
                writers <- {c \in Co : state[c] = "holder"}
ImplementsLock == Abstract!Spec

(* While anybody waits in qemu_co_mutex_lock the mutex is taken again.     *)
WaitersServed ==
    (\E c \in Co : state[c] = "waiting") ~> (\E c \in Co : state[c] = "holder")

=============================================================================
