------------------------------- MODULE RWLock -------------------------------
(***************************************************************************)
(* What a lock for coroutines promises: any number of readers or a single  *)
(* writer.  The CoMutex is the case in which every owner is a writer.      *)
(***************************************************************************)
CONSTANT Co          \* the coroutines

VARIABLES readers,   \* coroutines that hold the lock for reading
          writers    \* coroutines that hold the lock for writing

vars == <<readers, writers>>

TypeOK == readers \subseteq Co /\ writers \subseteq Co

Init == readers = {} /\ writers = {}

AcquireRead(c) ==
    /\ c \notin readers \cup writers
    /\ writers = {}
    /\ readers' = readers \cup {c}
    /\ UNCHANGED writers

AcquireWrite(c) ==
    /\ writers = {}
    /\ readers = {}
    /\ writers' = {c}
    /\ UNCHANGED readers

Release(c) ==
    /\ c \in readers \cup writers
    /\ readers' = readers \ {c}
    /\ writers' = writers \ {c}

Next == \E c \in Co : AcquireRead(c) \/ AcquireWrite(c) \/ Release(c)

Spec == Init /\ [][Next]_vars

=============================================================================
