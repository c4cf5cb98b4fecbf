----------------------------- MODULE ThreadPool -----------------------------
(***************************************************************************)
(* The pool of worker threads behind blocking I/O (thread-pool.c).         *)
(*                                                                         *)
(* One thread at a time, the owner of the global mutex, submits, cancels   *)
(* and completes requests; its call stack is a variable, because callbacks *)
(* may call back into the pool and may nest an event loop.  Workers run    *)
(* beside it.  pool->lock is not a variable: a section of code that holds  *)
(* it is one action, and pthread_cond_wait ends one.                       *)
(***************************************************************************)
EXTENDS Integers, Sequences, FiniteSets, Functions

CONSTANTS Elems,      \* ThreadPoolElements, reused after qemu_aio_release
          Workers,    \* identities of threads, reused after their exit
          MaxThreads, \* pool->max_threads
          Callbacks,  \* what callbacks may do
          NULL

ASSUME PoolAssumption ==
    /\ NULL \notin Elems
    /\ IsFiniteSet(Workers)
    /\ MaxThreads \in Nat \ {0} /\ Cardinality(Workers) = MaxThreads
    /\ Callbacks \subseteq {"submit", "cancel", "drain"}

VARIABLES state,                 \* elem->state; "FREE" when not allocated
          withCb,                \* elements whose common.cb is not NULL
          head,                  \* pool->head, newest first
          request_list,
          sem,
          notifier,
          bh,                    \* new_thread_bh is scheduled
          cur_threads, idle_threads, new_threads, pending_threads,
          pending_cancellations,
          stopping,
          worker,                \* where each thread is
          job,                   \* the request it works on
          stack,                 \* of the owner of the global mutex, top first
          todo,                  \* what event_notifier_ready has yet to visit
          asleep                 \* the owner sleeps in qemu_cond_wait

elements == <<state, withCb>>
lists == <<head, request_list>>
counters == <<cur_threads, idle_threads, new_threads, pending_threads>>
signals == <<sem, notifier, bh>>
caller == <<pending_cancellations, stopping, stack, todo, asleep>>
vars == <<elements, lists, counters, signals, caller, worker, job>>

States == {"FREE", "QUEUED", "ACTIVE", "DONE", "CANCELED"}
Finished(e) == state[e] \in {"DONE", "CANCELED"}

(* "starting": created, not run yet; "waiting": in qemu_sem_timedwait;     *)
(* "grabbed", "timedout": has returned from it, without the lock;          *)
(* "active": in req->func; "finishing": has set THREAD_DONE.               *)
Places == {"none", "starting", "waiting", "grabbed", "timedout", "active",
           "finishing"}

(* "loop": the main loop, or device code it calls; "post": between the two *)
(* halves of thread_pool_submit_aio; "scan": event_notifier_ready;         *)
(* "callback": a completion function; "cancel", "free": waiting in         *)
(* thread_pool_cancel, thread_pool_free; "drain": qemu_aio_wait in         *)
(* bdrv_drain_all; "freed": there is no pool.                              *)
Functs == {"loop", "post", "scan", "callback", "cancel", "drain", "free", "freed"}
Frames == [fn : Functs, elem : Elems \cup {NULL}]

TypeOK ==
    /\ state \in [Elems -> States] /\ withCb \subseteq Elems
    /\ head \in Seq(Elems) /\ request_list \in Seq(Elems)
    /\ sem \in Nat /\ notifier \in BOOLEAN /\ bh \in BOOLEAN
    /\ cur_threads \in 0 .. MaxThreads /\ idle_threads \in Nat
    /\ new_threads \in Nat /\ pending_threads \in Nat
    /\ pending_cancellations \in 0 .. 1
    /\ stopping \in BOOLEAN
    /\ worker \in [Workers -> Places] /\ job \in [Workers -> Elems \cup {NULL}]
    /\ stack \in Seq(Frames) /\ stack # << >>
    /\ todo \in Seq(Elems) /\ asleep \in BOOLEAN

Top == Head(stack).fn
Push(fn, e) == <<[fn |-> fn, elem |-> e]>> \o stack

(* thread_pool_init_one.                                                   *)
Init ==
    /\ state = [e \in Elems |-> "FREE"] /\ withCb = {}
    /\ head = << >> /\ request_list = << >>
    /\ sem = 0 /\ notifier = FALSE /\ bh = FALSE
    /\ cur_threads = 0 /\ idle_threads = 0
    /\ new_threads = 0 /\ pending_threads = 0
    /\ pending_cancellations = 0
    /\ stopping = FALSE
    /\ worker = [w \in Workers |-> "none"] /\ job = [w \in Workers |-> NULL]
    /\ stack = <<[fn |-> "loop", elem |-> NULL]>>
    /\ todo = << >> /\ asleep = FALSE

-----------------------------------------------------------------------------
Spawned(p) == {[p EXCEPT ![w] = "starting"] : w \in {v \in Workers : p[v] = "none"}}

(* do_spawn_thread, when the threads are at p and pending have not run.    *)
DoSpawnThread(p, pending) ==
    \/ /\ new_threads = 0
       /\ worker' = p
       /\ pending_threads' = pending
       /\ UNCHANGED new_threads
    \/ /\ new_threads > 0
       /\ worker' \in Spawned(p)
       /\ new_threads' = new_threads - 1
       /\ pending_threads' = pending + 1

(* Mutant of SpawnThread: every new worker is left to the ones starting.   *)
SpawnThreadWithoutBh ==
    /\ cur_threads' = cur_threads + 1
    /\ new_threads' = new_threads + 1
    /\ UNCHANGED bh

SpawnThread ==
    /\ cur_threads' = cur_threads + 1
    /\ new_threads' = new_threads + 1
    /\ bh' = (bh \/ pending_threads = 0)

(* spawn_thread_bh_fn, from aio_bh_poll.                                   *)
SpawnThreadBh ==
    /\ Top \in {"loop", "drain"} /\ bh
    /\ bh' = FALSE
    /\ DoSpawnThread(worker, pending_threads)
    /\ UNCHANGED <<elements, lists, cur_threads, idle_threads, sem, notifier,
                   caller, job>>

(* Mutant of Exit: the thread leaves without being discounted.             *)
ExitStillCounted(w) ==
    /\ worker' = [worker EXCEPT ![w] = "none"]
    /\ asleep' = (asleep /\ Top # "free")
    /\ UNCHANGED cur_threads

(* The end of worker_thread: the waiter on worker_stopped is signalled.    *)
Exit(w) ==
    /\ cur_threads' = cur_threads - 1
    /\ worker' = [worker EXCEPT ![w] = "none"]
    /\ asleep' = (asleep /\ Top # "free")

(* worker_thread begins.                                                   *)
Start(w) ==
    /\ worker[w] = "starting"
    /\ \/ /\ ~stopping
          /\ DoSpawnThread([worker EXCEPT ![w] = "waiting"], pending_threads - 1)
          /\ idle_threads' = idle_threads + 1
          /\ UNCHANGED <<cur_threads, asleep>>
       \/ /\ stopping                       \* and no thread is to be spawned
          /\ pending_threads' = pending_threads - 1
          /\ Exit(w)
          /\ UNCHANGED <<idle_threads, new_threads>>
    /\ UNCHANGED <<elements, lists, signals, pending_cancellations, stopping,
                   stack, todo, job>>

(* qemu_sem_timedwait returns, with the semaphore or after ten seconds; a  *)
(* post may come too late to be noticed by a thread that times out.        *)
Grab(w) ==
    /\ worker[w] = "waiting" /\ sem > 0
    /\ sem' = sem - 1
    /\ worker' = [worker EXCEPT ![w] = "grabbed"]
    /\ UNCHANGED <<elements, lists, counters, notifier, bh, caller, job>>

Timeout(w) ==
    /\ worker[w] = "waiting"
    /\ worker' = [worker EXCEPT ![w] = "timedout"]
    /\ UNCHANGED <<elements, lists, counters, signals, caller, job>>

RemoveFirst == request_list' = Tail(request_list)

(* A worker that has the semaphore takes the first request, if any.        *)
Take(w) ==
    /\ worker[w] = "grabbed"
    /\ idle_threads' = idle_threads - 1
    /\ \/ /\ ~stopping /\ request_list # << >>
          /\ RemoveFirst
          /\ state' = [state EXCEPT ![Head(request_list)] = "ACTIVE"]
          /\ job' = [job EXCEPT ![w] = Head(request_list)]
          /\ worker' = [worker EXCEPT ![w] = "active"]
          /\ UNCHANGED <<cur_threads, asleep>>
       \/ stopping /\ Exit(w) /\ UNCHANGED <<request_list, state, job>>
    /\ UNCHANGED <<withCb, head, new_threads, pending_threads, signals,
                   pending_cancellations, stopping, stack, todo>>

GiveUp == request_list = << >>

(* A worker that timed out waits again if there is a request after all.    *)
TimedOut(w) ==
    /\ worker[w] = "timedout"
    /\ \/ /\ ~GiveUp
          /\ worker' = [worker EXCEPT ![w] = "waiting"]
          /\ UNCHANGED <<cur_threads, idle_threads, asleep>>
       \/ GiveUp /\ idle_threads' = idle_threads - 1 /\ Exit(w)
    /\ UNCHANGED <<elements, lists, new_threads, pending_threads, signals,
                   pending_cancellations, stopping, stack, todo, job>>

(* req->func returns; state is written without the lock.                   *)
Done(w) ==
    /\ worker[w] = "active"
    /\ state' = [state EXCEPT ![job[w]] = "DONE"]
    /\ job' = [job EXCEPT ![w] = NULL]
    /\ worker' = [worker EXCEPT ![w] = "finishing"]
    /\ UNCHANGED <<withCb, lists, counters, signals, caller>>

BroadcastNothing == UNCHANGED asleep         \* mutant of Broadcast
Broadcast == asleep' = (asleep /\ pending_cancellations = 0)

Notify == notifier' = TRUE

(* The rest of an iteration of worker_thread, with the lock, up to the     *)
(* next wait.                                                              *)
Finish(w) ==
    /\ worker[w] = "finishing"
    /\ Notify
    /\ \/ /\ ~stopping
          /\ idle_threads' = idle_threads + 1
          /\ worker' = [worker EXCEPT ![w] = "waiting"]
          /\ Broadcast
          /\ UNCHANGED cur_threads
       \/ stopping /\ Exit(w) /\ UNCHANGED idle_threads
    /\ UNCHANGED <<elements, lists, new_threads, pending_threads, sem, bh,
                   pending_cancellations, stopping, stack, todo, job>>

-----------------------------------------------------------------------------
May(what) == Top = "loop" \/ (Top = "callback" /\ what \in Callbacks)

(* thread_pool_submit_aio, and thread_pool_submit with no callback, up to  *)
(* the release of the lock.                                                *)
Submit(e, cb) ==
    /\ May("submit")
    /\ state[e] = "FREE" /\ \A f \in Range(stack) : f.elem # e
    /\ state' = [state EXCEPT ![e] = "QUEUED"]
    /\ withCb' = IF cb THEN withCb \cup {e} ELSE withCb \ {e}
    /\ head' = <<e>> \o head
    /\ \/ idle_threads = 0 /\ cur_threads < MaxThreads /\ SpawnThread
       \/ /\ idle_threads > 0 \/ cur_threads = MaxThreads
          /\ UNCHANGED <<cur_threads, new_threads, bh>>
    /\ request_list' = Append(request_list, e)
    /\ stack' = Push("post", NULL)
    /\ UNCHANGED <<idle_threads, pending_threads, sem, notifier,
                   pending_cancellations, stopping, todo, asleep, worker, job>>

(* Its qemu_sem_post.                                                      *)
Post ==
    /\ Top = "post"
    /\ sem' = sem + 1
    /\ stack' = Tail(stack)
    /\ UNCHANGED <<elements, lists, counters, notifier, bh,
                   pending_cancellations, stopping, todo, asleep, worker, job>>

(* event_notifier_ready is called from the function at the top of s.       *)
EventNotifierReady(s, e) ==
    /\ notifier' = FALSE
    /\ stack' = <<[fn |-> "scan", elem |-> e]>> \o s
    /\ todo' = head

(* aio_dispatch; a nested aio_poll looks at the notifier only while        *)
(* thread_pool_active.                                                     *)
NotifierReady ==
    /\ notifier
    /\ Top = "loop" \/ (Top = "drain" /\ head # << >>)
    /\ EventNotifierReady(stack, NULL)
    /\ UNCHANGED <<elements, lists, counters, sem, bh, pending_cancellations,
                   stopping, asleep, worker, job>>

(* QLIST_REMOVE and QTAILQ_REMOVE.                                         *)
Without(list, e) ==
    LET n == CHOOSE i \in DOMAIN list : list[i] = e
    IN  SubSeq(list, 1, n - 1) \o SubSeq(list, n + 1, Len(list))

SeenDone(e) == state[e] = "DONE"             \* mutant of Seen
Seen(e) == state[e] \in {"DONE", "CANCELED"}

(* event_notifier_ready looks at one element.                              *)
Visit ==
    /\ Top = "scan" /\ todo # << >>
    /\ LET e == Head(todo) IN
        \/ /\ ~Seen(e)
           /\ todo' = Tail(todo)
           /\ UNCHANGED <<state, head, stack>>
        \/ /\ state[e] = "DONE" /\ e \in withCb
           /\ head' = Without(head, e)
           /\ stack' = Push("callback", e)
           /\ todo' = << >>
           /\ UNCHANGED state
        \/ /\ Seen(e) /\ ~(state[e] = "DONE" /\ e \in withCb)
           /\ head' = Without(head, e)
           /\ state' = [state EXCEPT ![e] = "FREE"]
           /\ todo' = Tail(todo)
           /\ UNCHANGED stack
    /\ UNCHANGED <<withCb, request_list, counters, signals,
                   pending_cancellations, stopping, asleep, worker, job>>

RestartNothing == UNCHANGED todo             \* mutant of Restart
Restart == todo' = head

(* The callback returns, its element is released and the walk restarts.    *)
CallbackReturn ==
    /\ Top = "callback"
    /\ state' = [state EXCEPT ![Head(stack).elem] = "FREE"]
    /\ stack' = Tail(stack)
    /\ Restart
    /\ UNCHANGED <<withCb, lists, counters, signals,
                   pending_cancellations, stopping, asleep, worker, job>>

Return ==
    /\ Top = "scan" /\ todo = << >>
    /\ stack' = Tail(stack)
    /\ UNCHANGED <<elements, lists, counters, signals, pending_cancellations,
                   stopping, todo, asleep, worker, job>>

CanSteal(e) == state[e] = "QUEUED" /\ sem > 0

KeepToken == UNCHANGED sem                   \* mutant of TakeToken
TakeToken == sem' = sem - 1

(* thread_pool_cancel: it steals a queued element if no worker is coming   *)
(* for it, waits for one in progress, and completes what has finished.     *)
Cancel(e) ==
    /\ May("cancel") /\ e \in Range(head) /\ e \in withCb
    /\ \/ /\ CanSteal(e)
          /\ TakeToken
          /\ request_list' = Without(request_list, e)
          /\ state' = [state EXCEPT ![e] = "CANCELED"]
          /\ EventNotifierReady(stack, e)
          /\ UNCHANGED <<pending_cancellations, asleep>>
       \/ /\ Finished(e)
          /\ EventNotifierReady(stack, e)
          /\ UNCHANGED <<state, request_list, sem, pending_cancellations, asleep>>
       \/ /\ ~Finished(e) /\ ~CanSteal(e)
          /\ pending_cancellations' = pending_cancellations + 1
          /\ stack' = Push("cancel", e) /\ asleep' = TRUE
          /\ UNCHANGED <<state, request_list, sem, notifier, todo>>
    /\ UNCHANGED <<withCb, head, counters, bh, stopping, worker, job>>

(* It wakes up from the condition variable check_cancel.                   *)
CancelWake ==
    /\ Top = "cancel" /\ ~asleep
    /\ \/ /\ Finished(Head(stack).elem)
          /\ pending_cancellations' = pending_cancellations - 1
          /\ EventNotifierReady(Tail(stack), Head(stack).elem)
          /\ UNCHANGED asleep
       \/ /\ ~Finished(Head(stack).elem)
          /\ asleep' = TRUE
          /\ UNCHANGED <<pending_cancellations, notifier, stack, todo>>
    /\ UNCHANGED <<elements, lists, counters, sem, bh, stopping, worker, job>>

-----------------------------------------------------------------------------
(* bdrv_drain_all, which calls qemu_aio_wait until there is nothing to do. *)
Drain ==
    /\ May("drain")
    /\ stack' = Push("drain", NULL)
    /\ UNCHANGED <<elements, lists, counters, signals, pending_cancellations,
                   stopping, todo, asleep, worker, job>>

DrainDone ==
    /\ Top = "drain" /\ head = << >> /\ ~bh
    /\ stack' = Tail(stack)
    /\ UNCHANGED <<elements, lists, counters, signals, pending_cancellations,
                   stopping, todo, asleep, worker, job>>

WaitOnce(n) == n > 0 /\ ~stopping            \* mutant of MustWait
MustWait(n) == n > 0

PostStop == sem' = sem + 1

(* The loop of thread_pool_free, with n threads left, up to qemu_cond_wait *)
(* or the end.                                                             *)
FreeLoop(n) ==
    IF MustWait(n)
    THEN /\ PostStop
         /\ asleep' = TRUE
         /\ stack' = <<[fn |-> "free", elem |-> NULL]>>
    ELSE /\ stack' = <<[fn |-> "freed", elem |-> NULL]>>
         /\ UNCHANGED <<sem, asleep>>

(* thread_pool_free; the caller owes it an empty list.                     *)
Free ==
    /\ Top = "loop" /\ head = << >>
    /\ bh' = FALSE
    /\ cur_threads' = cur_threads - new_threads
    /\ new_threads' = 0
    /\ stopping' = TRUE
    /\ FreeLoop(cur_threads - new_threads)
    /\ UNCHANGED <<elements, lists, idle_threads, pending_threads, notifier,
                   pending_cancellations, todo, worker, job>>

FreeWake ==
    /\ Top = "free" /\ ~asleep
    /\ FreeLoop(cur_threads)
    /\ UNCHANGED <<elements, lists, counters, notifier, bh,
                   pending_cancellations, stopping, todo, worker, job>>

(* thread_pool_new, in place of the old pool.                              *)
New ==
    /\ Top = "freed"
    /\ sem' = 0 /\ notifier' = FALSE
    /\ stopping' = FALSE
    /\ stack' = <<[fn |-> "loop", elem |-> NULL]>>
    /\ UNCHANGED <<elements, lists, counters, bh, pending_cancellations, todo,
                   asleep, worker, job>>

-----------------------------------------------------------------------------
WorkerStep(w) ==
    Start(w) \/ Grab(w) \/ Timeout(w) \/ Take(w) \/ TimedOut(w) \/ Done(w) \/ Finish(w)

Next ==
    \/ \E w \in Workers : WorkerStep(w)
    \/ \E e \in Elems : Cancel(e) \/ \E cb \in BOOLEAN : Submit(e, cb)
    \/ Post \/ SpawnThreadBh \/ NotifierReady \/ Visit \/ CallbackReturn \/ Return
    \/ CancelWake \/ Drain \/ DrainDone \/ Free \/ FreeWake \/ New

Spec == Init /\ [][Next]_vars

(* Threads run, req->func returns, callbacks return whatever they call,    *)
(* somebody who keeps trying gets the semaphore, and the main loop serves  *)
(* a ready bottom half or notifier even when it is kept busy with          *)
(* requests.  No timeout need ever happen.                                 *)
Fairness ==
    /\ \A w \in Workers :
           /\ WF_vars(Start(w)) /\ WF_vars(Take(w)) /\ WF_vars(TimedOut(w))
           /\ WF_vars(Done(w)) /\ WF_vars(Finish(w))
    /\ SF_vars(\E w \in Workers : Grab(w))
    /\ WF_vars(Post \/ Visit \/ Return \/ CancelWake)
    /\ WF_vars(DrainDone) /\ WF_vars(FreeWake)
    /\ SF_vars(CallbackReturn) /\ SF_vars(SpawnThreadBh) /\ SF_vars(NotifierReady)

FairSpec == Spec /\ Fairness

-----------------------------------------------------------------------------
At(places) == Cardinality({w \in Workers : worker[w] \in places})
Distinct(q) == \A i, j \in DOMAIN q : q[i] = q[j] => i = j

(* The two lists and the state agree: request_list holds what is queued,   *)
(* one worker has each active element, and head holds every element that   *)
(* is neither free nor in its callback, so none is lost or run twice.      *)
ListsAgree ==
    /\ Distinct(head) /\ Distinct(request_list)
    /\ \A e \in Elems :
           /\ state[e] = "QUEUED" <=> e \in Range(request_list)
           /\ state[e] = "ACTIVE" <=> \E w \in Workers : job[w] = e
           /\ e \in Range(head) <=>
                  /\ state[e] # "FREE"
                  /\ [fn |-> "callback", elem |-> e] \notin Range(stack)
    /\ \A v, w \in Workers : job[v] = job[w] /\ job[v] # NULL => v = w

(* The semaphore counts the queued requests that no worker is coming for,  *)
(* though requests are stolen by thread_pool_cancel and posted outside the *)
(* lock: a worker that has it always finds a request.                      *)
TokenPerRequest ==
    ~stopping => sem + At({"grabbed"}) + (IF Top = "post" THEN 1 ELSE 0)
                     = Len(request_list)

(* The thread counters of the pool are true.                               *)
ThreadsCounted ==
    /\ cur_threads = new_threads + At(Places \ {"none"})
    /\ pending_threads = At({"starting"})
    /\ idle_threads = At({"waiting", "grabbed", "timedout"})

(* While a request is queued there are threads, and threads that are to be *)
(* created will be: by the bottom half or by one that is starting.         *)
WorkersCome ==
    /\ request_list # << >> => cur_threads > 0
    /\ new_threads > 0 => bh \/ pending_threads > 0

(* Between the sections that hold pool->lock, whoever ran last, lists,     *)
(* states and thread counters of the pool agree and threads come for what  *)
(* is queued.                                                              *)
PoolAgrees == TypeOK /\ ListsAgree /\ ThreadsCounted /\ WorkersCome

(* An element that has finished is not forgotten: the notifier is set or   *)
(* will be by a worker, or a walk of event_notifier_ready has it ahead.    *)
CompletionNoticed ==
    \A e \in Range(head) : Finished(e) =>
        \/ notifier \/ At({"finishing"}) > 0
        \/ e \in Range(todo)
        \/ \E f \in Range(stack) : f.fn = "callback"

(* thread_pool_cancel returns only when its element has been released.     *)
CancelReleases ==
    [][\A e \in Elems : Head(stack) = [fn |-> "scan", elem |-> e] /\ stack' = Tail(stack)
           => state[e] = "FREE"]_vars

(* When thread_pool_free frees the pool no thread is left to touch it.     *)
FreedIsQuiet == Top = "freed" => At({"none"}) = MaxThreads

(* Every request is executed or cancelled, and then released.              *)
Completed == \A e \in Elems : state[e] = "QUEUED" ~> state[e] = "FREE"

(* thread_pool_cancel does not wait for ever in qemu_cond_wait.            *)
CancelReturns == Top = "cancel" ~> Top # "cancel"

(* thread_pool_free gets rid of all threads, idle, working or starting.    *)
FreeReturns == Top = "free" ~> Top = "freed"

(* qemu_aio_wait goes on while requests are pending: bdrv_drain_all        *)
(* returns.                                                                *)
DrainReturns == Top = "drain" ~> \A f \in Range(stack) : f.fn # "drain"

(* No call that blocks the main loop blocks it for ever: cancelling,       *)
(* freeing and draining all return.                                        *)
CallsReturn == CancelReturns /\ FreeReturns /\ DrainReturns

=============================================================================
