----------------------------- MODULE AioContext -----------------------------
(***************************************************************************)
(* The main AioContext: bottom halves (async.c), file descriptor handlers  *)
(* and aio_poll (aio-posix.c), and the main loop that has the context as a *)
(* GSource (main-loop.c).                                                  *)
(*                                                                         *)
(* Code that holds the global mutex runs alone: the main loop, its         *)
(* callbacks, and a vCPU thread while the main loop sleeps.  Such code may *)
(* call aio_poll again, so the calls form a stack.  Worker threads make    *)
(* file descriptors ready and schedule bottom halves at any time.          *)
(***************************************************************************)
EXTENDS Naturals, Sequences, SequencesExt, FiniteSets

CONSTANTS NBh,         \* bottom halves that exist at a time
          NNode,       \* AioHandlers that exist at a time
          Fds,         \* file descriptors of drivers
          Notifier,    \* ctx->notifier
          MaxDepth,    \* calls of aio_poll in progress
          MaxOps,      \* calls into the context by callbacks and other code
          VcpuPolls    \* may a vCPU thread call aio_poll?

ASSUME AioAssumption ==
    /\ NBh \in Nat \ {0} /\ Notifier \notin Fds /\ IsFiniteSet(Fds)
    /\ NNode \in Nat /\ Cardinality(Fds) < NNode
    /\ MaxDepth \in Nat /\ MaxOps \in Nat /\ VcpuPolls \in BOOLEAN

Cells == 1 .. NBh              \* memory for bottom halves
Nodes == 1 .. NNode            \* memory for handlers
NULL == 0
None == NNode + NBh + 1        \* a thread that schedules nothing

VARIABLES bhs,                 \* the list from ctx->first_bh
          scheduled, idle, bh_deleted,
          handlers,            \* the list ctx->aio_handlers
          fd, node_deleted, revents,
          ready,               \* file descriptors that are readable
          inflight,            \* with operations in flight (io_flush)
          stack,               \* calls of aio_poll, the last one running
          loop,                \* the main loop
          bql,                 \* who holds the global mutex
          thread,              \* what a thread has scheduled, not yet notified
          ops

vars == <<bhs, scheduled, idle, bh_deleted, handlers, fd, node_deleted, revents,
          ready, inflight, stack, loop, bql, thread, ops>>
bhVars == <<bhs, scheduled, idle, bh_deleted>>
nodeVars == <<handlers, fd, node_deleted, revents>>

Pcs == {"bh", "bh_cb", "first", "first_cb", "poll", "last", "last_cb"}
Frame == [pc : Pcs, cur : 0 .. NNode + NBh, blocking : BOOLEAN, progress : BOOLEAN,
          polled : SUBSET Nodes]

(* Where the main loop is, and for g_poll its timeout ("idle": 10 ms),     *)
(* what it polls, what it got; whether the context is to be dispatched;    *)
(* whether the polled set has changed since.                               *)
Loop == [pc : {"prepare", "polling", "polled", "dispatch"},
         timeout : {"none", "idle", "infinite"},
         fds : SUBSET (Fds \cup {Notifier}), got : SUBSET (Fds \cup {Notifier}),
         due : BOOLEAN, changed : BOOLEAN]

TypeOK ==
    /\ bhs \in Seq(Cells) /\ handlers \in Seq(Nodes)
    /\ scheduled \subseteq Cells /\ idle \subseteq Cells /\ bh_deleted \subseteq Cells
    /\ fd \in [Nodes -> Fds \cup {Notifier}]
    /\ node_deleted \subseteq Nodes /\ revents \subseteq Nodes
    /\ ready \subseteq Fds \cup {Notifier} /\ inflight \subseteq Fds
    /\ stack \in Seq(Frame) /\ loop \in Loop
    /\ bql \in {"main", "free", "vcpu"}
    /\ thread \in Cells \cup {None}
    /\ ops \in 0 .. MaxOps

(* aio_context_new has set the handler of the notifier first, then each    *)
(* driver its own, and there is memory for one more bottom half.           *)
Drivers == SetToSeq(Fds)
Init ==
    /\ bhs = [i \in 1 .. NBh - 1 |-> i]
    /\ scheduled = {} /\ idle = {} /\ bh_deleted = {}
    /\ handlers = [i \in 1 .. Len(Drivers) + 1 |-> i]
    /\ fd = [n \in Nodes |-> IF n <= Len(Drivers) THEN Drivers[n] ELSE Notifier]
    /\ node_deleted = {} /\ revents = {}
    /\ ready = {Notifier} /\ inflight = {}
    /\ stack = << >>
    /\ loop = [pc |-> "prepare", timeout |-> "none", fds |-> {}, got |-> {},
               due |-> FALSE, changed |-> FALSE]
    /\ bql = "main"
    /\ thread = None
    /\ ops = 0

-----------------------------------------------------------------------------
Top == Last(stack)
Running == stack # << >>
WithTop(f) == Append(Front(stack), f)

(* The rest of list from cur on; what comes after cur.                     *)
From(list, cur) ==
    IF cur = NULL THEN << >>
    ELSE SubSeq(list, CHOOSE i \in DOMAIN list : list[i] = cur, Len(list))
NextOf(list, cur) ==
    LET rest == From(list, cur) IN IF Len(rest) < 2 THEN NULL ELSE rest[2]
FirstOf(list) == IF list = << >> THEN NULL ELSE list[1]

(* ctx->walking_bh and ctx->walking_handlers, from the calls in progress   *)
(* other than the last.                                                    *)
OuterWalksBh == \E i \in 1 .. Len(stack) - 1 : stack[i].pc \in {"bh", "bh_cb"}
WalksHandlers(f) == f.pc \in {"first_cb", "last_cb"}
OuterWalksHandlers == \E i \in 1 .. Len(stack) - 1 : WalksHandlers(stack[i])
InHandlers == \E i \in DOMAIN stack : WalksHandlers(stack[i])

(* Code of the program that may call into the context: a callback, another *)
(* source of the main loop, or a vCPU thread.                              *)
InCallback == Running /\ Top.pc \in {"bh_cb", "first_cb", "last_cb"}
UserCode ==
    /\ ops < MaxOps
    /\ InCallback \/ (~Running /\ (bql = "vcpu" \/ loop.pc = "dispatch"))

-----------------------------------------------------------------------------
(* Bottom halves.                                                          *)
Usable(b) == b \in Range(bhs) /\ b \notin bh_deleted

NotifyNobody == ready                         \* mutant of AioNotify
(* aio_notify.                                                             *)
AioNotify == ready \cup {Notifier}

BhNew ==
    /\ UserCode
    /\ \E b \in Cells \ Range(bhs) :
           /\ \A c \in Cells \ Range(bhs) : b <= c
           /\ bhs' = <<b>> \o bhs
           /\ idle' = idle \ {b}
    /\ ops' = ops + 1
    /\ UNCHANGED <<scheduled, bh_deleted, nodeVars, ready, inflight, stack, loop, bql, thread>>

(* qemu_bh_schedule of one that is scheduled already, idle or not, does    *)
(* nothing.                                                                *)
Schedule(b) ==
    /\ UserCode /\ Usable(b)
    /\ scheduled' = scheduled \cup {b}
    /\ idle' = IF b \in scheduled THEN idle ELSE idle \ {b}
    /\ ready' = IF b \in scheduled THEN ready ELSE AioNotify
    /\ ops' = ops + 1
    /\ UNCHANGED <<bhs, bh_deleted, nodeVars, inflight, stack, loop, bql, thread>>

ScheduleIdle(b) ==
    /\ UserCode /\ Usable(b) /\ b \notin scheduled
    /\ scheduled' = scheduled \cup {b} /\ idle' = idle \cup {b}
    /\ ops' = ops + 1
    /\ UNCHANGED <<bhs, bh_deleted, nodeVars, ready, inflight, stack, loop, bql, thread>>

Cancel(b) ==
    /\ UserCode /\ Usable(b) /\ b \in scheduled
    /\ scheduled' = scheduled \ {b}
    /\ ops' = ops + 1
    /\ UNCHANGED <<bhs, idle, bh_deleted, nodeVars, ready, inflight, stack, loop, bql, thread>>

Delete(b) ==
    /\ UserCode /\ Usable(b)
    /\ scheduled' = scheduled \ {b} /\ bh_deleted' = bh_deleted \cup {b}
    /\ ops' = ops + 1
    /\ UNCHANGED <<bhs, idle, nodeVars, ready, inflight, stack, loop, bql, thread>>

(* A thread that does not hold the mutex schedules b, in two steps.        *)
ThreadSchedule(b) ==
    /\ ops < MaxOps /\ thread = None
    /\ Usable(b) /\ b \notin scheduled
    /\ scheduled' = scheduled \cup {b} /\ idle' = idle \ {b}
    /\ thread' = b
    /\ ops' = ops + 1
    /\ UNCHANGED <<bhs, bh_deleted, nodeVars, ready, inflight, stack, loop, bql>>

ThreadNotify ==
    /\ thread # None
    /\ thread' = None
    /\ ready' = AioNotify
    /\ UNCHANGED <<bhVars, nodeVars, inflight, stack, loop, bql, ops>>

-----------------------------------------------------------------------------
(* aio_set_fd_handler.                                                     *)
Handling(f) == {n \in Range(handlers) : fd[n] = f /\ n \notin node_deleted}

(* The node is new, or has its callbacks replaced by others of the kind.   *)
SetFdHandler(f) ==
    /\ UserCode
    /\ \/ /\ Handling(f) # {}
          /\ UNCHANGED <<nodeVars, loop>>
       \/ /\ Handling(f) = {}
          /\ \E n \in Nodes \ Range(handlers) :
                 /\ \A k \in Nodes \ Range(handlers) : n <= k
                 /\ handlers' = <<n>> \o handlers
                 /\ fd' = [fd EXCEPT ![n] = f]
                 /\ node_deleted' = node_deleted \ {n}
                 /\ revents' = revents \ {n}
          /\ loop' = [loop EXCEPT !.changed = TRUE]
    /\ ready' = AioNotify
    /\ ops' = ops + 1
    /\ UNCHANGED <<bhVars, inflight, stack, bql, thread>>

FreesNode == ~InHandlers

(* A driver removes its handler when it has nothing in flight.             *)
RemoveFdHandler(f) ==
    /\ UserCode /\ f \notin inflight
    /\ \E n \in Handling(f) :
           IF FreesNode
           THEN /\ handlers' = SelectSeq(handlers, LAMBDA k : k # n)
                /\ UNCHANGED <<node_deleted, revents>>
           ELSE /\ node_deleted' = node_deleted \cup {n}
                /\ revents' = revents \ {n}
                /\ UNCHANGED handlers
    /\ loop' = [loop EXCEPT !.changed = TRUE]
    /\ ready' = AioNotify
    /\ ops' = ops + 1
    /\ UNCHANGED <<bhVars, fd, inflight, stack, bql, thread>>

(* A driver starts an operation; a worker or the host completes it.        *)
Submit(f) ==
    /\ UserCode /\ Handling(f) # {} /\ f \notin inflight
    /\ inflight' = inflight \cup {f}
    /\ ops' = ops + 1
    /\ UNCHANGED <<bhVars, nodeVars, ready, stack, loop, bql, thread>>

WorkerDone(f) ==
    /\ f \in inflight \ ready
    /\ ready' = ready \cup {f}
    /\ UNCHANGED <<bhVars, nodeVars, inflight, stack, loop, bql, thread, ops>>

-----------------------------------------------------------------------------
(* aio_poll.                                                               *)
Enter(blocking) ==
    stack' = Append(stack, [pc |-> "bh", cur |-> FirstOf(bhs), blocking |-> blocking,
                            progress |-> FALSE, polled |-> {}])

AioPoll(blocking) ==
    /\ UserCode /\ Len(stack) < MaxDepth
    /\ bql = "vcpu" => VcpuPolls
    /\ Enter(blocking)
    /\ ops' = ops + 1
    /\ UNCHANGED <<bhVars, nodeVars, ready, inflight, loop, bql, thread>>

Runnable(b) == b \in scheduled /\ b \notin bh_deleted

(* aio_bh_poll goes on to the next bottom half that is to be called.       *)
BhCall ==
    /\ Running /\ Top.pc = "bh"
    /\ LET due == SelectSeq(From(bhs, Top.cur), Runnable) IN
       /\ due # << >>
       /\ scheduled' = scheduled \ {due[1]} /\ idle' = idle \ {due[1]}
       /\ stack' = WithTop(
              [Top EXCEPT !.pc = "bh_cb", !.cur = NextOf(bhs, due[1]),
                          !.blocking = @ /\ due[1] \in idle,
                          !.progress = @ \/ due[1] \notin idle])
    /\ UNCHANGED <<bhs, bh_deleted, nodeVars, ready, inflight, loop, bql, thread, ops>>

RemovesAlways == TRUE                         \* mutant of RemovesDeleted
RemovesDeleted == ~OuterWalksBh

(* None is left: the deleted ones are freed, unless an outer call walks    *)
(* the list too, and the handlers come next.                               *)
BhEnd ==
    /\ Running /\ Top.pc = "bh"
    /\ SelectSeq(From(bhs, Top.cur), Runnable) = << >>
    /\ bhs' = IF RemovesDeleted
              THEN SelectSeq(bhs, LAMBDA b : b \notin bh_deleted) ELSE bhs
    /\ bh_deleted' = bh_deleted \cap Range(bhs')
    /\ stack' = WithTop([Top EXCEPT !.pc = "first", !.cur = FirstOf(handlers)])
    /\ UNCHANGED <<scheduled, idle, nodeVars, ready, inflight, loop, bql,
                   thread, ops>>

BhReturn ==
    /\ Running /\ Top.pc = "bh_cb"
    /\ stack' = WithTop([Top EXCEPT !.pc = "bh"])
    /\ UNCHANGED <<bhVars, nodeVars, ready, inflight, loop, bql, thread, ops>>

-----------------------------------------------------------------------------
(* aio_dispatch, before and after g_poll.                                  *)
Pending(n) == n \in revents /\ n \notin node_deleted
Dispatching == Running /\ Top.pc \in {"first", "last"}
Rest == From(handlers, Top.cur)
Calls == SelectSeq(Rest, Pending)

(* The nodes before the next callback lose their revents and, if they are  *)
(* deleted and no outer call walks the list, their memory.                 *)
Passed == IF Calls = << >> THEN Range(Rest)
          ELSE Range(Rest) \ Range(From(Rest, Calls[1]))
Pass ==
    /\ revents' = revents \ (Passed \cup (IF Calls = << >> THEN {} ELSE {Calls[1]}))
    /\ handlers' = IF OuterWalksHandlers THEN handlers
                   ELSE SelectSeq(handlers, LAMBDA n : n \notin Passed \cap node_deleted)
    /\ UNCHANGED <<fd, node_deleted>>

CallbackPc == IF Top.pc = "first" THEN "first_cb" ELSE "last_cb"

(* The notifier's callback only clears it; a driver's takes what has been  *)
(* completed and runs the program's code.                                  *)
Dispatch ==
    /\ Dispatching /\ Calls # << >>
    /\ Pass
    /\ LET f == fd[Calls[1]] IN
       /\ ready' = ready \ {f}
       /\ inflight' = IF f \in ready THEN inflight \ {f} ELSE inflight
    /\ stack' = IF fd[Calls[1]] = Notifier
                THEN WithTop([Top EXCEPT !.progress = TRUE, !.cur = NextOf(handlers, Calls[1])])
                ELSE WithTop([Top EXCEPT !.progress = TRUE, !.cur = Calls[1], !.pc = CallbackPc])
    /\ UNCHANGED <<bhVars, loop, bql, thread, ops>>

CallbackReturn ==
    /\ Running /\ WalksHandlers(Top)
    /\ stack' = WithTop([Top EXCEPT !.pc = IF @ = "first_cb" THEN "first" ELSE "last",
                                    !.cur = NextOf(handlers, @)])
    /\ handlers' = IF OuterWalksHandlers THEN handlers
                   ELSE SelectSeq(handlers, LAMBDA n : n \notin {Top.cur} \cap node_deleted)
    /\ UNCHANGED <<bhVars, fd, node_deleted, revents, ready, inflight, loop, bql,
                   thread, ops>>

Return == stack' = Front(stack)

(* The first walk is over: return if a call that does not block has made   *)
(* progress, or if nothing is in flight; else g_poll.                      *)
Busy == \E n \in Range(handlers) : n \notin node_deleted /\ fd[n] \in inflight
Polled == {n \in Range(handlers) : n \notin node_deleted /\ fd[n] \in inflight \cup {Notifier}}

FirstEnd ==
    /\ Dispatching /\ Top.pc = "first" /\ Calls = << >>
    /\ Pass
    /\ IF (Top.progress /\ ~Top.blocking) \/ ~Busy
       THEN Return
       ELSE stack' = WithTop([Top EXCEPT !.pc = "poll", !.polled = Polled])
    /\ UNCHANGED <<bhVars, ready, inflight, loop, bql, thread, ops>>

Poll ==
    /\ Running /\ Top.pc = "poll"
    /\ LET hit == {n \in Top.polled : fd[n] \in ready} IN
       /\ Top.blocking => hit # {}
       /\ IF hit = {} THEN Return /\ UNCHANGED revents
          ELSE /\ revents' = (revents \ Top.polled) \cup hit
               /\ stack' = WithTop([Top EXCEPT !.pc = "last", !.cur = FirstOf(handlers)])
    /\ UNCHANGED <<bhVars, handlers, fd, node_deleted, ready, inflight, loop, bql,
                   thread, ops>>

LastEnd ==
    /\ Dispatching /\ Top.pc = "last" /\ Calls = << >>
    /\ Pass
    /\ Return
    /\ UNCHANGED <<bhVars, ready, inflight, loop, bql, thread, ops>>

-----------------------------------------------------------------------------
(* The main loop.                                                          *)
AtBase(pc) == ~Running /\ bql = "main" /\ loop.pc = pc

Scheduled == {b \in Range(bhs) : Runnable(b)}

TimeoutForEver == "infinite"                  \* mutant of Timeout
(* aio_ctx_prepare.                                                        *)
Timeout == CASE Scheduled \ idle # {} -> "none"
             [] Scheduled # {} /\ Scheduled \subseteq idle -> "idle"
             [] Scheduled = {} -> "infinite"

(* The mutex is given up unless the timeout is 0; after many turns of the  *)
(* loop it is made 1.                                                      *)
Prepare ==
    /\ AtBase("prepare")
    /\ \E t \in {Timeout} \cup (IF Timeout = "none" THEN {"idle"} ELSE {}) :
           /\ loop' = [loop EXCEPT !.pc = "polling", !.timeout = t, !.changed = FALSE,
                          !.fds = {fd[n] : n \in {k \in Range(handlers) : k \notin node_deleted}},
                          !.due = Timeout = "none"]
           /\ bql' = IF t = "none" THEN "main" ELSE "free"
    /\ UNCHANGED <<bhVars, nodeVars, ready, inflight, stack, thread, ops>>

(* g_poll returns, with or without the mutex.                              *)
PollReturn ==
    /\ loop.pc = "polling"
    /\ loop.timeout = "infinite" => loop.fds \cap ready # {}
    /\ loop' = [loop EXCEPT !.pc = "polled", !.got = loop.fds \cap ready]
    /\ UNCHANGED <<bhVars, nodeVars, ready, inflight, stack, bql, thread, ops>>

(* glib_pollfds_poll.  glib starts over if descriptors came or went, and   *)
(* otherwise stores what it got and asks aio_ctx_check.                    *)
Check ==
    /\ loop.pc = "polled" /\ bql \in {"main", "free"}
    /\ bql' = "main"
    /\ IF loop.changed
       THEN /\ loop' = [loop EXCEPT !.pc = "prepare", !.got = {}]
            /\ UNCHANGED revents
       ELSE /\ revents' = {n \in Range(handlers) : n \notin node_deleted /\ fd[n] \in loop.got}
            /\ loop' = [loop EXCEPT !.pc = "dispatch", !.got = {},
                           !.due = @ \/ Scheduled # {} \/ revents' # {}]
    /\ UNCHANGED <<bhVars, handlers, fd, node_deleted, ready, inflight, stack, thread, ops>>

(* aio_ctx_dispatch, before or after what other sources do.                *)
CtxDispatch ==
    /\ AtBase("dispatch") /\ loop.due
    /\ loop' = [loop EXCEPT !.due = FALSE]
    /\ Enter(FALSE)
    /\ UNCHANGED <<bhVars, nodeVars, ready, inflight, bql, thread, ops>>

Again ==
    /\ AtBase("dispatch") /\ ~loop.due
    /\ loop' = [loop EXCEPT !.pc = "prepare"]
    /\ UNCHANGED <<bhVars, nodeVars, ready, inflight, stack, bql, thread, ops>>

VcpuEnter ==
    /\ bql = "free" /\ ops < MaxOps
    /\ bql' = "vcpu"
    /\ ops' = ops + 1
    /\ UNCHANGED <<bhVars, nodeVars, ready, inflight, stack, loop, thread>>

VcpuLeave ==
    /\ bql = "vcpu" /\ ~Running
    /\ bql' = "free"
    /\ UNCHANGED <<bhVars, nodeVars, ready, inflight, stack, loop, thread, ops>>

-----------------------------------------------------------------------------
Operation ==
    \/ BhNew
    \/ \E b \in Cells : Schedule(b) \/ ScheduleIdle(b) \/ Cancel(b) \/ Delete(b)
                        \/ ThreadSchedule(b)
    \/ \E f \in Fds : SetFdHandler(f) \/ RemoveFdHandler(f) \/ Submit(f)
    \/ \E blocking \in BOOLEAN : AioPoll(blocking)
    \/ VcpuEnter

Progress ==
    \/ BhCall \/ BhEnd \/ BhReturn
    \/ Dispatch \/ CallbackReturn \/ FirstEnd \/ Poll \/ LastEnd
    \/ Prepare \/ PollReturn \/ Check \/ CtxDispatch \/ Again \/ VcpuLeave

Next == Operation \/ Progress \/ ThreadNotify \/ \E f \in Fds : WorkerDone(f)

Spec == Init /\ [][Next]_vars

(* Code runs on and callbacks return, g_poll returns when something is     *)
(* ready, threads go on, and the host completes operations.  That a vCPU   *)
(* thread does not keep the mutex from the main loop is in MaxOps.         *)
Fairness ==
    /\ WF_vars(PollReturn)
    /\ WF_vars(Progress)
    /\ WF_vars(ThreadNotify)
    /\ \A f \in Fds : WF_vars(WorkerDone(f))

FairSpec == Spec /\ Fairness

-----------------------------------------------------------------------------
(* No walk, of any of the calls of aio_poll in progress, holds a pointer   *)
(* to a bottom half or a handler that has been freed, whatever callbacks   *)
(* and inner calls deleted.                                                *)
WalkSafe ==
    /\ TypeOK
    /\ \A i \in DOMAIN stack :
           stack[i].cur # NULL =>
               /\ stack[i].pc \in {"bh", "bh_cb"} => stack[i].cur \in Range(bhs)
               /\ stack[i].pc \in {"first", "first_cb", "last", "last_cb"} =>
                      stack[i].cur \in Range(handlers)

(* While the main loop sleeps without end and nobody runs, no bottom half  *)
(* waits that should interrupt it: it is notified, or will be at once.     *)
MainLoopInterrupted ==
    loop.pc = "polling" /\ loop.timeout = "infinite" /\ bql = "free" /\ thread = None =>
        Scheduled \subseteq idle \/ Notifier \in ready

(* A bottom half that is scheduled, by whatever code or thread, is called, *)
(* cancelled or deleted in the end.                                        *)
ScheduledRuns == \A b \in Cells : b \in scheduled \ idle ~> b \notin scheduled

(* So is one that is scheduled as idle (aio_ctx_prepare: "idle bottom      *)
(* halves will be polled at least every 10ms").                            *)
IdlePolled == \A b \in Cells : b \in scheduled \cap idle ~> b \notin scheduled

(* A call of aio_poll sleeps only when no bottom half is to be called, or  *)
(* the notifier interrupts it.                                             *)
SleepsIdle ==
    Running /\ Top.pc = "poll" /\ Top.blocking /\ thread = None =>
        Scheduled \subseteq idle \/ Notifier \in ready

(* What a bottom half schedules is called before aio_bh_poll returns.      *)
InstantlyInvoked ==
    [][BhEnd /\ thread = None => Scheduled = {}]_vars

=============================================================================
