------------------------------ MODULE Throttle ------------------------------
(***************************************************************************)
(* I/O throttling of one BlockDriverState (block.c, blockdev.c): requests  *)
(* that exceed bs->io_limits sleep in bs->throttled_reqs until block_timer *)
(* or a completing predecessor moves them to a bottom half, from which     *)
(* they test the limits again.  Around this the limits are changed by QMP, *)
(* the medium is closed and opened, all requests are drained, and          *)
(* synchronous I/O runs a nested event loop without timers.                *)
(*                                                                         *)
(* Everything runs under the global mutex.  An action is a stretch of code *)
(* between two points where the event loop, or a nested qemu_aio_wait,     *)
(* chooses what to run next.                                               *)
(***************************************************************************)
EXTENDS CoQueue, IoLimits, Functions

CONSTANTS Workloads,     \* what request each coroutine may carry
          LimitSettings, \* arguments of block_set_io_throttle
          SectorSize,    \* BDRV_SECTOR_SIZE
          FreeTicks,     \* bound on time passing with no timer pending
          TimerSlack,    \* bound on the lateness of the timer, in ticks
          MaxCalls       \* bound on the number of calls other than requests

ASSUME ThrottleAssumption ==
    /\ Co \subseteq Nat                      \* numbered in order of arrival
    /\ Workloads \subseteq [Co -> [dir : Dirs, bytes : Nat]]
    /\ LimitSettings \subseteq [bps : [Kinds -> Int], iops : [Kinds -> Int]]
    /\ SectorSize \in Nat \ {0}
    /\ FreeTicks \in Nat /\ TimerSlack \in Nat /\ MaxCalls \in Nat

VARIABLES now,      \* vm_clock
          work,     \* the requests the guest issues, fixed from the start
          req,      \* how far each request has come
          medium,   \* bs->drv # NULL
          limits,   \* bs->io_limits
          enabled,  \* bs->io_limits_enabled
          slice,    \* bs->slice_start, slice_end, slice_submitted
          timer,    \* bs->block_timer
          queue,    \* bs->throttled_reqs
          bhs,      \* coroutines on scheduled CoQueueNextData bottom halves,
                    \* in the order aio_bh_poll will meet them
          walk,     \* those the present aio_bh_poll has still to enter
          polled,   \* bottom halves were polled since the last look at timers
                    \* (main loop) or at throttled_reqs (bdrv_drain_all)
          mode,     \* which function waits in the event loop
          saved,    \* the local "enabled" of bdrv_read_unthrottled
          stray,    \* timers that were pending when block_timer was replaced
          calls,    \* how many calls have been made
          crashed   \* qemu_mod_timer was given a NULL timer

reqs == <<work, req>>
device == <<medium, limits, enabled, slice, timer, queue>>
loop == <<bhs, walk, polled, mode, saved, stray, calls, crashed>>
vars == <<now, reqs, device, loop>>

NULL == -2
Idle == -1                       \* allocated, not pending
Armed == timer >= 0              \* pending, with this expire_time

(* "new": not issued; "waiting": has yielded in bdrv_io_limits_intercept;  *)
(* "serving": passed on to the driver; "done": completed or refused.       *)
Steps == {"new", "waiting", "serving", "done"}

(* "run": main_loop_wait; "sync": bdrv_prwv_co; "unthrottled": the same    *)
(* under bdrv_read_unthrottled; "drain": bdrv_drain_all; "close": the      *)
(* draining at the start of bdrv_close.                                    *)
Modes == {"run", "sync", "unthrottled", "drain", "close"}
Draining == mode \in {"drain", "close"}

TypeOK ==
    /\ now \in Nat
    /\ work \in Workloads
    /\ req \in [Co -> Steps]
    /\ medium \in BOOLEAN
    /\ limits \in Limits
    /\ enabled \in BOOLEAN
    /\ slice \in Slices
    /\ timer \in Nat \cup {NULL, Idle}
    /\ queue \in Seq(Co) /\ bhs \in Seq(Co) /\ walk \in Seq(Co)
    /\ polled \in BOOLEAN
    /\ mode \in Modes
    /\ saved \in BOOLEAN
    /\ stray \in Nat /\ calls \in Nat
    /\ crashed \in BOOLEAN

NoIo == [d \in Dirs |-> 0]

(* After blockdev_init, in a machine that has started: with a file,        *)
(* bdrv_open has made a timer if bdrv_set_io_limits switched throttling    *)
(* on; an empty drive has none yet.                                        *)
Init ==
    /\ now = 1
    /\ work \in Workloads
    /\ req = [c \in Co |-> "new"]
    /\ medium \in BOOLEAN
    /\ limits \in {l \in LimitSettings : LimitsValid(l)}
    /\ enabled = SomeLimit(limits)
    /\ slice = [start |-> 0, end |-> 0, bytes |-> NoIo, ios |-> NoIo]
    /\ timer = IF medium /\ enabled THEN Idle ELSE NULL
    /\ queue = << >> /\ bhs = << >> /\ walk = << >>
    /\ polled = FALSE
    /\ mode = "run"
    /\ saved = FALSE
    /\ stray = 0 /\ calls = 0
    /\ crashed = FALSE

(* The event loop may choose what to do next.                              *)
Choosing == ~crashed /\ walk = << >>

-----------------------------------------------------------------------------
(* bs->io_limits is charged with whole sectors only.                       *)
Charged(c) == (work[c].bytes \div SectorSize) * SectorSize

(* Mutant of Intercept: a request that is let through wakes nobody.        *)
InterceptWakesNobody(c) ==
    LET e == ExceedIoLimits(limits, slice, now, work[c].dir, Charged(c))
    IN  /\ slice' = e.slice
        /\ \/ /\ e.exceeds /\ timer # NULL
              /\ timer' = now + e.wait
              /\ queue' = QueueWaitInsertHead(queue, c)
              /\ req' = [req EXCEPT ![c] = "waiting"]
              /\ UNCHANGED <<bhs, crashed>>
           \/ /\ e.exceeds /\ timer = NULL
              /\ crashed' = TRUE
              /\ UNCHANGED <<timer, queue, req, bhs>>
           \/ /\ ~e.exceeds
              /\ req' = [req EXCEPT ![c] = "serving"]
              /\ UNCHANGED <<timer, crashed, queue, bhs>>

(* Mutant of Intercept: the request queues again without arming the timer. *)
InterceptWithoutTimer(c) ==
    LET e == ExceedIoLimits(limits, slice, now, work[c].dir, Charged(c))
    IN  /\ slice' = e.slice
        /\ \/ /\ e.exceeds
              /\ queue' = QueueWaitInsertHead(queue, c)
              /\ req' = [req EXCEPT ![c] = "waiting"]
              /\ UNCHANGED <<timer, bhs, crashed>>
           \/ /\ ~e.exceeds
              /\ req' = [req EXCEPT ![c] = "serving"]
              /\ queue' = NextRest(queue)
              /\ bhs' = NextEntries(queue) \o bhs
              /\ UNCHANGED <<timer, crashed>>

(* The loop of bdrv_io_limits_intercept, from one test of the limits to    *)
(* the next yield or to the return.  It does not look at enabled.          *)
Intercept(c) ==
    LET e == ExceedIoLimits(limits, slice, now, work[c].dir, Charged(c))
    IN  /\ slice' = e.slice
        /\ \/ /\ e.exceeds /\ timer # NULL
              /\ timer' = now + e.wait
              /\ queue' = QueueWaitInsertHead(queue, c)
              /\ req' = [req EXCEPT ![c] = "waiting"]
              /\ UNCHANGED <<bhs, crashed>>
           \/ /\ e.exceeds /\ timer = NULL
              /\ crashed' = TRUE
              /\ UNCHANGED <<timer, queue, req, bhs>>
           \/ /\ ~e.exceeds
              /\ req' = [req EXCEPT ![c] = "serving"]
              /\ queue' = NextRest(queue)
              /\ bhs' = NextEntries(queue) \o bhs
              /\ UNCHANGED <<timer, crashed>>

(* bdrv_co_do_preadv or bdrv_co_do_pwritev up to the driver.               *)
Arrive(c) ==
    /\ Choosing
    /\ req[c] = "new" /\ \A d \in Co : d < c => req[d] # "new"
    /\ \/ /\ ~medium                                    \* -ENOMEDIUM
          /\ req' = [req EXCEPT ![c] = "done"]
          /\ UNCHANGED <<slice, timer, queue, bhs, crashed>>
       \/ /\ medium /\ ~enabled
          /\ req' = [req EXCEPT ![c] = "serving"]
          /\ UNCHANGED <<slice, timer, queue, bhs, crashed>>
       \/ /\ medium /\ enabled /\ ~QueueEmpty(queue)
          /\ queue' = QueueWait(queue, c)
          /\ req' = [req EXCEPT ![c] = "waiting"]
          /\ UNCHANGED <<slice, timer, bhs, crashed>>
       \/ /\ medium /\ enabled /\ QueueEmpty(queue)
          /\ Intercept(c)
    /\ UNCHANGED <<now, work, medium, limits, enabled,
                   walk, polled, mode, saved, stray, calls>>

(* The driver completes a request.                                         *)
Complete(c) ==
    /\ Choosing
    /\ req[c] = "serving"
    /\ req' = [req EXCEPT ![c] = "done"]
    /\ UNCHANGED <<now, work, device, loop>>

-----------------------------------------------------------------------------
(* aio_bh_poll.  New bottom halves go to the front of the list, so those   *)
(* that its callbacks schedule are left for the next poll.                 *)
Poll ==
    /\ Choosing /\ bhs # << >>
    /\ walk' = bhs
    /\ bhs' = << >>
    /\ polled' = TRUE
    /\ UNCHANGED <<now, reqs, device, mode, saved, stray, calls, crashed>>

(* qemu_co_queue_next_bh enters its next coroutine.                        *)
NextBh ==
    /\ ~crashed /\ walk # << >>
    /\ walk' = Tail(walk)
    /\ Intercept(Head(walk))
    /\ UNCHANGED <<now, work, medium, limits, enabled,
                   polled, mode, saved, stray, calls>>

(* bdrv_block_timer, run by main_loop_wait after it polled bottom halves.  *)
(* A stray timer may expire in the same qemu_run_all_timers.               *)
BlockTimer ==
    /\ Choosing /\ mode = "run"
    /\ polled \/ bhs = << >>
    /\ Armed /\ timer <= now
    /\ timer' = Idle
    /\ bhs' = NextEntries(queue) \o bhs
    /\ queue' = NextRest(queue)
    /\ polled' = (stray # 0)
    /\ UNCHANGED <<now, reqs, medium, limits, enabled, slice,
                   walk, mode, saved, stray, calls, crashed>>

Tick ==
    /\ Choosing
    /\ now < IF Armed THEN timer + TimerSlack ELSE FreeTicks
    /\ now' = now + 1
    /\ UNCHANGED <<reqs, device, loop>>

-----------------------------------------------------------------------------
Call == Choosing /\ mode = "run" /\ calls < MaxCalls /\ calls' = calls + 1

(* bdrv_io_limits_disable.                                                 *)
Disable ==
    /\ enabled' = FALSE
    /\ bhs' = NextAllEntries(queue) \o bhs
    /\ queue' = << >>
    /\ timer' = NULL
    /\ slice' = [slice EXCEPT !.start = 0, !.end = 0]

(* bdrv_io_limits_enable.  It initialises the queue, and it replaces the   *)
(* timer without deleting an old one.                                      *)
Enable ==
    /\ queue' = << >>
    /\ timer' = Idle
    /\ stray' = IF Armed THEN stray + 1 ELSE stray
    /\ enabled' = TRUE
    /\ UNCHANGED <<bhs, slice>>

(* qmp_block_set_io_throttle.                                              *)
SetIoThrottle(l) ==
    /\ Call
    /\ LimitsValid(l)
    /\ limits' = l
    /\ \/ ~enabled /\ SomeLimit(l) /\ Enable
       \/ enabled /\ ~SomeLimit(l) /\ Disable /\ UNCHANGED stray
       \/ /\ enabled = SomeLimit(l)
          /\ timer' = IF timer = NULL THEN NULL ELSE now
          /\ UNCHANGED <<enabled, slice, queue, bhs, stray>>
    /\ UNCHANGED <<now, reqs, medium, walk, polled, mode, saved, crashed>>

(* A timer that bdrv_io_limits_enable left pending runs its callback;      *)
(* others may follow before bottom halves are polled again.                *)
StrayTimer ==
    /\ Choosing /\ mode = "run" /\ stray > 0
    /\ polled \/ bhs = << >>
    /\ stray' = stray - 1
    /\ bhs' = NextEntries(queue) \o bhs
    /\ queue' = NextRest(queue)
    /\ polled' = TRUE
    /\ UNCHANGED <<now, reqs, medium, limits, enabled, slice, timer,
                   walk, mode, saved, calls, crashed>>

-----------------------------------------------------------------------------
(* bdrv_prwv_co from the main loop: throttling is switched off for good,   *)
(* then the event loop is nested until the request has completed.          *)
SyncIo ==
    /\ Call
    /\ mode' = "sync"
    /\ \/ enabled /\ Disable
       \/ ~enabled /\ UNCHANGED <<enabled, bhs, queue, timer, slice>>
    /\ UNCHANGED <<now, reqs, medium, limits, walk, polled, saved, stray,
                   crashed>>

(* bdrv_read_unthrottled hides the throttling from the bdrv_prwv_co that   *)
(* it calls.                                                               *)
ReadUnthrottled ==
    /\ Call
    /\ mode' = "unthrottled"
    /\ saved' = enabled
    /\ enabled' = FALSE
    /\ UNCHANGED <<now, reqs, medium, limits, slice, timer, queue,
                   bhs, walk, polled, stray, crashed>>

(* Mutant of SyncDone: bdrv_read_unthrottled leaves the throttling off.    *)
SyncDoneForgets ==
    /\ Choosing /\ mode \in {"sync", "unthrottled"}
    /\ mode' = "run"
    /\ UNCHANGED <<now, reqs, device, bhs, walk, polled, saved, stray,
                   calls, crashed>>

(* Both return.                                                            *)
SyncDone ==
    /\ Choosing /\ mode \in {"sync", "unthrottled"}
    /\ mode' = "run"
    /\ enabled' = IF mode = "unthrottled" THEN saved ELSE enabled
    /\ UNCHANGED <<now, reqs, medium, limits, slice, timer, queue,
                   bhs, walk, polled, saved, stray, calls, crashed>>

(* bdrv_drain_all, and bdrv_close, which begins by draining.               *)
Drain(m) ==
    /\ Call
    /\ mode' = m
    /\ polled' = FALSE
    /\ UNCHANGED <<now, reqs, device, bhs, walk, saved, stray, crashed>>

(* Mutant of DrainRestart: bdrv_drain_all waits for the timer to expire.   *)
DrainRestartExpired ==
    /\ Choosing /\ Draining
    /\ polled \/ bhs = << >>
    /\ ~QueueEmpty(queue) /\ timer <= now
    /\ bhs' = RestartAllEntries(queue) \o bhs
    /\ queue' = RestartAllRest(queue)
    /\ polled' = FALSE
    /\ UNCHANGED <<now, reqs, medium, limits, enabled, slice, timer,
                   walk, mode, saved, stray, calls, crashed>>

(* bdrv_drain_all finds throttled requests after a qemu_aio_wait.          *)
DrainRestart ==
    /\ Choosing /\ Draining
    /\ polled \/ bhs = << >>
    /\ ~QueueEmpty(queue)
    /\ bhs' = RestartAllEntries(queue) \o bhs
    /\ queue' = RestartAllRest(queue)
    /\ polled' = FALSE
    /\ UNCHANGED <<now, reqs, medium, limits, enabled, slice, timer,
                   walk, mode, saved, stray, calls, crashed>>

(* Mutant of DrainDone: only requests in flight keep bdrv_drain_all busy.  *)
DrainDoneIgnoresThrottled ==
    /\ Choosing /\ Draining
    /\ bhs = << >> /\ \A c \in Co : req[c] # "serving"
    /\ mode' = "run"
    /\ \/ mode = "drain" /\ UNCHANGED <<medium, enabled, bhs, queue, timer, slice>>
       \/ /\ mode = "close" /\ medium' = FALSE
          /\ \/ enabled /\ Disable
             \/ ~enabled /\ UNCHANGED <<enabled, bhs, queue, timer, slice>>
    /\ UNCHANGED <<now, reqs, limits, walk, polled, saved, stray, calls, crashed>>

(* qemu_aio_wait has nothing to do and no request is throttled.            *)
(* bdrv_close goes on to drop the driver and the throttling.               *)
DrainDone ==
    /\ Choosing /\ Draining
    /\ bhs = << >> /\ QueueEmpty(queue) /\ \A c \in Co : req[c] # "serving"
    /\ mode' = "run"
    /\ \/ mode = "drain" /\ UNCHANGED <<medium, enabled, bhs, queue, timer, slice>>
       \/ /\ mode = "close" /\ medium' = FALSE
          /\ \/ enabled /\ Disable
             \/ ~enabled /\ UNCHANGED <<enabled, bhs, queue, timer, slice>>
    /\ UNCHANGED <<now, reqs, limits, walk, polled, saved, stray, calls, crashed>>

(* bdrv_open of a new medium.                                              *)
Open ==
    /\ Call /\ ~medium
    /\ medium' = TRUE
    /\ \/ enabled /\ Enable
       \/ ~enabled /\ UNCHANGED <<enabled, bhs, queue, timer, slice, stray>>
    /\ UNCHANGED <<now, reqs, limits, walk, polled, mode, saved, crashed>>

-----------------------------------------------------------------------------
Next ==
    \/ \E c \in Co : Arrive(c) \/ Complete(c)
    \/ Poll \/ NextBh \/ BlockTimer \/ StrayTimer \/ Tick
    \/ \E l \in LimitSettings : SetIoThrottle(l)
    \/ SyncIo \/ ReadUnthrottled \/ SyncDone
    \/ Drain("drain") \/ Drain("close") \/ DrainRestart \/ DrainDone
    \/ Open

Spec == Init /\ [][Next]_vars

(* The event loops go on, drivers complete their requests, and the clock   *)
(* advances while the main loop runs.  Nothing is assumed of the guest, of *)
(* the management calls, or of vm_clock inside a nested event loop.        *)
Fairness ==
    /\ WF_vars(Poll) /\ WF_vars(NextBh) /\ WF_vars(BlockTimer)
    /\ WF_vars(StrayTimer) /\ WF_vars(mode = "run" /\ Tick)
    /\ WF_vars(SyncDone) /\ WF_vars(DrainRestart) /\ WF_vars(DrainDone)
    /\ \A c \in Co : WF_vars(Complete(c))

FairSpec == Spec /\ Fairness

-----------------------------------------------------------------------------
Distinct(q) == \A i, j \in DOMAIN q : q[i] = q[j] => i = j

(* A request that sleeps in bdrv_io_limits_intercept is linked exactly     *)
(* once, in throttled_reqs or on a bottom half: the lists share the link   *)
(* field co_queue_next, and a request on no list is never completed.       *)
LinkedOnce ==
    ~crashed =>
        /\ Distinct(queue) /\ Distinct(bhs) /\ Distinct(walk)
        /\ Range(queue) \cap (Range(bhs) \cup Range(walk)) = {}
        /\ Range(bhs) \cap Range(walk) = {}
        /\ \A c \in Co : req[c] = "waiting" <=>
               c \in Range(queue) \cup Range(bhs) \cup Range(walk)

(* No lost wake-up: while requests are throttled the timer is pending or a *)
(* bottom half will enter one of them, also after limits were changed,     *)
(* disabled and enabled, and after nested event loops.                     *)
NoLostWakeup ==
    ~crashed /\ queue # << >> => Armed \/ bhs # << >> \/ walk # << >>

(* bdrv_io_limits_enable, called by block_set_io_throttle when throttling  *)
(* is off and by bdrv_open, initialises a queue that holds no request.     *)
EnableLosesNobody ==
    (~enabled /\ mode # "unthrottled") \/ ~medium => queue = << >>

(* A request that finds throttling enabled finds a timer to arm.           *)
EnabledHasTimer ==
    medium /\ (enabled \/ (mode = "unthrottled" /\ saved)) => timer # NULL

(* bs->drv is tested before a request is throttled and used after: it is   *)
(* still there, because bdrv_close first gets every throttled request      *)
(* through.                                                                *)
ThrottledHasMedium ==
    \A c \in Co : req[c] \in {"waiting", "serving"} => medium

(* bdrv_drain_all returns only when no request is throttled or in flight:  *)
(* the two assertions at its end.                                          *)
AllDrained ==
    [][Draining /\ mode' = "run" => \A c \in Co : req[c] \in {"new", "done"}]_vars

(* Every throttled request is let through in the end.                      *)
Served ==
    \A c \in Co : req[c] = "waiting" ~> req[c] = "serving" \/ crashed

(* bdrv_drain_all returns, even though no timer runs inside it and         *)
(* vm_clock may stand still.                                               *)
DrainReturns == Draining ~> ~Draining \/ crashed

(* Throttled requests are let through in the order they came, which is     *)
(* what the comment in bdrv_io_limits_intercept hopes for.                 *)
Fifo ==
    [][\A c, d \in Co :
           /\ d < c /\ req[d] = "waiting"
           /\ enabled /\ mode = "run"
           => ~(req[c] \in {"new", "waiting"} /\ req'[c] = "serving")]_vars

(* Once bdrv_prwv_co has switched the throttling off, no request is        *)
(* throttled, so none arms the timer that is gone.                         *)
NoNullTimer == ~crashed

=============================================================================
