---------------------------- MODULE ThrottleRate ----------------------------
(***************************************************************************)
(* How much I/O the throttling of a BlockDriverState lets through over     *)
(* time.  Every evaluation of bdrv_exceed_io_limits is one step, at any    *)
(* time and for any request: first attempts, retries after the timer, and  *)
(* the early retries that a change of the limits or bdrv_drain_all cause.  *)
(* Which request is evaluated when is the business of module Throttle.     *)
(***************************************************************************)
EXTENDS IoLimits

CONSTANTS Sizes,        \* the request sizes considered, in bytes
          LimitSettings,\* the BlockIOLimit values an administrator may try
          MaxNow,       \* bound on the clock
          MaxEnd,       \* bound on the end of the slice being evaluated in
          MaxIos        \* bound on the operations counted per direction

ASSUME RateAssumption ==
    /\ Sizes \subseteq Nat
    /\ LimitSettings \subseteq [bps : [Kinds -> Int], iops : [Kinds -> Int]]
    /\ MaxNow \in Nat /\ MaxEnd \in Nat /\ MaxIos \in Nat

VARIABLES now,          \* vm_clock
          limits,       \* bs->io_limits
          slice,        \* bs->slice_start, slice_end, slice_submitted
          epoch,        \* since when the present limits have been accountable
          granted,      \* what was let through since epoch: bytes and ios
          inSlice       \* the part of it let through in the present slice

vars == <<now, limits, slice, epoch, granted, inSlice>>

NoIo == [bytes |-> [d \in Dirs |-> 0], ios |-> [d \in Dirs |-> 0]]
Amounts == [bytes : [Dirs -> Nat], ios : [Dirs -> Nat]]
Plus(amount, dir, n) == [bytes |-> [amount.bytes EXCEPT ![dir] = @ + n],
                         ios   |-> [amount.ios EXCEPT ![dir] = @ + 1]]

TypeOK ==
    /\ now \in Nat
    /\ limits \in Limits
    /\ slice \in Slices
    /\ epoch \in Nat
    /\ granted \in Amounts
    /\ inSlice \in Amounts

Init ==
    /\ now = 0
    /\ limits \in {l \in LimitSettings : LimitsValid(l)}
    /\ slice = [start |-> 0, end |-> 0, bytes |-> NoIo.bytes, ios |-> NoIo.ios]
    /\ epoch = 0
    /\ granted = NoIo
    /\ inSlice = NoIo

Tick == now < MaxNow /\ now' = now + 1
        /\ UNCHANGED <<limits, slice, epoch, granted, inSlice>>

(* bdrv_exceed_io_limits for a request of n bytes.                         *)
Evaluate(dir, n) ==
    LET e == ExceedIoLimits(limits, slice, now, dir, n)
        carried == IF now > slice.end THEN NoIo ELSE inSlice
    IN  /\ slice.end <= MaxEnd
        /\ granted.ios[dir] < MaxIos /\ slice.ios[dir] < MaxIos
        /\ slice' = e.slice
        /\ granted' = IF e.exceeds THEN granted ELSE Plus(granted, dir, n)
        /\ inSlice' = IF e.exceeds THEN carried ELSE Plus(carried, dir, n)
        /\ UNCHANGED <<now, limits, epoch>>

(* The accounts are closed: the present slice, if it has not ended, is     *)
(* kept with what it has submitted.                                        *)
NewEpoch(s) ==
    /\ epoch' = IF now > s.end THEN now ELSE s.start
    /\ granted' = NoIo
    /\ inSlice' = NoIo

(* bdrv_io_limits_disable: also before synchronous I/O.                    *)
Disable ==
    /\ slice' = [slice EXCEPT !.start = 0, !.end = 0]
    /\ NewEpoch(slice')
    /\ UNCHANGED <<now, limits>>

(* qmp_block_set_io_throttle with other limits.  A slice in progress goes  *)
(* on; removing every limit disables the throttling.                       *)
SetIoThrottle(l) ==
    /\ LimitsValid(l)
    /\ limits' = l
    /\ slice' = IF SomeLimit(l) THEN slice
                ELSE [slice EXCEPT !.start = 0, !.end = 0]
    /\ NewEpoch(slice')
    /\ UNCHANGED now

Next == \/ Tick
        \/ \E dir \in Dirs, n \in Sizes : Evaluate(dir, n)
        \/ Disable
        \/ \E l \in LimitSettings : SetIoThrottle(l)

Spec == Init /\ [][Next]_vars

-----------------------------------------------------------------------------
Horizon == MaxOf(slice.end, epoch)

(* What has been let through under the present limits fits the limits'     *)
(* rate up to the end of the slice, however often requests were retried    *)
(* and slices extended.                                                    *)
RateBound ==
    \A dir \in Dirs :
        /\ LET rate == Governing(limits.bps, dir) IN
           rate # 0 => Base(limits.bps, granted.bytes, dir) * NanosPerSecond
                         <= rate * (Horizon - epoch)
        /\ LET rate == Governing(limits.iops, dir) IN
           rate # 0 => Base(limits.iops, granted.ios, dir) * NanosPerSecond
                         <= rate * (Horizon - epoch)

(* The conversion of a waiting time to uint64_t is never given a negative  *)
(* value: a request that exceeds its byte limit has not yet been earned,   *)
(* whatever the limits were changed to meanwhile.                          *)
WaitNotNegative ==
    \A dir \in Dirs, n \in Sizes :
        ExceedBps(limits, CurrentSlice(slice, now), now, dir, n).wait >= 0

=============================================================================
