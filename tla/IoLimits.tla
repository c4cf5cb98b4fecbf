------------------------------ MODULE IoLimits ------------------------------
(***************************************************************************)
(* The arithmetic of block I/O throttling: bdrv_exceed_io_limits and the   *)
(* two functions it calls in block.c, and the validation of limits in      *)
(* blockdev.c.  The code computes with doubles in seconds; here the same   *)
(* comparisons are cross-multiplied, so they are exact, and the conversion *)
(* of a waiting time to integer nanoseconds truncates as the cast does.    *)
(***************************************************************************)
EXTENDS Integers

CONSTANTS NanosPerSecond,   \* NANOSECONDS_PER_SECOND: clock ticks in a second
          SliceTime         \* BLOCK_IO_SLICE_TIME: ticks in a slice

ASSUME IoLimitsAssumption ==
    /\ NanosPerSecond \in Nat \ {0}
    /\ SliceTime \in Nat \ {0}

Dirs == {"read", "write"}
Kinds == Dirs \cup {"total"}        \* BLOCK_IO_LIMIT_READ, _WRITE, _TOTAL
Other(dir) == IF dir = "read" THEN "write" ELSE "read"

(* BlockIOLimit; a limit of 0 means none.                                  *)
Limits == [bps : [Kinds -> Nat], iops : [Kinds -> Nat]]

(* The throttling slice of a BlockDriverState: slice_start, slice_end and  *)
(* slice_submitted (a BlockIOBaseValue).                                   *)
Slices == [start : Nat, end : Nat, bytes : [Dirs -> Nat], ios : [Dirs -> Nat]]

(* do_check_io_limits: a total excludes the limits per direction.          *)
LimitsValid(limits) ==
    \A l \in {limits.bps, limits.iops} :
        /\ ~(l["total"] # 0 /\ (l["read"] # 0 \/ l["write"] # 0))
        /\ \A k \in Kinds : l[k] >= 0

(* bdrv_io_limits_enabled.                                                 *)
SomeLimit(limits) == \E k \in Kinds : limits.bps[k] # 0 \/ limits.iops[k] # 0

(* The limit that governs a request of direction dir, 0 if there is none.  *)
Governing(l, dir) == IF l["total"] # 0 THEN l["total"] ELSE l[dir]

(* What the slice has submitted that counts against that limit.            *)
Base(l, submitted, dir) ==
    submitted[dir] + IF l["total"] # 0 THEN submitted[Other(dir)] ELSE 0

(* base units are more than rate units per second allow in this slice.     *)
Exceeds(rate, units, slice) ==
    rate # 0 /\ units * NanosPerSecond > rate * (slice.end - slice.start)

(* Ticks until units would have been earned at rate, cut to an integer.    *)
WaitTime(rate, units, elapsed) ==
    (units * NanosPerSecond - rate * elapsed) \div rate

MaxOf(a, b) == IF a > b THEN a ELSE b

(* DIV_ROUND_UP(ticks, BLOCK_IO_SLICE_TIME) * BLOCK_IO_SLICE_TIME.         *)
RoundUpToSlice(ticks) == ((ticks + SliceTime - 1) \div SliceTime) * SliceTime

(* Mutant of CurrentSlice: the submitted amounts are cleared but the slice *)
(* keeps its start.                                                        *)
CurrentSliceKeepsStart(slice, now) ==
    IF now > slice.end
    THEN [start |-> slice.start, end |-> now + SliceTime,
          bytes |-> [d \in Dirs |-> 0], ios |-> [d \in Dirs |-> 0]]
    ELSE slice

(* Mutant of CurrentSlice: a slice that has ended is not replaced.         *)
CurrentSliceForEver(slice, now) == slice

(* The slice that bdrv_exceed_io_limits works in: a fresh one once the old *)
(* one has ended.                                                          *)
CurrentSlice(slice, now) ==
    IF now > slice.end
    THEN [start |-> now, end |-> now + SliceTime,
          bytes |-> [d \in Dirs |-> 0], ios |-> [d \in Dirs |-> 0]]
    ELSE slice

(* bdrv_exceed_bps_limits: whether n more bytes exceed, how long to wait,  *)
(* and the slice, extended by whole slice times when they do.              *)
ExceedBps(limits, slice, now, dir, n) ==
    LET rate  == Governing(limits.bps, dir)
        units == Base(limits.bps, slice.bytes, dir) + n
        over  == Exceeds(rate, units, slice)
        wait  == IF over THEN WaitTime(rate, units, now - slice.start) ELSE 0
    IN  [exceeds |-> over, wait |-> wait,
         slice |-> [slice EXCEPT !.end = @ + RoundUpToSlice(wait)]]

(* bdrv_exceed_iops_limits: the same for one more operation, extending by  *)
(* a single slice time.                                                    *)
ExceedIops(limits, slice, now, dir) ==
    LET rate  == Governing(limits.iops, dir)
        units == Base(limits.iops, slice.ios, dir) + 1
        over  == Exceeds(rate, units, slice)
        wait  == IF over THEN MaxOf(0, WaitTime(rate, units, now - slice.start))
                         ELSE 0
    IN  [exceeds |-> over, wait |-> wait,
         slice |-> [slice EXCEPT !.end = @ + IF over THEN SliceTime ELSE 0]]

(* bdrv_exceed_io_limits.  The two limits are tried one after the other,   *)
(* the second in the slice the first may have extended.                    *)
ExceedIoLimits(limits, slice, now, dir, n) ==
    LET b == ExceedBps(limits, CurrentSlice(slice, now), now, dir, n)
        i == ExceedIops(limits, b.slice, now, dir)
        wait == MaxOf(b.wait, i.wait)
    IN  IF b.exceeds \/ i.exceeds
        THEN [exceeds |-> TRUE, wait |-> wait,
              slice |-> [i.slice EXCEPT !.end = MaxOf(@, now + wait)]]
        ELSE [exceeds |-> FALSE, wait |-> 0,
              slice |-> [i.slice EXCEPT !.bytes[dir] = @ + n,
                                        !.ios[dir] = @ + 1]]

=============================================================================
