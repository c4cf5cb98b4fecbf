------------------------- MODULE ThrottleRateProofs -------------------------
(***************************************************************************)
(* The rate the throttling lets through, for all limits, request sizes,    *)
(* slice lengths and clocks, from what one evaluation of them returns.     *)
(***************************************************************************)
EXTENDS ThrottleRate, TLAPS

-----------------------------------------------------------------------------
(* The arithmetic of one evaluation.                                       *)

(* Arithmetic the provers need spelled out.                                *)
LEMMA MulMono ==
    ASSUME NEW r \in Nat, NEW x \in Int, NEW y \in Int, x <= y
    PROVE  r * x <= r * y
<1>1. r * (y - x) >= 0
  OBVIOUS
<1>2. r * (y - x) = r * y - r * x
  OBVIOUS
<1> QED BY <1>1, <1>2

(* Division of naturals gives a natural.                                   *)
LEMMA DivNat ==
    ASSUME NEW a \in Nat, NEW b \in Nat \ {0}
    PROVE  a \div b \in Nat
OBVIOUS

(* Rounding up to whole slices never shortens.                             *)
LEMMA RoundUp ==
    ASSUME NEW w \in Nat
    PROVE  RoundUpToSlice(w) \in Nat /\ RoundUpToSlice(w) >= w
<1> DEFINE q == (w + SliceTime - 1) \div SliceTime
<1>1. SliceTime \in Nat \ {0} /\ w + SliceTime - 1 \in Nat
  BY IoLimitsAssumption
<1>2. q \in Nat
  BY <1>1, DivNat
<1>3. w + SliceTime - 1 < q * SliceTime + SliceTime
  BY <1>1
<1> QED BY <1>1, <1>2, <1>3 DEF RoundUpToSlice

(* A request over its limit is not yet earned: the wait is not negative.   *)
LEMMA WaitIsNat ==
    ASSUME NEW rate \in Nat, NEW units \in Nat, NEW s \in Slices, NEW t \in Nat,
           s.start <= t, t <= s.end, Exceeds(rate, units, s)
    PROVE  WaitTime(rate, units, t - s.start) \in Nat
<1>1. rate \in Nat \ {0} /\ units * NanosPerSecond > rate * (s.end - s.start)
  BY DEF Exceeds
<1>2. s.start \in Nat /\ s.end \in Nat /\ NanosPerSecond \in Nat
  BY IoLimitsAssumption DEF Slices
<1>3. rate * (t - s.start) <= rate * (s.end - s.start)
  BY <1>2, MulMono
<1>4. /\ units * NanosPerSecond \in Nat
      /\ rate * (t - s.start) \in Nat /\ rate * (s.end - s.start) \in Nat
  BY <1>2
<1>5. units * NanosPerSecond - rate * (t - s.start) \in Nat
  BY <1>1, <1>3, <1>4
<1> QED BY <1>1, <1>5, DivNat DEF WaitTime

(* The governing rate and the amount it is compared with are naturals.     *)
LEMMA RatesAreNat ==
    ASSUME NEW l \in [Kinds -> Nat], NEW f \in [Dirs -> Nat], NEW dir \in Dirs
    PROVE  Governing(l, dir) \in Nat /\ Base(l, f, dir) \in Nat
BY DEF Governing, Base, Kinds, Dirs, Other

(* The slice an evaluation works in contains the present.                  *)
LEMMA CurrentSliceFacts ==
    ASSUME NEW s \in Slices, NEW t \in Nat, s.start <= t
    PROVE  /\ CurrentSlice(s, t) \in Slices
           /\ CurrentSlice(s, t).start <= t
           /\ t <= CurrentSlice(s, t).end
BY IoLimitsAssumption DEF CurrentSlice, Slices, Dirs

(* bdrv_exceed_bps_limits only ever lengthens the slice.                   *)
LEMMA ExceedBpsFacts ==
    ASSUME NEW l \in Limits, NEW s \in Slices, NEW t \in Nat,
           s.start <= t, t <= s.end, NEW dir \in Dirs, NEW n \in Nat
    PROVE  LET b == ExceedBps(l, s, t, dir, n)
               rate == Governing(l.bps, dir)
               units == Base(l.bps, s.bytes, dir) + n
           IN  /\ b.exceeds = Exceeds(rate, units, s)
               /\ b.wait \in Nat
               /\ b.slice \in Slices
               /\ b.slice.end = s.end + RoundUpToSlice(b.wait)
               /\ b.slice.end >= s.end /\ b.slice.start = s.start
               /\ b.slice.bytes = s.bytes /\ b.slice.ios = s.ios
               /\ ~b.exceeds => b.slice = s /\ b.wait = 0
<1> DEFINE b == ExceedBps(l, s, t, dir, n)
           rate == Governing(l.bps, dir)
           units == Base(l.bps, s.bytes, dir) + n
<1>1. rate \in Nat /\ units \in Nat
  <2>1. l.bps \in [Kinds -> Nat] /\ s.bytes \in [Dirs -> Nat]
    BY DEF Limits, Slices
  <2> QED BY <2>1, RatesAreNat
<1>2. /\ b.exceeds = Exceeds(rate, units, s)
      /\ b.wait = IF Exceeds(rate, units, s)
                  THEN WaitTime(rate, units, t - s.start) ELSE 0
      /\ b.slice = [s EXCEPT !.end = @ + RoundUpToSlice(b.wait)]
  BY DEF ExceedBps
<1>3. b.wait \in Nat
  BY <1>1, <1>2, WaitIsNat
<1>4. RoundUpToSlice(b.wait) \in Nat
  BY <1>3, RoundUp
<1>5. b.wait = 0 => RoundUpToSlice(b.wait) = 0
  BY IoLimitsAssumption DEF RoundUpToSlice
<1> HIDE DEF b, rate, units
<1>6. /\ b.slice \in Slices /\ b.slice.end = s.end + RoundUpToSlice(b.wait)
      /\ b.slice.end >= s.end /\ b.slice.start = s.start
      /\ b.slice.bytes = s.bytes /\ b.slice.ios = s.ios
  BY <1>2, <1>4 DEF Slices
<1>7. ~b.exceeds => b.slice = s /\ b.wait = 0
  BY <1>2, <1>5 DEF Slices
<1> QED BY <1>2, <1>3, <1>6, <1>7 DEF b, rate, units

(* What bdrv_exceed_iops_limits promises of its verdict i.                 *)
IopsVerdict(l, s, dir, i) ==
    /\ i.exceeds = Exceeds(Governing(l.iops, dir), Base(l.iops, s.ios, dir) + 1, s)
    /\ i.wait \in Nat
    /\ i.slice \in Slices
    /\ i.slice.end >= s.end /\ i.slice.start = s.start
    /\ i.slice.bytes = s.bytes /\ i.slice.ios = s.ios
    /\ ~i.exceeds => i.slice = s /\ i.wait = 0

(* IopsVerdict describes what bdrv_exceed_iops_limits returns.             *)
LEMMA ExceedIopsFacts ==
    ASSUME NEW l \in Limits, NEW s \in Slices, NEW t \in Nat,
           s.start <= t, t <= s.end, NEW dir \in Dirs
    PROVE  IopsVerdict(l, s, dir, ExceedIops(l, s, t, dir))
<1> DEFINE i == ExceedIops(l, s, t, dir)
           rate == Governing(l.iops, dir)
           units == Base(l.iops, s.ios, dir) + 1
<1>1. rate \in Nat /\ units \in Nat
  <2>1. l.iops \in [Kinds -> Nat] /\ s.ios \in [Dirs -> Nat]
    BY DEF Limits, Slices
  <2> QED BY <2>1, RatesAreNat
<1>2. /\ i.exceeds = Exceeds(rate, units, s)
      /\ i.wait = IF Exceeds(rate, units, s)
                  THEN MaxOf(0, WaitTime(rate, units, t - s.start)) ELSE 0
      /\ i.slice = [s EXCEPT !.end = @ + IF Exceeds(rate, units, s)
                                         THEN SliceTime ELSE 0]
  BY DEF ExceedIops
<1>3. i.wait \in Nat
  BY <1>1, <1>2, WaitIsNat DEF MaxOf
<1> HIDE DEF i, rate, units
<1>4. /\ i.slice \in Slices
      /\ i.slice.end >= s.end /\ i.slice.start = s.start
      /\ i.slice.bytes = s.bytes /\ i.slice.ios = s.ios
      /\ ~i.exceeds => i.slice = s
  BY <1>2, IoLimitsAssumption, SMTT(60) DEF Slices
<1> QED BY <1>2, <1>3, <1>4 DEF IopsVerdict, i, rate, units

(* bdrv_exceed_io_limits: a refusal lengthens the slice to the time of the *)
(* retry at least and submits nothing; a grant leaves the slice its length *)
(* and was within both limits.                                             *)
Evaluation(l, s, t, dir, n, e) ==
    /\ e.exceeds \in BOOLEAN /\ e.wait \in Nat /\ e.slice \in Slices
    /\ e.slice.start <= t
    /\ e.slice.start = s.start /\ e.slice.end >= s.end
    /\ e.exceeds => /\ e.slice.bytes = s.bytes /\ e.slice.ios = s.ios
                    /\ e.slice.end >= t + e.wait
    /\ ~e.exceeds =>
         /\ e.slice.end = s.end
         /\ e.slice.bytes = [s.bytes EXCEPT ![dir] = @ + n]
         /\ e.slice.ios = [s.ios EXCEPT ![dir] = @ + 1]
         /\ ~Exceeds(Governing(l.bps, dir), Base(l.bps, s.bytes, dir) + n, s)
         /\ ~Exceeds(Governing(l.iops, dir), Base(l.iops, s.ios, dir) + 1, s)

(* Evaluation describes what bdrv_exceed_io_limits returns.                *)
LEMMA ExceedIoLimitsFacts ==
    ASSUME NEW l \in Limits, NEW old \in Slices, NEW t \in Nat, old.start <= t,
           NEW dir \in Dirs, NEW n \in Nat
    PROVE  Evaluation(l, CurrentSlice(old, t), t, dir, n,
                      ExceedIoLimits(l, old, t, dir, n))
<1> DEFINE s == CurrentSlice(old, t)
           e == ExceedIoLimits(l, old, t, dir, n)
           b == ExceedBps(l, s, t, dir, n)
           i == ExceedIops(l, b.slice, t, dir)
           wait == MaxOf(b.wait, i.wait)
<1>1. s \in Slices /\ s.start <= t /\ t <= s.end /\ s.start \in Nat /\ s.end \in Nat
  BY CurrentSliceFacts DEF Slices
<1>2. /\ b.wait \in Nat /\ b.slice \in Slices /\ b.slice.end >= s.end
      /\ b.slice.start = s.start /\ b.slice.bytes = s.bytes /\ b.slice.ios = s.ios
      /\ ~b.exceeds => b.slice = s /\ b.wait = 0
      /\ b.exceeds = Exceeds(Governing(l.bps, dir), Base(l.bps, s.bytes, dir) + n, s)
  BY <1>1, ExceedBpsFacts
<1>3. b.slice.start <= t /\ t <= b.slice.end /\ b.slice.end \in Nat
  BY <1>1, <1>2, SMTT(60) DEF Slices
<1>4. /\ i.wait \in Nat /\ i.slice \in Slices /\ i.slice.end >= b.slice.end
      /\ i.slice.start = b.slice.start
      /\ i.slice.bytes = b.slice.bytes /\ i.slice.ios = b.slice.ios
      /\ ~i.exceeds => i.slice = b.slice /\ i.wait = 0
      /\ i.exceeds = Exceeds(Governing(l.iops, dir),
                             Base(l.iops, b.slice.ios, dir) + 1, b.slice)
  <2>1. IopsVerdict(l, b.slice, dir, i)
    BY <1>2, <1>3, ExceedIopsFacts, Zenon
  <2> HIDE DEF i, b
  <2> QED BY <2>1 DEF IopsVerdict
<1>5. e = IF b.exceeds \/ i.exceeds
          THEN [exceeds |-> TRUE, wait |-> wait,
                slice |-> [i.slice EXCEPT !.end = MaxOf(@, t + wait)]]
          ELSE [exceeds |-> FALSE, wait |-> 0,
                slice |-> [i.slice EXCEPT !.bytes[dir] = @ + n, !.ios[dir] = @ + 1]]
  BY DEF ExceedIoLimits
<1> HIDE DEF s, e, b, i
<1>6. wait \in Nat
  BY <1>2, <1>4 DEF MaxOf
<1> HIDE DEF wait
<1>7. CASE b.exceeds \/ i.exceeds
  <2>1. e.exceeds = TRUE /\ e.wait = wait
        /\ e.slice = [i.slice EXCEPT !.end = MaxOf(@, t + wait)]
    BY <1>5, <1>7
  <2>2. i.slice.end \in Nat /\ MaxOf(i.slice.end, t + wait) \in Nat
        /\ MaxOf(i.slice.end, t + wait) >= i.slice.end
        /\ MaxOf(i.slice.end, t + wait) >= t + wait
    BY <1>4, <1>6 DEF MaxOf, Slices
  <2>3. /\ e.slice \in Slices /\ e.slice.start = i.slice.start
        /\ e.slice.end = MaxOf(i.slice.end, t + wait)
        /\ e.slice.bytes = i.slice.bytes /\ e.slice.ios = i.slice.ios
    BY <1>4, <2>1, <2>2 DEF Slices
  <2>4. /\ e.exceeds \in BOOLEAN /\ e.wait \in Nat /\ e.exceeds
        /\ e.slice.start = s.start /\ e.slice.bytes = s.bytes
        /\ e.slice.ios = s.ios
    BY <1>2, <1>4, <1>6, <2>1, <2>3, Zenon
  <2>5. e.slice.end >= s.end /\ e.slice.end >= t + e.wait
    BY <1>1, <1>2, <1>3, <1>4, <2>1, <2>2, <2>3
  <2>6. e.slice.start <= t
    BY <1>1, <2>4
  <2>7. Evaluation(l, s, t, dir, n, e)
    BY <2>3, <2>4, <2>5, <2>6 DEF Evaluation
  <2> QED BY <2>7 DEF s, e
<1>8. CASE ~(b.exceeds \/ i.exceeds)
  <2>1. i.slice = s
    BY <1>2, <1>4, <1>8
  <2>2. e.exceeds = FALSE /\ e.wait = 0
        /\ e.slice = [s EXCEPT !.bytes[dir] = @ + n, !.ios[dir] = @ + 1]
    BY <1>5, <1>8, <2>1
  <2>3. /\ e.slice \in Slices /\ e.slice.start = s.start /\ e.slice.end = s.end
        /\ e.slice.bytes = [s.bytes EXCEPT ![dir] = @ + n]
        /\ e.slice.ios = [s.ios EXCEPT ![dir] = @ + 1]
    <3>1. s.bytes \in [Dirs -> Nat] /\ s.ios \in [Dirs -> Nat]
      BY <1>1 DEF Slices
    <3>2. /\ [s.bytes EXCEPT ![dir] = @ + n] \in [Dirs -> Nat]
          /\ [s.ios EXCEPT ![dir] = @ + 1] \in [Dirs -> Nat]
      BY <3>1
    <3>3. e.slice = [start |-> s.start, end |-> s.end,
                     bytes |-> [s.bytes EXCEPT ![dir] = @ + n],
                     ios |-> [s.ios EXCEPT ![dir] = @ + 1]]
      BY <1>1, <2>2, Zenon DEF Slices
    <3> QED BY <1>1, <3>2, <3>3 DEF Slices
  <2>4. Evaluation(l, s, t, dir, n, e)
    BY <1>1, <1>2, <1>4, <1>8, <2>1, <2>2, <2>3, Zenon DEF Evaluation
  <2> QED BY <2>4, Zenon DEF s, e
<1> QED BY <1>7, <1>8, Zenon

(* What a retry or a first attempt needs of an evaluation.                 *)
LEMMA EvaluationFacts ==
    ASSUME NEW l \in Limits, NEW old \in Slices, NEW t \in Nat, old.start <= t,
           NEW dir \in Dirs, NEW n \in Nat
    PROVE  LET e == ExceedIoLimits(l, old, t, dir, n)
           IN  /\ e.exceeds \in BOOLEAN /\ e.wait \in Nat
               /\ e.slice \in Slices /\ e.slice.start <= t
<1> DEFINE e == ExceedIoLimits(l, old, t, dir, n)
<1>1. Evaluation(l, CurrentSlice(old, t), t, dir, n, e)
  BY ExceedIoLimitsFacts, Zenon
<1> HIDE DEF e
<1>2. /\ e.exceeds \in BOOLEAN /\ e.wait \in Nat
      /\ e.slice \in Slices /\ e.slice.start <= t
  BY <1>1, Zenon DEF Evaluation
<1> QED BY <1>2, Zenon DEF e

(* A request refused for its bytes, and earned after a whole number of     *)
(* ticks, is granted by the next evaluation that falls into the extended   *)
(* slice, also one at the same instant.  So bdrv_drain_all, which retries  *)
(* with vm_clock stopped, gets it through.                                 *)
THEOREM RefusedThenGranted ==
    ASSUME NEW l \in Limits, \A k \in Kinds : l.iops[k] = 0,
           NEW old \in Slices, NEW t \in Nat, old.start <= t,
           NEW dir \in Dirs, NEW n \in Nat, NEW q \in Nat,
           ExceedIoLimits(l, old, t, dir, n).exceeds,
           (Base(l.bps, CurrentSlice(old, t).bytes, dir) + n) * NanosPerSecond
               = Governing(l.bps, dir) * q,
           NEW later \in Nat, t <= later,
           later <= ExceedIoLimits(l, old, t, dir, n).slice.end
    PROVE  ~ExceedIoLimits(l, ExceedIoLimits(l, old, t, dir, n).slice,
                           later, dir, n).exceeds
<1> DEFINE s == CurrentSlice(old, t)
           e == ExceedIoLimits(l, old, t, dir, n)
           b == ExceedBps(l, s, t, dir, n)
           rate == Governing(l.bps, dir)
           units == Base(l.bps, s.bytes, dir) + n
<1>1. s \in Slices /\ s.start <= t /\ t <= s.end /\ s.start \in Nat /\ s.end \in Nat
  BY CurrentSliceFacts DEF Slices
<1>2. /\ b.exceeds = Exceeds(rate, units, s) /\ b.wait \in Nat /\ b.slice \in Slices
      /\ b.slice.end = s.end + RoundUpToSlice(b.wait)
      /\ b.slice.start = s.start /\ b.slice.bytes = s.bytes /\ b.slice.ios = s.ios
  BY <1>1, ExceedBpsFacts
<1>3. ASSUME NEW any, NEW clock PROVE ~ExceedIops(l, any, clock, dir).exceeds
  BY Zenon DEF ExceedIops, Governing, Exceeds, Kinds, Dirs
<1>4. b.exceeds /\ e.slice.bytes = s.bytes
      /\ e.slice.start = s.start /\ e.slice.end >= t + e.wait /\ e.slice \in Slices
  <2>1. b.exceeds
    BY <1>3 DEF ExceedIoLimits
  <2>2. Evaluation(l, s, t, dir, n, e)
    BY ExceedIoLimitsFacts, Zenon
  <2> QED BY <2>1, <2>2, Zenon DEF Evaluation
<1>5. e.wait >= b.wait /\ e.wait \in Nat
  <2> DEFINE i == ExceedIops(l, b.slice, t, dir)
  <2>1. e.wait = MaxOf(b.wait, i.wait)
    BY <1>4 DEF ExceedIoLimits
  <2>2. i.wait = 0
    BY <1>3 DEF ExceedIops
  <2> QED BY <1>2, <2>1, <2>2 DEF MaxOf
<1>6. rate \in Nat /\ rate # 0 /\ units \in Nat
  <2>1. l.bps \in [Kinds -> Nat] /\ s.bytes \in [Dirs -> Nat]
    BY <1>1 DEF Limits, Slices
  <2>2. rate \in Nat /\ Base(l.bps, s.bytes, dir) \in Nat
    BY <2>1, RatesAreNat
  <2>3. rate # 0
    BY <1>2, <1>4, Zenon DEF Exceeds
  <2>4. units \in Nat
    <3> HIDE DEF s
    <3> QED BY <2>2
  <2> QED BY <2>2, <2>3, <2>4
<1>7. b.wait = WaitTime(rate, units, t - s.start)
  BY <1>2, <1>4 DEF ExceedBps
<1>8. units * NanosPerSecond = rate * q
  OBVIOUS
<1> HIDE DEF b, rate, units, s, e
<1>9. b.wait = q - (t - s.start)
  <2>1. rate * q - rate * (t - s.start) = rate * (q - (t - s.start))
    BY <1>1, <1>6
  <2>2. (rate * (q - (t - s.start))) \div rate = q - (t - s.start)
    BY <1>1, <1>6
  <2> QED BY <1>7, <1>8, <2>1, <2>2 DEF WaitTime
<1>10. e.slice.end \in Nat /\ q <= e.slice.end - e.slice.start
  BY <1>1, <1>2, <1>4, <1>5, <1>9 DEF Slices
<1>11. rate * q <= rate * (e.slice.end - e.slice.start)
  BY <1>1, <1>4, <1>6, <1>10, MulMono
<1>12. ~Exceeds(rate, units, e.slice)
  BY <1>1, <1>4, <1>6, <1>8, <1>10, <1>11 DEF Exceeds
<1>13. CurrentSlice(e.slice, later) = e.slice
  BY <1>10 DEF CurrentSlice, e
<1>14. ~ExceedBps(l, e.slice, later, dir, n).exceeds
  BY <1>4, <1>12 DEF ExceedBps, rate, units
<1> QED BY <1>3, <1>13, <1>14, Zenon DEF ExceedIoLimits, e

-----------------------------------------------------------------------------
(* A limit table l is kept, by slice s and epoch ep, for the amounts g let *)
(* through since ep and i of them in s: the slice's share fits its length  *)
(* and the earlier slices' share fits the time before it.                  *)
Fits(l, g, i, s, ep) ==
    \A d \in Dirs : Governing(l, d) # 0 =>
        /\ Base(l, i, d) * NanosPerSecond <= Governing(l, d) * (s.end - s.start)
        /\ (Base(l, g, d) - Base(l, i, d)) * NanosPerSecond
               <= Governing(l, d) * (s.start - ep)

AtMost(f, g) == \A d \in Dirs : f[d] <= g[d]

(* Lengthening the slice keeps the table.                                  *)
LEMMA FitsLonger ==
    ASSUME NEW l \in [Kinds -> Nat], NEW g \in [Dirs -> Nat],
           NEW i \in [Dirs -> Nat], NEW s \in Slices, NEW t \in Slices,
           NEW ep \in Nat, Fits(l, g, i, s, ep),
           t.start = s.start, t.end >= s.end
    PROVE  Fits(l, g, i, t, ep)
<1> SUFFICES ASSUME NEW d \in Dirs, Governing(l, d) # 0
             PROVE  Base(l, i, d) * NanosPerSecond
                        <= Governing(l, d) * (t.end - t.start)
  BY DEF Fits
<1>1. s.start \in Nat /\ s.end \in Nat /\ t.end \in Nat
  BY DEF Slices
<1>2. Governing(l, d) \in Nat /\ Base(l, i, d) \in Nat
  BY RatesAreNat
<1>3. Governing(l, d) * (s.end - s.start) <= Governing(l, d) * (t.end - t.start)
  BY <1>1, <1>2, MulMono
<1>4. Base(l, i, d) * NanosPerSecond <= Governing(l, d) * (s.end - s.start)
  BY DEF Fits
<1>5. /\ Base(l, i, d) * NanosPerSecond \in Int
      /\ Governing(l, d) * (s.end - s.start) \in Int
      /\ Governing(l, d) * (t.end - t.start) \in Int
  BY <1>1, <1>2, IoLimitsAssumption
<1> QED BY <1>3, <1>4, <1>5

(* A fresh slice after the end of the old one keeps the table, everything  *)
(* let through so far belonging to the time before it.                     *)
LEMMA FitsFresh ==
    ASSUME NEW l \in [Kinds -> Nat], NEW g \in [Dirs -> Nat],
           NEW i \in [Dirs -> Nat], NEW s \in Slices, NEW t \in Slices,
           NEW ep \in Nat, Fits(l, g, i, s, ep),
           t.start >= s.end, t.end >= t.start
    PROVE  Fits(l, g, [d \in Dirs |-> 0], t, ep)
<1> DEFINE z == [d \in Dirs |-> 0]
<1> SUFFICES ASSUME NEW d \in Dirs, Governing(l, d) # 0
             PROVE  /\ Base(l, z, d) * NanosPerSecond
                          <= Governing(l, d) * (t.end - t.start)
                    /\ (Base(l, g, d) - Base(l, z, d)) * NanosPerSecond
                          <= Governing(l, d) * (t.start - ep)
  BY DEF Fits
<1> DEFINE r == Governing(l, d)
           bg == Base(l, g, d)
           bi == Base(l, i, d)
<1>1. /\ s.start \in Nat /\ s.end \in Nat /\ t.end \in Nat /\ t.start \in Nat
      /\ NanosPerSecond \in Nat
  BY IoLimitsAssumption DEF Slices
<1>2. r \in Nat /\ bg \in Nat /\ bi \in Nat
  BY RatesAreNat
<1>3. Base(l, z, d) = 0
  BY DEF Base, Dirs, Other
<1>4. /\ bi * NanosPerSecond <= r * (s.end - s.start)
      /\ (bg - bi) * NanosPerSecond <= r * (s.start - ep)
  BY DEF Fits
<1>5. r * (s.end - ep) <= r * (t.start - ep) /\ r * 0 <= r * (t.end - t.start)
  BY <1>1, <1>2, MulMono
<1> HIDE DEF r, bg, bi
<1>6. bg * NanosPerSecond = bi * NanosPerSecond + (bg - bi) * NanosPerSecond
  BY <1>1, <1>2
<1>7. r * (s.end - ep) = r * (s.end - s.start) + r * (s.start - ep)
  BY <1>1, <1>2
<1>8. /\ r * (s.end - ep) \in Int /\ r * (t.start - ep) \in Int
      /\ r * (s.end - s.start) \in Int /\ r * (s.start - ep) \in Int
      /\ bi * NanosPerSecond \in Int /\ (bg - bi) * NanosPerSecond \in Int
  BY <1>1, <1>2
<1>9. bg * NanosPerSecond <= r * (t.start - ep)
  BY <1>4, <1>5, <1>6, <1>7, <1>8
<1>10. /\ 0 * NanosPerSecond = 0 /\ (bg - 0) * NanosPerSecond = bg * NanosPerSecond
       /\ r * 0 = 0
  BY <1>1, <1>2
<1> QED BY <1>3, <1>5, <1>9, <1>10 DEF r, bg

(* A grant within the limit keeps the table.                               *)
LEMMA FitsGrant ==
    ASSUME NEW l \in [Kinds -> Nat], NEW g \in [Dirs -> Nat],
           NEW i \in [Dirs -> Nat], NEW sub \in [Dirs -> Nat], NEW s \in Slices,
           NEW ep \in Nat, Fits(l, g, i, s, ep), AtMost(i, sub),
           NEW dir \in Dirs, NEW n \in Nat,
           ~Exceeds(Governing(l, dir), Base(l, sub, dir) + n, s)
    PROVE  Fits(l, [g EXCEPT ![dir] = @ + n], [i EXCEPT ![dir] = @ + n], s, ep)
<1> DEFINE g2 == [g EXCEPT ![dir] = @ + n]
           i2 == [i EXCEPT ![dir] = @ + n]
<1> SUFFICES ASSUME NEW d \in Dirs, Governing(l, d) # 0
             PROVE  /\ Base(l, i2, d) * NanosPerSecond
                          <= Governing(l, d) * (s.end - s.start)
                    /\ (Base(l, g2, d) - Base(l, i2, d)) * NanosPerSecond
                          <= Governing(l, d) * (s.start - ep)
  BY Zenon DEF Fits
<1>1. /\ Base(l, g, d) \in Nat /\ Base(l, i, d) \in Nat /\ Base(l, sub, dir) \in Nat
      /\ g2 \in [Dirs -> Nat] /\ i2 \in [Dirs -> Nat]
  BY RatesAreNat
<1>2. Base(l, g2, d) \in Nat /\ Base(l, i2, d) \in Nat
  BY <1>1, RatesAreNat, Zenon
<1>3. Base(l, g2, d) - Base(l, i2, d) = Base(l, g, d) - Base(l, i, d)
  BY DEF Base, Dirs, Other
<1>4. CASE l["total"] # 0 \/ d = dir
  <2>1. Base(l, i2, d) = Base(l, i, dir) + n /\ Base(l, i, dir) <= Base(l, sub, dir)
    BY <1>4 DEF Base, Dirs, Other, AtMost
  <2>2. Governing(l, d) = Governing(l, dir)
    BY <1>4 DEF Governing
  <2>3. (Base(l, sub, dir) + n) * NanosPerSecond
            <= Governing(l, d) * (s.end - s.start)
    <3>1. ~((Base(l, sub, dir) + n) * NanosPerSecond
              > Governing(l, d) * (s.end - s.start))
      BY <2>2 DEF Exceeds
    <3>2. /\ (Base(l, sub, dir) + n) * NanosPerSecond \in Int
          /\ Governing(l, d) * (s.end - s.start) \in Int
      BY <1>1, RatesAreNat, IoLimitsAssumption DEF Slices
    <3> QED BY <3>1, <3>2
  <2>4. Base(l, i2, d) <= Base(l, sub, dir) + n
    BY <1>1, <1>2, <2>1, RatesAreNat
  <2>5. NanosPerSecond * Base(l, i2, d) <= NanosPerSecond * (Base(l, sub, dir) + n)
    BY <1>1, <1>2, <2>4, MulMono, IoLimitsAssumption
  <2>6. Base(l, i2, d) * NanosPerSecond <= Governing(l, d) * (s.end - s.start)
    <3>1. /\ NanosPerSecond \in Nat /\ Governing(l, d) \in Nat
          /\ s.end \in Nat /\ s.start \in Nat
      BY RatesAreNat, IoLimitsAssumption DEF Slices
    <3> QED BY <1>1, <1>2, <2>3, <2>5, <3>1
  <2> QED BY <1>3, <2>6 DEF Fits
<1>5. CASE l["total"] = 0 /\ d # dir
  <2>1. Base(l, i2, d) = Base(l, i, d)
    BY <1>5 DEF Base
  <2> QED BY <1>3, <2>1 DEF Fits
<1> QED BY <1>4, <1>5

(* Nothing let through keeps any table.                                    *)
LEMMA FitsNothing ==
    ASSUME NEW l \in [Kinds -> Nat], NEW t \in Slices, NEW ep \in Nat,
           ep <= t.start, t.end >= t.start
    PROVE  Fits(l, [d \in Dirs |-> 0], [d \in Dirs |-> 0], t, ep)
<1> DEFINE z == [d \in Dirs |-> 0]
<1> SUFFICES ASSUME NEW d \in Dirs
             PROVE  /\ Base(l, z, d) * NanosPerSecond
                          <= Governing(l, d) * (t.end - t.start)
                    /\ (Base(l, z, d) - Base(l, z, d)) * NanosPerSecond
                          <= Governing(l, d) * (t.start - ep)
  BY DEF Fits
<1>1. Base(l, z, d) = 0
  BY DEF Base, Dirs, Other
<1>2. t.start \in Nat /\ t.end \in Nat /\ NanosPerSecond \in Nat
      /\ Governing(l, d) \in Nat
  BY RatesAreNat, IoLimitsAssumption DEF Slices
<1>3. /\ Governing(l, d) * 0 <= Governing(l, d) * (t.end - t.start)
      /\ Governing(l, d) * 0 <= Governing(l, d) * (t.start - ep)
  BY <1>2, MulMono
<1> QED BY <1>1, <1>2, <1>3

(* The inductive invariant.  Either the present slice began within the     *)
(* epoch and both tables are kept, or no request has been evaluated since  *)
(* an epoch that began after the slice had ended.                          *)
Accounted ==
    \/ /\ epoch <= slice.start
       /\ Fits(limits.bps, granted.bytes, inSlice.bytes, slice, epoch)
       /\ Fits(limits.iops, granted.ios, inSlice.ios, slice, epoch)
    \/ /\ epoch > slice.end
       /\ granted = NoIo
       /\ inSlice = NoIo

IInv ==
    /\ TypeOK
    /\ slice.start <= now /\ slice.start <= slice.end /\ epoch <= now
    /\ AtMost(inSlice.bytes, slice.bytes)
    /\ AtMost(inSlice.ios, slice.ios)
    /\ Accounted

(* The empty account.                                                      *)
LEMMA NoIoFacts == NoIo \in Amounts /\ NoIo.bytes = [d \in Dirs |-> 0]
                   /\ NoIo.ios = [d \in Dirs |-> 0]
BY DEF NoIo, Amounts

(* Adding a request to an account.                                         *)
LEMMA PlusFacts ==
    ASSUME NEW a \in Amounts, NEW dir \in Dirs, NEW n \in Nat
    PROVE  /\ Plus(a, dir, n) \in Amounts
           /\ Plus(a, dir, n).bytes = [a.bytes EXCEPT ![dir] = @ + n]
           /\ Plus(a, dir, n).ios = [a.ios EXCEPT ![dir] = @ + 1]
<1>1. a.bytes \in [Dirs -> Nat] /\ a.ios \in [Dirs -> Nat]
  BY DEF Amounts
<1>2. /\ [a.bytes EXCEPT ![dir] = @ + n] \in [Dirs -> Nat]
      /\ [a.ios EXCEPT ![dir] = @ + 1] \in [Dirs -> Nat]
  BY <1>1
<1> QED BY <1>2 DEF Plus, Amounts

(* An epoch that begins now accounts for nothing yet.                      *)
LEMMA NewEpochKeepsIInv ==
    ASSUME TypeOK, slice' \in Slices, limits' \in Limits, now' = now,
           slice'.start <= now, slice'.start <= slice'.end, NewEpoch(slice')
    PROVE  IInv'
<1>1. granted' = NoIo /\ inSlice' = NoIo /\ now \in Nat
      /\ epoch' = IF now > slice'.end THEN now ELSE slice'.start
  BY DEF NewEpoch, TypeOK
<1>2. /\ slice'.start \in Nat /\ slice'.end \in Nat
      /\ slice'.bytes \in [Dirs -> Nat] /\ slice'.ios \in [Dirs -> Nat]
      /\ limits'.bps \in [Kinds -> Nat] /\ limits'.iops \in [Kinds -> Nat]
  BY DEF Slices, Limits
<1>3. TypeOK' /\ epoch' <= now
  BY <1>1, <1>2, NoIoFacts DEF TypeOK
<1>4. AtMost(inSlice'.bytes, slice'.bytes) /\ AtMost(inSlice'.ios, slice'.ios)
  BY <1>1, <1>2, NoIoFacts DEF AtMost
<1>5. Accounted'
  <2>1. CASE now > slice'.end
    BY <1>1, <2>1 DEF Accounted
  <2>2. CASE ~(now > slice'.end)
    BY <1>1, <1>2, <2>2, NoIoFacts, FitsNothing DEF Accounted
  <2> QED BY <2>1, <2>2
<1> QED BY <1>3, <1>4, <1>5 DEF IInv

(* One evaluation of bdrv_exceed_io_limits keeps the accounts.             *)
LEMMA EvaluateKeepsIInv ==
    ASSUME IInv, NEW dir \in Dirs, NEW n \in Sizes, Evaluate(dir, n)
    PROVE  IInv'
<1> DEFINE e == ExceedIoLimits(limits, slice, now, dir, n)
           s == CurrentSlice(slice, now)
           carried == IF now > slice.end THEN NoIo ELSE inSlice
<1>1. /\ n \in Nat /\ now \in Nat /\ epoch \in Nat /\ limits \in Limits
      /\ slice \in Slices /\ slice.start <= now /\ slice.start <= slice.end
      /\ granted \in Amounts /\ inSlice \in Amounts /\ epoch <= now
      /\ slice.start \in Nat /\ slice.end \in Nat
  BY RateAssumption DEF IInv, TypeOK, Slices
<1>2. /\ slice' = e.slice /\ now' = now /\ limits' = limits /\ epoch' = epoch
      /\ granted' = IF e.exceeds THEN granted ELSE Plus(granted, dir, n)
      /\ inSlice' = IF e.exceeds THEN carried ELSE Plus(carried, dir, n)
  BY DEF Evaluate
<1>3. s \in Slices /\ s.start <= now /\ now <= s.end
  BY <1>1, CurrentSliceFacts, Zenon
<1>4. /\ e.exceeds \in BOOLEAN /\ e.slice \in Slices
      /\ e.slice.start = s.start /\ e.slice.end >= s.end
      /\ e.exceeds => e.slice.bytes = s.bytes /\ e.slice.ios = s.ios
      /\ ~e.exceeds =>
           /\ e.slice.end = s.end
           /\ e.slice.bytes = [s.bytes EXCEPT ![dir] = @ + n]
           /\ e.slice.ios = [s.ios EXCEPT ![dir] = @ + 1]
           /\ ~Exceeds(Governing(limits.bps, dir),
                       Base(limits.bps, s.bytes, dir) + n, s)
           /\ ~Exceeds(Governing(limits.iops, dir),
                       Base(limits.iops, s.ios, dir) + 1, s)
  <2>1. Evaluation(limits, s, now, dir, n, e)
    BY <1>1, ExceedIoLimitsFacts, Zenon
  <2> HIDE DEF e, s
  <2> QED BY <2>1, Zenon DEF Evaluation
<1>5. /\ carried \in Amounts
      /\ AtMost(carried.bytes, s.bytes) /\ AtMost(carried.ios, s.ios)
      /\ epoch <= s.start
      /\ Fits(limits.bps, granted.bytes, carried.bytes, s, epoch)
      /\ Fits(limits.iops, granted.ios, carried.ios, s, epoch)
  <2>1. /\ granted.bytes \in [Dirs -> Nat] /\ granted.ios \in [Dirs -> Nat]
        /\ inSlice.bytes \in [Dirs -> Nat] /\ inSlice.ios \in [Dirs -> Nat]
        /\ limits.bps \in [Kinds -> Nat] /\ limits.iops \in [Kinds -> Nat]
    BY <1>1 DEF Amounts, Limits
  <2>2. CASE now > slice.end
    <3>1. /\ carried = NoIo /\ carried.bytes = [d \in Dirs |-> 0]
          /\ carried.ios = [d \in Dirs |-> 0]
          /\ s.start = now /\ s.start >= slice.end /\ s.end >= s.start
          /\ s.bytes = [d \in Dirs |-> 0] /\ s.ios = [d \in Dirs |-> 0]
      BY <1>1, <1>3, <2>2, NoIoFacts DEF CurrentSlice
    <3>2. AtMost(carried.bytes, s.bytes) /\ AtMost(carried.ios, s.ios)
      BY <3>1 DEF AtMost
    <3> HIDE DEF s, carried
    <3>3. epoch <= s.start
      BY <1>1, <3>1, Zenon
    <3>4. CASE epoch <= slice.start
      <4>1. /\ Fits(limits.bps, granted.bytes, inSlice.bytes, slice, epoch)
            /\ Fits(limits.iops, granted.ios, inSlice.ios, slice, epoch)
        BY <1>1, <3>4 DEF IInv, Accounted
      <4>2. Fits(limits.bps, granted.bytes, [d \in Dirs |-> 0], s, epoch)
        BY <1>1, <1>3, <2>1, <3>1, <4>1, FitsFresh, Zenon
      <4>3. Fits(limits.iops, granted.ios, [d \in Dirs |-> 0], s, epoch)
        BY <1>1, <1>3, <2>1, <3>1, <4>1, FitsFresh, Zenon
      <4> QED BY <3>1, <3>2, <3>3, <4>2, <4>3, NoIoFacts, Zenon
    <3>5. CASE ~(epoch <= slice.start)
      <4>1. granted.bytes = [d \in Dirs |-> 0] /\ granted.ios = [d \in Dirs |-> 0]
        BY <3>5, NoIoFacts DEF IInv, Accounted
      <4> DEFINE z == [d \in Dirs |-> 0]
      <4>2. Fits(limits.bps, z, z, s, epoch) /\ Fits(limits.iops, z, z, s, epoch)
        BY <1>1, <1>3, <2>1, <3>1, <3>3, FitsNothing, Zenon
      <4>3. granted.bytes = z /\ granted.ios = z /\ carried.bytes = z /\ carried.ios = z
        BY <3>1, <4>1, Zenon
      <4> HIDE DEF z
      <4> QED BY <3>1, <3>2, <3>3, <4>2, <4>3, NoIoFacts, Zenon
    <3> QED BY <3>4, <3>5
  <2>3. CASE ~(now > slice.end)
    <3>1. carried = inSlice /\ s = slice
      BY <2>3 DEF CurrentSlice
    <3>2. epoch <= slice.end
      BY <1>1, <2>3, SMTT(60)
    <3> QED BY <1>1, <3>1, <3>2 DEF IInv, Accounted
  <2> QED BY <2>2, <2>3, Zenon
<1> HIDE DEF e, s, carried
<1>6. /\ granted.bytes \in [Dirs -> Nat] /\ granted.ios \in [Dirs -> Nat]
      /\ carried.bytes \in [Dirs -> Nat] /\ carried.ios \in [Dirs -> Nat]
      /\ s.bytes \in [Dirs -> Nat] /\ s.ios \in [Dirs -> Nat]
      /\ limits.bps \in [Kinds -> Nat] /\ limits.iops \in [Kinds -> Nat]
      /\ s.start \in Nat /\ s.end \in Nat /\ e.slice.end \in Nat
  BY <1>1, <1>3, <1>4, <1>5, Zenon DEF Amounts, Limits, Slices
<1>7. slice'.start <= now /\ slice'.start <= slice'.end /\ epoch' <= slice'.start
  <2>1. /\ slice'.start = s.start /\ slice'.end = e.slice.end /\ epoch' = epoch
        /\ e.slice.end >= s.end /\ s.start <= now /\ now <= s.end /\ epoch <= s.start
    BY <1>2, <1>3, <1>4, <1>5, Zenon
  <2> QED BY <1>1, <1>6, <2>1
<1>8. CASE e.exceeds
  <2>1. granted' = granted /\ inSlice' = carried
        /\ slice'.bytes = s.bytes /\ slice'.ios = s.ios
    BY <1>2, <1>4, <1>8, Zenon
  <2>2. /\ Fits(limits.bps, granted.bytes, carried.bytes, e.slice, epoch)
        /\ Fits(limits.iops, granted.ios, carried.ios, e.slice, epoch)
    BY <1>1, <1>3, <1>4, <1>5, <1>6, FitsLonger, Zenon
  <2>3. TypeOK'
    BY <1>1, <1>2, <1>4, <1>5, <2>1 DEF TypeOK
  <2> QED BY <1>1, <1>2, <1>5, <1>7, <2>1, <2>2, <2>3, Zenon DEF IInv, Accounted
<1>9. CASE ~e.exceeds
  <2>1. granted' = Plus(granted, dir, n) /\ inSlice' = Plus(carried, dir, n)
    BY <1>2, <1>9
  <2>2. /\ granted' \in Amounts /\ inSlice' \in Amounts
        /\ granted'.bytes = [granted.bytes EXCEPT ![dir] = @ + n]
        /\ granted'.ios = [granted.ios EXCEPT ![dir] = @ + 1]
        /\ inSlice'.bytes = [carried.bytes EXCEPT ![dir] = @ + n]
        /\ inSlice'.ios = [carried.ios EXCEPT ![dir] = @ + 1]
    <3>1. /\ Plus(granted, dir, n) \in Amounts
          /\ Plus(granted, dir, n).bytes = [granted.bytes EXCEPT ![dir] = @ + n]
          /\ Plus(granted, dir, n).ios = [granted.ios EXCEPT ![dir] = @ + 1]
      BY <1>1, PlusFacts
    <3>2. /\ Plus(carried, dir, n) \in Amounts
          /\ Plus(carried, dir, n).bytes = [carried.bytes EXCEPT ![dir] = @ + n]
          /\ Plus(carried, dir, n).ios = [carried.ios EXCEPT ![dir] = @ + 1]
      BY <1>1, <1>5, PlusFacts, SMTT(60)
    <3> QED BY <2>1, <3>1, <3>2
  <2>3. /\ Fits(limits.bps, granted'.bytes, inSlice'.bytes, s, epoch)
        /\ Fits(limits.iops, granted'.ios, inSlice'.ios, s, epoch)
    <3>1. ~Exceeds(Governing(limits.bps, dir), Base(limits.bps, s.bytes, dir) + n, s)
      BY <1>4, <1>9
    <3>2. ~Exceeds(Governing(limits.iops, dir), Base(limits.iops, s.ios, dir) + 1, s)
      BY <1>4, <1>9, Zenon
    <3>3. Fits(limits.bps, [granted.bytes EXCEPT ![dir] = @ + n],
               [carried.bytes EXCEPT ![dir] = @ + n], s, epoch)
      BY <1>1, <1>3, <1>5, <1>6, <3>1, FitsGrant, Zenon
    <3>4. Fits(limits.iops, [granted.ios EXCEPT ![dir] = @ + 1],
               [carried.ios EXCEPT ![dir] = @ + 1], s, epoch)
      BY <1>1, <1>3, <1>5, <1>6, <3>2, FitsGrant, Zenon
    <3> QED BY <2>2, <3>3, <3>4
  <2>4. /\ granted'.bytes \in [Dirs -> Nat] /\ granted'.ios \in [Dirs -> Nat]
        /\ inSlice'.bytes \in [Dirs -> Nat] /\ inSlice'.ios \in [Dirs -> Nat]
    BY <2>2, Zenon DEF Amounts
  <2>5. /\ Fits(limits.bps, granted'.bytes, inSlice'.bytes, slice', epoch)
        /\ Fits(limits.iops, granted'.ios, inSlice'.ios, slice', epoch)
    BY <1>1, <1>2, <1>3, <1>4, <1>6, <2>3, <2>4, FitsLonger, Zenon
  <2>6. AtMost(inSlice'.bytes, slice'.bytes) /\ AtMost(inSlice'.ios, slice'.ios)
    <3>1. /\ slice'.bytes = [s.bytes EXCEPT ![dir] = @ + n]
          /\ slice'.ios = [s.ios EXCEPT ![dir] = @ + 1]
      BY <1>2, <1>4, <1>9
    <3>2. \A d \in Dirs : carried.bytes[d] <= s.bytes[d] /\ carried.ios[d] <= s.ios[d]
      BY <1>5 DEF AtMost
    <3>3. ASSUME NEW d \in Dirs PROVE inSlice'.bytes[d] <= slice'.bytes[d]
      BY <1>1, <1>6, <2>2, <3>1, <3>2
    <3>4. ASSUME NEW d \in Dirs PROVE inSlice'.ios[d] <= slice'.ios[d]
      BY <1>1, <1>6, <2>2, <3>1, <3>2, SMTT(60)
    <3> QED BY <3>3, <3>4 DEF AtMost
  <2>7. TypeOK'
    BY <1>1, <1>2, <1>4, <2>2 DEF TypeOK
  <2> QED BY <1>1, <1>2, <1>7, <2>5, <2>6, <2>7 DEF IInv, Accounted
<1> QED BY <1>4, <1>8, <1>9

(* The accounts are kept by every step.                                    *)
THEOREM Invariance == Spec => []IInv
<1>1. Init => IInv
  <2> SUFFICES ASSUME Init PROVE IInv
    OBVIOUS
  <2>1. limits \in Limits
    <3>1. limits \in [bps : [Kinds -> Int], iops : [Kinds -> Int]]
          /\ LimitsValid(limits)
      BY RateAssumption DEF Init
    <3> QED BY <3>1 DEF LimitsValid, Limits
  <2>2. slice \in Slices /\ slice.start = 0 /\ slice.end = 0
    BY NoIoFacts DEF Init, Slices, Amounts
  <2>3. TypeOK
    BY <2>1, <2>2, NoIoFacts DEF Init, TypeOK
  <2>4. AtMost(inSlice.bytes, slice.bytes) /\ AtMost(inSlice.ios, slice.ios)
    BY NoIoFacts DEF Init, AtMost
  <2>5. Accounted
    BY <2>1, <2>2, NoIoFacts, FitsNothing DEF Init, Accounted, Limits
  <2>6. slice.start <= now /\ slice.start <= slice.end /\ epoch <= now
    <3>1. now = 0 /\ epoch = 0
      BY Zenon DEF Init
    <3> QED BY <2>2, <3>1
  <2> QED BY <2>3, <2>4, <2>5, <2>6 DEF IInv
<1>2. IInv /\ [Next]_vars => IInv'
  <2> SUFFICES ASSUME IInv, [Next]_vars PROVE IInv'
    OBVIOUS
  <2>1. CASE Tick
    <3>1. /\ now' = now + 1 /\ slice' = slice /\ epoch' = epoch /\ limits' = limits
          /\ granted' = granted /\ inSlice' = inSlice
      BY <2>1 DEF Tick
    <3>2. now \in Nat /\ slice.start \in Nat /\ epoch \in Nat
      BY DEF IInv, TypeOK, Slices
    <3>3. TypeOK' /\ slice'.start <= now' /\ epoch' <= now'
      BY <3>1, <3>2 DEF IInv, TypeOK
    <3>4. Accounted'
      BY <3>1 DEF IInv, Accounted
    <3> QED BY <3>1, <3>3, <3>4 DEF IInv
  <2>2. ASSUME NEW dir \in Dirs, NEW n \in Sizes, Evaluate(dir, n) PROVE IInv'
    BY <2>2, EvaluateKeepsIInv
  <2>3. /\ [slice EXCEPT !.start = 0, !.end = 0] \in Slices
        /\ [slice EXCEPT !.start = 0, !.end = 0].start = 0
        /\ [slice EXCEPT !.start = 0, !.end = 0].end = 0
    BY Zenon DEF IInv, TypeOK, Slices
  <2>4. CASE Disable
    <3>1. /\ TypeOK /\ slice' \in Slices /\ limits' \in Limits /\ now' = now
          /\ slice'.start <= now /\ slice'.start <= slice'.end
      BY <2>3, <2>4 DEF Disable, IInv, TypeOK
    <3> QED BY <2>4, <3>1, NewEpochKeepsIInv DEF Disable
  <2>5. ASSUME NEW l \in LimitSettings, SetIoThrottle(l) PROVE IInv'
    <3>1. l \in Limits
      <4>1. l \in [bps : [Kinds -> Int], iops : [Kinds -> Int]] /\ LimitsValid(l)
        BY <2>5, RateAssumption DEF SetIoThrottle
      <4> QED BY <4>1 DEF LimitsValid, Limits
    <3>2. /\ TypeOK /\ slice' \in Slices /\ limits' \in Limits /\ now' = now
          /\ slice'.start <= now /\ slice'.start <= slice'.end
      BY <2>3, <2>5, <3>1 DEF SetIoThrottle, IInv, TypeOK
    <3> QED BY <2>5, <3>2, NewEpochKeepsIInv DEF SetIoThrottle
  <2>6. CASE UNCHANGED vars
    <3>1. TypeOK' /\ Accounted'
      BY <2>6 DEF vars, IInv, TypeOK, Accounted
    <3> QED BY <2>6, <3>1 DEF vars, IInv
  <2> QED BY <2>1, <2>2, <2>4, <2>5, <2>6 DEF Next
<1> QED BY <1>1, <1>2, PTL DEF Spec

(* Whatever the limits, the sizes and the schedule of retries: what was    *)
(* let through since the limits were set is within their rate up to the    *)
(* end of the present slice.                                               *)
THEOREM RateIsBounded == Spec => []RateBound
<1>1. IInv => RateBound
  <2> SUFFICES ASSUME IInv PROVE RateBound
    OBVIOUS
  <2>1. /\ slice.start \in Nat /\ slice.end \in Nat /\ epoch \in Nat
        /\ slice.start <= slice.end /\ NanosPerSecond \in Nat
        /\ limits.bps \in [Kinds -> Nat] /\ limits.iops \in [Kinds -> Nat]
        /\ granted.bytes \in [Dirs -> Nat] /\ granted.ios \in [Dirs -> Nat]
        /\ inSlice.bytes \in [Dirs -> Nat] /\ inSlice.ios \in [Dirs -> Nat]
    BY IoLimitsAssumption DEF IInv, TypeOK, Slices, Limits, Amounts
  <2>2. ASSUME NEW l \in [Kinds -> Nat], NEW g \in [Dirs -> Nat],
               NEW i \in [Dirs -> Nat], Fits(l, g, i, slice, epoch),
               NEW dir \in Dirs, Governing(l, dir) # 0
        PROVE  Base(l, g, dir) * NanosPerSecond
                   <= Governing(l, dir) * (slice.end - epoch)
    <3> DEFINE r == Governing(l, dir)
               bg == Base(l, g, dir)
               bi == Base(l, i, dir)
    <3>1. r \in Nat /\ bg \in Nat /\ bi \in Nat
      BY RatesAreNat
    <3>2. /\ bi * NanosPerSecond <= r * (slice.end - slice.start)
          /\ (bg - bi) * NanosPerSecond <= r * (slice.start - epoch)
      BY <2>2 DEF Fits
    <3> HIDE DEF r, bg, bi
    <3>3. bg * NanosPerSecond = bi * NanosPerSecond + (bg - bi) * NanosPerSecond
      BY <2>1, <3>1
    <3>4. r * (slice.end - epoch)
            = r * (slice.end - slice.start) + r * (slice.start - epoch)
      BY <2>1, <3>1
    <3>5. /\ r * (slice.end - slice.start) \in Int /\ r * (slice.start - epoch) \in Int
          /\ bi * NanosPerSecond \in Int /\ (bg - bi) * NanosPerSecond \in Int
      BY <2>1, <3>1
    <3>6. bg * NanosPerSecond <= r * (slice.end - epoch)
      BY <3>2, <3>3, <3>4, <3>5
    <3> QED BY <3>6 DEF r, bg
  <2>3. CASE epoch <= slice.start
    <3>1. /\ Fits(limits.bps, granted.bytes, inSlice.bytes, slice, epoch)
          /\ Fits(limits.iops, granted.ios, inSlice.ios, slice, epoch)
      BY <2>1, <2>3 DEF IInv, Accounted
    <3>2. Horizon = slice.end
      BY <2>1, <2>3 DEF Horizon, MaxOf
    <3>3. ASSUME NEW dir \in Dirs, Governing(limits.bps, dir) # 0
          PROVE  Base(limits.bps, granted.bytes, dir) * NanosPerSecond
                     <= Governing(limits.bps, dir) * (Horizon - epoch)
      BY <2>1, <2>2, <3>1, <3>2, <3>3
    <3>4. ASSUME NEW dir \in Dirs, Governing(limits.iops, dir) # 0
          PROVE  Base(limits.iops, granted.ios, dir) * NanosPerSecond
                     <= Governing(limits.iops, dir) * (Horizon - epoch)
      BY <2>1, <2>2, <3>1, <3>2, <3>4
    <3> QED BY <3>3, <3>4 DEF RateBound
  <2>4. CASE ~(epoch <= slice.start)
    <3>1. granted = NoIo /\ epoch > slice.end
      BY <2>4 DEF IInv, Accounted
    <3>2. Horizon = epoch
      BY <2>1, <3>1 DEF Horizon, MaxOf
    <3>3. ASSUME NEW dir \in Dirs
          PROVE  /\ Base(limits.bps, granted.bytes, dir) = 0
                 /\ Base(limits.iops, granted.ios, dir) = 0
                 /\ Governing(limits.bps, dir) \in Nat
                 /\ Governing(limits.iops, dir) \in Nat
      BY <2>1, <3>1, NoIoFacts, RatesAreNat DEF Base, Dirs, Other
    <3> QED BY <2>1, <3>2, <3>3 DEF RateBound
  <2> QED BY <2>3, <2>4
<1> QED BY <1>1, Invariance, PTL

(* The cast of a waiting time to uint64_t is never given a negative value. *)
THEOREM WaitIsNeverNegative == Spec => []WaitNotNegative
<1>1. IInv => WaitNotNegative
  <2> SUFFICES ASSUME IInv, NEW dir \in Dirs, NEW n \in Sizes
               PROVE  ExceedBps(limits, CurrentSlice(slice, now),
                                now, dir, n).wait >= 0
    BY DEF WaitNotNegative
  <2>1. /\ n \in Nat /\ limits \in Limits /\ slice \in Slices /\ now \in Nat
        /\ slice.start <= now
    BY RateAssumption DEF IInv, TypeOK
  <2>2. /\ CurrentSlice(slice, now) \in Slices
        /\ CurrentSlice(slice, now).start <= now
        /\ now <= CurrentSlice(slice, now).end
    BY <2>1, CurrentSliceFacts, Zenon
  <2>3. ExceedBps(limits, CurrentSlice(slice, now), now, dir, n).wait \in Nat
    BY <2>1, <2>2, ExceedBpsFacts
  <2> QED BY <2>3
<1> QED BY <1>1, Invariance, PTL

=============================================================================
