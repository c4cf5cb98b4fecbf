------------------------- MODULE Qcow2DurableProofs -------------------------
(***************************************************************************)
(* What qcow2_co_flush_to_os promises: when it reports success, the tables *)
(* are on the disk for good, whatever was written, discarded and evicted   *)
(* before, and whatever failed.                                            *)
(***************************************************************************)
EXTENDS Qcow2RequestsProofs

-----------------------------------------------------------------------------
(* An entry that is not dirty holds what the file has.                     *)
Agree(en, dk) ==
    \A c \in Caches : \A i \in 1 .. Size[c] :
        ~en[c][i].dirty /\ en[c][i].offset # 0 => en[c][i].table = dk[en[c][i].offset].cur

(* Nothing of the tables of c is left to write or to flush.                *)
Clean(en, c) == \A i \in 1 .. Size[c] : ~en[c][i].dirty
Settled(dk, c) == \A o \in TablesOf(c) : dk[o].may = {dk[o].cur}
Saved(en, dk, c) == Clean(en, c) /\ Settled(dk, c)

(* Who calls whom, and about which cache: g calls f.                       *)
Directly(f, g) ==
    \/ g.fn \in {"flush", "get"} /\ f.fn = "entry" /\ f.c = g.c
    \/ g.fn = "dep" /\ f.fn = "flush" /\ f.c = Other(g.c)
    \/ g.fn = "entry" /\ f.fn = "dep" /\ f.c = g.c
    \/ g.fn = "set" /\ f.fn = "dep" /\ f.c = Other(g.c)
Callers(s) == \A k \in 2 .. Len(s) : Directly(s[k - 1], s[k])

(* An entry that qcow2_cache_entry_flush goes on with is dirty.            *)
Writing(s, en) ==
    \A k \in 1 .. Len(s) :
        s[k].fn = "entry" /\ s[k].st # "start" => en[s[k].c][s[k].i].dirty

(* The entries that qcow2_cache_flush has passed without a failure are     *)
(* clean, but for the one that the call above it is writing.               *)
Passed(s, k, en, r) ==
    /\ k > 1 => s[k].i = s[k - 1].i + 1
    /\ s[k].st # "fail" =>
           \A j \in 1 .. Size[s[k].c] :
               j < s[k].i => \/ ~en[s[k].c][j].dirty
                             \/ k > 1 /\ j = s[k - 1].i
                             \/ k = 1 /\ r = "fail"
Flushing(s, en, r) == \A k \in 1 .. Len(s) : s[k].fn = "flush" => Passed(s, k, en, r)

FlushCalls(s, en, r) == Callers(s) /\ Writing(s, en) /\ Flushing(s, en, r)

(* The dependency that has been flushed is saved.                          *)
Flushed(s, en, dk, r) ==
    s # << >> /\ s[1].fn = "dep" /\ s[1].st = "flushed" /\ r = "ok" =>
        Saved(en, dk, Other(s[1].c))

(* Only the request with the lock calls the caches, a flush for the L2     *)
(* tables and then for the refcount blocks.                                *)
Bottom(s, fn, c) == s # << >> => s[Len(s)].fn = fn /\ s[Len(s)].c = c
Locked ==
    /\ stack # << >> => lock \in Requests
    /\ \A r \in Requests : lock = r =>
           /\ req[r].pc = "tables" => Bottom(stack, "flush", "l2")
           /\ req[r].pc = "counts" => Bottom(stack, "flush", "rc")

(* What is saved when the calls of a flush have returned.                  *)
Reported ==
    \A r \in Requests : lock = r =>
        /\ req[r].pc = "tables" /\ stack = << >> /\ rv = "ok" => Saved(entries, disk, "l2")
        /\ req[r].pc = "counts" => Saved(entries, disk, "l2")
        /\ req[r].pc = "counts" /\ stack = << >> /\ rv = "ok" => Saved(entries, disk, "rc")

FlushInv ==
    /\ Agree(entries, disk) /\ FlushCalls(stack, entries, rv)
    /\ Flushed(stack, entries, disk, rv)
    /\ Locked /\ Reported

-----------------------------------------------------------------------------
(* Calls, returns, and what they leave at the bottom of the stack.         *)
SameBottom(t, s) ==
    t # << >> => s # << >> /\ t[Len(t)].fn = s[Len(s)].fn /\ t[Len(t)].c = s[Len(s)].c

(* A call keeps what is known of the calls in progress.                    *)
LEMMA PushCalls ==
    ASSUME NEW s \in Seq(Frame), s # << >>, NEW en, NEW r, NEW r2, FlushCalls(s, en, r),
           NEW f \in Frame, NEW g \in Frame, g.fn = s[1].fn, g.c = s[1].c,
           Directly(f, g), f.st = "start", f.fn = "flush" => f.i = 1,
           g.fn = "entry" => g.i = s[1].i /\ en[g.c][g.i].dirty,
           g.fn = "flush" => /\ f.i = s[1].i /\ g.i = s[1].i + 1
                             /\ g.st # "fail" => r # "fail" /\ s[1].st # "fail",
           NEW t, t = Pushed(s, f, g)
    PROVE  FlushCalls(t, en, r2) /\ SameBottom(t, s)
<1>1. /\ Len(s) \in Nat \ {0} /\ Len(t) = Len(s) + 1 /\ t \in Seq(Frame)
      /\ t[1] = f /\ t[2] = g /\ \A k \in 3 .. Len(t) : t[k] = s[k - 1]
  BY PushStack DEF Pushed
<1>2. /\ 1 \in 1 .. Len(s) /\ 2 - 1 = 1 /\ 3 - 1 = 2
      /\ \A k \in 1 .. Len(t) : k \in Nat /\ (k = 1 \/ k = 2 \/ k \in 3 .. Len(t))
      /\ \A k \in 2 .. Len(t) : k = 2 \/ k \in 3 .. Len(t)
      /\ \A k \in 3 .. Len(t) : /\ k - 1 \in 1 .. Len(s) /\ k - 1 \in 2 .. Len(s)
                                /\ k - 1 \in 1 .. Len(t) /\ k > 1 /\ k - 1 > 1 /\ k # 1
  BY <1>1
<1>3. \A k \in 3 .. Len(t) :
          /\ t[k - 1].fn = s[k - 1 - 1].fn /\ t[k - 1].c = s[k - 1 - 1].c
          /\ t[k - 1].fn = "entry" => t[k - 1].i = s[k - 1 - 1].i
  <2> SUFFICES ASSUME NEW k \in 3 .. Len(t)
               PROVE  /\ t[k - 1].fn = s[k - 1 - 1].fn /\ t[k - 1].c = s[k - 1 - 1].c
                      /\ t[k - 1].fn = "entry" => t[k - 1].i = s[k - 1 - 1].i
    BY Zenon
  <2>1. CASE k = 3
    <3>1. k - 1 = 2 /\ k - 1 - 1 = 1
      BY <2>1
    <3>2. t[k - 1] = g /\ s[k - 1 - 1] = s[1]
      BY <3>1, <1>1, Zenon
    <3> QED BY <3>2, Zenon
  <2>2. CASE k # 3
    <3>1. k - 1 \in 3 .. Len(t)
      BY <2>2, <1>1
    <3> QED BY <3>1, <1>1, Zenon
  <2> QED BY <2>1, <2>2
<1>4. Callers(t)
  <2> SUFFICES ASSUME NEW k \in 2 .. Len(t) PROVE Directly(t[k - 1], t[k])
    BY Zenon DEF Callers
  <2>1. CASE k = 2
    <3>1. k - 1 = 1
      BY <2>1
    <3> QED BY <3>1, <2>1, <1>1, Zenon
  <2>2. CASE k \in 3 .. Len(t)
    <3>1. Directly(s[k - 1 - 1], s[k - 1]) /\ t[k] = s[k - 1]
      BY <2>2, <1>1, <1>2, Zenon DEF FlushCalls, Callers
    <3>2. t[k - 1].fn = s[k - 1 - 1].fn /\ t[k - 1].c = s[k - 1 - 1].c
      BY <2>2, <1>3, Zenon
    <3> QED BY <3>1, <3>2, Zenon DEF Directly
  <2> QED BY <2>1, <2>2, <1>2, Zenon
<1>5. Writing(t, en)
  <2> SUFFICES ASSUME NEW k \in 1 .. Len(t), t[k].fn = "entry", t[k].st # "start"
               PROVE  en[t[k].c][t[k].i].dirty
    BY Zenon DEF Writing
  <2>1. CASE k = 2
    BY <2>1, <1>1, Zenon
  <2>2. CASE k \in 3 .. Len(t)
    <3>1. k - 1 \in 1 .. Len(s) /\ t[k] = s[k - 1]
      BY <2>2, <1>1, <1>2, Zenon
    <3> QED BY <3>1, Zenon DEF FlushCalls, Writing
  <2> QED BY <2>1, <2>2, <1>1, <1>2, Zenon
<1>6. Flushing(t, en, r2)
  <2> SUFFICES ASSUME NEW k \in 1 .. Len(t), t[k].fn = "flush" PROVE Passed(t, k, en, r2)
    BY Zenon DEF Flushing
  <2>1. CASE k = 1
    <3>1. \A j \in 1 .. Size[t[k].c] : ~(j < 1)
      BY <1>1, CacheAssumption DEF Frame, Caches
    <3>2. t[k].i = 1 /\ ~(1 > 1)
      BY <2>1, <1>1
    <3> QED BY <3>1, <3>2, <2>1 DEF Passed
  <2>2. CASE k = 2
    <3>1. Passed(s, 1, en, r)
      <4>1. s[1].fn = "flush"
        BY <2>2, <1>1, Zenon
      <4> QED BY <4>1, <1>2, Zenon DEF FlushCalls, Flushing
    <3>2. f.i = s[1].i /\ g.i = s[1].i + 1 /\ (g.st # "fail" => r # "fail" /\ s[1].st # "fail")
      BY <2>2, <1>1, Zenon
    <3>3. t[2] = g /\ t[2 - 1] = f /\ s[1].i \in Nat /\ ~(1 > 1) /\ 2 > 1
      <4>1. s[1] \in Frame
        BY <1>1
      <4>2. t[2 - 1] = t[1] /\ ~(1 > 1) /\ 2 > 1
        OBVIOUS
      <4>3. s[1].i \in Nat
        BY <4>1, SMTT(30) DEF Frame
      <4> QED BY <4>2, <4>3, <1>1, Zenon
    <3>4. ASSUME g.st # "fail", NEW j \in 1 .. Size[g.c], j < g.i
          PROVE  ~en[g.c][j].dirty \/ j = f.i
      <4>1. j < s[1].i \/ j = s[1].i
        <5>1. Size[g.c] \in Nat
          BY CacheAssumption, Zenon DEF Frame, Caches
        <5> QED BY <5>1, <3>2, <3>3, <3>4
      <4> QED BY <4>1, <3>1, <3>2, <3>3, <3>4, Zenon DEF Passed
    <3>5. Passed(t, 2, en, r2)
      BY <3>1, <3>2, <3>3, <3>4 DEF Passed
    <3> QED BY <3>5, <2>2
  <2>3. CASE k \in 3 .. Len(t)
    <3>1. t[k] = s[k - 1] /\ Passed(s, k - 1, en, r) /\ k > 1 /\ k - 1 > 1 /\ k # 1 /\ k - 1 # 1
      <4>1. k - 1 # 1
        BY <2>3
      <4> QED BY <4>1, <2>3, <1>1, <1>2, Zenon DEF FlushCalls, Flushing
    <3>2. t[k - 1].i = s[k - 1 - 1].i
      <4>1. Directly(t[k - 1], t[k])
        BY <2>3, <1>2, <1>4 DEF Callers
      <4>2. t[k - 1].fn = "entry"
        BY <4>1 DEF Directly
      <4> QED BY <4>2, <2>3, <1>3, Zenon
    <3> QED BY <3>1, <3>2, Zenon DEF Passed
  <2> QED BY <2>1, <2>2, <2>3, <1>2, Zenon
<1>7. SameBottom(t, s)
  <2>1. CASE Len(s) = 1
    BY <2>1, <1>1 DEF SameBottom
  <2>2. CASE Len(s) # 1
    <3>1. Len(t) \in 3 .. Len(t) /\ Len(t) - 1 = Len(s)
      <4>1. Len(s) \in Nat \ {0} /\ Len(t) = Len(s) + 1
        BY <1>1, Zenon
      <4>2. \A m, n : n \in Nat \ {0} /\ n # 1 /\ m = n + 1 => m \in 3 .. m /\ m - 1 = n
        OBVIOUS
      <4> QED BY <4>1, <4>2, <2>2, Zenon
    <3> QED BY <3>1, <1>1, Zenon DEF SameBottom
  <2> QED BY <2>1, <2>2
<1> QED BY <1>4, <1>5, <1>6, <1>7, ZenonT(60) DEF FlushCalls

(* So does the topmost call when it goes on.                               *)
LEMMA GoCalls ==
    ASSUME NEW s \in Seq(Frame), s # << >>, NEW en, NEW r, FlushCalls(s, en, r),
           NEW g \in Frame, g.fn = s[1].fn, g.c = s[1].c, g.i = s[1].i, g.fn # "flush",
           g.fn = "entry" => en[g.c][g.i].dirty, NEW t, t = <<g>> \o Tail(s)
    PROVE  FlushCalls(t, en, r) /\ SameBottom(t, s)
<1>1. /\ Len(s) \in Nat \ {0} /\ Len(t) = Len(s)
      /\ t[1] = g /\ \A k \in 2 .. Len(s) : t[k] = s[k]
  BY PopStack, GoStack
<1>2. /\ \A k \in 1 .. Len(s) : k = 1 \/ k \in 2 .. Len(s)
      /\ \A k \in 2 .. Len(s) : k # 1 /\ k - 1 \in 1 .. Len(s)
  BY <1>1
<1>3. \A k \in 1 .. Len(s) : t[k].fn = s[k].fn /\ t[k].c = s[k].c /\ t[k].i = s[k].i
  BY <1>1, <1>2, Zenon
<1>4. Callers(t)
  <2> SUFFICES ASSUME NEW k \in 2 .. Len(s) PROVE Directly(t[k - 1], t[k])
    BY <1>1, Zenon DEF Callers
  <2>1. Directly(s[k - 1], s[k])
    BY Zenon DEF FlushCalls, Callers
  <2>2. t[k] = s[k] /\ t[k - 1].fn = s[k - 1].fn /\ t[k - 1].c = s[k - 1].c
    BY <1>1, <1>2, <1>3, Zenon
  <2> QED BY <2>1, <2>2, Zenon DEF Directly
<1>5. Writing(t, en)
  <2> SUFFICES ASSUME NEW k \in 1 .. Len(s), t[k].fn = "entry", t[k].st # "start"
               PROVE  en[t[k].c][t[k].i].dirty
    BY <1>1, Zenon DEF Writing
  <2>1. CASE k = 1
    BY <2>1, <1>1, Zenon
  <2>2. CASE k \in 2 .. Len(s)
    BY <2>2, <1>1, Zenon DEF FlushCalls, Writing
  <2> QED BY <2>1, <2>2, <1>2, Zenon
<1>6. Flushing(t, en, r)
  <2> SUFFICES ASSUME NEW k \in 1 .. Len(s), t[k].fn = "flush" PROVE Passed(t, k, en, r)
    BY <1>1, Zenon DEF Flushing
  <2>1. k \in 2 .. Len(s)
    BY <1>1, <1>2, Zenon
  <2>2. Passed(s, k, en, r) /\ t[k] = s[k] /\ t[k - 1].i = s[k - 1].i
    BY <2>1, <1>1, <1>2, <1>3, ZenonT(30) DEF FlushCalls, Flushing
  <2> QED BY <2>2, Zenon DEF Passed
<1>7. SameBottom(t, s)
  <2>1. Len(s) \in 1 .. Len(s)
    <3>1. Len(s) \in Nat \ {0}
      BY <1>1, Zenon
    <3> QED BY <3>1
  <2> QED BY <2>1, <1>1, <1>3, ZenonT(30) DEF SameBottom
<1> QED BY <1>4, <1>5, <1>6, <1>7, Zenon DEF FlushCalls

(* What a return may do to the entries: the flush of an entry cleans one   *)
(* of its cache.                                                           *)
Cleans(en, new, s) ==
    \A c \in Caches : \A i \in 1 .. Size[c] :
        \/ new[c][i].dirty = en[c][i].dirty
        \/ ~new[c][i].dirty /\ s[1].fn = "entry" /\ c = s[1].c

(* So does a return, if the entry is clean after the flush of an entry     *)
(* without a failure.                                                      *)
LEMMA PopCalls ==
    ASSUME NEW s, Nested(s), s # << >>, NEW en, NEW new, NEW r, NEW r2, FlushCalls(s, en, r),
           Cleans(en, new, s),
           s[1].fn = "entry" => ~new[s[1].c][s[1].i].dirty \/ r2 = "fail",
           NEW t, t = Tail(s)
    PROVE  FlushCalls(t, new, r2) /\ SameBottom(t, s)
<1>1. /\ Len(t) = Len(s) - 1
      /\ \A k \in 1 .. Len(t) : k + 1 \in 1 .. Len(s) /\ t[k] = s[k + 1]
  BY PopNested, Zenon
<1>2. s \in Seq(Frame) /\ Len(s) \in Nat \ {0} /\ \A k \in 1 .. Len(s) : s[k] \in Frame
  BY PopStack DEF Nested
<1>3. /\ \A k \in 1 .. Len(t) : /\ k \in Nat \ {0} /\ k + 1 \in 2 .. Len(s) /\ k + 1 - 1 = k
                                /\ k \in 1 .. Len(s) /\ k + 1 > 1 /\ k + 1 # 1
                                /\ (k # 1 => 1 < k /\ 1 \in 1 .. Len(s))
      /\ \A k \in 2 .. Len(t) : k \in 1 .. Len(t) /\ k - 1 \in 1 .. Len(t) /\ k - 1 + 1 = k
      /\ \A k \in 1 .. Len(t) : k > 1 => k \in 2 .. Len(t)
  <2>1. Len(t) = Len(s) - 1 /\ Len(s) \in Nat \ {0}
    BY <1>1, <1>2, Zenon
  <2> QED BY <2>1
<1>4. \A k \in 1 .. Len(s) : s[k].c \in Caches /\ (s[k].fn = "entry" => s[k].i \in 1 .. Size[s[k].c])
  BY <1>2 DEF Frame
<1>5. \A k \in 1 .. Len(t) : Directly(s[k], s[k + 1])
  <2> SUFFICES ASSUME NEW k \in 1 .. Len(t) PROVE Directly(s[k], s[k + 1])
    OBVIOUS
  <2>1. k + 1 \in 2 .. Len(s) /\ k + 1 - 1 = k
    BY <1>3, Zenon
  <2>2. Directly(s[k + 1 - 1], s[k + 1])
    BY <2>1 DEF FlushCalls, Callers
  <2> QED BY <2>1, <2>2, SMTT(30)
<1>6. Callers(t)
  <2> SUFFICES ASSUME NEW k \in 2 .. Len(t) PROVE Directly(t[k - 1], t[k])
    BY Zenon DEF Callers
  <2>1. k \in 1 .. Len(t) /\ k - 1 \in 1 .. Len(t) /\ k - 1 + 1 = k
    BY <1>3, Zenon
  <2>2. t[k - 1] = s[k] /\ t[k] = s[k + 1]
    BY <2>1, <1>1, Zenon
  <2> QED BY <2>1, <2>2, <1>5, Zenon
<1>7. Writing(t, new)
  <2> SUFFICES ASSUME NEW k \in 1 .. Len(t), t[k].fn = "entry", t[k].st # "start"
               PROVE  new[t[k].c][t[k].i].dirty
    BY Zenon DEF Writing
  <2>1. t[k] = s[k + 1] /\ k + 1 \in 1 .. Len(s)
    BY <1>1, Zenon
  <2>2. en[t[k].c][t[k].i].dirty
    BY <2>1, Zenon DEF FlushCalls, Writing
  <2>3. t[k].c \in Caches /\ t[k].i \in 1 .. Size[t[k].c]
    BY <2>1, <1>4, Zenon
  <2>4. ~(s[1].fn = "entry" /\ t[k].c = s[1].c)
    <3> SUFFICES ASSUME s[1].fn = "entry", t[k].c = s[1].c PROVE FALSE
      OBVIOUS
    <3>1. Directly(s[k], t[k])
      BY <2>1, <1>5, ZenonT(60)
    <3>2. s[k].fn = "dep" /\ s[k].c = s[1].c
      BY <3>1 DEF Directly
    <3>3. k # 1
      BY <3>2
    <3>4. 1 < k /\ 1 \in 1 .. Len(s) /\ k \in 1 .. Len(s)
      BY <3>3, <1>3, Zenon
    <3>5. s[1].c = Other(s[k].c)
      BY <3>2, <3>4, Zenon DEF Nested
    <3> QED BY <3>2, <3>4, <3>5, <1>4, TwoCaches, ZenonT(60)
  <2> QED BY <2>2, <2>3, <2>4, Zenon DEF Cleans
<1>8. Flushing(t, new, r2)
  <2> SUFFICES ASSUME NEW k \in 1 .. Len(t), t[k].fn = "flush" PROVE Passed(t, k, new, r2)
    BY Zenon DEF Flushing
  <2>1. t[k] = s[k + 1] /\ k + 1 \in 1 .. Len(s) /\ k + 1 > 1 /\ k + 1 - 1 = k /\ k + 1 # 1
    BY <1>1, <1>3, Zenon
  <2>2. Passed(s, k + 1, en, r)
    BY <2>1, Zenon DEF FlushCalls, Flushing
  <2>3. t[k].i = s[k].i + 1
    <3>1. s[k + 1].i = s[k + 1 - 1].i + 1
      BY <2>1, <2>2, SMTT(30) DEF Passed
    <3> QED BY <3>1, <2>1, SMTT(30)
  <2>4. s[k].fn = "entry" /\ s[k].c = t[k].c
    <3>1. Directly(s[k], t[k])
      BY <2>1, <1>5, Zenon
    <3> QED BY <3>1 DEF Directly
  <2>5. k > 1 => t[k - 1] = s[k]
    <3> SUFFICES ASSUME k > 1 PROVE t[k - 1] = s[k]
      OBVIOUS
    <3>1. k - 1 \in 1 .. Len(t) /\ k - 1 + 1 = k
      BY <1>3, Zenon
    <3> QED BY <3>1, <1>1, Zenon
  <2>6. k = 1 \/ k > 1
    BY <1>3, SMTT(30)
  <2>7. ASSUME t[k].st # "fail", NEW j \in 1 .. Size[t[k].c], j < t[k].i
        PROVE  ~new[t[k].c][j].dirty \/ (k > 1 /\ j = t[k - 1].i) \/ (k = 1 /\ r2 = "fail")
    <3>1. ~en[t[k].c][j].dirty \/ j = s[k].i
      <4>1. ~en[s[k + 1].c][j].dirty \/ j = s[k + 1 - 1].i
        BY <2>1, <2>2, <2>7 DEF Passed
      <4> QED BY <4>1, <2>1, SMTT(30)
    <3>2. CASE ~en[t[k].c][j].dirty
      <4>1. t[k].c \in Caches
        BY <2>1, <1>4, Zenon
      <4> QED BY <4>1, <3>2, Zenon DEF Cleans
    <3>3. CASE j = s[k].i
      BY <3>3, <2>4, <2>5, <2>6, Zenon
    <3> QED BY <3>1, <3>2, <3>3, SMTT(30)
  <2> QED BY <2>3, <2>5, <2>7, Zenon DEF Passed
<1>9. SameBottom(t, s)
  <2> SUFFICES ASSUME t # << >> PROVE t[Len(t)] = s[Len(s)]
    BY Zenon DEF SameBottom
  <2>1. Len(t) \in 1 .. Len(t) /\ Len(t) + 1 = Len(s)
    <3>1. t \in Seq(Frame) /\ Len(t) \in Nat \ {0} /\ Len(t) = Len(s) - 1 /\ Len(s) \in Nat
      BY <1>1, <1>2, PopStack
    <3> QED BY <3>1
  <2> QED BY <2>1, <1>1, Zenon
<1> QED BY <1>6, <1>7, <1>8, <1>9, Zenon DEF FlushCalls

-----------------------------------------------------------------------------
(* The steps of the caches.                                                *)
CacheFlush ==
    /\ Agree(entries, disk) /\ FlushCalls(stack, entries, rv)
    /\ Flushed(stack, entries, disk, rv)

(* What is saved stays so, and what a flush says is saved is.              *)
SavedStays == \A c \in Caches : Saved(entries, disk, c) => Saved(entries', disk', c)
FlushSaves == Top.fn = "flush" /\ stack' = << >> /\ rv' = "ok" => Saved(entries', disk', Top.c)
CacheStays == CacheFlush' /\ SameBottom(stack', stack) /\ SavedStays /\ FlushSaves

(* Nothing is written.                                                     *)
LEMMA SameFile ==
    ASSUME CacheFlush, UNCHANGED <<disk, entries>>
    PROVE  Agree(entries', disk') /\ SavedStays
  BY Zenon DEF CacheFlush, SavedStays

(* The entries stay as they are.                                           *)
LEMMA SameCleans ==
    ASSUME UNCHANGED entries
    PROVE  Cleans(entries, entries', stack)
  BY Zenon DEF Cleans

(* The flush of the file.                                                  *)
LEMMA FileFlushSaves ==
    ASSUME EntriesOK(entries), Agree(entries, disk), FileFlush, UNCHANGED entries
    PROVE  Agree(entries', disk') /\ SavedStays /\ \A c \in Caches : Settled(disk', c)
<1>1. \A c \in Caches : \A o \in TablesOf(c) : o \in Offsets
  BY DEF Caches, TablesOf, Offsets
<1>2. \A o \in Offsets : disk'[o].cur = disk[o].cur /\ disk'[o].may = {disk'[o].cur}
  BY DEF FileFlush
<1>3. \A c \in Caches : Settled(disk', c)
  BY <1>1, <1>2, Zenon DEF Settled
<1>4. Agree(entries', disk')
  <2> SUFFICES ASSUME NEW c \in Caches, NEW i \in 1 .. Size[c],
                      ~entries[c][i].dirty, entries[c][i].offset # 0
               PROVE  entries[c][i].table = disk'[entries[c][i].offset].cur
    BY Zenon DEF Agree
  <2>1. entries[c][i].offset \in {0} \cup TablesOf(c)
    BY Zenon DEF EntriesOK
  <2>2. entries[c][i].offset \in Offsets
    BY <2>1, <1>1
  <2> QED BY <2>2, <1>2, Zenon DEF Agree
<1> QED BY <1>3, <1>4, Zenon DEF SavedStays, Saved

(* After a return.                                                         *)
LEMMA AfterReturn ==
    ASSUME CacheInv, stack # << >>, FlushCalls(stack, entries, rv), stack' = Tail(stack),
           Top.fn = "flush" /\ rv' = "ok" => Saved(entries', disk', Top.c)
    PROVE  Flushed(stack', entries', disk', rv')
<1> SUFFICES ASSUME stack' # << >>, stack'[1].fn = "dep", rv' = "ok"
             PROVE  Saved(entries', disk', Other(stack'[1].c))
  BY Zenon DEF Flushed
<1>1. Nested(stack) /\ Top = stack[1]
  BY TopCall, Zenon DEF CacheInv
<1>2. Nested(stack') /\ \A k \in 1 .. Len(stack') : k + 1 \in 1 .. Len(stack) /\ stack'[k] = stack[k + 1]
  BY <1>1, PopNested, Zenon
<1>3. 1 \in 1 .. Len(stack')
  <2>1. stack' \in Seq(Frame) /\ Len(stack') \in Nat \ {0}
    BY <1>2, PopStack DEF Nested
  <2> QED BY <2>1
<1>4. 2 \in 2 .. Len(stack) /\ stack'[1] = stack[2]
  <2>1. 1 + 1 \in 1 .. Len(stack) /\ stack'[1] = stack[1 + 1]
    BY <1>2, <1>3, Zenon
  <2> QED BY <2>1
<1>5. Directly(stack[1], stack'[1])
  <2>1. Directly(stack[2 - 1], stack[2])
    BY <1>4, Zenon DEF FlushCalls, Callers
  <2> QED BY <2>1, <1>4
<1>6. Top.fn = "flush" /\ Top.c = Other(stack'[1].c)
  BY <1>1, <1>5 DEF Directly
<1> QED BY <1>6, Zenon

(* A return that writes nothing.                                           *)
LEMMA ReturnStays ==
    ASSUME CacheInv, CacheFlush, stack # << >>, Top.fn # "flush", stack' = Tail(stack),
           UNCHANGED <<disk, entries>>,
           Top.fn = "entry" => ~entries[Top.c][Top.i].dirty \/ rv' = "fail"
    PROVE  CacheStays
<1>1. Nested(stack) /\ Top = stack[1]
  BY TopCall, Zenon DEF CacheInv
<1>2. FlushCalls(stack', entries', rv') /\ SameBottom(stack', stack)
  <2>1. stack[1].fn = "entry" => ~entries'[stack[1].c][stack[1].i].dirty \/ rv' = "fail"
    BY <1>1
  <2> QED BY <1>1, <2>1, SameCleans, PopCalls, Zenon DEF CacheFlush
<1>3. Flushed(stack', entries', disk', rv')
  BY AfterReturn, Zenon DEF CacheFlush
<1> QED BY <1>2, <1>3, SameFile, Zenon DEF CacheStays, CacheFlush, FlushSaves

(* A call.                                                                 *)
LEMMA CallStays ==
    ASSUME CacheInv, CacheFlush, stack # << >>, UNCHANGED <<disk, entries>>,
           NEW f \in Frame, NEW g \in Frame, g.fn = Top.fn, g.c = Top.c,
           Directly(f, g), f.st = "start", f.fn = "flush" => f.i = 1,
           g.fn = "entry" => g.i = Top.i /\ entries[g.c][g.i].dirty,
           g.fn = "flush" => /\ f.i = Top.i /\ g.i = Top.i + 1
                             /\ g.st # "fail" => rv # "fail" /\ Top.st # "fail",
           stack' = <<f, g>> \o Tail(stack)
    PROVE  CacheStays
<1>1. /\ stack \in Seq(Frame) /\ Top = stack[1] /\ FlushCalls(stack, entries, rv)
      /\ stack' = Pushed(stack, f, g)
  BY TopCall, Zenon DEF Pushed, CacheFlush
<1>2. /\ g.fn = stack[1].fn /\ g.c = stack[1].c
      /\ g.fn = "entry" => g.i = stack[1].i /\ entries[g.c][g.i].dirty
      /\ g.fn = "flush" => /\ f.i = stack[1].i /\ g.i = stack[1].i + 1
                           /\ g.st # "fail" => rv # "fail" /\ stack[1].st # "fail"
  BY <1>1, Zenon
<1>3. FlushCalls(stack', entries, rv') /\ SameBottom(stack', stack)
  BY <1>1, <1>2, PushCalls, ZenonT(60)
<1>4. stack' # << >> /\ stack'[1] = f
  BY <1>1, PushStack
<1>5. Flushed(stack', entries', disk', rv')
  BY <1>4 DEF Flushed
<1> QED BY <1>3, <1>4, <1>5, SameFile, Zenon DEF CacheStays, CacheFlush, FlushSaves

(* The topmost call goes on.                                               *)
LEMMA GoCallsOn ==
    ASSUME CacheInv, CacheFlush, stack # << >>, Top.fn \in {"entry", "set"}, NEW st \in Places,
           UNCHANGED <<entries, rv>>, stack' = <<[Top EXCEPT !.st = st]>> \o Tail(stack),
           Top.fn = "entry" => entries[Top.c][Top.i].dirty
    PROVE  /\ FlushCalls(stack', entries', rv') /\ SameBottom(stack', stack)
           /\ Flushed(stack', entries', disk', rv') /\ FlushSaves
<1> DEFINE g == [Top EXCEPT !.st = st]
<1>1. /\ stack \in Seq(Frame) /\ Top = stack[1] /\ Top \in Frame
      /\ FlushCalls(stack, entries, rv) /\ stack' = <<g>> \o Tail(stack)
  BY TopCall DEF CacheFlush
<1>2. g \in Frame /\ g.fn = Top.fn /\ g.c = Top.c /\ g.i = Top.i
  BY <1>1, NewPlace, SMTT(30)
<1> HIDE DEF g
<1>3. /\ g.fn = stack[1].fn /\ g.c = stack[1].c /\ g.i = stack[1].i /\ g.fn # "flush"
      /\ g.fn # "dep" /\ Top.fn # "flush"
      /\ g.fn = "entry" => entries[g.c][g.i].dirty
  BY <1>1, <1>2
<1>4. FlushCalls(stack', entries, rv) /\ SameBottom(stack', stack)
  BY <1>1, <1>2, <1>3, GoCalls, ZenonT(60)
<1>5. stack'[1] = g
  BY <1>1, <1>2, GoStack
<1> QED BY <1>3, <1>4, <1>5, Zenon DEF Flushed, FlushSaves

(* qcow2_cache_flush_dependency.                                           *)
LEMMA FlushDependencyStays ==
    ASSUME CacheInv, CacheFlush, FlushDependency
    PROVE  CacheStays
<1>1. stack # << >> /\ Top.fn = "dep" /\ UNCHANGED <<disk, entries>>
  BY DEF FlushDependency, In
<1>2. Top = stack[1] /\ Top \in Frame /\ Top.c \in Caches /\ Len(stack) \in Nat \ {0}
  BY <1>1, TopCall, Zenon
<1>3. CASE In("dep", "start")
  <2> DEFINE f == Call("flush", depends[Top.c], 1)
             g == [Top EXCEPT !.st = "flushed"]
  <2>1. stack' = <<f, g>> \o Tail(stack)
    BY <1>3, SMTT(30) DEF FlushDependency, In, Calls
  <2>2. depends[Top.c] = Other(Top.c) /\ depends[Top.c] \in Caches
    <3>1. depends[Top.c] # None
      <4>1. 1 \in 1 .. Len(stack)
        BY <1>2
      <4> QED BY <4>1, <1>1, <1>2, Zenon DEF CacheInv, Depending
    <3> QED BY <3>1, <1>2, TwoCaches DEF CacheInv, DependsOK
  <2>3. f \in Frame /\ f.fn = "flush" /\ f.c = Other(Top.c) /\ f.i = 1 /\ f.st = "start"
    BY <2>2, NewCall DEF Fns
  <2>4. g \in Frame /\ g.fn = "dep" /\ g.c = Top.c
    BY <1>1, <1>2, NewPlace, ZenonT(30) DEF Places
  <2> HIDE DEF f, g
  <2>5. Directly(f, g) /\ g.fn # "entry" /\ g.fn # "flush" /\ g.fn = Top.fn
    BY <2>3, <2>4, <1>1 DEF Directly
  <2> QED BY <2>1, <2>3, <2>4, <2>5, <1>1, CallStays, Zenon
<1>4. CASE In("dep", "flushed")
  <2>1. stack' = Tail(stack) /\ Top.fn # "flush" /\ Top.fn # "entry"
    BY <1>1, <1>4 DEF FlushDependency, In, Returns
  <2> QED BY <2>1, <1>1, ReturnStays, Zenon
<1> QED BY <1>3, <1>4 DEF FlushDependency

(* qcow2_cache_entry_flush, until it writes the entry.                     *)
LEMMA EntryStays ==
    ASSUME CacheInv, CacheFlush, EntryDependency \/ EntryClean \/ EntryFileFlush
    PROVE  CacheStays
<1>1. stack # << >> /\ Top.fn = "entry" /\ UNCHANGED entries
  BY DEF EntryDependency, EntryClean, EntryFileFlush, In
<1>2. Top = stack[1] /\ Top \in Frame /\ Top.c \in Caches /\ Len(stack) \in Nat \ {0}
  BY <1>1, TopCall, Zenon
<1>3. CASE EntryDependency
  <2>1. entries[Top.c][Top.i].dirty /\ UNCHANGED <<disk, entries>>
    BY <1>3 DEF EntryDependency
  <2>2. CASE stack' = <<Call("dep", Top.c, 0), [Top EXCEPT !.st = "write"]>> \o Tail(stack)
    <3> DEFINE f == Call("dep", Top.c, 0)
               g == [Top EXCEPT !.st = "write"]
    <3>1. f \in Frame /\ f.fn = "dep" /\ f.c = Top.c /\ f.st = "start"
      BY <1>2, NewCall DEF Fns
    <3>2. g \in Frame /\ g.fn = "entry" /\ g.c = Top.c /\ g.i = Top.i
      BY <1>1, <1>2, NewPlace, ZenonT(30) DEF Places
    <3>3. stack' = <<f, g>> \o Tail(stack)
      BY <2>2
    <3> HIDE DEF f, g
    <3>4. Directly(f, g) /\ f.fn # "flush" /\ g.fn # "flush" /\ g.fn = Top.fn
      BY <3>1, <3>2, <1>1 DEF Directly
    <3>5. entries[g.c][g.i].dirty
      BY <2>1, <3>2, Zenon
    <3> QED BY <2>1, <3>1, <3>2, <3>3, <3>4, <3>5, <1>1, CallStays, ZenonT(60)
  <2>3. CASE \E st \in {"flush", "write"} :
                 stack' = <<[Top EXCEPT !.st = st]>> \o Tail(stack) /\ rv' = rv
    <3>1. PICK st \in {"flush", "write"} : stack' = <<[Top EXCEPT !.st = st]>> \o Tail(stack)
      BY <2>3, SMTT(30)
    <3>2. st \in Places /\ rv' = rv /\ Top.fn \in {"entry", "set"}
      BY <2>3, <1>1 DEF Places
    <3>3. /\ FlushCalls(stack', entries', rv') /\ SameBottom(stack', stack)
          /\ Flushed(stack', entries', disk', rv') /\ FlushSaves
      BY <3>1, <3>2, <2>1, <1>1, GoCallsOn
    <3> QED BY <3>3, <2>1, SameFile, Zenon DEF CacheStays, CacheFlush
  <2> QED BY <1>3, <2>2, <2>3, Zenon DEF EntryDependency, Calls, Goes
<1>4. CASE EntryClean
  <2>1. /\ stack' = Tail(stack) /\ Top.fn # "flush" /\ UNCHANGED <<disk, entries>>
        /\ ~entries[Top.c][Top.i].dirty
    BY <1>1, <1>4, SMTT(30) DEF EntryClean, Returns
  <2> QED BY <2>1, <1>1, ReturnStays, ZenonT(60)
<1>5. CASE EntryFileFlush
  <2>1. CASE FileFlush /\ stack' = <<[Top EXCEPT !.st = "write"]>> \o Tail(stack) /\ rv' = rv
    <3>1. "write" \in Places /\ Top.fn \in {"entry", "set"}
      BY <1>1 DEF Places
    <3>2. entries[Top.c][Top.i].dirty
      <4>1. 1 \in 1 .. Len(stack) /\ Top.st # "start"
        BY <1>2, <1>5, SMTT(30) DEF EntryFileFlush, In
      <4> QED BY <4>1, <1>1, <1>2, Zenon DEF CacheFlush, FlushCalls, Writing
    <3>3. /\ FlushCalls(stack', entries', rv') /\ SameBottom(stack', stack)
          /\ Flushed(stack', entries', disk', rv') /\ FlushSaves
      BY <3>1, <3>2, <2>1, <1>1, GoCallsOn, SMTT(30)
    <3>4. Agree(entries', disk') /\ SavedStays
      BY <2>1, <1>1, FileFlushSaves, Zenon DEF CacheInv, CacheFlush
    <3> QED BY <3>3, <3>4, Zenon DEF CacheStays, CacheFlush
  <2>2. CASE stack' = Tail(stack) /\ rv' = "fail" /\ UNCHANGED <<disk, entries>>
    <3>1. Top.fn # "flush"
      BY <1>1
    <3> QED BY <3>1, <2>2, <1>1, ReturnStays
  <2> QED BY <2>1, <2>2, <1>5, <1>1 DEF EntryFileFlush, Goes, Returns
<1> QED BY <1>3, <1>4, <1>5, SMTT(30)

(* Tables of different caches lie apart.                                   *)
LEMMA TablesApart ==
    /\ \A c \in Caches : TablesOf(c) \subseteq Offsets /\ 0 \notin TablesOf(c)
    /\ \A c, d \in Caches : c # d => TablesOf(c) \cap TablesOf(d) = {}
  BY CacheAssumption DEF Caches, TablesOf, Offsets

(* A write to the file.                                                    *)
Written(o, v) ==
    \A p \in Offsets :
        /\ p # o => disk'[p] = disk[p]
        /\ p = o => disk'[p].cur = v /\ disk'[p].may = disk[p].may \cup {v}

(* It leaves the rest of the file alone.                                   *)
LEMMA WrittenAt ==
    ASSUME DiskOK(disk), NEW o, NEW v, PWrite(o, v)
    PROVE  Written(o, v)
<1>1. disk = [p \in Offsets |-> disk[p]]
  BY Zenon DEF DiskOK
<1> QED BY <1>1 DEF PWrite, Written

(* qcow2_cache_entry_flush writes the entry.                               *)
LEMMA EntryWriteStays ==
    ASSUME IInv, CacheFlush, EntryWrite
    PROVE  CacheStays
<1> DEFINE c == Top.c
           i == Top.i
           e == entries[c][i]
           new == [e EXCEPT !.dirty = FALSE]
<1>1. /\ CacheInv /\ EntriesOK(entries) /\ DiskOK(disk) /\ stack # << >> /\ Top.fn = "entry"
      /\ Top.st = "write" /\ Nested(stack)
  BY DEF IInv, CacheInv, DataInv, EntryWrite, In
<1>2. Top = stack[1] /\ c \in Caches /\ i \in 1 .. Size[c] /\ 1 \in 1 .. Len(stack)
  <2>1. Top = stack[1] /\ Top \in Frame /\ Len(stack) \in Nat \ {0}
    BY <1>1, TopCall, Zenon
  <2> QED BY <2>1, <1>1 DEF Frame
<1>3. e.dirty
  BY <1>1, <1>2 DEF CacheFlush, FlushCalls, Writing
<1>4. CASE stack' = Tail(stack) /\ rv' = "fail" /\ UNCHANGED <<disk, entries>>
  <2>1. Top.fn # "flush"
    BY <1>1
  <2> QED BY <2>1, <1>1, <1>4, ReturnStays, SMTT(30)
<1>5. CASE /\ PWrite(e.offset, e.table) /\ stack' = Tail(stack)
           /\ entries' = [entries EXCEPT ![c][i].dirty = FALSE]
  <2>1. /\ Entry(e) /\ e.offset \in {0} \cup TablesOf(c)
        /\ new.offset = e.offset /\ new.table = e.table /\ new.dirty = FALSE
    BY <1>1, <1>2, ChangedEntry, Zenon DEF EntriesOK
  <2>2. Replaced(entries', entries, c, i, new)
    <3>1. entries' = Put(entries, c, i, new)
      BY <1>5 DEF Put
    <3> HIDE DEF new, e, c, i
    <3> QED BY <3>1, <1>1, <1>2, EntryExcept, ZenonT(60)
  <2>3. \A p \in Offsets : /\ p # e.offset => disk'[p] = disk[p]
                           /\ p = e.offset => disk'[p].cur = e.table
    <3>1. Written(e.offset, e.table)
      BY <1>1, <1>5, WrittenAt, Zenon
    <3> QED BY <3>1, Zenon DEF Written
  <2> HIDE DEF new, e, c, i
  <2>4. /\ entries'[c][i] = new
        /\ \A d \in Caches : \A j \in 1 .. Size[d] :
               entries'[d][j] = entries[d][j] \/ (d = c /\ j = i)
    BY <2>2, <1>2, Zenon DEF Replaced
  <2>5. Cleans(entries, entries', stack)
    BY <2>1, <2>4, <1>1, <1>2, Zenon DEF Cleans, c
  <2>6. FlushCalls(stack', entries', rv') /\ SameBottom(stack', stack)
    <3>1. ~entries'[stack[1].c][stack[1].i].dirty
      BY <2>1, <2>4, <1>2, Zenon DEF c, i
    <3> QED BY <3>1, <2>5, <1>1, <1>5, PopCalls, ZenonT(60) DEF CacheFlush
  <2>7. Flushed(stack', entries', disk', rv')
    <3>1. Top.fn # "flush"
      BY <1>1
    <3> QED BY <3>1, <1>1, <1>5, AfterReturn, Zenon DEF CacheFlush
  <2>8. Agree(entries', disk')
    <3> SUFFICES ASSUME NEW d \in Caches, NEW j \in 1 .. Size[d],
                        ~entries'[d][j].dirty, entries'[d][j].offset # 0
                 PROVE  entries'[d][j].table = disk'[entries'[d][j].offset].cur
      BY Zenon DEF Agree
    <3>1. CASE d = c /\ j = i
      <4>1. entries'[d][j].offset = e.offset /\ entries'[d][j].table = e.table
        BY <3>1, <2>1, <2>4, Zenon
      <4>2. e.offset \in Offsets
        BY <4>1, <2>1, <1>2, TablesApart
      <4> QED BY <4>1, <4>2, <2>3, Zenon
    <3>2. CASE ~(d = c /\ j = i)
      <4>1. entries'[d][j] = entries[d][j]
        BY <3>2, <2>4, Zenon
      <4>2. /\ entries[d][j].offset \in TablesOf(d)
            /\ entries[d][j].table = disk[entries[d][j].offset].cur
        <5>1. entries[d][j].offset \in {0} \cup TablesOf(d)
          BY <1>1, Zenon DEF EntriesOK
        <5> QED BY <5>1, <4>1 DEF CacheFlush, Agree
      <4>3. entries[d][j].offset # e.offset
        <5>1. CASE d = c
          <6>1. entries[c][j].offset # entries[c][i].offset
            BY <5>1, <3>2, <4>1, <1>1, <1>2, Zenon DEF EntriesOK
          <6> QED BY <6>1, <5>1, Zenon DEF e
        <5>2. CASE d # c
          BY <5>2, <4>2, <2>1, <1>2, TablesApart, SMTT(30)
        <5> QED BY <5>1, <5>2
      <4>4. entries[d][j].offset \in Offsets
        BY <4>2, TablesApart
      <4> QED BY <4>1, <4>2, <4>3, <4>4, <2>3, Zenon
    <3> QED BY <3>1, <3>2
  <2>9. SavedStays
    <3> SUFFICES ASSUME NEW d \in Caches, Saved(entries, disk, d)
                 PROVE  Saved(entries', disk', d)
      BY Zenon DEF SavedStays
    <3>1. d # c
      BY <1>2, <1>3, Zenon DEF Saved, Clean, e
    <3>2. Clean(entries', d)
      BY <3>1, <2>4, ZenonT(60) DEF Saved, Clean
    <3>3. \A o \in TablesOf(d) : o \in Offsets /\ o # e.offset
      BY <3>1, <2>1, <1>2, TablesApart, SMTT(30)
    <3>4. Settled(disk', d)
      BY <3>3, <2>3, Zenon DEF Saved, Settled
    <3> QED BY <3>2, <3>4, Zenon DEF Saved
  <2>10. Top.fn # "flush"
    BY <1>1
  <2> QED BY <2>6, <2>7, <2>8, <2>9, <2>10, Zenon DEF CacheStays, CacheFlush, FlushSaves
<1> QED BY <1>4, <1>5 DEF EntryWrite, Returns

(* qcow2_cache_flush.                                                      *)
LEMMA FlushStays ==
    ASSUME CacheInv, CacheFlush, FlushEntry \/ FlushEnd
    PROVE  CacheStays
<1>1. /\ stack # << >> /\ Top.fn = "flush" /\ UNCHANGED entries /\ EntriesOK(entries)
      /\ Nested(stack)
  BY DEF FlushEntry, FlushEnd, CacheInv
<1>2. /\ Top = stack[1] /\ Top \in Frame /\ Top.c \in Caches /\ Top.i \in Nat
      /\ Top.i # 0 /\ Size[Top.c] \in Nat /\ 1 \in 1 .. Len(stack)
  <2>1. Top = stack[1] /\ Top \in Frame /\ Len(stack) \in Nat \ {0}
    BY <1>1, TopCall, Zenon
  <2> QED BY <2>1, <1>1, CacheAssumption DEF Frame, Caches
<1>3. CASE FlushEntry
  <2> DEFINE f == Call("entry", Top.c, Top.i)
             q == IF rv = "fail" THEN "fail" ELSE Top.st
             g == Forward(Top, Top.i + 1, q)
  <2>1. stack' = <<f, g>> \o Tail(stack) /\ UNCHANGED <<disk, entries>>
    BY <1>3 DEF FlushEntry, Forward
  <2>2. f \in Frame /\ f.fn = "entry" /\ f.c = Top.c /\ f.i = Top.i /\ f.st = "start"
    <3>1. "entry" \in Fns /\ Top.i \in 1 .. Size[Top.c]
      BY <1>2, <1>3 DEF Fns, FlushEntry
    <3> QED BY <1>2, <3>1, NewCall, SMTT(30)
  <2>3. /\ g \in Frame /\ g.fn = "flush" /\ g.c = Top.c /\ g.i = Top.i + 1 /\ g.st = q
    <3>1. Top.i + 1 \in Nat /\ Top.i + 1 # 0 /\ q \in Places
      BY <1>2 DEF Frame, Places
    <3> HIDE DEF q
    <3>2. g \in Frame /\ g.fn = Top.fn /\ g.c = Top.c
      BY <3>1, <1>1, <1>2, Forwards, ZenonT(30)
    <3>3. g.i = Top.i + 1 /\ g.st = q
      BY <1>2, Zenon DEF Forward, Frame
    <3> QED BY <3>2, <3>3, <1>1, Zenon
  <2>4. g.st # "fail" => rv # "fail" /\ Top.st # "fail"
    BY <2>3, Zenon
  <2> HIDE DEF f, g, q
  <2>5. Directly(f, g) /\ g.fn # "entry" /\ f.fn # "flush" /\ g.fn = Top.fn
    BY <2>2, <2>3, <1>1 DEF Directly
  <2> QED BY <2>1, <2>2, <2>3, <2>4, <2>5, <1>1, CallStays, Zenon
<1>4. CASE FlushEnd
  <2>1. /\ stack' = Tail(stack) /\ Top.i > Size[Top.c]
        /\ \/ rv # "fail" /\ Top.st # "fail" /\ FileFlush /\ rv' = "ok"
           \/ rv' = "fail" /\ UNCHANGED disk
    BY <1>4, Zenon DEF FlushEnd, Returns
  <2>2. FlushCalls(stack', entries', rv') /\ SameBottom(stack', stack)
    <3>1. stack[1].fn # "entry"
      BY <1>1, <1>2
    <3> QED BY <3>1, <2>1, <1>1, SameCleans, PopCalls, Zenon DEF CacheFlush
  <2>3. Agree(entries', disk') /\ SavedStays
    BY <2>1, <1>1, SameFile, FileFlushSaves DEF CacheFlush
  <2>4. rv' = "ok" => Saved(entries', disk', Top.c)
    <3> SUFFICES ASSUME rv' = "ok" PROVE Saved(entries', disk', Top.c)
      OBVIOUS
    <3>1. rv # "fail" /\ Top.st # "fail" /\ FileFlush
      BY <2>1
    <3>2. Settled(disk', Top.c)
      BY <3>1, <1>1, <1>2, FileFlushSaves, ZenonT(60) DEF CacheFlush
    <3>3. Passed(stack, 1, entries, rv) /\ ~(1 > 1)
      BY <1>1, <1>2 DEF CacheFlush, FlushCalls, Flushing
    <3>4. \A j \in 1 .. Size[Top.c] : j < Top.i
      BY <2>1, <1>2
    <3>5. \A j \in 1 .. Size[Top.c] : ~entries[Top.c][j].dirty
      BY <3>1, <3>3, <3>4, <1>2, Zenon DEF Passed
    <3> QED BY <3>2, <3>5, <1>1 DEF Saved, Clean
  <2>5. Flushed(stack', entries', disk', rv')
    BY <2>1, <2>4, <1>1, AfterReturn, Zenon DEF CacheFlush
  <2> QED BY <2>2, <2>3, <2>4, <2>5, Zenon DEF CacheStays, CacheFlush, FlushSaves
<1> QED BY <1>3, <1>4, SMTT(30)

(* Nothing is known, and nothing need be, of a stack without calls.        *)
LEMMA NothingCalled ==
    ASSUME NEW s, s = << >>, NEW en, NEW dk, NEW r, NEW t
    PROVE  FlushCalls(s, en, r) /\ Flushed(s, en, dk, r) /\ SameBottom(s, t)
<1>1. Len(s) = 0
  OBVIOUS
<1>2. (\A k \in 1 .. Len(s) : FALSE) /\ (\A k \in 2 .. Len(s) : FALSE)
  BY <1>1
<1> QED BY <1>2, Zenon DEF FlushCalls, Callers, Writing, Flushing, Flushed, SameBottom

(* qcow2_cache_set_dependency.                                             *)
LEMMA SetDependencyStays ==
    ASSUME CacheInv, CacheFlush, SetDependency
    PROVE  CacheStays
<1> DEFINE d == Other(Top.c)
<1>1. stack # << >> /\ Top.fn = "set" /\ UNCHANGED <<disk, entries>>
  BY DEF SetDependency, In
<1>2. Top = stack[1] /\ Top \in Frame /\ Top.c \in Caches /\ d \in Caches
  BY <1>1, TopCall, TwoCaches, Zenon
<1>3. CASE stack' = <<Call("dep", d, 0), [Top EXCEPT !.st = "set"]>> \o Tail(stack)
  <2> DEFINE f == Call("dep", d, 0)
             g == [Top EXCEPT !.st = "set"]
  <2>1. f \in Frame /\ f.fn = "dep" /\ f.c = d /\ f.st = "start"
    BY <1>2, NewCall DEF Fns
  <2>2. g \in Frame /\ g.fn = "set" /\ g.c = Top.c
    BY <1>1, <1>2, NewPlace, ZenonT(30) DEF Places
  <2>3. stack' = <<f, g>> \o Tail(stack)
    BY <1>3
  <2>4. Directly(f, g)
    <3> HIDE DEF f, g
    <3> QED BY <2>1, <2>2 DEF Directly
  <2> HIDE DEF f, g
  <2>5. f.fn # "flush" /\ g.fn # "flush" /\ g.fn # "entry" /\ g.fn = Top.fn
    BY <2>1, <2>2, <1>1
  <2> QED BY <2>1, <2>2, <2>3, <2>4, <2>5, <1>1, CallStays, Zenon
<1>4. CASE stack' = <<[Top EXCEPT !.st = "set"]>> \o Tail(stack) /\ rv' = rv
  <2>1. "set" \in Places /\ Top.fn \in {"entry", "set"} /\ Top.fn # "entry"
    BY <1>1, SMTT(30) DEF Places
  <2>2. /\ FlushCalls(stack', entries', rv') /\ SameBottom(stack', stack)
        /\ Flushed(stack', entries', disk', rv') /\ FlushSaves
    BY <2>1, <1>1, <1>4, GoCallsOn, SMTT(30)
  <2> QED BY <2>2, <1>1, SameFile, Zenon DEF CacheStays, CacheFlush
<1>5. CASE stack' = Tail(stack)
  <2>1. Top.fn # "flush" /\ Top.fn # "entry"
    BY <1>1
  <2> QED BY <2>1, <1>1, <1>5, ReturnStays, Zenon
<1> QED BY <1>3, <1>4, <1>5, ZenonT(30) DEF SetDependency, Calls, Goes, Returns

(* qcow2_cache_get.                                                        *)
LEMMA GetStays ==
    ASSUME CacheInv, CacheFlush, Get
    PROVE  CacheStays
<1>1. /\ stack # << >> /\ Top.fn = "get" /\ disk' = disk /\ EntriesOK(entries)
      /\ Top.fn # "flush" /\ Top.fn # "entry"
  BY Zenon DEF Get, In, CacheInv
<1>2. Top = stack[1] /\ Top \in Frame /\ Top.c \in Caches /\ Tail(stack) = << >>
  BY <1>1, TopCall, BottomCall
<1>3. CASE stack' = Tail(stack) /\ UNCHANGED entries
  BY <1>1, <1>3, ReturnStays, SMTT(30)
<1>4. ASSUME NEW i \in 1 .. Size[Top.c], UNCHANGED entries,
             stack' = <<Call("entry", Top.c, i), [Top EXCEPT !.st = "replace", !.slot = i]>>
                      \o Tail(stack)
      PROVE  CacheStays
  <2> DEFINE f == Call("entry", Top.c, i)
             g == Fetching(Top, i, "replace")
  <2>1. stack' = <<f, g>> \o Tail(stack) /\ UNCHANGED <<disk, entries>>
    BY <1>1, <1>4 DEF Fetching
  <2>2. i \in Nat /\ "replace" \in Places
    BY <1>2, CacheAssumption, SMTT(30) DEF Places, Caches
  <2>3. f \in Frame /\ f.fn = "entry" /\ f.c = Top.c /\ f.st = "start"
    BY <2>2, <1>2, NewCall DEF Fns
  <2>4. g \in Frame /\ g.fn = Top.fn /\ g.c = Top.c
    BY <2>2, <1>2, Fetches, Zenon
  <2> HIDE DEF f, g
  <2>5. Directly(f, g) /\ f.fn # "flush" /\ g.fn # "flush" /\ g.fn # "entry"
    BY <2>3, <2>4, <1>1 DEF Directly
  <2> QED BY <2>1, <2>3, <2>4, <2>5, <1>1, CallStays, Zenon
<1>5. ASSUME NEW new, ~new.dirty, new.offset # 0 => new.table = disk[new.offset].cur,
             stack' = Tail(stack), entries' = [entries EXCEPT ![Top.c][Top.slot] = new]
      PROVE  CacheStays
  <2>1. stack' = << >>
    BY <1>2, <1>5, Zenon
  <2>2. Replaced(entries', entries, Top.c, Top.slot, new)
    <3>1. entries' = Put(entries, Top.c, Top.slot, new)
      BY <1>5, Zenon DEF Put
    <3> QED BY <3>1, <1>1, <1>2, EntryExcept, Zenon
  <2>3. \A d \in Caches : \A j \in 1 .. Size[d] :
            entries'[d][j] = entries[d][j] \/ entries'[d][j] = new
    BY <2>2, Zenon DEF Replaced
  <2>4. Agree(entries', disk')
    <3> SUFFICES ASSUME NEW d \in Caches, NEW j \in 1 .. Size[d],
                        ~entries'[d][j].dirty, entries'[d][j].offset # 0
                 PROVE  entries'[d][j].table = disk[entries'[d][j].offset].cur
      BY <1>1, Zenon DEF Agree
    <3>1. CASE entries'[d][j] = new
      BY <3>1, <1>5, Zenon
    <3>2. CASE entries'[d][j] = entries[d][j]
      BY <3>2, Zenon DEF CacheFlush, Agree
    <3> QED BY <3>1, <3>2, <2>3, Zenon
  <2>5. SavedStays
    <3>1. ASSUME NEW d \in Caches, Clean(entries, d) PROVE Clean(entries', d)
      <4> SUFFICES ASSUME NEW j \in 1 .. Size[d] PROVE ~entries'[d][j].dirty
        BY Zenon DEF Clean
      <4>1. ~entries[d][j].dirty
        BY <3>1, Zenon DEF Clean
      <4> QED BY <4>1, <2>3, <1>5, ZenonT(60)
    <3> QED BY <3>1, <1>1, Zenon DEF SavedStays, Saved
  <2> QED BY <2>1, <2>4, <2>5, <1>1, NothingCalled, ZenonT(60)
          DEF CacheStays, CacheFlush, FlushSaves
<1>6. CASE /\ stack' = Tail(stack)
           /\ entries' = [entries EXCEPT ![Top.c][Top.slot] =
                              [offset |-> Top.i, dirty |-> FALSE, table |-> disk[Top.i].cur]]
  <2> DEFINE new == [offset |-> Top.i, dirty |-> FALSE, table |-> disk[Top.i].cur]
  <2>1. new.dirty = FALSE /\ new.table = disk[new.offset].cur
    OBVIOUS
  <2>2. entries' = [entries EXCEPT ![Top.c][Top.slot] = new]
    BY <1>6
  <2> HIDE DEF new
  <2> QED BY <2>1, <2>2, <1>5, <1>6, ZenonT(60)
<1>7. CASE stack' = Tail(stack) /\ entries' = [entries EXCEPT ![Top.c][Top.slot] = Empty]
  <2>1. Empty.dirty = FALSE /\ Empty.offset = 0
    BY DEF Empty
  <2> QED BY <2>1, <1>5, <1>7, Zenon
<1> QED BY <1>3, <1>4, <1>6, <1>7, ZenonT(60) DEF Get, Returns

(* Each step of the caches.                                                *)
LEMMA CacheStepStays ==
    ASSUME IInv, CacheFlush, CacheStep
    PROVE  CacheStays
<1>1. CacheInv
  BY DEF IInv
<1> QED BY <1>1, FlushDependencyStays, EntryStays, EntryWriteStays, FlushStays,
           SetDependencyStays, GetStays, Zenon DEF CacheStep

(* A call that is not the last to return leaves others.                    *)
LEMMA LastReturn ==
    ASSUME IInv, CacheStep, stack' = << >>
    PROVE  stack # << >> /\ Len(stack) = 1 /\ Top = stack[1]
<1>1. stack # << >> /\ CacheInv
  BY Zenon
     DEF IInv, CacheStep, FlushDependency, EntryDependency, EntryClean, EntryFileFlush, EntryWrite,
         FlushEntry, FlushEnd, SetDependency, Get, In
<1>2. stack \in Seq(Frame) /\ Len(stack) \in Nat \ {0} /\ Top = stack[1]
  BY <1>1, TopCall
<1>3. /\ Tail(stack) \in Seq(Frame) /\ Len(Tail(stack)) = Len(stack) - 1
  BY <1>2, PopStack
<1>4. /\ \A f, g : <<f, g>> \o Tail(stack) # << >>
      /\ \A g : <<g>> \o Tail(stack) # << >>
  BY <1>3
<1>5. stack' = Tail(stack)
  BY <1>4, ZenonT(60)
     DEF CacheStep, FlushDependency, EntryDependency, EntryClean, EntryFileFlush, EntryWrite,
         FlushEntry, FlushEnd, SetDependency, Get, Calls, Goes, Returns
<1>6. Len(Tail(stack)) = 0
  <2>1. Len(<< >>) = 0
    OBVIOUS
  <2> QED BY <2>1, <1>5, ZenonT(60)
<1>7. \A m, n : m \in Nat \ {0} /\ n = m - 1 /\ n = 0 => m = 1
  OBVIOUS
<1> QED BY <1>1, <1>2, <1>3, <1>6, <1>7, Zenon

(* The steps of the caches keep the invariant.                             *)
LEMMA CacheKeepsFlush ==
    ASSUME IInv, FlushInv, Cache
    PROVE  FlushInv'
<1>1. CacheStep /\ UNCHANGED <<req, lock>>
  BY DEF Cache
<1>2. CacheStays
  BY <1>1, CacheStepStays, Zenon DEF FlushInv, CacheFlush
<1>3. Locked'
  BY <1>1, <1>2, Zenon DEF FlushInv, Locked, Bottom, CacheStays, SameBottom
<1>4. ASSUME NEW r \in Requests, lock = r, NEW c \in Caches, Bottom(stack, "flush", c),
             stack' = << >>, rv' = "ok"
      PROVE  Saved(entries', disk', c)
  <2>1. stack # << >> /\ Len(stack) = 1 /\ Top = stack[1]
    BY <1>1, <1>4, LastReturn, Zenon
  <2>2. Top.fn = "flush" /\ Top.c = c
    BY <2>1, <1>4, Zenon DEF Bottom
  <2> QED BY <2>2, <1>2, <1>4, Zenon DEF CacheStays, FlushSaves
<1>5. Reported'
  <2>1. "l2" \in Caches /\ "rc" \in Caches
    BY DEF Caches
  <2>2. SavedStays
    BY <1>2 DEF CacheStays
  <2> SUFFICES ASSUME NEW r \in Requests, lock = r
               PROVE  /\ req[r].pc = "tables" /\ stack' = << >> /\ rv' = "ok" =>
                             Saved(entries', disk', "l2")
                      /\ req[r].pc = "counts" => Saved(entries', disk', "l2")
                      /\ req[r].pc = "counts" /\ stack' = << >> /\ rv' = "ok" =>
                             Saved(entries', disk', "rc")
    BY <1>1, Zenon DEF Reported
  <2>3. /\ req[r].pc = "tables" => Bottom(stack, "flush", "l2")
        /\ req[r].pc = "counts" => Bottom(stack, "flush", "rc")
        /\ req[r].pc = "counts" => Saved(entries, disk, "l2")
    BY Zenon DEF FlushInv, Locked, Reported
  <2> QED BY <2>1, <2>2, <2>3, <1>4, Zenon DEF SavedStays
<1> QED BY <1>2, <1>3, <1>5, Zenon DEF FlushInv, CacheStays, CacheFlush

-----------------------------------------------------------------------------
(* The requests.                                                           *)

(* A request calls the caches.                                             *)
LEMMA CallingStays ==
    ASSUME NEW fn \in {"set", "flush", "get"}, NEW c \in Caches, NEW i,
           fn = "flush" => i = 1, stack' = <<Call(fn, c, i)>>
    PROVE  /\ FlushCalls(stack', entries', rv') /\ Flushed(stack', entries', disk', rv')
           /\ stack' # << >> /\ Bottom(stack', fn, c)
<1> DEFINE f == Call(fn, c, i)
<1>2. f.fn = fn /\ f.c = c /\ f.i = i /\ f.st = "start"
  BY DEF Call
<1> HIDE DEF f
<1>3. Len(stack') = 1 /\ stack'[1] = f /\ stack' # << >>
  BY DEF f
<1>4. (\A k \in 1 .. Len(stack') : k = 1) /\ (\A k \in 2 .. Len(stack') : FALSE)
  BY <1>3
<1>5. Callers(stack') /\ Writing(stack', entries')
  BY <1>2, <1>3, <1>4, Zenon DEF Callers, Writing
<1>6. Flushing(stack', entries', rv')
  <2> SUFFICES ASSUME f.fn = "flush" PROVE Passed(stack', 1, entries', rv')
    BY <1>3, <1>4, Zenon DEF Flushing
  <2>1. f.i = 1 /\ ~(1 > 1)
    BY <1>2
  <2>2. \A j \in 1 .. Size[f.c] : ~(j < 1)
    BY <1>2, CacheAssumption DEF Caches
  <2> QED BY <2>1, <2>2, <1>3, Zenon DEF Passed
<1>7. Flushed(stack', entries', disk', rv')
  BY <1>2, <1>3 DEF Flushed
<1> QED BY <1>2, <1>3, <1>5, <1>6, <1>7, Zenon DEF FlushCalls, Bottom

(* A request returns with the lock free, or goes on with it, other than    *)
(* in a flush.                                                             *)
Elsewhere(r) ==
    \/ lock' = NoLock /\ stack' = << >>
    \/ /\ lock' = r /\ req'[r].pc \notin {"tables", "counts"}
       /\ \/ stack' = << >>
          \/ \E fn \in {"set", "get"}, c \in Caches : \E i : stack' = <<Call(fn, c, i)>>

(* The invariant after such a step.                                        *)
LEMMA ElsewhereKeeps ==
    ASSUME Agree(entries', disk'), NEW r \in Requests, Elsewhere(r)
    PROVE  FlushInv'
<1>1. FlushCalls(stack', entries', rv') /\ Flushed(stack', entries', disk', rv')
  <2>1. CASE stack' = << >>
    BY <2>1, NothingCalled, Zenon
  <2>2. ASSUME NEW fn \in {"set", "get"}, NEW c \in Caches, NEW i, stack' = <<Call(fn, c, i)>>
        PROVE  FlushCalls(stack', entries', rv') /\ Flushed(stack', entries', disk', rv')
    <3>1. fn \in {"set", "flush", "get"} /\ fn # "flush"
      OBVIOUS
    <3> QED BY <2>2, <3>1, CallingStays, Zenon
  <2> QED BY <2>1, <2>2, Zenon DEF Elsewhere
<1>2. NoLock \notin Requests
  BY RequestsAssumption
<1>3. \A x \in Requests : lock' = x => req'[x].pc # "tables" /\ req'[x].pc # "counts"
  BY <1>2 DEF Elsewhere
<1>4. stack' # << >> => lock' \in Requests
  BY DEF Elsewhere
<1>5. Locked' /\ Reported'
  BY <1>3, <1>4, Zenon DEF Locked, Reported
<1> QED BY <1>1, <1>5, Zenon DEF FlushInv

(* A table that has been changed is dirty.                                 *)
LEMMA UpdateAgrees ==
    ASSUME EntriesOK(entries), Agree(entries, disk), NEW c \in Caches, NEW o, NEW v,
           Update(c, o, v), UNCHANGED disk
    PROVE  Agree(entries', disk')
<1> DEFINE k == Slot(c, o)
           new == [offset |-> entries[c][k].offset, dirty |-> TRUE, table |-> v]
<1>1. entries' = Put(entries, c, k, new)
  BY Zenon DEF Update, Put
<1>2. new.dirty = TRUE
  OBVIOUS
<1> HIDE DEF k, new
<1>3. Replaced(entries', entries, c, k, new)
  BY <1>1, EntryExcept, Zenon
<1> SUFFICES ASSUME NEW d \in Caches, NEW j \in 1 .. Size[d],
                    ~entries'[d][j].dirty, entries'[d][j].offset # 0
             PROVE  entries'[d][j].table = disk[entries'[d][j].offset].cur
  BY Zenon DEF Agree
<1>4. entries'[d][j] = entries[d][j]
  BY <1>2, <1>3, Zenon DEF Replaced
<1> QED BY <1>4, Zenon DEF Agree

(* Where a request is after its step.                                      *)
LEMMA StepTo ==
    ASSUME IInv, NEW r \in Requests
    PROVE  /\ \A pc : req' = [req EXCEPT ![r].pc = pc] => req'[r].pc = pc
           /\ \A q : req' = [req EXCEPT ![r] = q] => req'[r] = q
<1>1. DOMAIN req = Requests /\ RequestOK(req[r])
  BY RequestAt, Zenon
<1>2. \A pc : [req[r] EXCEPT !.pc = pc].pc = pc
  BY <1>1 DEF RequestOK
<1> QED BY <1>1, <1>2, Zenon

(* Writes and discards, but for the data.                                  *)
LEMMA RequestFlush ==
    ASSUME IInv, FlushInv, NEW r \in Requests,
           \/ WriteStart(r) \/ DiscardStart(r) \/ WriteTable(r) \/ WriteAlloc(r) \/ WriteCopied(r)
           \/ WriteLink(r) \/ WriteUpdate(r) \/ DiscardClear(r) \/ DiscardFree(r) \/ DiscardCount(r)
    PROVE  FlushInv'
<1>1. "l2" \in Caches /\ "rc" \in Caches
  BY DEF Caches
<1>2. EntriesOK(entries) /\ Agree(entries, disk)
  BY Zenon DEF IInv, CacheInv, FlushInv
<1> DEFINE Agreed == Agree(entries', disk')
<1>4. ASSUME UNCHANGED <<disk, entries>> PROVE Agreed
  BY <1>2, <1>4
<1>5. ASSUME NEW c \in Caches, NEW o, NEW v, Update(c, o, v), UNCHANGED disk PROVE Agreed
  BY <1>2, <1>5, UpdateAgrees, Zenon
<1>6. stack = << >>
  <2>1. lock = NoLock => stack = << >>
    BY RequestsAssumption DEF FlushInv, Locked
  <2> QED BY <2>1, ZenonT(30)
          DEF WriteStart, DiscardStart, Begin, WriteTable, WriteAlloc, WriteCopied, WriteLink, WriteUpdate,
              DiscardClear, DiscardFree, DiscardCount, Holds
<1>7. ASSUME NEW ok, Done(r, ok), UNCHANGED stack PROVE Elsewhere(r)
  BY <1>6, <1>7 DEF Done, Elsewhere
<1>8. ASSUME NEW pc \in {"scan", "update", "count"}, NEW c \in Caches, NEW i,
             Then(r, pc, Call("get", c, i)), lock' = r
      PROVE  Elsewhere(r)
  <2>1. pc \notin {"tables", "counts"} /\ "get" \in {"set", "get"}
    OBVIOUS
  <2> QED BY <2>1, <1>8, StepTo, Zenon DEF Then, Elsewhere
<1>9. ASSUME lock = r, NEW h, Scan(r, h) PROVE Elsewhere(r)
  BY <1>1, <1>7, <1>8, <1>9, Zenon DEF Scan
<1> HIDE DEF Agreed
<1>10. CASE WriteStart(r) \/ DiscardStart(r)
  <2>1. PICK g, b, pc : pc \in {"table", "clear"} /\ Begin(r, pc, g, b)
    BY <1>10, Zenon DEF WriteStart, DiscardStart
  <2>2. /\ lock' = r /\ UNCHANGED <<disk, entries>> /\ stack' = <<Call("get", "l2", L2Of(g))>>
        /\ req' = [req EXCEPT ![r] = Begun(pc, g, b)]
    BY <2>1, Zenon DEF Begin, Begun
  <2>3. Begun(pc, g, b).pc = pc
    BY DEF Idle, Begun
  <2>4. req'[r].pc = pc
    BY <2>2, <2>3, StepTo, Zenon
  <2>5. Elsewhere(r)
    BY <2>1, <2>2, <2>4, <1>1, SMTT(30) DEF Elsewhere
  <2> QED BY <2>2, <2>5, <1>4, ElsewhereKeeps, ZenonT(60) DEF Agreed
<1>11. CASE WriteTable(r)
  <2>1. Elsewhere(r) /\ UNCHANGED <<disk, entries>>
    BY <1>7, <1>9, <1>11, ZenonT(60) DEF WriteTable, Holds
  <2> QED BY <2>1, <1>4, ElsewhereKeeps, ZenonT(30) DEF Agreed
<1>12. CASE WriteAlloc(r)
  <2>1. CASE UNCHANGED entries
    <3>1. Elsewhere(r) /\ UNCHANGED <<disk, entries>>
      BY <2>1, <1>6, <1>7, <1>9, <1>12, Zenon DEF WriteAlloc, Holds, Elsewhere
    <3> QED BY <3>1, <1>4, ElsewhereKeeps, Zenon DEF Agreed
  <2>2. ASSUME NEW v, Update("rc", RefOf(free_cluster_index), v), lock' = NoLock, UNCHANGED stack
        PROVE  FlushInv'
    <3>1. Elsewhere(r) /\ UNCHANGED disk
      BY <2>2, <1>6, <1>12 DEF WriteAlloc, Elsewhere
    <3> QED BY <3>1, <2>2, <1>1, <1>5, ElsewhereKeeps, Zenon DEF Agreed
  <2> QED BY <2>1, <2>2, <1>12, Zenon DEF WriteAlloc
<1>13. CASE WriteCopied(r)
  <2>1. /\ lock' = r /\ UNCHANGED entries /\ req' = [req EXCEPT ![r].pc = "link"]
        /\ stack' = stack \/ stack' = <<Call("set", "l2", 0)>>
        /\ FileFlush \/ UNCHANGED disk
    BY <1>13 DEF WriteCopied, MarkDirty, Then
  <2>2. req'[r].pc = "link"
    BY <2>1, StepTo, Zenon
  <2>3. Elsewhere(r)
    BY <2>1, <2>2, <1>1, <1>6, SMTT(30) DEF Elsewhere
  <2>4. Agreed
    <3>1. CASE FileFlush
      BY <2>1, <3>1, <1>2, FileFlushSaves, Zenon DEF Agreed
    <3> QED BY <2>1, <3>1, <1>4
  <2> QED BY <2>3, <2>4, ElsewhereKeeps, Zenon DEF Agreed
<1>14. CASE WriteLink(r) \/ DiscardFree(r)
  <2>1. Elsewhere(r) /\ UNCHANGED <<disk, entries>>
    BY <1>1, <1>8, <1>14, Zenon DEF WriteLink, DiscardFree, Holds
  <2> QED BY <2>1, <1>4, ElsewhereKeeps, Zenon DEF Agreed
<1>15. CASE WriteUpdate(r)
  <2>1. Elsewhere(r) /\ UNCHANGED disk
    BY <1>7, <1>15 DEF WriteUpdate
  <2>2. Agreed
    BY <2>1, <1>1, <1>4, <1>5, <1>15, ZenonT(60) DEF WriteUpdate
  <2> QED BY <2>1, <2>2, ElsewhereKeeps, ZenonT(30) DEF Agreed
<1>16. CASE DiscardClear(r)
  <2> DEFINE g == req[r].g
             o == L2Of(g)
             h == Table("l2", o)[g]
             v == [Table("l2", o) EXCEPT ![g] = 0]
  <2>1. lock = r /\ UNCHANGED disk
    BY <1>16 DEF DiscardClear, Holds
  <2>2. CASE Done(r, rv = "ok") /\ UNCHANGED <<stack, rv, entries>>
    BY <2>1, <2>2, <1>4, <1>7, ElsewhereKeeps, Zenon DEF Agreed
  <2>3. CASE /\ Update("l2", o, v)
             /\ req' = [req EXCEPT ![r] = [@ EXCEPT !.pc = "free", !.h = h]]
             /\ stack' = <<Call("set", "rc", 0)>> /\ UNCHANGED lock
    <3> HIDE DEF h, v
    <3>1. req'[r].pc = "free"
      BY <2>3, RequestAt, Zenon DEF RequestOK
    <3>2. Elsewhere(r)
      BY <2>1, <2>3, <3>1, <1>1, SMTT(30) DEF Elsewhere
    <3>3. Agreed
      BY <2>1, <2>3, <1>1, <1>5, Zenon
    <3> QED BY <3>2, <3>3, ElsewhereKeeps, Zenon DEF Agreed
  <2> QED BY <2>2, <2>3, <1>16, Zenon DEF DiscardClear
<1>17. CASE DiscardCount(r)
  <2>1. Elsewhere(r) /\ UNCHANGED disk
    BY <1>7, <1>17, Zenon DEF DiscardCount
  <2>2. Agreed
    BY <2>1, <1>1, <1>4, <1>5, <1>17, Zenon DEF DiscardCount
  <2> QED BY <2>1, <2>2, ElsewhereKeeps, Zenon DEF Agreed
<1> QED BY <1>10, <1>11, <1>12, <1>13, <1>14, <1>15, <1>16, <1>17, Zenon

(* The data of a write goes to a cluster, not to a table.                  *)
LEMMA DataFlush ==
    ASSUME IInv, FlushInv, NEW r \in Requests, WriteData(r)
    PROVE  FlushInv'
<1>1. req[r].pc = "data" /\ UNCHANGED <<entries, stack, rv, lock>>
  BY DEF WriteData
<1>2. /\ \A x \in Requests : x # r => req'[x] = req[x]
      /\ req'[r].pc \in {"copied", "done"}
  <2>1. \/ req' = [req EXCEPT ![r].pc = "copied"]
        \/ req' = [req EXCEPT ![r] = [@ EXCEPT !.pc = "done", !.ok = FALSE]]
    BY DEF WriteData
  <2> QED BY <2>1, RequestAt, ZenonT(30) DEF RequestOK
<1>3. \A p \in Offsets : p \notin Clusters => disk'[p] = disk[p]
  <2>1. req[r].h \in Clusters /\ DiskOK(disk)
    BY <1>1, RequestAt DEF IInv, DataInv
  <2>2. CASE PWrite(req[r].h, req[r].g)
    <3>1. Written(req[r].h, req[r].g)
      BY <2>1, <2>2, WrittenAt, Zenon
    <3> QED BY <2>1, <3>1, Zenon DEF Written
  <2> QED BY <2>2 DEF WriteData
<1>4. \A c \in Caches : \A o \in TablesOf(c) : disk'[o] = disk[o]
  <2>1. \A c \in Caches : \A o \in TablesOf(c) : o \in Offsets /\ o \notin Clusters
    BY CacheAssumption DEF Caches, TablesOf, Offsets
  <2> QED BY <2>1, <1>3, Zenon
<1>5. SavedStays
  BY <1>1, <1>4, Zenon DEF SavedStays, Saved, Settled
<1>6. Agree(entries', disk')
  <2> SUFFICES ASSUME NEW c \in Caches, NEW i \in 1 .. Size[c],
                      ~entries[c][i].dirty, entries[c][i].offset # 0
               PROVE  entries[c][i].table = disk'[entries[c][i].offset].cur
    BY <1>1, Zenon DEF Agree
  <2>1. entries[c][i].offset \in {0} \cup TablesOf(c)
    BY Zenon DEF IInv, CacheInv, EntriesOK
  <2>2. disk'[entries[c][i].offset] = disk[entries[c][i].offset]
    BY <2>1, <1>4
  <2> QED BY <2>2, Zenon DEF FlushInv, Agree
<1>7. "l2" \in Caches /\ "rc" \in Caches
  BY DEF Caches
<1>8. \A x \in Requests : req'[x].pc \in {"tables", "counts"} => req'[x] = req[x]
  BY <1>2, SMTT(30)
<1>9. \A x \in Requests : /\ req'[x].pc = "tables" => req[x].pc = "tables"
                          /\ req'[x].pc = "counts" => req[x].pc = "counts"
  BY <1>8
<1>10. Locked'
  BY <1>1, <1>9, Zenon DEF FlushInv, Locked
<1>11. Reported'
  BY <1>1, <1>5, <1>7, <1>9, Zenon DEF FlushInv, Reported, SavedStays
<1>12. Flushed(stack', entries', disk', rv')
  <2> SUFFICES ASSUME stack # << >>, stack[1].fn = "dep", stack[1].st = "flushed", rv = "ok"
               PROVE  Saved(entries', disk', Other(stack[1].c))
    BY <1>1, Zenon DEF Flushed
  <2>1. Top = stack[1] /\ Top.c \in Caches
    BY TopCall, Zenon DEF IInv
  <2> QED BY <2>1, <1>5, TwoCaches, Zenon DEF FlushInv, Flushed, SavedStays
<1> QED BY <1>1, <1>6, <1>10, <1>11, <1>12, Zenon DEF FlushInv

(* qcow2_co_flush_to_os.                                                   *)
LEMMA FlushRequestFlush ==
    ASSUME IInv, FlushInv, NEW r \in Requests, FlushStart(r) \/ FlushCounts(r) \/ FlushReturns(r)
    PROVE  FlushInv'
<1>1. /\ UNCHANGED <<disk, entries>> /\ Agree(entries, disk)
      /\ "l2" \in Caches /\ "rc" \in Caches
  BY DEF FlushStart, FlushCounts, FlushReturns, FlushInv, Caches
<1>2. CASE stack = << >> /\ Done(r, rv = "ok") /\ UNCHANGED stack
  <2>1. Elsewhere(r)
    BY <1>2, Zenon DEF Done, Elsewhere
  <2> QED BY <2>1, <1>1, ElsewhereKeeps, Zenon
<1>3. ASSUME NEW pc \in {"tables", "counts"}, NEW c \in Caches, Then(r, pc, Call("flush", c, 1)),
             lock' = r, c = IF pc = "tables" THEN "l2" ELSE "rc",
             pc = "counts" => Saved(entries, disk, "l2")
      PROVE  FlushInv'
  <2>1. req'[r].pc = pc /\ stack' = <<Call("flush", c, 1)>>
    BY <1>3, StepTo, ZenonT(60) DEF Then
  <2>2. /\ FlushCalls(stack', entries', rv') /\ Flushed(stack', entries', disk', rv')
        /\ stack' # << >> /\ Bottom(stack', "flush", c)
    BY <2>1, CallingStays, SMTT(30)
  <2>3. Locked'
    BY <2>1, <2>2, <1>3 DEF Locked
  <2>4. Reported'
    BY <2>1, <2>2, <1>1, <1>3, ZenonT(30) DEF Reported
  <2> QED BY <2>2, <2>3, <2>4, <1>1, Zenon DEF FlushInv
<1>4. CASE FlushStart(r)
  <2>1. Then(r, "tables", Call("flush", "l2", 1)) /\ lock' = r
    BY <1>4, Zenon DEF FlushStart
  <2>2. /\ "tables" \in {"tables", "counts"} /\ "l2" = (IF "tables" = "tables" THEN "l2" ELSE "rc")
        /\ "tables" # "counts"
    OBVIOUS
  <2> QED BY <2>1, <2>2, <1>1, <1>3, Zenon
<1>5. CASE FlushCounts(r)
  <2>1. lock = r /\ stack = << >> /\ req[r].pc = "tables" /\ rv \in {"ok", "fail"}
    BY <1>5, SMTT(30) DEF FlushCounts, Holds, IInv, CacheInv
  <2>2. rv # "fail" => Saved(entries, disk, "l2")
    BY <2>1 DEF FlushInv, Reported
  <2>3. CASE rv = "fail" \/ marked
    <3>1. Done(r, rv = "ok") /\ UNCHANGED stack
      BY <2>3, <1>5, Zenon DEF FlushCounts
    <3> QED BY <3>1, <2>1, <1>2, Zenon
  <2>4. CASE ~(rv = "fail" \/ marked)
    <3>1. Then(r, "counts", Call("flush", "rc", 1)) /\ lock' = r
      BY <2>1, <2>4, <1>5, Zenon DEF FlushCounts
    <3>2. /\ "counts" \in {"tables", "counts"}
          /\ "rc" = (IF "counts" = "tables" THEN "l2" ELSE "rc")
      OBVIOUS
    <3>3. Saved(entries, disk, "l2")
      BY <2>2, <2>4, Zenon
    <3> QED BY <3>1, <3>2, <3>3, <1>1, <1>3, Zenon
  <2> QED BY <2>3, <2>4, ZenonT(60)
<1>6. CASE FlushReturns(r)
  BY <1>2, <1>6, Zenon DEF FlushReturns, Holds
<1> QED BY <1>4, <1>5, <1>6, ZenonT(60)

(* After a power failure the caches are empty.                             *)
LEMMA CrashFlush ==
    ASSUME IInv, Crash
    PROVE  FlushInv'
<1>1. /\ entries' = [c \in Caches |-> [i \in 1 .. Size[c] |-> Empty]]
      /\ stack' = << >> /\ lock' = NoLock
  BY Zenon DEF Crash
<1>2. Agree(entries', disk')
  BY <1>1 DEF Agree, Empty
<1>3. FlushCalls(stack', entries', rv') /\ Flushed(stack', entries', disk', rv')
  BY <1>1, NothingCalled, Zenon
<1>4. NoLock \notin Requests
  BY RequestsAssumption
<1>5. Locked' /\ Reported'
  BY <1>1, <1>4, Zenon DEF Locked, Reported
<1> QED BY <1>2, <1>3, <1>5, Zenon DEF FlushInv

(* The invariant holds at first.                                           *)
LEMMA InitFlush ==
    ASSUME Init
    PROVE  FlushInv
<1>1. /\ entries = [c \in Caches |-> [i \in 1 .. Size[c] |-> Empty]]
      /\ stack = << >> /\ lock = NoLock
  BY ZenonT(60) DEF Init, CacheInit
<1>2. Agree(entries, disk)
  BY <1>1 DEF Agree, Empty
<1>3. FlushCalls(stack, entries, rv) /\ Flushed(stack, entries, disk, rv)
  BY <1>1, NothingCalled, Zenon
<1>4. NoLock \notin Requests
  BY RequestsAssumption
<1>5. Locked /\ Reported
  BY <1>1, <1>4, Zenon DEF Locked, Reported
<1> QED BY <1>2, <1>3, <1>5, Zenon DEF FlushInv

(* Every step keeps it.                                                    *)
LEMMA StepFlush ==
    ASSUME IInv, FlushInv, [Next]_vars
    PROVE  FlushInv'
<1>1. CASE UNCHANGED vars
  BY <1>1, Zenon DEF vars, cacheVars, FlushInv, Locked, Reported
<1>2. ASSUME NEW r \in Requests,
             \/ WriteTable(r) \/ WriteAlloc(r) \/ WriteData(r) \/ WriteCopied(r) \/ WriteLink(r)
             \/ WriteUpdate(r) \/ DiscardClear(r) \/ DiscardFree(r) \/ DiscardCount(r)
             \/ FlushCounts(r) \/ FlushReturns(r)
             \/ WriteStart(r) \/ DiscardStart(r) \/ FlushStart(r)
      PROVE  FlushInv'
  BY <1>2, RequestFlush, DataFlush, FlushRequestFlush, Zenon
<1> QED BY <1>1, <1>2, CacheKeepsFlush, CrashFlush, Zenon DEF Next, Progress

-----------------------------------------------------------------------------
(* What has been saved is on the disk for good.                            *)
LEMMA SavedTables ==
    ASSUME FlushInv, NEW c \in Caches, Saved(entries, disk, c)
    PROVE  \A o \in TablesOf(c) : disk[o].may = {Table(c, o)}
<1> SUFFICES ASSUME NEW o \in TablesOf(c) PROVE disk[o].may = {Table(c, o)}
  BY Zenon
<1>1. disk[o].may = {disk[o].cur}
  BY Zenon DEF Saved, Settled
<1>2. CASE Cached(c, o)
  <2>1. Slot(c, o) \in 1 .. Size[c] /\ entries[c][Slot(c, o)].offset = o
    BY <1>2, Zenon DEF Cached, Slot
  <2>2. o # 0
    BY TablesApart
  <2>3. ~entries[c][Slot(c, o)].dirty
    BY <2>1, Zenon DEF Saved, Clean
  <2>4. entries[c][Slot(c, o)].table = disk[o].cur
    BY <2>1, <2>2, <2>3, Zenon DEF FlushInv, Agree
  <2> QED BY <2>4, <1>1, <1>2, Zenon DEF Table
<1>3. CASE ~Cached(c, o)
  BY <1>1, <1>3, ZenonT(60) DEF Table
<1> QED BY <1>2, <1>3

(* What a flush that reports success may say.                              *)
Durable(r) ==
    req[r].pc \in {"tables", "counts"} /\ req'[r].pc = "done" /\ req'[r].ok =>
        /\ \A o \in L2Tables : disk'[o].may = {Table("l2", o)'}
        /\ marked \/ \A o \in RefBlocks : disk'[o].may = {Table("rc", o)'}

(* The flush itself.                                                       *)
LEMMA FlushEnds ==
    ASSUME IInv, FlushInv, NEW r \in Requests, FlushCounts(r) \/ FlushReturns(r)
    PROVE  Durable(r)
<1> SUFFICES ASSUME req'[r].pc = "done", req'[r].ok
             PROVE  /\ \A o \in L2Tables : disk'[o].may = {Table("l2", o)'}
                    /\ marked \/ \A o \in RefBlocks : disk'[o].may = {Table("rc", o)'}
  BY ZenonT(60) DEF Durable
<1>1. /\ lock = r /\ stack = << >> /\ rv \in {"ok", "fail"} /\ UNCHANGED <<disk, entries>>
      /\ "l2" \in Caches /\ "rc" \in Caches
      /\ TablesOf("l2") = L2Tables /\ TablesOf("rc") = RefBlocks
  BY DEF FlushCounts, FlushReturns, Holds, IInv, CacheInv, Caches, TablesOf
<1>2. \A c, o : Table(c, o)' = Table(c, o)
  BY <1>1, Zenon DEF Table, Cached, Slot
<1>3. ASSUME NEW ok, Done(r, ok) PROVE ok
  BY <1>3, RequestAt, Zenon DEF Done, RequestOK
<1>4. CASE FlushCounts(r)
  <2>1. /\ req[r].pc = "tables"
        /\ \/ Done(r, rv = "ok") /\ (rv = "fail" \/ marked)
           \/ Then(r, "counts", Call("flush", "rc", 1))
    BY <1>4, Zenon DEF FlushCounts, Holds
  <2>2. ~Then(r, "counts", Call("flush", "rc", 1))
    <3>1. req' = [req EXCEPT ![r].pc = "counts"] => req'[r].pc = "counts"
      BY StepTo, Zenon
    <3> QED BY <3>1 DEF Then
  <2>3. rv = "ok" /\ marked
    BY <2>1, <2>2, <1>3, Zenon
  <2>4. Saved(entries, disk, "l2")
    BY <2>1, <2>3, <1>1, Zenon DEF FlushInv, Reported
  <2>5. \A o \in L2Tables : disk[o].may = {Table("l2", o)}
    BY <2>4, <1>1, SavedTables, Zenon
  <2> QED BY <2>3, <2>5, <1>1, <1>2, ZenonT(60)
<1>5. CASE FlushReturns(r)
  <2>1. req[r].pc = "counts" /\ Done(r, rv = "ok")
    BY <1>5, Zenon DEF FlushReturns, Holds
  <2>2. rv = "ok"
    BY <2>1, <1>3, Zenon
  <2>3. Saved(entries, disk, "l2") /\ Saved(entries, disk, "rc")
    BY <2>1, <2>2, <1>1, Zenon DEF FlushInv, Reported
  <2>4. \A o \in L2Tables : disk[o].may = {Table("l2", o)}
    BY <2>3, <1>1, SavedTables, Zenon
  <2>5. \A o \in RefBlocks : disk[o].may = {Table("rc", o)}
    BY <2>3, <1>1, SavedTables, Zenon
  <2> QED BY <2>4, <2>5, <1>1, <1>2, ZenonT(60)
<1> QED BY <1>4, <1>5

(* A request takes the steps it is at, and not those of another.           *)
LEMMA OwnStep ==
    ASSUME IInv, NEW r \in Requests, req[r].pc \in {"tables", "counts"}, NEW x \in Requests,
           \/ WriteTable(x) \/ WriteAlloc(x) \/ WriteData(x) \/ WriteCopied(x) \/ WriteLink(x)
           \/ WriteUpdate(x) \/ DiscardClear(x) \/ DiscardFree(x) \/ DiscardCount(x)
           \/ WriteStart(x) \/ DiscardStart(x) \/ FlushStart(x)
           \/ x # r /\ (FlushCounts(x) \/ FlushReturns(x))
    PROVE  req'[r] = req[r]
<1>1. x # r
  BY Zenon DEF WriteTable, WriteAlloc, WriteData, WriteCopied, WriteLink, WriteUpdate, DiscardClear,
         DiscardFree, DiscardCount, WriteStart, DiscardStart, Begin, FlushStart, Holds
<1>2. \E q : req' = [req EXCEPT ![x] = q]
  BY Zenon
     DEF WriteTable, WriteAlloc, WriteData, WriteCopied, WriteLink, WriteUpdate, DiscardClear,
         DiscardFree, DiscardCount, WriteStart, DiscardStart, Begin, FlushStart, FlushCounts,
         FlushReturns, Scan, Then, Done
<1>3. DOMAIN req = Requests
  BY RequestAt, Zenon
<1> QED BY <1>1, <1>2, <1>3, Zenon

(* Every step.                                                             *)
LEMMA StepDurable ==
    ASSUME IInv, FlushInv, Next, NEW r \in Requests
    PROVE  Durable(r)
<1> SUFFICES ASSUME req[r].pc \in {"tables", "counts"}, req'[r].pc = "done", req'[r].ok
             PROVE  Durable(r)
  BY Zenon DEF Durable
<1>1. req'[r] # req[r]
  OBVIOUS
<1>2. CASE Cache
  BY <1>1, <1>2 DEF Cache
<1>3. CASE Crash
  <2>1. req'[r] = [req[r] EXCEPT !.pc = "done", !.ok = FALSE]
    BY <1>3, Zenon DEF Crash, Active
  <2>2. ~req'[r].ok
    BY <2>1, RequestAt, Zenon DEF RequestOK
  <2> QED BY <2>2
<1>4. ASSUME NEW x \in Requests,
             \/ WriteTable(x) \/ WriteAlloc(x) \/ WriteData(x) \/ WriteCopied(x) \/ WriteLink(x)
             \/ WriteUpdate(x) \/ DiscardClear(x) \/ DiscardFree(x) \/ DiscardCount(x)
             \/ FlushCounts(x) \/ FlushReturns(x)
             \/ WriteStart(x) \/ DiscardStart(x) \/ FlushStart(x)
      PROVE  Durable(r)
  BY <1>1, <1>4, OwnStep, FlushEnds, Zenon
<1> QED BY <1>2, <1>3, <1>4, Zenon DEF Next, Progress

(* When qcow2_co_flush_to_os reports success, every L2 table is on the     *)
(* disk for good as the cache has it, and so is every refcount block       *)
(* unless the image is marked to be repaired: for any sizes of the caches, *)
(* any requests at the same time, and any failures and crashes before.     *)
THEOREM FlushDurableHolds == Spec => FlushDurable
<1>1. Init => IInv /\ FlushInv
  BY InitInv, InitFlush
<1>2. IInv /\ FlushInv /\ [Next]_vars => IInv' /\ FlushInv'
  BY StepInv, StepFlush, SMTT(30)
<1>3. IInv /\ FlushInv /\ [Next]_vars =>
          [\A r \in Requests :
               req[r].pc \in {"tables", "counts"} /\ req'[r].pc = "done" /\ req'[r].ok =>
                   /\ \A o \in L2Tables : disk'[o].may = {Table("l2", o)'}
                   /\ marked \/ \A o \in RefBlocks : disk'[o].may = {Table("rc", o)'}]_vars
  <2> SUFFICES ASSUME IInv, FlushInv, Next, NEW r \in Requests
               PROVE  req[r].pc \in {"tables", "counts"} /\ req'[r].pc = "done" /\ req'[r].ok =>
                          /\ \A o \in L2Tables : disk'[o].may = {Table("l2", o)'}
                          /\ marked \/ \A o \in RefBlocks : disk'[o].may = {Table("rc", o)'}
    BY Zenon
  <2>1. Durable(r)
    BY StepDurable
  <2> QED BY <2>1 DEF Durable
<1> QED BY <1>1, <1>2, <1>3, PTL DEF Spec, FlushDurable

=============================================================================
