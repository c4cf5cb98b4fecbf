------------------------- MODULE Qcow2RequestsProofs -------------------------
(***************************************************************************)
(* The metadata caches of qcow2 stay consistent, and their calls into each *)
(* other nest at most once, for any number of requests, sizes of the       *)
(* caches, failures and crashes.                                           *)
(***************************************************************************)
EXTENDS Qcow2Requests, TLAPS

-----------------------------------------------------------------------------
(* The caches: the shape of the calls in progress, the part of the         *)
(* invariant that is about the caches alone, and that each step of the     *)
(* caches keeps it.                                                        *)

Fns == {"set", "get", "dep", "flush", "entry"}
Places == {"start", "set", "replace", "flush", "write", "flushed", "fail"}
Frame ==
    {f \in [fn : Fns, c : Caches, i : Nat, st : Places, slot : Nat] :
        /\ f.fn = "entry" => f.i \in 1 .. Size[f.c]
        /\ f.fn = "flush" => f.i # 0}

(* The shape of the calls in progress:                                     *)
Nested(s) ==
    /\ s \in Seq(Frame)
    \* qcow2_cache_set_dependency and qcow2_cache_get are called by requests
    /\ \A k \in 1 .. Len(s) : s[k].fn \in {"set", "get"} => k = Len(s)
    \* what the flush of a dependency calls concerns the other cache only
    /\ \A j, k \in 1 .. Len(s) :
           j < k /\ s[k].fn = "dep" =>
               s[j].fn \in {"flush", "entry"} /\ s[j].c = Other(s[k].c)
    \* what qcow2_cache_set_dependency calls first is about the other cache
    /\ \A j, k \in 1 .. Len(s) :
           k = j + 1 /\ s[k].fn = "set" => s[j].fn = "dep" /\ s[j].c = Other(s[k].c)

(* A dependency that is being flushed is there until it has been flushed.  *)
Depending(s, dp) == \A k \in 1 .. Len(s) : s[k].fn = "dep" => dp[s[k].c] # None

(* qcow2_cache_set_dependency sets it when the other cache has none.       *)
Setting(s, dp, r) ==
    Len(s) = 1 /\ s[1].fn = "set" /\ s[1].st = "set" /\ r = "ok" => dp[Other(s[1].c)] = None

(* qcow2_cache_get replaces an entry only if the table is not cached.      *)
Absent(en, c, o) == \A i \in 1 .. Size[c] : en[c][i].offset # o
Getting(s, en) ==
    \A k \in 1 .. Len(s) :
        s[k].fn = "get" => /\ s[k].i \in TablesOf(s[k].c)
                           /\ s[k].st = "replace" => Absent(en, s[k].c, s[k].i)

Entry(e) == e = [offset |-> e.offset, dirty |-> e.dirty, table |-> e.table]
EntriesOK(en) ==
    /\ en = [c \in Caches |-> [i \in 1 .. Size[c] |-> en[c][i]]]
    /\ \A c \in Caches : \A i \in 1 .. Size[c] :
           /\ Entry(en[c][i]) /\ en[c][i].dirty \in BOOLEAN
           /\ en[c][i].offset \in {0} \cup TablesOf(c)
    /\ \A c \in Caches : \A i, j \in 1 .. Size[c] :
           i # j /\ en[c][i].offset # 0 => en[c][i].offset # en[c][j].offset

DependsOK(dp) ==
    /\ dp \in [Caches -> Caches \cup {None}]
    /\ \A c \in Caches : dp[c] # c
    /\ \E c \in Caches : dp[c] = None

CacheInv ==
    /\ Nested(stack) /\ Depending(stack, depends) /\ Setting(stack, depends, rv)
    /\ Getting(stack, entries)
    /\ EntriesOK(entries) /\ DependsOK(depends)
    /\ depends_on_flush \in [Caches -> BOOLEAN]
    /\ rv \in {"ok", "fail"} /\ errors \in 0 .. MaxErrors

-----------------------------------------------------------------------------
(* There are two caches.                                                   *)
LEMMA TwoCaches ==
    /\ Caches = {"l2", "rc"} /\ None \notin Caches
    /\ \A c \in Caches : Other(c) \in Caches /\ Other(c) # c
    /\ \A c, d \in Caches : c = d \/ d = Other(c)
<1>1. ASSUME NEW c \in Caches PROVE Other(c) \in Caches /\ Other(c) # c
  <2>1. \E d \in Caches : d # c
    BY DEF Caches
  <2> QED BY <2>1, Zenon DEF Other
<1> QED BY <1>1 DEF Caches, None

(* A call on top of the stack, whose caller goes on at another place.      *)
LEMMA PushStack ==
    ASSUME NEW S, NEW s \in Seq(S), s # << >>, NEW f \in S, NEW g \in S
    PROVE  /\ (<<f, g>> \o Tail(s)) \in Seq(S)
           /\ Len(<<f, g>> \o Tail(s)) = Len(s) + 1
           /\ (<<f, g>> \o Tail(s))[1] = f /\ (<<f, g>> \o Tail(s))[2] = g
           /\ \A k \in 3 .. Len(s) + 1 : (<<f, g>> \o Tail(s))[k] = s[k - 1]
  OBVIOUS

(* The topmost call goes on at another place.                              *)
LEMMA GoStack ==
    ASSUME NEW S, NEW s \in Seq(S), s # << >>, NEW g \in S
    PROVE  /\ (<<g>> \o Tail(s)) \in Seq(S)
           /\ Len(<<g>> \o Tail(s)) = Len(s)
           /\ (<<g>> \o Tail(s))[1] = g
           /\ \A k \in 2 .. Len(s) : (<<g>> \o Tail(s))[k] = s[k]
  OBVIOUS

(* The topmost call returns.                                               *)
LEMMA PopStack ==
    ASSUME NEW S, NEW s \in Seq(S), s # << >>
    PROVE  /\ Tail(s) \in Seq(S) /\ Len(s) \in Nat \ {0} /\ Len(Tail(s)) = Len(s) - 1
           /\ \A k \in 1 .. Len(s) - 1 : Tail(s)[k] = s[k + 1]
           /\ Head(s) = s[1] /\ s[1] \in S
  OBVIOUS

-----------------------------------------------------------------------------
(* Who calls whom, and about which cache.                                  *)
MayCall(s, f, dp) ==
    \/ s[1].fn = "flush" /\ f.fn = "entry" /\ f.c = s[1].c
    \/ s[1].fn = "get" /\ f.fn = "entry"
    \/ s[1].fn = "dep" /\ f.fn = "flush" /\ f.c = Other(s[1].c)
    \/ s[1].fn = "entry" /\ f.fn = "dep" /\ f.c = s[1].c /\ dp[f.c] # None
    \/ s[1].fn = "set" /\ f.fn = "dep" /\ f.c = Other(s[1].c) /\ dp[f.c] # None

(* An entry that must flush a dependency is not itself being flushed for   *)
(* one: that would need caches that depend on each other.                  *)
LEMMA NoSecondFlush ==
    ASSUME NEW s, Nested(s), s # << >>, NEW dp, DependsOK(dp), Depending(s, dp),
           s[1].fn = "entry", dp[s[1].c] # None
    PROVE  \A k \in 1 .. Len(s) : s[k].fn # "dep"
<1> SUFFICES ASSUME NEW k \in 1 .. Len(s), s[k].fn = "dep" PROVE FALSE
  OBVIOUS
<1>1. s \in Seq(Frame) /\ Len(s) \in Nat \ {0} /\ s[1] \in Frame /\ s[k] \in Frame
  BY PopStack DEF Nested
<1>2. 1 < k /\ 1 \in 1 .. Len(s)
  BY <1>1
<1>3. s[1].c = Other(s[k].c) /\ dp[s[k].c] # None
  BY <1>1, <1>2 DEF Nested, Depending
<1>4. s[k].c \in Caches
  BY <1>1 DEF Frame
<1> QED BY <1>3, <1>4, TwoCaches DEF DependsOK

Pushed(s, f, g) == <<f, g>> \o Tail(s)

(* A call keeps the shape of the stack.                                    *)
LEMMA PushNested ==
    ASSUME Nested(stack), stack # << >>, DependsOK(depends), Depending(stack, depends),
           NEW f \in Frame, NEW g \in Frame, g.fn = stack[1].fn, g.c = stack[1].c,
           MayCall(stack, f, depends), NEW t, t = Pushed(stack, f, g)
    PROVE  Nested(t) /\ Depending(t, depends) /\ Len(t) = Len(stack) + 1 /\ Len(t) > 1
<1>1. stack \in Seq(Frame) /\ Len(stack) \in Nat \ {0}
  BY PopStack DEF Nested
<1>2. /\ t \in Seq(Frame) /\ Len(t) = Len(stack) + 1 /\ t[1] = f /\ t[2] = g
      /\ \A k \in 3 .. Len(stack) + 1 : t[k] = stack[k - 1]
  BY <1>1, PushStack, SMTT(30) DEF Pushed
<1>3. \A k \in 2 .. Len(t) :
          k - 1 \in 1 .. Len(stack) /\ t[k].fn = stack[k - 1].fn /\ t[k].c = stack[k - 1].c
  <2> SUFFICES ASSUME NEW k \in 2 .. Len(t)
               PROVE  /\ k - 1 \in 1 .. Len(stack)
                      /\ t[k].fn = stack[k - 1].fn /\ t[k].c = stack[k - 1].c
    BY Zenon
  <2>1. k - 1 \in 1 .. Len(stack) /\ (k = 2 \/ k \in 3 .. Len(stack) + 1) /\ 2 - 1 = 1
    BY <1>1, <1>2
  <2> QED BY <2>1, <1>2, Zenon
<1>4. \A k \in 1 .. Len(t) : k = 1 \/ k \in 2 .. Len(t)
  BY <1>1, <1>2
<1>5. f.fn \in {"entry", "flush", "dep"}
  BY DEF MayCall
<1>6. \A k \in 1 .. Len(t) : t[k].fn \in {"set", "get"} => k = Len(t)
  <2> SUFFICES ASSUME NEW k \in 1 .. Len(t), t[k].fn \in {"set", "get"} PROVE k = Len(t)
    BY Zenon
  <2>1. k \in 2 .. Len(t)
    BY <1>2, <1>4, <1>5
  <2>2. k - 1 = Len(stack)
    BY <2>1, <1>3, Zenon DEF Nested
  <2> QED BY <2>1, <2>2, <1>1, <1>2
<1>7. ASSUME NEW j \in 1 .. Len(t), NEW k \in 1 .. Len(t), j < k, t[k].fn = "dep"
      PROVE  t[j].fn \in {"flush", "entry"} /\ t[j].c = Other(t[k].c)
  <2>1. /\ k \in 2 .. Len(t) /\ k - 1 \in 1 .. Len(stack)
        /\ stack[k - 1].fn = "dep" /\ stack[k - 1].c = t[k].c
    BY <1>7, <1>2, <1>3, <1>4
  <2>2. CASE j # 1
    <3>1. j - 1 \in 1 .. Len(stack) /\ t[j].fn = stack[j - 1].fn /\ t[j].c = stack[j - 1].c
      BY <2>2, <1>3, <1>4, Zenon
    <3>2. j - 1 < k - 1
      BY <1>7
    <3>3. stack[j - 1].fn \in {"flush", "entry"} /\ stack[j - 1].c = Other(stack[k - 1].c)
      BY <3>1, <3>2, <2>1, Zenon DEF Nested
    <3> QED BY <3>1, <3>3, <2>1, Zenon
  <2>3. CASE j = 1
    <3>1. stack[1].fn \in {"flush", "entry", "dep"}
      <4>1. CASE k - 1 = 1
        BY <4>1, <2>1
      <4>2. CASE k - 1 # 1
        <5>1. 1 < k - 1 /\ 1 \in 1 .. Len(stack)
          BY <4>2, <2>1, <1>1
        <5> QED BY <5>1, <2>1 DEF Nested
      <4> QED BY <4>1, <4>2
    <3>2. stack[1].fn # "entry"
      BY <2>1, <3>1, NoSecondFlush DEF MayCall
    <3>3. CASE stack[1].fn = "dep"
      <4>1. k - 1 = 1
        <5> SUFFICES ASSUME k - 1 # 1 PROVE FALSE
          OBVIOUS
        <5>1. 1 < k - 1 /\ 1 \in 1 .. Len(stack)
          BY <2>1, <1>1
        <5> QED BY <5>1, <2>1, <3>3, Zenon DEF Nested
      <4> QED BY <4>1, <3>3, <2>1, <2>3, <1>2 DEF MayCall
    <3>4. CASE stack[1].fn = "flush"
      <4>1. 1 < k - 1 /\ 1 \in 1 .. Len(stack)
        <5>1. k - 1 # 1
          BY <3>4, <2>1, Zenon
        <5> QED BY <5>1, <2>1, <1>1
      <4>2. stack[1].c = Other(stack[k - 1].c)
        BY <4>1, <2>1 DEF Nested
      <4> QED BY <4>2, <3>4, <2>1, <2>3, <1>2 DEF MayCall
    <3> QED BY <3>1, <3>2, <3>3, <3>4
  <2> QED BY <2>2, <2>3
<1>8. ASSUME NEW j \in 1 .. Len(t), NEW k \in 1 .. Len(t), k = j + 1, t[k].fn = "set"
      PROVE  t[j].fn = "dep" /\ t[j].c = Other(t[k].c)
  <2>1. /\ k \in 2 .. Len(t) /\ k - 1 \in 1 .. Len(stack)
        /\ stack[k - 1].fn = "set" /\ stack[k - 1].c = t[k].c
    <3>1. k # 1
      BY <1>8
    <3> QED BY <3>1, <1>3, <1>4, <1>8, Zenon
  <2>2. CASE j # 1
    <3>1. j - 1 \in 1 .. Len(stack) /\ t[j].fn = stack[j - 1].fn /\ t[j].c = stack[j - 1].c
      BY <2>2, <1>3, <1>4, Zenon
    <3>2. k - 1 = (j - 1) + 1
      BY <1>8
    <3>3. stack[j - 1].fn = "dep" /\ stack[j - 1].c = Other(stack[k - 1].c)
      BY <3>1, <3>2, <2>1, Zenon DEF Nested
    <3> QED BY <3>1, <3>3, <2>1, Zenon
  <2>3. CASE j = 1
    BY <2>3, <2>1, <1>8, <1>2 DEF MayCall
  <2> QED BY <2>2, <2>3
<1>9. Depending(t, depends)
  BY <1>2, <1>3, <1>4, Zenon DEF Depending, MayCall
<1> QED BY <1>1, <1>2, <1>6, <1>7, <1>8, <1>9 DEF Nested

(* So does a return.                                                       *)
LEMMA PopNested ==
    ASSUME NEW s, Nested(s), s # << >>, NEW t, t = Tail(s)
    PROVE  /\ Nested(t) /\ Len(t) = Len(s) - 1
           /\ \A k \in 1 .. Len(t) : k + 1 \in 1 .. Len(s) /\ t[k] = s[k + 1]
<1>1. /\ s \in Seq(Frame) /\ Len(s) \in Nat \ {0} /\ t \in Seq(Frame) /\ Len(t) = Len(s) - 1
      /\ \A k \in 1 .. Len(t) : k + 1 \in 1 .. Len(s) /\ t[k] = s[k + 1]
  BY PopStack DEF Nested
<1>2. \A k \in 1 .. Len(t) : t[k].fn \in {"set", "get"} => k = Len(t)
  <2> SUFFICES ASSUME NEW k \in 1 .. Len(t), t[k].fn \in {"set", "get"} PROVE k = Len(t)
    BY Zenon
  <2>1. k + 1 = Len(s)
    BY <1>1, Zenon DEF Nested
  <2> QED BY <2>1, <1>1
<1>3. \A j, k \in 1 .. Len(t) :
          j < k /\ t[k].fn = "dep" => t[j].fn \in {"flush", "entry"} /\ t[j].c = Other(t[k].c)
  <2> SUFFICES ASSUME NEW j \in 1 .. Len(t), NEW k \in 1 .. Len(t),
                      j < k, t[k].fn = "dep"
               PROVE  t[j].fn \in {"flush", "entry"} /\ t[j].c = Other(t[k].c)
    OBVIOUS
  <2>1. j + 1 < k + 1 /\ s[k + 1].fn = "dep"
    BY <1>1
  <2>2. s[j + 1].fn \in {"flush", "entry"} /\ s[j + 1].c = Other(s[k + 1].c)
    BY <2>1, <1>1, Zenon DEF Nested
  <2> QED BY <2>2, <1>1
<1>4. \A j, k \in 1 .. Len(t) :
          k = j + 1 /\ t[k].fn = "set" => t[j].fn = "dep" /\ t[j].c = Other(t[k].c)
  <2> SUFFICES ASSUME NEW j \in 1 .. Len(t), NEW k \in 1 .. Len(t),
                      k = j + 1, t[k].fn = "set"
               PROVE  t[j].fn = "dep" /\ t[j].c = Other(t[k].c)
    OBVIOUS
  <2>1. k + 1 = (j + 1) + 1 /\ s[k + 1].fn = "set"
    BY <1>1
  <2>2. s[j + 1].fn = "dep" /\ s[j + 1].c = Other(s[k + 1].c)
    BY <2>1, <1>1, Zenon DEF Nested
  <2> QED BY <2>2, <1>1
<1>5. Nested(t)
  BY <1>1, <1>2, <1>3, <1>4, Zenon DEF Nested
<1> QED BY <1>1, <1>5

(* The topmost call goes on at another place.                              *)
LEMMA GoNested ==
    ASSUME NEW s, Nested(s), s # << >>, NEW g \in Frame, g.fn = s[1].fn, g.c = s[1].c,
           NEW t, t = <<g>> \o Tail(s)
    PROVE  /\ Nested(t) /\ Len(t) = Len(s) /\ t[1] = g
           /\ \A k \in 1 .. Len(t) : t[k].fn = s[k].fn /\ t[k].c = s[k].c
           /\ \A k \in 2 .. Len(t) : t[k] = s[k]
<1>1. /\ s \in Seq(Frame) /\ Len(s) \in Nat \ {0} /\ t \in Seq(Frame) /\ Len(t) = Len(s)
      /\ t[1] = g /\ \A k \in 2 .. Len(t) : t[k] = s[k]
  BY PopStack, GoStack DEF Nested
<1>2. \A k \in 1 .. Len(t) : t[k].fn = s[k].fn /\ t[k].c = s[k].c
  BY <1>1
<1>3. \A k \in 1 .. Len(t) : t[k].fn \in {"set", "get"} => k = Len(t)
  BY <1>1, <1>2, Zenon DEF Nested
<1>4. \A j, k \in 1 .. Len(t) :
          j < k /\ t[k].fn = "dep" => t[j].fn \in {"flush", "entry"} /\ t[j].c = Other(t[k].c)
  <2> SUFFICES ASSUME NEW j \in 1 .. Len(t), NEW k \in 1 .. Len(t),
                      j < k, t[k].fn = "dep"
               PROVE  t[j].fn \in {"flush", "entry"} /\ t[j].c = Other(t[k].c)
    BY ZenonT(60)
  <2>1. j \in 1 .. Len(s) /\ k \in 1 .. Len(s) /\ s[k].fn = "dep" /\ s[k].c = t[k].c
    BY <1>1, <1>2, Zenon
  <2>2. s[j].fn \in {"flush", "entry"} /\ s[j].c = Other(s[k].c)
    BY <2>1, Zenon DEF Nested
  <2>3. t[j].fn = s[j].fn /\ t[j].c = s[j].c
    BY <1>2, Zenon
  <2> QED BY <2>1, <2>2, <2>3
<1>5. \A j, k \in 1 .. Len(t) :
          k = j + 1 /\ t[k].fn = "set" => t[j].fn = "dep" /\ t[j].c = Other(t[k].c)
  <2> SUFFICES ASSUME NEW j \in 1 .. Len(t), NEW k \in 1 .. Len(t),
                      k = j + 1, t[k].fn = "set"
               PROVE  t[j].fn = "dep" /\ t[j].c = Other(t[k].c)
    BY ZenonT(60)
  <2>1. j \in 1 .. Len(s) /\ k \in 1 .. Len(s) /\ s[k].fn = "set" /\ s[k].c = t[k].c
    BY <1>1, <1>2, Zenon
  <2>2. s[j].fn = "dep" /\ s[j].c = Other(s[k].c)
    BY <2>1, Zenon DEF Nested
  <2>3. t[j].fn = s[j].fn /\ t[j].c = s[j].c
    BY <1>2, Zenon
  <2> QED BY <2>1, <2>2, <2>3
<1>6. Nested(t)
  BY <1>1, <1>3, <1>4, <1>5, Zenon DEF Nested
<1> QED BY <1>1, <1>2, <1>6

-----------------------------------------------------------------------------
(* What the invariant says of the calls in progress.                       *)
CallsOK == /\ Nested(stack) /\ Depending(stack, depends)
           /\ Setting(stack, depends, rv) /\ Getting(stack, entries)

SameOffsets == \A c \in Caches : \A i \in 1 .. Size[c] :
                   entries'[c][i].offset = entries[c][i].offset

(* The topmost call.                                                       *)
LEMMA TopCall ==
    ASSUME CacheInv, stack # << >>
    PROVE  /\ Top = stack[1] /\ Top \in Frame /\ Top.c \in Caches /\ Top.fn \in Fns
           /\ stack \in Seq(Frame) /\ Len(stack) \in Nat \ {0}
           /\ Top.i \in Nat /\ Top.slot \in Nat
<1>1. stack \in Seq(Frame)
  BY DEF CacheInv, Nested
<1>2. Top = stack[1] /\ Top \in Frame /\ Len(stack) \in Nat \ {0}
  BY <1>1, PopStack DEF Top
<1> QED BY <1>1, <1>2 DEF Frame

(* A new call.                                                             *)
LEMMA NewCall ==
    ASSUME NEW fn \in Fns, NEW c \in Caches, NEW i \in Nat,
           fn = "entry" => i \in 1 .. Size[c], fn = "flush" => i # 0
    PROVE  /\ Call(fn, c, i) \in Frame /\ Call(fn, c, i).fn = fn /\ Call(fn, c, i).c = c
           /\ Call(fn, c, i).i = i /\ Call(fn, c, i).st = "start"
  BY DEF Call, Frame, Places

(* A call that goes on at another place.                                   *)
LEMMA NewPlace ==
    ASSUME NEW g \in Frame, NEW st \in Places
    PROVE  /\ [g EXCEPT !.st = st] \in Frame /\ [g EXCEPT !.st = st].fn = g.fn
           /\ [g EXCEPT !.st = st].c = g.c /\ [g EXCEPT !.st = st].i = g.i
           /\ [g EXCEPT !.st = st].st = st
  BY DEF Frame

(* A call.                                                                 *)
LEMMA CallKeeps ==
    ASSUME CacheInv, stack # << >>, NEW f \in Frame, NEW g \in Frame,
           g.fn = Top.fn, g.c = Top.c, MayCall(stack, f, depends),
           Top.fn = "get" => g.i = Top.i /\ Absent(entries, Top.c, Top.i),
           stack' = <<f, g>> \o Tail(stack), UNCHANGED <<entries, depends>>
    PROVE  CallsOK'
<1>1. /\ stack \in Seq(Frame) /\ Len(stack) \in Nat \ {0} /\ Top = stack[1]
      /\ Nested(stack) /\ DependsOK(depends) /\ Depending(stack, depends)
      /\ Getting(stack, entries)
  BY TopCall DEF CacheInv
<1>2. /\ Nested(stack') /\ Depending(stack', depends)
      /\ Len(stack') = Len(stack) + 1 /\ Len(stack') > 1
  <2>1. g.fn = stack[1].fn /\ g.c = stack[1].c
    BY <1>1, Zenon
  <2>2. stack' = Pushed(stack, f, g)
    BY Zenon DEF Pushed
  <2> QED BY <1>1, <2>1, <2>2, PushNested, Zenon
<1>3. /\ stack'[1] = f /\ stack'[2] = g
      /\ \A k \in 3 .. Len(stack) + 1 : stack'[k] = stack[k - 1]
  <2>1. LET t == <<f, g>> \o Tail(stack)
        IN  t[1] = f /\ t[2] = g /\ \A k \in 3 .. Len(stack) + 1 : t[k] = stack[k - 1]
    BY <1>1, PushStack, SMTT(30)
  <2> QED BY <2>1, Zenon
<1>4. ASSUME NEW k \in 1 .. Len(stack'), stack'[k].fn = "get"
      PROVE  /\ stack'[k].i \in TablesOf(stack'[k].c)
             /\ stack'[k].st = "replace" => Absent(entries, stack'[k].c, stack'[k].i)
  <2>1. k # 1
    BY <1>3, <1>4 DEF MayCall
  <2>2. CASE k = 2
    <3>1. Top.fn = "get" /\ 1 \in 1 .. Len(stack)
      BY <2>2, <1>1, <1>3, <1>4
    <3> QED BY <3>1, <2>2, <1>1, <1>3 DEF Getting
  <2>3. CASE k > 2
    <3>1. k - 1 \in 1 .. Len(stack) /\ stack'[k] = stack[k - 1]
      BY <2>3, <1>1, <1>2, <1>3
    <3> QED BY <3>1, <1>1, <1>4, Zenon DEF Getting
  <2> QED BY <2>1, <2>2, <2>3
<1>5. Getting(stack', entries)
  BY <1>4, Zenon DEF Getting
<1>6. Setting(stack', depends, rv')
  BY <1>2 DEF Setting
<1> QED BY <1>2, <1>5, <1>6 DEF CallsOK

(* The flush of an entry goes on.                                          *)
LEMMA GoKeeps ==
    ASSUME CacheInv, stack # << >>, Top.fn = "entry", NEW st \in Places,
           stack' = <<[Top EXCEPT !.st = st]>> \o Tail(stack), UNCHANGED <<entries, depends>>
    PROVE  CallsOK'
<1> DEFINE g == [Top EXCEPT !.st = st]
<1>1. /\ stack \in Seq(Frame) /\ Len(stack) \in Nat \ {0} /\ Top = stack[1] /\ Top \in Frame
      /\ Nested(stack) /\ Depending(stack, depends) /\ Getting(stack, entries)
  BY TopCall DEF CacheInv
<1>2. g \in Frame /\ g.fn = "entry" /\ g.c = Top.c
  BY <1>1, NewPlace
<1>3. stack' = <<g>> \o Tail(stack)
  OBVIOUS
<1> HIDE DEF g
<1>4. /\ Nested(stack') /\ Len(stack') = Len(stack) /\ stack'[1] = g
      /\ \A k \in 1 .. Len(stack') : stack'[k].fn = stack[k].fn /\ stack'[k].c = stack[k].c
      /\ \A k \in 2 .. Len(stack') : stack'[k] = stack[k]
  <2>1. g.fn = stack[1].fn /\ g.c = stack[1].c
    BY <1>1, <1>2, Zenon
  <2>2. \A t : t = <<g>> \o Tail(stack) =>
               /\ Nested(t) /\ Len(t) = Len(stack) /\ t[1] = g
               /\ \A k \in 1 .. Len(t) : t[k].fn = stack[k].fn /\ t[k].c = stack[k].c
               /\ \A k \in 2 .. Len(t) : t[k] = stack[k]
    BY <1>1, <1>2, <2>1, GoNested, Zenon
  <2> QED BY <1>3, <2>2, Zenon
<1>5. Depending(stack', depends)
  <2> SUFFICES ASSUME NEW k \in 1 .. Len(stack'), stack'[k].fn = "dep"
               PROVE  depends[stack'[k].c] # None
    BY Zenon DEF Depending
  <2>1. k \in 1 .. Len(stack) /\ stack'[k].fn = stack[k].fn /\ stack'[k].c = stack[k].c
    BY <1>4, Zenon
  <2> QED BY <2>1, <1>1, Zenon DEF Depending
<1>6. Setting(stack', depends, rv')
  BY <1>2, <1>4 DEF Setting
<1>7. ASSUME NEW k \in 1 .. Len(stack'), stack'[k].fn = "get" PROVE stack'[k] = stack[k]
  <2>1. k # 1
    BY <1>7, <1>2, <1>4, Zenon
  <2> QED BY <2>1, <1>1, <1>4
<1>8. Getting(stack', entries)
  <2>1. \A k \in 1 .. Len(stack') : k \in 1 .. Len(stack)
    BY <1>4, Zenon
  <2> SUFFICES ASSUME NEW k \in 1 .. Len(stack'), stack'[k].fn = "get"
               PROVE  /\ stack'[k].i \in TablesOf(stack'[k].c)
                      /\ stack'[k].st = "replace" => Absent(entries, stack'[k].c, stack'[k].i)
    BY Zenon DEF Getting
  <2>2. stack'[k] = stack[k]
    BY <1>7, Zenon
  <2> QED BY <2>1, <2>2, <1>1, Zenon DEF Getting
<1> QED BY <1>4, <1>5, <1>6, <1>8 DEF CallsOK

(* The return of a flush or of the flush of an entry.                      *)
LEMMA ReturnKeeps ==
    ASSUME CacheInv, stack # << >>, Top.fn \in {"flush", "entry"},
           stack' = Tail(stack), SameOffsets, UNCHANGED depends
    PROVE  CallsOK'
<1>1. /\ stack \in Seq(Frame) /\ Len(stack) \in Nat \ {0} /\ Top = stack[1]
      /\ Nested(stack) /\ Depending(stack, depends) /\ Getting(stack, entries)
  BY TopCall DEF CacheInv
<1>2. /\ Nested(stack') /\ Len(stack') = Len(stack) - 1
      /\ \A k \in 1 .. Len(stack') : k + 1 \in 1 .. Len(stack) /\ stack'[k] = stack[k + 1]
  BY <1>1, PopNested, Zenon
<1>3. Depending(stack', depends)
  BY <1>1, <1>2, Zenon DEF Depending
<1>4. ASSUME NEW k \in 1 .. Len(stack'), stack'[k].fn = "get"
      PROVE  /\ stack'[k].i \in TablesOf(stack'[k].c)
             /\ stack'[k].st = "replace" => Absent(entries', stack'[k].c, stack'[k].i)
  <2>1. /\ stack'[k].i \in TablesOf(stack'[k].c)
        /\ stack'[k].st = "replace" => Absent(entries, stack'[k].c, stack'[k].i)
    BY <1>1, <1>2, <1>4, Zenon DEF Getting
  <2>2. stack'[k] \in Frame
    BY <1>1, <1>2
  <2>3. stack'[k].c \in Caches
    BY <2>2 DEF Frame
  <2> QED BY <2>1, <2>3, Zenon DEF Absent, SameOffsets
<1>5. Getting(stack', entries')
  BY <1>4, Zenon DEF Getting
<1>6. ASSUME Len(stack') = 1 PROVE stack'[1].fn # "set"
  <2>1. 1 \in 1 .. Len(stack) /\ 2 \in 1 .. Len(stack) /\ 2 = 1 + 1 /\ stack'[1] = stack[2]
    BY <1>6, <1>1, <1>2
  <2> QED BY <2>1, <1>1 DEF Nested
<1>7. Setting(stack', depends, rv')
  BY <1>6 DEF Setting
<1> QED BY <1>2, <1>3, <1>5, <1>7 DEF CallsOK

(* A request calls the cache, or its call goes on.                         *)
LEMMA OnlyCall ==
    ASSUME NEW f \in Frame, f.fn \in {"set", "get", "flush"}, stack' = <<f>>,
           f.fn = "get" => /\ f.i \in TablesOf(f.c)
                           /\ f.st = "replace" => Absent(entries', f.c, f.i),
           f.fn = "set" /\ f.st = "set" /\ rv' = "ok" => depends'[Other(f.c)] = None
    PROVE  CallsOK'
<1>1. stack' \in Seq(Frame) /\ Len(stack') = 1 /\ stack'[1] = f
  OBVIOUS
<1>2. \A k \in 1 .. Len(stack') : k = 1
  BY <1>1
<1> QED BY <1>1, <1>2 DEF CallsOK, Nested, Depending, Setting, Getting

(* The call of a request returns.                                          *)
LEMMA RequestReturns ==
    ASSUME stack' = << >>
    PROVE  CallsOK'
<1>1. stack' \in Seq(Frame) /\ Len(stack') = 0
  OBVIOUS
<1>2. \A k \in 1 .. Len(stack') : FALSE
  BY <1>1
<1> QED BY <1>1, <1>2 DEF CallsOK, Nested, Depending, Setting, Getting

(* An entry with another flag or table.                                    *)
LEMMA ChangedEntry ==
    ASSUME NEW e, Entry(e), NEW b \in BOOLEAN, NEW v
    PROVE  /\ LET n == [e EXCEPT !.dirty = b]
              IN  Entry(n) /\ n.offset = e.offset /\ n.dirty = b /\ n.table = e.table
           /\ LET n == [offset |-> e.offset, dirty |-> b, table |-> v]
              IN  Entry(n) /\ n.offset = e.offset /\ n.dirty = b
<1>1. e = [offset |-> e.offset, dirty |-> e.dirty, table |-> e.table]
  BY DEF Entry
<1>2. [e EXCEPT !.dirty = b] = [offset |-> e.offset, dirty |-> b, table |-> e.table]
  BY <1>1
<1> QED BY <1>2 DEF Entry

(* Replacing the entry k of cache c.                                       *)
Put(en, c, k, new) == [en EXCEPT ![c][k] = new]
Replaced(after, en, c, k, new) ==
    /\ after = [d \in Caches |-> [i \in 1 .. Size[d] |-> after[d][i]]]
    /\ \A d \in Caches : \A i \in 1 .. Size[d] :
           after[d][i] = IF d = c /\ i = k THEN new ELSE en[d][i]

(* It leaves the other entries alone.                                      *)
LEMMA EntryExcept ==
    ASSUME NEW en, EntriesOK(en), NEW c \in Caches, NEW k, NEW new,
           NEW after, after = Put(en, c, k, new)
    PROVE  Replaced(after, en, c, k, new)
<1>1. en = [d \in Caches |-> [i \in 1 .. Size[d] |-> en[d][i]]]
  BY DEF EntriesOK
<1>2. /\ DOMAIN en = Caches /\ after = [d \in Caches |-> after[d]]
      /\ after[c] = [en[c] EXCEPT ![k] = new]
      /\ \A d \in Caches : d # c => after[d] = en[d]
  BY <1>1, Zenon DEF Put
<1>3. \A d \in Caches : en[d] = [i \in 1 .. Size[d] |-> en[d][i]]
  BY <1>1
<1>4. \A d \in Caches : after[d] = [i \in 1 .. Size[d] |-> after[d][i]]
  <2> SUFFICES ASSUME NEW d \in Caches PROVE after[d] = [i \in 1 .. Size[d] |-> after[d][i]]
    BY Zenon
  <2>1. en[d] = [i \in 1 .. Size[d] |-> en[d][i]]
    BY <1>3, Zenon
  <2>2. CASE d # c
    BY <2>1, <2>2, <1>2, Zenon
  <2>3. CASE d = c
    BY <2>1, <2>3, <1>2, Zenon
  <2> QED BY <2>2, <2>3
<1>5. after = [d \in Caches |-> [i \in 1 .. Size[d] |-> after[d][i]]]
  BY <1>2, <1>4
<1>6. ASSUME NEW d \in Caches, NEW i \in 1 .. Size[d]
      PROVE  after[d][i] = IF d = c /\ i = k THEN new ELSE en[d][i]
  <2>1. en[d] = [n \in 1 .. Size[d] |-> en[d][n]]
    BY <1>3
  <2>2. CASE d = c
    BY <2>1, <2>2, <1>2, Zenon
  <2> QED BY <2>2, <1>2
<1> QED BY <1>5, <1>6, Zenon DEF Replaced

(* Replacing it by one with the same offset.                               *)
LEMMA EntryChange ==
    ASSUME EntriesOK(entries), NEW c \in Caches, NEW k, NEW new,
           k \in 1 .. Size[c] => /\ Entry(new) /\ new.dirty \in BOOLEAN
                                 /\ new.offset = entries[c][k].offset,
           entries' = [entries EXCEPT ![c][k] = new]
    PROVE  EntriesOK(entries') /\ SameOffsets
<1>6. /\ entries' = [d \in Caches |-> [i \in 1 .. Size[d] |-> entries'[d][i]]]
      /\ \A d \in Caches : \A i \in 1 .. Size[d] :
             entries'[d][i] = IF d = c /\ i = k THEN new ELSE entries[d][i]
  <2>1. entries' = Put(entries, c, k, new)
    BY Zenon DEF Put
  <2>2. Replaced(entries', entries, c, k, new)
    BY <2>1, EntryExcept, Zenon
  <2> QED BY <2>2, Zenon DEF Replaced
<1>7. ASSUME NEW d \in Caches, NEW i \in 1 .. Size[d]
      PROVE  /\ Entry(entries'[d][i]) /\ entries'[d][i].dirty \in BOOLEAN
             /\ entries'[d][i].offset = entries[d][i].offset
  <2>1. Entry(entries[d][i]) /\ entries[d][i].dirty \in BOOLEAN
    BY Zenon DEF EntriesOK
  <2>2. entries'[d][i] = entries[d][i] \/ (d = c /\ i = k /\ entries'[d][i] = new)
    BY <1>6, Zenon
  <2>3. CASE d = c /\ i = k /\ entries'[d][i] = new
    BY <2>3
  <2> QED BY <2>1, <2>2, <2>3
<1>8. \A d \in Caches : \A i \in 1 .. Size[d] : entries[d][i].offset \in {0} \cup TablesOf(d)
  BY Zenon DEF EntriesOK
<1>9. \A d \in Caches : \A i, j \in 1 .. Size[d] :
          i # j /\ entries'[d][i].offset # 0 => entries'[d][i].offset # entries'[d][j].offset
  <2> SUFFICES ASSUME NEW d \in Caches, NEW i \in 1 .. Size[d], NEW j \in 1 .. Size[d],
                      i # j, entries'[d][i].offset # 0
               PROVE  entries'[d][i].offset # entries'[d][j].offset
    OBVIOUS
  <2>1. /\ entries'[d][i].offset = entries[d][i].offset
        /\ entries'[d][j].offset = entries[d][j].offset
    BY <1>7, Zenon
  <2>2. entries[d][i].offset # entries[d][j].offset
    BY <2>1, Zenon DEF EntriesOK
  <2> QED BY <2>1, <2>2, Zenon
<1>10. \A d \in Caches : \A i \in 1 .. Size[d] :
           /\ Entry(entries'[d][i]) /\ entries'[d][i].dirty \in BOOLEAN
           /\ entries'[d][i].offset \in {0} \cup TablesOf(d)
  BY <1>7, <1>8
<1>11. EntriesOK(entries')
  BY <1>6, <1>9, <1>10, Zenon DEF EntriesOK
<1> QED BY <1>7, <1>11, Zenon DEF SameOffsets

(* Replacing it by an empty one or by one for a table not cached yet.      *)
LEMMA ReplaceKeeps ==
    ASSUME EntriesOK(entries), NEW c \in Caches, NEW k, NEW new,
           Entry(new), new.dirty \in BOOLEAN, new.offset \in {0} \cup TablesOf(c),
           new.offset # 0 => Absent(entries, c, new.offset),
           entries' = [entries EXCEPT ![c][k] = new]
    PROVE  EntriesOK(entries')
<1>1. /\ entries' = [d \in Caches |-> [i \in 1 .. Size[d] |-> entries'[d][i]]]
      /\ \A d \in Caches : \A i \in 1 .. Size[d] :
             entries'[d][i] = IF d = c /\ i = k THEN new ELSE entries[d][i]
  <2>1. entries' = Put(entries, c, k, new)
    BY Zenon DEF Put
  <2>2. Replaced(entries', entries, c, k, new)
    BY <2>1, EntryExcept, Zenon
  <2> QED BY <2>2, Zenon DEF Replaced
<1>2. ASSUME NEW d \in Caches, NEW i \in 1 .. Size[d]
      PROVE  /\ Entry(entries'[d][i]) /\ entries'[d][i].dirty \in BOOLEAN
             /\ entries'[d][i].offset \in {0} \cup TablesOf(d)
  <2>1. /\ Entry(entries[d][i]) /\ entries[d][i].dirty \in BOOLEAN
        /\ entries[d][i].offset \in {0} \cup TablesOf(d)
    BY Zenon DEF EntriesOK
  <2>2. entries'[d][i] = entries[d][i] \/ (d = c /\ entries'[d][i] = new)
    BY <1>1, ZenonT(60)
  <2>3. CASE d = c /\ entries'[d][i] = new
    BY <2>3
  <2> QED BY <2>1, <2>2, <2>3
<1>3. ASSUME NEW d \in Caches, NEW i \in 1 .. Size[d], NEW j \in 1 .. Size[d],
             i # j, entries'[d][i].offset # 0
      PROVE  entries'[d][i].offset # entries'[d][j].offset
  <2>1. entries[d][i].offset # 0 => entries[d][i].offset # entries[d][j].offset
    BY <1>3, Zenon DEF EntriesOK
  <2>2. CASE d = c /\ i = k
    <3>1. entries'[d][i] = new /\ entries'[d][j] = entries[d][j]
      BY <2>2, <1>1, <1>3, ZenonT(60)
    <3> QED BY <3>1, <2>2, <1>3, Zenon DEF Absent
  <2>3. CASE d = c /\ j = k
    <3>1. entries'[d][j] = new /\ entries'[d][i] = entries[d][i]
      BY <2>3, <1>1, <1>3, ZenonT(60)
    <3>2. new.offset # 0 => entries[d][i].offset # new.offset
      BY <2>3, Zenon DEF Absent
    <3> QED BY <3>1, <3>2, <1>3, Zenon
  <2>4. CASE ~(d = c /\ i = k) /\ ~(d = c /\ j = k)
    <3>1. entries'[d][j] = entries[d][j] /\ entries'[d][i] = entries[d][i]
      BY <2>4, <1>1, ZenonT(30)
    <3> QED BY <3>1, <2>1, <1>3, Zenon
  <2> QED BY <2>2, <2>3, <2>4, Zenon
<1>4. \A d \in Caches : \A i, j \in 1 .. Size[d] :
          i # j /\ entries'[d][i].offset # 0 => entries'[d][i].offset # entries'[d][j].offset
  BY <1>3, Zenon
<1> QED BY <1>1, <1>2, <1>4, Zenon DEF EntriesOK

(* qcow2_cache_entry_mark_dirty.                                           *)
LEMMA UpdateKeeps ==
    ASSUME EntriesOK(entries), NEW c \in Caches, NEW o, NEW v, Update(c, o, v)
    PROVE  EntriesOK(entries') /\ SameOffsets
<1> DEFINE k == Slot(c, o)
           new == [offset |-> entries[c][k].offset, dirty |-> TRUE, table |-> v]
<1>1. entries' = [entries EXCEPT ![c][k] = new]
  BY DEF Update
<1>2. k \in 1 .. Size[c] => /\ Entry(new) /\ new.dirty \in BOOLEAN
                            /\ new.offset = entries[c][k].offset
  <2> SUFFICES ASSUME k \in 1 .. Size[c]
               PROVE  Entry(new) /\ new.dirty \in BOOLEAN /\ new.offset = entries[c][k].offset
    OBVIOUS
  <2>1. Entry(entries[c][k])
    BY Zenon DEF EntriesOK
  <2> QED BY <2>1, ChangedEntry, Zenon
<1> HIDE DEF k, new
<1> QED BY <1>1, <1>2, EntryChange, Zenon

Cleaned(c, k) == entries' = [entries EXCEPT ![c][k].dirty = FALSE]

(* An entry that has been written is clean.                                *)
LEMMA CleanKeeps ==
    ASSUME EntriesOK(entries), NEW c \in Caches, NEW k, Cleaned(c, k)
    PROVE  EntriesOK(entries') /\ SameOffsets
<1> DEFINE new == [entries[c][k] EXCEPT !.dirty = FALSE]
<1>1. entries' = [entries EXCEPT ![c][k] = new]
  BY DEF Cleaned
<1>2. k \in 1 .. Size[c] => /\ Entry(new) /\ new.dirty \in BOOLEAN
                            /\ new.offset = entries[c][k].offset
  <2> SUFFICES ASSUME k \in 1 .. Size[c]
               PROVE  Entry(new) /\ new.dirty \in BOOLEAN /\ new.offset = entries[c][k].offset
    OBVIOUS
  <2>1. Entry(entries[c][k])
    BY Zenon DEF EntriesOK
  <2> QED BY <2>1, ChangedEntry, Zenon
<1> HIDE DEF new
<1> QED BY <1>1, <1>2, EntryChange, Zenon

-----------------------------------------------------------------------------
(* The parts of the invariant that an action disturbs one by one.          *)
LEMMA Assemble ==
    ASSUME CallsOK', EntriesOK(entries'), DependsOK(depends'),
           depends_on_flush' \in [Caches -> BOOLEAN], rv' \in {"ok", "fail"},
           errors' \in 0 .. MaxErrors
    PROVE  CacheInv'
  BY Zenon DEF CacheInv, CallsOK

(* Failures of bs->file are counted.                                       *)
LEMMA ErrorsCounted ==
    ASSUME errors \in 0 .. MaxErrors, Succeeds \/ Fails
    PROVE  errors' \in 0 .. MaxErrors
  BY CacheAssumption DEF Succeeds, Fails

(* qcow2_cache_flush_dependency.                                           *)
LEMMA FlushDependencyKeeps ==
    ASSUME CacheInv, FlushDependency
    PROVE  CacheInv'
<1>1. /\ stack # << >> /\ Top.fn = "dep" /\ Top = stack[1] /\ Top \in Frame
      /\ Top.c \in Caches /\ stack \in Seq(Frame) /\ Len(stack) \in Nat \ {0}
  BY TopCall DEF FlushDependency, In
<1>2. /\ Nested(stack) /\ Depending(stack, depends) /\ Getting(stack, entries)
      /\ EntriesOK(entries) /\ DependsOK(depends) /\ depends_on_flush \in [Caches -> BOOLEAN]
      /\ rv \in {"ok", "fail"} /\ errors \in 0 .. MaxErrors
  BY DEF CacheInv
<1>3. depends[Top.c] = Other(Top.c) /\ depends[Top.c] \in Caches
  <2>1. 1 \in 1 .. Len(stack)
    BY <1>1
  <2>2. depends[Top.c] # None
    BY <2>1, <1>1, <1>2, Zenon DEF Depending
  <2> QED BY <2>2, <1>1, <1>2, TwoCaches DEF DependsOK
<1>4. CASE In("dep", "start")
  <2>1. /\ stack' = <<Call("flush", depends[Top.c], 1), [Top EXCEPT !.st = "flushed"]>>
                    \o Tail(stack)
        /\ rv' = "ok" /\ UNCHANGED <<disk, entries, depends, depends_on_flush, errors>>
    BY <1>4 DEF FlushDependency, In, Calls
  <2> DEFINE f == Call("flush", depends[Top.c], 1)
             g == [Top EXCEPT !.st = "flushed"]
  <2>2. f \in Frame /\ f.fn = "flush" /\ f.c = Other(Top.c)
    BY <1>3, NewCall DEF Fns
  <2>3. g \in Frame /\ g.fn = Top.fn /\ g.c = Top.c
    BY <1>1, NewPlace, ZenonT(60) DEF Places
  <2>4. MayCall(stack, f, depends)
    BY <2>2, <1>1, Zenon DEF MayCall
  <2> HIDE DEF f, g
  <2>5. CallsOK'
    <3>1. stack' = <<f, g>> \o Tail(stack) /\ UNCHANGED <<entries, depends>>
      BY <2>1 DEF f, g
    <3>2. Top.fn # "get"
      BY <1>1
    <3> QED BY <3>1, <3>2, <2>2, <2>3, <2>4, <1>1, CallKeeps, Zenon
  <2> QED BY <2>1, <2>5, <1>2, Assemble
<1>5. CASE In("dep", "flushed")
  <2>1. /\ \/ rv = "fail" /\ UNCHANGED <<depends, depends_on_flush>>
           \/ /\ depends' = [depends EXCEPT ![Top.c] = None]
              /\ depends_on_flush' = [depends_on_flush EXCEPT ![Top.c] = FALSE]
        /\ stack' = Tail(stack) /\ rv' = rv /\ UNCHANGED <<disk, entries, errors>>
    BY <1>5 DEF FlushDependency, In, Returns
  <2>2. /\ Nested(stack') /\ Len(stack') = Len(stack) - 1
        /\ \A k \in 1 .. Len(stack') : k + 1 \in 1 .. Len(stack) /\ stack'[k] = stack[k + 1]
    <3>1. stack' = Tail(stack)
      BY <2>1
    <3> QED BY <3>1, <1>1, <1>2, PopNested, ZenonT(60)
  <2>3. \A k \in 1 .. Len(stack') : stack'[k].fn # "dep"
    <3> SUFFICES ASSUME NEW k \in 1 .. Len(stack'), stack[k + 1].fn = "dep" PROVE FALSE
      BY <2>2, Zenon
    <3>1. 1 \in 1 .. Len(stack) /\ 1 < k + 1 /\ k + 1 \in 1 .. Len(stack)
      BY <2>2, <1>1
    <3>2. stack[1].fn \in {"flush", "entry"}
      BY <3>1, <1>2, Zenon DEF Nested
    <3> QED BY <3>2, <1>1
  <2>4. Depending(stack', depends')
    BY <2>3, Zenon DEF Depending
  <2>5. Getting(stack', entries')
    <3>1. entries' = entries
      BY <2>1
    <3> QED BY <3>1, <2>2, <1>2, Zenon DEF Getting
  <2>6. ASSUME Len(stack') = 1, stack'[1].fn = "set", rv' = "ok"
        PROVE  depends'[Other(stack'[1].c)] = None
    <3>1. 1 \in 1 .. Len(stack) /\ 2 \in 1 .. Len(stack) /\ 2 = 1 + 1 /\ stack'[1] = stack[2]
      BY <2>6, <2>2, <1>1
    <3>2. Top.c = Other(stack'[1].c)
      BY <3>1, <2>6, <1>1, <1>2 DEF Nested
    <3>3. depends' = [depends EXCEPT ![Top.c] = None]
      BY <2>1, <2>6
    <3> QED BY <3>2, <3>3, <1>1, <1>2 DEF DependsOK
  <2>7. Setting(stack', depends', rv')
    BY <2>6, Zenon DEF Setting
  <2>8. CallsOK'
    BY <2>2, <2>4, <2>5, <2>7 DEF CallsOK
  <2>9. DependsOK(depends') /\ depends_on_flush' \in [Caches -> BOOLEAN]
    <3>1. DependsOK(depends')
      <4>1. CASE depends' = [depends EXCEPT ![Top.c] = None]
        <5>1. depends'[Top.c] = None /\ \A c \in Caches : depends'[c] \in {depends[c], None}
          BY <4>1, <1>1, <1>2 DEF DependsOK
        <5>2. depends' \in [Caches -> Caches \cup {None}]
          BY <4>1, <1>1, <1>2 DEF DependsOK
        <5>3. \A c \in Caches : depends'[c] # c
          BY <5>1, <1>2, TwoCaches DEF DependsOK
        <5>4. \E c \in Caches : depends'[c] = None
          BY <5>1, <1>1
        <5> QED BY <5>2, <5>3, <5>4 DEF DependsOK
      <4> QED BY <4>1, <2>1, <1>2
    <3>2. depends_on_flush' \in [Caches -> BOOLEAN]
      BY <2>1, <1>1, <1>2, Zenon
    <3> QED BY <3>1, <3>2
  <2> QED BY <2>1, <2>8, <2>9, <1>2, Assemble
<1> QED BY <1>4, <1>5 DEF FlushDependency

(* qcow2_cache_entry_flush.                                                *)
LEMMA EntryKeeps ==
    ASSUME CacheInv, EntryDependency \/ EntryClean \/ EntryFileFlush \/ EntryWrite
    PROVE  CacheInv'
<1>1. /\ stack # << >> /\ Top.fn = "entry" /\ Top = stack[1] /\ Top \in Frame
      /\ Top.c \in Caches /\ stack \in Seq(Frame) /\ Len(stack) \in Nat \ {0}
  BY TopCall DEF EntryDependency, EntryClean, EntryFileFlush, EntryWrite, In
<1>2. /\ EntriesOK(entries) /\ DependsOK(depends) /\ depends_on_flush \in [Caches -> BOOLEAN]
      /\ rv \in {"ok", "fail"} /\ errors \in 0 .. MaxErrors
  BY DEF CacheInv
<1>3. ASSUME NEW st \in Places, stack' = <<[Top EXCEPT !.st = st]>> \o Tail(stack),
             UNCHANGED <<entries, depends>>
      PROVE  CallsOK'
  BY <1>1, <1>3, GoKeeps
<1>4. ASSUME stack' = Tail(stack), SameOffsets, UNCHANGED depends PROVE CallsOK'
  BY <1>1, <1>4, ReturnKeeps
<1>5. CASE EntryDependency
  <2>1. UNCHANGED <<disk, entries, depends, depends_on_flush, errors>> /\ rv' \in {"ok", "fail"}
    BY <1>5, <1>2 DEF EntryDependency, Calls, Goes
  <2>2. CASE /\ depends[Top.c] # None
             /\ stack' = <<Call("dep", Top.c, 0), [Top EXCEPT !.st = "write"]>> \o Tail(stack)
    <3> DEFINE f == Call("dep", Top.c, 0)
               g == [Top EXCEPT !.st = "write"]
    <3>1. f \in Frame /\ f.fn = "dep" /\ f.c = Top.c
      BY <1>1, NewCall DEF Fns
    <3>2. g \in Frame /\ g.fn = Top.fn /\ g.c = Top.c
      BY <1>1, NewPlace, ZenonT(60) DEF Places
    <3>3. MayCall(stack, f, depends)
      BY <2>2, <3>1, <1>1, Zenon DEF MayCall
    <3> HIDE DEF f, g
    <3>4. stack' = <<f, g>> \o Tail(stack) /\ UNCHANGED <<entries, depends>> /\ Top.fn # "get"
      BY <2>1, <2>2, <1>1 DEF f, g
    <3>5. CallsOK'
      BY <3>1, <3>2, <3>3, <3>4, <1>1, CallKeeps, Zenon
    <3> QED BY <3>5, <2>1, <1>2, Assemble
  <2>3. CASE \E st \in {"flush", "write"} : stack' = <<[Top EXCEPT !.st = st]>> \o Tail(stack)
    BY <2>1, <2>3, <1>2, <1>3, Assemble, Zenon DEF Places
  <2> QED BY <1>5, <2>2, <2>3, Zenon DEF EntryDependency, Calls, Goes
<1>6. CASE EntryClean
  <2>1. /\ stack' = Tail(stack) /\ rv' = "ok"
        /\ UNCHANGED <<disk, entries, depends, depends_on_flush, errors>>
    BY <1>6 DEF EntryClean, Returns
  <2>2. CallsOK'
    BY <2>1, <1>4 DEF SameOffsets
  <2> QED BY <2>1, <2>2, <1>2, Assemble
<1>7. CASE EntryFileFlush
  <2>1. /\ UNCHANGED <<entries, depends>> /\ rv' \in {"ok", "fail"}
        /\ depends_on_flush' \in [Caches -> BOOLEAN] /\ (Succeeds \/ Fails)
        /\ \/ stack' = <<[Top EXCEPT !.st = "write"]>> \o Tail(stack)
           \/ stack' = Tail(stack)
    BY <1>7, <1>1, <1>2, Zenon DEF EntryFileFlush, Goes, Returns
  <2>2. CallsOK'
    BY <2>1, <1>3, <1>4, Zenon DEF SameOffsets, Places
  <2> QED BY <2>1, <2>2, <1>2, ErrorsCounted, Assemble
<1>8. CASE EntryWrite
  <2>1. /\ stack' = Tail(stack) /\ rv' \in {"ok", "fail"} /\ (Succeeds \/ Fails)
        /\ UNCHANGED <<depends, depends_on_flush>>
        /\ Cleaned(Top.c, Top.i) \/ entries' = entries
    BY <1>8 DEF EntryWrite, Returns, Cleaned
  <2>2. EntriesOK(entries') /\ SameOffsets
    BY <2>1, <1>1, <1>2, CleanKeeps DEF SameOffsets
  <2>3. CallsOK'
    BY <2>1, <2>2, <1>4
  <2> QED BY <2>1, <2>2, <2>3, <1>2, ErrorsCounted, Assemble
<1> QED BY <1>5, <1>6, <1>7, <1>8, SMTT(30)

Forward(f, n, q) == [f EXCEPT !.i = n, !.st = q]
Fetching(f, n, q) == [f EXCEPT !.st = q, !.slot = n]
(* A call that goes on with the next entry.                                *)
LEMMA Forwards ==
    ASSUME NEW f \in Frame, NEW n \in Nat, NEW q \in Places, f.fn = "flush", n # 0
    PROVE  /\ Forward(f, n, q) \in Frame
           /\ Forward(f, n, q).fn = f.fn /\ Forward(f, n, q).c = f.c
  BY Zenon DEF Frame, Forward

(* A call that goes on with the entry to replace.                          *)
LEMMA Fetches ==
    ASSUME NEW f \in Frame, NEW n \in Nat, NEW q \in Places
    PROVE  /\ Fetching(f, n, q) \in Frame /\ Fetching(f, n, q).fn = f.fn
           /\ Fetching(f, n, q).c = f.c /\ Fetching(f, n, q).i = f.i
  BY Zenon DEF Frame, Fetching

(* qcow2_cache_flush.                                                      *)
LEMMA FlushKeeps ==
    ASSUME CacheInv, FlushEntry \/ FlushEnd
    PROVE  CacheInv'
<1>1. /\ stack # << >> /\ Top.fn = "flush" /\ Top = stack[1] /\ Top \in Frame
      /\ Top.c \in Caches /\ stack \in Seq(Frame) /\ Len(stack) \in Nat \ {0}
  BY TopCall DEF FlushEntry, FlushEnd
<1>2. /\ EntriesOK(entries) /\ DependsOK(depends) /\ depends_on_flush \in [Caches -> BOOLEAN]
      /\ rv \in {"ok", "fail"} /\ errors \in 0 .. MaxErrors
  BY DEF CacheInv
<1>3. CASE FlushEntry
  <2> DEFINE f == Call("entry", Top.c, Top.i)
             g == [Top EXCEPT !.i = @ + 1, !.st = IF rv = "fail" THEN "fail" ELSE @]
  <2>1. /\ stack' = <<f, g>> \o Tail(stack)
        /\ rv' = "ok" /\ UNCHANGED <<disk, entries, depends, depends_on_flush, errors>>
    BY <1>3 DEF FlushEntry
  <2>2. f \in Frame /\ f.fn = "entry" /\ f.c = Top.c
    <3>1. Top.i \in Nat /\ Top.i # 0 /\ Top.i <= Size[Top.c] /\ Size[Top.c] \in Nat
      BY <1>1, <1>3, CacheAssumption DEF FlushEntry, Frame, Caches
    <3>2. "entry" \in Fns /\ Top.i \in 1 .. Size[Top.c]
      BY <3>1 DEF Fns
    <3> QED BY <1>1, <3>1, <3>2, NewCall
  <2>3. g \in Frame /\ g.fn = Top.fn /\ g.c = Top.c
    <3>1. Top.i + 1 \in Nat /\ Top.i + 1 # 0 /\ Top.st \in Places /\ "fail" \in Places
      BY <1>1 DEF Frame, Places
    <3>2. PICK q \in Places : q = IF rv = "fail" THEN "fail" ELSE Top.st
      BY <3>1
    <3>3. g = [Top EXCEPT !.i = Top.i + 1, !.st = q]
      BY <3>2
    <3>4. g = Forward(Top, Top.i + 1, q)
      BY <3>3 DEF Forward
    <3> HIDE DEF g
    <3>5. /\ Forward(Top, Top.i + 1, q) \in Frame
          /\ Forward(Top, Top.i + 1, q).fn = Top.fn /\ Forward(Top, Top.i + 1, q).c = Top.c
      BY <3>1, <1>1, Forwards, ZenonT(60)
    <3> QED BY <3>4, <3>5, Zenon
  <2>4. MayCall(stack, f, depends)
    BY <2>2, <1>1, Zenon DEF MayCall
  <2> HIDE DEF f, g
  <2>5. CallsOK'
    <3>1. Top.fn # "get" /\ UNCHANGED <<entries, depends>>
      BY <1>1, <2>1
    <3> QED BY <3>1, <2>1, <2>2, <2>3, <2>4, <1>1, CallKeeps, Zenon
  <2> QED BY <2>1, <2>5, <1>2, Assemble
<1>4. CASE FlushEnd
  <2>1. /\ stack' = Tail(stack) /\ rv' \in {"ok", "fail"} /\ (Succeeds \/ Fails)
        /\ UNCHANGED <<entries, depends, depends_on_flush>>
    BY <1>4 DEF FlushEnd, Returns
  <2>2. CallsOK'
    BY <2>1, <1>1, ReturnKeeps DEF SameOffsets
  <2> QED BY <2>1, <2>2, <1>2, ErrorsCounted, Assemble
<1> QED BY <1>3, <1>4

(* A stack without calls.                                                  *)
LEMMA NoCall ==
    ASSUME NEW s \in Seq(Frame), Len(s) = 0
    PROVE  s = << >>
  OBVIOUS

(* A call of a request has nothing below it.                               *)
LEMMA BottomCall ==
    ASSUME CacheInv, stack # << >>, Top.fn \in {"set", "get"}
    PROVE  Len(stack) = 1 /\ Tail(stack) = << >>
<1>1. /\ Top = stack[1] /\ stack \in Seq(Frame) /\ Len(stack) \in Nat \ {0} /\ Nested(stack)
      /\ 1 \in 1 .. Len(stack)
  BY TopCall DEF CacheInv
<1>2. stack[1].fn \in {"set", "get"} /\ Nested(stack) /\ 1 \in 1 .. Len(stack)
  BY <1>1
<1>3. \A k \in 1 .. Len(stack) : stack[k].fn \in {"set", "get"} => k = Len(stack)
  BY <1>1, Zenon DEF Nested
<1>4. Len(stack) = 1
  BY <1>2, <1>3, Zenon
<1>5. Tail(stack) \in Seq(Frame) /\ Len(Tail(stack)) = 0
  BY <1>1, <1>4, PopStack
<1> QED BY <1>4, <1>5, NoCall, Zenon

(* qcow2_cache_set_dependency.                                             *)
LEMMA SetDependencyKeeps ==
    ASSUME CacheInv, SetDependency
    PROVE  CacheInv'
<1> DEFINE d == Other(Top.c)
<1>1. /\ stack # << >> /\ Top.fn = "set" /\ Top = stack[1] /\ Top \in Frame
      /\ Top.c \in Caches /\ stack \in Seq(Frame) /\ Len(stack) = 1 /\ Tail(stack) = << >>
  BY TopCall, BottomCall DEF SetDependency, In
<1>2. /\ EntriesOK(entries) /\ DependsOK(depends) /\ depends_on_flush \in [Caches -> BOOLEAN]
      /\ rv \in {"ok", "fail"} /\ errors \in 0 .. MaxErrors /\ Setting(stack, depends, rv)
  BY DEF CacheInv
<1>3. d \in Caches /\ d # Top.c
  BY <1>1, TwoCaches
<1>4. CASE In("set", "start") /\ depends[d] # None
  <2> DEFINE f == Call("dep", d, 0)
             g == [Top EXCEPT !.st = "set"]
  <2>1. /\ stack' = <<f, g>> \o Tail(stack)
        /\ rv' = "ok" /\ UNCHANGED <<disk, entries, depends, depends_on_flush, errors>>
    BY <1>4, Zenon DEF SetDependency, In, Calls
  <2>2. f \in Frame /\ f.fn = "dep" /\ f.c = d
    BY <1>3, NewCall DEF Fns
  <2>3. g \in Frame /\ g.fn = Top.fn /\ g.c = Top.c
    BY <1>1, NewPlace, Zenon DEF Places
  <2>4. MayCall(stack, f, depends)
    BY <2>2, <1>1, <1>4, Zenon DEF MayCall
  <2> HIDE DEF f, g
  <2>5. CallsOK'
    <3>1. Top.fn # "get" /\ UNCHANGED <<entries, depends>>
      BY <1>1, <2>1
    <3> QED BY <3>1, <2>1, <2>2, <2>3, <2>4, <1>1, CallKeeps, Zenon
  <2> QED BY <2>1, <2>5, <1>2, Assemble
<1>5. CASE In("set", "start") /\ depends[d] = None
  <2> DEFINE g == [Top EXCEPT !.st = "set"]
  <2>1. /\ stack' = <<g>> \o Tail(stack) /\ rv' = rv
        /\ UNCHANGED <<disk, entries, depends, depends_on_flush, errors>>
    BY <1>5 DEF SetDependency, In, Goes
  <2>2. g \in Frame /\ g.fn = "set" /\ g.c = Top.c
    BY <1>1, NewPlace, Zenon DEF Places
  <2> HIDE DEF g
  <2>3. stack' = <<g>> /\ depends'[Other(g.c)] = None
    <3>1. stack' = <<g>> \o << >> /\ depends' = depends
      BY <2>1, <1>1, Zenon
    <3>2. stack' = <<g>>
      BY <3>1
    <3>3. depends'[Other(g.c)] = None
      BY <3>1, <2>2, <1>5, Zenon
    <3> QED BY <3>2, <3>3
  <2>4. CallsOK'
    BY <2>2, <2>3, OnlyCall
  <2> QED BY <2>1, <2>4, <1>2, Assemble
<1>6. CASE In("set", "set")
  <2>1. /\ depends' = IF rv = "ok" THEN [depends EXCEPT ![Top.c] = d] ELSE depends
        /\ stack' = << >> /\ rv' = rv /\ UNCHANGED <<disk, entries, depends_on_flush, errors>>
    BY <1>6, <1>1 DEF SetDependency, In, Returns
  <2>2. rv = "ok" => depends[d] = None
    BY <1>1, <1>2, <1>6 DEF Setting, In
  <2>3. DependsOK(depends')
    <3>1. CASE rv = "ok"
      <4>1. depends' = [depends EXCEPT ![Top.c] = d] /\ depends[d] = None
        BY <2>1, <2>2, <3>1
      <4> HIDE DEF d
      <4>2. /\ depends' \in [Caches -> Caches \cup {None}]
            /\ depends'[d] = None /\ depends'[Top.c] = d
            /\ \A c \in Caches : depends'[c] = depends[c] \/ c = Top.c
        BY <4>1, <1>1, <1>2, <1>3 DEF DependsOK
      <4>3. \A c \in Caches : depends'[c] # c
        BY <4>2, <1>2, <1>3 DEF DependsOK
      <4> QED BY <4>2, <4>3, <1>3 DEF DependsOK
    <3> QED BY <3>1, <2>1, <1>2
  <2>4. CallsOK'
    BY <2>1, RequestReturns
  <2> QED BY <2>1, <2>3, <2>4, <1>2, Assemble
<1> QED BY <1>4, <1>5, <1>6 DEF SetDependency

(* The entries that qcow2_cache_get makes.                                 *)
LEMMA NewEntry ==
    /\ Entry(Empty) /\ Empty.dirty \in BOOLEAN /\ Empty.offset = 0
    /\ \A o, v : LET e == [offset |-> o, dirty |-> FALSE, table |-> v]
                IN  Entry(e) /\ e.dirty \in BOOLEAN /\ e.offset = o
  BY DEF Entry, Empty

(* qcow2_cache_get.                                                        *)
LEMMA GetKeeps ==
    ASSUME CacheInv, Get
    PROVE  CacheInv'
<1>1. /\ stack # << >> /\ Top.fn = "get" /\ Top = stack[1] /\ Top \in Frame
      /\ Top.c \in Caches /\ stack \in Seq(Frame) /\ Len(stack) = 1 /\ Tail(stack) = << >>
  BY TopCall, BottomCall, Zenon DEF Get, In
<1>2. /\ EntriesOK(entries) /\ DependsOK(depends) /\ depends_on_flush \in [Caches -> BOOLEAN]
      /\ rv \in {"ok", "fail"} /\ errors \in 0 .. MaxErrors /\ Getting(stack, entries)
  BY DEF CacheInv
<1>3. /\ Top.i \in TablesOf(Top.c)
      /\ Top.st = "replace" => Absent(entries, Top.c, Top.i)
  <2>1. \A n \in Nat : n = 1 => 1 \in 1 .. n
    OBVIOUS
  <2>2. Len(stack) \in Nat /\ 1 \in 1 .. Len(stack)
    BY <1>1, <2>1, TopCall, Zenon
  <2> QED BY <2>2, <1>1, <1>2 DEF Getting
<1>4. UNCHANGED <<disk, depends, depends_on_flush>>
  BY Zenon DEF Get
<1>5. CASE stack' = Tail(stack)
  <2>1. CallsOK'
    BY <1>1, <1>5, RequestReturns, Zenon
  <2>2. rv' \in {"ok", "fail"} /\ (Succeeds \/ Fails)
    BY <1>5, <1>1, Zenon DEF Get, Returns, Succeeds
  <2>3. EntriesOK(entries')
    <3>1. CASE entries' = entries
      BY <3>1, <1>2
    <3>2. CASE /\ Top.st = "replace"
               /\ entries' = [entries EXCEPT ![Top.c][Top.slot] =
                                [offset |-> Top.i, dirty |-> FALSE, table |-> disk[Top.i].cur]]
      BY <3>2, <1>1, <1>2, <1>3, NewEntry, ReplaceKeeps, Zenon
    <3>3. CASE entries' = [entries EXCEPT ![Top.c][Top.slot] = Empty]
      BY <3>3, <1>1, <1>2, NewEntry, ReplaceKeeps, Zenon
    <3> QED BY <3>1, <3>2, <3>3, Zenon DEF Get, In
  <2> QED BY <2>1, <2>2, <2>3, <1>2, <1>4, ErrorsCounted, Assemble
<1>6. CASE stack' # Tail(stack)
  <2>1. /\ ~Cached(Top.c, Top.i) /\ rv' = "ok" /\ UNCHANGED <<entries, errors>>
        /\ \E i \in 1 .. Size[Top.c] :
               stack' = <<Call("entry", Top.c, i), [Top EXCEPT !.st = "replace", !.slot = i]>>
                        \o Tail(stack)
    BY <1>6, Zenon DEF Get, Returns
  <2>2. PICK i \in 1 .. Size[Top.c] :
            stack' = <<Call("entry", Top.c, i), [Top EXCEPT !.st = "replace", !.slot = i]>>
                     \o Tail(stack)
    BY <2>1, Zenon
  <2> DEFINE f == Call("entry", Top.c, i)
             g == [Top EXCEPT !.st = "replace", !.slot = i]
  <2>3. i \in Nat /\ "replace" \in Places
    BY <1>1, CacheAssumption DEF Places, Caches
  <2>4. f \in Frame /\ f.fn = "entry" /\ f.c = Top.c
    BY <2>3, <1>1, NewCall DEF Fns
  <2>5. g \in Frame /\ g.fn = Top.fn /\ g.c = Top.c /\ g.i = Top.i
    <3>1. g = Fetching(Top, i, "replace")
      BY Zenon DEF Fetching
    <3> HIDE DEF g
    <3> QED BY <2>3, <3>1, <1>1, Fetches
  <2>6. MayCall(stack, f, depends)
    BY <2>4, <1>1, Zenon DEF MayCall
  <2>7. Absent(entries, Top.c, Top.i)
    BY <2>1, Zenon DEF Cached, Absent
  <2>8. stack' = <<f, g>> \o Tail(stack) /\ UNCHANGED <<entries, depends>>
    BY <2>1, <2>2, <1>4
  <2> HIDE DEF f, g
  <2>9. CallsOK'
    BY <2>4, <2>5, <2>6, <2>7, <2>8, <1>1, CallKeeps, Zenon
  <2> QED BY <2>1, <2>9, <1>2, <1>4, Assemble, Zenon
<1> QED BY <1>5, <1>6, Zenon

-----------------------------------------------------------------------------
(* The requests.                                                           *)

(* The L2 tables, on the disk and in the cache, refer to clusters of the   *)
(* image: freeing what one refers to loads a refcount block that is there. *)
L2Content == [Guest -> {0} \cup Clusters]
DiskOK(dk) ==
    /\ dk = [o \in Offsets |-> dk[o]]
    /\ \A o \in L2Tables : dk[o].cur \in L2Content /\ dk[o].may \subseteq L2Content
TablesOK(en) ==
    \A i \in 1 .. Size["l2"] : en["l2"][i].offset # 0 => en["l2"][i].table \in L2Content

(* Requests know their clusters where they need them.                      *)
Pcs == {"new", "done", "table", "scan", "data", "copied", "link", "update", "clear", "free",
        "count", "tables", "counts"}
RequestOK(q) ==
    /\ q \in [pc : Pcs, g : Guest \cup {0}, h : Clusters \cup {0}, whole : BOOLEAN,
             ok : BOOLEAN]
    /\ q.pc \notin {"new", "done", "tables", "counts"} => q.g \in Guest
    /\ q.pc \in {"data", "copied", "link", "update", "free", "count"} => q.h \in Clusters
RequestsOK(rq) ==
    rq = [r \in Requests |-> rq[r]] /\ \A r \in Requests : RequestOK(rq[r])
ScanOK == \A r \in Requests : lock = r /\ req[r].pc = "scan" => free_cluster_index \in Clusters

DataInv == DiskOK(disk) /\ TablesOK(entries) /\ RequestsOK(req) /\ ScanOK

IInv == CacheInv /\ DataInv

-----------------------------------------------------------------------------
(* What the disk and the tables hold.                                      *)

(* A write of an L2 table, or of anything else.                            *)
LEMMA WriteDisk ==
    ASSUME DiskOK(disk), NEW o, NEW v, PWrite(o, v), o \in L2Tables => v \in L2Content
    PROVE  DiskOK(disk')
<1>1. disk = [p \in Offsets |-> disk[p]]
  BY DEF DiskOK
<1>2. /\ disk' = [p \in Offsets |-> disk'[p]]
      /\ \A p \in Offsets : disk'[p] = IF p = o THEN [cur |-> v, may |-> disk[p].may \cup {v}]
                                        ELSE disk[p]
  BY <1>1, Zenon DEF PWrite
<1>3. ASSUME NEW p \in L2Tables
      PROVE  disk'[p].cur \in L2Content /\ disk'[p].may \subseteq L2Content
  <2>1. p \in Offsets
    BY DEF Offsets
  <2>2. disk[p].cur \in L2Content /\ disk[p].may \subseteq L2Content
    BY Zenon DEF DiskOK
  <2> HIDE DEF L2Content
  <2>3. CASE p = o
    BY <2>1, <2>2, <2>3, <1>2
  <2>4. CASE p # o
    BY <2>1, <2>2, <2>4, <1>2
  <2> QED BY <2>3, <2>4
<1> QED BY <1>2, <1>3, Zenon DEF DiskOK

(* A flush of the file.                                                    *)
LEMMA FlushDisk ==
    ASSUME DiskOK(disk), FileFlush
    PROVE  DiskOK(disk')
<1>1. /\ disk' = [p \in Offsets |-> disk'[p]]
      /\ \A p \in Offsets : disk'[p] = [cur |-> disk[p].cur, may |-> {disk[p].cur}]
  BY DEF FileFlush
<1>2. ASSUME NEW p \in L2Tables
      PROVE  disk'[p].cur \in L2Content /\ disk'[p].may \subseteq L2Content
  <2>1. p \in Offsets
    BY DEF Offsets
  <2>2. disk[p].cur \in L2Content
    BY Zenon DEF DiskOK
  <2> HIDE DEF L2Content
  <2> QED BY <2>1, <2>2, <1>1
<1> QED BY <1>1, <1>2, Zenon DEF DiskOK

(* An entry with another table.                                            *)
LEMMA PutTable ==
    ASSUME EntriesOK(entries), TablesOK(entries), NEW c \in Caches, NEW k, NEW new,
           c = "l2" /\ k \in 1 .. Size["l2"] /\ new.offset # 0 => new.table \in L2Content,
           entries' = Put(entries, c, k, new)
    PROVE  TablesOK(entries')
<1>1. Replaced(entries', entries, c, k, new)
  BY EntryExcept, Zenon
<1> SUFFICES ASSUME NEW i \in 1 .. Size["l2"], entries'["l2"][i].offset # 0
             PROVE  entries'["l2"][i].table \in L2Content
  BY Zenon DEF TablesOK
<1>2. "l2" \in Caches
  BY DEF Caches
<1>3. entries'["l2"][i] = IF "l2" = c /\ i = k THEN new ELSE entries["l2"][i]
  BY <1>1, <1>2, Zenon DEF Replaced
<1>4. CASE "l2" = c /\ i = k
  BY <1>3, <1>4, Zenon
<1>5. CASE ~("l2" = c /\ i = k)
  BY <1>3, <1>5, Zenon DEF TablesOK
<1> QED BY <1>4, <1>5

(* What a request finds in an L2 table, and puts into it.                  *)
LEMMA TableContent ==
    ASSUME DiskOK(disk), TablesOK(entries), NEW o \in L2Tables
    PROVE  Table("l2", o) \in L2Content
<1>1. CASE Cached("l2", o)
  <2>1. Slot("l2", o) \in 1 .. Size["l2"] /\ entries["l2"][Slot("l2", o)].offset = o
    BY <1>1, Zenon DEF Cached, Slot
  <2>2. o # 0
    BY CacheAssumption
  <2> QED BY <2>1, <2>2, <1>1, Zenon DEF Table, TablesOK
<1>2. CASE ~Cached("l2", o)
  BY <1>2, Zenon DEF Table, DiskOK
<1> QED BY <1>1, <1>2

(* qcow2_cache_entry_mark_dirty, with a change of an L2 table to content   *)
(* of that kind or with any change of a refcount block.                    *)
LEMMA UpdateTable ==
    ASSUME EntriesOK(entries), TablesOK(entries), NEW c \in Caches, NEW o, NEW v,
           Update(c, o, v), c = "l2" => v \in L2Content
    PROVE  TablesOK(entries')
<1> DEFINE k == Slot(c, o)
           new == [offset |-> entries[c][k].offset, dirty |-> TRUE, table |-> v]
<1>1. entries' = Put(entries, c, k, new)
  BY Zenon DEF Update, Put
<1>2. new.table = v
  BY ZenonT(60)
<1> HIDE DEF k, new
<1> QED BY <1>1, <1>2, PutTable, Zenon

-----------------------------------------------------------------------------
(* The steps of the caches, and what the disk and the tables hold.         *)
LEMMA CacheStepData ==
    ASSUME IInv, CacheStep
    PROVE  DiskOK(disk') /\ TablesOK(entries')
<1>1. DiskOK(disk) /\ TablesOK(entries) /\ EntriesOK(entries)
  BY Zenon DEF IInv, CacheInv, DataInv
<1>2. CASE UNCHANGED <<disk, entries>>
  BY <1>1, <1>2
<1>3. CASE EntryFileFlush
  <2>1. (disk' = disk \/ FileFlush) /\ entries' = entries
    BY <1>3 DEF EntryFileFlush
  <2> QED BY <2>1, <1>1, FlushDisk
<1>4. CASE FlushEnd
  <2>1. (disk' = disk \/ FileFlush) /\ entries' = entries
    BY <1>4 DEF FlushEnd
  <2> QED BY <2>1, <1>1, FlushDisk
<1>5. CASE EntryWrite
  <2> DEFINE c == Top.c
             k == Top.i
             e == entries[c][k]
  <2>1. c \in Caches /\ k \in 1 .. Size[c]
    <3>1. Top \in Frame /\ Top.fn = "entry"
      BY <1>5, TopCall DEF EntryWrite, In, IInv
    <3> QED BY <3>1 DEF Frame
  <2>2. \/ UNCHANGED <<disk, entries>>
        \/ PWrite(e.offset, e.table) /\ entries' = [entries EXCEPT ![c][k].dirty = FALSE]
    BY <1>5 DEF EntryWrite
  <2>3. CASE PWrite(e.offset, e.table) /\ entries' = [entries EXCEPT ![c][k].dirty = FALSE]
    <3> DEFINE new == [e EXCEPT !.dirty = FALSE]
    <3>1. entries' = Put(entries, c, k, new)
      BY <2>3 DEF Put
    <3>2. /\ Entry(e) /\ e.offset \in {0} \cup TablesOf(c)
          /\ new.offset = e.offset /\ new.table = e.table
      BY <2>1, <1>1, ChangedEntry, Zenon DEF EntriesOK
    <3>3. c = "l2" /\ e.offset # 0 => e.table \in L2Content
      BY <1>1, <2>1, Zenon DEF TablesOK
    <3>4. e.offset \in L2Tables => c = "l2" /\ e.offset # 0
      BY <3>2, <2>1, CacheAssumption, SMTT(30) DEF TablesOf, Caches
    <3> HIDE DEF c, k, e, new
    <3>5. TablesOK(entries')
      BY <1>1, <2>1, <3>1, <3>2, <3>3, PutTable
    <3>6. DiskOK(disk')
      BY <1>1, <2>3, <3>3, <3>4, WriteDisk
    <3> QED BY <3>5, <3>6
  <2> QED BY <2>2, <2>3, <1>2
<1>6. CASE Get
  <2> DEFINE c == Top.c
             o == Top.i
             loaded == [offset |-> o, dirty |-> FALSE, table |-> disk[o].cur]
  <2>1. /\ stack # << >> /\ Top.fn = "get" /\ c \in Caches /\ Len(stack) = 1 /\ Top = stack[1]
        /\ Getting(stack, entries)
    BY <1>6, TopCall, BottomCall, Zenon DEF Get, In, IInv, CacheInv
  <2>2. o \in TablesOf(c)
    <3>1. \A n \in Nat : n = 1 => 1 \in 1 .. n
      OBVIOUS
    <3>2. 1 \in 1 .. Len(stack)
      BY <2>1, <3>1, Zenon
    <3> QED BY <2>1, <3>2, Zenon DEF Getting
  <2>3. /\ disk' = disk
        /\ \/ entries' = entries
           \/ entries' = [entries EXCEPT ![c][Top.slot] = loaded]
           \/ entries' = [entries EXCEPT ![c][Top.slot] = Empty]
    BY <1>6, Zenon DEF Get
  <2>4. c = "l2" => loaded.table \in L2Content
    BY <2>2, <1>1 DEF TablesOf, DiskOK
  <2>5. CASE entries' = [entries EXCEPT ![c][Top.slot] = loaded]
    <3>1. entries' = Put(entries, c, Top.slot, loaded)
      BY <2>5, Zenon DEF Put
    <3> HIDE DEF c, loaded
    <3> QED BY <3>1, <1>1, <2>1, <2>3, <2>4, PutTable
  <2>6. CASE entries' = [entries EXCEPT ![c][Top.slot] = Empty]
    <3>1. entries' = Put(entries, c, Top.slot, Empty) /\ Empty.offset = 0
      BY <2>6, NewEntry, Zenon DEF Put
    <3> HIDE DEF c
    <3> QED BY <3>1, <1>1, <2>1, <2>3, PutTable
  <2> QED BY <2>3, <2>5, <2>6, <1>1, Zenon
<1> QED BY <1>2, <1>3, <1>4, <1>5, <1>6
        DEF CacheStep, FlushDependency, EntryDependency, EntryClean, FlushEntry, SetDependency

-----------------------------------------------------------------------------
(* A request calls the cache.                                              *)
Calling ==
    /\ rv' = "ok"
    /\ \E c \in Caches : \/ stack' = <<Call("set", c, 0)>>
                         \/ stack' = <<Call("flush", c, 1)>>
                         \/ \E o \in TablesOf(c) : stack' = <<Call("get", c, o)>>

(* It does so with calls of the right shape.                               *)
LEMMA CallingOK ==
    ASSUME Calling
    PROVE  CallsOK'
<1>1. /\ {"set", "flush", "get"} \subseteq Fns /\ 0 \in Nat /\ 1 \in Nat
      /\ \A c \in Caches : TablesOf(c) \subseteq Nat
  BY CacheAssumption DEF Fns, TablesOf
<1>2. PICK c \in Caches : \/ stack' = <<Call("set", c, 0)>>
                          \/ stack' = <<Call("flush", c, 1)>>
                          \/ \E o \in TablesOf(c) : stack' = <<Call("get", c, o)>>
  BY DEF Calling
<1>3. CASE stack' = <<Call("set", c, 0)>>
  <2>1. /\ Call("set", c, 0) \in Frame /\ Call("set", c, 0).fn = "set"
        /\ Call("set", c, 0).st = "start"
    BY <1>1, NewCall
  <2> QED BY <2>1, <1>3, OnlyCall
<1>4. CASE stack' = <<Call("flush", c, 1)>>
  <2>1. Call("flush", c, 1) \in Frame /\ Call("flush", c, 1).fn = "flush"
    BY <1>1, NewCall
  <2> QED BY <2>1, <1>4, OnlyCall
<1>5. ASSUME NEW o \in TablesOf(c), stack' = <<Call("get", c, o)>>
      PROVE  CallsOK'
  <2>1. /\ Call("get", c, o) \in Frame /\ Call("get", c, o).fn = "get"
        /\ Call("get", c, o).st = "start" /\ Call("get", c, o).c = c /\ Call("get", c, o).i = o
    BY <1>1, NewCall
  <2> QED BY <2>1, <1>5, OnlyCall
<1> QED BY <1>2, <1>3, <1>4, <1>5

(* Calls in progress stay right when the offsets of the entries do.        *)
LEMMA StayOK ==
    ASSUME CacheInv, UNCHANGED <<stack, rv, depends>>, SameOffsets
    PROVE  CallsOK'
<1>1. /\ Nested(stack) /\ Depending(stack, depends) /\ Setting(stack, depends, rv)
      /\ Getting(stack, entries) /\ stack \in Seq(Frame)
  BY ZenonT(60) DEF CacheInv, Nested
<1>2. ASSUME NEW k \in 1 .. Len(stack), stack[k].fn = "get"
      PROVE  /\ stack[k].i \in TablesOf(stack[k].c)
             /\ stack[k].st = "replace" => Absent(entries', stack[k].c, stack[k].i)
  <2>1. stack[k] \in Frame
    BY <1>1
  <2>2. stack[k].c \in Caches
    BY <2>1 DEF Frame
  <2>3. /\ stack[k].i \in TablesOf(stack[k].c)
        /\ stack[k].st = "replace" => Absent(entries, stack[k].c, stack[k].i)
    BY <1>1, <1>2, Zenon DEF Getting
  <2> QED BY <2>2, <2>3, Zenon DEF Absent, SameOffsets
<1>3. Getting(stack, entries')
  BY <1>2, Zenon DEF Getting
<1> QED BY <1>1, <1>3, SMTT(30) DEF CallsOK

(* What a step of a request keeps of the caches.                           *)
LEMMA RequestKeeps ==
    ASSUME CacheInv, UNCHANGED depends, depends_on_flush' \in [Caches -> BOOLEAN],
           Succeeds \/ Fails, EntriesOK(entries'), SameOffsets,
           UNCHANGED <<stack, rv>> \/ Calling
    PROVE  CacheInv'
<1>1. CallsOK'
  BY StayOK, CallingOK
<1>2. DependsOK(depends) /\ errors \in 0 .. MaxErrors /\ rv \in {"ok", "fail"}
  BY Zenon DEF CacheInv
<1> QED BY <1>1, <1>2, ErrorsCounted, Assemble DEF Calling

-----------------------------------------------------------------------------
(* Steps of one request.                                                   *)
Moved(q, pc) == [q EXCEPT !.pc = pc]
Ended(q, ok) == [q EXCEPT !.pc = "done", !.ok = ok]
Given(q, pc, h) == [q EXCEPT !.pc = pc, !.h = h]
Begun(pc, g, b) == [Idle EXCEPT !.pc = pc, !.g = g, !.whole = b]

(* They leave a request that knows its clusters where it needs them.       *)
LEMMA RequestRecords ==
    ASSUME NEW q, RequestOK(q)
    PROVE  /\ q.pc \in {"table", "scan"} => RequestOK(Moved(q, "scan"))
           /\ q.pc = "data" => RequestOK(Moved(q, "copied"))
           /\ q.pc = "copied" => RequestOK(Moved(q, "link"))
           /\ q.pc = "link" => RequestOK(Moved(q, "update"))
           /\ q.pc = "free" => RequestOK(Moved(q, "count"))
           /\ RequestOK(Moved(q, "tables")) /\ RequestOK(Moved(q, "counts"))
           /\ \A ok \in BOOLEAN : RequestOK(Ended(q, ok))
           /\ \A h \in Clusters : q.pc = "scan" => RequestOK(Given(q, "data", h))
           /\ \A h \in Clusters : q.pc = "clear" => RequestOK(Given(q, "free", h))
  BY ZenonT(30) DEF RequestOK, Pcs, Moved, Ended, Given

(* So do the steps that begin one.                                         *)
LEMMA NewRequest ==
    ASSUME NEW g \in Guest, NEW b \in BOOLEAN
    PROVE  RequestOK(Begun("table", g, b)) /\ RequestOK(Begun("clear", g, b)) /\ RequestOK(Idle)
  BY Zenon DEF RequestOK, Pcs, Begun, Idle

(* What a step of a request keeps of the requests.                         *)
LEMMA RequestSteps ==
    ASSUME RequestsOK(req), ScanOK, NEW r \in Requests, NEW q, RequestOK(q),
           req' = [req EXCEPT ![r] = q],
           \/ lock' = NoLock
           \/ lock' = r /\ (q.pc = "scan" => free_cluster_index' \in Clusters)
           \/ UNCHANGED <<lock, free_cluster_index>> /\ q.pc # "scan"
    PROVE  RequestsOK(req') /\ ScanOK'
<1>1. req = [x \in Requests |-> req[x]] /\ \A x \in Requests : RequestOK(req[x])
  BY Zenon DEF RequestsOK
<1>2. /\ req' = [x \in Requests |-> req'[x]]
      /\ \A x \in Requests : req'[x] = IF x = r THEN q ELSE req[x]
  BY <1>1
<1>3. RequestsOK(req')
  <2>1. \A x \in Requests : RequestOK(req'[x])
    BY <1>1, <1>2, Zenon
  <2> QED BY <1>2, <2>1, Zenon DEF RequestsOK
<1>4. ScanOK'
  <2> SUFFICES ASSUME NEW x \in Requests, lock' = x, req'[x].pc = "scan"
               PROVE  free_cluster_index' \in Clusters
    BY DEF ScanOK
  <2>1. x # NoLock
    BY RequestsAssumption
  <2> QED BY <2>1, <1>2 DEF ScanOK
<1> QED BY <1>3, <1>4

(* What a step leaves right: the entries, and the rest of the caches and   *)
(* of the disk.                                                            *)
EntriesStep == EntriesOK(entries') /\ SameOffsets /\ TablesOK(entries')
RestStep ==
    /\ UNCHANGED depends /\ depends_on_flush' \in [Caches -> BOOLEAN]
    /\ Succeeds \/ Fails
    /\ DiskOK(disk')
LockStep(r, q) ==
    \/ lock' = NoLock
    \/ lock' = r /\ (q.pc = "scan" => free_cluster_index' \in Clusters)
    \/ UNCHANGED <<lock, free_cluster_index>> /\ q.pc # "scan"

(* The invariant after a step of a request.                                *)
LEMMA Together ==
    ASSUME IInv, NEW r \in Requests, NEW q, RequestOK(q), req' = [req EXCEPT ![r] = q],
           LockStep(r, q), EntriesStep, RestStep, UNCHANGED <<stack, rv>> \/ Calling
    PROVE  IInv'
<1>1. RequestsOK(req') /\ ScanOK'
  BY RequestSteps, Zenon DEF IInv, DataInv, LockStep
<1>2. CacheInv'
  BY RequestKeeps DEF IInv, EntriesStep, RestStep
<1> QED BY <1>1, <1>2, Zenon DEF IInv, DataInv, EntriesStep, RestStep

(* A step that leaves the entries as they are.                             *)
LEMMA SameEntries ==
    ASSUME IInv, UNCHANGED entries
    PROVE  EntriesStep
  BY Zenon DEF IInv, CacheInv, DataInv, EntriesStep, SameOffsets

(* The same of the rest.                                                   *)
LEMMA SameRest ==
    ASSUME IInv, UNCHANGED <<disk, depends, depends_on_flush, errors>>
    PROVE  RestStep
  BY DEF IInv, CacheInv, DataInv, RestStep, Succeeds

(* Steps that change a table.                                              *)
LEMMA ChangedTable ==
    ASSUME IInv, NEW c \in Caches, NEW o, NEW v, Update(c, o, v), c = "l2" => v \in L2Content
    PROVE  EntriesStep
  BY UpdateKeeps, UpdateTable DEF IInv, CacheInv, DataInv, EntriesStep

(* The request r and where it is.                                          *)
LEMMA RequestAt ==
    ASSUME IInv, NEW r \in Requests
    PROVE  /\ RequestOK(req[r]) /\ DOMAIN req = Requests
           /\ req[r].pc \notin {"new", "done", "tables", "counts"} =>
                  req[r].g \in Guest /\ L2Of(req[r].g) \in L2Tables
           /\ req[r].pc \in {"data", "copied", "link", "update", "free", "count"} =>
                  req[r].h \in Clusters /\ RefOf(req[r].h) \in RefBlocks
<1>1. RequestOK(req[r]) /\ req = [x \in Requests |-> req[x]]
  BY Zenon DEF IInv, DataInv, RequestsOK
<1> QED BY <1>1, RequestsAssumption DEF RequestOK

(* A request is done.                                                      *)
LEMMA DoneStep ==
    ASSUME IInv, NEW r \in Requests, NEW ok, Done(r, ok), ok \in BOOLEAN,
           EntriesStep, RestStep, UNCHANGED <<stack, rv>>
    PROVE  IInv'
<1>1. req' = [req EXCEPT ![r] = Ended(req[r], ok)] /\ lock' = NoLock
  BY RequestAt DEF Done, Ended
<1>2. RequestOK(Ended(req[r], ok))
  BY RequestAt, RequestRecords, Zenon
<1> HIDE DEF Ended
<1> QED BY <1>1, <1>2, Together, Zenon DEF LockStep

(* A request goes on with a call of the cache.                             *)
LEMMA ThenStep ==
    ASSUME IInv, NEW r \in Requests, NEW pc, NEW f, Then(r, pc, f),
           RequestOK(Moved(req[r], pc)), LockStep(r, Moved(req[r], pc)),
           EntriesStep, RestStep, Calling
    PROVE  IInv'
<1>1. req' = [req EXCEPT ![r] = Moved(req[r], pc)]
  BY RequestAt DEF Then, Moved
<1> HIDE DEF Moved
<1> QED BY <1>1, Together, Zenon

(* handle_alloc begins, or goes on, to look for a free cluster.            *)
LEMMA ScanStep ==
    ASSUME IInv, NEW r \in Requests, NEW h, Scan(r, h), req[r].pc \in {"table", "scan"},
           lock = r, free_cluster_index' = h, EntriesStep, RestStep
    PROVE  IInv'
<1>1. CASE h \in Clusters
  <2>1. Then(r, "scan", Call("get", "rc", RefOf(h))) /\ lock' = r
    BY <1>1, SMTT(30) DEF Scan
  <2>2. RequestOK(Moved(req[r], "scan"))
    BY RequestAt, RequestRecords
  <2>3. "rc" \in Caches /\ RefOf(h) \in TablesOf("rc")
    BY <1>1, RequestsAssumption DEF Caches, TablesOf
  <2>4. Calling
    BY <2>1, <2>3, Zenon DEF Then, Calling
  <2> QED BY <1>1, <2>1, <2>2, <2>4, ThenStep, SMTT(30) DEF LockStep
<1>2. CASE h \notin Clusters
  BY <1>2, DoneStep, Zenon DEF Scan
<1> QED BY <1>1, <1>2, SMTT(30)

-----------------------------------------------------------------------------
(* The operations.                                                         *)

(* qcow2_co_writev and qcow2_co_discard begin.                             *)
LEMMA StartKeeps ==
    ASSUME IInv, NEW r \in Requests, WriteStart(r) \/ DiscardStart(r)
    PROVE  IInv'
<1>0. \A w \in Writes : w.g \in Guest /\ w.whole \in BOOLEAN
  BY RequestsAssumption
<1>1. PICK g \in Guest, b \in BOOLEAN, pc \in {"table", "clear"} : Begin(r, pc, g, b)
  BY <1>0, Zenon DEF WriteStart, DiscardStart
<1>2. "l2" \in Caches /\ L2Of(g) \in TablesOf("l2")
  BY RequestsAssumption DEF Caches, TablesOf
<1>3. Calling
  BY <1>1, <1>2, Zenon DEF Calling, Begin
<1>4. RequestOK(Begun(pc, g, b)) /\ Begun(pc, g, b).pc # "scan"
  <2>1. RequestOK(Begun(pc, g, b))
    BY NewRequest
  <2> QED BY <2>1 DEF Begun, Idle
<1>5. /\ req' = [req EXCEPT ![r] = Begun(pc, g, b)] /\ lock' = r
      /\ UNCHANGED <<disk, entries, depends, depends_on_flush, errors>>
  BY <1>1, Zenon DEF Begun, Begin
<1>6. EntriesStep /\ RestStep
  BY <1>5, SameEntries, SameRest
<1> HIDE DEF Begun
<1> QED BY <1>3, <1>4, <1>5, <1>6, Together, Zenon DEF LockStep

(* handle_copied and handle_alloc.                                         *)
LEMMA WriteTableKeeps ==
    ASSUME IInv, NEW r \in Requests, WriteTable(r)
    PROVE  IInv'
<1>1. EntriesStep /\ RestStep /\ UNCHANGED free_cluster_index
  BY SameEntries, SameRest, ZenonT(60) DEF WriteTable, imageVars
<1>2. /\ lock = r /\ req[r].pc = "table"
      /\ \/ Done(r, rv = "ok") /\ UNCHANGED <<stack, rv>>
         \/ Scan(r, free_cluster_index)
  BY ZenonT(60) DEF WriteTable, Holds
<1> QED BY <1>1, <1>2, DoneStep, ScanStep, ZenonT(30)

(* alloc_clusters_noref and update_refcount.                               *)
LEMMA WriteAllocKeeps ==
    ASSUME IInv, NEW r \in Requests, WriteAlloc(r)
    PROVE  IInv'
<1> DEFINE h == free_cluster_index
<1>1. /\ lock = r /\ req[r].pc = "scan" /\ free_cluster_index' = h + 1
      /\ UNCHANGED <<disk, depends, depends_on_flush, errors>>
      /\ h \in Clusters
  BY DEF WriteAlloc, Holds, IInv, DataInv, ScanOK
<1>2. RestStep
  BY <1>1, SameRest
<1>3. CASE Done(r, FALSE) /\ UNCHANGED <<stack, rv, entries>>
  BY <1>2, <1>3, SameEntries, DoneStep, ZenonT(60)
<1>4. CASE Scan(r, h + 1) /\ UNCHANGED entries
  BY <1>1, <1>2, <1>4, SameEntries, ScanStep
<1>5. ASSUME NEW v, Update("rc", RefOf(h), v),
             req' = [req EXCEPT ![r] = [@ EXCEPT !.pc = "data", !.h = h]],
             lock' = NoLock, UNCHANGED <<stack, rv>>
      PROVE  IInv'
  <2>1. EntriesStep
    BY <1>5, ChangedTable DEF Caches
  <2>2. req' = [req EXCEPT ![r] = Given(req[r], "data", h)]
    BY <1>5, RequestAt, SMTT(30) DEF Given
  <2>3. RequestOK(Given(req[r], "data", h))
    BY <1>1, RequestAt, RequestRecords
  <2> HIDE DEF Given
  <2> QED BY <1>2, <1>5, <2>1, <2>2, <2>3, Together, Zenon DEF LockStep
<1> QED BY <1>3, <1>4, <1>5, Zenon DEF WriteAlloc

(* The data.                                                               *)
LEMMA WriteDataKeeps ==
    ASSUME IInv, NEW r \in Requests, WriteData(r)
    PROVE  IInv'
<1>1. /\ req[r].pc = "data" /\ UNCHANGED <<entries, depends, depends_on_flush, stack, rv>>
      /\ UNCHANGED <<lock, free_cluster_index>>
  BY SMTT(30) DEF WriteData, imageVars
<1>2. EntriesStep /\ req[r].h \in Clusters /\ depends_on_flush \in [Caches -> BOOLEAN]
      /\ DiskOK(disk)
  BY <1>1, SameEntries, RequestAt, Zenon DEF IInv, CacheInv, DataInv
<1>3. CASE /\ Succeeds /\ PWrite(req[r].h, req[r].g)
           /\ req' = [req EXCEPT ![r].pc = "copied"]
  <2>1. req[r].h \notin L2Tables
    BY <1>2, CacheAssumption
  <2>2. DiskOK(disk')
    BY <1>2, <1>3, <2>1, WriteDisk
  <2>3. RestStep
    BY <1>1, <1>2, <1>3, <2>2 DEF RestStep
  <2>4. req' = [req EXCEPT ![r] = Moved(req[r], "copied")] /\ Moved(req[r], "copied").pc # "scan"
    BY <1>3, RequestAt, SMTT(30) DEF Moved, RequestOK
  <2>5. RequestOK(Moved(req[r], "copied"))
    BY <1>1, RequestAt, RequestRecords, ZenonT(60)
  <2> HIDE DEF Moved
  <2> QED BY <1>1, <1>2, <2>3, <2>4, <2>5, Together, ZenonT(60) DEF LockStep
<1>4. CASE /\ Fails /\ UNCHANGED disk
           /\ req' = [req EXCEPT ![r] = [@ EXCEPT !.pc = "done", !.ok = FALSE]]
  <2>1. RestStep
    BY <1>1, <1>2, <1>4 DEF RestStep
  <2>2. PICK b \in BOOLEAN : b = FALSE
    BY Zenon
  <2>3. req' = [req EXCEPT ![r] = Ended(req[r], b)] /\ Ended(req[r], b).pc # "scan"
    BY <1>4, <2>2, RequestAt, ZenonT(60) DEF Ended, RequestOK
  <2>4. RequestOK(Ended(req[r], b))
    BY RequestAt, RequestRecords
  <2> HIDE DEF Ended
  <2> QED BY <1>1, <1>2, <2>1, <2>3, <2>4, Together, Zenon DEF LockStep
<1> QED BY <1>3, <1>4 DEF WriteData

(* qcow2_alloc_cluster_link_l2 sets the dependencies.                      *)
LEMMA WriteCopiedKeeps ==
    ASSUME IInv, NEW r \in Requests, WriteCopied(r)
    PROVE  IInv'
<1>1. req[r].pc = "copied" /\ lock' = r /\ UNCHANGED <<entries, depends>> /\ CowDone(r) /\ MarkDirty
  BY SMTT(30) DEF WriteCopied
<1>2. EntriesStep /\ DiskOK(disk) /\ depends_on_flush \in [Caches -> BOOLEAN]
  BY <1>1, SameEntries DEF IInv, CacheInv, DataInv
<1>3. RestStep
  <2>1. (FileFlush \/ disk' = disk) /\ (Succeeds \/ Fails)
    BY <1>1 DEF MarkDirty, Succeeds
  <2>2. DiskOK(disk')
    BY <1>2, <2>1, FlushDisk
  <2>3. depends_on_flush' \in [Caches -> BOOLEAN]
    BY <1>1, <1>2, Zenon DEF CowDone
  <2> QED BY <1>1, <2>1, <2>2, <2>3 DEF RestStep
<1>4. req' = [req EXCEPT ![r] = Moved(req[r], "link")] /\ Moved(req[r], "link").pc # "scan"
  <2>1. req' = [req EXCEPT ![r].pc = "link"]
    BY SMTT(30) DEF WriteCopied, Then
  <2> QED BY <2>1, RequestAt DEF Moved, RequestOK
<1>5. RequestOK(Moved(req[r], "link"))
  BY <1>1, RequestAt, RequestRecords
<1>6. UNCHANGED <<stack, rv>> \/ Calling
  <2>1. UNCHANGED <<stack, rv>> \/ (stack' = <<Call("set", "l2", 0)>> /\ rv' = "ok")
    BY DEF WriteCopied, Then
  <2>2. "l2" \in Caches
    BY DEF Caches
  <2> QED BY <2>1, <2>2, Zenon DEF Calling
<1> HIDE DEF Moved
<1> QED BY <1>1, <1>2, <1>3, <1>4, <1>5, <1>6, Together, Zenon DEF LockStep

(* It loads the table.                                                     *)
LEMMA WriteLinkKeeps ==
    ASSUME IInv, NEW r \in Requests, WriteLink(r)
    PROVE  IInv'
<1>1. /\ req[r].pc = "link" /\ lock = r /\ lock' = lock
      /\ Then(r, "update", Call("get", "l2", L2Of(req[r].g)))
      /\ UNCHANGED <<disk, entries, depends, depends_on_flush, errors>>
  BY Zenon DEF WriteLink, Holds
<1>2. EntriesStep /\ RestStep
  BY <1>1, SameEntries, SameRest, Zenon
<1>3. RequestOK(Moved(req[r], "update")) /\ Moved(req[r], "update").pc # "scan"
  <2>1. RequestOK(Moved(req[r], "update"))
    BY <1>1, RequestAt, RequestRecords, ZenonT(60)
  <2> QED BY <2>1, RequestAt, Zenon DEF Moved, RequestOK
<1>4. "l2" \in Caches /\ L2Of(req[r].g) \in TablesOf("l2")
  BY <1>1, RequestAt DEF Caches, TablesOf
<1>5. Calling
  BY <1>1, <1>4, Zenon DEF Then, Calling
<1> QED BY <1>1, <1>2, <1>3, <1>5, ThenStep, ZenonT(30) DEF LockStep

(* The content of a table with one entry changed.                          *)
LEMMA ChangedContent ==
    ASSUME IInv, NEW o \in L2Tables, NEW g, NEW h \in {0} \cup Clusters
    PROVE  [Table("l2", o) EXCEPT ![g] = h] \in L2Content
<1>1. Table("l2", o) \in L2Content
  BY TableContent DEF IInv, DataInv
<1> QED BY <1>1, Zenon DEF L2Content

(* The cluster is linked.                                                  *)
LEMMA WriteUpdateKeeps ==
    ASSUME IInv, NEW r \in Requests, WriteUpdate(r)
    PROVE  IInv'
<1> DEFINE o == L2Of(req[r].g)
           v == [Table("l2", o) EXCEPT ![req[r].g] = req[r].h]
<1>1. /\ req[r].pc = "update" /\ Done(r, rv = "ok") /\ UNCHANGED <<stack, rv>>
      /\ UNCHANGED <<disk, depends, depends_on_flush, errors>>
      /\ UNCHANGED entries \/ Update("l2", o, v)
  BY DEF WriteUpdate, Holds
<1>2. "l2" \in Caches /\ v \in L2Content
  BY <1>1, RequestAt, ChangedContent, ZenonT(30) DEF Caches
<1> HIDE DEF o, v
<1>3. EntriesStep /\ RestStep
  BY <1>1, <1>2, SameEntries, SameRest, ChangedTable, SMTT(30)
<1> QED BY <1>1, <1>3, DoneStep, ZenonT(30)

(* discard_single_l2.                                                      *)
LEMMA DiscardClearKeeps ==
    ASSUME IInv, NEW r \in Requests, DiscardClear(r)
    PROVE  IInv'
<1> DEFINE g == req[r].g
           o == L2Of(g)
           h == Table("l2", o)[g]
           v == [Table("l2", o) EXCEPT ![g] = 0]
<1>1. /\ req[r].pc = "clear" /\ lock = r
      /\ UNCHANGED <<disk, depends, depends_on_flush, errors>>
  BY DEF DiscardClear, Holds
<1>2. RestStep
  BY <1>1, SameRest
<1>3. CASE Done(r, rv = "ok") /\ UNCHANGED <<stack, rv, entries>>
  BY <1>2, <1>3, SameEntries, DoneStep, Zenon
<1>4. CASE /\ h # 0 /\ Update("l2", o, v)
           /\ req' = [req EXCEPT ![r] = [@ EXCEPT !.pc = "free", !.h = h]]
           /\ stack' = <<Call("set", "rc", 0)>> /\ rv' = "ok" /\ UNCHANGED lock
  <2>1. g \in Guest /\ o \in L2Tables
    BY <1>1, RequestAt
  <2>2. "l2" \in Caches /\ "rc" \in Caches /\ v \in L2Content
    BY <2>1, ChangedContent DEF Caches
  <2>3. h \in Clusters
    <3>1. Table("l2", o) \in L2Content
      BY <2>1, TableContent DEF IInv, DataInv
    <3> QED BY <3>1, <2>1, <1>4 DEF L2Content
  <2> HIDE DEF h, v
  <2>4. EntriesStep
    BY <1>4, <2>2, ChangedTable
  <2>5. req' = [req EXCEPT ![r] = Given(req[r], "free", h)] /\ Given(req[r], "free", h).pc # "scan"
    BY <1>4, RequestAt, ZenonT(30) DEF Given, RequestOK
  <2>6. RequestOK(Given(req[r], "free", h))
    BY <1>1, <2>3, RequestAt, RequestRecords
  <2>7. Calling
    BY <1>4, <2>2, Zenon DEF Calling
  <2> HIDE DEF Given
  <2> QED BY <1>1, <1>2, <1>4, <2>4, <2>5, <2>6, <2>7, Together, ZenonT(30) DEF LockStep
<1> QED BY <1>3, <1>4 DEF DiscardClear

(* update_refcount by -1 loads the refcount block.                         *)
LEMMA DiscardFreeKeeps ==
    ASSUME IInv, NEW r \in Requests, DiscardFree(r)
    PROVE  IInv'
<1>1. /\ req[r].pc = "free" /\ lock = r /\ lock' = lock
      /\ Then(r, "count", Call("get", "rc", RefOf(req[r].h)))
      /\ UNCHANGED <<disk, entries, depends, depends_on_flush, errors>>
  BY DEF DiscardFree, Holds
<1>2. EntriesStep /\ RestStep
  BY <1>1, SameEntries, SameRest
<1>3. RequestOK(Moved(req[r], "count")) /\ Moved(req[r], "count").pc # "scan"
  <2>1. RequestOK(Moved(req[r], "count"))
    BY <1>1, RequestAt, RequestRecords, ZenonT(60)
  <2> QED BY <2>1, RequestAt, Zenon DEF Moved, RequestOK
<1>4. "rc" \in Caches /\ RefOf(req[r].h) \in TablesOf("rc")
  BY <1>1, RequestAt DEF Caches, TablesOf
<1>5. Calling
  BY <1>1, <1>4, Zenon DEF Then, Calling
<1> QED BY <1>1, <1>2, <1>3, <1>5, ThenStep, Zenon DEF LockStep

(* The count is lowered.                                                   *)
LEMMA DiscardCountKeeps ==
    ASSUME IInv, NEW r \in Requests, DiscardCount(r)
    PROVE  IInv'
<1> DEFINE h == req[r].h
           v == [Table("rc", RefOf(h)) EXCEPT ![h] = IF @ = 0 THEN 0 ELSE @ - 1]
<1>1. /\ Done(r, TRUE) /\ UNCHANGED <<stack, rv>>
      /\ UNCHANGED <<disk, depends, depends_on_flush, errors>>
      /\ UNCHANGED entries \/ Update("rc", RefOf(h), v)
  BY Zenon DEF DiscardCount
<1>2. "rc" \in Caches
  BY DEF Caches
<1> HIDE DEF h, v
<1>3. EntriesStep /\ RestStep
  BY <1>1, <1>2, SameEntries, SameRest, ChangedTable
<1> QED BY <1>1, <1>3, DoneStep, Zenon

(* qcow2_co_flush_to_os.                                                   *)
LEMMA FlushRequestKeeps ==
    ASSUME IInv, NEW r \in Requests, FlushStart(r) \/ FlushCounts(r) \/ FlushReturns(r)
    PROVE  IInv'
<1>1. EntriesStep /\ RestStep
  BY SameEntries, SameRest DEF FlushStart, FlushCounts, FlushReturns
<1>2. CASE Done(r, rv = "ok") /\ UNCHANGED <<stack, rv>>
  BY <1>1, <1>2, DoneStep, Zenon
<1>3. ASSUME NEW pc \in {"tables", "counts"}, NEW c \in Caches,
             Then(r, pc, Call("flush", c, 1)), lock' = r
      PROVE  IInv'
  <2>1. RequestOK(Moved(req[r], pc))
    BY RequestAt, RequestRecords
  <2>2. Moved(req[r], pc).pc # "scan"
    BY RequestAt DEF Moved, RequestOK
  <2>3. Calling
    BY <1>3, Zenon DEF Then, Calling
  <2> QED BY <1>1, <1>3, <2>1, <2>2, <2>3, ThenStep, ZenonT(30) DEF LockStep
<1>4. \/ Done(r, rv = "ok") /\ UNCHANGED <<stack, rv>>
      \/ Then(r, "tables", Call("flush", "l2", 1)) /\ lock' = r
      \/ Then(r, "counts", Call("flush", "rc", 1)) /\ lock' = r
  BY DEF FlushStart, FlushCounts, FlushReturns, Holds
<1> QED BY <1>2, <1>3, <1>4, SMTT(30) DEF Caches

(* The empty caches.                                                       *)
LEMMA EmptyCaches ==
    ASSUME NEW en, en = [c \in Caches |-> [i \in 1 .. Size[c] |-> Empty]],
           NEW dp, dp = [c \in Caches |-> None],
           NEW dof, dof = [c \in Caches |-> FALSE]
    PROVE  /\ EntriesOK(en) /\ TablesOK(en) /\ DependsOK(dp)
           /\ dof \in [Caches -> BOOLEAN]
<1>1. \A c \in Caches : \A i \in 1 .. Size[c] : en[c][i] = Empty
  OBVIOUS
<1>2. /\ Entry(Empty) /\ Empty.dirty \in BOOLEAN /\ Empty.offset = 0
  BY NewEntry, Zenon
<1>3. en = [c \in Caches |-> [i \in 1 .. Size[c] |-> en[c][i]]]
  OBVIOUS
<1>4. EntriesOK(en)
  BY <1>1, <1>2, <1>3 DEF EntriesOK
<1>5. TablesOK(en)
  BY <1>1, <1>2 DEF TablesOK, Caches
<1>6. DependsOK(dp)
  BY TwoCaches DEF DependsOK
<1>7. dof \in [Caches -> BOOLEAN]
  BY Zenon
<1> QED BY <1>4, <1>5, <1>6, <1>7

(* The power fails and the image is opened again.                          *)
LEMMA CrashKeeps ==
    ASSUME IInv, Crash
    PROVE  IInv'
<1>1. /\ EntriesOK(entries') /\ TablesOK(entries') /\ DependsOK(depends')
      /\ depends_on_flush' \in [Caches -> BOOLEAN]
  BY EmptyCaches, Zenon DEF Crash
<1>2. stack' = << >> /\ rv' = "ok" /\ errors' = errors /\ errors \in 0 .. MaxErrors
  BY Zenon DEF Crash, IInv, CacheInv
<1>3. CacheInv'
  BY <1>1, <1>2, RequestReturns, Assemble
<1>4. DiskOK(disk')
  <2>1. PICK l \in Kept(L2Tables), c \in Kept(RefBlocks), d \in Kept(Clusters) :
            disk' = [o \in Offsets |->
                        LET v == IF o \in L2Tables THEN l[o]
                                 ELSE IF o \in Clusters THEN d[o]
                                 ELSE IF marked THEN Repaired(l)[o] ELSE c[o]
                        IN  [cur |-> v, may |-> {v}]]
    BY Zenon DEF Crash
  <2>2. \A o \in L2Tables : l[o] \in L2Content
    BY DEF Kept, IInv, DataInv, DiskOK
  <2>3. \A o \in L2Tables : o \in Offsets
    BY DEF Offsets
  <2> HIDE DEF L2Content
  <2>4. \A o \in L2Tables : disk'[o] = [cur |-> l[o], may |-> {l[o]}]
    BY <2>1, <2>3
  <2>5. \A o \in L2Tables : disk'[o].cur \in L2Content /\ disk'[o].may \subseteq L2Content
    <3> SUFFICES ASSUME NEW o \in L2Tables
                 PROVE  disk'[o].cur \in L2Content /\ disk'[o].may \subseteq L2Content
      OBVIOUS
    <3>1. disk'[o] = [cur |-> l[o], may |-> {l[o]}] /\ l[o] \in L2Content
      BY <2>2, <2>4, Zenon
    <3>2. \A e, v : e = [cur |-> v, may |-> {v}] => e.cur = v /\ e.may = {v}
      OBVIOUS
    <3>3. disk'[o].cur = l[o] /\ disk'[o].may = {l[o]}
      BY <3>1, <3>2, Zenon
    <3> QED BY <3>1, <3>3, Zenon
  <2>6. disk' = [o \in Offsets |-> disk'[o]]
    BY <2>1
  <2> QED BY <2>5, <2>6, Zenon DEF DiskOK
<1>5. RequestsOK(req') /\ ScanOK'
  <2>1. req' = [r \in Requests |-> IF Active(r) THEN [req[r] EXCEPT !.pc = "done", !.ok = FALSE]
                                    ELSE req[r]]
    BY Zenon DEF Crash
  <2>2. PICK b \in BOOLEAN : b = FALSE
    BY Zenon
  <2>3. ASSUME NEW r \in Requests
        PROVE  RequestOK(req'[r]) /\ req'[r].pc # "scan"
    <3>1. CASE Active(r)
      <4>1. req'[r] = Ended(req[r], b)
        BY <2>1, <2>2, <3>1, Zenon DEF Ended
      <4>2. RequestOK(Ended(req[r], b)) /\ Ended(req[r], b).pc = "done"
        <5>1. RequestOK(Ended(req[r], b))
          BY RequestAt, RequestRecords, Zenon
        <5> QED BY <5>1, RequestAt, Zenon DEF Ended, RequestOK
      <4> QED BY <4>1, <4>2
    <3>2. CASE ~Active(r)
      BY <2>1, <3>2, RequestAt, Zenon DEF Active
    <3> QED BY <3>1, <3>2
  <2>4. req' = [r \in Requests |-> req'[r]]
    BY <2>1, Zenon
  <2>5. RequestsOK(req')
    BY <2>3, <2>4, Zenon DEF RequestsOK
  <2> QED BY <2>3, <2>5, Zenon DEF ScanOK
<1>6. TablesOK(entries')
  BY <1>1, Zenon
<1> QED BY <1>3, <1>4, <1>5, <1>6, Zenon DEF IInv, DataInv

-----------------------------------------------------------------------------
(* The invariant holds at first.                                           *)
LEMMA InitInv ==
    ASSUME Init
    PROVE  IInv
<1>1. /\ EntriesOK(entries) /\ TablesOK(entries) /\ DependsOK(depends)
      /\ depends_on_flush \in [Caches -> BOOLEAN]
  BY EmptyCaches, Zenon DEF Init, CacheInit
<1>2. stack = << >> /\ rv = "ok" /\ errors = 0
  BY DEF Init, CacheInit
<1>3. CacheInv
  <2>1. stack \in Seq(Frame) /\ Len(stack) = 0
    BY <1>2
  <2>2. \A k \in 1 .. Len(stack) : FALSE
    BY <2>1
  <2>3. Nested(stack) /\ Depending(stack, depends) /\ Setting(stack, depends, rv)
        /\ Getting(stack, entries)
    BY <2>1, <2>2 DEF Nested, Depending, Setting, Getting
  <2>4. errors \in 0 .. MaxErrors /\ rv \in {"ok", "fail"}
    BY <1>2, CacheAssumption
  <2> QED BY <1>1, <2>3, <2>4, Zenon DEF CacheInv
<1>4. DiskOK(disk)
  <2>1. disk = [o \in Offsets |-> [cur |-> EmptyTable(o), may |-> {EmptyTable(o)}]]
    BY DEF Init, CacheInit
  <2>2. \A o \in L2Tables : EmptyTable(o) \in L2Content /\ o \in Offsets
    BY DEF EmptyTable, L2Content, Offsets
  <2> HIDE DEF L2Content
  <2>3. \A o \in L2Tables : disk[o].cur \in L2Content /\ disk[o].may \subseteq L2Content
    BY <2>1, <2>2
  <2>4. disk = [o \in Offsets |-> disk[o]]
    BY <2>1
  <2> QED BY <2>3, <2>4, Zenon DEF DiskOK
<1>5. RequestsOK(req) /\ ScanOK
  <2>1. req = [r \in Requests |-> Idle]
    BY DEF Init
  <2>2. RequestOK(Idle) /\ Idle.pc # "scan"
    BY DEF RequestOK, Pcs, Idle
  <2> QED BY <2>1, <2>2 DEF RequestsOK, ScanOK
<1> QED BY <1>1, <1>3, <1>4, <1>5, Zenon DEF IInv, DataInv

(* Every step keeps it.                                                    *)
LEMMA StepInv ==
    ASSUME IInv, [Next]_vars
    PROVE  IInv'
<1>1. CASE UNCHANGED vars
  BY <1>1, Zenon DEF vars, cacheVars, imageVars, IInv, CacheInv, DataInv, ScanOK
<1>2. CASE Cache
  <2>1. CacheStep /\ UNCHANGED <<req, lock, free_cluster_index>> /\ CacheInv
    BY <1>2 DEF Cache, imageVars, IInv
  <2>2. CacheInv'
    BY <2>1, FlushDependencyKeeps, EntryKeeps, FlushKeeps, SetDependencyKeeps, GetKeeps
       DEF CacheStep
  <2>3. DiskOK(disk') /\ TablesOK(entries')
    BY <2>1, CacheStepData
  <2>4. RequestsOK(req') /\ ScanOK'
    BY <2>1 DEF IInv, DataInv, ScanOK
  <2> QED BY <2>2, <2>3, <2>4, Zenon DEF IInv, DataInv
<1>3. ASSUME NEW r \in Requests,
             \/ WriteTable(r) \/ WriteAlloc(r) \/ WriteData(r) \/ WriteCopied(r) \/ WriteLink(r)
             \/ WriteUpdate(r) \/ DiscardClear(r) \/ DiscardFree(r) \/ DiscardCount(r)
             \/ FlushCounts(r) \/ FlushReturns(r)
             \/ WriteStart(r) \/ DiscardStart(r) \/ FlushStart(r)
      PROVE  IInv'
  BY <1>3, StartKeeps, WriteTableKeeps, WriteAllocKeeps, WriteDataKeeps, WriteCopiedKeeps, Zenon,
     WriteLinkKeeps, WriteUpdateKeeps, DiscardClearKeeps, DiscardFreeKeeps, DiscardCountKeeps,
     FlushRequestKeeps
<1>4. CASE Crash
  BY <1>4, CrashKeeps, Zenon
<1> QED BY <1>1, <1>2, <1>3, <1>4, ZenonT(30) DEF Next, Progress

(* It says that the caches are consistent.                                 *)
LEMMA InvConsistent ==
    ASSUME IInv
    PROVE  CacheConsistent
<1>1. /\ Nested(stack) /\ EntriesOK(entries) /\ DependsOK(depends)
      /\ depends_on_flush \in [Caches -> BOOLEAN]
      /\ rv \in {"ok", "fail"} /\ errors \in 0 .. MaxErrors
  BY DEF IInv, CacheInv
<1>2. CacheTypeOK
  BY <1>1, Zenon DEF CacheTypeOK, EntriesOK, DependsOK
<1>3. ASSUME NEW j \in 1 .. Len(stack), NEW k \in 1 .. Len(stack),
             stack[j].fn = "dep", stack[k].fn = "dep"
      PROVE  j = k
  <2>1. ~(j < k) /\ ~(k < j)
    BY <1>1, <1>3 DEF Nested
  <2>2. j \in Int /\ k \in Int
    BY <1>1 DEF Nested
  <2> QED BY <2>1, <2>2
<1>4. \A c \in Caches : \A i, j \in 1 .. Size[c] :
          i # j /\ entries[c][i].offset # 0 => entries[c][i].offset # entries[c][j].offset
  BY <1>1, Zenon DEF EntriesOK
<1> QED BY <1>1, <1>2, <1>3, <1>4 DEF CacheConsistent, DependsOK

(* The caches of L2 tables and refcount blocks never depend on each other, *)
(* the flush of a dependency never meets another one, and no table is      *)
(* cached twice, whatever the sizes of the caches, the writes, discards    *)
(* and flushes, the failures of bs->file and the crashes.                  *)
THEOREM Safety == Spec => []CacheConsistent
<1>1. Init => IInv
  BY InitInv
<1>2. IInv /\ [Next]_vars => IInv'
  BY StepInv
<1>3. IInv => CacheConsistent
  BY InvConsistent
<1> QED BY <1>1, <1>2, <1>3, PTL DEF Spec

=============================================================================
