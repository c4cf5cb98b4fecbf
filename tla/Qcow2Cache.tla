----------------------------- MODULE Qcow2Cache -----------------------------
(***************************************************************************)
(* The two metadata caches of qcow2 (block/qcow2-cache.c), that of L2      *)
(* tables and that of refcount blocks, and the order in which they reach a *)
(* disk with a volatile write cache.                                       *)
(*                                                                         *)
(* The functions of the cache call each other, and each write and flush of *)
(* bs->file is a point where the host may fail or the machine may stop.    *)
(* So the calls in progress are kept on a stack, top first, and a step     *)
(* goes on with the topmost call; rv is what the last call returned.       *)
(***************************************************************************)
EXTENDS Naturals, Sequences, FiniteSets

CONSTANTS L2Tables, RefBlocks,   \* offsets of the tables in the image
          Clusters,              \* offsets of the data clusters
          Size,                  \* entries of each cache
          MaxErrors              \* failures of bs->file

ASSUME CacheAssumption ==
    /\ L2Tables \cup RefBlocks \cup Clusters \subseteq Nat \ {0}
    /\ L2Tables \cap RefBlocks = {} /\ (L2Tables \cup RefBlocks) \cap Clusters = {}
    /\ Size \in [{"l2", "rc"} -> Nat \ {0}] /\ MaxErrors \in Nat

Caches == {"l2", "rc"}         \* s->l2_table_cache, s->refcount_block_cache
None == "none"
Offsets == L2Tables \cup RefBlocks \cup Clusters

VARIABLES disk,       \* at each offset what bs->file has (cur), and what may be
                      \* found there after a power failure (may)
          entries, depends, depends_on_flush,      \* of Qcow2Cache
          stack, rv, errors

cacheVars == <<disk, entries, depends, depends_on_flush, stack, rv, errors>>

Empty == [offset |-> 0, dirty |-> FALSE, table |-> <<>>]

(* qcow2_cache_create, for an image with these contents.                   *)
CacheInit(contents) ==
    /\ disk = [o \in Offsets |-> [cur |-> contents[o], may |-> {contents[o]}]]
    /\ entries = [c \in Caches |-> [i \in 1 .. Size[c] |-> Empty]]
    /\ depends = [c \in Caches |-> None]
    /\ depends_on_flush = [c \in Caches |-> FALSE]
    /\ stack = <<>> /\ rv = "ok" /\ errors = 0

-----------------------------------------------------------------------------
(* bs->file.  A power failure keeps or loses each write not yet flushed.   *)
PWrite(o, v) == disk' = [disk EXCEPT ![o] = [cur |-> v, may |-> @.may \cup {v}]]
FileFlush == disk' = [o \in Offsets |-> [cur |-> disk[o].cur, may |-> {disk[o].cur}]]

Succeeds == UNCHANGED errors
Fails == errors < MaxErrors /\ errors' = errors + 1

-----------------------------------------------------------------------------
(* A call: i is the entry or, of qcow2_cache_get, the offset; slot is the  *)
(* entry that qcow2_cache_get replaces.                                    *)
Call(fn, c, i) == [fn |-> fn, c |-> c, i |-> i, st |-> "start", slot |-> 0]
Top == Head(stack)
In(fn, st) == stack # <<>> /\ Top.fn = fn /\ Top.st = st

Calls(f, st) == stack' = <<f, [Top EXCEPT !.st = st]>> \o Tail(stack) /\ rv' = "ok"
Goes(st) == stack' = <<[Top EXCEPT !.st = st]>> \o Tail(stack) /\ UNCHANGED rv
Returns(r) == stack' = Tail(stack) /\ rv' = r

(* qcow2_cache_flush_dependency.                                           *)
FlushDependency ==
    \/ /\ In("dep", "start")
       /\ Calls(Call("flush", depends[Top.c], 1), "flushed")
       /\ UNCHANGED <<disk, entries, depends, depends_on_flush, errors>>
    \/ /\ In("dep", "flushed")
       /\ IF rv = "fail" THEN UNCHANGED <<depends, depends_on_flush>>
          ELSE /\ depends' = [depends EXCEPT ![Top.c] = None]
               /\ depends_on_flush' = [depends_on_flush EXCEPT ![Top.c] = FALSE]
       /\ Returns(rv)
       /\ UNCHANGED <<disk, entries, errors>>

WriteNoDependency ==                          \* mutant of EntryDependency
    /\ In("entry", "start") /\ entries[Top.c][Top.i].dirty
    /\ Goes("write")
    /\ UNCHANGED <<disk, entries, depends, depends_on_flush, errors>>

(* qcow2_cache_entry_flush: first what the cache depends on.               *)
EntryDependency ==
    LET c == Top.c IN
    /\ In("entry", "start") /\ entries[c][Top.i].dirty
    /\ \/ depends[c] # None /\ Calls(Call("dep", c, 0), "write")
       \/ depends[c] = None /\ depends_on_flush[c] /\ Goes("flush")
       \/ depends[c] = None /\ ~depends_on_flush[c] /\ Goes("write")
    /\ UNCHANGED <<disk, entries, depends, depends_on_flush, errors>>

EntryClean ==
    /\ In("entry", "start") /\ ~entries[Top.c][Top.i].dirty
    /\ Returns("ok")
    /\ UNCHANGED <<disk, entries, depends, depends_on_flush, errors>>

EntryFileFlush ==
    /\ In("entry", "flush")
    /\ \/ /\ Succeeds /\ FileFlush
          /\ depends_on_flush' = [depends_on_flush EXCEPT ![Top.c] = FALSE]
          /\ Goes("write")
       \/ /\ Fails /\ Returns("fail")
          /\ UNCHANGED <<disk, depends_on_flush>>
    /\ UNCHANGED <<entries, depends>>

EntryWrite ==
    /\ In("entry", "write")
    /\ \/ /\ rv = "ok" /\ Succeeds
          /\ LET e == entries[Top.c][Top.i] IN PWrite(e.offset, e.table)
          /\ entries' = [entries EXCEPT ![Top.c][Top.i].dirty = FALSE]
          /\ Returns("ok")
       \/ /\ \/ rv = "fail" /\ Succeeds
             \/ rv = "ok" /\ Fails
          /\ Returns("fail")
          /\ UNCHANGED <<disk, entries>>
    /\ UNCHANGED <<depends, depends_on_flush>>

(* qcow2_cache_flush: every entry, whether or not one fails, and then the  *)
(* file if none did.  st is the result so far.                             *)
FlushEntry ==
    /\ stack # <<>> /\ Top.fn = "flush" /\ Top.i <= Size[Top.c]
    /\ stack' = <<Call("entry", Top.c, Top.i),
                  [Top EXCEPT !.i = @ + 1, !.st = IF rv = "fail" THEN "fail" ELSE @]>>
                \o Tail(stack)
    /\ rv' = "ok"
    /\ UNCHANGED <<disk, entries, depends, depends_on_flush, errors>>

FlushEnd ==
    /\ stack # <<>> /\ Top.fn = "flush" /\ Top.i > Size[Top.c]
    /\ LET failed == rv = "fail" \/ Top.st = "fail" IN
       \/ ~failed /\ Succeeds /\ FileFlush /\ Returns("ok")
       \/ ~failed /\ Fails /\ Returns("fail") /\ UNCHANGED disk
       \/ failed /\ Succeeds /\ Returns("fail") /\ UNCHANGED disk
    /\ UNCHANGED <<entries, depends, depends_on_flush>>

Other(c) == CHOOSE d \in Caches : d # c

SetDependencyAtOnce ==                        \* mutant of SetDependency
    /\ In("set", "start")
    /\ depends' = [depends EXCEPT ![Top.c] = Other(Top.c)]
    /\ Returns("ok")
    /\ UNCHANGED <<disk, entries, depends_on_flush, errors>>

(* qcow2_cache_set_dependency of c on the other cache.                     *)
SetDependency ==
    LET d == Other(Top.c) IN
    \/ /\ In("set", "start") /\ depends[d] # None
       /\ Calls(Call("dep", d, 0), "set")
       /\ UNCHANGED <<disk, entries, depends, depends_on_flush, errors>>
    \/ /\ In("set", "start") /\ depends[d] = None
       /\ Goes("set")
       /\ UNCHANGED <<disk, entries, depends, depends_on_flush, errors>>
    \/ /\ In("set", "set")
       /\ depends' = IF rv = "ok" THEN [depends EXCEPT ![Top.c] = d] ELSE depends
       /\ Returns(rv)
       /\ UNCHANGED <<disk, entries, depends_on_flush, errors>>

(* qcow2_cache_get of offset o: the entry to replace is written back.      *)
Cached(c, o) == \E i \in 1 .. Size[c] : entries[c][i].offset = o
Slot(c, o) == CHOOSE i \in 1 .. Size[c] : entries[c][i].offset = o

Get ==
    LET c == Top.c
        o == Top.i
    IN  /\ \/ /\ In("get", "start") /\ Cached(c, o) /\ Returns("ok")
              /\ UNCHANGED <<entries, errors>>
           \/ /\ In("get", "start") /\ ~Cached(c, o)
              /\ \E i \in 1 .. Size[c] :
                     stack' = <<Call("entry", c, i), [Top EXCEPT !.st = "replace", !.slot = i]>>
                              \o Tail(stack)
              /\ rv' = "ok"
              /\ UNCHANGED <<entries, errors>>
           \/ /\ In("get", "replace") /\ rv = "fail" /\ Returns("fail")
              /\ UNCHANGED <<entries, errors>>
           \/ /\ In("get", "replace") /\ rv = "ok"
              /\ \/ /\ Succeeds /\ Returns("ok")
                    /\ entries' = [entries EXCEPT ![c][Top.slot] =
                                   [offset |-> o, dirty |-> FALSE, table |-> disk[o].cur]]
                 \/ /\ Fails /\ Returns("fail")
                    /\ entries' = [entries EXCEPT ![c][Top.slot] = Empty]
        /\ UNCHANGED <<disk, depends, depends_on_flush>>

CacheStep ==
    \/ FlushDependency \/ EntryDependency \/ EntryClean \/ EntryFileFlush \/ EntryWrite
    \/ FlushEntry \/ FlushEnd \/ SetDependency \/ Get

-----------------------------------------------------------------------------
(* What the caches and the disk hold together.                             *)
Table(c, o) == IF Cached(c, o) THEN entries[c][Slot(c, o)].table ELSE disk[o].cur

(* qcow2_cache_entry_mark_dirty, and the change of the table.              *)
Update(c, o, v) ==
    entries' = [entries EXCEPT ![c][Slot(c, o)] =
                    [offset |-> @.offset, dirty |-> TRUE, table |-> v]]

TablesOf(c) == IF c = "l2" THEN L2Tables ELSE RefBlocks

CacheTypeOK ==
    /\ depends \in [Caches -> Caches \cup {None}]
    /\ depends_on_flush \in [Caches -> BOOLEAN]
    /\ \A c \in Caches : \A i \in 1 .. Size[c] :
           entries[c][i].dirty \in BOOLEAN /\ entries[c][i].offset \in {0} \cup TablesOf(c)
    /\ rv \in {"ok", "fail"} /\ errors \in 0 .. MaxErrors

(* No cache depends on itself nor both on each other, so that the flush of *)
(* a dependency never comes to another one before it is done: the calls of *)
(* the cache end whatever the order of writes, discards and failures that  *)
(* made the dependencies.  And no table is cached twice.                   *)
CacheConsistent ==
    /\ CacheTypeOK
    /\ \A c \in Caches : depends[c] # c
    /\ \E c \in Caches : depends[c] = None
    /\ \A j, k \in 1 .. Len(stack) : stack[j].fn = "dep" /\ stack[k].fn = "dep" => j = k
    /\ \A c \in Caches : \A i, j \in 1 .. Size[c] :
           i # j /\ entries[c][i].offset # 0 => entries[c][i].offset # entries[c][j].offset

=============================================================================
