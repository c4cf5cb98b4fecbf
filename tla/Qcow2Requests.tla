--------------------------- MODULE Qcow2Requests ---------------------------
(***************************************************************************)
(* Requests to a qcow2 image (block/qcow2.c, block/qcow2-cluster.c,        *)
(* block/qcow2-refcount.c): writes that allocate a cluster, discards that  *)
(* free one, and flushes, on top of the metadata caches of Qcow2Cache.     *)
(* Each takes s->lock; a write gives it up while it writes its data and    *)
(* copies the rest of the cluster.  The power may fail at any I/O, and the *)
(* image is opened again with what the disk has kept.                      *)
(***************************************************************************)
EXTENDS Qcow2Cache, FiniteSetsExt

CONSTANTS Guest,        \* guest clusters
          L2Of(_),      \* the L2 table for a guest cluster
          RefOf(_),     \* the refcount block for a cluster of the image
          LazyRefcounts,\* whether lazy_refcounts may be on or off
          Requests,
          Writes,       \* which guest clusters are written, and whether as a whole
          MaxCrashes

NoLock == "unlocked"

ASSUME RequestsAssumption ==
    /\ MaxCrashes \in Nat /\ NoLock \notin Requests
    /\ IsFiniteSet(Guest) /\ 0 \notin Guest /\ IsFiniteSet(Requests)
    /\ \A g \in Guest : L2Of(g) \in L2Tables
    /\ \A h \in Clusters : RefOf(h) \in RefBlocks
    /\ LazyRefcounts \subseteq BOOLEAN
    /\ Writes \subseteq [g : Guest, whole : BOOLEAN]

VARIABLES req,                  \* requests and where they are
          lock,                 \* the request that holds s->lock
          free_cluster_index,
          use_lazy_refcounts,
          marked,               \* QCOW2_INCOMPAT_DIRTY
          crashes

imageVars == <<free_cluster_index, use_lazy_refcounts, marked, crashes>>
vars == <<cacheVars, req, lock, imageVars>>

(* What a table or a cluster holds when nothing is allocated.  Of an L2    *)
(* table only the entries of its own guest clusters are used.              *)
EmptyTable(o) ==
    IF o \in L2Tables THEN [g \in Guest |-> 0]
    ELSE IF o \in RefBlocks THEN [h \in {h \in Clusters : RefOf(h) = o} |-> 0]
    ELSE 0

(* whole: it writes all of its cluster, so that there is nothing to copy.  *)
Idle == [pc |-> "new", g |-> 0, h |-> 0, whole |-> FALSE, ok |-> TRUE]

Init ==
    /\ CacheInit([o \in Offsets |-> EmptyTable(o)])
    /\ req = [r \in Requests |-> Idle]
    /\ lock = NoLock
    /\ free_cluster_index = Min(Clusters)
    /\ use_lazy_refcounts \in LazyRefcounts /\ marked = FALSE
    /\ crashes = 0

-----------------------------------------------------------------------------
Active(r) == req[r].pc \notin {"new", "done"}
Holds(r, pc) == lock = r /\ stack = <<>> /\ req[r].pc = pc

(* A step of the request that holds the lock, which then calls f.          *)
Then(r, pc, f) ==
    /\ req' = [req EXCEPT ![r].pc = pc]
    /\ stack' = <<f>> /\ rv' = "ok"
Done(r, ok) ==
    /\ req' = [req EXCEPT ![r] = [@ EXCEPT !.pc = "done", !.ok = ok]]
    /\ lock' = NoLock

(* handle_dependencies: a write waits for the allocation of its cluster by *)
(* another; the guest does not write to what it discards.                  *)
Unused(g) == \A r \in Requests : Active(r) => req[r].g # g

(* A request takes the lock and asks for the L2 table.                     *)
Begin(r, pc, g, whole) ==
    /\ lock = NoLock /\ req[r].pc = "new" /\ Unused(g)
    /\ lock' = r
    /\ req' = [req EXCEPT ![r] = [Idle EXCEPT !.pc = pc, !.g = g, !.whole = whole]]
    /\ stack' = <<Call("get", "l2", L2Of(g))>> /\ rv' = "ok"
    /\ UNCHANGED <<disk, entries, depends, depends_on_flush, errors, imageVars>>

WriteStart(r) == \E w \in Writes : Begin(r, "table", w.g, w.whole)

(* Looks at the refcount of h.  The image does not grow beyond Clusters.   *)
Scan(r, h) ==
    IF h \in Clusters
    THEN Then(r, "scan", Call("get", "rc", RefOf(h))) /\ UNCHANGED lock
    ELSE Done(r, FALSE) /\ UNCHANGED <<stack, rv>>

(* handle_copied and handle_alloc: a cluster that is there is used.  (Not  *)
(* modelled: the copy of one that a repair has found to be used twice.)    *)
WriteTable(r) ==
    LET g == req[r].g IN
    /\ Holds(r, "table")
    /\ IF rv = "fail" \/ Table("l2", L2Of(g))[g] # 0
       THEN Done(r, rv = "ok") /\ UNCHANGED <<stack, rv>>
       ELSE Scan(r, free_cluster_index)
    /\ UNCHANGED <<disk, entries, depends, depends_on_flush, errors, imageVars>>

InUseNever(h) == FALSE                        \* mutant of InUse
InUse(h) == Table("rc", RefOf(h))[h] # 0      \* get_refcount

(* alloc_clusters_noref, and update_refcount by 1: the refcount block has  *)
(* just been loaded.                                                       *)
WriteAlloc(r) ==
    LET h == free_cluster_index
        counts == Table("rc", RefOf(h))
    IN  /\ Holds(r, "scan")
        /\ free_cluster_index' = h + 1
        /\ \/ /\ rv = "fail"
              /\ Done(r, FALSE) /\ UNCHANGED <<stack, rv, entries>>
           \/ /\ rv = "ok" /\ InUse(h)
              /\ Scan(r, h + 1) /\ UNCHANGED entries
           \/ /\ rv = "ok" /\ ~InUse(h)
              /\ Update("rc", RefOf(h), [counts EXCEPT ![h] = 1])
              /\ req' = [req EXCEPT ![r] = [@ EXCEPT !.pc = "data", !.h = h]]
              /\ lock' = NoLock
              /\ UNCHANGED <<stack, rv>>
        /\ UNCHANGED <<disk, depends, depends_on_flush, errors,
                       use_lazy_refcounts, marked, crashes>>

(* The data and, by perform_cow, the rest of the cluster if there is one.  *)
WriteData(r) ==
    /\ req[r].pc = "data"
    /\ \/ /\ Succeeds /\ PWrite(req[r].h, req[r].g)
          /\ req' = [req EXCEPT ![r].pc = "copied"]
       \/ /\ Fails
          /\ req' = [req EXCEPT ![r] = [@ EXCEPT !.pc = "done", !.ok = FALSE]]
          /\ UNCHANGED disk
    /\ UNCHANGED <<entries, depends, depends_on_flush, stack, rv, lock, imageVars>>

(* qcow2_mark_dirty.                                                       *)
MarkDirty ==
    IF use_lazy_refcounts /\ ~marked
    THEN \/ Succeeds /\ FileFlush /\ marked' = TRUE
         \/ Fails /\ UNCHANGED <<disk, marked>>
    ELSE UNCHANGED <<disk, errors, marked>>

LinkNoFlush(r) == UNCHANGED depends_on_flush  \* mutant of CowDone

(* What perform_cow leaves behind: if it had anything to copy, the L2      *)
(* tables depend on a flush of the file.                                   *)
CowDone(r) ==
    depends_on_flush' = [depends_on_flush EXCEPT !["l2"] = @ \/ ~req[r].whole]

(* qcow2_alloc_cluster_link_l2: the dependencies first, on the refcounts   *)
(* unless the image is marked.  That qcow2_cache_set_dependency failed     *)
(* goes unnoticed.                                                         *)
WriteCopied(r) ==
    /\ lock = NoLock /\ req[r].pc = "copied"
    /\ lock' = r
    /\ CowDone(r)
    /\ MarkDirty
    /\ IF marked' THEN req' = [req EXCEPT ![r].pc = "link"] /\ UNCHANGED <<stack, rv>>
       ELSE Then(r, "link", Call("set", "l2", 0))
    /\ UNCHANGED <<entries, depends, free_cluster_index, use_lazy_refcounts, crashes>>

WriteLink(r) ==
    /\ Holds(r, "link")
    /\ Then(r, "update", Call("get", "l2", L2Of(req[r].g)))
    /\ UNCHANGED <<disk, entries, depends, depends_on_flush, errors, lock, imageVars>>

WriteUpdate(r) ==
    LET o == L2Of(req[r].g) IN
    /\ Holds(r, "update")
    /\ IF rv = "fail" THEN UNCHANGED entries
       ELSE Update("l2", o, [Table("l2", o) EXCEPT ![req[r].g] = req[r].h])
    /\ Done(r, rv = "ok")
    /\ UNCHANGED <<disk, depends, depends_on_flush, stack, rv, errors, imageVars>>

-----------------------------------------------------------------------------
DiscardStart(r) == \E g \in Guest : Begin(r, "clear", g, FALSE)

(* discard_single_l2 removes the L2 entry; update_refcount by -1 makes the *)
(* refcount blocks depend on the L2 tables, and does not look at failure.  *)
DiscardClear(r) ==
    LET g == req[r].g
        o == L2Of(g)
    IN  /\ Holds(r, "clear")
        /\ IF rv = "fail" \/ Table("l2", o)[g] = 0
           THEN Done(r, rv = "ok") /\ UNCHANGED <<stack, rv, entries>>
           ELSE /\ Update("l2", o, [Table("l2", o) EXCEPT ![g] = 0])
                /\ req' = [req EXCEPT ![r] = [@ EXCEPT !.pc = "free",
                                                     !.h = Table("l2", o)[g]]]
                /\ stack' = <<Call("set", "rc", 0)>> /\ rv' = "ok"
                /\ UNCHANGED lock
        /\ UNCHANGED <<disk, depends, depends_on_flush, errors, imageVars>>

DiscardFree(r) ==
    /\ Holds(r, "free")
    /\ Then(r, "count", Call("get", "rc", RefOf(req[r].h)))
    /\ UNCHANGED <<disk, entries, depends, depends_on_flush, errors, lock, imageVars>>

(* A failure here leaks the cluster.                                       *)
DiscardCount(r) ==
    LET h == req[r].h
        counts == Table("rc", RefOf(h))
    IN  /\ Holds(r, "count")
        /\ IF rv = "fail" THEN UNCHANGED <<entries, free_cluster_index>>
           ELSE /\ Update("rc", RefOf(h), [counts EXCEPT ![h] = IF @ = 0 THEN 0 ELSE @ - 1])
                /\ free_cluster_index' =
                       IF counts[h] = 1 /\ h < free_cluster_index THEN h ELSE free_cluster_index
        /\ Done(r, TRUE)
        /\ UNCHANGED <<disk, depends, depends_on_flush, stack, rv, errors,
                       use_lazy_refcounts, marked, crashes>>

-----------------------------------------------------------------------------
(* qcow2_co_flush_to_os.                                                   *)
FlushStart(r) ==
    /\ lock = NoLock /\ req[r].pc = "new"
    /\ lock' = r
    /\ Then(r, "tables", Call("flush", "l2", 1))
    /\ UNCHANGED <<disk, entries, depends, depends_on_flush, errors, imageVars>>

FlushTablesOnly(r) ==                         \* mutant of FlushCounts
    /\ Holds(r, "tables")
    /\ Done(r, rv = "ok") /\ UNCHANGED <<stack, rv>>
    /\ UNCHANGED <<disk, entries, depends, depends_on_flush, errors, imageVars>>

FlushCounts(r) ==
    /\ Holds(r, "tables")
    /\ IF rv = "fail" \/ marked THEN Done(r, rv = "ok") /\ UNCHANGED <<stack, rv>>
       ELSE Then(r, "counts", Call("flush", "rc", 1)) /\ UNCHANGED lock
    /\ UNCHANGED <<disk, entries, depends, depends_on_flush, errors, imageVars>>

FlushReturns(r) ==
    /\ Holds(r, "counts")
    /\ Done(r, rv = "ok")
    /\ UNCHANGED <<disk, entries, depends, depends_on_flush, stack, rv, errors,
                   imageVars>>

-----------------------------------------------------------------------------
(* What a power failure may leave at the offsets S.                        *)
Kept(S) == {f \in [S -> UNION {disk[o].may : o \in S}] : \A o \in S : f[o] \in disk[o].may}

(* qcow2_open repairs an image that is marked: the counts are those of the *)
(* references.                                                             *)
Repaired(l) ==
    [o \in RefBlocks |->
        [h \in DOMAIN EmptyTable(o) |-> Cardinality({g \in Guest : l[L2Of(g)][g] = h})]]

(* The power fails and the image is opened again.                          *)
Crash ==
    /\ crashes < MaxCrashes
    /\ crashes' = crashes + 1
    /\ \E l \in Kept(L2Tables), c \in Kept(RefBlocks), d \in Kept(Clusters) :
           disk' = [o \in Offsets |->
                        LET v == IF o \in L2Tables THEN l[o]
                                 ELSE IF o \in Clusters THEN d[o]
                                 ELSE IF marked THEN Repaired(l)[o] ELSE c[o]
                        IN  [cur |-> v, may |-> {v}]]
    /\ entries' = [c \in Caches |-> [i \in 1 .. Size[c] |-> Empty]]
    /\ depends' = [c \in Caches |-> None]
    /\ depends_on_flush' = [c \in Caches |-> FALSE]
    /\ stack' = <<>> /\ rv' = "ok"
    /\ req' = [r \in Requests |-> IF Active(r) THEN [req[r] EXCEPT !.pc = "done", !.ok = FALSE]
                                  ELSE req[r]]
    /\ lock' = NoLock
    /\ free_cluster_index' = Min(Clusters)
    /\ marked' = FALSE
    /\ UNCHANGED <<errors, use_lazy_refcounts>>

Cache == CacheStep /\ UNCHANGED <<req, lock, imageVars>>

Progress ==
    \/ Cache
    \/ \E r \in Requests :
           \/ WriteTable(r) \/ WriteAlloc(r) \/ WriteData(r) \/ WriteCopied(r) \/ WriteLink(r)
           \/ WriteUpdate(r) \/ DiscardClear(r) \/ DiscardFree(r) \/ DiscardCount(r)
           \/ FlushCounts(r) \/ FlushReturns(r)

Next ==
    \/ Progress \/ Crash
    \/ \E r \in Requests : WriteStart(r) \/ DiscardStart(r) \/ FlushStart(r)

Spec == Init /\ [][Next]_vars

-----------------------------------------------------------------------------
(* Whatever a power failure keeps of the writes not yet flushed, no        *)
(* cluster has fewer references counted than the L2 tables on the disk     *)
(* have to it: the counts are raised before, and lowered after, the tables *)
(* ("we need to be sure that the refcounts have been increased").  An      *)
(* image that is marked will be repaired.                                  *)
RefcountsFirst ==
    ~marked => \A h \in Clusters : \A l \in Kept(L2Tables), v \in disk[RefOf(h)].may :
        Cardinality({g \in Guest : l[L2Of(g)][g] = h}) <= v[h]

(* It is so as long as no I/O has failed: update_refcount and              *)
(* qcow2_alloc_cluster_link_l2 ignore that a dependency could not be       *)
(* recorded.                                                               *)
CrashSafe == errors = 0 => RefcountsFirst

(* A cluster that an L2 table on the disk gives to a guest cluster has     *)
(* been written ("and COW was handled"), whatever a power failure keeps,   *)
(* if writes of a part of it have been given the cluster.  For one that    *)
(* writes all of it perform_cow has nothing to wait for: then it is so by  *)
(* the dependency on the refcounts, without lazy refcounts and failures.   *)
(* And if it has not been discarded since, it holds what was written for   *)
(* that guest cluster, and nothing else: without lazy refcounts, failures  *)
(* and crashes.  (With them what has been discarded may be mapped again on *)
(* the disk after its cluster was given to another.)                       *)
CowSafe ==
    \A g \in Guest, h \in Clusters :
        (\E v \in disk[L2Of(g)].may : v[g] = h) =>
            /\ \/ \A r \in Requests : req[r].h = h => ~req[r].whole
               \/ ~use_lazy_refcounts /\ errors = 0
               => 0 \notin disk[h].may
            /\ (/\ ~use_lazy_refcounts /\ errors = 0 /\ crashes = 0
                /\ Table("l2", L2Of(g))[g] = h) => disk[h].may = {g}

Users(h) ==
    Cardinality({g \in Guest : Table("l2", L2Of(g))[g] = h})
    + Cardinality({r \in Requests : Active(r) /\ req[r].h = h})

(* The counts are at least the uses of a cluster, by guest clusters and by *)
(* requests on their way, after I/O errors or after a crash (after both a  *)
(* count may be lost: see CrashSafe); without either they are the uses, so *)
(* that nothing leaks.  And no cluster is in use twice, unless a marked    *)
(* image had to be repaired.                                               *)
ClustersOwned ==
    \A h \in Clusters :
        LET count == Table("rc", RefOf(h))[h] IN
        /\ errors = 0 \/ crashes = 0 => Users(h) <= count
        /\ errors = 0 /\ crashes = 0 => Users(h) = count
        /\ crashes = 0 \/ (errors = 0 /\ ~use_lazy_refcounts) => Users(h) <= 1

(* When a flush reports success, every table is on the disk as the caches  *)
(* have it, for good; the counts too, unless the image is marked.          *)
FlushDurable ==
    [][\A r \in Requests :
           req[r].pc \in {"tables", "counts"} /\ req'[r].pc = "done" /\ req'[r].ok =>
               /\ \A o \in L2Tables : disk'[o].may = {Table("l2", o)'}
               /\ marked \/ \A o \in RefBlocks : disk'[o].may = {Table("rc", o)'}]_vars

=============================================================================
