------------------------------- MODULE Mirror -------------------------------
(***************************************************************************)
(* The mirror block job (block/mirror.c) with the life cycle of block jobs *)
(* (blockjob.c) and the dirty bitmap of the source (block.c), against a    *)
(* guest that goes on writing, I/O errors, and the user's pause, resume,   *)
(* cancel and complete.                                                    *)
(*                                                                         *)
(* The job is a coroutine.  While run is TRUE it has the control and       *)
(* nothing else happens; it runs until it yields, at the place that pc     *)
(* names, and goes on when it is entered again.  A chunk is the            *)
(* granularity of the dirty bitmap.                                        *)
(***************************************************************************)
EXTENDS Integers, FiniteSets, FiniteSetsExt

CONSTANTS N,             \* chunks of the source
          WordChunks,    \* chunks of one word of the bitmap
          Cluster,       \* chunks of a cluster of the target
          Cow,           \* has the target a backing file not opened yet?
          Buffers,       \* chunks that fit in s->buf
          MaxInFlight,   \* MAX_IN_FLIGHT
          Writes,        \* guest writes, numbered
          MaxErrors,     \* I/O errors of source and target
          OnErrors,      \* what on_source_error and on_target_error may be
          MaxDiscards,   \* guest discards of a part of a chunk
          Partial        \* is the last chunk smaller than the others?

ASSUME MirrorAssumption ==
    /\ N \in Nat \ {0} /\ WordChunks \in Nat \ {0} /\ Cluster \in Nat \ {0}
    /\ Cow \in BOOLEAN /\ MaxDiscards \in Nat /\ Partial \in BOOLEAN
    /\ Buffers \in Nat /\ Buffers >= Cluster       \* MAX(s->buf_size, bdi.cluster_size)
    /\ MaxInFlight \in Nat \ {0} /\ MaxErrors \in Nat
    /\ Writes \subseteq Nat /\ IsFiniteSet(Writes) /\ \A w \in Writes : w >= 2
    /\ OnErrors \subseteq {"report", "ignore", "stop"}

Chunks == 0 .. N - 1
None == -1                     \* hbitmap_iter_next at the end; no chunk

(* Contents of a chunk: 0 is that of the backing file, 1 what the source   *)
(* held when the job started, others the number of a write; Hole is what a *)
(* new cluster of the target has where nothing was written.                *)
Hole == -1
Contents == {Hole, 0, 1} \cup Writes

VARIABLES source, target, dirty,
          backed,        \* chunks of the target that are in allocated clusters
          iter,          \* s->hbi: bits left in the word, later words
          ops,           \* MirrorOps
          in_flight_bitmap, cow_bitmap,
          pc, run, timer, chunk, scanned, ret,
          synced, should_complete, s_ret,    \* of MirrorBlockJob (s_ret: ret)
          cancelled, paused, failed,         \* of BlockJob (failed: iostatus)
          worked,        \* has the slice been used since the last pause?
          guest,         \* state of each guest write
          on_error, errors, discards, swapped

disks == <<source, target, backed>>
marks == <<dirty, iter>>
bitmaps == <<in_flight_bitmap, cow_bitmap>>
place == <<pc, run, timer>>
progress == <<chunk, scanned, worked>>
state == <<synced, should_complete, ret, s_ret, swapped>>
asked == <<cancelled, paused, failed>>
world == <<guest, on_error, errors, discards>>
vars == <<disks, marks, ops, bitmaps, place, progress, state, asked, world>>

Yields == {"scan", "wait", "in_flight", "buf_busy", "flush", "drain", "sleep",
           "synced_sleep", "exit"}
Places == Yields \cup {"loop", "iterate", "done", "abort"}
Op == [lo : Chunks, hi : Chunks, st : {"read", "write"}, data : [Chunks -> Contents]]

TypeOK ==
    /\ source \in [Chunks -> Contents] /\ target \in [Chunks -> Contents]
    /\ dirty \subseteq Chunks /\ backed \subseteq Chunks
    /\ in_flight_bitmap \subseteq Chunks /\ cow_bitmap \subseteq Chunks
    /\ iter.cur \subseteq Chunks /\ iter.words \subseteq Nat
    /\ \A op \in ops : op \in Op
    /\ pc \in Places /\ run \in BOOLEAN /\ timer \in BOOLEAN
    /\ chunk \in Chunks \cup {None} /\ scanned \in 0 .. N
    /\ synced \in BOOLEAN /\ should_complete \in BOOLEAN /\ cancelled \in BOOLEAN
    /\ paused \in BOOLEAN /\ failed \in BOOLEAN /\ worked \in BOOLEAN
    /\ ret \in {"ok", "error"} /\ s_ret \in {"ok", "error"} /\ swapped \in BOOLEAN
    /\ guest \in [Writes -> [st : {"new", "submitted", "landed", "done"},
                             at : Chunks \cup {None}]]
    /\ on_error \in OnErrors /\ errors \in 0 .. MaxErrors
    /\ discards \in 0 .. MaxDiscards

(* The chunks that are allocated above the base differ from the target.    *)
Init ==
    /\ \E allocated \in SUBSET Chunks :
           source = [c \in Chunks |-> IF c \in allocated THEN 1 ELSE 0]
    /\ target = [c \in Chunks |-> 0] /\ backed = {}
    /\ dirty = {} /\ iter = [cur |-> {}, words |-> {}]
    /\ ops = {} /\ in_flight_bitmap = {} /\ cow_bitmap = {}
    /\ pc = "scan" /\ run = FALSE /\ timer = FALSE
    /\ chunk = None /\ scanned = 0 /\ worked = FALSE
    /\ synced = FALSE /\ should_complete = FALSE /\ ret = "ok" /\ s_ret = "ok"
    /\ cancelled = FALSE /\ paused = FALSE /\ failed = FALSE /\ swapped = FALSE
    /\ guest = [w \in Writes |-> [st |-> "new", at |-> None]]
    /\ on_error \in OnErrors /\ errors = 0 /\ discards = 0

-----------------------------------------------------------------------------
(* The iterator of the dirty bitmap holds a copy of the word it is in, and *)
(* of which later words were not zero.                                     *)
Word(k) == {c \in Chunks : c \div WordChunks = k}

IterInit ==
    [cur |-> dirty \cap Word(0),
     words |-> {k \in 1 .. N : dirty \cap Word(k) # {}}]

(* hbitmap_iter_next: what it returns, and the iterator after that.  A     *)
(* word that has become zero is an assertion failure.                      *)
IterWord(it) == IF it.cur # {} THEN it.cur
                ELSE IF it.words # {} THEN dirty \cap Word(Min(it.words)) ELSE {}
IterNext(it) == IF IterWord(it) = {} THEN None ELSE Min(IterWord(it))
IterRest(it) ==
    [cur |-> IterWord(it) \ {IterNext(it)},
     words |-> IF it.cur = {} /\ it.words # {} THEN it.words \ {Min(it.words)} ELSE it.words]
IterAborts(it) == it.cur = {} /\ it.words # {} /\ dirty \cap Word(Min(it.words)) = {}

BufFree == Buffers - MapThenSumSet(LAMBDA op : 1 + op.hi - op.lo, ops)
    \* s->buf_free_count

-----------------------------------------------------------------------------
(* mirror_run up to the next yield.                                        *)
Goto(p) == pc' = p /\ run' = TRUE /\ timer' = FALSE
Yield(p) == pc' = p /\ run' = FALSE /\ timer' = FALSE

(* The first part: the bitmap is initialised; the driver may yield.        *)
Scan ==
    /\ pc = "scan" /\ ~run
    /\ IF scanned < N
       THEN /\ dirty' = IF source[scanned] # 0 THEN dirty \cup {scanned} ELSE dirty
            /\ scanned' = scanned + 1
            /\ UNCHANGED <<iter, place>>
       ELSE /\ iter' = IterInit
            /\ Goto("loop")
            /\ UNCHANGED <<dirty, scanned>>
    /\ UNCHANGED <<disks, ops, bitmaps, chunk, worked, state, asked, world>>

ScanFails ==
    /\ pc = "scan" /\ ~run /\ errors < MaxErrors
    /\ errors' = errors + 1 /\ ret' = "error"
    /\ Goto("exit")
    /\ UNCHANGED <<disks, marks, ops, bitmaps, progress, synced,
                   should_complete, s_ret, swapped, asked, guest, on_error, discards>>

(* block_job_sleep_ns at p: no sleep once the job is cancelled, no timer   *)
(* when it is paused.  worked: last_pause_ns is taken anew.                *)
Sleep(p) ==
    /\ pc' = p /\ run' = cancelled /\ timer' = (~cancelled /\ ~paused)

(* What mirror_run does after it has counted or drained: complete is its   *)
(* local should_complete, sync the value of synced.                        *)
Settle(complete, sync) ==
    /\ IF ~sync THEN Sleep("sleep") /\ UNCHANGED cancelled
       ELSE IF ~complete THEN Sleep("synced_sleep") /\ UNCHANGED cancelled
       ELSE IF dirty = {} THEN Goto("exit") /\ cancelled' = FALSE
       ELSE Goto("loop") /\ UNCHANGED cancelled
    /\ worked' = FALSE

(* The slice ends at any time once it has been used.                       *)
Loop ==
    /\ pc = "loop" /\ run
    /\ \/ /\ s_ret = "error"
          /\ ret' = "error"
          /\ Goto("exit")
          /\ UNCHANGED <<worked, cancelled>>
       \/ /\ s_ret = "ok" /\ UNCHANGED ret
          /\ \E expired \in {FALSE, worked} :
             LET copying == ~expired /\ ~failed
                 full == Cardinality(ops) = MaxInFlight \/ BufFree = 0
             IN  \/ /\ copying /\ (full \/ (dirty = {} /\ ops # {}))
                    /\ Yield("wait") /\ worked' = TRUE
                    /\ UNCHANGED cancelled
                 \/ /\ copying /\ ~full /\ dirty # {}
                    /\ Goto("iterate") /\ worked' = TRUE
                    /\ UNCHANGED cancelled
                 \/ /\ dirty = {} /\ ops = {}
                    /\ Yield("flush")
                    /\ UNCHANGED <<worked, cancelled>>
                 \/ /\ ~copying /\ (dirty # {} \/ ops # {})
                    /\ Settle(FALSE, synced)
    /\ UNCHANGED <<disks, marks, ops, bitmaps, chunk, scanned, synced,
                   should_complete, s_ret, swapped, paused, failed, world>>

(* block_job_error_action.                                                 *)
ErrorAction ==
    /\ paused' = (paused \/ on_error = "stop")
    /\ failed' = (failed \/ on_error = "stop")

FlushSkipsDrain ==                            \* mutant of FlushDone
    /\ pc = "flush" /\ ~run
    /\ synced' = TRUE
    /\ Settle(should_complete \/ cancelled, TRUE)
    /\ UNCHANGED <<disks, marks, ops, bitmaps, chunk, scanned,
                   should_complete, ret, s_ret, swapped, paused, failed,
                   world>>

(* bdrv_flush of the target returns; the job is ready.                     *)
FlushDone ==
    /\ pc = "flush" /\ ~run
    /\ synced' = TRUE
    /\ IF dirty = {} /\ (should_complete \/ cancelled)
       THEN Yield("drain") /\ UNCHANGED <<worked, cancelled>>
       ELSE Settle(should_complete \/ cancelled, TRUE)
    /\ UNCHANGED <<disks, marks, ops, bitmaps, chunk, scanned,
                   should_complete, ret, s_ret, swapped, paused, failed,
                   world>>

FlushFails ==
    /\ pc = "flush" /\ ~run /\ errors < MaxErrors
    /\ errors' = errors + 1
    /\ synced' = FALSE
    /\ ErrorAction
    /\ IF on_error = "report"
       THEN ret' = "error" /\ Goto("exit") /\ UNCHANGED <<worked, cancelled>>
       ELSE /\ pc' = "sleep" /\ run' = cancelled /\ timer' = (~cancelled /\ ~paused')
            /\ worked' = FALSE
            /\ UNCHANGED <<ret, cancelled>>
    /\ UNCHANGED <<disks, marks, ops, bitmaps, chunk, scanned,
                   should_complete, s_ret, swapped, guest, on_error, discards>>

(* bdrv_drain_all returns when no guest write is left.                     *)
DrainDone ==
    /\ pc = "drain" /\ ~run
    /\ \A w \in Writes : guest[w].st \in {"new", "done"}
    /\ Settle(TRUE, synced)
    /\ UNCHANGED <<disks, marks, ops, bitmaps, chunk, scanned, state, paused,
                   failed, world>>

(* The job goes on after a sleep.                                          *)
Wakes ==
    /\ pc \in {"sleep", "synced_sleep", "wait"} /\ run
    /\ Goto(IF pc = "sleep" /\ cancelled THEN "exit" ELSE "loop")
    /\ UNCHANGED <<disks, marks, ops, bitmaps, progress, state, asked, world>>

TimerFires ==
    /\ pc \in {"sleep", "synced_sleep"} /\ ~run /\ timer
    /\ run' = TRUE /\ timer' = FALSE
    /\ UNCHANGED <<disks, marks, ops, bitmaps, pc, progress, state, asked,
                   world>>

-----------------------------------------------------------------------------
(* mirror_iteration.  An assertion that fails ends the program: the job    *)
(* keeps the control for ever.                                             *)
Abort == Goto("abort") /\ UNCHANGED <<marks, ops, in_flight_bitmap, chunk>>

(* Takes the next dirty chunk, from the start if the iterator is at the    *)
(* end, and waits until an operation on it from before is done.            *)
Iterate ==
    /\ pc = "iterate" /\ run
    /\ \E it \in {IF IterNext(iter) = None THEN IterInit ELSE iter} :
       IF IterAborts(iter) \/ IterNext(it) = None THEN Abort
       ELSE /\ chunk' = IterNext(it) /\ iter' = IterRest(it)
            /\ Goto("in_flight")
            /\ UNCHANGED <<dirty, ops, in_flight_bitmap>>
    /\ UNCHANGED <<disks, cow_bitmap, scanned, worked, state, asked, world>>

(* bdrv_round_to_clusters for a chunk that is copied for the first time.   *)
Rounded(c) ==
    IF Cow /\ c \notin cow_bitmap
    THEN LET lo == (c \div Cluster) * Cluster IN lo .. Min({lo + Cluster, N}) - 1
    ELSE c .. c

(* The first block of the operation, and the blocks added to it while the  *)
(* next chunk is dirty, nobody copies it and there are buffers.            *)
Free(c) == c \in dirty \ in_flight_bitmap

RECURSIVE Extended(_)
Extended(S) ==
    LET next == Max(S) + 1 IN
    IF next < N /\ Free(next)
           /\ Cardinality(S) + Cardinality(Rounded(next)) <= BufFree
    THEN Extended(S \cup Rounded(next)) ELSE S

(* The iterator is advanced in parallel, once for each dirty chunk beyond  *)
(* what it has returned.  at: hbitmap_next_sector.                         *)
AdvancesNever(S) == iter                      \* mutant of Advanced
RECURSIVE Advance(_, _, _)
Advance(it, at, rest) ==
    IF rest = {} THEN it
    ELSE LET c == Min(rest) IN
         IF c > at /\ c \in dirty
         THEN Advance(IterRest(it), IterNext(it), rest \ {c})
         ELSE Advance(it, at, rest \ {c})
Advanced(S) == Advance(iter, chunk, S)

Unread == [c \in Chunks |-> 0]

NobodyWaits == FALSE                          \* mutant of MustWait
MustWait == pc = "in_flight" /\ chunk \in in_flight_bitmap

(* From the wait for chunk on.  buf_busy: there is no room for the first   *)
(* block yet.                                                              *)
Copy ==
    /\ pc \in {"in_flight", "buf_busy"} /\ run
    /\ IF MustWait
       THEN Yield("in_flight") /\ UNCHANGED <<marks, ops, in_flight_bitmap,
                                              chunk>>
       ELSE IF pc = "in_flight" /\ chunk \notin dirty THEN Abort
       ELSE IF BufFree < Cardinality(Rounded(chunk))
       THEN Yield("buf_busy") /\ UNCHANGED <<marks, ops, in_flight_bitmap,
                                             chunk>>
       ELSE \E S \in {Extended(Rounded(chunk))} :
            /\ iter' = Advanced(S)
            /\ dirty' = dirty \ S
            /\ in_flight_bitmap' = in_flight_bitmap \cup S
            /\ ops' = ops \cup {[lo |-> Min(S), hi |-> Max(S), st |-> "read", data |-> Unread]}
            /\ chunk' = None
            /\ Goto("loop")
    /\ UNCHANGED <<disks, cow_bitmap, scanned, worked, state, asked, world>>

-----------------------------------------------------------------------------
(* Completion of the job's I/O.                                            *)

(* op->nb_sectors / sectors_per_chunk rounds down.                         *)
WholeChunks(op) == op.lo .. (IF Partial /\ op.hi = N - 1 THEN op.hi - 1 ELSE op.hi)

(* mirror_iteration_done frees the operation and enters the coroutine,     *)
(* wherever it has yielded.                                                *)
IterationDone(op, ok) ==
    /\ ops' = ops \ {op}
    /\ in_flight_bitmap' = in_flight_bitmap \ WholeChunks(op)
    /\ cow_bitmap' = IF Cow /\ ok THEN cow_bitmap \cup WholeChunks(op) ELSE cow_bitmap
    /\ run' = TRUE /\ timer' = FALSE

(* The source has been read; the write to the target starts.               *)
ReadDone(op) ==
    /\ ~run /\ op.st = "read"
    /\ ops' = (ops \ {op}) \cup
              {[op EXCEPT !.st = "write",
                          !.data = [c \in Chunks |->
                                        IF c \in op.lo .. op.hi THEN source[c] ELSE 0]]}
    /\ UNCHANGED <<disks, marks, bitmaps, place, progress, state, asked,
                   world>>

(* Chunks that the target allocates for S beside S, when it cannot read    *)
(* them from its backing file.                                             *)
Besides(S) ==
    IF ~Cow THEN {}
    ELSE {c \in Chunks \ (S \cup backed) : \E d \in S : c \div Cluster = d \div Cluster}

WriteDone(op) ==
    /\ ~run /\ op.st = "write"
    /\ LET S == op.lo .. op.hi IN
       /\ target' = [c \in Chunks |-> IF c \in S THEN op.data[c]
                                      ELSE IF c \in Besides(S) THEN Hole ELSE target[c]]
       /\ backed' = backed \cup S \cup Besides(S)
    /\ IterationDone(op, TRUE)
    /\ UNCHANGED <<source, marks, pc, progress, state, asked, world>>

SetDirtyAgain(op) == dirty \cup (op.lo .. op.hi)

(* A read or write fails: the chunks are dirty again.                      *)
OpFails(op) ==
    /\ ~run /\ errors < MaxErrors
    /\ errors' = errors + 1
    /\ dirty' = SetDirtyAgain(op)
    /\ synced' = FALSE
    /\ ErrorAction
    /\ s_ret' = IF on_error = "report" THEN "error" ELSE s_ret
    /\ IterationDone(op, FALSE)
    /\ UNCHANGED <<disks, iter, pc, progress, should_complete, ret, swapped,
                   cancelled, guest, on_error, discards>>

-----------------------------------------------------------------------------
(* The end of mirror_run waits for what is in flight.                      *)
ExitWaits ==
    /\ pc = "exit" /\ run /\ ops # {}
    /\ IF ret = "error" \/ (~synced /\ cancelled) THEN Yield("exit") ELSE Goto("abort")
    /\ UNCHANGED <<disks, marks, ops, bitmaps, progress, state, asked, world>>

Exit ==
    /\ pc = "exit" /\ run /\ ops = {}
    /\ swapped' = (should_complete /\ ret = "ok")
    /\ Yield("done")
    /\ UNCHANGED <<disks, marks, ops, bitmaps, progress, synced,
                   should_complete, ret, s_ret, asked, world>>

-----------------------------------------------------------------------------
(* The user, when neither the job nor bdrv_drain_all runs.                 *)
Busy == pc \notin {"sleep", "synced_sleep"}            \* job->busy
Commands == ~run /\ pc \notin {"drain", "done"}

(* block_job_resume enters a job that is not busy.                         *)
EnteredNever == UNCHANGED <<run, timer>>      \* mutant of Entered
Entered == run' = ~Busy /\ timer' = (timer /\ Busy)

Pause ==
    /\ Commands /\ ~paused
    /\ paused' = TRUE
    /\ UNCHANGED <<disks, marks, ops, bitmaps, place, progress, state,
                   cancelled, failed, world>>

Resume ==
    /\ Commands
    /\ paused' = FALSE /\ failed' = FALSE
    /\ Entered
    /\ UNCHANGED <<disks, marks, ops, bitmaps, pc, progress, state,
                   cancelled, world>>

Cancel ==
    /\ Commands /\ ~cancelled
    /\ cancelled' = TRUE
    /\ paused' = FALSE /\ failed' = FALSE
    /\ Entered
    /\ UNCHANGED <<disks, marks, ops, bitmaps, pc, progress, state, world>>

(* mirror_complete; that the backing file cannot be opened changes nothing. *)
Complete ==
    /\ Commands /\ ~paused /\ ~cancelled /\ synced
    /\ should_complete' = TRUE
    /\ paused' = FALSE /\ failed' = FALSE
    /\ Entered
    /\ UNCHANGED <<disks, marks, ops, bitmaps, pc, progress, synced, ret,
                   s_ret, swapped, cancelled, world>>

-----------------------------------------------------------------------------
(* The guest.  It cannot submit while bdrv_drain_all has the control.      *)
Submit(w, c) ==
    /\ Commands /\ guest[w].st = "new"
    /\ guest' = [guest EXCEPT ![w] = [st |-> "submitted", at |-> c]]
    /\ UNCHANGED <<disks, marks, ops, bitmaps, place, progress, state, asked,
                   on_error, errors, discards>>

Land(w) ==
    /\ ~run /\ pc # "done" /\ guest[w].st = "submitted"
    /\ source' = [source EXCEPT ![guest[w].at] = w]
    /\ guest' = [guest EXCEPT ![w].st = "landed"]
    /\ UNCHANGED <<target, backed, marks, ops, bitmaps, place, progress,
                   state, asked, on_error, errors, discards>>

(* bdrv_aligned_pwritev marks what it has written, with or without error.  *)
WriteCompletes(w) ==
    /\ ~run /\ pc # "done" /\ guest[w].st = "landed"
    /\ dirty' = dirty \cup {guest[w].at}
    /\ guest' = [guest EXCEPT ![w].st = "done"]
    /\ UNCHANGED <<disks, iter, ops, bitmaps, place, progress, state, asked,
                   on_error, errors, discards>>

(* bdrv_co_discard of some sectors of c.                                   *)
DiscardPart(c) ==
    /\ discards < MaxDiscards /\ Commands /\ c \in dirty
    /\ discards' = discards + 1
    /\ dirty' = dirty \ {c}
    /\ UNCHANGED <<disks, iter, ops, bitmaps, place, progress, state, asked,
                   guest, on_error, errors>>

-----------------------------------------------------------------------------
Job == Scan \/ Loop \/ FlushDone \/ DrainDone \/ Wakes \/ TimerFires \/ Iterate \/ Copy
       \/ ExitWaits \/ Exit
Io == (\E op \in ops : ReadDone(op) \/ WriteDone(op))
      \/ (\E w \in Writes : Land(w) \/ WriteCompletes(w))
Faults == ScanFails \/ FlushFails \/ (\E op \in ops : OpFails(op))
User == Pause \/ Resume \/ Cancel \/ Complete
Guest == \E c \in Chunks : DiscardPart(c) \/ \E w \in Writes : Submit(w, c)

Next == Job \/ Io \/ Faults \/ User \/ Guest

Spec == Init /\ [][Next]_vars

(* The job's coroutine and its timer go on, and the host answers requests. *)
Fairness == WF_vars(Job) /\ WF_vars(Io)

FairSpec == Spec /\ Fairness

-----------------------------------------------------------------------------
InSync == \A c \in Chunks : target[c] = source[c]

(* A job that reports completion, not cancellation, leaves the target a    *)
(* copy of the source, whatever the guest wrote meanwhile and whichever    *)
(* operations failed ("The two disks are in sync.").                       *)
Copied == pc = "done" /\ ret = "ok" /\ ~cancelled => InSync

(* The same of a guest that discards no part of a chunk: bdrv_co_discard   *)
(* clears the bit of the whole chunk.                                      *)
CompletedInSync == discards = 0 => Copied

(* mirror_iteration_done enters the job's coroutine wherever it is, so     *)
(* while an operation is in flight the job never waits for anything else;  *)
(* no two operations touch a chunk or share a buffer; and the state has    *)
(* its type.                                                               *)
OpsApart ==
    /\ TypeOK
    /\ ops # {} /\ ~run =>
           pc \in {"wait", "in_flight", "buf_busy", "sleep", "synced_sleep", "exit", "abort"}
    /\ \A o, p \in ops : o # p => o.hi < p.lo \/ p.hi < o.lo
    /\ BufFree >= 0

(* No assertion of mirror_iteration, mirror_run or hbitmap_iter_skip_words *)
(* fails.                                                                  *)
AssertionsHold == pc # "abort"

(* As long as the guest has not discarded, no assertion fails, because     *)
(* what the iterator has yet to return, of its copy of a word or of the    *)
(* words after it, stays dirty.                                            *)
NeverAborts ==
    discards = 0 =>
        /\ AssertionsHold
        /\ iter.cur \subseteq dirty
        /\ \A k \in iter.words : dirty \cap Word(k) # {}

(* A cancelled job ends ("The operation will cancel as soon as possible"): *)
(* something always enters its coroutine again.                            *)
Ended == pc \in {"done", "abort"}
CancelEnds == cancelled ~> Ended

(* A cancelled job ends, and so does one that is to complete unless it     *)
(* stays paused, by the user or after an error; and a job that is not      *)
(* paused becomes ready or ends.                                           *)
JobEnds ==
    /\ CancelEnds
    /\ should_complete ~> (Ended \/ paused)
    /\ <>(synced \/ paused \/ Ended)

(* The guest is switched to the target only when that is a copy ("The two  *)
(* disks are in sync.").                                                   *)
SwappedInSync == swapped => InSync

(* A job that is not busy is quiescent ("no I/O is pending").              *)
QuiescentIdle == ~Busy /\ ~run => ops = {}

=============================================================================
