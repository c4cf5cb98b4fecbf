-------------------------- MODULE TrackedRequests --------------------------
(***************************************************************************)
(* How overlapping requests of one BlockDriverState are kept apart         *)
(* (block.c): a request that must read before it writes, to pad a write to *)
(* the alignment or to copy a cluster on read, is marked serialising; it   *)
(* waits for the requests it overlaps and they for it.                     *)
(*                                                                         *)
(* A request is a list of driver calls, each after a wait for other        *)
(* requests; an action is the code between two points where its coroutine  *)
(* yields, in the driver or in a queue.  Positions count a unit smaller    *)
(* than the alignment.                                                     *)
(***************************************************************************)
EXTENDS Integers, Sequences, FiniteSets, FiniteSetsExt, Functions

CONSTANTS Requests,
          Workloads,   \* what each request may be
          Size,        \* of the image
          Align,       \* MAX(BDRV_SECTOR_SIZE, bs->request_alignment)
          Cluster,     \* bdrv_get_cluster_size
          NULL

(* "cor" is a read with BDRV_REQ_COPY_ON_READ, "zero" a write without      *)
(* qiov.                                                                   *)
Ops == {"read", "cor", "write", "zero"}
Work == {w \in [op : Ops, off : 0 .. Size, len : 1 .. Size] : w.off + w.len <= Size}

ASSUME TrackedAssumption ==
    /\ NULL \notin Requests /\ IsFiniteSet(Requests)
    /\ Align \in Nat \ {0} /\ Cluster \in Nat \ {0}
    /\ Size \in Nat /\ Size % Align = 0 /\ Size % Cluster = 0
    /\ Workloads \subseteq [Requests -> Work]

VARIABLES work,        \* what the requests are, fixed from the start
          disk,        \* whose data each unit of the image holds
          allocated,   \* units that are allocated in the image
          buf,         \* what each request has read
          pc,          \* where its coroutine is
          phase,       \* which driver call it is at
          tracked,     \* bs->tracked_requests, newest first
          in_flight,   \* bs->serialising_in_flight
          serialising, overlap, waiting_for
                       \* fields of BdrvTrackedRequest

vars == <<work, disk, allocated, buf, pc, phase, tracked, in_flight,
          serialising, overlap, waiting_for>>

Units == 0 .. Size - 1
Span(lo, hi) == [lo |-> lo, hi |-> hi]          \* lo .. hi - 1
Covers(s, u) == s.lo <= u /\ u < s.hi

Down(n, a) == (n \div a) * a
Up(n, a) == Down(n + a - 1, a)
Least(m, n) == IF m < n THEN m ELSE n
Greatest(m, n) == IF m > n THEN m ELSE n

-----------------------------------------------------------------------------
(* The driver calls of a request: the span of each, and the alignment with *)
(* which the request is marked serialising before it, if any.              *)
Call(io, mark, lo, hi) == [io |-> io, mark |-> mark, span |-> Span(lo, hi)]

(* bdrv_co_do_preadv.                                                      *)
ReadCalls(w) ==
    <<Call("read", IF w.op = "cor" THEN Cluster ELSE 0,
           Down(w.off, Align), Up(w.off + w.len, Align))>>

(* The read of a block that is written in part.                            *)
ReadBlock(n) == Call("read", Align, Down(n, Align), Down(n, Align) + Align)

(* bdrv_co_do_pwritev: it pads the head, the tail, and writes everything.  *)
WriteCalls(w) ==
    LET end == w.off + w.len
        head == IF w.off % Align # 0 THEN <<ReadBlock(w.off)>> ELSE << >>
        tail == IF end % Align # 0 THEN <<ReadBlock(end)>> ELSE << >>
    IN  head \o tail \o <<Call("write", 0, Down(w.off, Align), Up(end, Align))>>

WriteBlock(n) == Call("write", 0, Down(n, Align), Down(n, Align) + Align)

(* bdrv_co_do_zero_pwritev: a block for the head, the middle, a block for  *)
(* the tail.                                                               *)
ZeroCalls(w) ==
    LET pad == w.off % Align
        zeroed == IF pad = 0 THEN 0 ELSE Least(w.len, Align - pad)
        off == w.off + zeroed
        len == w.len - zeroed
        middle == Down(len, Align)
    IN  (IF pad # 0 THEN <<ReadBlock(w.off), WriteBlock(w.off)>> ELSE << >>)
        \o (IF len >= Align THEN <<Call("write", 0, off, off + middle)>> ELSE << >>)
        \o (IF len % Align # 0
            THEN <<ReadBlock(off + middle), WriteBlock(off + middle)>> ELSE << >>)

Calls(w) == CASE w.op \in {"read", "cor"} -> ReadCalls(w)
              [] w.op = "write" -> WriteCalls(w)
              [] w.op = "zero" -> ZeroCalls(w)

IsRead(r) == work[r].op \in {"read", "cor"}
Own(r) == Span(work[r].off, work[r].off + work[r].len)

(* What tracked_request_begin is given: reads are aligned before.          *)
Begins(r) ==
    LET s == IF IsRead(r) THEN Calls(work[r])[1].span ELSE Own(r)
    IN  [off |-> s.lo, len |-> s.hi - s.lo]

(* "waiting": in a wait_queue; "woken": on a bottom half; "io": in the     *)
(* driver; "copying": in the driver for the write of a copy on read.       *)
Places == {"new", "waiting", "woken", "io", "copying", "done"}
Extents == [off : 0 .. Size, len : 0 .. Size]

TypeOK ==
    /\ work \in Workloads
    /\ disk \in [Units -> Requests \cup {NULL}] /\ allocated \subseteq Units
    /\ buf \in [Requests -> [Units -> Requests \cup {NULL}]]
    /\ pc \in [Requests -> Places]
    /\ phase \in [Requests -> Nat]
    /\ tracked \in Seq(Requests)
    /\ in_flight \in Nat
    /\ serialising \in [Requests -> BOOLEAN]
    /\ overlap \in [Requests -> Extents]
    /\ waiting_for \in [Requests -> Requests \cup {NULL}]

Init ==
    /\ work \in Workloads
    /\ disk = [u \in Units |-> NULL]
    /\ allocated = {}
    /\ buf = [r \in Requests |-> disk]
    /\ pc = [r \in Requests |-> "new"]
    /\ phase = [r \in Requests |-> 1]
    /\ tracked = << >>
    /\ in_flight = 0
    /\ serialising = [r \in Requests |-> FALSE]
    /\ overlap = [r \in Requests |-> Begins(r)]   \* set when it is tracked
    /\ waiting_for = [r \in Requests |-> NULL]

-----------------------------------------------------------------------------
(* Mutant of MarkedOverlap: the span is not extended to the alignment.     *)
MarkedOverlapAsIs(r, align) ==
    LET b == Begins(r) IN
    [off |-> Least(overlap[r].off, b.off), len |-> Greatest(overlap[r].len, b.len)]

(* mark_request_serialising.                                               *)
MarkedOverlap(r, align) ==
    LET b == Begins(r)
        off == Down(b.off, align)
    IN  [off |-> Least(overlap[r].off, off),
         len |-> Greatest(overlap[r].len, Up(b.off + b.len, align) - off)]

CountsFirst(r) == ~serialising[r]

Mark(r, align) ==
    /\ serialising' = [serialising EXCEPT ![r] = @ \/ align > 0]
    /\ in_flight' = IF align > 0 /\ CountsFirst(r) THEN in_flight + 1 ELSE in_flight
    /\ overlap' = IF align > 0 THEN [overlap EXCEPT ![r] = MarkedOverlap(r, align)]
                               ELSE overlap

(* tracked_request_overlaps.                                               *)
Overlap(a, b) == b.off < a.off + a.len /\ a.off < b.off + b.len

(* Mutant of Blocks: only requests that serialise are waited for.          *)
BlocksIfSerialising(s, r, ser, ov) ==
    s # r /\ ser[s] /\ Overlap(ov[s], ov[r]) /\ waiting_for[s] = NULL

(* Mutant of Blocks: requests that wait themselves are waited for.         *)
BlocksWaiting(s, r, ser, ov) ==
    s # r /\ (ser[s] \/ ser[r]) /\ Overlap(ov[s], ov[r])

(* wait_serialising_requests: must r wait for s?                           *)
Blocks(s, r, ser, ov) ==
    s # r /\ (ser[s] \/ ser[r]) /\ Overlap(ov[s], ov[r]) /\ waiting_for[s] = NULL

(* One walk over list: r waits for the first that blocks it, or goes on    *)
(* to the driver.                                                          *)
Walk(r, list, ser, ov) ==
    LET blockers == {i \in DOMAIN list : Blocks(list[i], r, ser, ov)}
    IN  IF blockers # {}
        THEN /\ pc' = [pc EXCEPT ![r] = "waiting"]
             /\ waiting_for' = [waiting_for EXCEPT ![r] = list[Min(blockers)]]
        ELSE /\ pc' = [pc EXCEPT ![r] = "io"]
             /\ waiting_for' = [waiting_for EXCEPT ![r] = NULL]

(* r, one of the tracked requests in list, comes to its k-th driver call.  *)
Enter(r, k, list) ==
    /\ phase' = [phase EXCEPT ![r] = k]
    /\ Mark(r, Calls(work[r])[k].mark)
    /\ Walk(r, IF in_flight' = 0 THEN << >> ELSE list, serialising', overlap')
    /\ tracked' = list

Counted(r) == serialising[r]

WakesNewest(r, s) ==                              \* mutant of Wakes
    /\ pc[s] = "waiting" /\ waiting_for[s] = r
    /\ s = tracked[Min({i \in DOMAIN tracked :
                          pc[tracked[i]] = "waiting" /\ waiting_for[tracked[i]] = r})]
Wakes(r, s) == pc[s] = "waiting" /\ waiting_for[s] = r

ResetsWaiters(r) ==                               \* mutant of KeepsWaiters
    waiting_for' = [s \in Requests |-> IF waiting_for[s] = r THEN NULL ELSE waiting_for[s]]
KeepsWaiters(r) == UNCHANGED waiting_for

(* QLIST_REMOVE of the n-th entry.                                         *)
Unlink(list, n) == SubSeq(list, 1, n - 1) \o SubSeq(list, n + 1, Len(list))

(* tracked_request_end wakes all who wait for r; they run some time later, *)
(* and waiting_for stays set until then.                                   *)
End(r) ==
    /\ in_flight' = IF Counted(r) THEN in_flight - 1 ELSE in_flight
    /\ tracked' = Unlink(tracked, CHOOSE i \in DOMAIN tracked : tracked[i] = r)
    /\ pc' = [s \in Requests |->
                 IF s = r THEN "done" ELSE IF Wakes(r, s) THEN "woken" ELSE pc[s]]
    /\ KeepsWaiters(r)
    /\ UNCHANGED <<phase, serialising, overlap>>

-----------------------------------------------------------------------------
(* A request arrives and goes on to its first wait or driver call.         *)
Begin(r) ==
    /\ pc[r] = "new"
    /\ Enter(r, 1, <<r>> \o tracked)
    /\ UNCHANGED <<work, disk, allocated, buf>>

(* A coroutine woken by tracked_request_end clears waiting_for and walks   *)
(* the list again.  The order of wake-ups is left open.                    *)
Resume(r) ==
    /\ pc[r] = "woken"
    /\ Walk(r, tracked, serialising, overlap)
    /\ UNCHANGED <<work, disk, allocated, buf, phase, tracked, in_flight,
                   serialising, overlap>>

Present(r) == Calls(work[r])[phase[r]]

Continue(r) ==
    IF phase[r] < Len(Calls(work[r])) THEN Enter(r, phase[r] + 1, tracked) ELSE End(r)

(* The clusters that a copy on read of r works on.                         *)
Clusters(r) == Span(Down(Present(r).span.lo, Cluster), Up(Present(r).span.hi, Cluster))

MustCopy(r) ==
    work[r].op = "cor" /\ ~({u \in Units : Covers(Present(r).span, u)} \subseteq allocated)

Fetch(r, s) ==
    buf' = [buf EXCEPT ![r] = [u \in Units |-> IF Covers(s, u) THEN disk[u] ELSE @[u]]]

Store(r, s) ==
    /\ disk' = [u \in Units |->
                   IF ~Covers(s, u) THEN disk[u]
                   ELSE IF Covers(Own(r), u) /\ ~IsRead(r) THEN r ELSE buf[r][u]]
    /\ allocated' = allocated \cup {u \in Units : Covers(s, u)}

(* The driver has read.                                                    *)
Read(r) ==
    /\ pc[r] = "io" /\ Present(r).io = "read"
    /\ \/ /\ ~MustCopy(r)
          /\ Fetch(r, Present(r).span)
          /\ Continue(r)
       \/ /\ MustCopy(r)
          /\ Fetch(r, Clusters(r))
          /\ pc' = [pc EXCEPT ![r] = "copying"]
          /\ UNCHANGED <<phase, tracked, in_flight, serialising, overlap, waiting_for>>
    /\ UNCHANGED <<work, disk, allocated>>

(* bdrv_co_do_copy_on_readv has written what it read.                      *)
Copied(r) ==
    /\ pc[r] = "copying"
    /\ Store(r, Clusters(r))
    /\ End(r)
    /\ UNCHANGED <<work, buf>>

(* The driver has written.                                                 *)
Write(r) ==
    /\ pc[r] = "io" /\ Present(r).io = "write"
    /\ Store(r, Present(r).span)
    /\ Continue(r)
    /\ UNCHANGED <<work, buf>>

(* The driver reports an error.                                            *)
Fail(r) ==
    /\ pc[r] \in {"io", "copying"}
    /\ End(r)
    /\ UNCHANGED <<work, disk, allocated, buf>>

Next == \E r \in Requests :
            Begin(r) \/ Resume(r) \/ Read(r) \/ Copied(r) \/ Write(r) \/ Fail(r)

Spec == Init /\ [][Next]_vars

(* Bottom halves run and the driver answers.                               *)
Fairness ==
    \A r \in Requests : WF_vars(Resume(r) \/ Read(r) \/ Copied(r) \/ Write(r))

FairSpec == Spec /\ Fairness

-----------------------------------------------------------------------------
InDriver(r) == pc[r] \in {"io", "copying"}

(* serialising_in_flight, which lets everybody skip the walk when it is 0, *)
(* is the number of serialising requests.                                  *)
SerialisingCounted ==
    in_flight = Cardinality({r \in Range(tracked) : serialising[r]})

(* While a serialising request is in the driver nobody it overlaps is.     *)
SerialisingAlone ==
    \A r, s \in Requests :
        r # s /\ serialising[r] /\ InDriver(r) /\ InDriver(s) =>
            ~Overlap(overlap[r], overlap[s])

(* A read-modify-write cycle or a copy on read, of several steps, leaves   *)
(* everything around its own request as it is at that time: no other       *)
(* write is undone by stale data.                                          *)
OthersKept ==
    [][\A u \in Units : disk'[u] # disk[u] =>
           \E r \in Requests : disk'[u] = r /\ ~IsRead(r) /\ Covers(Own(r), u)]_vars

(* Nobody waits for itself through others, nor for a request that is gone. *)
NoWaitCycle ==
    LET waiting == {r \in Requests : pc[r] = "waiting"} IN
    /\ \A r \in waiting : waiting_for[r] \in Range(tracked)
    /\ \A S \in SUBSET waiting : S # {} => \E r \in S : waiting_for[r] \notin S

(* The assertions of bdrv_co_do_pwritev and bdrv_aligned_pwritev: once a   *)
(* request serialises it has waited for the last time, and a write is      *)
(* inside what is tracked; and the counter that the shortcut of            *)
(* wait_serialising_requests relies on is right.                           *)
Asserted ==
    /\ TypeOK /\ SerialisingCounted
    /\ \A r \in Requests :
           /\ pc[r] = "waiting" /\ serialising[r] =>
                  /\ Present(r).io = "read"
                  /\ work[r].op = "write" => phase[r] = 1
           /\ pc[r] = "io" /\ Present(r).io = "write" =>
                  /\ overlap[r].off <= Present(r).span.lo
                  /\ Present(r).span.hi <= overlap[r].off + overlap[r].len

(* Every request is completed, and so the wait of bdrv_drain_all for them  *)
(* ends: when some are in progress, a time comes when none is.  A request  *)
(* begins once.                                                            *)
InProgress == {r \in Requests : pc[r] \notin {"new", "done"}}
Completed == InProgress # {} ~> InProgress = {}

=============================================================================
