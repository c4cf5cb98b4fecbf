------------------------------ MODULE CoQueue ------------------------------
(***************************************************************************)
(* The CoQueue of qemu-coroutine-lock.c: a tail queue of coroutines that   *)
(* have yielded.  Waking never enters a coroutine directly.  It moves the  *)
(* coroutine to the entry list of a freshly allocated bottom half (struct  *)
(* CoQueueNextData); the coroutine runs when the event loop polls that     *)
(* bottom half.  The operators below are what one call does to the queue   *)
(* and which entry list the new bottom half gets.                          *)
(***************************************************************************)
EXTENDS Integers, Sequences, FiniteSets

CONSTANT Co            \* the coroutines

ASSUME CoAssumption == IsFiniteSet(Co)

(* qemu_co_queue_wait: link the caller at the tail, then yield.            *)
QueueWait(queue, co) == Append(queue, co)

(* qemu_co_queue_wait_insert_head: link the caller at the head, then yield. *)
QueueWaitInsertHead(queue, co) == <<co>> \o queue

(* qemu_co_queue_empty.                                                    *)
QueueEmpty(queue) == queue = << >>

(* qemu_co_queue_do_restart(queue, TRUE), that is qemu_co_queue_next:      *)
(* the entry list of the bottom half it schedules, and what stays queued.  *)
(* With an empty queue no bottom half is created.                          *)
NextEntries(queue) == IF QueueEmpty(queue) THEN << >> ELSE <<Head(queue)>>
NextRest(queue) == IF QueueEmpty(queue) THEN << >> ELSE Tail(queue)

(* qemu_co_queue_do_restart(queue, FALSE), that is                         *)
(* qemu_co_queue_restart_all: one bottom half takes the whole queue.       *)
RestartAllEntries(queue) == queue
RestartAllRest(queue) == << >>

(* qemu_co_queue_next until it returns false: a bottom half for each       *)
(* entry, and aio_bh_poll meets the newest bottom half first.              *)
NextAllEntries(queue) == [i \in 1..Len(queue) |-> queue[Len(queue) + 1 - i]]

=============================================================================
