------------------------- MODULE MCTrackedRequests -------------------------
(* Small requests on a small image, for TLC.                               *)
EXTENDS TrackedRequests, TLC

W(op, off, len) == [op |-> op, off |-> off, len |-> len]

(* Two units to a block, two blocks to a cluster: an aligned write, one    *)
(* with a tail, one with head and tail, a zero write with head, middle and *)
(* tail, one in a single block, a read and a copy on read.                 *)
SmallWork ==
    <<W("write", 0, 2), W("write", 2, 1), W("write", 1, 4), W("zero", 1, 4),
      W("zero", 3, 1), W("read", 2, 2), W("cor", 0, 2)>>

(* Each choice of shapes once: which request has which shape makes no      *)
(* difference.                                                             *)
Numbering == CHOOSE n \in [Requests -> 1 .. Cardinality(Requests)] : IsInjective(n)
SmallWorkloads ==
    {[r \in Requests |-> SmallWork[shape[Numbering[r]]]] :
        shape \in {t \in [1 .. Cardinality(Requests) -> 1 .. Len(SmallWork)] :
                     \A i \in 2 .. Cardinality(Requests) : t[i - 1] <= t[i]}}

=============================================================================
