--------------------------- MODULE MCQcow2Requests ---------------------------
(* Instances of Qcow2Requests for TLC.                                     *)
EXTENDS Qcow2Requests, TLC

CONSTANTS r1, r2, r3, r4, r5

(* One entry per cache: each change of table writes one back.              *)
OneEach == [c \in {"l2", "rc"} |-> 1]

(* Guest clusters and clusters of the image in turn to each of the tables. *)
Alternate(n, tables) ==
    CHOOSE o \in tables :
        Cardinality({p \in tables : p < o}) = n % Cardinality(tables)
TableInTurn(g) == Alternate(g, L2Tables)
BlockInTurn(h) == Alternate(h, RefBlocks)

(* The first guest cluster is written in part, the others as a whole.      *)
FirstInPart == {w \in [g : Guest, whole : BOOLEAN] : w.whole <=> w.g # Min(Guest)}

Symmetry == Permutations(Requests)

(* A failed I/O or a power failure, not both.                              *)
OneFault == errors + crashes <= 1

=============================================================================
