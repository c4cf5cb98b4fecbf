------------------------------- MODULE BitSet -------------------------------
(* What include/qemu/hbitmap.h promises of an HBitmap: a set of bits with  *)
(* its size, and one iterator over it.                                     *)
EXTENDS Integers, FiniteSets

CONSTANT Size                  \* the bits are 0 .. Size - 1

VARIABLES
    bits,                      \* the set
    count,                     \* hb->count; hbitmap_count scales it by the granularity
    at,                        \* the bit returned last; Size at the end
    owed                       \* what the iterator must still return
vars == <<bits, count, at, owed>>

Init == bits = {} /\ count = 0 /\ at = Size /\ owed = {}

Holds(S) == bits' = S /\ count' = Cardinality(S) /\ UNCHANGED <<at, owed>>

Set(first, last) == Holds(bits \cup (first .. last))
Reset(first, last) == Holds(bits \ (first .. last))

IterInit(first) ==
    /\ at' = first - 1
    /\ owed' = {b \in bits : b >= first}
    /\ UNCHANGED <<bits, count>>

(* Bits come in ascending order and none that was there is left out; bits  *)
(* set meanwhile may be missed.                                            *)
IterNext ==
    /\ \/ \E b \in bits :
            /\ b > at /\ \A o \in owed : b <= o
            /\ at' = b
            /\ owed' = owed \ {b}
       \/ owed = {} /\ at' = Size /\ UNCHANGED owed
    /\ UNCHANGED <<bits, count>>

Next ==
    \/ \E first \in 0 .. Size - 1 : \E last \in first .. Size - 1 :
           Set(first, last) \/ Reset(first, last)
    \/ \E first \in 0 .. Size - 1 : IterInit(first)
    \/ IterNext

Spec == Init /\ [][Next]_vars
=============================================================================
