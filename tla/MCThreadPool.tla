---------------------------- MODULE MCThreadPool ----------------------------
(* Small pools for TLC.                                                    *)
EXTENDS ThreadPool, TLC

Symmetric == Permutations(Elems) \cup Permutations(Workers)
=============================================================================
