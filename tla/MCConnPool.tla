----------------------------- MODULE MCConnPool -----------------------------
(* ConnPool for TLC: the read threads are interchangeable.                 *)
EXTENDS ConnPool, TLC

Symmetry == Permutations(Threads)

\* Nothing that is checked depends on the nodes and the descriptors whose
\* history is spoilt: one of each is enough to see the others beside it.
OneSpoilt == Cardinality(lost) <= 1 /\ Cardinality(muddled) <= 1
=============================================================================
