----------------------------- MODULE MCEvQueue -----------------------------
(* Small instances of the lock-free queue.                                 *)
EXTENDS EvQueue, TLC

(* Enqueuers, and takers of one kind, are interchangeable in every safety  *)
(* property.                                                               *)
Symmetry == Permutations(Enqueuers) \cup Permutations(Dequeuers)
                \cup Permutations(TryDequeuers) \cup Permutations(Nodes)
=============================================================================
