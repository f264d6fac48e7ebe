-------------------------- MODULE MCManualReviewQueue --------------------------
(* ManualReviewQueue for TLC: the operators' commands are interchangeable, and
   so are the labels. *)
EXTENDS ManualReviewQueue, TLC

Symmetry == Permutations(Operators) \cup Permutations(Labels)
=============================================================================
