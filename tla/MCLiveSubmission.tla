--------------------------- MODULE MCLiveSubmission ---------------------------
(* LiveSubmission for TLC: jobs, runs and attempt ids are interchangeable. *)
EXTENDS LiveSubmission, TLC

Symmetry == Permutations(Jobs) \cup Permutations(Runs) \cup Permutations(Tokens)
=============================================================================
