----------------------------- MODULE MCSubmission -----------------------------
EXTENDS Submission, TLC

(* Calls, keys and digests are interchangeable.                             *)
Symmetry == Permutations(Calls) \cup Permutations(Keys) \cup Permutations(Digests)
=============================================================================
