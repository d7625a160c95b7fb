---------------------------- MODULE MCGitBackend ----------------------------
(* GitBackend for TLC; Symmetry is used by the safety run only.  *)
EXTENDS GitBackend, TLC

Symmetry == Permutations(Clients) \cup Permutations(Workers) \cup Permutations(Services)
=============================================================================
