----------------------------- MODULE MCGoQueue -----------------------------
(* GoQueue for TLC.  The clients are interchangeable, and so are the workers: *)
(* Symmetry is used by the safety run only.                                   *)
EXTENDS GoQueue, TLC

Symmetry == Permutations(Clients) \cup Permutations(Workers)
=============================================================================
