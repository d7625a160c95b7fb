----------------------------- MODULE MCGitMirror -----------------------------
(* git.sh for one repository.                                              *)
EXTENDS GitMirror
=============================================================================
