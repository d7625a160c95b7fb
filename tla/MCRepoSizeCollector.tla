------------------------ MODULE MCRepoSizeCollector ------------------------
(* The size collector with two processes.                                  *)
EXTENDS RepoSizeCollector
=============================================================================
