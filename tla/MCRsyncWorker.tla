--------------------------- MODULE MCRsyncWorker ---------------------------
(* RsyncWorker for TLC: a success, a failure that is not retried, a transient *)
(* one, vanished files, and a host that ssh does not know.                   *)
EXTENDS RsyncWorker

Codes == {0, 11, 12, 24, 255}
=============================================================================
