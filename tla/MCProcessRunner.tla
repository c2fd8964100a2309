--------------------------- MODULE MCProcessRunner ---------------------------
(***************************************************************************)
(* A command with one descendant, two exit codes and pipes of one buffer.  *)
(***************************************************************************)
EXTENDS ProcessRunner

MCCodes == {"ok", "failed"}
=============================================================================
