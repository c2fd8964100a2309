--------------------------- MODULE MCPrivilegedClean ---------------------------
(***************************************************************************)
(* The window and vacuoctl clean at once: action 1 (crash-dumps) is done   *)
(* by the helper itself, action 2 (package-cache) by a command.            *)
(***************************************************************************)
EXTENDS PrivilegedClean

CONSTANTS gui, cli   \* model values

MCCleaners == {gui, cli}
MCActions == 1..2
MCTools == {2}
MCRequests == {MCActions}
=============================================================================
