-------------------------------- MODULE Cleanup --------------------------------
(***************************************************************************)
(* What a cleanup of system categories promises, whatever stands between   *)
(* the program and the actions: an action is begun at most once, only if   *)
(* it was requested and never after the report, and it is reported as      *)
(* successful only if it was done.  A failure may be reported of an action *)
(* that nobody can tell the outcome of.                                    *)
(***************************************************************************)
CONSTANTS Cleaners, Actions

VARIABLES
  request,  \* the actions each cleaner asks for
  did,      \* what became of each of them
  report    \* what each cleaner returned

cleanupVars == <<request, did, report>>

Outcomes == {"no", "begun", "done", "failed"}

Init ==
  /\ request \in [Cleaners -> SUBSET Actions]
  /\ did = [c \in Cleaners |-> [a \in Actions |-> "no"]]
  /\ report = [c \in Cleaners |-> [a \in Actions |-> "none"]]

Silent(c) == \A a \in Actions : report[c][a] = "none"

Begin(c, a) ==
  /\ a \in request[c] /\ did[c][a] = "no"
  /\ Silent(c)
  /\ did' = [did EXCEPT ![c][a] = "begun"]
  /\ UNCHANGED <<request, report>>

End(c, a) ==
  /\ did[c][a] = "begun"
  /\ \E how \in {"done", "failed"} : did' = [did EXCEPT ![c][a] = how]
  /\ UNCHANGED <<request, report>>

Report(c) ==
  /\ Silent(c)
  /\ \E ok \in SUBSET {a \in request[c] : did[c][a] = "done"} :
       report' = [report EXCEPT ![c] =
                    [a \in Actions |-> IF a \in ok THEN "ok"
                                       ELSE IF a \in request[c] THEN "failed"
                                       ELSE "none"]]
  /\ UNCHANGED <<request, did>>

Next == \E c \in Cleaners : Report(c) \/ \E a \in Actions : Begin(c, a) \/ End(c, a)

Spec == Init /\ [][Next]_cleanupVars
=============================================================================
