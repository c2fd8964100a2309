------------------------------- MODULE Vacuoctl -------------------------------
(***************************************************************************)
(* The command line (src/cli/main.cpp) and the cleanup it calls, beside    *)
(* the one of the window: what the arguments ask for, and what the exit    *)
(* status says of the cleanup.  A list of arguments is given to the call   *)
(* Cli of Cleaner::execute; the other calls are the window's.              *)
(***************************************************************************)
EXTENDS Cleaner

CONSTANTS
  Cli,            \* the call by vacuoctl
  ArgumentLists   \* what it may be started with

Known == UserIds \cup SystemIds

ASSUME CliAssumption ==
  /\ Cli \in Cleaners
  /\ ArgumentLists \subseteq Seq(STRING)
  /\ Known \subseteq Ids /\ "--category" \notin Known

VARIABLES
  arguments,
  stage,    \* of main: "start", "cleaning", "exited"
  exit      \* its status when it has exited

cliVars == <<vars, arguments, stage, exit>>

-----------------------------------------------------------------------------
(* The arguments. *)

HasArgument(list, value) == value \in ToSet(list)

\* The argument after --category is taken whatever it is; a --category at
\* the end has none.
CategoryArguments(list) ==
  LET from[i \in 1..(Len(list) + 1)] ==
        IF i >= Len(list) THEN {}
        ELSE IF list[i] = "--category" THEN {list[i + 1]} \cup from[i + 2]
        ELSE from[i + 1]
  IN  from[1]

\* Commands and options that are answered without touching anything.
Informs(list) ==
  /\ list # <<>>
  /\ \/ \E option \in {"--help", "-h", "--version"} : HasArgument(list, option)
     \/ Head(list) \in {"system", "list", "scan"}

\* Faulty: one known category is enough.
CleansSome(list) ==
  /\ list # <<>> /\ ~Informs(list) /\ Head(list) = "clean"
  /\ HasArgument(list, "--yes")
  /\ CategoryArguments(list) \cap Known # {}

Cleans(list) ==
  /\ list # <<>> /\ ~Informs(list) /\ Head(list) = "clean"
  /\ HasArgument(list, "--yes")
  /\ CategoryArguments(list) # {} /\ CategoryArguments(list) \subseteq Known

-----------------------------------------------------------------------------
(* main *)

CliInit ==
  /\ arguments \in ArgumentLists
  /\ stage = "start" /\ exit = 0
  /\ Init
  /\ request[Cli] = IF Cleans(arguments) THEN CategoryArguments(arguments) \cap Ids ELSE {}

Main ==
  /\ stage = "start"
  /\ IF Cleans(arguments)
     THEN stage' = "cleaning" /\ UNCHANGED exit
     ELSE stage' = "exited" /\ exit' = IF Informs(arguments) THEN 0 ELSE 2
  /\ UNCHANGED <<vars, arguments>>

\* Faulty: the refusal of root is no action of the report.
SucceededButRoot == \A i \in Ids : report[Cli][i] # "failed"

\* allSucceeded: for root the report consists of a failure.
AllSucceeded == ~system.root /\ \A i \in Ids : report[Cli][i] # "failed"

Return ==
  /\ stage = "cleaning" /\ pc[Cli] = "done"
  /\ stage' = "exited"
  /\ exit' = IF AllSucceeded THEN 0 ELSE 1
  /\ UNCHANGED <<vars, arguments>>

Call(c) == (c = Cli => stage = "cleaning") /\ Execute(c)

Over == stage = "exited" /\ \A c \in Cleaners \ {Cli} : pc[c] = "done"

CliNext ==
  \/ Main \/ Return
  \/ (\E c \in Cleaners : Call(c)) /\ UNCHANGED <<arguments, stage, exit>>
  \/ ~Over /\ (Applications \/ Arrive) /\ UNCHANGED <<arguments, stage, exit>>
  \/ Over /\ UNCHANGED cliVars

CliSpec == CliInit /\ [][CliNext]_cliVars

-----------------------------------------------------------------------------
(* Correctness. *)

\* What a reader of the command line would say it names.
Named == {arguments[i + 1] : i \in {i \in 1..(Len(arguments) - 1) : arguments[i] = "--category"}}

\* Confirmed, and nothing misspelled.
Proper ==
  /\ arguments # <<>> /\ Head(arguments) = "clean" /\ "--yes" \in ToSet(arguments)
  /\ Named # {} /\ Named \subseteq Known

\* Of a call that is not proper nothing is carried out, not even the part
\* that could be.  After a cleanup the status is 0 exactly if all that was
\* named has succeeded.
ExitFaithful ==
  /\ ~Proper => pc[Cli] = "rule" /\ rule[Cli] = "none" /\ total[Cli] = 0
  /\ stage = "exited" /\ pc[Cli] = "done" =>
       exit = IF \A id \in Named : report[Cli][id] = "ok" THEN 0 ELSE 1
=============================================================================
