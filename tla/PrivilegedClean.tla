---------------------------- MODULE PrivilegedClean ----------------------------
(***************************************************************************)
(* Cleaner::executeSystemActions (src/core/cleaner.cpp), the helper it     *)
(* starts as root through pkexec (src/helper/main.cpp) and the helper's    *)
(* actions (src/core/helper_actions.cpp).                                  *)
(*                                                                         *)
(* Cleaners are concurrent calls, of the window and of vacuoctl.  Each one *)
(* runs its helper with ProcessRunner and a deadline, and the helper runs  *)
(* its tools with ProcessRunner and a deadline of the same length, which   *)
(* therefore passes only after the outer one.  The outer deadline starts   *)
(* before the authentication prompt.  At the prompt pkexec still has the   *)
(* user's real identity and can be killed; the helper is root and cannot.  *)
(*                                                                         *)
(* The helper's result lines wait in a buffer until it exits or the buffer *)
(* is full; what is left in the pipe at the deadline is never read.        *)
(***************************************************************************)
EXTENDS FiniteSets, Integers

CONSTANTS
  Cleaners,
  Actions,      \* numbered in the order of their names
  Tools,        \* those carried out by an external command
  Requests,     \* the sets of actions a cleaner may ask for
  BufferLines,  \* result lines that always fit in the helper's buffer
  MaxCrashes,   \* bound on the processes that die without a reason here
  None

ASSUME PrivilegedAssumption ==
  /\ Actions \subseteq Int
  /\ Tools \subseteq Actions
  /\ Requests \subseteq (SUBSET Actions) \ {{}}
  /\ BufferLines \in Nat /\ MaxCrashes \in Nat
  /\ None \notin Cleaners /\ None \notin Actions

VARIABLES
  request,   \* the helper actions each cleaner asks for
  report,    \* what it returns for each
  caller,    \* where it is
  expired,   \* its deadline has passed
  kept,      \* the result lines it has read
  helper,    \* its pkexec, later its helper
  todo,      \* actions the helper has not begun
  current,   \* the action it is at
  work,      \* how that action goes
  buffer,    \* result lines in the helper's buffer
  pipe,      \* result lines in the pipe
  lock,      \* the holder of /run/vacuo-helper.lock
  \* for the properties only:
  did,       \* what became of each action
  crashed,   \* the helper died
  crashes    \* number of processes that died

callerVars == <<request, report, caller, kept>>
helperVars == <<helper, todo, current, work, buffer, lock, did>>
vars == <<callerVars, pipe, expired, helperVars, crashed, crashes>>

Lines == Actions \X {"ok", "failed"}

TypeOK ==
  /\ request \in [Cleaners -> Requests]
  /\ report \in [Cleaners -> [Actions -> {"none", "ok", "failed"}]]
  /\ caller \in [Cleaners -> {"idle", "waiting", "late", "reported", "dead"}]
  /\ expired \in [Cleaners -> BOOLEAN]
  /\ kept \in [Cleaners -> SUBSET Lines]
  /\ helper \in [Cleaners -> {"none", "prompt", "starting", "working", "leaving", "gone"}]
  /\ todo \in [Cleaners -> SUBSET Actions]
  /\ current \in [Cleaners -> Actions \cup {None}]
  /\ work \in [Cleaners -> {"none", "running", "ok", "failed"}]
  /\ \A c \in Cleaners : work[c] # "none" => current[c] # None
  /\ buffer \in [Cleaners -> SUBSET Lines]
  /\ pipe \in [Cleaners -> SUBSET Lines]
  /\ lock \in Cleaners \cup {None}
  /\ did \in [Cleaners -> [Actions -> {"no", "begun", "done", "failed"}]]
  /\ crashed \in [Cleaners -> BOOLEAN]
  /\ crashes \in 0..MaxCrashes

Init ==
  /\ request \in [Cleaners -> Requests]
  /\ report = [c \in Cleaners |-> [a \in Actions |-> "none"]]
  /\ caller = [c \in Cleaners |-> "idle"]
  /\ expired = [c \in Cleaners |-> FALSE]
  /\ kept = [c \in Cleaners |-> {}]
  /\ helper = [c \in Cleaners |-> "none"]
  /\ todo = [c \in Cleaners |-> {}]
  /\ current = [c \in Cleaners |-> None]
  /\ work = [c \in Cleaners |-> "none"]
  /\ buffer = [c \in Cleaners |-> {}]
  /\ pipe = [c \in Cleaners |-> {}]
  /\ lock = None
  /\ did = [c \in Cleaners |-> [a \in Actions |-> "no"]]
  /\ crashed = [c \in Cleaners |-> FALSE]
  /\ crashes = 0

-----------------------------------------------------------------------------
(* executeSystemActions. *)

\* The results: an action without a line has failed.
Report(c, lines) ==
  /\ caller' = [caller EXCEPT ![c] = "reported"]
  /\ report' = [report EXCEPT ![c] =
       [a \in Actions |-> IF a \notin request[c] THEN "none"
                          ELSE IF <<a, "ok">> \in lines THEN "ok" ELSE "failed"]]
  /\ kept' = [kept EXCEPT ![c] = {}]

\* pkexec and the helper are installed and pkexec can be started, or every
\* action has failed.
Start(c) ==
  /\ caller[c] = "idle"
  /\ \/ /\ caller' = [caller EXCEPT ![c] = "waiting"]
        /\ helper' = [helper EXCEPT ![c] = "prompt"]
        /\ UNCHANGED <<report, kept>>
     \/ Report(c, {}) /\ UNCHANGED helper
  /\ UNCHANGED <<request, pipe, expired, todo, current, work, buffer, lock,
                 did, crashed, crashes>>

\* ProcessRunner reads what is in the pipe.
Read(c) ==
  /\ caller[c] = "waiting" /\ pipe[c] # {}
  /\ kept' = [kept EXCEPT ![c] = @ \cup pipe[c]]
  /\ pipe' = [pipe EXCEPT ![c] = {}]
  /\ UNCHANGED <<request, report, caller, expired, helperVars, crashed, crashes>>

\* The helper is gone and the pipe read to its end.
Complete(c) ==
  /\ caller[c] = "waiting" /\ helper[c] = "gone" /\ pipe[c] = {}
  /\ Report(c, kept[c])
  /\ UNCHANGED <<request, pipe, expired, helperVars, crashed, crashes>>

\* The deadline: the signals reach pkexec, but not a helper that is root.
Expire(c) ==
  /\ caller[c] = "waiting" /\ expired[c]
  /\ caller' = [caller EXCEPT ![c] = "late"]
  /\ helper' = [helper EXCEPT ![c] = IF @ = "prompt" THEN "gone" ELSE @]
  /\ UNCHANGED <<request, report, kept, pipe, expired, todo, current, work,
                 buffer, lock, did, crashed, crashes>>

\* Faulty: does not wait for a helper that could not be killed.
GiveUpAtOnce(c) ==
  /\ caller[c] = "late"
  /\ Report(c, kept[c])
  /\ pipe' = [pipe EXCEPT ![c] = {}]
  /\ UNCHANGED <<request, expired, helperVars, crashed, crashes>>

\* The last waitpid returns; what is in the pipe is not read any more.
GiveUp(c) ==
  /\ caller[c] = "late" /\ helper[c] = "gone"
  /\ Report(c, kept[c])
  /\ pipe' = [pipe EXCEPT ![c] = {}]
  /\ UNCHANGED <<request, expired, helperVars, crashed, crashes>>

Caller(c) == Read(c) \/ Complete(c) \/ Expire(c) \/ GiveUp(c)

-----------------------------------------------------------------------------
(* pkexec and main of the helper. *)

\* The user refuses, pkexec fails, or the helper rejects its start.
Refuse(c) ==
  /\ helper[c] = "prompt"
  /\ helper' = [helper EXCEPT ![c] = "gone"]
  /\ UNCHANGED <<callerVars, expired, todo, current, work, buffer, pipe, lock, did,
                 crashed, crashes>>

Authorize(c) ==
  /\ helper[c] = "prompt"
  /\ helper' = [helper EXCEPT ![c] = "starting"]
  /\ UNCHANGED <<callerVars, expired, todo, current, work, buffer, pipe, lock, did,
                 crashed, crashes>>

\* Faulty: the result of flock is not looked at.
LockAnyway(c) ==
  /\ helper[c] = "starting"
  /\ lock' = IF lock = None THEN c ELSE lock
  /\ helper' = [helper EXCEPT ![c] = "working"]
  /\ todo' = [todo EXCEPT ![c] = request[c]]
  /\ UNCHANGED <<callerVars, expired, current, work, buffer, pipe, did, crashed, crashes>>

\* flock with LOCK_EX | LOCK_NB, or exit 75.
Lock(c) ==
  /\ helper[c] = "starting"
  /\ IF lock = None
     THEN /\ lock' = c
          /\ helper' = [helper EXCEPT ![c] = "working"]
          /\ todo' = [todo EXCEPT ![c] = request[c]]
     ELSE /\ helper' = [helper EXCEPT ![c] = "gone"]
          /\ UNCHANGED <<lock, todo>>
  /\ UNCHANGED <<callerVars, expired, current, work, buffer, pipe, did, crashed, crashes>>

\* emit: the line stays in the buffer; when the buffer is full, what was in
\* it goes out, and the line is cut, so that it may or may not be readable.
Emit(c, line) ==
  \/ /\ buffer' = [buffer EXCEPT ![c] = @ \cup {line}]
     /\ UNCHANGED pipe
  \/ /\ Cardinality(buffer[c]) >= BufferLines
     /\ \E out \in {buffer[c], buffer[c] \cup {line}} :
          pipe' = [pipe EXCEPT ![c] = @ \cup out]
     /\ buffer' = [buffer EXCEPT ![c] = {line}]

AtNext(c, a) ==
  /\ helper[c] = "working" /\ current[c] = None
  /\ a \in todo[c] /\ \A b \in todo[c] : a <= b

\* execute, when no allow-listed command is installed.
Unavailable(c, a) ==
  /\ AtNext(c, a) /\ a \in Tools
  /\ todo' = [todo EXCEPT ![c] = @ \ {a}]
  /\ Emit(c, <<a, "failed">>)
  /\ UNCHANGED <<callerVars, expired, helper, current, work, lock, did, crashed, crashes>>

\* execute: a command is started, or the helper clears a directory itself.
Begin(c, a) ==
  /\ AtNext(c, a)
  /\ todo' = [todo EXCEPT ![c] = @ \ {a}]
  /\ current' = [current EXCEPT ![c] = a]
  /\ work' = [work EXCEPT ![c] = "running"]
  /\ did' = [did EXCEPT ![c][a] = "begun"]
  /\ UNCHANGED <<callerVars, expired, helper, buffer, pipe, lock, crashed, crashes>>

Ended(c, result, outcome) ==
  /\ work' = [work EXCEPT ![c] = result]
  /\ did' = [did EXCEPT ![c][current[c]] = outcome]
  /\ UNCHANGED <<callerVars, expired, helper, todo, current, buffer, pipe, lock,
                 crashed, crashes>>

\* The command exits, also after its helper died.
ToolEnds(c) ==
  /\ work[c] = "running" /\ current[c] \in Tools
  /\ Ended(c, "ok", "done") \/ Ended(c, "failed", "failed")

\* clearFixedDirectory returns.
DeletionEnds(c) ==
  /\ work[c] = "running" /\ current[c] \notin Tools
  /\ Ended(c, "ok", "done") \/ Ended(c, "failed", "failed")

\* Faulty: only asks the command to end.
ToolAsked(c) ==
  /\ helper[c] = "working" /\ expired[c]
  /\ work[c] = "running" /\ current[c] \in Tools
  /\ UNCHANGED vars

\* The deadline of the command, after that of the helper: it is killed, and
\* has failed even if it ended well at the last moment.
ToolTimesOut(c) ==
  /\ helper[c] = "working" /\ expired[c]
  /\ work[c] = "running" /\ current[c] \in Tools
  /\ Ended(c, "failed", "done") \/ Ended(c, "failed", "failed")

\* Faulty: success is the default.
ResultOptimistic(c) ==
  /\ helper[c] = "working" /\ work[c] \in {"ok", "failed"}
  /\ Emit(c, <<current[c], "ok">>)
  /\ current' = [current EXCEPT ![c] = None]
  /\ work' = [work EXCEPT ![c] = "none"]
  /\ UNCHANGED <<callerVars, expired, helper, todo, lock, did, crashed, crashes>>

Result(c) ==
  /\ helper[c] = "working" /\ work[c] \in {"ok", "failed"}
  /\ Emit(c, <<current[c], work[c]>>)
  /\ current' = [current EXCEPT ![c] = None]
  /\ work' = [work EXCEPT ![c] = "none"]
  /\ UNCHANGED <<callerVars, expired, helper, todo, lock, did, crashed, crashes>>

Unlock(c) ==
  /\ helper[c] = "working" /\ current[c] = None /\ todo[c] = {}
  /\ lock' = None
  /\ helper' = [helper EXCEPT ![c] = "leaving"]
  /\ UNCHANGED <<callerVars, expired, todo, current, work, buffer, pipe, did,
                 crashed, crashes>>

\* Faulty: leaves without flushing.
LeaveQuickly(c) ==
  /\ helper[c] = "leaving"
  /\ helper' = [helper EXCEPT ![c] = "gone"]
  /\ buffer' = [buffer EXCEPT ![c] = {}]
  /\ UNCHANGED <<callerVars, expired, todo, current, work, pipe, lock, did, crashed, crashes>>

\* exit flushes the buffer.
Leave(c) ==
  /\ helper[c] = "leaving"
  /\ helper' = [helper EXCEPT ![c] = "gone"]
  /\ pipe' = [pipe EXCEPT ![c] = @ \cup buffer[c]]
  /\ buffer' = [buffer EXCEPT ![c] = {}]
  /\ UNCHANGED <<callerVars, expired, todo, current, work, lock, did, crashed, crashes>>

Helper(c) ==
  \/ Lock(c)
  \/ \E a \in Actions : Unavailable(c, a) \/ Begin(c, a)
  \/ DeletionEnds(c)
  \/ ToolTimesOut(c)
  \/ Result(c)
  \/ Unlock(c)
  \/ Leave(c)

-----------------------------------------------------------------------------
(* Time and death. *)

Tick(c) ==
  /\ caller[c] # "idle" /\ helper[c] # "gone" /\ ~expired[c]
  /\ expired' = [expired EXCEPT ![c] = TRUE]
  /\ UNCHANGED <<callerVars, pipe, helperVars, crashed, crashes>>

\* A helper that dies frees the lock, loses its buffer and leaves a running
\* command behind; the deletion it was doing stops.
HelperDies(c) ==
  /\ helper[c] \in {"starting", "working", "leaving"}
  /\ crashes < MaxCrashes /\ crashes' = crashes + 1
  /\ crashed' = [crashed EXCEPT ![c] = TRUE]
  /\ helper' = [helper EXCEPT ![c] = "gone"]
  /\ lock' = IF lock = c THEN None ELSE lock
  /\ buffer' = [buffer EXCEPT ![c] = {}]
  /\ todo' = [todo EXCEPT ![c] = {}]
  /\ IF work[c] = "running" /\ current[c] \in Tools
     THEN UNCHANGED <<current, work>>
     ELSE /\ current' = [current EXCEPT ![c] = None]
          /\ work' = [work EXCEPT ![c] = "none"]
  /\ UNCHANGED <<callerVars, expired, pipe, did>>

\* The window or vacuoctl is killed; pkexec and the helper go on.
CallerDies(c) ==
  /\ caller[c] \in {"waiting", "late"}
  /\ crashes < MaxCrashes /\ crashes' = crashes + 1
  /\ caller' = [caller EXCEPT ![c] = "dead"]
  /\ kept' = [kept EXCEPT ![c] = {}]
  /\ UNCHANGED <<request, report, pipe, expired, helperVars, crashed>>

Finished ==
  /\ \A c \in Cleaners : /\ caller[c] \in {"reported", "dead"}
                         /\ helper[c] \in {"none", "gone"}
                         /\ work[c] # "running"
  /\ UNCHANGED vars

Next ==
  \/ \E c \in Cleaners :
       \/ Start(c) \/ Caller(c)
       \/ Refuse(c) \/ Authorize(c) \/ Helper(c) \/ ToolEnds(c)
       \/ Tick(c) \/ HelperDies(c) \/ CallerDies(c)
  \/ Finished

\* Callers and helpers are scheduled, a deletion ends and time passes.  The
\* user need not answer the prompt and a command need not end.
Spec ==
  /\ Init /\ [][Next]_vars
  /\ \A c \in Cleaners : WF_vars(Caller(c)) /\ WF_vars(Helper(c)) /\ WF_vars(Tick(c))

-----------------------------------------------------------------------------
(* Correctness. *)

\* The report is that of an abstract cleanup: nothing is begun twice or
\* after the report, and success is reported only of what was done.
Abstract == INSTANCE Cleanup WITH
  Cleaners <- Cleaners, Actions <- Actions,
  request <- request, did <- did, report <- report
Implements == Abstract!Spec

\* An action that was done is reported as failed only if the deadline had
\* passed or the helper died.
FailureExplained ==
  \A c \in Cleaners, a \in Actions :
    report[c][a] = "failed" /\ did[c][a] = "done" => expired[c] \/ crashed[c]

\* When the report is out, nothing of the cleanup is still at work: the
\* caller waits for the helper it cannot kill.  Only a helper that died can
\* have left a command behind.
QuietAfterReport ==
  \A c \in Cleaners :
    caller[c] = "reported" /\ ~crashed[c] =>
      helper[c] \in {"none", "gone"} /\ work[c] # "running"

\* Two cleanups are at work at the same time only if a helper died and its
\* command outlived the lock.
WorkApart ==
  \A c, d \in Cleaners :
    c # d /\ work[c] = "running" /\ work[d] = "running" => crashed[c] \/ crashed[d]

\* Every call returns, whether or not the prompt is answered and the
\* commands end.
Returns ==
  \A c \in Cleaners : caller[c] = "waiting" ~> caller[c] \in {"reported", "dead"}
=============================================================================
