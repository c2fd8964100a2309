---------------------------- MODULE ProcessRunner ----------------------------
(***************************************************************************)
(* ProcessRunner::run (src/core/process_runner.cpp): one external command  *)
(* with captured output and a deadline.                                    *)
(*                                                                         *)
(* The calling thread drains two non-blocking pipes, polls for the child   *)
(* with waitpid(WNOHANG), and at the deadline sends SIGTERM to the child's *)
(* process group, waits 100 ms, sends SIGKILL and waits for good.  The     *)
(* command runs beside it: it may write at any moment, start a descendant  *)
(* that inherits the pipes and outlives it, ignore SIGTERM, or be beyond   *)
(* the caller's permission to signal (pkexec makes the child root).        *)
(*                                                                         *)
(* Output is counted in read buffers; the count kept and the count written *)
(* both saturate at OutputLimit (1 MiB in the code), so that a command may *)
(* write for ever and the model stays finite.                              *)
(***************************************************************************)
EXTENDS Naturals, FiniteSets

CONSTANTS
  Child, Grandchild,   \* the command, and a descendant it may start
  Codes,               \* exit codes of the command
  Manners,             \* how processes take signals: see below
  Capacity,            \* what a pipe holds before a writer blocks
  OutputLimit          \* what the result keeps of a stream

Streams == {"out", "err"}
Procs == {Child, Grandchild}
AllManners == {"term",   \* SIGTERM ends it
               "kill",   \* only SIGKILL does
               "none"}   \* no signal reaches it: EPERM, or it left the group

ASSUME RunnerAssumption ==
  /\ Child # Grandchild
  /\ "signal" \notin Codes /\ "none" \notin Codes
  /\ Manners \subseteq AllManners
  /\ Capacity \in Nat \ {0}
  /\ OutputLimit \in Nat \ {0}

VARIABLES
  pc,        \* the caller's next call
  open,      \* which read ends are open: outputOpen, errorOpen
  exited,    \* childExited
  timedOut,  \* result.timedOut
  got,       \* what result.output and result.error hold
  status,    \* the status waitpid delivered
  state,     \* of each process: absent, running, zombie or reaped
  manner,    \* of each process, fixed at the start
  hit,       \* the signals each process has pending
  end,       \* history: how the command ended
  pipe,      \* what each pipe holds
  written,   \* history: what was ever written to each stream
  expired    \* the deadline has passed

callerVars == <<pc, open, exited, timedOut, got, status>>
commandVars == <<state, manner, hit, end, pipe, written>>
vars == <<callerVars, commandVars, expired>>

TypeOK ==
  /\ pc \in {"launch", "out", "err", "reap", "deadline", "term", "insist",
             "kill", "wait", "close", "poll", "done"}
  /\ open \in [Streams -> BOOLEAN]
  /\ exited \in BOOLEAN /\ timedOut \in BOOLEAN /\ expired \in BOOLEAN
  /\ got \in [Streams -> 0..OutputLimit]
  /\ status \in Codes \cup {"none", "signal"}
  /\ end \in Codes \cup {"none", "signal"}
  /\ state \in [Procs -> {"absent", "running", "zombie", "reaped"}]
  /\ manner \in [Procs -> Manners]
  /\ hit \in [Procs -> SUBSET {"term", "kill"}]
  /\ pipe \in [Streams -> 0..Capacity]
  /\ written \in [Streams -> 0..OutputLimit]

Init ==
  /\ pc = "launch"
  /\ open = [s \in Streams |-> FALSE]
  /\ exited = FALSE /\ timedOut = FALSE /\ expired = FALSE
  /\ got = [s \in Streams |-> 0]
  /\ status = "none" /\ end = "none"
  /\ state = [q \in Procs |-> "absent"]
  /\ manner \in [Procs -> Manners]
  /\ hit = [q \in Procs |-> {}]
  /\ pipe = [s \in Streams |-> 0]
  /\ written = [s \in Streams |-> 0]

Saturated(n) == IF n > OutputLimit THEN OutputLimit ELSE n
Writers == {q \in Procs : state[q] = "running"}

-----------------------------------------------------------------------------
(* The caller. *)

\* Faulty variants, here and below, are what a slip in the code would do;
\* each one breaks a property, and none is part of the specification.

\* Faulty: the loop ends with the command, whatever is left in the pipes.
CommandRuns == ~exited

\* The condition of the outer while loop and of the poll.
Unfinished == ~exited \/ \E s \in Streams : open[s]

\* result.exitCode, computed on return; "none" is -1.
ExitCode == IF timedOut THEN "none" ELSE status

\* pipe2, fork and exec.  An exec that fails is an exit with code 127.
Launch ==
  /\ pc = "launch"
  /\ \/ /\ state' = [state EXCEPT ![Child] = "running"]
        /\ open' = [s \in Streams |-> TRUE]
        /\ pc' = "out"
     \/ pc' = "done" /\ UNCHANGED <<state, open>>
  /\ UNCHANGED <<exited, timedOut, got, status, manner, hit, end, pipe,
                 written, expired>>

\* appendFrom reads again as long as there is something to read; it leaves
\* on an empty pipe, and closes its end when no writer is left.
Read(s, next) ==
  /\ pc = s
  /\ IF open[s] /\ pipe[s] > 0
     THEN /\ pipe' = [pipe EXCEPT ![s] = @ - 1]
          /\ got' = [got EXCEPT ![s] = Saturated(@ + 1)]
          /\ UNCHANGED <<pc, open>>
     ELSE /\ open' = [open EXCEPT ![s] = @ /\ Writers # {}]
          /\ pc' = next
          /\ UNCHANGED <<pipe, got>>
  /\ UNCHANGED <<exited, timedOut, status, state, manner, hit, end, written,
                 expired>>

\* waitpid collects a zombie.
Collect ==
  /\ state' = [state EXCEPT ![Child] = "reaped"]
  /\ status' = end

\* waitpid(WNOHANG), unless the child is known to have exited.
Reap ==
  /\ pc = "reap"
  /\ IF ~exited /\ state[Child] = "zombie"
     THEN Collect /\ exited' = TRUE
     ELSE UNCHANGED <<state, status, exited>>
  /\ pc' = "deadline"
  /\ UNCHANGED <<open, timedOut, got, manner, hit, end, pipe, written, expired>>

Deadline ==
  /\ pc = "deadline"
  /\ IF expired /\ Unfinished
     THEN timedOut' = TRUE /\ pc' = "term"
     ELSE pc' = (IF Unfinished THEN "poll" ELSE "done") /\ UNCHANGED timedOut
  /\ UNCHANGED <<open, exited, got, status, commandVars, expired>>

\* kill(-child, sig): every member of the group that may be signalled.
Signal(sig) ==
  hit' = [q \in Procs |-> IF state[q] = "running" /\ manner[q] # "none"
                          THEN hit[q] \cup {sig} ELSE hit[q]]

Term ==
  /\ pc = "term"
  /\ IF exited THEN UNCHANGED hit ELSE Signal("term")
  /\ pc' = "insist"
  /\ UNCHANGED <<open, exited, timedOut, got, status, state, manner, end, pipe,
                 written, expired>>

\* Faulty: SIGKILL is sent without looking at what waitpid returned.
InsistBlindly ==
  /\ pc = "insist"
  /\ IF ~exited /\ state[Child] = "zombie"
     THEN Collect ELSE UNCHANGED <<state, status>>
  /\ pc' = IF exited THEN "wait" ELSE "kill"
  /\ UNCHANGED <<open, exited, timedOut, got, manner, hit, end, pipe, written,
                 expired>>

\* Faulty: no SIGKILL.
InsistNever ==
  /\ pc = "insist"
  /\ IF ~exited /\ state[Child] = "zombie"
     THEN Collect ELSE UNCHANGED <<state, status>>
  /\ pc' = "wait"
  /\ UNCHANGED <<open, exited, timedOut, got, manner, hit, end, pipe, written,
                 expired>>

\* After 100 ms, waitpid(WNOHANG) again: a child that is gone is collected
\* here although childExited stays false, one that is not is killed.
Insist ==
  /\ pc = "insist"
  /\ IF ~exited /\ state[Child] = "zombie"
     THEN Collect ELSE UNCHANGED <<state, status>>
  /\ pc' = IF ~exited /\ state[Child] = "running" THEN "kill" ELSE "wait"
  /\ UNCHANGED <<open, exited, timedOut, got, manner, hit, end, pipe, written,
                 expired>>

Kill ==
  /\ pc = "kill"
  /\ Signal("kill")
  /\ pc' = "wait"
  /\ UNCHANGED <<open, exited, timedOut, got, status, state, manner, end, pipe,
                 written, expired>>

\* Faulty: the last waitpid does not block.
WaitBriefly ==
  /\ pc = "wait"
  /\ exited' = TRUE
  /\ IF ~exited /\ state[Child] = "zombie"
     THEN Collect ELSE UNCHANGED <<state, status>>
  /\ pc' = "close"
  /\ UNCHANGED <<open, timedOut, got, manner, hit, end, pipe, written, expired>>

\* waitpid without WNOHANG blocks until the child is gone; if it was already
\* collected the call fails at once.
Wait ==
  /\ pc = "wait"
  /\ exited \/ state[Child] # "running"
  /\ exited' = TRUE
  /\ IF ~exited /\ state[Child] = "zombie"
     THEN Collect ELSE UNCHANGED <<state, status>>
  /\ pc' = "close"
  /\ UNCHANGED <<open, timedOut, got, manner, hit, end, pipe, written, expired>>

\* What is still in the pipes is given up; the loop condition is now false.
Close ==
  /\ pc = "close"
  /\ open' = [s \in Streams |-> FALSE]
  /\ pc' = "done"
  /\ UNCHANGED <<exited, timedOut, got, status, commandVars, expired>>

\* poll returns on input, on a hang-up or after 25 ms.
Poll ==
  /\ pc = "poll"
  /\ pc' = "out"
  /\ UNCHANGED <<open, exited, timedOut, got, status, commandVars, expired>>

Caller ==
  \/ Launch
  \/ Read("out", "err")
  \/ Read("err", "reap")
  \/ Reap
  \/ Deadline
  \/ Term
  \/ Insist
  \/ Kill
  \/ Wait
  \/ Close
  \/ Poll

-----------------------------------------------------------------------------
(* The command and its descendant, the kernel and the clock. *)

Write(q, s) ==
  /\ state[q] = "running"
  /\ pipe[s] < Capacity
  /\ pipe' = [pipe EXCEPT ![s] = @ + 1]
  /\ written' = [written EXCEPT ![s] = Saturated(@ + 1)]
  /\ UNCHANGED <<callerVars, state, manner, hit, end, expired>>

\* A descendant inherits the write ends of both pipes.
Spawn ==
  /\ state[Child] = "running" /\ state[Grandchild] = "absent"
  /\ state' = [state EXCEPT ![Grandchild] = "running"]
  /\ UNCHANGED <<callerVars, manner, hit, end, pipe, written, expired>>

\* Init, not the caller, collects an orphan.
Leave(q, how) ==
  /\ state[q] = "running"
  /\ state' = [state EXCEPT ![q] = IF q = Child THEN "zombie" ELSE "reaped"]
  /\ end' = IF q = Child THEN how ELSE end
  /\ UNCHANGED <<callerVars, manner, hit, pipe, written, expired>>

\* It ends by itself: it exits, or it crashes or is killed by someone else.
Exit(q) == \E how \in Codes \cup {"signal"} : Leave(q, how)

Die(q) ==
  /\ "kill" \in hit[q] \/ (manner[q] = "term" /\ "term" \in hit[q])
  /\ Leave(q, "signal")

Writes == pc # "done" /\ \E q \in Procs, s \in Streams : Write(q, s)

Command ==
  \/ Writes
  \/ pc # "done" /\ Spawn
  \/ pc # "done" /\ \E q \in Procs : Exit(q) \/ Die(q)

Tick ==
  /\ pc \notin {"launch", "done"}
  /\ ~expired /\ expired' = TRUE
  /\ UNCHANGED <<callerVars, commandVars>>

Returned == pc = "done" /\ UNCHANGED vars

Next == Caller \/ Command \/ Tick \/ Returned

\* The caller's thread is scheduled, time passes, and the kernel carries out
\* the signals it accepted.  The command itself need not do anything.
Spec ==
  /\ Init /\ [][Next]_vars
  /\ WF_vars(Caller) /\ WF_vars(Tick)
  /\ \A q \in Procs : WF_vars(pc # "done" /\ Die(q))

-----------------------------------------------------------------------------
(* Correctness. *)

\* run never returns with a child that it started and did not collect, nor
\* with a read end open: no zombie and no descriptor is left behind.
NothingLeftBehind ==
  pc = "done" => /\ state[Child] \in {"absent", "reaped"}
                 /\ \A s \in Streams : ~open[s]

\* No signal is sent once the child was collected: its number, and that of
\* its group, may by then belong to someone else.
NoSignalAfterReap ==
  [][hit' # hit => state[Child] # "reaped"]_vars

\* An answer that is not a timeout is the whole answer: the command's own
\* status and all that it and its descendant wrote, up to the limit.
ResultFaithful ==
  pc = "done" /\ ~timedOut /\ state[Child] # "absent" =>
    /\ ExitCode = end /\ end # "none"
    /\ got = written

\* run returns, whatever the command and its descendant do with the pipes
\* and with SIGTERM, if the command can be signalled and does not write for
\* ever.
TimeoutHonoured ==
  \/ []<><<Writes>>_vars
  \/ manner[Child] = "none"
  \/ <>(pc = "done")

\* The deadline is enforced on every command that can be signalled, as test
\* processRunnerEnforcesTimeout says of one that is silent.
TimeoutEnforced == manner[Child] # "none" => <>(pc = "done")
=============================================================================
