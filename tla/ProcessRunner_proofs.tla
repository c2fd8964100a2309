------------------------ MODULE ProcessRunner_proofs ------------------------
(***************************************************************************)
(* Proofs about ProcessRunner, for every set of exit codes, every way of   *)
(* taking signals, every pipe capacity and every output limit.             *)
(***************************************************************************)
EXTENDS ProcessRunner, TLAPS

(***************************************************************************)
(* The inductive invariant follows the child through the caller's loop.    *)
(* childExited means collected, but not the other way round: the second    *)
(* waitpid(WNOHANG) collects the child and leaves childExited false, and   *)
(* then only the last waitpid lies ahead.  Where kill is about to be       *)
(* called the child was not collected yet.                                 *)
(***************************************************************************)
ChildTracked ==
  /\ exited => state[Child] = "reaped"
  /\ state[Child] = "reaped" /\ ~exited => pc = "wait"
  /\ state[Child] = "absent" => pc \in {"launch", "done"}
  /\ pc = "launch" => state[Child] = "absent"
  /\ pc = "kill" => ~exited

EndsTracked ==
  /\ state[Child] = "absent" => \A s \in Streams : ~open[s]
  /\ pc = "close" => exited
  /\ pc = "done" /\ state[Child] # "absent" =>
       exited /\ \A s \in Streams : ~open[s]

Inv == TypeOK /\ ChildTracked /\ EndsTracked

LEMMA InitInv == Init => Inv
<1>. SUFFICES ASSUME Init PROVE Inv
  OBVIOUS
<1>. USE RunnerAssumption DEF Init
<1>1. 0 \in 0..OutputLimit /\ 0 \in 0..Capacity
  OBVIOUS
<1>2. /\ got \in [Streams -> 0..OutputLimit]
      /\ written \in [Streams -> 0..OutputLimit]
      /\ pipe \in [Streams -> 0..Capacity]
  BY <1>1
<1>3. /\ open \in [Streams -> BOOLEAN]
      /\ exited \in BOOLEAN /\ timedOut \in BOOLEAN /\ expired \in BOOLEAN
  OBVIOUS
<1>4. /\ state \in [Procs -> {"absent", "running", "zombie", "reaped"}]
      /\ hit \in [Procs -> SUBSET {"term", "kill"}]
  OBVIOUS
<1>5. TypeOK
  BY <1>2, <1>3, <1>4 DEF TypeOK
<1>6. ChildTracked /\ EndsTracked
  BY DEF ChildTracked, EndsTracked, Procs
<1>. QED
  BY <1>5, <1>6 DEF Inv

LEMMA LaunchKeepsInv ==
  ASSUME Inv, Launch
  PROVE  Inv'
<1>1. TypeOK'
  BY DEF Launch, Inv, TypeOK, Procs, Streams
<1>2. ChildTracked' /\ EndsTracked'
  BY DEF Launch, Inv, TypeOK, Procs, Streams, ChildTracked, EndsTracked
<1>. QED
  BY <1>1, <1>2 DEF Inv

LEMMA ReadKeepsInv ==
  ASSUME Inv, NEW s \in Streams, NEW next \in {"err", "reap"}, Read(s, next)
  PROVE  Inv'
<1>1. Saturated(got[s] + 1) \in 0..OutputLimit
  BY RunnerAssumption DEF Saturated, Inv, TypeOK
<1>2. open' \in [Streams -> BOOLEAN]
  BY DEF Read, Inv, TypeOK
<1>3. pipe' \in [Streams -> 0..Capacity] /\ got' \in [Streams -> 0..OutputLimit]
  <2>1. pipe \in [Streams -> 0..Capacity] /\ got \in [Streams -> 0..OutputLimit]
    BY DEF Inv, TypeOK
  <2>2. CASE UNCHANGED <<pipe, got>>
    BY <2>1, <2>2
  <2>3. CASE /\ pipe[s] > 0
             /\ pipe' = [pipe EXCEPT ![s] = @ - 1]
             /\ got' = [got EXCEPT ![s] = Saturated(@ + 1)]
    <3>1. pipe[s] - 1 \in 0..Capacity
      BY <2>1, <2>3, RunnerAssumption
    <3>2. pipe' \in [Streams -> 0..Capacity]
      BY <2>1, <2>3, <3>1
    <3>3. got' \in [Streams -> 0..OutputLimit]
      BY <1>1, <2>1, <2>3
    <3>. QED
      BY <3>2, <3>3
  <2>. QED
    BY <2>2, <2>3 DEF Read
<1>4. pc' \in {"out", "err", "reap"}
  BY DEF Read, Streams
<1>5. TypeOK'
  BY <1>2, <1>3, <1>4 DEF Read, Inv, TypeOK
<1>6. ChildTracked' /\ EndsTracked'
  BY DEF Read, Inv, TypeOK, Streams, ChildTracked, EndsTracked
<1>. QED
  BY <1>5, <1>6 DEF Inv

\* Collecting the child is where it becomes reaped.
LEMMA WaitsKeepInv ==
  ASSUME Inv, Reap \/ Insist \/ Wait
  PROVE  Inv'
<1>1. TypeOK'
  BY DEF Reap, Insist, Wait, Collect, Inv, TypeOK, Procs
<1>2. ChildTracked' /\ EndsTracked'
  BY DEF Reap, Insist, Wait, Collect, Inv, TypeOK, Procs, ChildTracked, EndsTracked
<1>. QED
  BY <1>1, <1>2 DEF Inv

LEMMA SignalsKeepInv ==
  ASSUME Inv, Term \/ Kill
  PROVE  Inv'
<1>1. hit' \in [Procs -> SUBSET {"term", "kill"}]
  BY DEF Term, Kill, Signal, Inv, TypeOK
<1>2. TypeOK'
  BY <1>1 DEF Term, Kill, Inv, TypeOK
<1>3. ChildTracked' /\ EndsTracked'
  BY DEF Term, Kill, Inv, TypeOK, ChildTracked, EndsTracked
<1>. QED
  BY <1>2, <1>3 DEF Inv

LEMMA LoopKeepsInv ==
  ASSUME Inv, Deadline \/ Close \/ Poll
  PROVE  Inv'
<1>1. TypeOK'
  BY DEF Deadline, Close, Poll, commandVars, Inv, TypeOK
<1>2. ChildTracked' /\ EndsTracked'
  BY DEF Deadline, Close, Poll, Unfinished, commandVars, Inv, TypeOK,
         ChildTracked, EndsTracked
<1>. QED
  BY <1>1, <1>2 DEF Inv

LEMMA CommandKeepsInv ==
  ASSUME Inv, Command
  PROVE  Inv'
<1>. USE RunnerAssumption DEF callerVars, Inv
<1>1. ASSUME NEW q \in Procs, NEW s \in Streams, Write(q, s)
      PROVE  Inv'
  <2>1. Saturated(written[s] + 1) \in 0..OutputLimit /\ pipe[s] + 1 \in 0..Capacity
    BY <1>1 DEF Saturated, Write, TypeOK
  <2>2. TypeOK'
    BY <1>1, <2>1 DEF Write, TypeOK
  <2>3. ChildTracked' /\ EndsTracked'
    BY <1>1 DEF Write, ChildTracked, EndsTracked
  <2>. QED
    BY <2>2, <2>3
<1>2. CASE Spawn
  <2>1. TypeOK'
    BY <1>2 DEF Spawn, TypeOK, Procs
  <2>2. ChildTracked' /\ EndsTracked'
    BY <1>2 DEF Spawn, TypeOK, Procs, ChildTracked, EndsTracked
  <2>. QED
    BY <2>1, <2>2
<1>3. ASSUME NEW q \in Procs, NEW how \in Codes \cup {"signal"}, Leave(q, how)
      PROVE  Inv'
  <2>1. TypeOK'
    BY <1>3 DEF Leave, TypeOK, Procs
  <2>2. ChildTracked' /\ EndsTracked'
    BY <1>3 DEF Leave, TypeOK, Procs, ChildTracked, EndsTracked
  <2>. QED
    BY <2>1, <2>2
<1>. QED
  BY <1>1, <1>2, <1>3 DEF Command, Writes, Exit, Die

LEMMA NextKeepsInv == Inv /\ [Next]_vars => Inv'
<1>. SUFFICES ASSUME Inv, [Next]_vars PROVE Inv'
  OBVIOUS
<1>1. CASE UNCHANGED vars
  BY <1>1 DEF vars, callerVars, commandVars, Inv, TypeOK, ChildTracked, EndsTracked
<1>2. CASE Tick
  BY <1>2 DEF Tick, callerVars, commandVars, Inv, TypeOK, ChildTracked, EndsTracked
<1>3. CASE Caller
  BY <1>3, LaunchKeepsInv, ReadKeepsInv, WaitsKeepInv, SignalsKeepInv,
     LoopKeepsInv DEF Caller, Streams
<1>. QED
  BY <1>1, <1>2, <1>3, CommandKeepsInv DEF Next, Returned

\* Every state of every run is well typed.
THEOREM TypeCorrect == Spec => []TypeOK
<1>1. Inv => TypeOK
  BY DEF Inv
<1>. QED
  BY <1>1, InitInv, NextKeepsInv, PTL DEF Spec

\* Whatever the command does and however signals are taken, run returns only
\* with its child collected and both read ends closed.
THEOREM ReturnsClean == Spec => []NothingLeftBehind
<1>1. Inv => NothingLeftBehind
  BY DEF Inv, TypeOK, ChildTracked, EndsTracked, NothingLeftBehind, Procs
<1>. QED
  BY <1>1, InitInv, NextKeepsInv, PTL DEF Spec

\* A signal goes out only while the child still holds its number.
LEMMA SignalsHitUnreaped ==
  ASSUME Inv, Next, hit' # hit
  PROVE  state[Child] # "reaped"
<1>1. CASE Caller
  <2>1. Term \/ Kill
    BY <1>1 DEF Caller, Launch, Read, Reap, Deadline, Insist, Wait, Close, Poll,
                commandVars
  <2>2. pc # "wait" /\ ~exited
    BY <2>1 DEF Term, Kill, Inv, ChildTracked
  <2>. QED
    BY <2>2 DEF Inv, ChildTracked
<1>2. CASE Command \/ Tick \/ Returned
  BY <1>2 DEF Command, Writes, Write, Spawn, Exit, Die, Leave, Tick, Returned, vars,
              commandVars
<1>. QED
  BY <1>1, <1>2 DEF Next

\* In no behaviour is a signal sent to a collected child or its group.
THEOREM SignalsAreSafe == Spec => NoSignalAfterReap
<1>1. Inv /\ [Next]_vars => [hit' # hit => state[Child] # "reaped"]_vars
  BY SignalsHitUnreaped
<1>. QED
  BY <1>1, InitInv, NextKeepsInv, PTL DEF Spec, NoSignalAfterReap
-----------------------------------------------------------------------------
(***************************************************************************)
(* What the answer says.  A stream that was closed before the deadline had *)
(* nothing left in it and nobody to write more; what is written is either  *)
(* kept or still in the pipe, up to the limit on both sides; and the       *)
(* status taken by waitpid is how the command ended.                       *)
(***************************************************************************)
DrainedBeforeClosed ==
  ~timedOut /\ state[Child] # "absent" =>
    \A s \in Streams : ~open[s] => Writers = {} /\ pipe[s] = 0

OutputKept == \A s \in Streams : written[s] = Saturated(got[s] + pipe[s])

StatusTrue ==
  /\ state[Child] \in {"zombie", "reaped"} => end \in Codes \cup {"signal"}
  /\ state[Child] = "reaped" => status = end
  /\ pc \in {"term", "insist", "kill", "wait", "close"} => timedOut

AnswerInv == DrainedBeforeClosed /\ OutputKept /\ StatusTrue

LEMMA InitAnswerInv == Init => AnswerInv
<1>. SUFFICES ASSUME Init PROVE AnswerInv
  OBVIOUS
<1>1. DrainedBeforeClosed /\ StatusTrue
  BY DEF Init, DrainedBeforeClosed, StatusTrue, Procs
<1>2. OutputKept
  BY RunnerAssumption DEF Init, OutputKept, Saturated
<1>. QED
  BY <1>1, <1>2 DEF AnswerInv

\* Reading moves a buffer from the pipe to the result, and closes a stream
\* only when the pipe is empty and no process can write to it any more.
LEMMA ReadKeepsAnswer ==
  ASSUME Inv, AnswerInv, NEW s \in Streams, NEW next \in {"err", "reap"},
         Read(s, next)
  PROVE  AnswerInv'
<1>. USE DEF Inv, TypeOK, AnswerInv
<1>1. Writers' = Writers /\ UNCHANGED <<timedOut, state, written, end, status>>
  BY DEF Read, Writers
<1>2. StatusTrue'
  BY DEF Read, StatusTrue, Streams
<1>3. CASE open[s] /\ pipe[s] > 0
  <2>1. /\ pipe' = [pipe EXCEPT ![s] = @ - 1] /\ open' = open
        /\ got' = [got EXCEPT ![s] = Saturated(@ + 1)]
    BY <1>3 DEF Read
  <2>2. DrainedBeforeClosed'
    BY <1>1, <1>3, <2>1 DEF DrainedBeforeClosed
  <2>3. ASSUME NEW r \in Streams PROVE written'[r] = Saturated(got[r] + pipe[r])'
    <3>1. CASE r # s
      BY <1>1, <2>1, <3>1 DEF OutputKept, Saturated
    <3>2. CASE r = s
      <4>1. got'[s] = Saturated(got[s] + 1) /\ pipe'[s] = pipe[s] - 1
        BY <2>1
      <4>2. written'[s] = Saturated(got[s] + pipe[s])
        BY <1>1 DEF OutputKept
      <4>3. got[s] \in 0..OutputLimit /\ pipe[s] \in 0..Capacity
        OBVIOUS
      <4>. QED
        BY <1>3, <3>2, <4>1, <4>2, <4>3, RunnerAssumption DEF Saturated
    <3>. QED
      BY <3>1, <3>2
  <2>. QED
    BY <1>2, <2>2, <2>3 DEF OutputKept
<1>4. CASE ~(open[s] /\ pipe[s] > 0)
  <2>1. open' = [open EXCEPT ![s] = @ /\ Writers # {}] /\ UNCHANGED <<pipe, got>>
    BY <1>4 DEF Read
  <2>2. OutputKept'
    BY <1>1, <2>1 DEF OutputKept, Saturated
  <2>3. ASSUME ~timedOut, state[Child] # "absent", NEW r \in Streams, ~open'[r]
        PROVE  Writers = {} /\ pipe[r] = 0
    <3>1. CASE ~open[r]
      BY <2>3, <3>1 DEF DrainedBeforeClosed
    <3>2. CASE open[r]
      <4>1. r = s /\ Writers = {}
        BY <2>1, <2>3, <3>2
      <4>2. pipe[s] \in 0..Capacity /\ ~(pipe[s] > 0)
        BY <1>4, <3>2, <4>1
      <4>. QED
        BY <4>1, <4>2, RunnerAssumption
    <3>. QED
      BY <3>1, <3>2
  <2>4. DrainedBeforeClosed'
    BY <1>1, <2>1, <2>3 DEF DrainedBeforeClosed
  <2>. QED
    BY <1>2, <2>2, <2>4
<1>. QED
  BY <1>3, <1>4

\* The other calls of the caller leave the streams alone until the deadline
\* has been reported.
LEMMA CallerKeepsAnswer ==
  ASSUME Inv, AnswerInv, Caller
  PROVE  AnswerInv'
<1>. USE DEF Inv, TypeOK, AnswerInv
<1>1. CASE Launch
  <2>1. OutputKept'
    BY <1>1 DEF Launch, OutputKept, Saturated
  <2>2. DrainedBeforeClosed' /\ StatusTrue'
    BY <1>1 DEF Launch, DrainedBeforeClosed, StatusTrue, ChildTracked, Procs
  <2>. QED
    BY <2>1, <2>2
<1>2. CASE Read("out", "err") \/ Read("err", "reap")
  BY <1>2, ReadKeepsAnswer DEF Streams
<1>3. CASE Reap \/ Insist \/ Wait
  <2>1. OutputKept'
    BY <1>3 DEF Reap, Insist, Wait, OutputKept, Saturated
  <2>2. StatusTrue'
    BY <1>3 DEF Reap, Insist, Wait, Collect, StatusTrue, Procs
  <2>3. Writers' = Writers /\ (state'[Child] = "absent" => state[Child] = "absent")
    BY <1>3, RunnerAssumption DEF Reap, Insist, Wait, Collect, Writers, Procs
  <2>4. DrainedBeforeClosed'
    BY <1>3, <2>3 DEF Reap, Insist, Wait, DrainedBeforeClosed
  <2>. QED
    BY <2>1, <2>2, <2>4
<1>4. CASE Deadline \/ Term \/ Kill \/ Close \/ Poll
  <2>1. UNCHANGED <<got, status, state, end, pipe, written>>
    BY <1>4 DEF Deadline, Term, Kill, Close, Poll, commandVars
  <2>2. OutputKept'
    BY <2>1 DEF OutputKept, Saturated
  <2>3. StatusTrue'
    BY <1>4, <2>1 DEF Deadline, Term, Kill, Close, Poll, StatusTrue
  <2>4. timedOut' \/ (UNCHANGED <<open, timedOut>>)
    BY <1>4 DEF Deadline, Term, Kill, Close, Poll, StatusTrue
  <2>5. DrainedBeforeClosed'
    BY <2>1, <2>4 DEF DrainedBeforeClosed, Writers
  <2>. QED
    BY <2>2, <2>3, <2>5
<1>. QED
  BY <1>1, <1>2, <1>3, <1>4 DEF Caller

\* What the command does adds to a pipe as much as to what was written, and
\* once nobody runs nobody starts.
LEMMA CommandKeepsAnswer ==
  ASSUME Inv, AnswerInv, Command
  PROVE  AnswerInv'
<1>. USE DEF Inv, TypeOK, AnswerInv, callerVars
<1>1. ASSUME NEW q \in Procs, NEW s \in Streams, Write(q, s)
      PROVE  AnswerInv'
  <2>1. /\ q \in Writers /\ UNCHANGED <<callerVars, state, end>>
        /\ pipe' = [pipe EXCEPT ![s] = @ + 1]
        /\ written' = [written EXCEPT ![s] = Saturated(@ + 1)]
    BY <1>1 DEF Write, Writers
  <2>2. DrainedBeforeClosed'
    BY <2>1 DEF DrainedBeforeClosed, Writers
  <2>3. ASSUME NEW r \in Streams PROVE written'[r] = Saturated(got[r] + pipe[r])'
    <3>1. written[r] = Saturated(got[r] + pipe[r])
      BY DEF OutputKept
    <3>2. got[r] \in 0..OutputLimit /\ pipe[r] \in 0..Capacity
      OBVIOUS
    <3>. QED
      BY <2>1, <3>1, <3>2, RunnerAssumption DEF Saturated
  <2>4. StatusTrue'
    BY <2>1 DEF StatusTrue
  <2>. QED
    BY <2>2, <2>3, <2>4 DEF OutputKept
<1>2. CASE Spawn
  <2>1. OutputKept'
    BY <1>2 DEF Spawn, OutputKept, Saturated
  <2>2. StatusTrue'
    BY <1>2, RunnerAssumption DEF Spawn, StatusTrue, Procs
  <2>3. Child \in Writers
    BY <1>2 DEF Spawn, Writers, Procs
  <2>4. DrainedBeforeClosed'
    BY <1>2, <2>3 DEF Spawn, DrainedBeforeClosed, Writers, Procs
  <2>. QED
    BY <2>1, <2>2, <2>4
<1>3. ASSUME NEW q \in Procs, NEW how \in Codes \cup {"signal"}, Leave(q, how)
      PROVE  AnswerInv'
  <2>1. OutputKept'
    BY <1>3 DEF Leave, OutputKept, Saturated
  <2>2. StatusTrue'
    BY <1>3, RunnerAssumption DEF Leave, StatusTrue, Procs
  <2>3. q \in Writers
    BY <1>3 DEF Leave, Writers
  <2>4. state'[Child] = "absent" => state[Child] = "absent"
    BY <1>3 DEF Leave, Procs
  <2>5. DrainedBeforeClosed'
    BY <1>3, <2>3, <2>4 DEF Leave, DrainedBeforeClosed
  <2>. QED
    BY <2>1, <2>2, <2>5
<1>. QED
  BY <1>1, <1>2, <1>3 DEF Command, Writes, Exit, Die

LEMMA NextKeepsAnswer == Inv /\ AnswerInv /\ [Next]_vars => AnswerInv'
<1>. SUFFICES ASSUME Inv, AnswerInv, [Next]_vars PROVE AnswerInv'
  OBVIOUS
<1>1. CASE UNCHANGED vars \/ Tick
  BY <1>1 DEF Tick, vars, callerVars, commandVars, AnswerInv, DrainedBeforeClosed,
              OutputKept, Saturated, StatusTrue, Writers
<1>. QED
  BY <1>1, CallerKeepsAnswer, CommandKeepsAnswer DEF Next, Returned

\* An answer that is not a timeout carries the command's own status and all
\* that it and its descendant wrote, up to the limit, whatever the command
\* does and however its writes fall between the caller's reads.
THEOREM AnswersAreFaithful == Spec => []ResultFaithful
<1>1. Inv /\ AnswerInv => ResultFaithful
  <2>. SUFFICES ASSUME Inv, AnswerInv, pc = "done", ~timedOut, state[Child] # "absent"
                PROVE  ExitCode = end /\ end # "none" /\ got = written
    BY DEF ResultFaithful
  <2>. USE DEF Inv, TypeOK, AnswerInv
  <2>1. exited /\ state[Child] = "reaped" /\ \A s \in Streams : ~open[s]
    BY DEF EndsTracked, ChildTracked
  <2>2. ExitCode = end /\ end # "none"
    BY <2>1, RunnerAssumption DEF ExitCode, StatusTrue
  <2>3. ASSUME NEW s \in Streams PROVE got[s] = written[s]
    <3>1. pipe[s] = 0 /\ written[s] = Saturated(got[s] + pipe[s])
      BY <2>1 DEF DrainedBeforeClosed, OutputKept
    <3>2. got[s] \in 0..OutputLimit
      OBVIOUS
    <3>. QED
      BY <3>1, <3>2, RunnerAssumption DEF Saturated
  <2>. QED
    BY <2>2, <2>3
<1>. QED
  BY <1>1, InitInv, NextKeepsInv, InitAnswerInv, NextKeepsAnswer, PTL DEF Spec
=============================================================================
