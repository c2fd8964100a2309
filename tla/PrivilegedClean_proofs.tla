------------------------- MODULE PrivilegedClean_proofs -------------------------
(***************************************************************************)
(* Proofs about PrivilegedClean, for any number of cleaners and actions,   *)
(* any buffer and any number of deaths.                                    *)
(***************************************************************************)
EXTENDS PrivilegedClean, TLAPS

\* A record of success is about something that was done, wherever it is on
\* its way.
Truthful ==
  \A c \in Cleaners, a \in Actions :
    <<a, "ok">> \in buffer[c] \cup pipe[c] \cup kept[c] => did[c][a] = "done"

\* The action at hand is a requested one, and its result is what became of it.
AtHand ==
  \A c \in Cleaners :
    /\ work[c] # "none" => current[c] \in request[c]
    /\ work[c] = "running" => did[c][current[c]] = "begun"
    /\ work[c] = "ok" => did[c][current[c]] = "done"

\* What the helper still has to do was requested and not begun.
Ahead ==
  \A c \in Cleaners :
    /\ todo[c] \subseteq request[c]
    /\ \A a \in todo[c] : did[c][a] = "no"
    /\ helper[c] \in {"none", "prompt", "starting"} =>
         todo[c] = {} /\ work[c] = "none" /\ \A a \in Actions : did[c][a] = "no"

\* A helper is there only while its caller has not reported.
Bracketed ==
  \A c \in Cleaners :
    /\ caller[c] = "idle" => helper[c] = "none"
    /\ caller[c] = "reported" => helper[c] \in {"none", "gone"}
    /\ caller[c] # "reported" => \A a \in Actions : report[c][a] = "none"
    /\ helper[c] \in {"leaving", "gone"} => todo[c] = {}

\* Work goes on in a helper that holds the lock, or after a death.
Locked ==
  \A c \in Cleaners :
    /\ helper[c] = "working" => lock = c
    /\ work[c] # "none" /\ ~crashed[c] => helper[c] = "working"

IInv == TypeOK /\ Truthful /\ AtHand /\ Ahead /\ Bracketed /\ Locked

-----------------------------------------------------------------------------
\* The invariant holds before anything is started.
LEMMA InitIInv == Init => IInv
<1> SUFFICES ASSUME Init PROVE IInv
  OBVIOUS
<1>1. TypeOK
  BY PrivilegedAssumption DEF Init, TypeOK, Lines
<1>2. Truthful /\ AtHand /\ Ahead /\ Bracketed /\ Locked
  BY DEF Init, Truthful, AtHand, Ahead, Bracketed, Locked
<1> QED
  BY <1>1, <1>2 DEF IInv

\* A result line leaves for the buffer or the pipe, and nothing else does.
LEMMA EmitOnly ==
  ASSUME TypeOK, NEW c \in Cleaners, NEW line \in Lines, Emit(c, line)
  PROVE  /\ buffer' \in [Cleaners -> SUBSET Lines]
         /\ pipe' \in [Cleaners -> SUBSET Lines]
         /\ \A d \in Cleaners, m \in Lines :
              m \in buffer'[d] \cup pipe'[d] =>
                m \in buffer[d] \cup pipe[d] \/ (d = c /\ m = line)
<1>1. CASE /\ buffer' = [buffer EXCEPT ![c] = @ \cup {line}]
           /\ UNCHANGED pipe
  BY <1>1 DEF TypeOK
<1>2. ASSUME NEW out \in {buffer[c], buffer[c] \cup {line}},
             pipe' = [pipe EXCEPT ![c] = @ \cup out],
             buffer' = [buffer EXCEPT ![c] = {line}]
      PROVE  /\ buffer' \in [Cleaners -> SUBSET Lines]
             /\ pipe' \in [Cleaners -> SUBSET Lines]
             /\ \A d \in Cleaners, m \in Lines :
                  m \in buffer'[d] \cup pipe'[d] =>
                    m \in buffer[d] \cup pipe[d] \/ (d = c /\ m = line)
  <2>1. out \subseteq Lines /\ out \subseteq buffer[c] \cup {line}
    BY <1>2 DEF TypeOK
  <2> QED
    BY <1>2, <2>1 DEF TypeOK
<1> QED
  BY <1>1, <1>2 DEF Emit

\* The end of the action at hand, with a result that its outcome justifies,
\* preserves the invariant.
LEMMA EndedIInv ==
  ASSUME IInv, NEW c \in Cleaners, NEW result, NEW outcome,
         work[c] = "running", Ended(c, result, outcome),
         \/ result = "ok" /\ outcome = "done"
         \/ result = "failed" /\ outcome \in {"done", "failed"}
  PROVE  IInv'
<1> USE PrivilegedAssumption
<1> USE DEF callerVars, Ended
<1> DEFINE a == current[c]
<1>1. a \in request[c] /\ a \in Actions /\ did[c][a] = "begun"
  BY DEF IInv, TypeOK, AtHand
<1>2. /\ work' = [work EXCEPT ![c] = result]
      /\ did' \in [Cleaners -> [Actions -> {"no", "begun", "done", "failed"}]]
      /\ \A d \in Cleaners, b \in Actions :
           did'[d][b] = IF d = c /\ b = a THEN outcome ELSE did[d][b]
  BY <1>1 DEF IInv, TypeOK
<1>3. TypeOK'
  BY <1>1, <1>2 DEF IInv, TypeOK, Lines
<1>4. Truthful'
  BY <1>1, <1>2 DEF IInv, TypeOK, Truthful
<1>5. AtHand'
  <2> SUFFICES ASSUME NEW d \in Cleaners
               PROVE  /\ work'[d] # "none" => current[d] \in request[d]
                      /\ work'[d] = "running" => did'[d][current[d]] = "begun"
                      /\ work'[d] = "ok" => did'[d][current[d]] = "done"
    BY DEF AtHand
  <2>1. CASE d = c
    BY <1>1, <1>2, <2>1 DEF IInv, TypeOK
  <2>2. CASE d # c
    <3>1. work'[d] = work[d]
      BY <1>2, <2>2 DEF IInv, TypeOK
    <3>2. work[d] # "none" => current[d] \in Actions
      BY DEF IInv, TypeOK, AtHand
    <3> QED
      BY <1>2, <2>2, <3>1, <3>2 DEF IInv, AtHand
  <2> QED
    BY <2>1, <2>2
<1>6. Ahead'
  BY <1>1, <1>2 DEF IInv, TypeOK, Ahead
<1>7. Bracketed'
  BY DEF IInv, Bracketed
<1>8. Locked'
  BY <1>2 DEF IInv, TypeOK, Locked
<1> QED
  BY <1>3, <1>4, <1>5, <1>6, <1>7, <1>8 DEF IInv

\* Every step preserves the invariant.
LEMMA StepIInv == IInv /\ [Next]_vars => IInv'
<1> SUFFICES ASSUME IInv, [Next]_vars PROVE IInv'
  OBVIOUS
<1> USE PrivilegedAssumption
<1> USE DEF callerVars, helperVars
<1>1. ASSUME NEW c \in Cleaners, Start(c) PROVE IInv'
  <2>1. CASE /\ caller' = [caller EXCEPT ![c] = "waiting"]
            /\ helper' = [helper EXCEPT ![c] = "prompt"]
            /\ UNCHANGED <<report, kept>>
    <3>1. TypeOK'
      BY <1>1, <2>1 DEF IInv, TypeOK, Lines, Ahead, Bracketed, Start
    <3>2. Truthful'
      BY <1>1, <2>1 DEF IInv, TypeOK, Truthful, Lines, Ahead, Bracketed, Start
    <3>3. AtHand'
      BY <1>1, <2>1 DEF IInv, TypeOK, AtHand, Ahead, Bracketed, Start
    <3>4. Ahead'
      BY <1>1, <2>1 DEF IInv, TypeOK, Ahead, Bracketed, Start
    <3>5. Bracketed'
      BY <1>1, <2>1 DEF IInv, TypeOK, Bracketed, Ahead, Start
    <3>6. Locked'
      BY <1>1, <2>1 DEF IInv, TypeOK, Locked, Ahead, Bracketed, Start
    <3> QED
      BY <3>1, <3>2, <3>3, <3>4, <3>5, <3>6 DEF IInv
  <2>2. CASE Report(c, {}) /\ UNCHANGED helper
    <3>1. TypeOK'
      BY <1>1, <2>2 DEF IInv, TypeOK, Lines, Ahead, Bracketed, Start, Report
    <3>2. Truthful'
      BY <1>1, <2>2 DEF IInv, TypeOK, Truthful, Lines, Ahead, Bracketed, Start, Report
    <3>3. AtHand'
      BY <1>1, <2>2 DEF IInv, TypeOK, AtHand, Ahead, Bracketed, Start, Report
    <3>4. Ahead'
      BY <1>1, <2>2 DEF IInv, TypeOK, Ahead, Bracketed, Start, Report
    <3>5. Bracketed'
      BY <1>1, <2>2 DEF IInv, TypeOK, Bracketed, Ahead, Start, Report
    <3>6. Locked'
      BY <1>1, <2>2 DEF IInv, TypeOK, Locked, Ahead, Bracketed, Start, Report
    <3> QED
      BY <3>1, <3>2, <3>3, <3>4, <3>5, <3>6 DEF IInv
  <2> QED
    BY <1>1, <2>1, <2>2 DEF Start
<1>2. ASSUME NEW c \in Cleaners, Read(c) PROVE IInv'
  <2>1. TypeOK'
    BY <1>2 DEF IInv, TypeOK, Lines, Read
  <2>2. Truthful'
    BY <1>2 DEF IInv, TypeOK, Truthful, Lines, Read
  <2>3. AtHand'
    BY <1>2 DEF IInv, TypeOK, AtHand, Read
  <2>4. Ahead'
    BY <1>2 DEF IInv, TypeOK, Ahead, Read
  <2>5. Bracketed'
    BY <1>2 DEF IInv, TypeOK, Bracketed, Read
  <2>6. Locked'
    BY <1>2 DEF IInv, TypeOK, Locked, Read
  <2> QED
    BY <2>1, <2>2, <2>3, <2>4, <2>5, <2>6 DEF IInv
<1>3. ASSUME NEW c \in Cleaners, Complete(c) PROVE IInv'
  <2>1. TypeOK'
    BY <1>3 DEF IInv, TypeOK, Lines, Complete, Report
  <2>2. Truthful'
    BY <1>3 DEF IInv, TypeOK, Truthful, Lines, Complete, Report
  <2>3. AtHand'
    BY <1>3 DEF IInv, TypeOK, AtHand, Complete, Report
  <2>4. Ahead'
    BY <1>3 DEF IInv, TypeOK, Ahead, Complete, Report
  <2>5. Bracketed'
    BY <1>3 DEF IInv, TypeOK, Bracketed, Complete, Report
  <2>6. Locked'
    BY <1>3 DEF IInv, TypeOK, Locked, Complete, Report
  <2> QED
    BY <2>1, <2>2, <2>3, <2>4, <2>5, <2>6 DEF IInv
<1>4. ASSUME NEW c \in Cleaners, Expire(c) PROVE IInv'
  <2>1. TypeOK'
    BY <1>4 DEF IInv, TypeOK, Lines, Ahead, Bracketed, Expire
  <2>2. Truthful'
    BY <1>4 DEF IInv, TypeOK, Truthful, Lines, Ahead, Bracketed, Expire
  <2>3. AtHand'
    BY <1>4 DEF IInv, TypeOK, AtHand, Ahead, Bracketed, Expire
  <2>4. Ahead'
    BY <1>4 DEF IInv, TypeOK, Ahead, Bracketed, Expire
  <2>5. Bracketed'
    BY <1>4 DEF IInv, TypeOK, Bracketed, Ahead, Expire
  <2>6. Locked'
    BY <1>4 DEF IInv, TypeOK, Locked, Ahead, Bracketed, Expire
  <2> QED
    BY <2>1, <2>2, <2>3, <2>4, <2>5, <2>6 DEF IInv
<1>5. ASSUME NEW c \in Cleaners, GiveUp(c) PROVE IInv'
  <2>1. TypeOK'
    BY <1>5 DEF IInv, TypeOK, Lines, GiveUp, Report
  <2>2. Truthful'
    BY <1>5 DEF IInv, TypeOK, Truthful, Lines, GiveUp, Report
  <2>3. AtHand'
    BY <1>5 DEF IInv, TypeOK, AtHand, GiveUp, Report
  <2>4. Ahead'
    BY <1>5 DEF IInv, TypeOK, Ahead, GiveUp, Report
  <2>5. Bracketed'
    BY <1>5 DEF IInv, TypeOK, Bracketed, GiveUp, Report
  <2>6. Locked'
    BY <1>5 DEF IInv, TypeOK, Locked, GiveUp, Report
  <2> QED
    BY <2>1, <2>2, <2>3, <2>4, <2>5, <2>6 DEF IInv
<1>6. ASSUME NEW c \in Cleaners, Refuse(c) PROVE IInv'
  <2>1. TypeOK'
    BY <1>6 DEF IInv, TypeOK, Lines, Ahead, Bracketed, Refuse
  <2>2. Truthful'
    BY <1>6 DEF IInv, TypeOK, Truthful, Lines, Ahead, Bracketed, Refuse
  <2>3. AtHand'
    BY <1>6 DEF IInv, TypeOK, AtHand, Ahead, Bracketed, Refuse
  <2>4. Ahead'
    BY <1>6 DEF IInv, TypeOK, Ahead, Bracketed, Refuse
  <2>5. Bracketed'
    BY <1>6 DEF IInv, TypeOK, Bracketed, Ahead, Refuse
  <2>6. Locked'
    BY <1>6 DEF IInv, TypeOK, Locked, Ahead, Bracketed, Refuse
  <2> QED
    BY <2>1, <2>2, <2>3, <2>4, <2>5, <2>6 DEF IInv
<1>7. ASSUME NEW c \in Cleaners, Authorize(c) PROVE IInv'
  <2>1. TypeOK'
    BY <1>7 DEF IInv, TypeOK, Lines, Ahead, Bracketed, Authorize
  <2>2. Truthful'
    BY <1>7 DEF IInv, TypeOK, Truthful, Lines, Ahead, Bracketed, Authorize
  <2>3. AtHand'
    BY <1>7 DEF IInv, TypeOK, AtHand, Ahead, Bracketed, Authorize
  <2>4. Ahead'
    BY <1>7 DEF IInv, TypeOK, Ahead, Bracketed, Authorize
  <2>5. Bracketed'
    BY <1>7 DEF IInv, TypeOK, Bracketed, Ahead, Authorize
  <2>6. Locked'
    BY <1>7 DEF IInv, TypeOK, Locked, Ahead, Bracketed, Authorize
  <2> QED
    BY <2>1, <2>2, <2>3, <2>4, <2>5, <2>6 DEF IInv
<1>8. ASSUME NEW c \in Cleaners, Lock(c) PROVE IInv'
  <2>1. CASE lock = None
    <3>9. request \in [Cleaners -> SUBSET Actions]
      BY Zenon DEF IInv, TypeOK
    <3>10. /\ lock' = c
           /\ helper' = [helper EXCEPT ![c] = "working"]
           /\ todo' = [todo EXCEPT ![c] = request[c]]
      BY <1>8, <2>1 DEF Lock
    <3>7. /\ request[c] \subseteq Actions
          /\ lock' = c
          /\ helper' = [helper EXCEPT ![c] = "working"]
          /\ todo' = [todo EXCEPT ![c] = request[c]]
      BY <3>9, <3>10
    <3>8. UNCHANGED <<callerVars, expired, current, work, buffer, pipe, did, crashed, crashes>>
      BY <1>8 DEF Lock
    <3>1. TypeOK'
      BY <3>7, <3>8 DEF IInv, TypeOK, Lines
    <3>2. Truthful'
      BY <1>8, <2>1 DEF IInv, TypeOK, Truthful, Lines, Ahead, Lock
    <3>3. AtHand'
      BY <1>8, <2>1 DEF IInv, TypeOK, AtHand, Ahead, Lock
    <3>4. Ahead'
      BY <1>8, <3>7, <3>8 DEF IInv, TypeOK, Ahead, Lock
    <3>5. Bracketed'
      BY <1>8, <2>1 DEF IInv, TypeOK, Bracketed, Ahead, Lock
    <3>6. Locked'
      BY <1>8, <2>1 DEF IInv, TypeOK, Locked, Ahead, Lock
    <3> QED
      BY <3>1, <3>2, <3>3, <3>4, <3>5, <3>6 DEF IInv
  <2>2. CASE lock # None
    <3>7. /\ helper[c] = "starting"
          /\ helper' = [helper EXCEPT ![c] = "gone"]
          /\ UNCHANGED <<lock, todo>>
      BY <1>8, <2>2 DEF Lock
    <3>8. UNCHANGED <<callerVars, expired, current, work, buffer, pipe, did, crashed, crashes>>
      BY <1>8 DEF Lock
    <3>1. TypeOK'
      BY <3>7, <3>8 DEF IInv, TypeOK, Lines
    <3>2. Truthful'
      BY <1>8, <2>2 DEF IInv, TypeOK, Truthful, Lines, Ahead, Lock
    <3>3. AtHand'
      BY <1>8, <2>2 DEF IInv, TypeOK, AtHand, Ahead, Lock
    <3>4. Ahead'
      BY <3>7, <3>8 DEF IInv, TypeOK, Ahead
    <3>5. Bracketed'
      BY <1>8, <2>2 DEF IInv, TypeOK, Bracketed, Ahead, Lock
    <3>6. Locked'
      BY <1>8, <2>2 DEF IInv, TypeOK, Locked, Ahead, Lock
    <3> QED
      BY <3>1, <3>2, <3>3, <3>4, <3>5, <3>6 DEF IInv
  <2> QED
    BY <1>8, <2>1, <2>2
<1>9. ASSUME NEW c \in Cleaners, NEW a \in Actions, Unavailable(c, a) PROVE IInv'
  <2> DEFINE line == <<a, "failed">>
  <2>1. line \in Lines /\ Emit(c, line)
    BY <1>9 DEF IInv, TypeOK, AtHand, Lines, Unavailable, AtNext
  <2>2. /\ buffer' \in [Cleaners -> SUBSET Lines]
        /\ pipe' \in [Cleaners -> SUBSET Lines]
        /\ \A d \in Cleaners, m \in Lines :
             m \in buffer'[d] \cup pipe'[d] =>
               m \in buffer[d] \cup pipe[d] \/ (d = c /\ m = line)
    BY <2>1, EmitOnly DEF IInv
  <2>3. TypeOK'
    BY <1>9, <2>2 DEF IInv, TypeOK, Unavailable, AtNext
  <2>4. Truthful'
    <3> SUFFICES ASSUME NEW d \in Cleaners, NEW b \in Actions,
                        <<b, "ok">> \in buffer'[d] \cup pipe'[d] \cup kept'[d]
                 PROVE  did'[d][b] = "done"
      BY DEF Truthful
    <3>1. <<b, "ok">> \in Lines /\ UNCHANGED <<did, kept>>
      BY <1>9 DEF Lines, Unavailable
    <3>2. <<b, "ok">> \in buffer[d] \cup pipe[d] \cup kept[d] \/ (d = c /\ <<b, "ok">> = line)
      BY <2>2, <3>1
    <3>3. <<b, "ok">> # line
      OBVIOUS
    <3> QED
      BY <3>1, <3>2, <3>3 DEF IInv, Truthful
  <2>5. AtHand'
    BY <1>9 DEF IInv, TypeOK, AtHand, Unavailable, AtNext
  <2>6. Ahead'
    BY <1>9 DEF IInv, TypeOK, Ahead, Unavailable, AtNext
  <2>7. Bracketed'
    BY <1>9 DEF IInv, TypeOK, Bracketed, Unavailable, AtNext
  <2>8. Locked'
    BY <1>9 DEF IInv, TypeOK, Locked, Unavailable, AtNext
  <2> QED
    BY <2>3, <2>4, <2>5, <2>6, <2>7, <2>8 DEF IInv
<1>10. ASSUME NEW c \in Cleaners, NEW a \in Actions, Begin(c, a) PROVE IInv'
  <2>1. TypeOK'
    BY <1>10 DEF IInv, TypeOK, Lines, AtHand, Ahead, Begin, AtNext
  <2>2. Truthful'
    BY <1>10 DEF IInv, TypeOK, Truthful, Lines, AtHand, Ahead, Begin, AtNext
  <2>3. AtHand'
    BY <1>10 DEF IInv, TypeOK, AtHand, Ahead, Begin, AtNext
  <2>4. Ahead'
    BY <1>10 DEF IInv, TypeOK, Ahead, AtHand, Begin, AtNext
  <2>5. Bracketed'
    BY <1>10 DEF IInv, TypeOK, Bracketed, AtHand, Ahead, Begin, AtNext
  <2>6. Locked'
    BY <1>10 DEF IInv, TypeOK, Locked, AtHand, Ahead, Begin, AtNext
  <2> QED
    BY <2>1, <2>2, <2>3, <2>4, <2>5, <2>6 DEF IInv
<1>11. ASSUME NEW c \in Cleaners, DeletionEnds(c) PROVE IInv'
  BY <1>11, EndedIInv DEF DeletionEnds
<1>12. ASSUME NEW c \in Cleaners, ToolTimesOut(c) PROVE IInv'
  BY <1>12, EndedIInv DEF ToolTimesOut
<1>13. ASSUME NEW c \in Cleaners, Result(c) PROVE IInv'
  <2> DEFINE line == <<current[c], work[c]>>
  <2>1. line \in Lines /\ Emit(c, line)
    BY <1>13 DEF IInv, TypeOK, AtHand, Lines, Result
  <2>2. /\ buffer' \in [Cleaners -> SUBSET Lines]
        /\ pipe' \in [Cleaners -> SUBSET Lines]
        /\ \A d \in Cleaners, m \in Lines :
             m \in buffer'[d] \cup pipe'[d] =>
               m \in buffer[d] \cup pipe[d] \/ (d = c /\ m = line)
    BY <2>1, EmitOnly DEF IInv
  <2>3. TypeOK'
    <3>1. /\ current' = [current EXCEPT ![c] = None]
          /\ work' = [work EXCEPT ![c] = "none"]
          /\ UNCHANGED <<request, report, caller, kept, expired, helper, todo, lock, did,
                        crashed, crashes>>
      BY <1>13 DEF Result, callerVars
    <3>2. /\ current' \in [Cleaners -> Actions \cup {None}]
          /\ work' \in [Cleaners -> {"none", "running", "ok", "failed"}]
      BY <3>1 DEF IInv, TypeOK
    <3>3. \A d \in Cleaners : work'[d] # "none" => current'[d] # None
      BY <3>1 DEF IInv, TypeOK
    <3> QED
      BY <2>2, <3>1, <3>2, <3>3 DEF IInv, TypeOK
  <2>4. Truthful'
    <3> SUFFICES ASSUME NEW d \in Cleaners, NEW b \in Actions,
                        <<b, "ok">> \in buffer'[d] \cup pipe'[d] \cup kept'[d]
                 PROVE  did'[d][b] = "done"
      BY DEF Truthful
    <3>1. <<b, "ok">> \in Lines /\ UNCHANGED <<did, kept>>
      BY <1>13 DEF Lines, Result
    <3>2. <<b, "ok">> \in buffer[d] \cup pipe[d] \cup kept[d] \/ (d = c /\ <<b, "ok">> = line)
      BY <2>2, <3>1
    <3>3. <<b, "ok">> = line => did[c][b] = "done"
      BY DEF IInv, AtHand
    <3> QED
      BY <3>1, <3>2, <3>3 DEF IInv, Truthful
  <2>5. AtHand'
    BY <1>13 DEF IInv, TypeOK, AtHand, Result
  <2>6. Ahead'
    BY <1>13 DEF IInv, TypeOK, Ahead, Result
  <2>7. Bracketed'
    BY <1>13 DEF IInv, TypeOK, Bracketed, Result
  <2>8. Locked'
    BY <1>13 DEF IInv, TypeOK, Locked, Result
  <2> QED
    BY <2>3, <2>4, <2>5, <2>6, <2>7, <2>8 DEF IInv
<1>14. ASSUME NEW c \in Cleaners, Unlock(c) PROVE IInv'
  <2>1. TypeOK'
    BY <1>14 DEF IInv, TypeOK, Lines, Locked, Unlock
  <2>2. Truthful'
    BY <1>14 DEF IInv, TypeOK, Truthful, Lines, Locked, Unlock
  <2>3. AtHand'
    BY <1>14 DEF IInv, TypeOK, AtHand, Locked, Unlock
  <2>4. Ahead'
    BY <1>14 DEF IInv, TypeOK, Ahead, Locked, Unlock
  <2>5. Bracketed'
    BY <1>14 DEF IInv, TypeOK, Bracketed, Locked, Unlock
  <2>6. Locked'
    BY <1>14 DEF IInv, TypeOK, Locked, Unlock
  <2> QED
    BY <2>1, <2>2, <2>3, <2>4, <2>5, <2>6 DEF IInv
<1>15. ASSUME NEW c \in Cleaners, Leave(c) PROVE IInv'
  <2>1. TypeOK'
    BY <1>15 DEF IInv, TypeOK, Lines, Bracketed, Leave
  <2>2. Truthful'
    BY <1>15 DEF IInv, TypeOK, Truthful, Lines, Bracketed, Leave
  <2>3. AtHand'
    BY <1>15 DEF IInv, TypeOK, AtHand, Bracketed, Leave
  <2>4. Ahead'
    BY <1>15 DEF IInv, TypeOK, Ahead, Bracketed, Leave
  <2>5. Bracketed'
    BY <1>15 DEF IInv, TypeOK, Bracketed, Leave
  <2>6. Locked'
    BY <1>15 DEF IInv, TypeOK, Locked, Bracketed, Leave
  <2> QED
    BY <2>1, <2>2, <2>3, <2>4, <2>5, <2>6 DEF IInv
<1>16. ASSUME NEW c \in Cleaners, ToolEnds(c) PROVE IInv'
  BY <1>16, EndedIInv DEF ToolEnds
<1>17. ASSUME NEW c \in Cleaners, Tick(c) PROVE IInv'
  <2>1. TypeOK'
    BY <1>17 DEF IInv, TypeOK, Lines, Tick
  <2>2. Truthful'
    BY <1>17 DEF IInv, TypeOK, Truthful, Lines, Tick
  <2>3. AtHand'
    BY <1>17 DEF IInv, TypeOK, AtHand, Tick
  <2>4. Ahead'
    BY <1>17 DEF IInv, TypeOK, Ahead, Tick
  <2>5. Bracketed'
    BY <1>17 DEF IInv, TypeOK, Bracketed, Tick
  <2>6. Locked'
    BY <1>17 DEF IInv, TypeOK, Locked, Tick
  <2> QED
    BY <2>1, <2>2, <2>3, <2>4, <2>5, <2>6 DEF IInv
<1>18. ASSUME NEW c \in Cleaners, HelperDies(c) PROVE IInv'
  <2>1. CASE work[c] = "running" /\ current[c] \in Tools
    <3>1. TypeOK'
      BY <1>18, <2>1 DEF IInv, TypeOK, Lines, HelperDies
    <3>2. Truthful'
      BY <1>18, <2>1 DEF IInv, TypeOK, Truthful, Lines, HelperDies
    <3>3. AtHand'
      BY <1>18, <2>1 DEF IInv, TypeOK, AtHand, HelperDies
    <3>4. Ahead'
      BY <1>18, <2>1 DEF IInv, TypeOK, Ahead, HelperDies
    <3>5. Bracketed'
      BY <1>18, <2>1 DEF IInv, TypeOK, Bracketed, HelperDies
    <3>6. Locked'
      BY <1>18, <2>1 DEF IInv, TypeOK, Locked, HelperDies
    <3> QED
      BY <3>1, <3>2, <3>3, <3>4, <3>5, <3>6 DEF IInv
  <2>2. CASE ~(work[c] = "running" /\ current[c] \in Tools)
    <3>7. /\ todo' = [todo EXCEPT ![c] = {}]
          /\ current' = [current EXCEPT ![c] = None]
          /\ work' = [work EXCEPT ![c] = "none"]
          /\ UNCHANGED <<request, did>>
      BY <1>18, <2>2 DEF HelperDies
    <3>8. \A d \in Cleaners : work'[d] # "none" =>
            work'[d] = work[d] /\ current'[d] = current[d]
      BY <3>7 DEF IInv, TypeOK
    <3>1. TypeOK'
      BY <1>18, <3>7, <3>8 DEF IInv, TypeOK, Lines, HelperDies
    <3>2. Truthful'
      BY <1>18, <2>2 DEF IInv, TypeOK, Truthful, Lines, HelperDies
    <3>3. AtHand'
      BY <3>7, <3>8 DEF IInv, AtHand
    <3>4. Ahead'
      BY <1>18, <2>2 DEF IInv, TypeOK, Ahead, HelperDies
    <3>5. Bracketed'
      BY <1>18, <2>2 DEF IInv, TypeOK, Bracketed, HelperDies
    <3>6. Locked'
      BY <1>18, <2>2 DEF IInv, TypeOK, Locked, HelperDies
    <3> QED
      BY <3>1, <3>2, <3>3, <3>4, <3>5, <3>6 DEF IInv
  <2> QED
    BY <1>18, <2>1, <2>2
<1>19. ASSUME NEW c \in Cleaners, CallerDies(c) PROVE IInv'
  <2>1. TypeOK'
    BY <1>19 DEF IInv, TypeOK, Lines, CallerDies
  <2>2. Truthful'
    BY <1>19 DEF IInv, TypeOK, Truthful, Lines, CallerDies
  <2>3. AtHand'
    BY <1>19 DEF IInv, TypeOK, AtHand, CallerDies
  <2>4. Ahead'
    BY <1>19 DEF IInv, TypeOK, Ahead, CallerDies
  <2>5. Bracketed'
    BY <1>19 DEF IInv, TypeOK, Bracketed, CallerDies
  <2>6. Locked'
    BY <1>19 DEF IInv, TypeOK, Locked, CallerDies
  <2> QED
    BY <2>1, <2>2, <2>3, <2>4, <2>5, <2>6 DEF IInv
<1>20. CASE Finished
  BY <1>20 DEF Finished, vars, IInv, TypeOK, Truthful, AtHand, Ahead, Bracketed, Locked
<1>21. CASE UNCHANGED vars
  BY <1>21 DEF vars, IInv, TypeOK, Truthful, AtHand, Ahead, Bracketed, Locked
<1> QED
  BY <1>1, <1>2, <1>3, <1>4, <1>5, <1>6, <1>7, <1>8, <1>9, <1>10,
     <1>11, <1>12, <1>13, <1>14, <1>15, <1>16, <1>17, <1>18, <1>19, <1>20,
     <1>21 DEF Next, Caller, Helper

\* The invariant holds in every reachable state.
LEMMA Invariance == Spec => []IInv
  BY InitIInv, StepIInv, PTL DEF Spec

-----------------------------------------------------------------------------
\* TypeOK: every variable of the cleaners and the helpers keeps its type, and
\* a result always belongs to an action.
THEOREM TypeCorrect == Spec => []TypeOK
<1>1. IInv => TypeOK
  BY DEF IInv
<1> QED
  BY <1>1, Invariance, PTL

\* QuietAfterReport: when a cleanup has reported, neither its helper nor one
\* of the helper's commands is still at work, unless the helper died.
THEOREM QuietWhenReported == Spec => []QuietAfterReport
<1>1. IInv => QuietAfterReport
  BY DEF IInv, Bracketed, Locked, QuietAfterReport
<1> QED
  BY <1>1, Invariance, PTL

\* WorkApart: the lock keeps cleanups apart, but for the command of a helper
\* that died.
THEOREM WorkExclusive == Spec => []WorkApart
<1>1. IInv => WorkApart
  BY DEF IInv, Locked, WorkApart
<1> QED
  BY <1>1, Invariance, PTL

-----------------------------------------------------------------------------
\* What the cleaner reads from the helper is a report the abstract cleanup
\* may give.
LEMMA ReportIsAllowed ==
  ASSUME IInv, NEW c \in Cleaners, caller[c] # "reported",
         NEW lines \in SUBSET kept[c], Report(c, lines), UNCHANGED <<request, did>>
  PROVE  Abstract!Report(c)
<1> DEFINE ok == {a \in request[c] : <<a, "ok">> \in lines}
<1>1. Abstract!Silent(c)
  BY DEF IInv, Bracketed, Abstract!Silent
<1>2. request[c] \subseteq Actions
  <2>1. request[c] \in Requests
    BY DEF IInv, TypeOK
  <2> QED
    BY <2>1, PrivilegedAssumption
<1>3. ok \in SUBSET {a \in request[c] : did[c][a] = "done"}
  BY <1>2 DEF IInv, Truthful
<1>4. report' = [report EXCEPT ![c] =
                   [a \in Actions |-> IF a \in ok THEN "ok"
                                      ELSE IF a \in request[c] THEN "failed"
                                      ELSE "none"]]
  <2>1. \A a \in Actions :
          (IF a \notin request[c] THEN "none"
           ELSE IF <<a, "ok">> \in lines THEN "ok" ELSE "failed")
          = (IF a \in ok THEN "ok"
             ELSE IF a \in request[c] THEN "failed" ELSE "none")
    OBVIOUS
  <2> QED
    BY <2>1 DEF Report
<1> QED
  BY <1>1, <1>3, <1>4 DEF Abstract!Report

\* The end of an action is the end of the action in the abstract cleanup.
LEMMA EndIsAllowed ==
  ASSUME IInv, NEW c \in Cleaners, work[c] = "running",
         NEW result, NEW outcome \in {"done", "failed"}, Ended(c, result, outcome)
  PROVE  Abstract!Next
<1>1. current[c] \in Actions /\ did[c][current[c]] = "begun"
  BY PrivilegedAssumption DEF IInv, TypeOK, AtHand
<1>2. Abstract!End(c, current[c])
  BY <1>1 DEF Ended, callerVars, Abstract!End
<1> QED
  BY <1>1, <1>2 DEF Abstract!Next

\* Every step of the program is one of the abstract cleanup or leaves what
\* the cleanup promises about as it is.
LEMMA StepIsAllowed ==
  IInv /\ [Next]_vars => [Abstract!Next]_(Abstract!cleanupVars)
<1> SUFFICES ASSUME IInv, [Next]_vars
             PROVE  Abstract!Next \/ UNCHANGED <<request, did, report>>
  BY DEF Abstract!cleanupVars
<1> USE DEF callerVars, helperVars
<1>1. ASSUME NEW c \in Cleaners, Start(c)
      PROVE  Abstract!Next \/ UNCHANGED <<request, did, report>>
  <2>1. CASE UNCHANGED report
    BY <1>1, <2>1 DEF Start
  <2>2. CASE Report(c, {})
    <3>1. Abstract!Report(c)
      BY <1>1, <2>2, ReportIsAllowed DEF Start
    <3> QED
      BY <3>1 DEF Abstract!Next
  <2> QED
    BY <1>1, <2>1, <2>2 DEF Start
<1>2. ASSUME NEW c \in Cleaners, Complete(c)
      PROVE  Abstract!Next \/ UNCHANGED <<request, did, report>>
  <2>1. Abstract!Report(c)
    BY <1>2, ReportIsAllowed DEF Complete
  <2> QED
    BY <2>1 DEF Abstract!Next
<1>3. ASSUME NEW c \in Cleaners, GiveUp(c)
      PROVE  Abstract!Next \/ UNCHANGED <<request, did, report>>
  <2>1. Abstract!Report(c)
    BY <1>3, ReportIsAllowed DEF GiveUp
  <2> QED
    BY <2>1 DEF Abstract!Next
<1>4. ASSUME NEW c \in Cleaners, NEW a \in Actions, Begin(c, a)
      PROVE  Abstract!Next \/ UNCHANGED <<request, did, report>>
  <2>1. a \in request[c] /\ did[c][a] = "no"
    BY <1>4 DEF Begin, AtNext, IInv, Ahead
  <2>2. Abstract!Silent(c)
    BY <1>4 DEF Begin, AtNext, IInv, Bracketed, Abstract!Silent
  <2>3. Abstract!Begin(c, a)
    BY <1>4, <2>1, <2>2 DEF Begin, Abstract!Begin
  <2> QED
    BY <2>3 DEF Abstract!Next
<1>5. ASSUME NEW c \in Cleaners, DeletionEnds(c) \/ ToolEnds(c) \/ ToolTimesOut(c)
      PROVE  Abstract!Next \/ UNCHANGED <<request, did, report>>
  BY <1>5, EndIsAllowed DEF DeletionEnds, ToolEnds, ToolTimesOut
<1>6. ASSUME NEW c \in Cleaners, NEW a \in Actions, Unavailable(c, a)
      PROVE  Abstract!Next \/ UNCHANGED <<request, did, report>>
  BY <1>6 DEF Unavailable
<1>7. ASSUME NEW c \in Cleaners,
             \/ Read(c) \/ Expire(c) \/ Refuse(c) \/ Authorize(c) \/ Lock(c)
             \/ Result(c) \/ Unlock(c) \/ Leave(c) \/ Tick(c)
             \/ HelperDies(c) \/ CallerDies(c)
      PROVE  Abstract!Next \/ UNCHANGED <<request, did, report>>
  BY <1>7 DEF Read, Expire, Refuse, Authorize, Lock, Result, 
             Unlock, Leave, Tick, HelperDies, CallerDies
<1>8. CASE Finished \/ UNCHANGED vars
  BY <1>8 DEF Finished, vars
<1> QED
  BY <1>1, <1>2, <1>3, <1>4, <1>5, <1>6, <1>7, <1>8 DEF Next, Caller, Helper

\* Implements: executeSystemActions with its helper is an abstract cleanup:
\* nothing is begun twice, unasked or after the report, and success is
\* reported only of what was done.
THEOREM CleanupImplemented == Spec => Implements
<1>1. Init => Abstract!Init
  <2> SUFFICES ASSUME Init PROVE Abstract!Init
    OBVIOUS
  <2>1. request \in [Cleaners -> SUBSET Actions]
    BY PrivilegedAssumption DEF Init
  <2> QED
    BY <2>1 DEF Init, Abstract!Init
<1> QED
  BY <1>1, Invariance, StepIsAllowed, PTL DEF Spec, Implements, Abstract!Spec

-----------------------------------------------------------------------------
(***************************************************************************)
(* No outcome is lost on its way: an action that was done is at hand as a  *)
(* success, or its line is in the buffer, in the pipe or kept, as long as  *)
(* the deadline has not passed and no process has died; and a helper that  *)
(* is gone left nothing in its buffer.                                     *)
(***************************************************************************)
OnItsWay(c, a) ==
  \/ <<a, "ok">> \in buffer[c] \cup pipe[c] \cup kept[c]
  \/ current[c] = a /\ work[c] = "ok"

NotLost ==
  \A c \in Cleaners, a \in Actions :
    did[c][a] = "done" =>
      \/ expired[c] \/ crashed[c]
      \/ caller[c] = "dead"
      \/ caller[c] = "reported" /\ report[c][a] = "ok"
      \/ caller[c] = "waiting" /\ OnItsWay(c, a)

Asked ==
  \A c \in Cleaners : \A a \in Actions : did[c][a] # "no" => a \in request[c]

Flushed ==
  \A c \in Cleaners :
    /\ helper[c] \notin {"working", "leaving"} => buffer[c] = {}
    /\ caller[c] = "late" => expired[c]

LossInv == NotLost /\ Asked /\ Flushed

\* Nothing has been done when nothing has been started.
LEMMA InitLossInv == Init => LossInv
  BY DEF Init, LossInv, NotLost, Asked, Flushed

\* A result line never displaces another, and it is there itself.
LEMMA EmitKeeps ==
  ASSUME TypeOK, NEW c \in Cleaners, NEW line \in Lines, Emit(c, line)
  PROVE  /\ \A d \in Cleaners : buffer[d] \cup pipe[d] \subseteq buffer'[d] \cup pipe'[d]
         /\ line \in buffer'[c] \cup pipe'[c]
         /\ \A d \in Cleaners : d # c => buffer'[d] = buffer[d]
<1>1. CASE /\ buffer' = [buffer EXCEPT ![c] = @ \cup {line}]
           /\ UNCHANGED pipe
  BY <1>1 DEF TypeOK
<1>2. ASSUME NEW out \in {buffer[c], buffer[c] \cup {line}},
             pipe' = [pipe EXCEPT ![c] = @ \cup out],
             buffer' = [buffer EXCEPT ![c] = {line}]
      PROVE  /\ \A d \in Cleaners :
                  buffer[d] \cup pipe[d] \subseteq buffer'[d] \cup pipe'[d]
             /\ line \in buffer'[c] \cup pipe'[c]
             /\ \A d \in Cleaners : d # c => buffer'[d] = buffer[d]
  BY <1>2 DEF TypeOK
<1> QED
  BY <1>1, <1>2 DEF Emit

\* Every step of a cleaner preserves it: only the end of an action makes it
\* done, and it is at hand then.
LEMMA StepLossInv == IInv /\ LossInv /\ [Next]_vars => LossInv'
<1> SUFFICES ASSUME IInv, LossInv, [Next]_vars PROVE LossInv'
  OBVIOUS
<1> USE PrivilegedAssumption
<1> USE DEF callerVars, helperVars, LossInv, NotLost, Asked, Flushed, OnItsWay
<1>1. ASSUME NEW c \in Cleaners, Start(c) PROVE LossInv'
  <2>1. \A a \in Actions : did[c][a] = "no"
    BY <1>1 DEF Start, IInv, Ahead, Bracketed
  <2>2. /\ UNCHANGED <<request, expired, current, work, buffer, pipe, did, crashed>>
        /\ \A d \in Cleaners : d # c => /\ caller'[d] = caller[d] /\ helper'[d] = helper[d]
                                       /\ report'[d] = report[d] /\ kept'[d] = kept[d]
        /\ caller'[c] # "late" /\ helper'[c] \notin {"working", "leaving"}
        /\ buffer[c] = {}
    BY <1>1 DEF Start, Report, IInv, TypeOK, Bracketed
  <2> QED
    BY <2>1, <2>2
<1>2. ASSUME NEW c \in Cleaners, Read(c) PROVE LossInv'
  BY <1>2 DEF Read, IInv, TypeOK
<1>3. ASSUME NEW c \in Cleaners, Complete(c) PROVE LossInv'
  <2>1. ASSUME NEW a \in Actions, did[c][a] = "done"
        PROVE  expired[c] \/ crashed[c] \/ report'[c][a] = "ok"
    <3>1. a \in request[c]
      BY <2>1
    <3>2. SUFFICES ASSUME ~expired[c], ~crashed[c]
                   PROVE  <<a, "ok">> \in kept[c]
      BY <1>3, <3>1 DEF Complete, Report, IInv, TypeOK
    <3>3. caller[c] = "waiting" /\ helper[c] = "gone" /\ pipe[c] = {} /\ buffer[c] = {}
      BY <1>3 DEF Complete
    <3>4. work[c] = "none"
      BY <3>2, <3>3 DEF IInv, Locked
    <3> QED
      BY <2>1, <3>2, <3>3, <3>4
  <2> QED
    BY <1>3, <2>1 DEF Complete, Report, IInv, TypeOK
<1>4. ASSUME NEW c \in Cleaners, Expire(c) PROVE LossInv'
  BY <1>4 DEF Expire, IInv, TypeOK
<1>5. ASSUME NEW c \in Cleaners, GiveUp(c) PROVE LossInv'
  BY <1>5 DEF GiveUp, Report, IInv, TypeOK
<1>6. ASSUME NEW c \in Cleaners,
             \/ Refuse(c) \/ Authorize(c) \/ Lock(c) \/ Unlock(c)
      PROVE LossInv'
  <2>1. UNCHANGED <<request, report, caller, kept, expired, current, work, buffer, pipe,
                    did, crashed>>
    BY <1>6 DEF Refuse, Authorize, Lock, Unlock
  <2>2. \A d \in Cleaners :
          helper'[d] \notin {"working", "leaving"} => helper[d] \notin {"working", "leaving"}
    BY <1>6 DEF Refuse, Authorize, Lock, Unlock, IInv, TypeOK
  <2> QED
    BY <2>1, <2>2
<1>7. ASSUME NEW c \in Cleaners, NEW a \in Actions, Unavailable(c, a) PROVE LossInv'
  <2> DEFINE line == <<a, "failed">>
  <2>1. line \in Lines /\ Emit(c, line) /\ helper[c] = "working"
    BY <1>7 DEF Lines, Unavailable, AtNext
  <2>2. UNCHANGED <<request, report, caller, kept, expired, helper, current, work, did,
                    crashed>>
    BY <1>7 DEF Unavailable
  <2> QED
    BY <2>1, <2>2, EmitKeeps DEF IInv
<1>8. ASSUME NEW c \in Cleaners, NEW a \in Actions, Begin(c, a) PROVE LossInv'
  BY <1>8 DEF Begin, AtNext, IInv, TypeOK, Ahead
<1>9. ASSUME NEW c \in Cleaners, NEW result, NEW outcome,
             work[c] = "running", Ended(c, result, outcome),
             result = "ok" \/ outcome = "failed" \/ expired[c]
      PROVE  LossInv'
  <2>1. current[c] \in Actions /\ current[c] \in request[c]
    BY <1>9 DEF IInv, TypeOK, AtHand
  <2>2. caller[c] \in {"waiting", "dead"} \/ expired[c] \/ crashed[c]
    <3>1. crashed[c] \/ helper[c] = "working"
      BY <1>9 DEF IInv, Locked
    <3>2. helper[c] = "working" => caller[c] \notin {"idle", "reported"}
      BY DEF IInv, Bracketed
    <3>3. caller[c] \in {"idle", "waiting", "late", "dead", "reported"}
      BY DEF IInv, TypeOK
    <3>4. caller[c] = "late" => expired[c]
      BY DEF LossInv, Flushed
    <3> QED
      BY <3>1, <3>2, <3>3, <3>4
  <2>3. \A d \in Cleaners, b \in Actions :
          did'[d][b] = IF d = c /\ b = current[c] THEN outcome ELSE did[d][b]
    BY <1>9, <2>1 DEF Ended, IInv, TypeOK
  <2>4. \A d \in Cleaners : work'[d] = IF d = c THEN result ELSE work[d]
    BY <1>9 DEF Ended, IInv, TypeOK
  <2>5. UNCHANGED <<request, report, caller, kept, expired, helper, current, buffer,
                    pipe, crashed>>
    BY <1>9 DEF Ended
  <2>6. Asked'
    BY <2>1, <2>3, <2>5
  <2>7. ASSUME NEW d \in Cleaners, NEW b \in Actions, did'[d][b] = "done",
               ~expired[d], ~crashed[d], caller[d] # "dead"
        PROVE  \/ caller[d] = "reported" /\ report[d][b] = "ok"
               \/ caller[d] = "waiting" /\ OnItsWay(d, b)'
    <3>1. CASE d = c /\ b = current[c]
      BY <1>9, <2>2, <2>3, <2>4, <2>5, <2>7, <3>1
    <3>2. CASE ~(d = c /\ b = current[c])
      BY <1>9, <2>3, <2>4, <2>5, <2>7, <3>2
    <3> QED
      BY <3>1, <3>2
  <2>8. NotLost'
    BY <2>5, <2>7 DEF NotLost
  <2>9. Flushed'
    BY <2>5, Zenon DEF LossInv, Flushed
  <2> QED
    BY <2>6, <2>8, <2>9 DEF LossInv
<1>10. ASSUME NEW c \in Cleaners, DeletionEnds(c) \/ ToolEnds(c) \/ ToolTimesOut(c)
       PROVE  LossInv'
  BY <1>9, <1>10 DEF DeletionEnds, ToolEnds, ToolTimesOut
<1>11. ASSUME NEW c \in Cleaners, Result(c) PROVE LossInv'
  <2> DEFINE line == <<current[c], work[c]>>
  <2>1. line \in Lines /\ Emit(c, line) /\ helper[c] = "working"
    BY <1>11 DEF IInv, TypeOK, AtHand, Lines, Result
  <2>2. UNCHANGED <<request, report, caller, kept, expired, helper, did, crashed>>
    BY <1>11 DEF Result
  <2>3. \A d \in Cleaners : d # c => current'[d] = current[d] /\ work'[d] = work[d]
    BY <1>11 DEF Result, IInv, TypeOK
  <2> QED
    BY <2>1, <2>2, <2>3, EmitKeeps DEF IInv
<1>12. ASSUME NEW c \in Cleaners, Leave(c) PROVE LossInv'
  BY <1>12 DEF Leave, IInv, TypeOK
<1>13. ASSUME NEW c \in Cleaners, Tick(c) PROVE LossInv'
  BY <1>13 DEF Tick, IInv, TypeOK
<1>14. ASSUME NEW c \in Cleaners, HelperDies(c) PROVE LossInv'
  BY <1>14 DEF HelperDies, IInv, TypeOK
<1>15. ASSUME NEW c \in Cleaners, CallerDies(c) PROVE LossInv'
  BY <1>15 DEF CallerDies, IInv, TypeOK
<1>16. CASE Finished \/ UNCHANGED vars
  BY <1>16 DEF Finished, vars
<1> QED
  BY <1>1, <1>2, <1>3, <1>4, <1>5, <1>6, <1>7, <1>8, <1>10, <1>11, <1>12, <1>13,
     <1>14, <1>15, <1>16 DEF Next, Caller, Helper

\* FailureExplained: what was done is reported as failed only after the
\* deadline or a death; no result line gets lost otherwise, however the
\* helper's buffer fills and the caller reads.
THEOREM FailuresExplained == Spec => []FailureExplained
<1>1. IInv /\ LossInv => FailureExplained
  BY DEF IInv, Bracketed, LossInv, NotLost, FailureExplained
<1> QED
  BY <1>1, Invariance, InitLossInv, StepLossInv, PTL DEF Spec
=============================================================================
