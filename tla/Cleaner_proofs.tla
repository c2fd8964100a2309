----------------------------- MODULE Cleaner_proofs -----------------------------
(***************************************************************************)
(* Proofs about Cleaner and Vacuoctl, for any number of calls, any         *)
(* catalog, any tree and any bounds.                                       *)
(***************************************************************************)
EXTENDS Vacuoctl, FiniteSetTheorems, SequenceTheorems, TLAPS

\* The categories of the user's own.
Own == Ids \cap UserIds

\* A call that root makes answers no category.
RootIdle ==
  \A c \in Cleaners :
    system.root => pc[c] \in {"rule", "done"} /\ \A i \in Ids : report[c][i] = "none"

\* A category is answered after it was taken from the list, and not while it
\* is at hand.
AnsweredLater ==
  \A c \in Cleaners :
    /\ rule[c] # "none" => rule[c] \in request[c] \ ids[c]
    /\ \A a \in Own :
         a \in ids[c] \/ a \notin request[c] \/ a = rule[c] => report[c][a] = "none"

\* Every category that was taken from the list has its answer or is at hand;
\* at the end the list is empty.
TakenAnswered ==
  \A c \in Cleaners :
    ~system.root =>
      /\ \A a \in Own \cap request[c] :
           a \notin ids[c] /\ a # rule[c] => report[c][a] # "none"
      /\ pc[c] = "done" => ids[c] = {}

\* How the variables of a call go together in TypeOK.
Placed(c) ==
  /\ ids[c] \subseteq request[c]
  /\ pc[c] \in {"rule", "done"} <=> rule[c] = "none"
  /\ pc[c] \in {"open", "clear"} => left[c] # <<>>
  /\ pc[c] # "clear" => todo[c] = {}
  /\ pc[c] = "rule" => action[c].items = 0

IInv == TypeOK /\ RootIdle /\ AnsweredLater /\ TakenAnswered

-----------------------------------------------------------------------------
\* The categories of the user's own have names of their own.
LEMMA NoneIsNoRule == "none" \notin UserIds
BY DEF UserIds

\* What is asked for are identifiers, those of the user's own among them.
LEMMA AskedIds ==
  ASSUME TypeOK, NEW c \in Cleaners
  PROVE  request[c] \subseteq Ids /\ ids[c] \subseteq request[c]
BY CleanerAssumption DEF TypeOK, Ids

\* The invariant holds before the calls begin.
LEMMA InitIInv == Init => IInv
<1> SUFFICES ASSUME Init PROVE IInv
  OBVIOUS
<1>1. \A c \in Cleaners : request[c] \subseteq Ids
  BY CleanerAssumption DEF Init, Ids
<1>2. TypeOK
  BY <1>1, CleanerAssumption DEF Init, TypeOK, Results, Start
<1>3. RootIdle /\ AnsweredLater /\ TakenAnswered
  BY NoneIsNoRule DEF Init, RootIdle, AnsweredLater, TakenAnswered, Own
<1> QED
  BY <1>2, <1>3 DEF IInv

\* One call's step on its own state.
LEMMA ExecuteIInv ==
  ASSUME IInv, NEW c \in Cleaners, Execute(c)
  PROVE  IInv'
<1> USE NoneIsNoRule, AskedIds
<1>0. TypeOK
  BY DEF IInv
<1>1. CASE Refuse(c)
  <2>1. TypeOK'
    BY <1>1 DEF IInv, TypeOK, Refuse, fixed, tree, answers
  <2>2. RootIdle' /\ AnsweredLater' /\ TakenAnswered'
    BY <1>0, <1>1 DEF IInv, TypeOK, Refuse, fixed, tree, answers, RootIdle, AnsweredLater, TakenAnswered
  <2> QED
    BY <2>1, <2>2 DEF IInv
<1>2. CASE NextRule(c)
  <2>1. PICK next \in ids[c] :
          /\ ids' = [ids EXCEPT ![c] = @ \ {next}]
          /\ IF next \in UserIds
             THEN /\ rule' = [rule EXCEPT ![c] = next]
                  /\ left' = [left EXCEPT ![c] = Targets(system, next)]
                  /\ action' = [action EXCEPT ![c] = Start]
                  /\ pc' = [pc EXCEPT ![c] = "target"]
                  /\ UNCHANGED report
             ELSE /\ report' = IF next \in SystemIds THEN report
                               ELSE [report EXCEPT ![c][next] = "failed"]
                  /\ UNCHANGED <<pc, rule, left, action>>
    BY <1>2 DEF NextRule
  <2>2. /\ pc[c] = "rule" /\ ~system.root /\ rule[c] = "none"
        /\ UNCHANGED <<system, request, changes, faults, todo, total>>
        /\ next \in request[c] /\ next \in Ids
    BY <1>0, <1>2 DEF NextRule, MayGoOn, TypeOK, fixed, tree
  <2>3. CASE next \in UserIds
    <3>0. /\ ids' = [ids EXCEPT ![c] = @ \ {next}]
          /\ rule' = [rule EXCEPT ![c] = next]
          /\ left' = [left EXCEPT ![c] = Targets(system, next)]
          /\ action' = [action EXCEPT ![c] = Start]
          /\ pc' = [pc EXCEPT ![c] = "target"]
          /\ UNCHANGED report
      BY <2>1, <2>3
    <3>1. TypeOK'
      <4>1. /\ ids' \in [Cleaners -> SUBSET Ids] /\ rule' \in [Cleaners -> UserIds \cup {"none"}]
            /\ pc' \in [Cleaners -> {"rule", "target", "open", "clear", "done"}]
        BY <1>0, <3>0, <2>2, <2>3 DEF TypeOK
      <4>2. action' \in [Cleaners -> [success : BOOLEAN, items : Nat]]
        BY <1>0, <3>0, <2>2, <2>3 DEF TypeOK, Start
      <4>3. DOMAIN left' = Cleaners /\ \A d \in Cleaners \ {c} : left'[d] = left[d]
        BY <1>0, <3>0, <2>3 DEF TypeOK
      <4>4. \A d \in Cleaners : Placed(d)'
        BY <1>0, <3>0, <2>2, <2>3, <4>3 DEF TypeOK, Placed, Start
      <4>5. report' = report
        BY <3>0, <2>3
      <4> QED
        BY <1>0, <2>2, <4>1, <4>2, <4>3, <4>4, <4>5 DEF TypeOK, Placed
    <3>2. RootIdle' /\ AnsweredLater' /\ TakenAnswered'
      BY <1>0, <3>0, <2>2, <2>3 DEF IInv, TypeOK, RootIdle, AnsweredLater, TakenAnswered, Own
    <3> QED
      BY <3>1, <3>2 DEF IInv
  <2>4. CASE next \notin UserIds
    <3>0. /\ ids' = [ids EXCEPT ![c] = @ \ {next}]
          /\ report' = report \/ report' = [report EXCEPT ![c][next] = "failed"]
          /\ UNCHANGED <<pc, rule, left, action>>
      BY <2>1, <2>4
    <3>1. report' \in [Cleaners -> [Ids -> Results]]
      <4>1. report \in [Cleaners -> [Ids -> Results]] /\ "failed" \in Results
        BY <1>0 DEF TypeOK, Results
      <4> QED
        BY <4>1, <3>0, <2>2
    <3>2. \A d \in Cleaners, a \in Own : report'[d][a] = report[d][a]
      <4>1. report \in [Cleaners -> [Ids -> Results]] /\ next \notin Own /\ Own \subseteq Ids
        BY <1>0, <2>4 DEF TypeOK, Own
      <4> QED
        BY <4>1, <3>0, <2>2
    <3>4. TypeOK'
      BY <1>0, <3>0, <2>2, <3>1 DEF TypeOK
    <3>5. RootIdle' /\ AnsweredLater' /\ TakenAnswered'
      BY <1>0, <3>0, <2>2, <2>4, <3>2
         DEF IInv, TypeOK, RootIdle, AnsweredLater, TakenAnswered, Own
    <3> QED
      BY <3>4, <3>5 DEF IInv
  <2> QED
    BY <2>3, <2>4
<1>3. CASE EndRule(c)
  <2>1. /\ rule[c] \in UserIds /\ rule[c] \in request[c] \ ids[c] /\ rule[c] \in Ids
        /\ ~system.root
    BY <1>0, <1>3 DEF EndRule, IInv, TypeOK, AnsweredLater, RootIdle
  <2>2. TypeOK'
    BY <1>0, <1>3, <2>1 DEF EndRule, TypeOK, Results, Start, fixed, tree
  <2>3. \A d \in Cleaners, a \in Ids :
          report'[d][a] = IF d = c /\ a = rule[c]
                          THEN IF action[c].success THEN "ok" ELSE "failed"
                          ELSE report[d][a]
    BY <1>0, <1>3, <2>1 DEF EndRule, TypeOK
  <2>4. UNCHANGED <<system, request, ids>> /\ rule' = [rule EXCEPT ![c] = "none"]
        /\ pc' = [pc EXCEPT ![c] = "rule"]
    BY <1>3 DEF EndRule, fixed
  <2>5. RootIdle' /\ AnsweredLater' /\ TakenAnswered'
    BY <1>0, <2>1, <2>3, <2>4 DEF IInv, TypeOK, RootIdle, AnsweredLater, TakenAnswered, Own
  <2> QED
    BY <2>2, <2>5 DEF IInv
<1>4. CASE SystemActions(c)
  <2>1. PICK ok \in SUBSET (request[c] \cap SystemIds) :
          report' = [report EXCEPT ![c] =
                       [i \in Ids |-> IF i \in ok THEN "ok"
                                      ELSE IF i \in request[c] \cap SystemIds THEN "failed"
                                      ELSE @[i]]]
    BY <1>4 DEF SystemActions
  <2>2. report' \in [Cleaners -> [Ids -> Results]]
    BY <1>0, <2>1 DEF TypeOK, Results
  <2>3. \A d \in Cleaners, a \in Own : report'[d][a] = report[d][a]
    BY <1>0, <2>1, CleanerAssumption DEF TypeOK, Own
  <2>4. /\ pc[c] = "rule" /\ ~system.root /\ rule[c] = "none" /\ ids[c] = {}
        /\ pc' = [pc EXCEPT ![c] = "done"]
        /\ UNCHANGED <<system, request, changes, faults, ids, rule, left, todo, action, total>>
    BY <1>0, <1>4 DEF SystemActions, MayGoOn, TypeOK, fixed, tree
  <2>5. TypeOK'
    BY <1>0, <2>2, <2>4 DEF TypeOK
  <2>6. RootIdle' /\ AnsweredLater' /\ TakenAnswered'
    BY <1>0, <2>3, <2>4 DEF IInv, TypeOK, RootIdle, AnsweredLater, TakenAnswered, Own
  <2> QED
    BY <2>5, <2>6 DEF IInv
<1>5. ASSUME TypeOK', UNCHANGED <<system, request, ids, rule, report>>,
             pc'[c] = pc[c] \/ (pc[c] \in {"target", "open", "clear"} /\ pc'[c] # "done"),
             \A d \in Cleaners \ {c} : pc'[d] = pc[d]
      PROVE  IInv'
  <2>1. RootIdle'
    BY <1>5 DEF IInv, RootIdle
  <2>2. AnsweredLater' /\ TakenAnswered'
    BY <1>5 DEF IInv, AnsweredLater, TakenAnswered
  <2> QED
    BY <1>5, <2>1, <2>2 DEF IInv
<1>6. CASE Examine(c)
  <2>1. /\ pc[c] = "target" /\ rule[c] # "none"
        /\ UNCHANGED <<system, request, changes, ids, rule, todo, action, report, total>>
    BY <1>0, <1>6 DEF Examine, TypeOK, fixed, tree, answers
  <2>2. \/ left[c] # <<>> /\ pc' = [pc EXCEPT ![c] = "open"] /\ UNCHANGED left
        \/ left' = [left EXCEPT ![c] = Tail(@)] /\ UNCHANGED pc
    BY <1>6 DEF Examine
  <2>3. faults' \in 0..MaxFaults
    BY <1>0, <1>6, CleanerAssumption DEF Examine, Fault, NoFault, TypeOK
  <2>4. CASE left[c] # <<>> /\ pc' = [pc EXCEPT ![c] = "open"] /\ UNCHANGED left
    BY <1>0, <1>5, <2>1, <2>3, <2>4 DEF TypeOK
  <2>5. CASE left' = [left EXCEPT ![c] = Tail(@)] /\ UNCHANGED pc
    BY <1>0, <1>5, <2>1, <2>3, <2>5 DEF TypeOK
  <2> QED
    BY <2>2, <2>4, <2>5
<1>7. CASE Open(c)
  <2>1. /\ pc[c] = "open" /\ rule[c] # "none" /\ left[c] # <<>>
        /\ UNCHANGED <<system, request, changes, ids, rule, report, total>>
    BY <1>0, <1>7 DEF Open, TypeOK, fixed, tree, answers
  <2>2. \/ /\ \E met : todo' = [todo EXCEPT ![c] = met]
           /\ pc' = [pc EXCEPT ![c] = "clear"] /\ UNCHANGED <<left, action>>
        \/ /\ left' = [left EXCEPT ![c] = Tail(@)] /\ pc' = [pc EXCEPT ![c] = "target"]
           /\ action' = [action EXCEPT ![c].success = FALSE] /\ UNCHANGED todo
    BY <1>7 DEF Open
  <2>3. faults' \in 0..MaxFaults
    BY <1>0, <1>7, CleanerAssumption DEF Open, Fault, NoFault, TypeOK
  <2>4. ASSUME NEW met, todo' = [todo EXCEPT ![c] = met],
               pc' = [pc EXCEPT ![c] = "clear"], UNCHANGED <<left, action>>
        PROVE  IInv'
    BY <1>0, <1>5, <2>1, <2>3, <2>4 DEF TypeOK
  <2>5. CASE /\ left' = [left EXCEPT ![c] = Tail(@)] /\ pc' = [pc EXCEPT ![c] = "target"]
             /\ action' = [action EXCEPT ![c].success = FALSE] /\ UNCHANGED todo
    <3>1. action' \in [Cleaners -> [success : BOOLEAN, items : Nat]]
      BY <1>0, <2>5 DEF TypeOK
    <3> QED
      BY <1>0, <1>5, <2>1, <2>3, <2>5, <3>1 DEF TypeOK
  <2> QED
    BY <2>2, <2>4, <2>5
<1>8. ASSUME NEW e \in todo[c], Unlink(c, e) \/ Keep(c, e) \/ Pass(c, e)
      PROVE  IInv'
  <2>1. /\ pc[c] = "clear" /\ todo' = [todo EXCEPT ![c] = @ \ {e}]
        /\ UNCHANGED <<system, request, changes, pc, ids, rule, left, report, total>>
    BY <1>8 DEF Unlink, Keep, Pass, Meets, fixed, answers
  <2>2. action' \in [Cleaners -> [success : BOOLEAN, items : Nat]]
    <3>1. ASSUME NEW ok \in BOOLEAN,
                 action' = [action EXCEPT ![c].items = @ + 1, ![c].success = @ /\ ok]
          PROVE  action' \in [Cleaners -> [success : BOOLEAN, items : Nat]]
      <4>1. /\ action \in [Cleaners -> [success : BOOLEAN, items : Nat]]
            /\ action[c].items + 1 \in Nat
        BY <1>0 DEF TypeOK
      <4> QED
        BY <3>1, <4>1
    <3>2. CASE action' = [action EXCEPT ![c].success = FALSE]
      BY <1>0, <3>2 DEF TypeOK
    <3>3. CASE UNCHANGED action
      BY <1>0, <3>3 DEF TypeOK
    <3> QED
      BY <1>8, <3>1, <3>2, <3>3 DEF Unlink, Keep, Pass, Refused
  <2>3. \A d \in Cleaners \ {c} : action'[d] = action[d]
    BY <1>0, <1>8 DEF TypeOK, Unlink, Keep, Pass
  <2>4. faults' \in 0..MaxFaults
    BY <1>0, <1>8, CleanerAssumption DEF Unlink, Keep, Pass, Fault, NoFault, TypeOK
  <2> QED
    BY <1>0, <1>5, <2>1, <2>2, <2>3, <2>4 DEF TypeOK
<1>9. CASE Close(c)
  <2>1. TypeOK'
    BY <1>0, <1>9 DEF Close, TypeOK, fixed, tree, answers
  <2> QED
    BY <1>0, <1>5, <1>9, <2>1 DEF Close, TypeOK, fixed, tree, answers
<1> QED
  BY <1>1, <1>2, <1>3, <1>4, <1>6, <1>7, <1>8, <1>9 DEF Execute

\* Whatever applications do leaves the calls where they are.
LEMMA ApplicationsIInv ==
  ASSUME IInv, Applications \/ Arrive
  PROVE  IInv'
<1>1. ASSUME NEW e, Discard(e) PROVE IInv'
  BY <1>1, CleanerAssumption DEF Discard, IInv, TypeOK, RootIdle, AnsweredLater, TakenAnswered, fixed, answers
<1>2. ASSUME NEW e, Create(e) PROVE IInv'
  <2>1. PICK seeing \in SUBSET {d \in Cleaners :
                             pc[d] = "clear" /\ Meetable(rule[d], Head(left[d]), e)} :
          todo' = [d \in Cleaners |-> IF d \in seeing THEN todo[d] \cup {e} ELSE todo[d]]
    BY <1>2 DEF Create
  <2>2. /\ DOMAIN todo' = Cleaners
        /\ \A d \in Cleaners : pc[d] # "clear" => todo'[d] = todo[d]
    BY <2>1
  <2>3. TypeOK'
    BY <1>2, <2>2, CleanerAssumption DEF Create, IInv, TypeOK, fixed, answers
  <2> QED
    BY <1>2, <2>3 DEF Create, IInv, TypeOK, RootIdle, AnsweredLater, TakenAnswered, fixed, answers
<1> QED
  BY <1>1, <1>2 DEF Applications, Arrive

\* Every step of the program preserves the invariant.
LEMMA NextIInv == IInv /\ [Next]_vars => IInv'
<1> SUFFICES ASSUME IInv, [Next]_vars PROVE IInv'
  OBVIOUS
<1>1. ASSUME NEW c \in Cleaners, Execute(c) PROVE IInv'
  BY <1>1, ExecuteIInv
<1>2. CASE Applications \/ Arrive
  BY <1>2, ApplicationsIInv
<1>3. CASE UNCHANGED vars
  BY <1>3 DEF vars, fixed, tree, answers, IInv, TypeOK, RootIdle, AnsweredLater, TakenAnswered
<1> QED
  BY <1>1, <1>2, <1>3 DEF Next

LEMMA Invariance == Spec => []IInv
BY InitIInv, NextIInv, PTL DEF Spec

\* The variables of every call keep to their types and go together.
THEOREM TypeCorrect == Spec => []TypeOK
<1>1. IInv => TypeOK
  BY DEF IInv
<1> QED
  BY <1>1, Invariance, PTL

-----------------------------------------------------------------------------
(* Paths and trees. *)

\* A prefix agrees component by component.
LEMMA PrefixIs ==
  ASSUME NEW s \in Paths, NEW t \in Paths
  PROVE  IsPrefix(s, t) <=> Len(s) <= Len(t) /\ \A i \in 1..Len(s) : s[i] = t[i]
<1>1. ASSUME Len(s) <= Len(t)
      PROVE  /\ SubSeq(s, 1, Len(s)) = s
             /\ SubSeq(t, 1, Len(s)) \in Paths /\ Len(SubSeq(t, 1, Len(s))) = Len(s)
             /\ \A i \in 1..Len(s) : SubSeq(t, 1, Len(s))[i] = t[i]
  BY <1>1, SubSeqFull, SubSeqProperties, LenProperties, ElementOfSeq DEF Paths
<1>2. Len(s) <= Len(t) => (s = SubSeq(t, 1, Len(s)) <=> \A i \in 1..Len(s) : s[i] = t[i])
  BY <1>1, SeqEqual DEF Paths
<1> QED
  BY <1>1, <1>2 DEF IsPrefix

LEMMA PrefixOfPrefix ==
  ASSUME NEW s \in Paths, NEW t \in Paths, NEW u \in Paths, IsPrefix(s, t), IsPrefix(t, u)
  PROVE  IsPrefix(s, u)
BY PrefixIs, LenProperties DEF Paths

\* A prefix is what the path begins with.
LEMMA PrefixIsCut ==
  ASSUME NEW s \in Paths, NEW t \in Paths, IsPrefix(s, t)
  PROVE  Len(s) \in 0..Len(t) /\ s = SubSeq(t, 1, Len(s))
BY SubSeqFull, LenProperties DEF IsPrefix, Paths

LEMMA CutIsPrefix ==
  ASSUME NEW t \in Paths, NEW n \in 0..Len(t)
  PROVE  SubSeq(t, 1, n) \in Paths /\ Len(SubSeq(t, 1, n)) = n /\ IsPrefix(SubSeq(t, 1, n), t)
<1>1. /\ SubSeq(t, 1, n) \in Paths /\ Len(SubSeq(t, 1, n)) = n
      /\ \A i \in 1..n : SubSeq(t, 1, n)[i] = t[i]
  BY SubSeqProperties, LenProperties, ElementOfSeq DEF Paths
<1> DEFINE u == SubSeq(t, 1, n)
<1>2. u \in Paths /\ Len(u) = n /\ (\A i \in 1..Len(u) : u[i] = t[i]) /\ Len(u) <= Len(t)
  BY <1>1, LenProperties DEF Paths
<1> HIDE DEF u
<1>3. IsPrefix(u, t)
  BY <1>2, PrefixIs
<1> QED
  BY <1>2, <1>3 DEF u

\* What a path begins with is the path, or begins the directory it is in.
LEMMA CutOfFront ==
  ASSUME NEW t \in Paths, t # <<>>, NEW n \in 0..Len(t)
  PROVE  /\ Front(t) \in Paths
         /\ SubSeq(t, 1, n) = t \/ (n \in 0..Len(Front(t)) /\ SubSeq(t, 1, n) = SubSeq(Front(t), 1, n))
<1>1. Len(t) \in Nat \ {0}
  BY EmptySeq DEF Paths
<1>2. Front(t) \in Paths /\ Len(Front(t)) = Len(t) - 1 /\ IsPrefix(Front(t), t)
  <2>1. Len(t) - 1 \in 0..Len(t)
    BY <1>1
  <2> QED
    BY <2>1, CutIsPrefix DEF Front
<1>3. CASE n = Len(t)
  BY <1>2, <1>3, SubSeqFull DEF Paths
<1>4. CASE n < Len(t)
  <2> DEFINE u == SubSeq(t, 1, n)
             v == SubSeq(Front(t), 1, n)
  <2>1. u \in Paths /\ Len(u) = n /\ IsPrefix(u, t)
    BY CutIsPrefix
  <2>2. v \in Paths /\ Len(v) = n /\ IsPrefix(v, t)
    BY <1>1, <1>2, <1>4, CutIsPrefix, PrefixOfPrefix
  <2> QED
    BY <1>1, <1>2, <1>4, <2>1, <2>2, PrefixIsCut
<1> QED
  BY <1>1, <1>3, <1>4

LEMMA BareIsPath == \A p \in Paths : Bare(p) \in Paths
<1> SUFFICES ASSUME NEW p \in Paths, p # <<>> PROVE Front(p) \in Paths
  BY DEF Bare
<1> QED
  BY EmptySeq, CutIsPrefix DEF Front, Paths

LEMMA JoinIsPath == \A p, q \in Paths : Join(p, q) \in Paths
BY BareIsPath, ConcatProperties DEF Join, Paths

LEMMA EachArePaths ==
  ASSUME NEW base \in Paths, NEW list \in Seq(Paths)
  PROVE  Each(base, list) \in Seq(Paths)
<1>1. Len(list) \in Nat /\ DOMAIN list = 1..Len(list) /\ \A i \in DOMAIN list : list[i] \in Paths
  BY LenProperties, ElementOfSeq
<1>2. Each(base, list) \in [1..Len(list) -> Paths]
  BY <1>1, JoinIsPath DEF Each
<1> QED
  BY <1>1, <1>2, SeqDef

LEMMA NamesArePaths ==
  /\ \A x \in Names : <<x>> \in Paths
  /\ \A x, y \in Names : <<x, y>> \in Paths
  /\ \A x, y, z, w \in Names : <<x, y, z, w>> \in Paths
BY DEF Paths

\* The targets of a category are absolute paths.
LEMMA TargetsArePaths ==
  ASSUME NEW s, {s.home, s.cacheHome, s.dataHome} \subseteq Paths, NEW id \in UserIds
  PROVE  Targets(s, id) \in Seq(Paths)
<1> USE CatalogAssumption, EachArePaths, JoinIsPath
<1>1. \A p \in Paths : <<p>> \in Seq(Paths)
  OBVIOUS
<1>2. \A p, q \in Paths : <<p, q>> \in Seq(Paths)
  OBVIOUS
<1>3. /\ <<"thumbnails">> \in Paths /\ <<"Trash", "files">> \in Paths
      /\ <<"Trash", "info">> \in Paths
  BY NamesArePaths, CatalogAssumption
<1>4. BrowserPaths(s) \in Seq(Paths)
  BY DEF BrowserPaths
<1>5. DeveloperPaths(s) \in Seq(Paths)
  BY ConcatProperties DEF DeveloperPaths
<1>6. GamingPaths(s) \in Seq(Paths)
  BY ConcatProperties DEF GamingPaths
<1>7. [i \in DOMAIN Apps |-> Join(s.home, <<".var", "app", Apps[i], "cache">>)] \in Seq(Paths)
  <2>1. Len(Apps) \in Nat /\ DOMAIN Apps = 1..Len(Apps) /\ \A i \in DOMAIN Apps : Apps[i] \in Names
    BY LenProperties, ElementOfSeq DEF Paths
  <2>2. \A i \in DOMAIN Apps : <<".var", "app", Apps[i], "cache">> \in Paths
    BY <2>1, NamesArePaths, CatalogAssumption
  <2>3. [i \in DOMAIN Apps |-> Join(s.home, <<".var", "app", Apps[i], "cache">>)]
          \in [1..Len(Apps) -> Paths]
    BY <2>1, <2>2
  <2> QED
    BY <2>1, <2>3, SeqDef
<1>8. CASE id \in {"application-cache", "thumbnails", "trash"}
  BY <1>1, <1>2, <1>3, <1>8 DEF Targets, Thumbnails
<1>9. CASE id \in {"browser-cache", "developer-cache", "gaming-cache"}
  BY <1>4, <1>5, <1>6, <1>9 DEF Targets
<1>10. CASE id = "flatpak-cache"
  BY <1>7, <1>10 DEF Targets, FlatpakPaths
<1> QED
  BY <1>8, <1>9, <1>10 DEF UserIds

\* What exists is a tree of paths with neither a link nor a file on the way.
TreeInv ==
  /\ DOMAIN skipped = Cleaners
  /\ {system.home, system.cacheHome, system.dataHome} \subseteq Paths
  /\ entries \subseteq Paths
  /\ \A e \in entries : \A n \in 0..Len(e) : SubSeq(e, 1, n) \in entries
  /\ \A e \in entries, l \in DOMAIN Links : ~IsPrefix(l, e)
  /\ \A e \in entries, f \in Files : ~IsStrictPrefix(f, e)
  /\ changes = 0 => entries \subseteq before

\* What no step undoes.
Frame ==
  /\ UNCHANGED <<system, before, request>>
  /\ entries' \subseteq entries \cup arrived'
  /\ arrived \subseteq arrived'
  /\ \A c \in Cleaners : skipped[c] \subseteq skipped'[c]
  /\ changes' >= changes /\ faults' >= faults
  /\ changes' = changes => entries' \subseteq entries

\* Nothing exists below a target that does not exist.
LEMMA MissingHoldsNothing ==
  ASSUME TreeInv, NEW t \in Paths, ~Exists(t), NEW e \in entries
  PROVE  ~IsStrictPrefix(Bare(t), e)
<1> SUFFICES ASSUME IsPrefix(Bare(t), e) PROVE FALSE
  BY DEF IsStrictPrefix
<1>1. e \in Paths /\ Bare(t) \in Paths
  BY BareIsPath DEF TreeInv
<1>2. Bare(t) \in entries
  <2>1. Len(Bare(t)) \in 0..Len(e) /\ Bare(t) = SubSeq(e, 1, Len(Bare(t)))
    BY <1>1, PrefixIsCut, Zenon
  <2> QED
    BY <2>1, Zenon DEF TreeInv
<1>3. Resolve(Bare(t)) = Bare(t)
  BY <1>2 DEF Resolve, TreeInv
<1> QED
  BY <1>2, <1>3 DEF Exists

\* What a category leaves out are paths.
LEMMA ExclusionsArePaths ==
  ASSUME NEW s, {s.home, s.cacheHome, s.dataHome} \subseteq Paths, NEW id
  PROVE  Exclusions(s, id) \subseteq Paths
<1>1. /\ Targets(s, "thumbnails") \in Seq(Paths) /\ Targets(s, "browser-cache") \in Seq(Paths)
      /\ Targets(s, "developer-cache") \in Seq(Paths) /\ Targets(s, "gaming-cache") \in Seq(Paths)
  BY TargetsArePaths DEF UserIds
<1>2. /\ BrowserPaths(s) \in Seq(Paths) /\ DeveloperPaths(s) \in Seq(Paths)
      /\ GamingPaths(s) \in Seq(Paths)
  BY <1>1 DEF Targets
<1>3. Thumbnails(s) \in Paths
  BY JoinIsPath, NamesArePaths, CatalogAssumption DEF Thumbnails
<1>4. \A list \in Seq(Paths) : ToSet(list) \subseteq Paths
  BY ElementOfSeq, LenProperties DEF ToSet
<1>5. GenericExclusions(s) \subseteq Paths
  BY <1>2, <1>3, <1>4 DEF GenericExclusions
<1> QED
  BY <1>5 DEF Exclusions

\* On the way to what a boundary holds the walk meets that itself, or a
\* directory that is too deep.
LEMMA CutIsMet ==
  ASSUME TreeInv, NEW id, NEW t \in Paths, Bare(t) = t,
         NEW e \in entries, IsContent(system, id, t, e)
  PROVE  \E n \in 0..Len(e) :
           /\ SubSeq(e, 1, n) \in entries
           /\ Meetable(id, t, SubSeq(e, 1, n))
           /\ Listable(t, e) => SubSeq(e, 1, n) = e
           /\ ~Listable(t, e) => Refused(t, SubSeq(e, 1, n))
<1>1. /\ e \in Paths /\ Len(e) \in Nat /\ Len(t) \in Nat /\ MaxDepth \in Nat
      /\ IsPrefix(t, e) /\ t # e /\ ~IsExcluded(e, Exclusions(system, id))
  BY LenProperties, CleanerAssumption DEF TreeInv, IsContent, IsStrictPrefix, Paths
<1>2. CASE Listable(t, e)
  <2>1. SubSeq(e, 1, Len(e)) = e /\ Len(e) \in 0..Len(e)
    BY <1>1, SubSeqFull DEF Paths
  <2> QED
    BY <1>2, <2>1 DEF Meetable
<1>3. CASE ~Listable(t, e)
  <2> DEFINE n == Len(t) + MaxDepth + 1
             u == SubSeq(e, 1, n)
  <2>1. n \in 0..Len(e) /\ n < Len(e) /\ n > Len(t)
    BY <1>1, <1>3 DEF Listable
  <2>2. u \in entries /\ u \in Paths /\ Len(u) = n /\ IsPrefix(u, e)
    BY <1>1, <2>1, CutIsPrefix DEF TreeInv
  <2>3. u # e /\ u # t
    BY <2>1, <2>2
  <2> HIDE DEF u
  <2>4. IsPrefix(t, u)
    <3>1. /\ Len(t) <= Len(e) /\ \A i \in 1..Len(t) : t[i] = e[i]
          /\ \A i \in 1..Len(u) : u[i] = e[i]
      BY <1>1, <2>2, PrefixIs
    <3> QED
      BY <2>1, <2>2, <3>1, PrefixIs, LenProperties DEF Paths
  <2>5. ~IsExcluded(u, Exclusions(system, id))
    BY <1>1, <2>2, ExclusionsArePaths, PrefixOfPrefix DEF IsExcluded, IsWithin, TreeInv
  <2>6. u \notin Files
    BY <2>2, <2>3 DEF TreeInv, IsStrictPrefix
  <2>7. Meetable(id, t, u) /\ Refused(t, u)
    BY <1>1, <2>1, <2>2, <2>3, <2>4, <2>5, <2>6
       DEF Meetable, Listable, Refused, IsContent, IsStrictPrefix
  <2> QED
    BY <1>3, <2>1, <2>2, <2>7 DEF u
<1> QED
  BY <1>2, <1>3

LEMMA InitTreeInv == Init => TreeInv
<1> SUFFICES ASSUME Init PROVE TreeInv
  OBVIOUS
<1>1. PICK s \in Situations :
        system = Detect(s.home, s.cacheEnv, s.dataEnv, s.root) /\ entries = s.entries
  BY DEF Init
<1>2. {s.home, s.cacheEnv, s.dataEnv} \subseteq Paths
  BY TreeAssumption
<1>3. <<".cache">> \in Paths /\ <<".local", "share">> \in Paths
  BY NamesArePaths, CatalogAssumption
<1>4. {system.home, system.cacheHome, system.dataHome} \subseteq Paths
  BY <1>1, <1>2, <1>3, JoinIsPath DEF Detect, ResolveXdgPath
<1>5. /\ entries \subseteq Paths
      /\ \A e \in entries : \A n \in 0..Len(e) : SubSeq(e, 1, n) \in entries
      /\ \A e \in entries, l \in DOMAIN Links : ~IsPrefix(l, e)
      /\ \A e \in entries, f \in Files : ~IsStrictPrefix(f, e)
  BY <1>1, TreeAssumption
<1> QED
  BY <1>4, <1>5 DEF Init, TreeInv

\* An entry that holds nothing may go without leaving a hole.
LEMMA RemoveKeepsTree ==
  ASSUME TreeInv, NEW e \in entries, ~HoldsSomething(e), entries' = entries \ {e},
         UNCHANGED <<system, before>>, DOMAIN skipped' = Cleaners, changes' = 0 => changes = 0
  PROVE  TreeInv'
<1>1. ASSUME NEW d \in entries', NEW n \in 0..Len(d) PROVE SubSeq(d, 1, n) \in entries'
  <2>1. d \in entries /\ d \in Paths /\ SubSeq(d, 1, n) \in entries
    BY DEF TreeInv
  <2>2. SubSeq(d, 1, n) # e
    BY <2>1, CutIsPrefix DEF HoldsSomething, IsStrictPrefix
  <2> QED
    BY <2>1, <2>2
<1> QED
  BY <1>1 DEF TreeInv

LEMMA CreateKeepsTree ==
  ASSUME TypeOK, TreeInv, NEW e \in Arrivals, Create(e)
  PROVE  TreeInv'
<1>1. /\ entries' = entries \cup {e} /\ Front(e) \in entries /\ e \notin entries
      /\ UNCHANGED <<system, before, skipped>> /\ changes' = changes + 1 /\ changes \in Nat
  BY CleanerAssumption DEF Create, fixed, TypeOK
<1>2. /\ e \in Paths /\ \A l \in DOMAIN Links : ~IsPrefix(l, e)
      /\ \A f \in Files : ~IsStrictPrefix(f, e)
  BY TreeAssumption
<1>3. e # <<>>
  <2> SUFFICES ASSUME e = <<>> PROVE Front(e) = <<>>
    BY <1>1
  <2>1. Len(e) - 1 \in Int /\ Len(e) - 1 < 1
    OBVIOUS
  <2> QED
    BY <2>1, SubSeqEmpty DEF Front
<1>4. ASSUME NEW d \in entries', NEW n \in 0..Len(d) PROVE SubSeq(d, 1, n) \in entries'
  <2>1. CASE d = e
    BY <1>1, <1>2, <1>3, <2>1, CutOfFront DEF TreeInv
  <2>2. CASE d # e
    BY <1>1, <2>2 DEF TreeInv
  <2> QED
    BY <2>1, <2>2
<1> QED
  BY <1>1, <1>2, <1>4 DEF TreeInv

LEMMA NextTreeInv ==
  ASSUME TypeOK, TreeInv, Next \/ UNCHANGED vars
  PROVE  TreeInv' /\ Frame
<1>0. changes \in Nat /\ faults \in Nat
  BY CleanerAssumption DEF TypeOK
<1>1. ASSUME NEW c \in Cleaners, Execute(c) PROVE TreeInv' /\ Frame
  <2>1. ASSUME UNCHANGED <<fixed, tree>>, DOMAIN skipped' = Cleaners, faults' >= faults,
               \A d \in Cleaners : skipped[d] \subseteq skipped'[d]
        PROVE  TreeInv' /\ Frame
    BY <1>0, <2>1 DEF TreeInv, Frame, fixed, tree
  <2>2. CASE Refuse(c) \/ NextRule(c) \/ Close(c) \/ EndRule(c) \/ SystemActions(c)
    BY <1>0, <2>1, <2>2 DEF Refuse, NextRule, Close, EndRule, SystemActions, TreeInv
  <2>3. CASE Examine(c)
    <3>1. faults' >= faults /\ UNCHANGED <<fixed, tree>>
      BY <1>0, <2>3 DEF Examine, Fault, NoFault
    <3>2. UNCHANGED skipped \/ skipped' = [skipped EXCEPT ![c] = @ \cup {Head(left[c])}]
      BY <2>3 DEF Examine
    <3> QED
      BY <2>1, <3>1, <3>2 DEF TreeInv
  <2>4. CASE Open(c)
    <3>1. faults' >= faults /\ UNCHANGED <<fixed, tree, skipped>>
      BY <1>0, <2>4 DEF Open, Fault, NoFault
    <3> QED
      BY <2>1, <3>1 DEF TreeInv
  <2>5. ASSUME NEW e \in todo[c], Unlink(c, e) PROVE TreeInv' /\ Frame
    <3>1. /\ e \in entries /\ ~HoldsSomething(e) /\ entries' = entries \ {e}
          /\ UNCHANGED <<system, before, request, arrived, changes, skipped, faults>>
      BY <2>5 DEF Unlink, Meets, fixed, NoFault
    <3> QED
      BY <1>0, <3>1, RemoveKeepsTree DEF Frame, TreeInv
  <2>6. ASSUME NEW e \in todo[c], Keep(c, e) \/ Pass(c, e) PROVE TreeInv' /\ Frame
    <3>1. faults' >= faults /\ UNCHANGED <<fixed, tree, skipped>>
      BY <1>0, <2>6 DEF Keep, Pass, Meets, Fault, NoFault, fixed, tree
    <3> QED
      BY <2>1, <3>1 DEF TreeInv
  <2> QED
    BY <1>1, <2>2, <2>3, <2>4, <2>5, <2>6 DEF Execute
<1>2. ASSUME NEW e \in entries, Discard(e) PROVE TreeInv' /\ Frame
  <2>1. /\ ~HoldsSomething(e) /\ entries' = entries \ {e} /\ changes' = changes + 1
        /\ UNCHANGED <<system, before, request, arrived, skipped, faults>>
    BY <1>2 DEF Discard, fixed
  <2> QED
    BY <1>0, <2>1, RemoveKeepsTree DEF Frame, TreeInv
<1>3. ASSUME NEW e \in Arrivals, Create(e) PROVE TreeInv' /\ Frame
  <2>1. /\ entries' = entries \cup {e} /\ arrived' = arrived \cup {e} /\ changes' = changes + 1
        /\ UNCHANGED <<system, before, request, skipped, faults>>
    BY <1>3 DEF Create, fixed
  <2> QED
    BY <1>0, <1>3, <2>1, CreateKeepsTree DEF Frame
<1>4. CASE UNCHANGED vars
  BY <1>0, <1>4 DEF vars, fixed, tree, TreeInv, Frame
<1> QED
  BY <1>1, <1>2, <1>3, <1>4 DEF Next, Applications, Arrive

-----------------------------------------------------------------------------
(* Success means gone. *)

\* What was in a target when the call started is gone.
Gone(c, id, t) ==
  \A e \in before \cap entries :
    IsContent(system, id, t, e) => e \in arrived \/ t \in skipped[c]

\* The targets still to come are the rest of the list, and while the category
\* has not failed those before them are empty.
Progress(c) ==
  \E n \in 0..Len(Targets(system, rule[c])) :
    /\ left[c] = SubSeq(Targets(system, rule[c]), n + 1, Len(Targets(system, rule[c])))
    /\ action[c].success => \A i \in 1..n : Gone(c, rule[c], Targets(system, rule[c])[i])

\* While it has not failed, the walk has listed what it has to remove, or the
\* directory where it will fail.
Listed(c) ==
  action[c].success =>
    \A e \in before \cap entries :
      IsContent(system, rule[c], Head(left[c]), e) =>
        e \in arrived \/ \E n \in 0..Len(e) : SubSeq(e, 1, n) \in todo[c]

Cleared(c) ==
  \A id \in Own : report[c][id] = "ok" =>
    \A i \in DOMAIN Targets(system, id) : Gone(c, id, Targets(system, id)[i])

SuccessInv ==
  \A c \in Cleaners :
    /\ Cleared(c)
    /\ rule[c] # "none" => Progress(c)
    /\ pc[c] = "clear" => Listed(c)

GoneInv == TypeOK /\ TreeInv /\ SuccessInv

\* What is gone stays gone.
LEMMA GoneStays ==
  ASSUME Frame, NEW c \in Cleaners, NEW id, NEW t, Gone(c, id, t)
  PROVE  Gone(c, id, t)'
<1> SUFFICES ASSUME NEW e \in before \cap entries', IsContent(system, id, t, e)
             PROVE  e \in arrived' \/ t \in skipped'[c]
  BY DEF Frame, Gone
<1> QED
  BY DEF Frame, Gone

LEMMA ClearedStays ==
  ASSUME Frame, NEW c \in Cleaners, Cleared(c),
         \A id \in Own : report'[c][id] = "ok" => report[c][id] = "ok"
  PROVE  Cleared(c)'
<1> SUFFICES ASSUME NEW id \in Own, report[c][id] = "ok", NEW i \in DOMAIN Targets(system, id)
             PROVE  Gone(c, id, Targets(system, id)[i])'
  BY DEF Frame, Cleared
<1> QED
  BY GoneStays DEF Cleared, Frame

LEMMA ProgressStays ==
  ASSUME Frame, NEW c \in Cleaners, Progress(c), rule'[c] = rule[c], left'[c] = left[c],
         action'[c].success => action[c].success
  PROVE  Progress(c)'
<1> SUFFICES ASSUME NEW r, NEW T, r = rule[c], T = Targets(system, r) PROVE Progress(c)'
  OBVIOUS
<1>1. PICK n \in 0..Len(T) :
        /\ left[c] = SubSeq(T, n + 1, Len(T))
        /\ action[c].success => \A i \in 1..n : Gone(c, r, T[i])
  BY DEF Progress
<1>2. ASSUME action'[c].success, NEW i \in 1..n PROVE Gone(c, r, T[i])'
  BY <1>1, <1>2, GoneStays
<1>3. T = Targets(system', r) /\ r = rule'[c]
  BY DEF Frame
<1> QED
  BY <1>1, <1>2, <1>3 DEF Progress

LEMMA ListedStays ==
  ASSUME Frame, TreeInv', NEW c \in Cleaners, Listed(c), rule'[c] = rule[c], left'[c] = left[c],
         action'[c].success => action[c].success /\ todo[c] \cap entries' \subseteq todo'[c]
  PROVE  Listed(c)'
<1> SUFFICES ASSUME action'[c].success, NEW e \in before \cap entries',
                    IsContent(system, rule[c], Head(left[c]), e)
             PROVE  e \in arrived' \/ \E n \in 0..Len(e) : SubSeq(e, 1, n) \in todo'[c]
  BY DEF Frame, Listed
<1>1. e \in arrived' \/ \E n \in 0..Len(e) : SubSeq(e, 1, n) \in todo[c]
  BY DEF Frame, Listed
<1>2. \A n \in 0..Len(e) : SubSeq(e, 1, n) \in entries'
  BY DEF TreeInv
<1> QED
  BY <1>1, <1>2

\* A step of one call leaves the others where they are.
LEMMA OthersStay ==
  ASSUME TypeOK, NEW c \in Cleaners, Execute(c), NEW d \in Cleaners \ {c}
  PROVE  /\ pc'[d] = pc[d] /\ ids'[d] = ids[d] /\ rule'[d] = rule[d] /\ left'[d] = left[d]
         /\ todo'[d] = todo[d] /\ action'[d] = action[d] /\ report'[d] = report[d]
<1>1. CASE Refuse(c) \/ Examine(c) \/ Close(c) \/ EndRule(c) \/ SystemActions(c)
  BY <1>1 DEF Refuse, Examine, Close, EndRule, SystemActions, TypeOK, answers
<1>2. CASE NextRule(c)
  BY <1>2 DEF NextRule, TypeOK
<1>3. CASE Open(c)
  BY <1>3 DEF Open, TypeOK, answers
<1>4. ASSUME NEW e \in todo[c], Unlink(c, e) \/ Keep(c, e) \/ Pass(c, e)
      PROVE  /\ pc'[d] = pc[d] /\ ids'[d] = ids[d] /\ rule'[d] = rule[d] /\ left'[d] = left[d]
             /\ todo'[d] = todo[d] /\ action'[d] = action[d] /\ report'[d] = report[d]
  BY <1>4 DEF Unlink, Keep, Pass, Meets, TypeOK, answers
<1> QED
  BY <1>1, <1>2, <1>3, <1>4 DEF Execute

\* The targets of the category at hand are a list of paths, and those still to
\* come its end.
LEMMA AtTarget ==
  ASSUME TypeOK, TreeInv, NEW c \in Cleaners, rule[c] # "none", NEW T,
         T = Targets(system, rule[c]), NEW n \in 0..Len(T), left[c] = SubSeq(T, n + 1, Len(T))
  PROVE  /\ T \in Seq(Paths) /\ DOMAIN T = 1..Len(T) /\ Len(T) \in Nat
         /\ left[c] # <<>> => /\ n + 1 \in 1..Len(T)
                              /\ Head(left[c]) = T[n + 1] /\ T[n + 1] \in Paths
                              /\ Tail(left[c]) = SubSeq(T, n + 2, Len(T))
         /\ left[c] = <<>> => n = Len(T)
<1>1. rule[c] \in UserIds
  BY DEF TypeOK
<1>2. T \in Seq(Paths)
  BY <1>1, TargetsArePaths DEF TreeInv
<1>3. DOMAIN T = 1..Len(T) /\ Len(T) \in Nat
  BY <1>2, LenProperties
<1>4. CASE n = Len(T)
  BY <1>2, <1>3, <1>4, SubSeqEmpty
<1>5. CASE n < Len(T)
  <2>1. n + 1 \in 1..Len(T) /\ Len(T) \in (n + 1)..Len(T)
    BY <1>3, <1>5
  <2>2. Head(left[c]) = T[n + 1] /\ Tail(left[c]) = SubSeq(T, (n + 1) + 1, Len(T))
    BY <1>2, <2>1, HeadTailOfSubSeq
  <2>3. Len(left[c]) = Len(T) - (n + 1) + 1
    BY <1>2, <1>3, <2>1, SubSeqProperties, ElementOfSeq
  <2>4. left[c] # <<>>
    BY <1>3, <2>1, <2>3
  <2> QED
    BY <1>2, <1>3, <1>5, <2>1, <2>2, <2>4, ElementOfSeq
<1>6. n = Len(T) \/ n < Len(T)
  BY <1>3
<1> QED
  BY <1>4, <1>5, <1>6, Zenon

\* A target is done with when it is empty or the category has failed.
LEMMA TargetDone ==
  ASSUME TypeOK, TreeInv, Frame, NEW c \in Cleaners, Progress(c), rule[c] # "none",
         left[c] # <<>>, left'[c] = Tail(left[c]), rule'[c] = rule[c],
         action'[c].success => action[c].success,
         \A r, t : r = rule[c] /\ t = Head(left[c]) /\ action'[c].success /\ t \in Paths
                     => Gone(c, r, t)'
  PROVE  Progress(c)'
<1> SUFFICES ASSUME NEW r, NEW T, r = rule[c], T = Targets(system, r) PROVE Progress(c)'
  OBVIOUS
<1>1. PICK n \in 0..Len(T) :
        /\ left[c] = SubSeq(T, n + 1, Len(T))
        /\ action[c].success => \A i \in 1..n : Gone(c, r, T[i])
  BY DEF Progress
<1>2. /\ n + 1 \in 1..Len(T) /\ Len(T) \in Nat
      /\ Head(left[c]) = T[n + 1] /\ T[n + 1] \in Paths
      /\ Tail(left[c]) = SubSeq(T, n + 2, Len(T))
  BY <1>1, AtTarget
<1>3. ASSUME action'[c].success, NEW i \in 1..(n + 1) PROVE Gone(c, r, T[i])'
  <2>1. CASE i = n + 1
    BY <1>2, <1>3, <2>1
  <2>2. CASE i # n + 1
    <3>1. i \in 1..n
      BY <1>3, <2>2
    <3> QED
      BY <1>1, <1>3, <3>1, GoneStays
  <2> QED
    BY <2>1, <2>2
<1>4. T = Targets(system', r) /\ r = rule'[c] /\ n + 1 \in 0..Len(T)
      /\ left'[c] = SubSeq(T, (n + 1) + 1, Len(T))
  BY <1>2 DEF Frame
<1> QED
  BY <1>3, <1>4 DEF Progress

\* A step of a call preserves what its successes mean.
LEMMA ActorSuccess ==
  ASSUME TypeOK, AnsweredLater, TreeInv, TreeInv', Frame, NEW c \in Cleaners, Execute(c),
         Cleared(c), rule[c] # "none" => Progress(c), pc[c] = "clear" => Listed(c)
  PROVE  /\ Cleared(c)'
         /\ rule'[c] # "none" => Progress(c)'
         /\ pc'[c] = "clear" => Listed(c)'
<1> USE NoneIsNoRule
<1>1. CASE Refuse(c)
  BY <1>1, ClearedStays DEF Refuse, TypeOK, answers
<1>2. CASE NextRule(c)
  <2>1. /\ pc[c] = "rule" /\ rule[c] = "none" /\ UNCHANGED system /\ ids[c] \subseteq Ids
    BY <1>2 DEF NextRule, MayGoOn, TypeOK, fixed
  <2>2. PICK next \in ids[c] :
          IF next \in UserIds
          THEN /\ rule' = [rule EXCEPT ![c] = next]
               /\ left' = [left EXCEPT ![c] = Targets(system, next)]
               /\ action' = [action EXCEPT ![c] = Start]
               /\ pc' = [pc EXCEPT ![c] = "target"]
               /\ UNCHANGED report
          ELSE /\ report' = IF next \in SystemIds THEN report
                            ELSE [report EXCEPT ![c][next] = "failed"]
               /\ UNCHANGED <<pc, rule, left, action>>
    BY <1>2 DEF NextRule
  <2>3. CASE next \in UserIds
    <3>1. /\ rule'[c] = next /\ left'[c] = Targets(system, next) /\ pc'[c] = "target"
          /\ UNCHANGED report
      BY <2>2, <2>3 DEF TypeOK
    <3>2. Targets(system, next) \in Seq(Paths)
      BY <2>3, TargetsArePaths DEF TreeInv
    <3>3. left'[c] = SubSeq(Targets(system, next), 0 + 1, Len(Targets(system, next)))
          /\ 0 \in 0..Len(Targets(system, next))
      BY <3>1, <3>2, SubSeqFull, LenProperties
    <3>4. Progress(c)'
      BY <2>1, <3>1, <3>3 DEF Progress
    <3> QED
      BY <3>1, <3>4, ClearedStays
  <2>4. CASE next \notin UserIds
    <3>1. /\ report' = report \/ report' = [report EXCEPT ![c][next] = "failed"]
          /\ UNCHANGED <<pc, rule, left, action>>
      BY <2>2, <2>4
    <3>2. report \in [Cleaners -> [Ids -> Results]] /\ next \notin Own /\ Own \subseteq Ids
      BY <2>4 DEF TypeOK, Own
    <3>3. \A a \in Own : report'[c][a] = report[c][a]
      BY <2>1, <3>1, <3>2
    <3> QED
      BY <2>1, <3>1, <3>3, ClearedStays
  <2> QED
    BY <2>3, <2>4
<1>3. CASE Examine(c)
  <2>1. /\ pc[c] = "target" /\ left[c] # <<>> /\ rule[c] # "none"
        /\ UNCHANGED <<system, before, rule, action, report, entries>>
    BY <1>3 DEF Examine, TypeOK, fixed, tree, answers
  <2>2. Cleared(c)'
    BY <2>1, ClearedStays
  <2>3. CASE pc' = [pc EXCEPT ![c] = "open"] /\ UNCHANGED left
    BY <2>1, <2>2, <2>3, ProgressStays DEF TypeOK
  <2>4. CASE /\ left' = [left EXCEPT ![c] = Tail(@)] /\ UNCHANGED pc
             /\ ~Exists(Head(left[c])) \/ skipped' = [skipped EXCEPT ![c] = @ \cup {Head(left[c])}]
    <3>1. ASSUME NEW r, NEW t, t = Head(left[c]), t \in Paths PROVE Gone(c, r, t)'
      <4>1. CASE ~Exists(Head(left[c]))
        BY <2>1, <3>1, <4>1, MissingHoldsNothing DEF Gone, IsContent
      <4>2. CASE skipped' = [skipped EXCEPT ![c] = @ \cup {Head(left[c])}]
        <5>1. t \in skipped'[c]
          BY <3>1, <4>2 DEF TreeInv
        <5> QED
          BY <5>1 DEF Gone
      <4> QED
        BY <2>4, <4>1, <4>2
    <3>2. left'[c] = Tail(left[c])
      BY <2>4 DEF TypeOK
    <3>3. Progress(c)'
      BY <2>1, <3>1, <3>2, TargetDone
    <3> QED
      BY <2>1, <2>2, <2>4, <3>3 DEF TypeOK
  <2> QED
    BY <1>3, <2>3, <2>4 DEF Examine
<1>4. CASE Open(c)
  <2>1. /\ pc[c] = "open" /\ left[c] # <<>> /\ rule[c] # "none"
        /\ UNCHANGED <<system, before, entries, rule, report>>
    BY <1>4 DEF Open, TypeOK, fixed, tree, answers
  <2>2. Cleared(c)'
    BY <2>1, ClearedStays
  <2>3. CASE /\ Opens(Head(left[c]))
             /\ todo' = [todo EXCEPT ![c] =
                           {e \in entries : Meetable(rule[c], Head(left[c]), e)}]
             /\ pc' = [pc EXCEPT ![c] = "clear"]
             /\ UNCHANGED <<left, action>>
    <3>1. todo'[c] = {e \in entries : Meetable(rule[c], Head(left[c]), e)}
      BY <2>3 DEF TypeOK
    <3>2. ASSUME NEW e \in entries, IsContent(system, rule[c], Head(left[c]), e)
          PROVE  \E n \in 0..Len(e) : SubSeq(e, 1, n) \in todo'[c]
      <4>1. Head(left[c]) \in Paths /\ Bare(Head(left[c])) = Head(left[c])
        BY <2>3 DEF Opens, TreeInv
      <4> QED
        BY <3>1, <3>2, <4>1, CutIsMet
    <3>3. Listed(c)'
      BY <2>1, <2>3, <3>2 DEF Listed
    <3> QED
      BY <2>1, <2>2, <2>3, <3>3, ProgressStays
  <2>4. CASE /\ action' = [action EXCEPT ![c].success = FALSE]
             /\ left' = [left EXCEPT ![c] = Tail(@)]
             /\ pc' = [pc EXCEPT ![c] = "target"]
    <3>1. left'[c] = Tail(left[c]) /\ pc'[c] = "target" /\ ~action'[c].success
      BY <2>4 DEF TypeOK
    <3> QED
      BY <2>1, <2>2, <3>1, TargetDone
  <2> QED
    BY <1>4, <2>3, <2>4 DEF Open
<1>5. ASSUME NEW e \in todo[c], Unlink(c, e) \/ Keep(c, e) \/ Pass(c, e)
      PROVE  Cleared(c)' /\ Progress(c)' /\ Listed(c)' /\ pc'[c] = "clear" /\ rule'[c] # "none"
  <2>1. /\ pc[c] = "clear" /\ rule[c] # "none" /\ UNCHANGED <<pc, rule, left, report>>
        /\ todo'[c] = todo[c] \ {e}
    <3>1. /\ pc[c] = "clear" /\ UNCHANGED <<pc, rule, left, report>>
          /\ todo' = [todo EXCEPT ![c] = @ \ {e}]
      BY <1>5 DEF Unlink, Keep, Pass, Meets, answers
    <3> QED
      BY <3>1 DEF TypeOK
  <2>2. action'[c].success => action[c].success /\ e \notin entries'
    <3>0. action \in [Cleaners -> [success : BOOLEAN, items : Nat]]
      BY DEF TypeOK
    <3>1. CASE Unlink(c, e)
      <4>1. /\ e \notin entries'
            /\ action' = [action EXCEPT ![c].items = @ + 1,
                                        ![c].success = @ /\ ~Refused(Head(left[c]), e)]
        BY <3>1 DEF Unlink
      <4> QED
        BY <3>0, <4>1
    <3>2. CASE Keep(c, e)
      <4>1. action' = [action EXCEPT ![c].success = FALSE]
        BY <3>2 DEF Keep
      <4> QED
        BY <3>0, <4>1
    <3>3. CASE Pass(c, e)
      BY <3>3 DEF Pass
    <3> QED
      BY <1>5, <3>1, <3>2, <3>3
  <2> QED
    BY <2>1, <2>2, ClearedStays, ProgressStays, ListedStays
<1>6. CASE Close(c)
  <2>1. /\ pc[c] = "clear" /\ todo[c] = {} /\ left[c] # <<>> /\ rule[c] # "none"
        /\ UNCHANGED <<system, before, entries, rule, action, report>>
        /\ left'[c] = Tail(left[c]) /\ pc'[c] = "target"
    BY <1>6 DEF Close, TypeOK, fixed, tree, answers
  <2>2. ASSUME NEW r, NEW t, r = rule[c], t = Head(left[c]), action'[c].success
        PROVE  Gone(c, r, t)'
    BY <2>1, <2>2 DEF Gone, Listed, Frame
  <2>3. Progress(c)'
    BY <2>1, <2>2, TargetDone
  <2> QED
    BY <2>1, <2>3, ClearedStays
<1>7. CASE EndRule(c)
  <2>1. /\ left[c] = <<>> /\ rule[c] # "none" /\ rule'[c] = "none" /\ pc'[c] = "rule"
        /\ rule[c] \in UserIds /\ rule[c] \in request[c] /\ UNCHANGED system
        /\ report' = [report EXCEPT ![c][rule[c]] = IF action[c].success THEN "ok" ELSE "failed"]
    <3>1. /\ pc[c] = "target" /\ left[c] = <<>> /\ rule' = [rule EXCEPT ![c] = "none"]
          /\ pc' = [pc EXCEPT ![c] = "rule"] /\ UNCHANGED system
          /\ report' = [report EXCEPT ![c][rule[c]] = IF action[c].success THEN "ok" ELSE "failed"]
      BY <1>7 DEF EndRule, fixed
    <3>2. rule[c] \in UserIds /\ rule'[c] = "none" /\ pc'[c] = "rule"
      BY <3>1 DEF TypeOK
    <3> QED
      BY <3>1, <3>2 DEF AnsweredLater
  <2>2. rule[c] \in Own
    BY <2>1, AskedIds DEF Own
  <2>3. ASSUME NEW id \in Own, report'[c][id] = "ok", NEW T, T = Targets(system, id),
               NEW i \in DOMAIN T
        PROVE  Gone(c, id, T[i])'
    <3>1. CASE id = rule[c]
      <4>1. action[c].success
        BY <2>1, <2>2, <2>3, <3>1 DEF TypeOK, Own
      <4>2. PICK n \in 0..Len(T) :
              /\ left[c] = SubSeq(T, n + 1, Len(T))
              /\ action[c].success => \A j \in 1..n : Gone(c, id, T[j])
        BY <2>1, <2>3, <3>1 DEF Progress
      <4>3. n = Len(T) /\ DOMAIN T = 1..Len(T)
        BY <2>1, <2>3, <3>1, <4>2, AtTarget
      <4> QED
        BY <4>1, <4>2, <4>3, GoneStays
    <3>2. CASE id # rule[c]
      <4>1. report[c][id] = "ok"
        BY <2>1, <2>2, <2>3, <3>2 DEF TypeOK, Own
      <4> QED
        BY <2>3, <4>1, GoneStays DEF Cleared
    <3> QED
      BY <3>1, <3>2
  <2>4. Cleared(c)'
    BY <2>1, <2>3 DEF Cleared
  <2> QED
    BY <2>1, <2>4
<1>8. CASE SystemActions(c)
  <2>1. PICK ok \in SUBSET (request[c] \cap SystemIds) :
          report' = [report EXCEPT ![c] =
                       [i \in Ids |-> IF i \in ok THEN "ok"
                                      ELSE IF i \in request[c] \cap SystemIds THEN "failed"
                                      ELSE @[i]]]
    BY <1>8 DEF SystemActions
  <2>2. \A a \in Own : report'[c][a] = report[c][a]
    BY <2>1, CleanerAssumption DEF TypeOK, Own
  <2>3. rule[c] = "none" /\ UNCHANGED rule /\ pc'[c] = "done"
    BY <1>8 DEF SystemActions, MayGoOn, TypeOK
  <2> QED
    BY <2>2, <2>3, ClearedStays
<1> QED
  BY <1>1, <1>2, <1>3, <1>4, <1>5, <1>6, <1>7, <1>8 DEF Execute

LEMMA NextSuccess ==
  ASSUME TypeOK, AnsweredLater, TreeInv, SuccessInv, Next \/ UNCHANGED vars
  PROVE  SuccessInv'
<1>0. Frame /\ TreeInv'
  BY NextTreeInv
<1> SUFFICES ASSUME NEW c \in Cleaners
             PROVE  /\ Cleared(c)'
                    /\ rule'[c] # "none" => Progress(c)'
                    /\ pc'[c] = "clear" => Listed(c)'
  BY DEF SuccessInv
<1>1. ASSUME pc'[c] = pc[c], rule'[c] = rule[c], left'[c] = left[c], action'[c] = action[c],
             report'[c] = report[c], todo[c] \subseteq todo'[c]
      PROVE  /\ Cleared(c)'
             /\ rule'[c] # "none" => Progress(c)'
             /\ pc'[c] = "clear" => Listed(c)'
  BY <1>0, <1>1, ClearedStays, ProgressStays, ListedStays DEF SuccessInv
<1>2. CASE Execute(c)
  BY <1>0, <1>2, ActorSuccess DEF SuccessInv
<1>3. ASSUME NEW d \in Cleaners \ {c}, Execute(d)
      PROVE  /\ Cleared(c)'
             /\ rule'[c] # "none" => Progress(c)'
             /\ pc'[c] = "clear" => Listed(c)'
  BY <1>1, <1>3, OthersStay
<1>4. ASSUME NEW e, Discard(e) \/ Create(e)
      PROVE  /\ Cleared(c)'
             /\ rule'[c] # "none" => Progress(c)'
             /\ pc'[c] = "clear" => Listed(c)'
  BY <1>1, <1>4 DEF Discard, Create, answers
<1>5. CASE UNCHANGED vars
  BY <1>1, <1>5 DEF vars, answers
<1> QED
  BY <1>2, <1>3, <1>4, <1>5 DEF Next, Applications, Arrive

-----------------------------------------------------------------------------
(* A failure has a reason. *)

\* Nothing but this call touches the tree, and no call to the kernel fails.
Alone(c) ==
  /\ faults = 0 /\ changes = 0
  /\ \A d \in Cleaners \ {c} : request[d] \cap UserIds = {}

Excused(id) == Refusable(id) \/ HoldsExcluded(id) \/ HoldsTooDeep(id)

\* A category for which there is no reason does not fail: what was found to
\* exist can be opened, and the walk has ahead of it just what is there.
Sure(c) ==
  Alone(c) /\ rule[c] # "none" /\ ~Excused(rule[c]) =>
    /\ action[c].success
    /\ pc[c] = "open" => Exists(Head(left[c]))
    /\ pc[c] = "clear" =>
         \A e : e \in todo[c] <=> e \in entries /\ Meetable(rule[c], Head(left[c]), e)

Explained(c) ==
  Alone(c) => \A id \in Own : report[c][id] = "failed" => Excused(id)

FailureInv == \A c \in Cleaners : Sure(c) /\ Explained(c)

\* Who is alone was alone before, and the reasons stay what they are.
LEMMA AloneBefore ==
  ASSUME TypeOK, Frame
  PROVE  /\ \A c \in Cleaners : Alone(c)' => Alone(c) /\ faults' = faults /\ changes' = changes
         /\ \A id : Excused(id)' <=> Excused(id)
<1>1. faults \in Nat /\ changes \in Nat
  BY CleanerAssumption DEF TypeOK
<1>2. \A c \in Cleaners : Alone(c)' => Alone(c) /\ faults' = faults /\ changes' = changes
  <2> SUFFICES ASSUME NEW c \in Cleaners, Alone(c)'
               PROVE  Alone(c) /\ faults' = faults /\ changes' = changes
    OBVIOUS
  <2>1. faults' = 0 /\ changes' = 0 /\ request' = request
    BY DEF Alone, Frame
  <2>2. faults = 0 /\ changes = 0
    BY <1>1, <2>1 DEF Frame
  <2> QED
    BY <2>1, <2>2 DEF Alone
<1>3. \A id : Refusable(id)' <=> Refusable(id)
  BY DEF Frame, Refusable
<1>4. \A id : HoldsExcluded(id)' <=> HoldsExcluded(id)
  BY DEF Frame, HoldsExcluded
<1>5. \A id : HoldsTooDeep(id)' <=> HoldsTooDeep(id)
  BY DEF Frame, HoldsTooDeep
<1> QED
  BY <1>2, <1>3, <1>4, <1>5 DEF Excused

LEMMA ExplainedStays ==
  ASSUME TypeOK, Frame, NEW c \in Cleaners, Explained(c),
         \A id \in Own : report'[c][id] = "failed" => report[c][id] = "failed"
  PROVE  Explained(c)'
BY AloneBefore DEF Explained

LEMMA SureStays ==
  ASSUME TypeOK, Frame, NEW c \in Cleaners, Sure(c), rule'[c] = rule[c], left'[c] = left[c],
         action'[c] = action[c], pc'[c] = pc[c], todo'[c] = todo[c], entries' = entries
  PROVE  Sure(c)'
<1> SUFFICES ASSUME NEW id, id = rule[c], Alone(c)', rule[c] # "none", ~Excused(id)'
             PROVE  /\ action[c].success
                    /\ pc[c] = "open" => Exists(Head(left[c]))'
                    /\ pc[c] = "clear" =>
                         \A e : e \in todo[c] <=>
                                e \in entries /\ Meetable(rule[c], Head(left[c]), e)
  BY DEF Sure, Frame, Meetable
<1>1. Alone(c) /\ ~Excused(id)
  BY AloneBefore
<1> QED
  BY <1>1 DEF Sure, Exists

\* A target of a category without excuse that exists can be opened.
LEMMA ExistingOpens ==
  ASSUME TreeInv, changes = 0, NEW id, ~Refusable(id), NEW i \in DOMAIN Targets(system, id),
         Exists(Targets(system, id)[i])
  PROVE  Opens(Targets(system, id)[i])
<1> DEFINE t == Targets(system, id)[i]
<1>1. /\ LexicallyPermitted(system, t) /\ t = Bare(t)
      /\ ~\E l \in DOMAIN Links : IsPrefix(l, Bare(t))
      /\ t \notin before \cap (Files \cup Foreign)
  BY DEF Refusable
<1>2. t \in entries /\ entries \subseteq before
  BY <1>1 DEF Exists, Resolve, TreeInv
<1> QED
  BY <1>1, <1>2 DEF Opens

\* What lies below content is content or excluded.
LEMMA BelowContent ==
  ASSUME TreeInv, NEW id, NEW t \in Paths, NEW e \in entries, NEW d \in entries,
         IsContent(system, id, t, e), IsStrictPrefix(e, d), ~IsExcluded(d, Exclusions(system, id))
  PROVE  IsContent(system, id, t, d)
<1>1. e \in Paths /\ d \in Paths /\ Bare(t) \in Paths
  BY BareIsPath DEF TreeInv
<1>2. IsPrefix(Bare(t), e) /\ IsPrefix(e, d) /\ e # d /\ Bare(t) # e
  BY DEF IsContent, IsStrictPrefix
<1>3. IsPrefix(Bare(t), d)
  BY <1>1, <1>2, PrefixOfPrefix
<1>4. Bare(t) # d
  <2> SUFFICES ASSUME Bare(t) = d PROVE FALSE
    OBVIOUS
  <2>1. Len(e) = Len(d)
    BY <1>1, <1>2, PrefixIsCut, LenProperties DEF Paths
  <2> QED
    BY <1>1, <1>2, <2>1, PrefixIsCut, SubSeqFull DEF Paths
<1> QED
  BY <1>3, <1>4 DEF IsContent, IsStrictPrefix

\* A step of a call preserves what its failures mean.
LEMMA ActorFailure ==
  ASSUME TypeOK, AnsweredLater, TreeInv, Frame, NEW c \in Cleaners, Execute(c),
         rule[c] # "none" => Progress(c), Sure(c), Explained(c)
  PROVE  Sure(c)' /\ Explained(c)'
<1> USE NoneIsNoRule
<1>0. faults \in Nat /\ action \in [Cleaners -> [success : BOOLEAN, items : Nat]]
  BY CleanerAssumption DEF TypeOK
<1>1. ASSUME pc'[c] \in {"rule", "done"}, rule'[c] = "none",
             \A a \in Own : report'[c][a] = report[c][a]
      PROVE  Sure(c)' /\ Explained(c)'
  BY <1>1, ExplainedStays DEF Sure
<1>2. CASE Refuse(c)
  BY <1>1, <1>2 DEF Refuse, TypeOK, answers
<1>3. CASE NextRule(c)
  <2>1. /\ pc[c] = "rule" /\ rule[c] = "none" /\ UNCHANGED system /\ ids[c] \subseteq Ids
    BY <1>3 DEF NextRule, MayGoOn, TypeOK, fixed
  <2>2. PICK next \in ids[c] :
          IF next \in UserIds
          THEN /\ rule' = [rule EXCEPT ![c] = next]
               /\ left' = [left EXCEPT ![c] = Targets(system, next)]
               /\ action' = [action EXCEPT ![c] = Start]
               /\ pc' = [pc EXCEPT ![c] = "target"]
               /\ UNCHANGED report
          ELSE /\ report' = IF next \in SystemIds THEN report
                            ELSE [report EXCEPT ![c][next] = "failed"]
               /\ UNCHANGED <<pc, rule, left, action>>
    BY <1>3 DEF NextRule
  <2>3. CASE next \in UserIds
    <3>1. action'[c].success /\ pc'[c] = "target" /\ UNCHANGED report
      BY <1>0, <2>2, <2>3 DEF TypeOK, Start
    <3> QED
      BY <3>1, ExplainedStays DEF Sure
  <2>4. CASE next \notin UserIds
    <3>1. /\ report' = report \/ report' = [report EXCEPT ![c][next] = "failed"]
          /\ UNCHANGED <<pc, rule, left, action>>
      BY <2>2, <2>4
    <3>2. report \in [Cleaners -> [Ids -> Results]] /\ next \notin Own /\ Own \subseteq Ids
      BY <2>4 DEF TypeOK, Own
    <3>3. \A a \in Own : report'[c][a] = report[c][a]
      BY <2>1, <3>1, <3>2
    <3> QED
      BY <1>1, <2>1, <3>1, <3>3
  <2> QED
    BY <2>3, <2>4
<1>4. ASSUME rule'[c] = rule[c], rule[c] # "none", UNCHANGED report,
             Alone(c) /\ ~Excused(rule[c]) /\ Alone(c)' /\ action[c].success =>
               /\ action'[c].success
               /\ pc'[c] = "open" => Exists(Head(left[c])) /\ left'[c] = left[c] /\ entries' = entries
               /\ pc'[c] = "clear" =>
                    /\ \A e : e \in todo'[c] <=>
                              e \in entries' /\ Meetable(rule[c], Head(left[c]), e)
                    /\ left'[c] = left[c]
      PROVE  Sure(c)' /\ Explained(c)'
  <2>1. Explained(c)'
    BY <1>4, ExplainedStays
  <2>2. ASSUME NEW id, id = rule[c], Alone(c)', ~Excused(id)'
        PROVE  /\ action'[c].success
               /\ pc'[c] = "open" => Exists(Head(left[c])) /\ left'[c] = left[c] /\ entries' = entries
               /\ pc'[c] = "clear" =>
                    /\ \A e : e \in todo'[c] <=>
                              e \in entries' /\ Meetable(id, Head(left[c]), e)
                    /\ left'[c] = left[c]
    <3>1. Alone(c) /\ ~Excused(id)
      BY <2>2, AloneBefore
    <3> QED
      BY <1>4, <2>2, <3>1 DEF Sure
  <2>3. Sure(c)'
    BY <1>4, <2>2 DEF Sure, Frame, Exists, Meetable
  <2> QED
    BY <2>1, <2>3
<1>5. CASE Examine(c)
  <2>1. /\ pc[c] = "target" /\ rule[c] # "none"
        /\ UNCHANGED <<rule, report, action, entries>>
    BY <1>5 DEF Examine, TypeOK, fixed, tree, answers
  <2>2. pc'[c] # "clear" /\ (pc'[c] = "open" => Exists(Head(left[c])) /\ left' = left)
    BY <1>5, <2>1 DEF Examine, TypeOK
  <2> QED
    BY <1>4, <2>1, <2>2 DEF Exists
<1>6. CASE Open(c)
  <2>1. /\ pc[c] = "open" /\ rule[c] # "none" /\ left[c] # <<>>
        /\ UNCHANGED <<system, rule, report, entries>>
    BY <1>6 DEF Open, TypeOK, fixed, tree, answers
  <2>2. ASSUME Alone(c), ~Excused(rule[c]), Alone(c)', action[c].success
        PROVE  /\ action'[c].success /\ left'[c] = left[c] /\ pc'[c] = "clear"
               /\ \A e : e \in todo'[c] <=>
                         e \in entries /\ Meetable(rule[c], Head(left[c]), e)
    <3>1. Exists(Head(left[c]))
      BY <2>1, <2>2 DEF Sure
    <3>2. \E i \in DOMAIN Targets(system, rule[c]) : Head(left[c]) = Targets(system, rule[c])[i]
      BY <2>1, AtTarget DEF Progress
    <3>3. Opens(Head(left[c]))
      BY <2>2, <3>1, <3>2, ExistingOpens DEF Excused, Alone
    <3>4. faults' = faults
      BY <2>2 DEF Alone
    <3>5. /\ todo' = [todo EXCEPT ![c] =
                        {e \in entries : Meetable(rule[c], Head(left[c]), e)}]
          /\ pc' = [pc EXCEPT ![c] = "clear"] /\ UNCHANGED <<left, action>>
      BY <1>0, <1>6, <3>3, <3>4 DEF Open, Fault
    <3> QED
      BY <2>2, <3>5 DEF TypeOK
  <2> QED
    BY <1>4, <2>1, <2>2
<1>7. ASSUME NEW e \in todo[c], Unlink(c, e) \/ Keep(c, e) \/ Pass(c, e)
      PROVE  Sure(c)' /\ Explained(c)'
  <2>1. /\ pc[c] = "clear" /\ pc'[c] = "clear" /\ rule[c] # "none" /\ left[c] # <<>>
        /\ UNCHANGED <<system, rule, left, report>>
        /\ todo' = [todo EXCEPT ![c] = @ \ {e}] /\ ~\E d \in todo[c] : IsStrictPrefix(e, d)
    BY <1>7 DEF Unlink, Keep, Pass, Meets, TypeOK, fixed, answers
  <2>2. todo'[c] = todo[c] \ {e}
    BY <2>1 DEF TypeOK
  <2> DEFINE t == Head(left[c])
  <2>3. ASSUME Alone(c), ~Excused(rule[c]), Alone(c)', action[c].success
        PROVE  /\ Unlink(c, e) /\ ~Refused(t, e)
               /\ \A d : d \in todo[c] <=> d \in entries /\ Meetable(rule[c], t, d)
    <3>1. \A d : d \in todo[c] <=> d \in entries /\ Meetable(rule[c], t, d)
      BY <2>1, <2>3 DEF Sure
    <3>2. e \in entries /\ IsContent(system, rule[c], t, e)
      BY <3>1 DEF Meetable
    <3>3. t \in Paths /\ \E i \in DOMAIN Targets(system, rule[c]) : t = Targets(system, rule[c])[i]
      BY <2>1, AtTarget DEF Progress
    <3> HIDE DEF t
    <3>4. Bare(t) = t
      BY <2>3, <3>3 DEF Excused, Refusable
    <3>5. entries \subseteq before
      BY <2>3 DEF Alone, TreeInv
    <3>6. ASSUME NEW d \in entries, IsContent(system, rule[c], t, d) PROVE ~Refused(t, d)
      BY <2>3, <3>3, <3>5, <3>6 DEF Excused, HoldsTooDeep
    <3>7. ASSUME NEW d \in entries, IsStrictPrefix(e, d) PROVE FALSE
      <4>1. CASE IsExcluded(d, Exclusions(system, rule[c]))
        <5>1. InCategory(system, rule[c], e)
          BY <3>2, <3>3 DEF InCategory
        <5>2. e \in before /\ d \in before
          BY <3>2, <3>5, <3>7
        <5> QED
          BY <2>3, <3>7, <4>1, <5>1, <5>2 DEF Excused, HoldsExcluded
      <4>2. CASE ~IsExcluded(d, Exclusions(system, rule[c]))
        <5>1. IsContent(system, rule[c], t, d)
          BY <3>2, <3>3, <3>7, <4>2, BelowContent
        <5>2. Meetable(rule[c], t, d)
          BY <3>3, <3>4, <3>6, <3>7, <5>1, CutIsMet DEF Meetable
        <5> QED
          BY <2>1, <3>1, <3>7, <5>2
      <4> QED
        BY <4>1, <4>2
    <3>8. ~HoldsSomething(e) /\ faults' = faults
      BY <2>3, <3>7 DEF HoldsSomething, Alone
    <3> QED
      BY <1>0, <1>7, <3>1, <3>2, <3>6, <3>8 DEF Keep, Pass, Fault
  <2>4. ASSUME Alone(c), ~Excused(rule[c]), Alone(c)', action[c].success
        PROVE  /\ action'[c].success
               /\ \A d : d \in todo'[c] <=> d \in entries' /\ Meetable(rule[c], t, d)
    <3>1. /\ entries' = entries \ {e}
          /\ action' = [action EXCEPT ![c].items = @ + 1, ![c].success = @ /\ ~Refused(t, e)]
      BY <2>3, <2>4 DEF Unlink
    <3> QED
      BY <1>0, <2>2, <2>3, <2>4, <3>1
  <2> QED
    BY <1>4, <2>1, <2>4
<1>8. CASE Close(c)
  <2>1. /\ rule[c] # "none" /\ UNCHANGED <<rule, action, report>> /\ pc'[c] = "target"
    BY <1>8 DEF Close, TypeOK, answers
  <2> QED
    BY <1>4, <2>1
<1>9. CASE EndRule(c)
  <2>1. /\ pc[c] = "target" /\ rule[c] # "none" /\ rule'[c] = "none"
        /\ rule[c] \in UserIds /\ rule[c] \in request[c]
        /\ report' = [report EXCEPT ![c][rule[c]] = IF action[c].success THEN "ok" ELSE "failed"]
    <3>1. /\ pc[c] = "target" /\ rule' = [rule EXCEPT ![c] = "none"]
          /\ report' = [report EXCEPT ![c][rule[c]] = IF action[c].success THEN "ok" ELSE "failed"]
      BY <1>9 DEF EndRule
    <3>2. rule[c] \in UserIds /\ rule'[c] = "none"
      BY <3>1 DEF TypeOK
    <3> QED
      BY <3>1, <3>2 DEF AnsweredLater
  <2>2. rule[c] \in Own
    BY <2>1, AskedIds DEF Own
  <2>3. ASSUME NEW id \in Own, Alone(c)', report'[c][id] = "failed" PROVE Excused(id)'
    <3>1. Alone(c)
      BY <2>3, AloneBefore
    <3>2. CASE id = rule[c]
      <4>1. ~action[c].success
        BY <1>0, <2>1, <2>2, <2>3, <3>2 DEF TypeOK, Own
      <4> QED
        BY <2>1, <3>1, <3>2, <4>1, AloneBefore DEF Sure
    <3>3. CASE id # rule[c]
      <4>1. report[c][id] = "failed"
        BY <2>1, <2>2, <2>3, <3>3 DEF TypeOK, Own
      <4> QED
        BY <3>1, <4>1, AloneBefore DEF Explained
    <3> QED
      BY <3>2, <3>3
  <2> QED
    BY <2>1, <2>3 DEF Sure, Explained
<1>10. CASE SystemActions(c)
  <2>1. PICK ok \in SUBSET (request[c] \cap SystemIds) :
          report' = [report EXCEPT ![c] =
                       [i \in Ids |-> IF i \in ok THEN "ok"
                                      ELSE IF i \in request[c] \cap SystemIds THEN "failed"
                                      ELSE @[i]]]
    BY <1>10 DEF SystemActions
  <2>2. \A a \in Own : report'[c][a] = report[c][a]
    BY <2>1, CleanerAssumption DEF TypeOK, Own
  <2>3. rule'[c] = "none" /\ pc'[c] = "done"
    BY <1>10 DEF SystemActions, MayGoOn, TypeOK
  <2> QED
    BY <1>1, <2>2, <2>3
<1> QED
  BY <1>2, <1>3, <1>5, <1>6, <1>7, <1>8, <1>9, <1>10 DEF Execute

LEMMA NextFailure ==
  ASSUME TypeOK, AnsweredLater, TreeInv, SuccessInv, FailureInv, Next \/ UNCHANGED vars
  PROVE  FailureInv'
<1>0. Frame
  BY NextTreeInv
<1> SUFFICES ASSUME NEW c \in Cleaners PROVE Sure(c)' /\ Explained(c)'
  BY DEF FailureInv
<1>1. CASE Execute(c)
  BY <1>0, <1>1, ActorFailure DEF SuccessInv, FailureInv
<1>2. ASSUME NEW d \in Cleaners \ {c}, Execute(d) PROVE Sure(c)' /\ Explained(c)'
  <2>1. Explained(c)'
    BY <1>0, <1>2, OthersStay, ExplainedStays DEF FailureInv
  <2>2. CASE request[d] \cap UserIds # {}
    <3>1. ~Alone(c)'
      BY <1>0, <2>2 DEF Alone, Frame
    <3> QED
      BY <2>1, <3>1 DEF Sure
  <2>3. CASE request[d] \cap UserIds = {}
    <3>1. rule[d] = "none" /\ pc[d] \in {"rule", "done"}
      BY <2>3 DEF TypeOK, AnsweredLater
    <3>2. UNCHANGED entries
      BY <1>2, <3>1 DEF Execute, Refuse, NextRule, Examine, Open, Unlink, Keep, Pass, Meets, Close,
                        EndRule, SystemActions, tree
    <3>3. Sure(c)'
      BY <1>0, <1>2, <3>2, OthersStay, SureStays DEF FailureInv
    <3> QED
      BY <2>1, <3>3
  <2> QED
    BY <2>2, <2>3
<1>3. ASSUME NEW e, Discard(e) \/ Create(e) PROVE Sure(c)' /\ Explained(c)'
  <2>1. changes' # 0
    BY <1>3, CleanerAssumption DEF Discard, Create, TypeOK
  <2> QED
    BY <2>1 DEF Sure, Explained, Alone
<1>4. CASE UNCHANGED vars
  <2>1. UNCHANGED <<pc, rule, left, todo, action, report, entries>>
    BY <1>4 DEF vars, answers, tree
  <2> QED
    BY <1>0, <2>1, SureStays, ExplainedStays DEF FailureInv
<1> QED
  BY <1>1, <1>2, <1>3, <1>4 DEF Next, Applications, Arrive

-----------------------------------------------------------------------------
(* The report. *)

\* Categories of neither kind are answered at once, those of the helper at the
\* end.
AnswerInv ==
  \A c \in Cleaners :
    ~system.root =>
      /\ \A i \in request[c] \ (UserIds \cup SystemIds) : i \notin ids[c] => report[c][i] # "none"
      /\ pc[c] = "done" => \A i \in request[c] \cap SystemIds : report[c][i] # "none"

ReportInv == IInv /\ TreeInv /\ SuccessInv /\ FailureInv /\ AnswerInv

LEMMA NextAnswers ==
  ASSUME IInv, AnswerInv, Next \/ UNCHANGED vars
  PROVE  AnswerInv'
<1> USE NoneIsNoRule
<1>0. TypeOK
  BY DEF IInv
<1>1. ASSUME UNCHANGED <<system, request, ids>>,
             \A d \in Cleaners : pc'[d] = "done" /\ ~system.root => pc[d] = "done",
             \A d \in Cleaners, i \in Ids \ UserIds : report'[d][i] = report[d][i]
      PROVE  AnswerInv'
  BY <1>1, <1>0, AskedIds, CleanerAssumption DEF AnswerInv
<1>2. ASSUME NEW c \in Cleaners, Execute(c) PROVE AnswerInv'
  <2>1. CASE Refuse(c)
    BY <1>0, <1>1, <2>1 DEF Refuse, TypeOK, fixed, answers
  <2>2. CASE NextRule(c)
    <3>1. PICK next \in ids[c] :
            /\ ids' = [ids EXCEPT ![c] = @ \ {next}]
            /\ pc' = pc \/ pc' = [pc EXCEPT ![c] = "target"]
            /\ IF next \in UserIds \cup SystemIds THEN UNCHANGED report
               ELSE report' = [report EXCEPT ![c][next] = "failed"]
      BY <2>2 DEF NextRule
    <3>2. next \in Ids /\ UNCHANGED <<system, request>>
      BY <1>0, <2>2, AskedIds DEF NextRule, fixed
    <3>3. \A d \in Cleaners : pc'[d] = "done" => pc[d] = "done"
      BY <1>0, <3>1 DEF TypeOK
    <3>4. \A d \in Cleaners : \A i \in request[d] :
            i \notin ids'[d] => i \notin ids[d] \/ (d = c /\ i = next)
      BY <1>0, <3>1 DEF TypeOK
    <3>5. CASE next \in UserIds \cup SystemIds
      BY <3>1, <3>2, <3>3, <3>4, <3>5 DEF AnswerInv
    <3>6. CASE next \notin UserIds \cup SystemIds
      <4>1. \A d \in Cleaners, i \in Ids :
              report'[d][i] = IF d = c /\ i = next THEN "failed" ELSE report[d][i]
        BY <1>0, <3>1, <3>2, <3>6 DEF TypeOK
      <4> QED
        BY <1>0, <3>2, <3>3, <3>4, <3>6, <4>1, AskedIds DEF AnswerInv
    <3> QED
      BY <3>5, <3>6
  <2>3. CASE Examine(c) \/ Open(c) \/ Close(c)
    <3>1. UNCHANGED <<system, request, ids, report>>
      BY <2>3 DEF Examine, Open, Close, fixed, answers
    <3>2. \A d \in Cleaners : pc'[d] = "done" => pc[d] = "done"
      BY <1>0, <2>3 DEF Examine, Open, Close, TypeOK
    <3> QED
      BY <1>1, <3>1, <3>2
  <2>4. ASSUME NEW e \in todo[c], Unlink(c, e) \/ Keep(c, e) \/ Pass(c, e) PROVE AnswerInv'
    BY <1>1, <2>4 DEF Unlink, Keep, Pass, Meets, fixed, answers
  <2>5. CASE EndRule(c)
    <3>1. /\ pc[c] = "target" /\ pc' = [pc EXCEPT ![c] = "rule"] /\ UNCHANGED <<system, request, ids>>
          /\ report' = [report EXCEPT ![c][rule[c]] = IF action[c].success THEN "ok" ELSE "failed"]
      BY <2>5 DEF EndRule, fixed
    <3>2. rule[c] \in UserIds
      BY <1>0, <3>1 DEF TypeOK
    <3> QED
      BY <1>0, <1>1, <3>1, <3>2 DEF TypeOK
  <2>6. CASE SystemActions(c)
    <3>1. PICK ok \in SUBSET (request[c] \cap SystemIds) :
            report' = [report EXCEPT ![c] =
                         [i \in Ids |-> IF i \in ok THEN "ok"
                                        ELSE IF i \in request[c] \cap SystemIds THEN "failed"
                                        ELSE @[i]]]
      BY <2>6 DEF SystemActions
    <3>2. \A d \in Cleaners, i \in Ids :
            report'[d][i] = IF d = c /\ i \in request[c] \cap SystemIds
                            THEN IF i \in ok THEN "ok" ELSE "failed"
                            ELSE report[d][i]
      BY <1>0, <3>1 DEF TypeOK
    <3>3. UNCHANGED <<system, request, ids>> /\ pc' = [pc EXCEPT ![c] = "done"]
      BY <2>6 DEF SystemActions, fixed
    <3>4. \A d \in Cleaners \ {c} : pc'[d] = pc[d]
      BY <1>0, <3>3 DEF TypeOK
    <3> QED
      BY <1>0, <3>2, <3>3, <3>4, AskedIds DEF AnswerInv
  <2> QED
    BY <1>2, <2>1, <2>2, <2>3, <2>4, <2>5, <2>6 DEF Execute
<1>3. CASE Applications \/ Arrive \/ UNCHANGED vars
  <2>1. UNCHANGED <<system, request, ids, pc, report>>
    BY <1>3 DEF Applications, Arrive, Discard, Create, vars, fixed, answers
  <2> QED
    BY <1>1, <2>1
<1> QED
  BY <1>2, <1>3 DEF Next

\* What the calls have answered so far holds in every state.
LEMMA ReportInvariance == Spec => []ReportInv
<1>1. Init => ReportInv
  <2> SUFFICES ASSUME Init PROVE ReportInv
    OBVIOUS
  <2>1. \A c \in Cleaners, i \in Ids : report[c][i] = "none"
    BY DEF Init
  <2>2. \A c \in Cleaners : request[c] \subseteq Ids
    BY CleanerAssumption DEF Init, Ids
  <2>3. SuccessInv
    BY <2>1 DEF Init, SuccessInv, Cleared, Own
  <2>4. FailureInv
    BY <2>1 DEF Init, FailureInv, Sure, Explained, Own
  <2>5. AnswerInv
    BY DEF Init, AnswerInv
  <2> QED
    BY <2>3, <2>4, <2>5, InitIInv, InitTreeInv DEF ReportInv
<1>2. ReportInv /\ [Next]_vars => ReportInv'
  <2> SUFFICES ASSUME ReportInv, Next \/ UNCHANGED vars PROVE ReportInv'
    OBVIOUS
  <2>1. TypeOK /\ AnsweredLater /\ IInv'
    BY NextIInv DEF ReportInv, IInv
  <2> QED
    BY <2>1, NextTreeInv, NextSuccess, NextFailure, NextAnswers DEF ReportInv
<1> QED
  BY <1>1, <1>2, PTL DEF Spec

\* Whatever applications do meanwhile and whichever calls fail: a category is
\* reported as clean only if what was there at the start is gone, it is
\* reported as failed without interference only for a reason that lies in the
\* tree, and at the end every category that was asked for has its answer.
THEOREM ReportCorrect == Spec => []ReportFaithful
<1>1. ReportInv => ReportFaithful
  <2> SUFFICES ASSUME ReportInv PROVE ReportFaithful
    OBVIOUS
  <2>1. SuccessMeansGone
    BY DEF ReportInv, SuccessInv, Cleared, Gone, SuccessMeansGone, Own
  <2>2. FailureExplained
    <3> SUFFICES ASSUME NEW c \in Cleaners, NEW id \in Own, report[c][id] = "failed",
                        ~(faults > 0 \/ changes > 0),
                        ~\E d \in Cleaners \ {c} : request[d] \cap UserIds # {}
                 PROVE  Refusable(id) \/ HoldsExcluded(id) \/ HoldsTooDeep(id)
      BY DEF FailureExplained, Own
    <3>1. faults = 0 /\ changes = 0
      BY CleanerAssumption DEF ReportInv, IInv, TypeOK
    <3> QED
      BY <3>1 DEF ReportInv, FailureInv, Explained, Alone, Excused
  <2>3. Answered
    <3> SUFFICES ASSUME NEW c \in Cleaners, pc[c] = "done", ~system.root, NEW id \in request[c]
                 PROVE  report[c][id] # "none"
      BY DEF Answered
    <3>1. TypeOK /\ id \in Ids /\ ids[c] = {} /\ rule[c] = "none"
      BY AskedIds DEF ReportInv, IInv, TypeOK, TakenAnswered
    <3>2. CASE id \in UserIds
      BY <3>1, <3>2, NoneIsNoRule DEF ReportInv, IInv, TakenAnswered, Own
    <3>3. CASE id \notin UserIds
      BY <3>1, <3>3 DEF ReportInv, AnswerInv
    <3> QED
      BY <3>2, <3>3
  <2> QED
    BY <2>1, <2>2, <2>3 DEF ReportFaithful
<1> QED
  BY <1>1, ReportInvariance, PTL

-----------------------------------------------------------------------------
(* vacuoctl *)

\* Beside the window's calls, the one of vacuoctl is a call like any other.
LEMMA CommandIsACall == CliSpec => Spec
<1>1. CliInit => Init
  BY DEF CliInit
<1>2. [CliNext]_cliVars => [Next]_vars
  <2> SUFFICES ASSUME [CliNext]_cliVars PROVE Next \/ UNCHANGED vars
    BY DEF vars
  <2>1. CASE Main \/ Return
    BY <2>1 DEF Main, Return
  <2>2. CASE \E c \in Cleaners : Call(c)
    BY <2>2 DEF Call, Next
  <2>3. CASE Applications \/ Arrive
    BY <2>3 DEF Next
  <2>4. CASE UNCHANGED cliVars
    BY <2>4 DEF cliVars
  <2> QED
    BY <2>1, <2>2, <2>3, <2>4 DEF CliNext
<1> QED
  BY <1>1, <1>2, PTL DEF Spec, CliSpec

\* What is proved of a call holds of the one of vacuoctl and of those of the
\* window beside it.
THEOREM CommandCorrect == CliSpec => []ReportFaithful
BY CommandIsACall, ReportCorrect, PTL

-----------------------------------------------------------------------------
(* The words of the command line. *)

\* A set of numbers that holds each number whose greater ones, up to m, it
\* holds, is complete: otherwise those it lacks had a greatest.
LEMMA Downwards ==
  ASSUME NEW m \in Nat, NEW S, \A k \in 1..m : (k + 1)..m \subseteq S => k \in S
  PROVE  1..m \subseteq S
<1> DEFINE Lacks == (1..m) \ S
<1>1. SUFFICES ASSUME Lacks # {} PROVE FALSE
  OBVIOUS
<1>2. IsFiniteSet(Lacks)
  BY FS_Interval, FS_Subset
<1>3. PICK k \in Lacks : \A j \in Lacks : j <= k
  <2> DEFINE F == {(1..m) \ (1..j) : j \in Lacks}
  <2>1. F \subseteq FiniteSubsetsOf(Nat)
    <3> SUFFICES ASSUME NEW j \in Lacks
                 PROVE  (1..m) \ (1..j) \in SUBSET Nat /\ IsFiniteSet((1..m) \ (1..j))
      BY DEF FiniteSubsetsOf
    <3>1. 1 \in Int /\ m \in Int
      OBVIOUS
    <3>2. IsFiniteSet(1..m)
      BY <3>1, FS_Interval, Zenon
    <3>3. IsFiniteSet((1..m) \ (1..j))
      BY <3>2, FS_Subset, Zenon
    <3> QED
      BY <3>3
  <2>2. PICK x \in F : \A y \in F : ~(<<y, x>> \in StrictSubsetOrdering(Nat))
    <3>1. F # {}
      BY <1>1
    <3> HIDE DEF F
    <3> QED
      BY <2>1, <3>1, WFMin, FS_StrictSubsetOrderingWellFounded
  <2>3. PICK k \in Lacks : x = (1..m) \ (1..k)
    BY <2>2
  <2>4. ASSUME NEW j \in Lacks, k < j PROVE FALSE
    <3> DEFINE y == (1..m) \ (1..j)
    <3>1. j \in x /\ j \notin y /\ y \subseteq x /\ x \in SUBSET Nat /\ y \in SUBSET Nat /\ y \in F
      BY <2>3, <2>4
    <3>2. <<y, x>> \in StrictSubsetOrdering(Nat)
      BY <3>1 DEF StrictSubsetOrdering
    <3> QED
      BY <2>2, <3>1, <3>2
  <2> QED
    BY <2>4
<1>4. (k + 1)..m \subseteq S
  BY <1>3
<1> QED
  BY <1>3, <1>4

\* One step of CategoryArguments at position i, when g tells what the rest gives.
StepAt(list, g, i) ==
  IF i >= Len(list) THEN {}
  ELSE IF list[i] = "--category" THEN {list[i + 1]} \cup g[i + 2]
  ELSE g[i + 1]

Takes(list, f) == f = [i \in 1..(Len(list) + 1) |-> StepAt(list, f, i)]

\* There is a function as CategoryArguments describes it: built from the end.
LEMMA TakesSomething ==
  ASSUME NEW list \in Seq(STRING)
  PROVE  \E f : Takes(list, f)
<1> DEFINE m == Len(list) + 1
           From(k) == \E g : \A i \in k..m : g[i] = StepAt(list, g, i)
           S == {k \in 1..m : From(k)}
<1>1. m \in Nat /\ Len(list) \in Nat
  BY LenProperties
<1>2. ASSUME NEW k \in 1..m, (k + 1)..m \subseteq S PROVE k \in S
  <2>1. PICK g : \A i \in (k + 1)..m : g[i] = StepAt(list, g, i)
    <3>1. CASE k = m
      BY <1>1, <3>1
    <3>2. CASE k < m
      <4>1. k + 1 \in S
        BY <1>1, <1>2, <3>2
      <4> QED
        BY <4>1
    <3> QED
      BY <1>1, <3>1, <3>2
  <2> DEFINE h == [i \in k..m |-> IF i = k THEN StepAt(list, g, k) ELSE g[i]]
  <2>2. ASSUME NEW i \in k..m PROVE h[i] = StepAt(list, g, i)
    BY <1>1, <2>1
  <2>3. ASSUME NEW i \in k..m PROVE StepAt(list, h, i) = StepAt(list, g, i)
    <3>1. i < Len(list) => h[i + 1] = g[i + 1] /\ h[i + 2] = g[i + 2]
      BY <1>1
    <3> HIDE DEF h
    <3>2. CASE i < Len(list)
      BY <1>1, <3>1, <3>2, Zenon DEF StepAt
    <3>3. CASE i >= Len(list)
      BY <3>3, Zenon DEF StepAt
    <3> QED
      BY <1>1, <3>2, <3>3
  <2>4. From(k)
    <3> HIDE DEF h
    <3> QED
      BY <2>2, <2>3
  <2> QED
    BY <2>4
<1>3. 1..m \subseteq S
  <2> HIDE DEF S, m
  <2> QED
    BY <1>1, <1>2, Downwards
<1>4. PICK g : \A i \in 1..m : g[i] = StepAt(list, g, i)
  <2>1. 1 \in S
    <3> HIDE DEF S, m
    <3>1. 1 \in 1..m
      BY <1>1 DEF m
    <3> QED
      BY <1>3, <3>1
  <2> QED
    BY <2>1, Zenon
<1> DEFINE f == [i \in 1..m |-> g[i]]
<1>0. ASSUME NEW i \in 1..m, i < Len(list) PROVE f[i + 1] = g[i + 1] /\ f[i + 2] = g[i + 2]
  <2>1. i + 1 \in 1..m /\ i + 2 \in 1..m
    BY <1>0, <1>1
  <2> QED
    BY <2>1
<1>5. ASSUME NEW i \in 1..m PROVE StepAt(list, f, i) = StepAt(list, g, i)
  <2>1. i < Len(list) => f[i + 1] = g[i + 1] /\ f[i + 2] = g[i + 2]
    BY <1>0
  <2> HIDE DEF f
  <2>2. CASE i < Len(list)
    BY <1>1, <2>1, <2>2, Zenon DEF StepAt
  <2>3. CASE i >= Len(list)
    BY <2>3, Zenon DEF StepAt
  <2> QED
    BY <1>1, <2>2, <2>3
<1>6. f = [i \in 1..m |-> StepAt(list, f, i)]
  BY <1>4, <1>5
<1> QED
  BY <1>6 DEF Takes

\* What the words name from position k on, as a reader sees it.
NamedFrom(list, k) ==
  {list[i + 1] : i \in {i \in k..(Len(list) - 1) : list[i] = "--category"}}

\* CategoryArguments finds nothing that is not named, and misses something
\* only behind a --category that was taken for a category itself.
LEMMA TakenAreNamed ==
  ASSUME NEW list \in Seq(STRING)
  PROVE  /\ CategoryArguments(list) \subseteq NamedFrom(list, 1)
         /\ \/ "--category" \in CategoryArguments(list)
            \/ CategoryArguments(list) = NamedFrom(list, 1)
<1> DEFINE m == Len(list) + 1
           from == CHOOSE f : Takes(list, f)
           Right(k) == /\ from[k] \subseteq NamedFrom(list, k)
                       /\ "--category" \in from[k] \/ from[k] = NamedFrom(list, k)
           S == {k \in 1..m : Right(k)}
<1>1. m \in Nat /\ Len(list) \in Nat
  BY LenProperties
<1>2. Takes(list, from)
  BY TakesSomething
<1>3. CategoryArguments(list) = from[1]
  BY DEF CategoryArguments, Takes, StepAt
<1> HIDE DEF from
<1>4. ASSUME NEW k \in 1..m, (k + 1)..m \subseteq S PROVE k \in S
  <2>1. from[k] = StepAt(list, from, k)
    BY <1>1, <1>2 DEF Takes
  <2>2. CASE k >= Len(list)
    <3>1. from[k] = {} /\ NamedFrom(list, k) = {}
      BY <1>1, <2>1, <2>2 DEF StepAt, NamedFrom
    <3> QED
      BY <3>1
  <2>3. CASE k < Len(list) /\ list[k] # "--category"
    <3>1. NamedFrom(list, k) = NamedFrom(list, k + 1)
      BY <1>1, <2>3 DEF NamedFrom
    <3>2. from[k] = from[k + 1] /\ k + 1 \in S
      BY <1>1, <1>4, <2>1, <2>3 DEF StepAt
    <3> QED
      BY <3>1, <3>2
  <2>4. CASE k < Len(list) /\ list[k] = "--category"
    <3>1. from[k] = {list[k + 1]} \cup from[k + 2] /\ k + 2 \in S
      BY <1>1, <1>4, <2>1, <2>4 DEF StepAt
    <3>2. /\ NamedFrom(list, k) = {list[k + 1]} \cup NamedFrom(list, k + 1)
          /\ NamedFrom(list, k + 2) \subseteq NamedFrom(list, k + 1)
      <4>1. k..(Len(list) - 1) = {k} \cup ((k + 1)..(Len(list) - 1))
        BY <1>1, <2>4
      <4>2. (k + 2)..(Len(list) - 1) \subseteq (k + 1)..(Len(list) - 1)
        BY <1>1
      <4> QED
        BY <2>4, <4>1, <4>2, Zenon DEF NamedFrom
    <3>3. ASSUME list[k + 1] # "--category"
          PROVE  NamedFrom(list, k + 1) = NamedFrom(list, k + 2)
      <4>1. \A i \in (k + 1)..(Len(list) - 1) : i = k + 1 \/ i \in (k + 2)..(Len(list) - 1)
        BY <1>1
      <4>2. (k + 2)..(Len(list) - 1) \subseteq (k + 1)..(Len(list) - 1)
        BY <1>1
      <4>3. {i \in (k + 1)..(Len(list) - 1) : list[i] = "--category"}
              = {i \in (k + 2)..(Len(list) - 1) : list[i] = "--category"}
        BY <3>3, <4>1, <4>2, Zenon
      <4> QED
        BY <4>3, Zenon DEF NamedFrom
    <3> QED
      BY <3>1, <3>2, <3>3
  <2> QED
    BY <1>1, <2>2, <2>3, <2>4
<1>5. 1 \in S
  <2>1. 1..m \subseteq S
    <3> HIDE DEF S, m
    <3> QED
      BY <1>1, <1>4, Downwards
  <2> QED
    BY <1>1, <2>1
<1> QED
  BY <1>3, <1>5

\* What is carried out is a proper request, and all of it.
LEMMA CleansWhatIsNamed ==
  ASSUME arguments \in ArgumentLists, Cleans(arguments)
  PROVE  Proper /\ Named = CategoryArguments(arguments)
<1>1. arguments \in Seq(STRING) /\ "--category" \notin Known
  BY CliAssumption
<1>2. Named = NamedFrom(arguments, 1)
  BY DEF Named, NamedFrom
<1>3. Named = CategoryArguments(arguments)
  BY <1>1, <1>2, TakenAreNamed DEF Cleans
<1> QED
  BY <1>3 DEF Cleans, Proper, HasArgument

-----------------------------------------------------------------------------
(* The exit status. *)

\* What was not asked for has no answer.
Unasked == \A c \in Cleaners : \A i \in Ids \ request[c] : report[c][i] = "none"

\* The call has not begun.
Untouched == pc[Cli] = "rule" /\ rule[Cli] = "none" /\ total[Cli] = 0

\* main goes on to the cleanup only with a request that Cleans, and the status
\* stays what the finished report says.
MainInv ==
  /\ arguments \in ArgumentLists
  /\ stage \in {"start", "cleaning", "exited"}
  /\ request[Cli] = IF Cleans(arguments) THEN CategoryArguments(arguments) ELSE {}
  /\ stage = "start" \/ ~Cleans(arguments) => Untouched
  /\ stage = "cleaning" => Cleans(arguments)
  /\ stage = "exited" /\ Cleans(arguments) =>
       pc[Cli] = "done" /\ exit = IF AllSucceeded THEN 0 ELSE 1

\* A step of a call changes nothing of another one, and nothing of one that
\* is over.
LEMMA ExecuteTouches ==
  ASSUME TypeOK, NEW c \in Cleaners, NEW d \in Cleaners, Execute(c), c # d \/ pc[d] = "done"
  PROVE  /\ UNCHANGED <<system, request>>
         /\ pc'[d] = pc[d] /\ rule'[d] = rule[d] /\ report'[d] = report[d] /\ total'[d] = total[d]
<1>1. CASE Refuse(c) \/ Examine(c) \/ Open(c) \/ Close(c)
  BY <1>1 DEF Refuse, Examine, Open, Close, TypeOK, fixed, answers
<1>2. CASE NextRule(c) \/ EndRule(c) \/ SystemActions(c)
  BY <1>2 DEF NextRule, EndRule, SystemActions, MayGoOn, TypeOK, fixed, answers
<1>3. ASSUME NEW e \in todo[c], Unlink(c, e) \/ Keep(c, e) \/ Pass(c, e)
      PROVE  UNCHANGED <<system, request, pc, rule, report, total>>
  BY <1>3 DEF Unlink, Keep, Pass, Meets, fixed, answers
<1> QED
  BY <1>1, <1>2, <1>3 DEF Execute

LEMMA NextUnasked ==
  ASSUME IInv, Unasked, Next \/ UNCHANGED vars
  PROVE  Unasked'
<1> USE DEF Unasked
<1>0. TypeOK
  BY DEF IInv
<1>1. ASSUME NEW c \in Cleaners, Execute(c) PROVE Unasked'
  <2>1. UNCHANGED request
    BY <1>1 DEF Execute, Refuse, NextRule, Examine, Open, Unlink, Keep, Pass, Meets, Close,
                EndRule, SystemActions, fixed
  <2>2. ASSUME NEW i \in Ids \ request[c] PROVE report'[c][i] = "none"
    <3>1. CASE Refuse(c) \/ Examine(c) \/ Open(c) \/ Close(c)
      BY <3>1, <2>2 DEF Refuse, Examine, Open, Close, answers
    <3>2. ASSUME NEW e \in todo[c], Unlink(c, e) \/ Keep(c, e) \/ Pass(c, e)
          PROVE  UNCHANGED report
      BY <3>2 DEF Unlink, Keep, Pass, Meets, answers
    <3>3. CASE NextRule(c)
      <4>1. PICK next \in ids[c] :
              UNCHANGED report \/ report' = [report EXCEPT ![c][next] = "failed"]
        BY <3>3 DEF NextRule
      <4>2. next \in request[c]
        BY <1>0, AskedIds
      <4> QED
        BY <1>0, <2>2, <4>1, <4>2 DEF TypeOK
    <3>4. CASE EndRule(c)
      <4>1. rule[c] # "none"
        BY <1>0, <3>4 DEF EndRule, TypeOK
      <4>2. rule[c] \in request[c]
        BY <4>1 DEF IInv, AnsweredLater
      <4> QED
        BY <1>0, <2>2, <3>4, <4>2 DEF EndRule, TypeOK
    <3>5. CASE SystemActions(c)
      BY <1>0, <2>2, <3>5 DEF SystemActions, TypeOK
    <3> QED
      BY <1>1, <2>2, <3>1, <3>2, <3>3, <3>4, <3>5 DEF Execute
  <2>3. \A d \in Cleaners : d # c => report'[d] = report[d]
    BY <1>0, <1>1, ExecuteTouches
  <2> QED
    BY <2>1, <2>2, <2>3
<1>2. CASE Applications \/ Arrive \/ UNCHANGED vars
  BY <1>2 DEF Applications, Arrive, Discard, Create, vars, fixed, answers
<1> QED
  BY <1>1, <1>2 DEF Next

LEMMA InitMain == CliInit => MainInv /\ Unasked
<1> SUFFICES ASSUME CliInit PROVE MainInv /\ Unasked
  OBVIOUS
<1>1. Cleans(arguments) => CategoryArguments(arguments) \cap Ids = CategoryArguments(arguments)
  BY CliAssumption DEF Cleans
<1> QED
  BY <1>1, CliAssumption DEF CliInit, Init, MainInv, Unasked, Untouched

LEMMA NextMain ==
  ASSUME TypeOK, MainInv, CliNext \/ UNCHANGED cliVars
  PROVE  MainInv'
<1> USE CliAssumption DEF MainInv
<1>1. CASE Main \/ Return
  BY <1>1 DEF Main, Return, vars, fixed, answers, Untouched, AllSucceeded
<1>2. ASSUME NEW c \in Cleaners, Call(c), UNCHANGED <<arguments, stage, exit>>
      PROVE  MainInv'
  <2>1. CASE c = Cli
    <3>1. stage = "cleaning" /\ Execute(Cli)
      BY <1>2, <2>1 DEF Call
    <3>2. UNCHANGED request
      BY <3>1 DEF Execute, Refuse, NextRule, Examine, Open, Unlink, Keep, Pass, Meets, Close,
                  EndRule, SystemActions, fixed
    <3> QED
      BY <1>2, <3>1, <3>2
  <2>2. CASE c # Cli
    <3>1. /\ UNCHANGED <<system, request>>
          /\ pc'[Cli] = pc[Cli] /\ rule'[Cli] = rule[Cli]
          /\ report'[Cli] = report[Cli] /\ total'[Cli] = total[Cli]
      BY <1>2, <2>2, ExecuteTouches DEF Call
    <3> QED
      BY <1>2, <3>1 DEF Untouched, AllSucceeded
  <2> QED
    BY <2>1, <2>2
<1>3. CASE (Applications \/ Arrive) /\ UNCHANGED <<arguments, stage, exit>>
  <2>1. UNCHANGED <<system, request, pc, rule, report, total>>
    BY <1>3 DEF Applications, Arrive, Discard, Create, fixed, answers
  <2> QED
    BY <1>3, <2>1 DEF Untouched, AllSucceeded
<1>4. CASE UNCHANGED cliVars
  BY <1>4 DEF cliVars, vars, fixed, answers, Untouched, AllSucceeded
<1> QED
  BY <1>1, <1>2, <1>3, <1>4 DEF CliNext

\* For every list of arguments, every catalog and every run of the cleanup:
\* a command line that is no proper request leaves everything alone, and the
\* status is 0 exactly if all that it names has succeeded.
THEOREM ExitCorrect == CliSpec => []ExitFaithful
<1>1. CliSpec => [](IInv /\ Answered)
  <2>1. ReportFaithful => Answered
    BY DEF ReportFaithful
  <2> QED
    BY <2>1, CommandIsACall, Invariance, ReportCorrect, PTL
<1>2. IInv /\ Unasked /\ MainInv /\ [CliNext]_cliVars => (Unasked /\ MainInv)'
  <2> SUFFICES ASSUME IInv, Unasked, MainInv, CliNext \/ UNCHANGED cliVars
               PROVE  Unasked' /\ MainInv'
    OBVIOUS
  <2>1. Next \/ UNCHANGED vars
    BY DEF CliNext, Main, Return, Call, Next, cliVars
  <2> QED
    BY <2>1, NextUnasked, NextMain DEF IInv
<1>3. IInv /\ Answered /\ Unasked /\ MainInv => ExitFaithful
  <2> SUFFICES ASSUME IInv, Answered, Unasked, MainInv PROVE ExitFaithful
    OBVIOUS
  <2> USE CliAssumption
  <2>1. CASE ~Cleans(arguments)
    BY <2>1 DEF MainInv, Untouched, ExitFaithful
  <2>2. CASE Cleans(arguments)
    <3>1. Proper /\ Named = request[Cli] /\ Named # {}
      BY <2>2, CleansWhatIsNamed DEF MainInv, Cleans
    <3>2. ASSUME stage = "exited", pc[Cli] = "done"
          PROVE  AllSucceeded <=> \A id \in Named : report[Cli][id] = "ok"
      <4>1. Named \subseteq Ids /\ report[Cli] \in [Ids -> Results]
        BY <3>1, AskedIds DEF IInv, TypeOK
      <4>2. CASE system.root
        BY <3>1, <4>1, <4>2 DEF AllSucceeded, IInv, RootIdle
      <4>3. CASE ~system.root
        <5>1. \A id \in Named : report[Cli][id] \in {"ok", "failed"}
          BY <3>1, <3>2, <4>1, <4>3 DEF Answered, Results
        <5>2. \A id \in Ids \ Named : report[Cli][id] = "none"
          BY <3>1 DEF Unasked
        <5> QED
          BY <4>1, <4>3, <5>1, <5>2 DEF AllSucceeded
      <4> QED
        BY <4>2, <4>3
    <3> QED
      BY <2>2, <3>1, <3>2 DEF MainInv, ExitFaithful
  <2> QED
    BY <2>1, <2>2
<1> QED
  BY <1>1, <1>2, <1>3, InitMain, PTL DEF CliSpec
-----------------------------------------------------------------------------
(* Sums over the calls. *)

\* A set of subsets of a finite set that holds each of them whose proper
\* subsets it holds is complete: otherwise those it lacks had a smallest.
LEMMA SubsetInduction ==
  ASSUME NEW S, IsFiniteSet(S), NEW P,
         \A s \in SUBSET S : (\A r \in SUBSET s : r # s => r \in P) => s \in P
  PROVE  SUBSET S \subseteq P
<1> DEFINE Lacks == (SUBSET S) \ P
<1>1. SUFFICES ASSUME Lacks # {} PROVE FALSE
  OBVIOUS
<1>2. Lacks \subseteq FiniteSubsetsOf(S)
  BY FS_Subset DEF FiniteSubsetsOf
<1>3. PICK s \in Lacks : \A r \in Lacks : ~(<<r, s>> \in StrictSubsetOrdering(S))
  <2> HIDE DEF Lacks
  <2> QED
    BY <1>1, <1>2, WFMin, FS_StrictSubsetOrderingWellFounded
<1>4. ASSUME NEW r \in SUBSET s, r # s PROVE r \in P
  <2>1. <<r, s>> \in StrictSubsetOrdering(S)
    BY <1>3, <1>4 DEF StrictSubsetOrdering
  <2> QED
    BY <1>3, <1>4, <2>1
<1> QED
  BY <1>3, <1>4

\* The same for the numbers up to m.
LEMMA Upwards ==
  ASSUME NEW m \in Nat, NEW S, \A k \in 0..m : 0..(k - 1) \subseteq S => k \in S
  PROVE  m \in S
<1> DEFINE P == {s \in SUBSET (0..m) : \A k \in 0..m : s = 0..k => k \in S}
<1>1. IsFiniteSet(0..m)
  BY FS_Interval
<1>2. ASSUME NEW s \in SUBSET (0..m), \A r \in SUBSET s : r # s => r \in P PROVE s \in P
  <2> SUFFICES ASSUME NEW k \in 0..m, s = 0..k PROVE k \in S
    OBVIOUS
  <2>1. ASSUME NEW j \in 0..(k - 1) PROVE j \in S
    <3>1. 0..j \in SUBSET s /\ 0..j # s /\ j \in 0..m
      <4>1. k \in 0..k /\ k \notin 0..j
        OBVIOUS
      <4> QED
        BY <4>1
    <3>2. 0..j \in P
      BY <1>2, <3>1
    <3> QED
      BY <3>1, <3>2, Zenon
  <2>2. 0..(k - 1) \subseteq S
    BY <2>1
  <2> QED
    BY <2>2
<1>3. SUBSET (0..m) \subseteq P
  <2> DEFINE I == 0..m
  <2>1. /\ IsFiniteSet(I)
        /\ \A s \in SUBSET I : (\A r \in SUBSET s : r # s => r \in P) => s \in P
    BY <1>1, <1>2
  <2>2. SUBSET I \subseteq P
    <3> HIDE DEF P, I
    <3> QED
      BY <2>1, SubsetInduction
  <2> QED
    BY <2>2
<1>4. 0..m \in P /\ m \in 0..m
  <2> HIDE DEF P
  <2> QED
    BY <1>3
<1> QED
  BY <1>4, Zenon

Chosen(s) == CHOOSE x \in s : TRUE

\* One step of a sum over a set, when h tells the sums over smaller ones.
SumStep(g, h, s) == IF s = {} THEN 0 ELSE g[Chosen(s)] + h[s \ {Chosen(s)}]

Sums(g, S, h) == h = [s \in SUBSET S |-> SumStep(g, h, s)]

Sum(g, S) == (CHOOSE h : Sums(g, S, h))[S]

LEMMA OneLess ==
  ASSUME NEW s, IsFiniteSet(s), s # {}
  PROVE  /\ Chosen(s) \in s
         /\ IsFiniteSet(s \ {Chosen(s)})
         /\ Cardinality(s) \in Nat
         /\ Cardinality(s \ {Chosen(s)}) \in Nat
         /\ Cardinality(s \ {Chosen(s)}) = Cardinality(s) - 1
<1>1. Chosen(s) \in s
  BY DEF Chosen
<1> QED
  BY <1>1, FS_RemoveElement, FS_CardinalityType

\* There are such sums: built from the small sets to the large.
LEMMA SumsExist ==
  ASSUME NEW S, IsFiniteSet(S), NEW g
  PROVE  \E h : Sums(g, S, h)
<1> DEFINE Upto(n) == {r \in SUBSET S : Cardinality(r) <= n}
           P == {n \in Nat : \E h : \A r \in Upto(n) : h[r] = SumStep(g, h, r)}
           m == Cardinality(S)
<1>0. \A r \in SUBSET S : IsFiniteSet(r) /\ Cardinality(r) \in Nat /\ Cardinality(r) <= m
  BY FS_Subset, FS_CardinalityType
<1>1. m \in Nat
  BY FS_CardinalityType
<1>2. ASSUME NEW n \in 0..m, 0..(n - 1) \subseteq P PROVE n \in P
  <2>1. PICK h : \A r \in Upto(n - 1) : h[r] = SumStep(g, h, r)
    <3>1. CASE n = 0
      <4>1. Upto(n - 1) = {}
        BY <1>0, <3>1
      <4> QED
        BY <4>1
    <3>2. CASE n # 0
      <4>1. n - 1 \in P
        BY <1>2, <3>2
      <4> QED
        BY <4>1
    <3> QED
      BY <3>1, <3>2
  <2> DEFINE k == [r \in SUBSET S |-> IF Cardinality(r) = n THEN SumStep(g, h, r) ELSE h[r]]
  <2>2. ASSUME NEW r \in Upto(n) PROVE k[r] = SumStep(g, k, r)
    <3>1. k[r] = SumStep(g, h, r)
      <4>1. CASE Cardinality(r) = n
        BY <4>1
      <4>2. CASE Cardinality(r) # n
        <5>1. r \in Upto(n - 1)
          BY <1>0, <1>1, <4>2
        <5> QED
          BY <2>1, <4>2, <5>1
      <4> QED
        BY <4>1, <4>2
    <3>2. r # {} => k[r \ {Chosen(r)}] = h[r \ {Chosen(r)}]
      <4> SUFFICES ASSUME r # {} PROVE Cardinality(r \ {Chosen(r)}) # n
        OBVIOUS
      <4> QED
        BY <1>0, <1>1, OneLess
    <3> HIDE DEF k
    <3> QED
      BY <3>1, <3>2, Zenon DEF SumStep
  <2> HIDE DEF k
  <2>3. \E f : \A r \in Upto(n) : f[r] = SumStep(g, f, r)
    BY <2>2
  <2> QED
    BY <1>1, <2>3
<1>3. m \in P
  <2> HIDE DEF P, m
  <2> QED
    BY <1>1, <1>2, Upwards
<1>4. PICK h : \A r \in Upto(m) : h[r] = SumStep(g, h, r)
  BY <1>3
<1> DEFINE f == [s \in SUBSET S |-> h[s]]
<1>5. ASSUME NEW s \in SUBSET S PROVE f[s] = SumStep(g, f, s)
  <2>1. f[s] = SumStep(g, h, s)
    BY <1>0, <1>4
  <2>2. s # {} => f[s \ {Chosen(s)}] = h[s \ {Chosen(s)}]
    OBVIOUS
  <2> HIDE DEF f
  <2> QED
    BY <2>1, <2>2, Zenon DEF SumStep
<1>6. f = [s \in SUBSET S |-> SumStep(g, f, s)]
  <2>1. f = [s \in SUBSET S |-> f[s]]
    OBVIOUS
  <2> HIDE DEF f
  <2> QED
    BY <1>5, <2>1
<1> QED
  BY <1>6 DEF Sums

\* When one of the numbers grows by d, so does the sum.
LEMMA SumGrows ==
  ASSUME NEW S, IsFiniteSet(S), NEW f \in [S -> Int], NEW g \in [S -> Int],
         NEW c \in S, NEW d \in Int, g[c] = f[c] + d, \A b \in S \ {c} : g[b] = f[b]
  PROVE  Sum(f, S) \in Int /\ Sum(g, S) = Sum(f, S) + d
<1> DEFINE hf == CHOOSE h : Sums(f, S, h)
           hg == CHOOSE h : Sums(g, S, h)
           P == {s \in SUBSET S : hf[s] \in Int /\ hg[s] = hf[s] + (IF c \in s THEN d ELSE 0)}
<1>1. Sums(f, S, hf) /\ Sums(g, S, hg)
  BY SumsExist
<1> HIDE DEF hf, hg
<1>2. ASSUME NEW s \in SUBSET S, \A r \in SUBSET s : r # s => r \in P PROVE s \in P
  <2>1. hf[s] = SumStep(f, hf, s) /\ hg[s] = SumStep(g, hg, s)
    BY <1>1, Zenon DEF Sums
  <2>2. CASE s = {}
    BY <2>1, <2>2 DEF SumStep
  <2>3. CASE s # {}
    <3> DEFINE x == Chosen(s)
               r == s \ {x}
    <3>1. x \in s
      BY <2>3 DEF Chosen
    <3>2. r \in P
      BY <1>2, <3>1
    <3>3. hf[s] = f[x] + hf[r] /\ hg[s] = g[x] + hg[r]
      BY <2>1, <2>3 DEF SumStep
    <3>4. /\ f[x] \in Int /\ hf[r] \in Int
          /\ hg[r] = hf[r] + (IF c \in r THEN d ELSE 0)
          /\ x \in S /\ (x # c => (c \in r <=> c \in s)) /\ (x = c => c \notin r)
      BY <3>1, <3>2
    <3> HIDE DEF x, r
    <3>5. CASE x = c
      BY <3>1, <3>3, <3>4, <3>5
    <3>6. CASE x # c
      BY <3>3, <3>4, <3>6
    <3> QED
      BY <3>5, <3>6
  <2> QED
    BY <2>2, <2>3
<1>3. SUBSET S \subseteq P
  <2> HIDE DEF P
  <2> QED
    BY <1>2, SubsetInduction, Zenon
<1>4. S \in P
  BY <1>3
<1>5. hf[S] \in Int /\ hg[S] = hf[S] + d
  BY <1>4
<1> QED
  BY <1>5 DEF Sum, hf, hg

LEMMA SumOfNothing ==
  ASSUME NEW S, IsFiniteSet(S), NEW f, \A c \in S : f[c] = 0
  PROVE  Sum(f, S) = 0
<1> DEFINE hf == CHOOSE h : Sums(f, S, h)
           P == {s \in SUBSET S : hf[s] = 0}
<1>1. Sums(f, S, hf)
  BY SumsExist
<1> HIDE DEF hf
<1>2. ASSUME NEW s \in SUBSET S, \A r \in SUBSET s : r # s => r \in P PROVE s \in P
  <2>1. hf[s] = SumStep(f, hf, s)
    BY <1>1, Zenon DEF Sums
  <2>2. s # {} => Chosen(s) \in s
    BY DEF Chosen
  <2> QED
    BY <1>2, <2>1, <2>2 DEF SumStep
<1>3. SUBSET S \subseteq P
  <2> HIDE DEF P
  <2> QED
    BY <1>2, SubsetInduction, Zenon
<1> QED
  BY <1>3 DEF Sum, hf
-----------------------------------------------------------------------------
(* What the reports count. *)

\* What the report of each call counts, and what it will count once the
\* category at hand is in it.
Removed == [c \in Cleaners |-> total[c] + action[c].items]

\* The tree is finite, and what the calls count is what it lacks.
CountInv ==
  /\ IsFiniteSet(entries)
  /\ balance \in Int
  /\ Sum(Removed, Cleaners) = balance - Cardinality(entries)

LEMMA InitCount == Init => CountInv
<1> SUFFICES ASSUME Init PROVE CountInv
  OBVIOUS
<1>1. IsFiniteSet(entries) /\ balance = Cardinality(entries) /\ Cardinality(entries) \in Nat
  BY TreeAssumption, FS_CardinalityType DEF Init
<1>2. \A c \in Cleaners : Removed[c] = 0
  BY DEF Init, Removed, Start
<1>3. Sum(Removed, Cleaners) = 0
  BY <1>2, CleanerAssumption, SumOfNothing
<1> QED
  BY <1>1, <1>3 DEF CountInv

\* A step that takes nothing and counts nothing.
LEMMA CountStays ==
  ASSUME TypeOK, CountInv, UNCHANGED <<entries, balance>>,
         \A c \in Cleaners : total'[c] + action'[c].items = total[c] + action[c].items
  PROVE  CountInv'
<1>1. Removed' = Removed
  BY DEF Removed
<1> QED
  BY <1>1 DEF CountInv

LEMMA ExecuteCounts ==
  ASSUME TypeOK, CountInv, NEW c \in Cleaners, Execute(c)
  PROVE  CountInv'
<1>0. /\ action \in [Cleaners -> [success : BOOLEAN, items : Nat]]
      /\ total \in [Cleaners -> Nat]
      /\ pc[c] = "rule" => action[c].items = 0
  BY DEF TypeOK
<1>1. CASE Refuse(c) \/ Examine(c) \/ Close(c) \/ SystemActions(c)
  BY <1>1, CountStays DEF Refuse, Examine, Close, SystemActions, tree, answers
<1>2. CASE NextRule(c)
  <2>1. UNCHANGED <<entries, balance, total>> /\ pc[c] = "rule"
    BY <1>2 DEF NextRule, MayGoOn, tree
  <2>2. action' = [action EXCEPT ![c] = Start] \/ action' = action
    BY <1>2 DEF NextRule
  <2> QED
    BY <1>0, <2>1, <2>2, CountStays DEF Start
<1>3. CASE Open(c)
  <2>1. UNCHANGED <<entries, balance, total>>
    BY <1>3 DEF Open, tree, answers
  <2>2. action' = [action EXCEPT ![c].success = FALSE] \/ action' = action
    BY <1>3 DEF Open
  <2> QED
    BY <1>0, <2>1, <2>2, CountStays
<1>4. ASSUME NEW e \in todo[c], Keep(c, e) \/ Pass(c, e) PROVE CountInv'
  <2>1. UNCHANGED <<entries, balance, total>>
    BY <1>4 DEF Keep, Pass, Meets, answers
  <2>2. action' = [action EXCEPT ![c].success = FALSE] \/ action' = action
    BY <1>4 DEF Keep, Pass
  <2> QED
    BY <1>0, <2>1, <2>2, CountStays
<1>5. CASE EndRule(c)
  <2>1. /\ UNCHANGED <<entries, balance>>
        /\ total' = [total EXCEPT ![c] = @ + action[c].items]
        /\ action' = [action EXCEPT ![c] = Start]
    BY <1>5 DEF EndRule, tree
  <2>2. ASSUME NEW d \in Cleaners
        PROVE  total'[d] + action'[d].items = total[d] + action[d].items
    BY <1>0, <2>1 DEF Start
  <2> QED
    BY <2>1, <2>2, CountStays
<1>6. ASSUME NEW e \in todo[c], Unlink(c, e) PROVE CountInv'
  <2>1. /\ e \in entries /\ entries' = entries \ {e} /\ UNCHANGED <<balance, total>>
        /\ action' = [action EXCEPT ![c].items = @ + 1,
                                    ![c].success = @ /\ ~Refused(Head(left[c]), e)]
    BY <1>6 DEF Unlink, Meets, answers
  <2>2. /\ Removed \in [Cleaners -> Int] /\ Removed' \in [Cleaners -> Int]
        /\ Removed'[c] = Removed[c] + 1
        /\ \A d \in Cleaners \ {c} : Removed'[d] = Removed[d]
    BY <1>0, <2>1 DEF Removed
  <2>3. Sum(Removed, Cleaners) \in Int /\ Sum(Removed', Cleaners) = Sum(Removed, Cleaners) + 1
    BY <2>2, CleanerAssumption, SumGrows
  <2>4. /\ IsFiniteSet(entries') /\ Cardinality(entries') = Cardinality(entries) - 1
        /\ Cardinality(entries) \in Nat
    BY <2>1, FS_RemoveElement, FS_CardinalityType DEF CountInv
  <2> QED
    BY <2>1, <2>3, <2>4 DEF CountInv
<1> QED
  BY <1>1, <1>2, <1>3, <1>4, <1>5, <1>6 DEF Execute

LEMMA NextCounts == TypeOK /\ CountInv /\ [Next]_vars => CountInv'
<1> SUFFICES ASSUME TypeOK, CountInv, Next \/ UNCHANGED vars PROVE CountInv'
  OBVIOUS
<1>0. Cardinality(entries) \in Nat /\ balance \in Int
  BY FS_CardinalityType DEF CountInv
<1>1. ASSUME UNCHANGED answers, UNCHANGED action PROVE Removed' = Removed
  BY <1>1 DEF answers, Removed
<1>2. ASSUME NEW e \in entries, Discard(e) PROVE CountInv'
  <2>1. entries' = entries \ {e} /\ balance' = balance - 1 /\ Removed' = Removed
    BY <1>1, <1>2 DEF Discard
  <2>2. IsFiniteSet(entries') /\ Cardinality(entries') = Cardinality(entries) - 1
    BY <2>1, FS_RemoveElement DEF CountInv
  <2> QED
    BY <1>0, <2>1, <2>2 DEF CountInv
<1>3. ASSUME NEW e, Create(e) PROVE CountInv'
  <2>1. /\ e \notin entries /\ entries' = entries \cup {e} /\ balance' = balance + 1
        /\ Removed' = Removed
    BY <1>1, <1>3 DEF Create
  <2>2. IsFiniteSet(entries') /\ Cardinality(entries') = Cardinality(entries) + 1
    BY <2>1, FS_AddElement DEF CountInv
  <2> QED
    BY <1>0, <2>1, <2>2 DEF CountInv
<1>4. CASE UNCHANGED vars
  BY <1>1, <1>4 DEF vars, tree, CountInv
<1> QED
  BY <1>2, <1>3, <1>4, ExecuteCounts DEF Next, Applications, Arrive

\* What Accounted adds up is this sum.
LEMMA RemovedIsTheSum ==
  MapThenSumSet(LAMBDA c : total[c] + action[c].items, Cleaners) = Sum(Removed, Cleaners)
<1> DEFINE Adds(h) == h = [s \in SUBSET Cleaners |->
                             IF s = {} THEN 0
                             ELSE (total[Chosen(s)] + action[Chosen(s)].items) + h[s \ {Chosen(s)}]]
<1>1. ASSUME NEW h PROVE Adds(h) <=> Sums(Removed, Cleaners, h)
  <2>1. ASSUME NEW s \in SUBSET Cleaners
        PROVE  SumStep(Removed, h, s) =
                 IF s = {} THEN 0
                 ELSE (total[Chosen(s)] + action[Chosen(s)].items) + h[s \ {Chosen(s)}]
    <3>1. s # {} => Chosen(s) \in Cleaners
      BY DEF Chosen
    <3>2. s # {} => Removed[Chosen(s)] = total[Chosen(s)] + action[Chosen(s)].items
      BY <3>1 DEF Removed
    <3> QED
      BY <3>2 DEF SumStep
  <2> QED
    BY <2>1, Zenon DEF Sums
<1>2. (CHOOSE h : Adds(h)) = CHOOSE h : Sums(Removed, Cleaners, h)
  <2> HIDE DEF Adds
  <2> QED
    BY <1>1
<1>3. MapThenSumSet(LAMBDA c : total[c] + action[c].items, Cleaners)
        = (CHOOSE h : Adds(h))[Cleaners]
  BY Zenon DEF MapThenSumSet, MapThenFoldSet, Chosen
<1> QED
  BY <1>2, <1>3 DEF Sum

\* For any number of calls that clean the same tree at the same time, while
\* applications use it: every entry that is gone and was not removed by an
\* application is in exactly one of the counts.
THEOREM EntriesAreAccounted == Spec => []Accounted
<1>1. CountInv => Accounted
  BY RemovedIsTheSum DEF CountInv, Accounted
<1> QED
  BY <1>1, InitCount, NextCounts, TypeCorrect, PTL DEF Spec
-----------------------------------------------------------------------------
(* What may be removed. *)

\* What opened a boundary, and what the walk found to remove in it.
Meant(c) ==
  pc[c] = "clear" =>
    /\ LexicallyPermitted(system, Head(left[c]))
    /\ Bare(Head(left[c])) = Head(left[c])
    /\ \A e \in todo[c] : IsContent(system, rule[c], Head(left[c]), e)

MeantInv == \A c \in Cleaners : Meant(c)

\* At the boundary of a walk nothing changes but what is still to do.
LEMMA MeantStays ==
  ASSUME NEW c \in Cleaners, Meant(c), UNCHANGED system, rule'[c] = rule[c], left'[c] = left[c],
         pc'[c] = "clear" => pc[c] = "clear",
         pc'[c] = "clear" =>
           \A e \in todo'[c] \ todo[c] : IsContent(system, rule[c], Head(left[c]), e)
  PROVE  Meant(c)'
BY DEF Meant

LEMMA ActorMeant ==
  ASSUME TypeOK, NEW c \in Cleaners, Meant(c), Execute(c)
  PROVE  Meant(c)'
<1>1. CASE Refuse(c) \/ NextRule(c) \/ Examine(c) \/ Close(c) \/ EndRule(c) \/ SystemActions(c)
  <2>1. pc'[c] # "clear"
    BY <1>1 DEF Refuse, NextRule, MayGoOn, Examine, Close, EndRule, SystemActions, TypeOK
  <2> QED
    BY <2>1 DEF Meant
<1>2. CASE Open(c)
  <2>1. CASE pc'[c] # "clear"
    BY <2>1 DEF Meant
  <2>2. CASE pc'[c] = "clear"
    <3>1. /\ Opens(Head(left[c])) /\ UNCHANGED <<left, rule, system>>
          /\ todo'[c] = {e \in entries : Meetable(rule[c], Head(left[c]), e)}
      BY <1>2, <2>2 DEF Open, TypeOK, fixed
    <3> QED
      BY <3>1 DEF Opens, Meant, Meetable
  <2> QED
    BY <2>1, <2>2
<1>3. ASSUME NEW e \in todo[c], Unlink(c, e) \/ Keep(c, e) \/ Pass(c, e) PROVE Meant(c)'
  <2>1. todo' = [todo EXCEPT ![c] = @ \ {e}] /\ UNCHANGED <<system, rule, left, pc>>
    BY <1>3 DEF Unlink, Keep, Pass, Meets, fixed
  <2>2. todo'[c] \subseteq todo[c]
    BY <2>1 DEF TypeOK
  <2> QED
    BY <2>1, <2>2, MeantStays
<1> QED
  BY <1>1, <1>2, <1>3 DEF Execute

LEMMA NextMeant == TypeOK /\ MeantInv /\ [Next]_vars => MeantInv'
<1> SUFFICES ASSUME TypeOK, MeantInv, Next \/ UNCHANGED vars, NEW c \in Cleaners PROVE Meant(c)'
  BY DEF MeantInv
<1>0. Meant(c)
  BY DEF MeantInv
<1>1. ASSUME NEW d \in Cleaners, Execute(d) PROVE Meant(c)'
  <2>1. CASE d = c
    BY <1>0, <1>1, <2>1, ActorMeant
  <2>2. CASE d # c
    <3>1. UNCHANGED system
      BY <1>1 DEF Execute, Refuse, NextRule, Examine, Open, Unlink, Keep, Pass, Meets, Close,
                  EndRule, SystemActions, fixed
    <3> QED
      BY <1>0, <1>1, <2>2, <3>1, OthersStay, MeantStays
  <2> QED
    BY <2>1, <2>2
<1>2. ASSUME NEW e, Create(e) PROVE Meant(c)'
  <2>1. PICK seeing \in SUBSET {d \in Cleaners :
                           pc[d] = "clear" /\ Meetable(rule[d], Head(left[d]), e)} :
          todo' = [d \in Cleaners |-> IF d \in seeing THEN todo[d] \cup {e} ELSE todo[d]]
    BY <1>2 DEF Create
  <2>2. UNCHANGED <<system, rule, left, pc>>
    BY <1>2 DEF Create, fixed
  <2> QED
    BY <1>0, <2>1, <2>2, MeantStays DEF Meetable
<1>3. ASSUME NEW e, Discard(e) PROVE Meant(c)'
  BY <1>0, <1>3, MeantStays DEF Discard, fixed
<1>4. CASE UNCHANGED vars
  BY <1>0, <1>4, MeantStays DEF vars, fixed
<1> QED
  BY <1>1, <1>2, <1>3, <1>4 DEF Next, Applications, Arrive

LEMMA NamesAreNotEmpty == ".config" # Empty /\ ".local" # Empty /\ "thumbnails" # Empty
BY Zenon DEF Empty

\* A path without the slash at its end.
LEMMA BareIs ==
  ASSUME NEW p \in Paths
  PROVE  \/ Bare(p) = p /\ (p = <<>> \/ p[Len(p)] # Empty)
         \/ /\ Len(p) \in Nat \ {0} /\ p[Len(p)] = Empty
            /\ Bare(p) \in Paths /\ Len(Bare(p)) = Len(p) - 1
            /\ \A i \in 1..(Len(p) - 1) : Bare(p)[i] = p[i]
<1>1. CASE p = <<>> \/ p[Len(p)] # Empty
  BY <1>1 DEF Bare, Last
<1>2. CASE p # <<>> /\ p[Len(p)] = Empty
  <2>1. Bare(p) = SubSeq(p, 1, Len(p) - 1) /\ Len(p) \in Nat \ {0}
    BY <1>2, EmptySeq DEF Bare, Last, Front, Paths
  <2>2. Len(p) - 1 \in 0..Len(p) /\ Len(p) - 1 <= Len(p)
    BY <2>1
  <2>3. Bare(p) \in Paths /\ Len(Bare(p)) = Len(p) - 1 /\ IsPrefix(Bare(p), p)
    BY <2>1, <2>2, CutIsPrefix
  <2>4. \A i \in 1..(Len(p) - 1) : Bare(p)[i] = p[i]
    BY <2>3, PrefixIs
  <2> QED
    BY <1>2, <2>1, <2>3, <2>4
<1> QED
  BY <1>1, <1>2

\* The slash at the end of a home directory opens no protected directory: a
\* path within it, component by component, has an empty component there.
LEMMA ProtectedHoweverSpelled ==
  ASSUME NEW home \in Paths, NEW p \in Paths, Bare(p) = p, IsWithin(home, p),
         p \notin ProtectedPaths(home)
  PROVE  p \notin ProtectedPaths(Bare(home))
<1>1. CASE Bare(home) = home
  BY <1>1
<1>2. CASE Bare(home) # home
  <2> DEFINE h == Bare(home)
             g == Bare(h)
             n == Len(home)
  <2>1. /\ n \in Nat \ {0} /\ home[n] = Empty
        /\ h \in Paths /\ Len(h) = n - 1 /\ \A i \in 1..(n - 1) : h[i] = home[i]
    BY <1>2, BareIs
  <2>2. n <= Len(p) /\ \A i \in 1..n : p[i] = home[i]
    BY PrefixIs DEF IsWithin
  <2>3. Len(p) \in Nat
    BY LenProperties DEF Paths
  <2>4. \/ g = h
        \/ Len(h) \in Nat \ {0} /\ h[Len(h)] = Empty /\ g \in Paths /\ Len(g) = Len(h) - 1
    BY <2>1, BareIs
  <2> HIDE DEF h, g, n
  <2>5. p[n] = Empty
    <3>1. n \in 1..n
      BY <2>1
    <3> QED
      BY <2>1, <2>2, <3>1, Zenon
  <2>6. ASSUME n - 1 # 0 PROVE p[n - 1] = h[n - 1]
    <3>1. n - 1 \in 1..n /\ n - 1 \in 1..(n - 1)
      BY <2>1, <2>6
    <3> QED
      BY <2>1, <2>2, <3>1, Zenon
  <2>7. g \in Paths /\ Len(g) \in Nat /\ p[Len(g) + 1] = Empty
    <3>1. CASE g = h
      <4>1. n - 1 + 1 = n /\ n - 1 \in Nat
        BY <2>1
      <4> QED
        BY <2>1, <2>5, <3>1, <4>1, Zenon
    <3>2. CASE g # h
      <4>1. /\ Len(g) = n - 2 /\ n - 1 # 0 /\ n - 2 + 1 = n - 1 /\ n - 2 \in Nat
            /\ h[n - 1] = Empty /\ g \in Paths
        BY <2>1, <2>4, <3>2
      <4> QED
        BY <2>6, <4>1, Zenon
    <3> QED
      BY <3>1, <3>2
  <2>8. ASSUME NEW C, NEW q \in Seq(C), q # <<>>, q[1] # Empty PROVE p # Join(h, q)
    <3> DEFINE N == Names \cup C
    <3>1. Len(q) \in Nat \ {0}
      BY <2>8, EmptySeq
    <3>2. q \in Seq(N)
      BY SeqMonotonic
    <3>3. g \in Seq(N)
      BY <2>7 DEF Paths
    <3> HIDE DEF N
    <3>4. \A i \in 1..(Len(g) + Len(q)) : (g \o q)[i] = IF i <= Len(g) THEN g[i] ELSE q[i - Len(g)]
      BY <3>2, <3>3, ConcatProperties, Zenon
    <3>5. (g \o q)[Len(g) + 1] = q[1]
      <4> DEFINE i == Len(g) + 1
      <4>1. i \in 1..(Len(g) + Len(q)) /\ ~(i <= Len(g)) /\ i - Len(g) = 1
        BY <2>7, <3>1
      <4>2. (g \o q)[i] = IF i <= Len(g) THEN g[i] ELSE q[i - Len(g)]
        BY <3>4, <4>1
      <4> HIDE DEF i
      <4>3. (g \o q)[i] = q[1]
        BY <4>1, <4>2, Zenon
      <4> QED
        BY <4>3 DEF i
    <3> QED
      BY <2>7, <2>8, <3>5, Zenon DEF Join, g
  <2>9. /\ p # Join(h, <<".config">>) /\ p # Join(h, <<".local">>)
        /\ p # Join(h, <<".local", "share">>)
    <3> DEFINE C == {".config", ".local", "share"}
    <3>1. ".config" \in C /\ ".local" \in C /\ "share" \in C
      BY Zenon
    <3> HIDE DEF C
    <3>2. \A x, y \in C : <<x>> \in Seq(C) /\ <<x, y>> \in Seq(C)
      OBVIOUS
    <3>3. \A x, y \in C : <<x>> # <<>> /\ <<x>>[1] = x
      OBVIOUS
    <3>4. \A x, y \in C : <<x, y>> # <<>> /\ <<x, y>>[1] = x
      OBVIOUS
    <3>5. \A x, y \in C : x # Empty => p # Join(h, <<x>>) /\ p # Join(h, <<x, y>>)
      BY <2>8, <3>2, <3>3, <3>4, Zenon
    <3> QED
      BY <3>1, <3>5, NamesAreNotEmpty, Zenon
  <2>10. p # <<>> /\ p # h
    <3>1. Len(p) # 0 /\ Len(p) # Len(h)
      BY <2>1, <2>2, <2>3
    <3> QED
      BY <3>1, EmptySeq
  <2> QED
    BY <2>9, <2>10, Zenon DEF ProtectedPaths, h
<1> QED
  BY <1>1, <1>2

\* In which states a call removes, and what.
LEMMA WhatIsRemoved ==
  ASSUME ReportInv, MeantInv, Next \/ UNCHANGED vars, NEW e \in entries \ entries',
         changes' = changes
  PROVE  \E c \in Cleaners :
           /\ ~system.root
           /\ e \in todo[c] \ todo'[c]
           /\ \E id \in request[c] \cap UserIds : InCategory(system, id, e)
           /\ Bare(Head(left[c])) \notin ProtectedPaths(Bare(system.home))
<1>0. IInv /\ TreeInv /\ SuccessInv
  BY DEF ReportInv
<1> USE <1>0
<1>1. PICK c \in Cleaners : \E d \in todo[c] : Unlink(c, d)
  <2>1. changes \in Nat
    BY CleanerAssumption DEF IInv, TypeOK
  <2>2. ~\E d \in entries : Discard(d)
    BY <2>1 DEF Discard
  <2>3. ~\E d \in Arrivals : Create(d)
    BY <2>1 DEF Create
  <2>4. entries' # entries
    OBVIOUS
  <2> QED
    BY <2>2, <2>3, <2>4 DEF Next, Applications, Arrive, Execute, Refuse, NextRule, Examine,
                Open, Keep, Pass, Close, EndRule, SystemActions, vars, tree
<1>2. /\ pc[c] = "clear" /\ e \in todo[c] /\ todo' = [todo EXCEPT ![c] = @ \ {e}]
      /\ left[c] # <<>> /\ rule[c] \in UserIds
  BY <1>1 DEF Unlink, Meets, IInv, TypeOK
<1>3. e \in todo[c] \ todo'[c]
  BY <1>2 DEF IInv, TypeOK
<1>4. ~system.root /\ rule[c] \in request[c]
  BY <1>2, NoneIsNoRule DEF IInv, RootIdle, AnsweredLater
<1>5. Meant(c) /\ Progress(c)
  BY <1>2, NoneIsNoRule DEF MeantInv, SuccessInv
<1>6. InCategory(system, rule[c], e)
  <2> DEFINE T == Targets(system, rule[c])
  <2>1. PICK n \in 0..Len(T) : left[c] = SubSeq(T, n + 1, Len(T))
    BY <1>5 DEF Progress
  <2>2. n + 1 \in DOMAIN T /\ Head(left[c]) = T[n + 1]
    BY <1>2, <2>1, AtTarget, NoneIsNoRule DEF IInv
  <2>3. IsContent(system, rule[c], T[n + 1], e)
    BY <1>2, <1>5, <2>2 DEF Meant
  <2> QED
    BY <2>2, <2>3 DEF InCategory
<1>7. Bare(Head(left[c])) \notin ProtectedPaths(Bare(system.home))
  <2> DEFINE t == Head(left[c])
  <2>1. LexicallyPermitted(system, t) /\ Bare(t) = t
    BY <1>2, <1>5 DEF Meant
  <2>2. t \in Paths
    <3> DEFINE T == Targets(system, rule[c])
    <3>1. PICK n \in 0..Len(T) : left[c] = SubSeq(T, n + 1, Len(T))
      BY <1>5 DEF Progress
    <3> QED
      BY <1>2, <3>1, AtTarget, NoneIsNoRule DEF IInv
  <2> HIDE DEF t
  <2>3. system.home \in Paths
    BY DEF TreeInv
  <2>4. IsWithin(system.home, t) /\ t \notin ProtectedPaths(system.home)
    BY <2>1 DEF LexicallyPermitted
  <2>5. Bare(t) \notin ProtectedPaths(Bare(system.home))
    BY <2>1, <2>2, <2>3, <2>4, ProtectedHoweverSpelled
  <2> QED
    BY <2>5 DEF t
<1> QED
  BY <1>2, <1>3, <1>4, <1>6, <1>7

LEMMA MeantInvariance == Spec => []MeantInv
<1>1. Init => MeantInv
  BY DEF Init, MeantInv, Meant
<1> QED
  BY <1>1, NextMeant, TypeCorrect, PTL DEF Spec

\* A path below a directory of the catalog has no slash at its end.
LEMMA ListedIsBare ==
  ASSUME NEW base \in Paths, NEW q \in Paths, q # <<>>, Last(q) # Empty
  PROVE  Bare(Join(base, q)) = Join(base, q)
<1>1. Bare(base) \in Paths
  BY BareIsPath
<1> DEFINE b == Bare(base)
<1>2. /\ Len(b) \in Nat /\ Len(q) \in Nat \ {0} /\ Len(b \o q) = Len(b) + Len(q)
      /\ b \o q \in Paths
      /\ \A i \in 1..(Len(b) + Len(q)) : (b \o q)[i] = IF i <= Len(b) THEN b[i] ELSE q[i - Len(b)]
  BY <1>1, ConcatProperties, EmptySeq, LenProperties DEF Paths
<1> HIDE DEF b
<1>3. (b \o q)[Len(b) + Len(q)] = q[Len(q)]
  <2> DEFINE i == Len(b) + Len(q)
  <2>1. i \in 1..(Len(b) + Len(q)) /\ ~(i <= Len(b)) /\ i - Len(b) = Len(q)
    BY <1>2
  <2>2. (b \o q)[i] = IF i <= Len(b) THEN b[i] ELSE q[i - Len(b)]
    BY <1>2, <2>1
  <2> HIDE DEF i
  <2>3. (b \o q)[i] = q[Len(q)]
    BY <2>1, <2>2, Zenon
  <2> QED
    BY <2>3 DEF i
<1>4. Last(b \o q) # Empty
  BY <1>2, <1>3, Zenon DEF Last
<1> QED
  BY <1>4 DEF Bare, Join, b

\* What belongs to an excepted group is excluded from the application cache.
LEMMA GroupsAreExcluded ==
  ASSUME NEW s, {s.home, s.cacheHome, s.dataHome} \subseteq Paths,
         NEW id \in SeparateGroups, NEW e, InCategory(s, id, e)
  PROVE  IsExcluded(e, GenericExclusions(s))
<1>1. PICK i \in DOMAIN Targets(s, id) : IsStrictPrefix(Bare(Targets(s, id)[i]), e)
  BY DEF InCategory, IsContent
<1>2. ASSUME NEW base \in Paths, NEW list, list \in {Browsers, CacheDevelopers, HomeDevelopers},
             NEW j \in DOMAIN Each(base, list)
      PROVE  Bare(Each(base, list)[j]) = Each(base, list)[j]
  <2>1. j \in DOMAIN list /\ Each(base, list)[j] = Join(base, list[j])
    BY DEF Each
  <2>2. list \in Seq(Paths) /\ list[j] # <<>> /\ Last(list[j]) # Empty
    BY <1>2, <2>1, CatalogAssumption, Zenon
  <2>3. list[j] \in Paths
    BY <2>1, <2>2, LenProperties, ElementOfSeq
  <2> QED
    BY <2>1, <2>2, <2>3, ListedIsBare, Zenon
<1>3. Targets(s, id)[i] \in GenericExclusions(s) /\ Bare(Targets(s, id)[i]) = Targets(s, id)[i]
  <2>1. CASE id = "thumbnails"
    <3>1. Targets(s, id)[i] = Thumbnails(s)
      BY <2>1 DEF Targets
    <3>2. <<"thumbnails">> \in Paths /\ <<"thumbnails">> # <<>> /\ Last(<<"thumbnails">>) # Empty
      BY NamesArePaths, NamesAreNotEmpty, CatalogAssumption DEF Last
    <3> QED
      BY <3>1, <3>2, ListedIsBare DEF Thumbnails, GenericExclusions
  <2>2. CASE id = "browser-cache"
    <3>1. Targets(s, id) = BrowserPaths(s)
      BY <2>2 DEF Targets
    <3> QED
      BY <1>2, <3>1 DEF BrowserPaths, GenericExclusions, ToSet
  <2>3. CASE id = "developer-cache"
    <3> DEFINE a == Each(s.cacheHome, CacheDevelopers)
               b == Each(s.home, HomeDevelopers)
    <3>1. Targets(s, id) = a \o b
      BY <2>3 DEF Targets, DeveloperPaths
    <3>2. a \in Seq(Paths) /\ b \in Seq(Paths)
      BY EachArePaths, CatalogAssumption
    <3>3. \A j \in DOMAIN a : Bare(a[j]) = a[j]
      BY <1>2
    <3>4. \A j \in DOMAIN b : Bare(b[j]) = b[j]
      BY <1>2
    <3> HIDE DEF a, b
    <3>5. i \in 1..(Len(a) + Len(b)) /\ Len(a) \in Nat /\ Len(b) \in Nat
      BY <3>1, <3>2, ConcatProperties, LenProperties
    <3>6. \/ i \in DOMAIN a /\ (a \o b)[i] = a[i]
          \/ i - Len(a) \in DOMAIN b /\ (a \o b)[i] = b[i - Len(a)]
      BY <3>2, <3>5, ConcatProperties, LenProperties
    <3>7. Bare(Targets(s, id)[i]) = Targets(s, id)[i]
      BY <3>1, <3>3, <3>4, <3>6
    <3>8. Targets(s, id)[i] \in ToSet(DeveloperPaths(s))
      BY <2>3 DEF Targets, ToSet
    <3> QED
      BY <3>7, <3>8 DEF GenericExclusions
  <2> QED
    BY <2>1, <2>2, <2>3 DEF SeparateGroups
<1> QED
  BY <1>1, <1>3 DEF IsExcluded, IsWithin, IsStrictPrefix

\* Whatever goes as application cache belongs to none of those groups.
LEMMA GroupsAreSpared ==
  ASSUME ReportInv, MeantInv, NEW c \in Cleaners, NEW e \in todo[c]
  PROVE  SparesGroups(c, e)
<1> SUFFICES ASSUME rule[c] = "application-cache", NEW id \in SeparateGroups,
                    InCategory(system, id, e)
             PROVE  FALSE
  BY DEF SparesGroups
<1>1. pc[c] = "clear"
  BY DEF ReportInv, IInv, TypeOK
<1>2. ~IsExcluded(e, GenericExclusions(system))
  BY <1>1 DEF MeantInv, Meant, IsContent, Exclusions
<1> QED
  BY <1>2, GroupsAreExcluded DEF ReportInv, TreeInv

\* For every environment, catalog and tree: only what a call was asked for is
\* removed, never from a protected directory, however its path is written, and
\* as application cache nothing of the groups that its description excepts.
THEOREM OnlyWhatWasAskedFor == Spec => OnlyRequested
<1> DEFINE Only ==
             \A e \in entries \ entries' :
               changes' = changes =>
                 \E c \in Cleaners :
                   /\ ~system.root
                   /\ e \in todo[c] \ todo'[c]
                   /\ Requested(c, e)
                   /\ SparesGroups(c, e)
<1>1. ReportInv /\ MeantInv /\ [Next]_vars => [Only]_vars
  <2> SUFFICES ASSUME ReportInv, MeantInv, Next \/ UNCHANGED vars,
                      NEW e \in entries \ entries', changes' = changes
               PROVE  \E c \in Cleaners : /\ ~system.root
                                          /\ e \in todo[c] \ todo'[c]
                                          /\ Requested(c, e)
                                          /\ SparesGroups(c, e)
    BY Zenon
  <2>1. PICK c \in Cleaners :
          /\ ~system.root
          /\ e \in todo[c] \ todo'[c]
          /\ \E id \in request[c] \cap UserIds : InCategory(system, id, e)
          /\ Bare(Head(left[c])) \notin ProtectedPaths(Bare(system.home))
    BY WhatIsRemoved, Zenon
  <2> QED
    BY <2>1, GroupsAreSpared, Zenon DEF Requested
<1>2. OnlyRequested <=> [][Only]_vars
  BY Zenon DEF OnlyRequested
<1> HIDE DEF Only
<1> QED
  BY <1>1, <1>2, ReportInvariance, MeantInvariance, PTL DEF Spec

\* All of this holds of vacuoctl and a window beside it as well.
THEOREM CommandSafe == CliSpec => OnlyRequested /\ []Accounted
BY CommandIsACall, OnlyWhatWasAskedFor, EntriesAreAccounted, PTL
=============================================================================
