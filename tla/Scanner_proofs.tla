---------------------------- MODULE Scanner_proofs ----------------------------
(***************************************************************************)
(* Proofs about the scan, for every tree, every catalog of rules, every    *)
(* item limit and any number of changes by other processes and of failing  *)
(* calls.                                                                  *)
(***************************************************************************)
EXTENDS Scanner, FileSystem_proofs, SequenceTheorems

Streams == [dir : Dirs, path : Seq(Names), must : SUBSET Names, may : SUBSET Names]
AtEntries == [path : Seq(Names), kind : Kinds, pending : BOOLEAN]
Targets == [path : Seq(Names), exclusions : SUBSET Seq(Names)]
Results == [available : BOOLEAN, items : Nat, inaccessible : Nat, truncated : BOOLEAN]
AllStats == [items : 0..EntryLimit, inaccessible : Nat, truncated : BOOLEAN]

LEMMA PushStream ==
  ASSUME NEW x \in Streams, NEW s \in Seq(Streams)
  PROVE  /\ <<x>> \o s \in Seq(Streams) /\ <<x>> \o s # <<>>
         /\ Len(<<x>> \o s) = Len(s) + 1 /\ (<<x>> \o s)[1] = x
         /\ \A k \in 1..Len(s) : (<<x>> \o s)[k + 1] = s[k]
         /\ \A k \in DOMAIN (<<x>> \o s) :
              \/ (<<x>> \o s)[k] = x
              \/ \E j \in DOMAIN s : (<<x>> \o s)[k] = s[j]
  OBVIOUS

LEMMA PopStream ==
  ASSUME NEW s \in Seq(Streams), s # <<>>
  PROVE  /\ Head(s) \in Streams /\ \E j \in DOMAIN s : Head(s) = s[j]
         /\ Tail(s) \in Seq(Streams)
         /\ Len(s) \in Nat \ {0} /\ Head(s) = s[1] /\ Len(Tail(s)) = Len(s) - 1
         /\ \A k \in 1..(Len(s) - 1) : Tail(s)[k] = s[k + 1]
         /\ Len(s) > 1 => Tail(s) # <<>>
         /\ \A k \in DOMAIN Tail(s) : \E j \in DOMAIN s : Tail(s)[k] = s[j]
<1>1. Len(s) \in Nat /\ Len(s) > 0 /\ Head(s) = s[1] /\ 1 \in DOMAIN s
  OBVIOUS
<1>2. Tail(s) \in Seq(Streams) /\ Len(Tail(s)) = Len(s) - 1
      /\ \A k \in 1..(Len(s) - 1) : Tail(s)[k] = s[k + 1] /\ k + 1 \in DOMAIN s
  OBVIOUS
<1>. QED
  BY <1>1, <1>2

-----------------------------------------------------------------------------
(***************************************************************************)
(* The inductive invariant.  The type of a stream's directory says nothing *)
(* of where it is; Contained follows because what can be opened from a     *)
(* directory in reach is in reach or a stray, and the streams above a      *)
(* stray's are excepted until it is closed.                                *)
(***************************************************************************)
\* The rule and target at hand exist; a result is kept of each earlier rule.
PlaceOK ==
  /\ place[1] \in 1..(Len(Rules) + 1)
  /\ Len(report) + 1 = place[1]
  /\ pc = "rule" => place[2] = 1
  /\ pc \notin {"rule", "done"} => place[1] <= Len(Rules) /\ place[2] \in 1..Len(rule)

\* The iterator exists only during scanTarget, and stands at an entry while
\* it has streams.
IteratorOK ==
  /\ pc \in {"rule", "available", "usable", "open", "done"} =>
       stack = <<>> /\ at = End /\ ~error
  /\ at # End => stack # <<>>
  /\ at.pending => at.path # <<>>
  /\ pc = "measure" => stats.items < EntryLimit

ReachOK == (stack # <<>> => Fenced(tree, reach, strays)) /\ Contained

Inv == TypeOK /\ report \in Seq(Results) /\ PlaceOK /\ IteratorOK /\ ReachOK

\* What the actions of scanTarget may take from it.
LEMMA RuleFacts ==
  ASSUME Inv, pc \notin {"rule", "done"}
  PROVE  /\ place[1] \in 1..Len(Rules) /\ rule \in Seq(Targets) /\ Len(rule) \in Nat
         /\ place[2] \in 1..Len(rule) /\ target \in Targets
         /\ target.path \in Seq(Names)
<1>1. Rules \in Seq(Seq(Targets)) /\ Len(Rules) \in Nat
  BY ScanAssumption DEF Targets
<1>2. place[1] \in 1..Len(Rules)
  BY <1>1 DEF Inv, PlaceOK
<1>3. rule \in Seq(Targets)
  BY <1>1, <1>2 DEF rule
<1>4. place[2] \in 1..Len(rule) /\ Len(rule) \in Nat
  BY <1>3 DEF Inv, PlaceOK
<1>5. target \in Targets
  BY <1>3, <1>4 DEF target
<1>. QED
  BY <1>2, <1>3, <1>4, <1>5 DEF Targets

LEMMA EndFacts == End.pending = FALSE /\ End.path = <<>> /\ End \notin AtEntries
BY DEF End, AtEntries, Kinds

LEMMA FaultFacts ==
  ASSUME Inv, Fault \/ UNCHANGED faults
  PROVE  faults' \in 0..MaxFaults
<1>1. faults \in 0..MaxFaults /\ MaxFaults \in Nat
  BY ScanAssumption DEF Inv, TypeOK
<1>. QED
  BY <1>1 DEF Fault

\* The end of a target.
LEMMA FinishKeepsInv ==
  ASSUME Inv, pc \notin {"rule", "done"}, NEW s \in AllStats \cup {NoStats}, Finish(s),
         UNCHANGED <<fsVars, cancelled, faults, seen, reach, strays>>
  PROVE  Inv'
<1>. USE DEF fsVars
<1>1. s.items \in Nat /\ s.inaccessible \in Nat /\ s.truncated \in BOOLEAN
  <2>1. EntryLimit \in Nat
    BY ScanAssumption
  <2>2. CASE s \in AllStats
    BY <2>1, <2>2 DEF AllStats
  <2>3. CASE s = NoStats
    BY <2>3 DEF NoStats
  <2>. QED
    BY <2>2, <2>3
<1>. DEFINE sum == [result EXCEPT !.items = @ + s.items,
                                  !.inaccessible = @ + s.inaccessible,
                                  !.truncated = @ \/ s.truncated]
<1>2. sum \in Results
  <2>1. result \in Results
    BY DEF Inv, TypeOK, Results
  <2>. DEFINE x == result.items + s.items
              y == result.inaccessible + s.inaccessible
              z == result.truncated \/ s.truncated
  <2>2. x \in Nat /\ y \in Nat
    BY <1>1, <2>1 DEF Results
  <2>3. z \in BOOLEAN
    OBVIOUS
  <2>4. sum = [result EXCEPT !.items = x, !.inaccessible = y, !.truncated = z]
    OBVIOUS
  <2>. HIDE DEF x, y, z, sum
  <2>. QED
    BY <2>1, <2>2, <2>3, <2>4 DEF Results
<1>3. /\ stats' = NoStats /\ stack' = <<>> /\ at' = End /\ error' = FALSE /\ result' = sum
      /\ \/ /\ place[2] < Len(rule) /\ place' = <<place[1], place[2] + 1>>
            /\ pc' = "available" /\ UNCHANGED report
         \/ /\ report' = Append(report, sum) /\ place' = <<place[1] + 1, 1>> /\ pc' = "rule"
  BY DEF Finish
<1>. HIDE DEF sum
<1>4. /\ place[1] \in 1..Len(Rules) /\ place[2] \in 1..Len(rule) /\ Len(rule) \in Nat
      /\ Len(Rules) \in Nat /\ report \in Seq(Results) /\ Len(report) \in Nat
      /\ Len(report) + 1 = place[1]
  <2>1. Rules \in Seq(Seq(Targets))
    BY ScanAssumption DEF Targets
  <2>2. Len(Rules) \in Nat
    BY <2>1
  <2>3. report \in Seq(Results) /\ Len(report) + 1 = place[1]
    BY DEF Inv, PlaceOK
  <2>. QED
    BY <2>2, <2>3, RuleFacts
<1>5. report' \in Seq(Results) /\ Len(report') <= Len(Rules)
      /\ Len(report') + 1 = place'[1] /\ place' \in Nat \X Nat
  <2>1. CASE place' = <<place[1], place[2] + 1>> /\ UNCHANGED report
    BY <1>4, <2>1
  <2>2. CASE report' = Append(report, sum) /\ place' = <<place[1] + 1, 1>>
    <3>1. report' \in Seq(Results) /\ Len(report') = Len(report) + 1
      BY <1>2, <1>4, <2>2
    <3>. QED
      BY <1>4, <2>2, <3>1
  <2>. QED
    BY <1>3, <2>1, <2>2
<1>6. PlaceOK'
  <2>1. CASE /\ place[2] < Len(rule) /\ place' = <<place[1], place[2] + 1>>
             /\ pc' = "available" /\ UNCHANGED report
    <3>1. rule' = rule
      BY <2>1 DEF rule
    <3>. QED
      BY <1>4, <2>1, <3>1 DEF PlaceOK
  <2>2. CASE place' = <<place[1] + 1, 1>> /\ pc' = "rule"
    <3>1. place'[1] = place[1] + 1 /\ place'[2] = 1 /\ pc' = "rule"
      BY <2>2
    <3>2. place'[1] \in 1..(Len(Rules) + 1)
      BY <1>4, <3>1
    <3>3. Len(report') + 1 = place'[1]
      BY <1>5
    <3>. QED
      BY <3>1, <3>2, <3>3 DEF PlaceOK
  <2>. QED
    BY <1>3, <2>1, <2>2
<1>7. TypeOK'
  <2>1. NoStats \in AllStats
    BY ScanAssumption DEF NoStats, AllStats
  <2>2. stack' \in Seq(Streams)
    BY <1>3
  <2>. QED
    BY <1>2, <1>3, <1>5, <2>1, <2>2 DEF Inv, TypeOK, FSTypeOK, Trees, Results, AllStats, Streams
<1>8. IteratorOK'
  BY <1>3, EndFacts DEF IteratorOK
<1>9. ReachOK'
  BY <1>3 DEF Inv, ReachOK, Contained, Fenced
<1>. QED
  BY <1>5, <1>6, <1>7, <1>8, <1>9 DEF Inv

\* The streams move by m places.  They keep their directories, and one that
\* is new was opened from one that the iterator held.
LEMMA StreamsKeepReach ==
  ASSUME Inv, stack # <<>>, UNCHANGED <<tree, reach, strays>>,
         stack' \in Seq(Streams), NEW m \in Int, Len(stack') = Len(stack) + m,
         \A j \in 1..Len(stack) : j + m \in 1..Len(stack') => stack'[j + m].dir = stack[j].dir,
         \A k \in 1..Len(stack') :
           \/ k - m \in 1..Len(stack)
           \/ stack'[k].dir \in reach \cup strays
           \/ \E j \in 1..Len(stack) : j + m >= k /\ stack[j].dir \in strays
  PROVE  ReachOK'
<1>1. Len(stack) \in Nat /\ Len(stack') \in Nat
      /\ DOMAIN stack = 1..Len(stack) /\ DOMAIN stack' = 1..Len(stack')
  BY DEF Inv, TypeOK
<1>2. ASSUME NEW k \in 1..Len(stack'), NEW j \in 1..Len(stack), j + m >= k,
             stack[j].dir \in strays
      PROVE  \E i \in k..Len(stack') : stack'[i].dir \in strays'
  <2>1. j + m \in k..Len(stack') /\ j + m \in 1..Len(stack')
    BY <1>1, <1>2
  <2>. QED
    BY <1>2, <2>1
<1>3. ASSUME NEW k \in 1..Len(stack')
      PROVE  stack'[k].dir \in reach' \/ \E i \in k..Len(stack') : stack'[i].dir \in strays'
  <2>1. CASE k - m \in 1..Len(stack)
    <3>1. (k - m) + m = k /\ stack'[k].dir = stack[k - m].dir
      BY <1>1, <2>1
    <3>2. \/ stack[k - m].dir \in reach
          \/ \E j \in (k - m)..Len(stack) : stack[j].dir \in strays
      BY <1>1, <2>1 DEF Inv, ReachOK, Contained
    <3>3. CASE stack[k - m].dir \in reach
      BY <3>1, <3>3
    <3>4. ASSUME NEW j \in (k - m)..Len(stack), stack[j].dir \in strays
          PROVE  \E i \in k..Len(stack') : stack'[i].dir \in strays'
      <4>1. j \in 1..Len(stack) /\ j + m >= k
        BY <1>1, <2>1, <3>4
      <4>. QED
        BY <1>2, <3>4, <4>1
    <3>. QED
      BY <3>2, <3>3, <3>4
  <2>2. CASE stack'[k].dir \in reach \cup strays
    <3>1. k \in k..Len(stack')
      BY <1>1
    <3>. QED
      BY <2>2, <3>1
  <2>. QED
    BY <1>2, <2>1, <2>2
<1>. QED
  BY <1>1, <1>3 DEF Inv, ReachOK, Contained

\* A step of the iterator.
LEMMA IterateKeepsInv ==
  ASSUME Inv, pc \notin {"rule", "done"},
         UNCHANGED <<fsVars, place, result, report, cancelled>>, stats' \in AllStats,
         Fault \/ UNCHANGED faults,
         reach' \in SUBSET Dirs, strays' \in SUBSET Dirs, ReachOK',
         stack' \in Seq(Streams),
         at' \in AtEntries \cup {End}, error' \in BOOLEAN,
         error' => at' = End /\ stack' = <<>>,
         at' # End => stack' # <<>>,
         at'.pending => at'.path # <<>>,
         pc' \in {"loop", "measure", "recheck", "increment", "advance"},
         pc' # "loop" => at' # End,
         pc' = "measure" => stats'.items < EntryLimit
  PROVE  Inv'
<1>. USE DEF fsVars
<1>1. PlaceOK'
  <2>1. rule' = rule
    BY DEF rule
  <2>. QED
    BY <2>1 DEF Inv, PlaceOK
<1>2. TypeOK'
  BY FaultFacts DEF Inv, TypeOK, FSTypeOK, Trees, Streams, AtEntries, AllStats
<1>3. IteratorOK'
  BY DEF Inv, IteratorOK
<1>. QED
  BY <1>1, <1>2, <1>3 DEF Inv

\* The iterator ends.
LEMMA EndedKeepsInv ==
  ASSUME Inv, pc \notin {"rule", "done"}, NEW failed \in BOOLEAN, Ended(failed),
         UNCHANGED <<fsVars, place, stats, result, report, cancelled, reach, strays>>,
         Fault \/ UNCHANGED faults
  PROVE  Inv'
<1>1. stack' = <<>> /\ at' = End /\ error' = failed /\ pc' = "loop"
  BY DEF Ended
<1>2. stack' \in Seq(Streams) /\ ReachOK'
  BY <1>1 DEF ReachOK, Contained
<1>3. stats' \in AllStats /\ reach' \in SUBSET Dirs /\ strays' \in SUBSET Dirs
  BY DEF Inv, TypeOK, AllStats
<1>. QED
  BY <1>1, <1>2, <1>3, EndFacts, IterateKeepsInv

\* What is left alone by a step that neither opens nor closes a stream.
LEMMA StayFacts ==
  ASSUME Inv
  PROVE  /\ stack \in Seq(Streams)
         /\ reach \in SUBSET Dirs /\ strays \in SUBSET Dirs
         /\ UNCHANGED <<tree, stack, reach, strays>> => ReachOK'
         /\ at \in AtEntries \cup {End} /\ error \in BOOLEAN
         /\ error => at = End /\ stack = <<>>
         /\ at # End => stack # <<>>
         /\ at.pending => at.path # <<>>
         /\ stats \in AllStats
BY DEF Inv, TypeOK, IteratorOK, ReachOK, Contained, Fenced, Streams, AtEntries, AllStats

-----------------------------------------------------------------------------
(* The actions. *)

LEMMA InitInv == Init => Inv
<1>. SUFFICES ASSUME Init PROVE Inv
  OBVIOUS
<1>. USE DEF Init, FSInit
<1>1. FSTypeOK
  BY TreeAssumption DEF FSTypeOK
<1>2. NoStats \in AllStats /\ NoResult \in Results
  BY ScanAssumption DEF NoStats, NoResult, AllStats, Results
<1>3. Len(Rules) \in Nat /\ report \in Seq(Results) /\ Len(report) = 0
      /\ stack \in Seq(Streams) /\ faults \in 0..MaxFaults
  <2>1. Rules \in Seq(Seq(Targets))
    BY ScanAssumption DEF Targets
  <2>. QED
    BY <2>1, ScanAssumption
<1>4. TypeOK
  <2>1. place \in Nat \X Nat /\ Len(report) <= Len(Rules)
    BY <1>3
  <2>. QED
    BY <1>1, <1>2, <1>3, <2>1 DEF TypeOK, AllStats, Results, Streams
<1>5. PlaceOK /\ IteratorOK /\ ReachOK
  BY <1>3, EndFacts DEF PlaceOK, IteratorOK, ReachOK, Closed, Contained
<1>. QED
  BY <1>3, <1>4, <1>5 DEF Inv

LEMMA StartRuleKeepsInv == Inv /\ StartRule => Inv'
<1>. SUFFICES ASSUME Inv, StartRule PROVE Inv'
  OBVIOUS
<1>. USE DEF StartRule, fsVars
<1>1. NoResult \in Results
  BY DEF NoResult, Results
<1>2. Rules \in Seq(Seq(Targets)) /\ Len(Rules) \in Nat
  BY ScanAssumption DEF Targets
<1>3. /\ place[1] \in 1..(Len(Rules) + 1) /\ report \in Seq(Results)
      /\ Len(report) + 1 = place[1] /\ Len(report) \in Nat
      /\ place \in Nat \X Nat
  BY DEF Inv, TypeOK, PlaceOK
<1>4. IteratorOK' /\ ReachOK'
  BY DEF Inv, IteratorOK, ReachOK, Contained, Fenced
<1>5. CASE /\ pc' = "done" /\ UNCHANGED <<place, result, report>>
  BY <1>4, <1>5 DEF Inv, TypeOK, FSTypeOK, Trees, PlaceOK
<1>6. CASE /\ place[1] <= Len(Rules) /\ result' = NoResult
           /\ report' = Append(report, NoResult) /\ place' = <<place[1] + 1, 1>>
           /\ UNCHANGED pc
  <2>1. report' \in Seq(Results) /\ Len(report') = Len(report) + 1
    BY <1>1, <1>3, <1>6
  <2>2. place'[1] = place[1] + 1 /\ place' \in Nat \X Nat
    BY <1>3, <1>6
  <2>3. Len(report') <= Len(Rules) /\ place'[1] \in 1..(Len(Rules) + 1)
        /\ Len(report') + 1 = place'[1]
    BY <1>2, <1>3, <1>6, <2>1, <2>2
  <2>4. TypeOK'
    BY <1>1, <1>6, <2>2, <2>3 DEF Inv, TypeOK, FSTypeOK, Trees, Results
  <2>5. PlaceOK'
    BY <1>6, <2>3 DEF PlaceOK
  <2>. QED
    BY <1>4, <2>1, <2>4, <2>5 DEF Inv
<1>7. CASE /\ place[1] <= Len(Rules) /\ result' = NoResult /\ rule # <<>>
           /\ pc' = "available" /\ UNCHANGED <<place, report>>
  <2>1. rule \in Seq(Targets)
    BY <1>2, <1>3, <1>7 DEF rule
  <2>2. place[2] \in 1..Len(rule)
    BY <1>3, <1>7, <2>1 DEF Inv, PlaceOK
  <2>3. rule' = rule
    BY <1>7 DEF rule
  <2>4. TypeOK'
    BY <1>1, <1>7 DEF Inv, TypeOK, FSTypeOK, Trees, Results
  <2>5. PlaceOK'
    BY <1>3, <1>7, <2>2, <2>3 DEF PlaceOK
  <2>. QED
    BY <1>3, <1>4, <1>7, <2>4, <2>5 DEF Inv
<1>. QED
  BY <1>5, <1>6, <1>7

LEMMA ScanKeepsInv == Inv /\ Scan => Inv'
<1>. SUFFICES ASSUME Inv, Scan PROVE Inv'
  OBVIOUS
<1>. USE DEF fsVars
<1>1. CASE StartRule
  BY <1>1, StartRuleKeepsInv
<1>2. CASE Available
  <2>1. rule' = rule
    BY <1>2 DEF Available, rule
  <2>2. PlaceOK' /\ IteratorOK' /\ ReachOK'
    BY <1>2, <2>1 DEF Available, Inv, PlaceOK, IteratorOK, ReachOK, Contained, Fenced
  <2>3. result' \in Results
    <3>. DEFINE z == result.available \/ UsableDirectory(target.path)
    <3>1. z \in BOOLEAN /\ result' = [result EXCEPT !.available = z]
      BY <1>2 DEF Available
    <3>2. result \in Results
      BY DEF Inv, TypeOK, Results
    <3>. HIDE DEF z
    <3>. QED
      BY <3>1, <3>2 DEF Results
  <2>4. TypeOK'
    BY <1>2, <2>3 DEF Available, Inv, TypeOK, FSTypeOK, Trees, Results
  <2>. QED
    BY <1>2, <2>2, <2>4 DEF Available, Inv
<1>3. CASE Usable
  <2>1. CASE pc' = "open" /\ UNCHANGED <<place, stack, at, error, stats, result, report>>
    <3>1. rule' = rule
      BY <2>1 DEF rule
    <3>2. PlaceOK' /\ IteratorOK' /\ ReachOK'
      BY <1>3, <2>1, <3>1 DEF Usable, Inv, PlaceOK, IteratorOK, ReachOK, Contained, Fenced
    <3>3. TypeOK'
      BY <1>3, <2>1 DEF Usable, Inv, TypeOK, FSTypeOK, Trees
    <3>. QED
      BY <2>1, <3>2, <3>3 DEF Inv
  <2>2. CASE Finish(NoStats)
    BY <1>3, <2>2, FinishKeepsInv DEF Usable
  <2>. QED
    BY <1>3, <2>1, <2>2 DEF Usable
<1>4. CASE OpenTarget
  <2>. DEFINE d == Followed(Lstat(tree, target.path))
  <2>0. pc = "open" /\ UNCHANGED <<fsVars, place, stats, result, report, cancelled>>
    BY <1>4 DEF OpenTarget
  <2>1. CASE Ended(FALSE) /\ UNCHANGED <<faults, reach, strays>>
    BY <2>0, <2>1, EndedKeepsInv
  <2>2. CASE (Fault \/ UNCHANGED faults) /\ Ended(TRUE) /\ UNCHANGED <<reach, strays>>
    BY <2>0, <2>2, EndedKeepsInv
  <2>3. CASE /\ d \in Dirs
             /\ stack' = <<Stream(d, target.path)>>
             /\ at' = [path |-> target.path, kind |-> "other", pending |-> FALSE]
             /\ reach' = Below(tree, {d}) /\ strays' = {}
             /\ pc' = "advance"
             /\ UNCHANGED <<error, faults>>
    <3>. HIDE DEF d
    <3>1. target.path \in Seq(Names)
      BY <2>0, RuleFacts
    <3>2. Stream(d, target.path) \in Streams /\ Stream(d, target.path).dir = d
      BY <2>3, <3>1 DEF Stream, Streams, Entries
    <3>3. stack' \in Seq(Streams) /\ stack' # <<>>
          /\ \A k \in DOMAIN stack' : stack'[k].dir = d
      BY <2>3, <3>2
    <3>4. at' \in AtEntries /\ at' # End /\ ~at'.pending
      <4>1. "other" \in Kinds
        BY DEF Kinds
      <4>2. at' \in AtEntries /\ ~at'.pending
        BY <2>3, <3>1, <4>1 DEF AtEntries
      <4>. QED
        BY <4>2, EndFacts
    <3>5. d \in reach' /\ reach' \in SUBSET Dirs /\ strays' \in SUBSET Dirs /\ ReachOK'
      <4>1. d \in reach' /\ reach' \in SUBSET Dirs /\ Closed(tree, reach') /\ tree' = tree
        BY <2>0, <2>3, BelowIsClosed DEF fsVars
      <4>2. Fenced(tree', reach', strays')
        BY <4>1 DEF Closed, Fenced
      <4>3. Contained'
        BY <3>3, <4>1 DEF Contained
      <4>. QED
        BY <2>3, <4>1, <4>2, <4>3 DEF ReachOK
    <3>6. ~error' /\ error' \in BOOLEAN
      BY <2>0, <2>3, StayFacts DEF Inv, IteratorOK
    <3>7. stats' \in AllStats
      BY <2>0, StayFacts
    <3>. QED
      BY <2>0, <2>3, <3>3, <3>4, <3>5, <3>6, <3>7, IterateKeepsInv
  <2>. QED
    BY <1>4, <2>1, <2>2, <2>3 DEF OpenTarget, Errs
<1>5. CASE EndOfTarget
  <2>. DEFINE s == IF error THEN [stats EXCEPT !.inaccessible = @ + 1] ELSE stats
  <2>1. s \in AllStats
    BY StayFacts DEF AllStats
  <2>2. pc = "loop" /\ Finish(s) /\ UNCHANGED <<fsVars, cancelled, faults, seen, reach, strays>>
    BY <1>5 DEF EndOfTarget
  <2>. HIDE DEF s
  <2>. QED
    BY <2>1, <2>2, FinishKeepsInv
<1>6. CASE CutShort
  <2>. DEFINE s == [stats EXCEPT !.truncated = TRUE]
  <2>1. s \in AllStats
    BY StayFacts DEF AllStats
  <2>2. pc = "loop" /\ Finish(s) /\ UNCHANGED <<fsVars, cancelled, faults, seen, reach, strays>>
    BY <1>6 DEF CutShort, AtEntry
  <2>. HIDE DEF s
  <2>. QED
    BY <2>1, <2>2, FinishKeepsInv
<1>7. CASE PassOver
  <2>1. /\ pc = "loop" /\ at # End /\ at' = [at EXCEPT !.pending = FALSE]
        /\ pc' = "increment"
        /\ UNCHANGED <<fsVars, place, stack, error, stats, result, report, cancelled,
                      faults, seen, reach, strays>>
    BY <1>7 DEF PassOver, AtEntry
  <2>2. at' \in AtEntries /\ ~at'.pending /\ at' # End
    BY <2>1, StayFacts, EndFacts DEF AtEntries
  <2>3. ~error'
    BY <2>1, StayFacts
  <2>. QED
    BY <2>1, <2>2, <2>3, StayFacts, IterateKeepsInv
<1>8. CASE Consider
  <2>1. /\ pc = "loop" /\ at # End /\ pc' = "measure" /\ ~IsAtLimit
        /\ UNCHANGED <<fsVars, place, stack, at, error, stats, result, report,
                      cancelled, faults, seen, reach, strays>>
    BY <1>8 DEF Consider, AtEntry
  <2>2. stats'.items < EntryLimit
    <3>1. EntryLimit \in Nat /\ stats.items \in Nat
      BY ScanAssumption, StayFacts DEF AllStats
    <3>. QED
      BY <2>1, <3>1 DEF IsAtLimit
  <2>. QED
    BY <2>1, <2>2, StayFacts, IterateKeepsInv
<1>9. CASE Measure
  <2>1. /\ pc = "measure" /\ pc' = "recheck"
        /\ UNCHANGED <<fsVars, place, stack, at, error, result, report, cancelled, reach, strays>>
        /\ Fault \/ UNCHANGED faults
    BY <1>9 DEF Measure, Errs
  <2>2. stats' \in AllStats
    <3>1. EntryLimit \in Nat /\ stats \in AllStats /\ stats.items < EntryLimit
      BY <2>1, ScanAssumption, StayFacts DEF Inv, IteratorOK
    <3>2. \/ stats' = [stats EXCEPT !.items = @ + 1]
          \/ stats' = [stats EXCEPT !.inaccessible = @ + 1]
      BY <1>9 DEF Measure
    <3>. QED
      BY <3>1, <3>2 DEF AllStats
  <2>3. at # End
    BY <2>1 DEF Inv, TypeOK
  <2>. QED
    BY <2>1, <2>2, <2>3, StayFacts, IterateKeepsInv
<1>13. CASE Recheck
  <2>1. /\ pc = "recheck" /\ pc' = "increment"
        /\ UNCHANGED <<fsVars, place, stack, error, stats, result, report, cancelled,
                      reach, strays>>
        /\ Fault \/ UNCHANGED faults
    BY <1>13 DEF Recheck
  <2>2. at \in AtEntries /\ ~error
    BY <2>1, StayFacts DEF Inv, TypeOK
  <2>3. at' \in AtEntries /\ at'.path = at.path /\ (at'.pending => at.pending)
    <3>. DEFINE z == at.pending /\ Lstat(tree, at.path) \notin Links
    <3>1. at' = [at EXCEPT !.pending = z] \/ at' = at
      BY <1>13 DEF Recheck
    <3>2. z \in BOOLEAN /\ (z => at.pending)
      BY <2>2 DEF AtEntries
    <3>. HIDE DEF z
    <3>. QED
      BY <2>2, <3>1, <3>2 DEF AtEntries
  <2>4. at' # End /\ stack' # <<>>
    BY <2>1, <2>2, <2>3, EndFacts, StayFacts
  <2>. QED
    BY <2>1, <2>2, <2>3, <2>4, StayFacts, IterateKeepsInv
<1>10. CASE Descend
  <2>. DEFINE d == Opened(tree[top.dir][Last(at.path)])
  <2>0. /\ pc = "increment"
        /\ UNCHANGED <<fsVars, place, stats, result, report, cancelled, seen, reach, strays>>
        /\ at # End /\ stack # <<>>
    BY <1>10 DEF Descend, Inv, TypeOK
  <2>1. CASE pc' = "advance" /\ UNCHANGED <<stack, at, error, faults>>
    BY <2>0, <2>1, StayFacts, IterateKeepsInv
  <2>2. CASE (Fault \/ UNCHANGED faults) /\ Ended(TRUE)
    BY <2>0, <2>2, EndedKeepsInv
  <2>3. CASE /\ at.pending /\ d \in Dirs
             /\ stack' = <<Stream(d, at.path)>> \o stack
             /\ pc' = "advance"
             /\ UNCHANGED <<at, error, faults>>
    <3>1. /\ at \in AtEntries /\ at.path \in Seq(Names) /\ at.path # <<>>
          /\ Last(at.path) \in Names
      <4>1. at \in AtEntries /\ at.path \in Seq(Names) /\ at.path # <<>>
        BY <2>0, <2>3, StayFacts DEF AtEntries
      <4>. QED
        BY <4>1 DEF Last
    <3>2. top = stack[1] /\ top \in Streams /\ Len(stack) \in Nat \ {0}
      BY <2>0, StayFacts, PopStream DEF top
    <3>3. \/ top.dir \in reach
          \/ \E j \in 1..Len(stack) : stack[j].dir \in strays
      BY <3>2 DEF Inv, ReachOK, Contained
    <3>4. d \in reach \cup strays \/ \E j \in 1..Len(stack) : stack[j].dir \in strays
      <4>1. d = tree[top.dir][Last(at.path)]
        BY <2>3, TreeAssumption DEF Opened, Nodes
      <4>. QED
        BY <2>0, <2>3, <3>1, <3>3, <4>1 DEF Inv, ReachOK, Fenced
    <3>. HIDE DEF d
    <3>5. Stream(d, at.path) \in Streams /\ Stream(d, at.path).dir = d
      BY <2>3, <3>1 DEF Stream, Streams, Entries
    <3>6. stack' \in Seq(Streams) /\ stack' # <<>>
          /\ Len(stack') = Len(stack) + 1 /\ stack'[1] = Stream(d, at.path)
          /\ \A k \in 1..Len(stack) : stack'[k + 1] = stack[k]
      BY <2>3, <3>5, StayFacts, PushStream
    <3>7. ReachOK'
      <4>1. tree' = tree /\ reach' = reach /\ strays' = strays
        BY <2>0
      <4>2. ASSUME NEW k \in 1..Len(stack')
            PROVE  \/ k - 1 \in 1..Len(stack)
                   \/ stack'[k].dir \in reach \cup strays
                   \/ \E j \in 1..Len(stack) : j + 1 >= k /\ stack[j].dir \in strays
        <5>1. CASE k = 1
          <6>1. ASSUME NEW j \in 1..Len(stack) PROVE j + 1 >= k
            BY <3>2, <5>1
          <6>. QED
            BY <3>4, <3>5, <3>6, <5>1, <6>1
        <5>2. CASE k # 1
          BY <3>2, <3>6, <5>2
        <5>. QED
          BY <5>1, <5>2
      <4>3. \A j \in 1..Len(stack) : j + 1 \in 1..Len(stack') => stack'[j + 1].dir = stack[j].dir
        BY <3>6
      <4>. QED
        BY <2>0, <3>6, <4>1, <4>2, <4>3, StreamsKeepReach
    <3>. QED
      BY <2>0, <2>3, <3>6, <3>7, StayFacts, IterateKeepsInv
  <2>. QED
    BY <1>10, <2>1, <2>2, <2>3 DEF Descend, Errs
<1>11. ASSUME NEW n \in Names, NextEntry(n) PROVE Inv'
  <2>. DEFINE f == [top EXCEPT !.must = @ \ {n}, !.may = @ \ {n}]
  <2>0. pc = "advance" /\ stack # <<>> /\ at # End
    BY <1>11 DEF NextEntry, Inv, TypeOK
  <2>1. /\ stack' = <<f>> \o Tail(stack) /\ pc' = "loop"
        /\ UNCHANGED <<fsVars, place, error, stats, result, report, cancelled, faults,
                      seen, reach, strays>>
    BY <1>11 DEF NextEntry
  <2>2. PICK kind \in Kinds :
          at' = [path |-> Append(top.path, n), kind |-> kind, pending |-> kind = "dir"]
    BY <1>11 DEF NextEntry
  <2>3. /\ top \in Streams /\ Tail(stack) \in Seq(Streams) /\ top = stack[1]
        /\ Len(stack) \in Nat \ {0} /\ Len(Tail(stack)) = Len(stack) - 1
        /\ \A k \in 1..(Len(stack) - 1) : Tail(stack)[k] = stack[k + 1]
    BY <2>0, StayFacts, PopStream DEF top
  <2>4. f \in Streams /\ f.dir = top.dir
    BY <2>3 DEF Streams
  <2>5. at' \in AtEntries /\ at' # End /\ at'.path # <<>>
    <3>1. Append(top.path, n) \in Seq(Names) /\ Append(top.path, n) # <<>>
      <4>1. top.path \in Seq(Names)
        BY <2>3 DEF Streams
      <4>. QED
        BY <4>1
    <3>. QED
      BY <2>2, <3>1, EndFacts DEF AtEntries
  <2>. HIDE DEF f
  <2>6. stack' \in Seq(Streams) /\ stack' # <<>> /\ stack'[1] = f
        /\ Len(stack') = Len(Tail(stack)) + 1
        /\ \A k \in 1..Len(Tail(stack)) : stack'[k + 1] = Tail(stack)[k]
    BY <2>1, <2>3, <2>4, PushStream
  <2>7. ReachOK'
    <3>1. tree' = tree /\ reach' = reach /\ strays' = strays
      BY <2>1
    <3>2. Len(stack') = Len(stack) + 0
      BY <2>3, <2>6
    <3>3. ASSUME NEW k \in 1..Len(stack) PROVE stack'[k].dir = stack[k].dir
      <4>1. CASE k = 1
        BY <2>3, <2>4, <2>6, <4>1
      <4>2. CASE k # 1
        <5>1. k - 1 \in 1..(Len(stack) - 1) /\ (k - 1) + 1 = k
          BY <2>3, <4>2
        <5>2. stack'[(k - 1) + 1] = Tail(stack)[k - 1] /\ Tail(stack)[k - 1] = stack[(k - 1) + 1]
          BY <2>3, <2>6, <5>1
        <5>. QED
          BY <5>1, <5>2
      <4>. QED
        BY <4>1, <4>2
    <3>4. \A j \in 1..Len(stack) : j + 0 \in 1..Len(stack') => stack'[j + 0].dir = stack[j].dir
      BY <2>3, <3>3
    <3>5. \A k \in 1..Len(stack') : k - 0 \in 1..Len(stack)
      BY <2>3, <3>2
    <3>6. stack' \in Seq(Streams)
      BY <2>6
    <3>. QED
      BY <2>0, <3>1, <3>2, <3>4, <3>5, <3>6, StreamsKeepReach
  <2>8. ~error'
    BY <2>0, <2>1, StayFacts
  <2>. QED
    BY <2>0, <2>1, <2>5, <2>6, <2>7, <2>8, StayFacts, IterateKeepsInv
<1>12. CASE EndOfStream
  <2>0. /\ pc = "advance" /\ stack # <<>> /\ at # End
        /\ UNCHANGED <<fsVars, place, stats, result, report, cancelled, seen, reach, strays>>
    BY <1>12 DEF EndOfStream, Inv, TypeOK
  <2>1. CASE Len(stack) > 1 /\ stack' = Tail(stack) /\ UNCHANGED <<pc, at, error, faults>>
    <3>1. /\ stack' \in Seq(Streams) /\ stack' # <<>> /\ Len(stack) \in Nat \ {0}
          /\ Len(stack') = Len(stack) + (-1)
          /\ \A k \in 1..(Len(stack) - 1) : stack'[k] = stack[k + 1]
      BY <2>0, <2>1, StayFacts, PopStream
    <3>2. ReachOK'
      <4>1. tree' = tree /\ reach' = reach /\ strays' = strays
        BY <2>0
      <4>2. ASSUME NEW j \in 1..Len(stack), j + (-1) \in 1..Len(stack')
            PROVE  stack'[j + (-1)].dir = stack[j].dir
        <5>1. j - 1 \in 1..(Len(stack) - 1) /\ (j - 1) + 1 = j /\ j + (-1) = j - 1
          BY <3>1, <4>2
        <5>2. stack'[j - 1] = stack[(j - 1) + 1]
          BY <3>1, <5>1
        <5>. QED
          BY <5>1, <5>2
      <4>3. \A k \in 1..Len(stack') : k - (-1) \in 1..Len(stack)
        BY <3>1
      <4>. QED
        BY <2>0, <3>1, <4>1, <4>2, <4>3, StreamsKeepReach
    <3>. QED
      BY <2>0, <2>1, <3>1, <3>2, StayFacts, IterateKeepsInv
  <2>2. CASE Ended(FALSE) /\ UNCHANGED faults
    BY <2>0, <2>2, EndedKeepsInv
  <2>3. CASE Fault /\ Ended(TRUE)
    BY <2>0, <2>3, EndedKeepsInv
  <2>. QED
    BY <1>12, <2>1, <2>2, <2>3 DEF EndOfStream
<1>. QED
  BY <1>1, <1>2, <1>3, <1>4, <1>5, <1>6, <1>7, <1>8, <1>9, <1>10, <1>11, <1>12, <1>13
     DEF Scan

\* The window and the other processes change no stream's directory.
LEMMA OthersKeepInv == Inv /\ (Cancel \/ Interfere) => Inv'
<1>. SUFFICES ASSUME Inv, Cancel \/ Interfere PROVE Inv'
  OBVIOUS
<1>1. rule' = rule /\ UNCHANGED <<pc, place, at, error, stats, result, report, faults>>
  BY DEF Cancel, Interfere, scanVars, rule
<1>2. PlaceOK'
  BY <1>1 DEF Inv, PlaceOK
<1>3. CASE Cancel
  BY <1>2, <1>3 DEF Cancel, scanVars, fsVars, Inv, TypeOK, FSTypeOK, Trees, IteratorOK,
     ReachOK, Contained, Fenced
<1>4. CASE Interfere
  <2>. USE <1>4 DEF Interfere
  <2>1. FSTypeOK'
    BY ApplicationsKeepFSType DEF Inv, TypeOK
  <2>2. /\ reach \subseteq reach' /\ reach' \subseteq Dirs
        /\ strays \subseteq strays' /\ strays' \subseteq Dirs
        /\ stack # <<>> => Fenced(tree', reach', strays')
    <3>1. reach \in SUBSET Dirs /\ strays \in SUBSET Dirs
      BY StayFacts
    <3>2. CASE stack = <<>>
      BY <3>1, <3>2
    <3>3. CASE stack # <<>>
      <4>. DEFINE inside == Below(tree', {Last(stack).dir})
      <4>1. /\ reach' = reach \cup inside
            /\ strays' = strays \cup (PutInto(reach \ inside) \ (reach \cup inside))
        BY <3>3
      <4>2. Last(stack).dir \in Dirs
        <5>1. stack \in Seq(Streams) /\ Len(stack) \in Nat \ {0}
          BY <3>3, StayFacts, PopStream
        <5>2. stack[Len(stack)] \in Streams
          BY <5>1
        <5>. QED
          BY <5>2 DEF Last, Streams
      <4>3. inside \in SUBSET Dirs /\ Closed(tree', inside)
        BY <4>2, BelowIsClosed
      <4>4. Fenced(tree, reach, strays) /\ PutInto(reach \ inside) \subseteq Dirs
        BY <3>3 DEF Inv, ReachOK, PutInto
      <4>5. Fenced(tree', reach \cup inside,
                   strays \cup (PutInto(reach \ inside) \ (reach \cup inside)))
        <5>. HIDE DEF inside
        <5>. QED
          BY <3>1, <4>3, <4>4, InterferenceKeepsFenced
      <4>. HIDE DEF inside
      <4>. QED
        BY <3>1, <4>1, <4>3, <4>4, <4>5
    <3>. QED
      BY <3>2, <3>3
  <2>3. ASSUME NEW f \in Streams PROVE Watch(f) \in Streams /\ Watch(f).dir = f.dir
    BY DEF Watch, Streams
  <2>4. /\ stack' \in Seq(Streams) /\ DOMAIN stack' = DOMAIN stack
        /\ stack # <<>> => stack' # <<>>
        /\ stack = <<>> => stack' = <<>>
        /\ \A k \in DOMAIN stack : stack'[k].dir = stack[k].dir
    <3>1. stack \in Seq(Streams) /\ stack' = [k \in 1..Len(stack) |-> Watch(stack[k])]
      BY StayFacts
    <3>2. \A k \in 1..Len(stack) : stack[k] \in Streams
      BY <3>1
    <3>3. \A k \in 1..Len(stack) : Watch(stack[k]) \in Streams /\ Watch(stack[k]).dir = stack[k].dir
      BY <2>3, <3>2
    <3>. QED
      BY <3>1, <3>3
  <2>5. TypeOK'
    BY <1>1, <2>1, <2>2, <2>4 DEF Inv, TypeOK, Streams
  <2>6. IteratorOK'
    BY <1>1, <2>4 DEF Inv, IteratorOK
  <2>7. ReachOK'
    <3>1. Len(stack') = Len(stack) /\ DOMAIN stack = 1..Len(stack) /\ Len(stack) \in Nat
      BY <2>4, StayFacts
    <3>2. ASSUME NEW k \in DOMAIN stack
          PROVE  \/ stack'[k].dir \in reach'
                 \/ \E j \in k..Len(stack') : stack'[j].dir \in strays'
      <4>1. CASE stack[k].dir \in reach
        BY <2>2, <2>4, <4>1
      <4>2. ASSUME NEW j \in k..Len(stack), stack[j].dir \in strays
            PROVE  stack'[j].dir \in strays' /\ j \in k..Len(stack')
        <5>1. j \in DOMAIN stack
          BY <3>1
        <5>. QED
          BY <2>2, <2>4, <3>1, <4>2, <5>1
      <4>. QED
        BY <4>1, <4>2 DEF Inv, ReachOK, Contained
    <3>. QED
      BY <2>2, <2>4, <3>2 DEF ReachOK, Contained
  <2>. QED
    BY <1>1, <1>2, <2>5, <2>6, <2>7 DEF Inv
<1>. QED
  BY <1>3, <1>4

LEMMA NextKeepsInv == Inv /\ [Next]_vars => Inv'
<1>1. ASSUME Inv, UNCHANGED vars PROVE Inv'
  <2>1. rule' = rule
    BY <1>1 DEF vars, scanVars, rule
  <2>. QED
    <3>1. UNCHANGED <<fsVars, pc, place, stack, at, error, stats, result, report, faults,
                      cancelled, reach, strays>>
      BY <1>1 DEF vars, scanVars
    <3>2. TypeOK'
      BY <1>1, <3>1 DEF fsVars, Inv, TypeOK, FSTypeOK, Trees
    <3>3. PlaceOK'
      BY <1>1, <2>1, <3>1 DEF Inv, PlaceOK
    <3>4. IteratorOK'
      BY <1>1, <3>1 DEF Inv, IteratorOK
    <3>5. ReachOK'
      BY <1>1, <3>1 DEF fsVars, Inv, ReachOK, Contained, Fenced
    <3>. QED
      BY <1>1, <3>1, <3>2, <3>3, <3>4, <3>5 DEF Inv
<1>. QED
  BY <1>1, ScanKeepsInv, OthersKeepInv DEF Next, Finished

LEMMA SpecInv == Spec => []Inv
  BY InitInv, NextKeepsInv, PTL DEF Spec

\* Every variable of the scan keeps its type; in particular no target is
\* counted beyond its limit, and no entry is looked at that no stream holds.
THEOREM TypeCorrect == Spec => []TypeOK
<1>1. Inv => TypeOK
  BY DEF Inv
<1>. QED
  BY SpecInv, <1>1, PTL

\* The iteration of scanTarget enters no directory that was never at or below
\* the one it opened, whatever is swapped between two of its calls, except
\* through what others put into a directory that has left the opened one.
THEOREM ScanContained == Spec => []Contained
<1>1. Inv => Contained
  BY DEF Inv, ReachOK
<1>. QED
  BY SpecInv, <1>1, PTL
-----------------------------------------------------------------------------
(***************************************************************************)
(* What is complete.  As long as nothing was marked, every path there is   *)
(* to measure in the target at hand was measured or touched, or is still   *)
(* ahead of the iterator: at its entry, or below a name that a stream has  *)
(* still to return or a directory it has still to enter.  For that, a      *)
(* stream on the way to a path nobody touched is where the path was found. *)
(***************************************************************************)
Unmarked(r) == ~r.truncated /\ r.inaccessible = 0

Measured(i, j) == \A p \in Visible[i][j] : <<<<i, j>>, p>> \in seen \/ ~Untouched(p)

\* The path q leads on to p.
Leads(q, p) == Len(q) < Len(p) /\ q = SubSeq(p, 1, Len(q))

Ahead(p) ==
  \/ \E k \in 1..Len(stack) : LET q == stack[k].path IN
       Leads(q, p) /\ p[Len(q) + 1] \in stack[k].must
  \/ at.path = p /\ pc \in {"loop", "measure"}
  \/ Leads(at.path, p) /\ at.pending /\ pc \in {"loop", "measure", "recheck", "increment"}

Iterating == pc \in {"loop", "measure", "recheck", "increment", "advance"}

\* The paths to measure in the target at hand.
Wanted == Visible[place[1]][place[2]]

\* The inode after the first k names of a path, where the kernel follows a
\* link that leads on; and the directory that a path leads on from.
Way(t, path, k) == Lstat(t, SubSeq(path, 1, k))
Home(q) == Followed(Lstat(InitTree, q))

Located ==
  \A k \in 1..Len(stack) :
    /\ Len(stack[k].path) >= Len(target.path)
    /\ \A p \in Wanted : Untouched(p) /\ Leads(stack[k].path, p)
                           => stack[k].dir = Home(stack[k].path)

AtOK ==
  /\ at = End => stack = <<>>
  /\ at # End /\ pc # "advance" => \E n \in Names : at.path = Append(top.path, n)

ReportComplete ==
  \A i \in 1..Len(report) : Unmarked(report[i]) => \A j \in DOMAIN Rules[i] : Measured(i, j)

RuleComplete ==
  pc \notin {"rule", "done"} /\ Unmarked(result) =>
    \A j \in 1..(place[2] - 1) : Measured(place[1], j)

Covered ==
  Iterating =>
    /\ Located /\ AtOK
    /\ Unmarked(stats) /\ ~error =>
         \A p \in Wanted : <<place, p>> \in seen \/ ~Untouched(p) \/ Ahead(p)

CompleteInv == ReportComplete /\ RuleComplete /\ Covered

\* A link is followed to what it leads to, anything else is itself.
LEMMA FollowedFacts ==
  /\ \A x \in Dirs : Followed(x) = x /\ x # None
  /\ Followed(Root) = Root /\ Followed(Root) \in Dirs
  /\ Followed(None) \notin Dirs
BY TreeAssumption DEF Followed, Nodes

\* How Lstat gets along a path: its values at every prefix.
LEMMA LstatSteps ==
  ASSUME NEW t \in Trees, NEW path \in Seq(Names)
  PROVE  \E f : /\ f[0] = Root /\ Lstat(t, path) = f[Len(path)]
                /\ \A i \in 1..Len(path) : f[i] = Onward(t, Followed(f[i - 1]), path[i])
<1>. DEFINE V == Nodes \cup {None}
            m == Len(path)
            Right(f) == f = [i \in 0..m |-> IF i = 0 THEN Root
                                            ELSE Onward(t, Followed(f[i - 1]), path[i])]
<1>0. m \in Nat /\ Root \in V /\ \A i \in 1..m : path[i] \in Names
  BY TreeAssumption DEF Nodes
<1>1. \E f : Right(f)
  <2>. DEFINE G == [z \in (1..m) \X V |-> Onward(t, Followed(z[2]), path[z[1]])]
  <2>1. G \in [(1..m) \X V -> V]
    BY <1>0, OnwardIsNode
  <2>2. \A i \in 1..m, v \in V : G[<<i, v>>] = Onward(t, Followed(v), path[i])
    OBVIOUS
  <2>. HIDE DEF G, m, V
  <2>3. PICK f : Iterates(f, m, V, Root, G)
    BY <1>0, <2>1, Iteration
  <2>4. ASSUME NEW i \in 0..m, i # 0 PROVE f[i] = Onward(t, Followed(f[i - 1]), path[i])
    <3>1. i \in 1..m /\ i - 1 \in 0..m
      BY <1>0, <2>4
    <3>. QED
      BY <2>2, <2>3, <3>1 DEF Iterates
  <2>5. Right(f)
    BY <2>3, <2>4 DEF Iterates
  <2>. QED
    BY <2>5
<1>. DEFINE step == CHOOSE f : Right(f)
<1>2. Right(step)
  <2>. HIDE DEF Right
  <2>. QED
    BY <1>1
<1>3. Lstat(t, path) = step[m]
  BY DEF Lstat, Onward
<1>. HIDE DEF step
<1>4. step[0] = Root /\ \A i \in 1..m : step[i] = Onward(t, Followed(step[i - 1]), path[i])
  <2>1. 0 \in 0..m /\ \A i \in 1..m : i \in 0..m /\ i # 0
    BY <1>0
  <2>. QED
    BY <1>2, <2>1
<1>. QED
  BY <1>3, <1>4

\* Lstat of a longer path goes on from where the shorter one leads.
LEMMA LstatAppend ==
  ASSUME NEW t \in Trees, NEW path \in Seq(Names), NEW n \in Names
  PROVE  Lstat(t, Append(path, n)) = Onward(t, Followed(Lstat(t, path)), n)
<1>. DEFINE long == Append(path, n)
            m == Len(path)
<1>1. /\ long \in Seq(Names) /\ m \in Nat /\ Len(long) = m + 1 /\ long[m + 1] = n
      /\ \A i \in 1..m : long[i] = path[i]
  OBVIOUS
<1>. HIDE DEF long, m
<1>2. PICK f : /\ f[0] = Root /\ Lstat(t, path) = f[m]
               /\ \A i \in 1..m : f[i] = Onward(t, Followed(f[i - 1]), path[i])
  BY LstatSteps DEF m
<1>3. PICK g : /\ g[0] = Root /\ Lstat(t, long) = g[m + 1]
               /\ \A i \in 1..(m + 1) : g[i] = Onward(t, Followed(g[i - 1]), long[i])
  BY <1>1, LstatSteps
<1>4. f[m] = g[m]
  <2>. DEFINE T == {k \in Nat : k <= m /\ f[k] # g[k]}
  <2>1. SUFFICES ASSUME T # {} PROVE FALSE
    BY <1>1
  <2>2. PICK k \in T : \A j \in T : k <= j
    BY <2>1, LeastNumber
  <2>3. k \in 1..m /\ k - 1 \in Nat /\ k - 1 \notin T /\ f[k] # g[k]
    BY <1>1, <1>2, <1>3, <2>2
  <2>4. f[k - 1] = g[k - 1] /\ k \in 1..(m + 1) /\ long[k] = path[k]
    BY <1>1, <2>3
  <2>. QED
    BY <1>2, <1>3, <2>3, <2>4
<1>5. m + 1 \in 1..(m + 1) /\ (m + 1) - 1 = m
  BY <1>1
<1>6. Lstat(t, long) = Onward(t, Followed(f[m]), n)
  BY <1>1, <1>3, <1>4, <1>5
<1>. QED
  BY <1>2, <1>6 DEF long

LEMMA WayAlong ==
  ASSUME NEW t \in Trees, NEW path \in Seq(Names)
  PROVE  /\ Len(path) \in Nat
         /\ Way(t, path, 0) = Root /\ Way(t, path, Len(path)) = Lstat(t, path)
         /\ \A k \in 1..Len(path) :
              /\ path[k] \in Names
              /\ Way(t, path, k) = Onward(t, Followed(Way(t, path, k - 1)), path[k])
<1>1. SubSeq(path, 1, 0) = <<>> /\ SubSeq(path, 1, Len(path)) = path /\ Len(path) \in Nat
  OBVIOUS
<1>2. ASSUME NEW k \in 1..Len(path)
      PROVE  /\ path[k] \in Names
             /\ Way(t, path, k) = Onward(t, Followed(Way(t, path, k - 1)), path[k])
  <2>1. /\ SubSeq(path, 1, k - 1) \in Seq(Names) /\ path[k] \in Names
        /\ SubSeq(path, 1, k) = Append(SubSeq(path, 1, k - 1), path[k])
    BY PrefixExtends
  <2>2. \A q \in Seq(Names), n \in Names :
          Lstat(t, Append(q, n)) = Onward(t, Followed(Lstat(t, q)), n)
    BY LstatAppend
  <2>. QED
    BY <2>1, <2>2, Zenon DEF Way
<1>3. Lstat(t, <<>>) = Root
  <2>. DEFINE e == <<>>
  <2>1. e \in Seq(Names) /\ Len(e) = 0
    OBVIOUS
  <2>. HIDE DEF e
  <2>2. Lstat(t, e) = Root
    BY <2>1, LstatSteps
  <2>. QED
    BY <2>2 DEF e
<1>. QED
  BY <1>1, <1>2, <1>3 DEF Way

\* Along the way to a node every prefix leads to a directory.
LEMMA NodeAlong ==
  ASSUME NEW t \in Trees, NEW p \in Seq(Names), Lstat(t, p) # None
  PROVE  /\ \A k \in 0..(Len(p) - 1) : Followed(Way(t, p, k)) \in Dirs
         /\ \A k \in 1..Len(p) : /\ p[k] \in Names /\ Way(t, p, k) # None
                                 /\ Way(t, p, k) = t[Followed(Way(t, p, k - 1))][p[k]]
<1>. DEFINE A(k) == Way(t, p, k)
            T == {j \in Nat : j <= Len(p) /\ A(Len(p) - j) = None}
<1>0. /\ Len(p) \in Nat /\ A(0) = Root /\ A(Len(p)) # None
      /\ \A k \in 1..Len(p) : p[k] \in Names /\ A(k) = Onward(t, Followed(A(k - 1)), p[k])
  BY WayAlong
<1>. HIDE DEF A
<1>1. T = {}
  <2>. SUFFICES ASSUME T # {} PROVE FALSE
    OBVIOUS
  <2>1. PICK j \in T : \A i \in T : j <= i
    BY LeastNumber
  <2>. DEFINE k == Len(p) - j
  <2>2. j # 0 /\ j \in Nat /\ j <= Len(p) /\ A(k) = None
    BY <1>0, <2>1
  <2>3. j - 1 \in Nat /\ j - 1 \notin T
    BY <2>1, <2>2
  <2>4. k + 1 \in 1..Len(p) /\ (k + 1) - 1 = k /\ Len(p) - (j - 1) = k + 1
    BY <1>0, <2>2
  <2>5. A(k + 1) # None
    BY <1>0, <2>2, <2>3, <2>4
  <2>. HIDE DEF T, k
  <2>6. A(k + 1) = None
    BY <1>0, <2>2, <2>4, FollowedFacts DEF Onward
  <2>. QED
    BY <2>5, <2>6
<1>2. ASSUME NEW k \in 0..Len(p) PROVE A(k) # None
  <2>1. Len(p) - k \in Nat /\ Len(p) - (Len(p) - k) = k /\ Len(p) - k <= Len(p)
    BY <1>0
  <2>. QED
    BY <1>1, <2>1
<1>3. ASSUME NEW k \in 1..Len(p)
      PROVE  A(k) # None /\ Followed(A(k - 1)) \in Dirs /\ A(k) = t[Followed(A(k - 1))][p[k]]
  <2>1. k \in 0..Len(p)
    BY <1>0
  <2>. QED
    BY <1>0, <1>2, <2>1 DEF Onward
<1>4. ASSUME NEW k \in 0..(Len(p) - 1) PROVE Followed(A(k)) \in Dirs
  <2>1. k + 1 \in 1..Len(p) /\ (k + 1) - 1 = k
    BY <1>0
  <2>. QED
    BY <1>3, <2>1
<1>. QED
  BY <1>0, <1>3, <1>4 DEF A

\* A path that leads on, and its next name.
LEMMA LeadsFacts ==
  ASSUME NEW p \in Seq(Names), NEW q \in Seq(Names), Leads(q, p)
  PROVE  /\ Len(q) \in 0..(Len(p) - 1) /\ Len(q) + 1 \in 1..Len(p) /\ p[Len(q) + 1] \in Names
         /\ \A t : Way(t, p, Len(q)) = Lstat(t, q)
         /\ Append(q, p[Len(q) + 1]) = SubSeq(p, 1, Len(q) + 1)
         /\ Append(q, p[Len(q) + 1]) = p \/ Leads(Append(q, p[Len(q) + 1]), p)
<1>. DEFINE m == Len(q)
<1>1. m \in Nat /\ Len(p) \in Nat /\ m < Len(p) /\ q = SubSeq(p, 1, m)
  BY DEF Leads
<1>2. m \in 0..(Len(p) - 1) /\ m + 1 \in 1..Len(p)
  BY <1>1
<1>3. SubSeq(p, 1, m + 1) = Append(q, p[m + 1]) /\ p[m + 1] \in Names
  BY <1>1, <1>2, PrefixGrows
<1>4. Append(q, p[m + 1]) = p \/ Leads(Append(q, p[m + 1]), p)
  <2>1. Len(Append(q, p[m + 1])) = m + 1
    BY <1>3
  <2>2. CASE m + 1 = Len(p)
    <3>1. SubSeq(p, 1, Len(p)) = p
      OBVIOUS
    <3>. QED
      BY <1>3, <2>2, <3>1
  <2>3. CASE m + 1 # Len(p)
    <3>1. m + 1 < Len(p)
      BY <1>1, <2>3
    <3>. QED
      BY <1>3, <2>1, <3>1 DEF Leads
  <2>. QED
    BY <2>2, <2>3
<1>5. \A t : Way(t, p, m) = Lstat(t, q)
  BY <1>1 DEF Way
<1>. QED
  BY <1>2, <1>3, <1>4, <1>5

LEMMA PathsFacts ==
  ASSUME NEW q \in Paths
  PROVE  q \in Seq(Names) /\ Len(q) \in 1..Cardinality(Dirs)
<1>1. Cardinality(Dirs) \in Nat
  BY ForestAssumption, FS_CardinalityType
<1>2. PICK k \in 1..Cardinality(Dirs) : q \in [1..k -> Names]
  BY DEF Paths
<1>. QED
  BY <1>1, <1>2

\* A path and what continues it.
LEMMA Continued ==
  ASSUME NEW q \in Seq(Names), NEW r \in Seq(Names), Len(r) >= 1
  PROVE  q \o r \in Seq(Names) /\ Leads(q, q \o r)
<1>. DEFINE p == q \o r
<1>1. /\ p \in Seq(Names) /\ Len(q) \in Nat /\ Len(p) = Len(q) + Len(r) /\ Len(r) \in Nat
      /\ \A k \in 1..Len(q) : p[k] = q[k]
  OBVIOUS
<1>. HIDE DEF p
<1>2. Len(q) < Len(p)
  BY <1>1
<1>. DEFINE s == SubSeq(p, 1, Len(q))
<1>3. s \in Seq(Names) /\ Len(s) = Len(q) /\ \A k \in 1..Len(q) : s[k] = q[k]
  BY <1>1, <1>2
<1>4. q = s
  <2>. HIDE DEF s
  <2>. QED
    BY <1>3, SeqEqual
<1>5. Leads(q, p)
  BY <1>2, <1>4, Zenon DEF Leads
<1>. QED
  BY <1>1, <1>5 DEF p

\* What there is to measure in the target j of the rule i.
LEMMA VisibleFacts ==
  ASSUME NEW i \in 1..Len(Rules), NEW j \in 1..Len(Rules[i]), NEW p \in Visible[i][j]
  PROVE  /\ p \in Seq(Names) /\ Rules[i][j] \in Targets
         /\ Leads(Rules[i][j].path, p)
         /\ \A e \in Rules[i][j].exclusions : ~IsPrefix(e, p)
         /\ Lstat(InitTree, p) # None
         /\ \A k \in Len(Rules[i][j].path)..(Len(p) - 1) : Way(InitTree, p, k) \in Dirs \ Unreadable
<1>. DEFINE t == Rules[i][j]
<1>0. Rules \in Seq(Seq(Targets))
  BY ScanAssumption DEF Targets
<1>1. Rules \in Seq(Seq(Targets)) /\ Rules[i] \in Seq(Targets) /\ t \in Targets
  BY <1>0
<1>2. /\ p \in {t.path \o q : q \in Paths} /\ Lstat(InitTree, p) # None
      /\ \A e \in t.exclusions : ~IsPrefix(e, p)
      /\ \A k \in Len(t.path)..(Len(p) - 1) : Lstat(InitTree, SubSeq(p, 1, k)) \in Dirs \ Unreadable
  <2>1. i \in DOMAIN Rules /\ j \in DOMAIN Rules[i]
    BY <1>1
  <2>. QED
    BY <2>1, Zenon DEF Visible
<1>3. PICK q \in Paths : p = t.path \o q
  BY <1>2
<1>4. t.path \in Seq(Names) /\ q \in Seq(Names) /\ Len(q) >= 1
  BY <1>1, PathsFacts DEF Targets
<1>5. p \in Seq(Names) /\ Leads(t.path, p)
  BY <1>3, <1>4, Continued
<1>. QED
  BY <1>1, <1>2, <1>5 DEF Way

LEMMA WantedFacts ==
  ASSUME Inv, pc \notin {"rule", "done"}, NEW p \in Wanted
  PROVE  /\ p \in Seq(Names) /\ target.path \in Seq(Names) /\ Leads(target.path, p)
         /\ \A q : IsExcluded(q) /\ Leads(q, p) => FALSE
         /\ ~IsExcluded(p)
         /\ Lstat(InitTree, p) # None
         /\ \A k \in Len(target.path)..(Len(p) - 1) : Way(InitTree, p, k) \in Dirs \ Unreadable
<1>1. place[1] \in 1..Len(Rules) /\ place[2] \in 1..Len(Rules[place[1]])
      /\ target = Rules[place[1]][place[2]] /\ target.path \in Seq(Names)
  BY RuleFacts DEF rule, target
<1>2. /\ p \in Seq(Names) /\ Leads(target.path, p)
      /\ \A e \in target.exclusions : ~IsPrefix(e, p)
      /\ Lstat(InitTree, p) # None
      /\ \A k \in Len(target.path)..(Len(p) - 1) : Way(InitTree, p, k) \in Dirs \ Unreadable
  BY <1>1, VisibleFacts DEF Wanted
<1>3. ASSUME NEW q, IsExcluded(q), Leads(q, p) PROVE FALSE
  <2>1. PICK e \in target.exclusions : IsPrefix(e, q)
    BY <1>3 DEF IsExcluded
  <2>2. e \in Seq(Names)
    BY RuleFacts, <2>1 DEF Targets
  <2>3. /\ Len(e) \in Nat /\ Len(p) \in Nat /\ Len(e) <= Len(q)
        /\ SubSeq(e, 1, Len(e)) = SubSeq(q, 1, Len(e))
        /\ Len(q) < Len(p) /\ q = SubSeq(p, 1, Len(q))
    BY <1>2, <1>3, <2>1, <2>2 DEF IsPrefix, Leads
  <2>4. Len(q) \in Nat
    BY <1>2, <2>3
  <2>5. SubSeq(q, 1, Len(e)) = SubSeq(p, 1, Len(e))
    <3>. DEFINE m == Len(q)
    <3>1. SubSeq(SubSeq(p, 1, m), 1, Len(e)) = SubSeq(p, 1, Len(e))
      BY <1>2, <2>3, <2>4
    <3>. QED
      BY <2>3, <3>1
  <2>6. IsPrefix(e, p)
    BY <2>3, <2>4, <2>5 DEF IsPrefix
  <2>. QED
    BY <1>2, <2>1, <2>6
<1>. QED
  BY <1>1, <1>2, <1>3 DEF IsExcluded

\* A path that nobody touched is still where it was.
LEMMA UntouchedWay ==
  ASSUME tree \in Trees, NEW p \in Seq(Names), Lstat(InitTree, p) # None, Untouched(p)
  PROVE  /\ \A k \in 0..Len(p) : Way(tree, p, k) = Way(InitTree, p, k)
         /\ \A k \in 0..(Len(p) - 1) : Followed(Way(InitTree, p, k)) \in Dirs
         /\ \A k \in 1..Len(p) :
              /\ p[k] \in Names /\ Way(InitTree, p, k) # None
              /\ tree[Followed(Way(InitTree, p, k - 1))][p[k]] = Way(InitTree, p, k)
<1>0. InitTree \in Trees /\ Len(p) \in Nat
      /\ Way(tree, p, 0) = Root /\ Way(InitTree, p, 0) = Root
  BY TreeAssumption, WayAlong
<1>1. \A k \in 0..Len(p) : Way(tree, p, k) = Way(InitTree, p, k)
  BY <1>0 DEF Untouched, Way
<1>2. /\ \A k \in 0..(Len(p) - 1) : Followed(Way(InitTree, p, k)) \in Dirs
      /\ \A k \in 1..Len(p) : Way(InitTree, p, k) # None
  BY <1>0, NodeAlong
<1>3. ASSUME NEW k \in 1..Len(p)
      PROVE  /\ p[k] \in Names
             /\ tree[Followed(Way(InitTree, p, k - 1))][p[k]] = Way(InitTree, p, k)
  <2>1. k - 1 \in 0..(Len(p) - 1) /\ k - 1 \in 0..Len(p) /\ k \in 0..Len(p)
    BY <1>0
  <2>2. Way(tree, p, k) = Onward(tree, Followed(Way(tree, p, k - 1)), p[k]) /\ p[k] \in Names
    BY <1>0, WayAlong
  <2>. QED
    BY <1>1, <1>2, <2>1, <2>2 DEF Onward
<1>. QED
  BY <1>1, <1>2, <1>3

\* What leads to a path that nobody touched leads to the directory that was
\* there from the start, and that holds the next name.
LEMMA LeadsToDir ==
  ASSUME tree \in Trees, NEW p \in Seq(Names), Lstat(InitTree, p) # None, Untouched(p),
         NEW q \in Seq(Names), Leads(q, p)
  PROVE  /\ Lstat(InitTree, q) = Way(InitTree, p, Len(q))
         /\ Home(q) \in Dirs /\ Lstat(tree, q) = Lstat(InitTree, q)
         /\ tree[Home(q)][p[Len(q) + 1]] = Way(InitTree, p, Len(q) + 1)
         /\ Way(InitTree, p, Len(q) + 1) # None
<1>1. /\ Len(q) \in 0..(Len(p) - 1) /\ Len(q) + 1 \in 1..Len(p) /\ p[Len(q) + 1] \in Names
      /\ Way(InitTree, p, Len(q)) = Lstat(InitTree, q)
      /\ Way(tree, p, Len(q)) = Lstat(tree, q)
  BY LeadsFacts
<1>2. Len(q) \in 0..Len(p) /\ (Len(q) + 1) - 1 = Len(q) /\ Len(q) \in Nat /\ Len(p) \in Nat
  BY <1>1
<1>. QED
  BY <1>1, <1>2, UntouchedWay DEF Home

\* What other processes did not touch now, they had not touched before:
\* what they take away comes back only by a renaming.
LEMMA NothingComesBack ==
  ASSUME FSTypeOK, Applications, NEW d \in Dirs, NEW n \in Names,
         tree'[d][n] = InitTree[d][n], InitTree[d][n] # None, InitTree[d][n] \notin moved'
  PROVE  tree[d][n] = InitTree[d][n]
<1>. DEFINE x == InitTree[d][n]
<1>0. tree \in Trees /\ fresh \subseteq Spare /\ x \notin Spare
  BY ForestAssumption DEF FSTypeOK, Alive, Linked
<1>. HIDE DEF x
<1>1. ASSUME NEW e \in Dirs, NEW m \in Names, NEW y \in Spare, CreateEntry(e, m, y)
      PROVE  tree[d][n] = tree'[d][n] \/ tree'[d][n] = y
  BY <1>0, <1>1 DEF CreateEntry, Trees
<1>2. ASSUME NEW e \in Dirs, NEW m \in Names, DeleteEntry(e, m)
      PROVE  tree[d][n] = tree'[d][n] \/ tree'[d][n] = None
  BY <1>0, <1>2 DEF DeleteEntry, Trees
<1>3. ASSUME NEW e \in Dirs, NEW g \in Dirs, NEW m \in Names, NEW k \in Names,
             RenameEntry(e, m, g, k)
      PROVE  tree[d][n] = tree'[d][n] \/ tree'[d][n] = None \/ tree'[d][n] \in moved'
  BY <1>0, <1>3 DEF RenameEntry, Trees
<1>. QED
  BY <1>0, <1>1, <1>2, <1>3 DEF Applications, x

LEMMA MovedStays ==
  ASSUME Applications
  PROVE  moved \subseteq moved'
BY DEF Applications, CreateEntry, DeleteEntry, RenameEntry

LEMMA UntouchedBefore ==
  ASSUME FSTypeOK, FSTypeOK', Applications, NEW p \in Seq(Names),
         Lstat(InitTree, p) # None, Untouched(p)'
  PROVE  Untouched(p)
<1>. DEFINE N(k) == Way(InitTree, p, k)
            A(k) == Way(tree, p, k)
            B(k) == Way(tree', p, k)
            T == {k \in Nat : k <= Len(p) /\ A(k) # N(k)}
<1>0. /\ tree \in Trees /\ tree' \in Trees /\ InitTree \in Trees /\ Root \in Dirs
      /\ Len(p) \in Nat /\ N(0) = Root /\ A(0) = Root /\ B(0) = Root
  BY TreeAssumption, WayAlong DEF FSTypeOK
<1>1. /\ \A k \in 0..(Len(p) - 1) : Followed(N(k)) \in Dirs
      /\ \A k \in 1..Len(p) : p[k] \in Names /\ N(k) = InitTree[Followed(N(k - 1))][p[k]]
                              /\ N(k) # None
  BY <1>0, NodeAlong
<1>2. \A k \in 1..Len(p) : N(k) = B(k) /\ N(k) \notin moved'
  BY DEF Untouched, Way
<1>4. \A k \in 1..Len(p) : /\ B(k) = Onward(tree', Followed(B(k - 1)), p[k])
                           /\ A(k) = Onward(tree, Followed(A(k - 1)), p[k])
  BY <1>0, WayAlong
<1>. HIDE DEF N, A, B
<1>5. ASSUME NEW k \in 1..Len(p) PROVE tree[Followed(N(k - 1))][p[k]] = N(k)
  <2>1. k - 1 \in 0..(Len(p) - 1) /\ (k - 1 = 0 \/ k - 1 \in 1..Len(p))
    BY <1>0
  <2>2. Followed(N(k - 1)) \in Dirs /\ p[k] \in Names /\ N(k) = InitTree[Followed(N(k - 1))][p[k]]
    BY <1>1, <2>1
  <2>3. B(k - 1) = N(k - 1)
    BY <1>0, <1>2, <2>1
  <2>4. tree'[Followed(N(k - 1))][p[k]] = N(k)
    BY <1>2, <1>4, <2>2, <2>3 DEF Onward
  <2>. QED
    BY <1>1, <1>2, <2>2, <2>4, NothingComesBack
<1>6. T = {}
  <2>. SUFFICES ASSUME T # {} PROVE FALSE
    OBVIOUS
  <2>1. PICK k \in T : \A l \in T : k <= l
    BY LeastNumber
  <2>2. k \in Nat /\ k # 0 /\ k <= Len(p) /\ A(k) # N(k)
    BY <1>0, <2>1
  <2>3. k - 1 \in Nat /\ k - 1 <= Len(p) /\ ~(k <= k - 1) /\ k \in 1..Len(p)
        /\ k - 1 \in 0..(Len(p) - 1)
    BY <1>0, <2>2
  <2>4. A(k - 1) = N(k - 1)
    BY <2>1, <2>3
  <2>. QED
    BY <1>1, <1>4, <1>5, <2>2, <2>3, <2>4 DEF Onward
<1>7. \A k \in 1..Len(p) : A(k) = N(k) /\ N(k) \notin moved
  BY <1>0, <1>2, <1>6, MovedStays
<1>. QED
  BY <1>7 DEF Untouched, Way, A, N

\* Below the target no link leads on to what is wanted.
LEMMA WantedWay ==
  ASSUME Inv, pc \notin {"rule", "done"}, NEW p \in Wanted,
         NEW q \in Seq(Names), Leads(q, p), Len(q) >= Len(target.path)
  PROVE  /\ Way(InitTree, p, Len(q)) = Home(q) /\ Lstat(InitTree, q) = Home(q)
         /\ Home(q) \in Dirs \ Unreadable
<1>1. /\ p \in Seq(Names) /\ target.path \in Seq(Names)
      /\ \A k \in Len(target.path)..(Len(p) - 1) : Way(InitTree, p, k) \in Dirs \ Unreadable
  BY WantedFacts
<1>2. Len(q) \in 0..(Len(p) - 1) /\ Way(InitTree, p, Len(q)) = Lstat(InitTree, q)
  BY <1>1, LeadsFacts
<1>3. Len(q) \in Len(target.path)..(Len(p) - 1)
  BY <1>1, <1>2
<1>4. Lstat(InitTree, q) \in Dirs \ Unreadable
  BY <1>1, <1>2, <1>3
<1>. QED
  BY <1>2, <1>4, FollowedFacts DEF Home

-----------------------------------------------------------------------------
(* The end of a target, and the steps that leave the streams alone. *)

\* Whatever was measured or touched stays so.
LEMMA FinishKeepsComplete ==
  ASSUME Inv, Inv', pc \notin {"rule", "done"}, ReportComplete, RuleComplete,
         NEW s \in AllStats \cup {NoStats}, Finish(s),
         UNCHANGED <<fsVars, cancelled, faults, seen, reach, strays>>,
         Unmarked(s) => Measured(place[1], place[2])
  PROVE  CompleteInv'
<1>. DEFINE sum == [result EXCEPT !.items = @ + s.items,
                                  !.inaccessible = @ + s.inaccessible,
                                  !.truncated = @ \/ s.truncated]
<1>1. \A i, j : Measured(i, j)' <=> Measured(i, j)
  BY DEF Measured, fsVars, Untouched
<1>2. Unmarked(sum) => Unmarked(result) /\ Unmarked(s)
  <2>1. s.inaccessible \in Nat /\ result.inaccessible \in Nat
    <3>1. s.inaccessible \in Nat
      BY DEF AllStats, NoStats
    <3>2. result \in [available : BOOLEAN, items : Nat, inaccessible : Nat, truncated : BOOLEAN]
      BY DEF Inv, TypeOK
    <3>. QED
      BY <3>1, <3>2
  <2>2. sum.inaccessible = result.inaccessible + s.inaccessible
        /\ sum.truncated = (result.truncated \/ s.truncated)
    BY DEF Inv, TypeOK
  <2>. HIDE DEF sum
  <2>3. sum.inaccessible = 0 => result.inaccessible = 0 /\ s.inaccessible = 0
    BY <2>1, <2>2
  <2>4. ~sum.truncated => ~result.truncated /\ ~s.truncated
    BY <2>2, Zenon
  <2>. QED
    BY <2>3, <2>4, Zenon DEF Unmarked
<1>3. /\ place[1] \in 1..Len(Rules) /\ place[2] \in 1..Len(rule) /\ Len(rule) \in Nat
      /\ report \in Seq(Results) /\ Len(report) + 1 = place[1] /\ Len(report) \in Nat
      /\ rule \in Seq(Targets) /\ rule = Rules[place[1]]
  BY RuleFacts DEF Inv, PlaceOK, rule
<1>4. Unmarked(sum) => \A j \in 1..place[2] : Measured(place[1], j)
  <2>. SUFFICES ASSUME Unmarked(sum), NEW j \in 1..place[2] PROVE Measured(place[1], j)
    OBVIOUS
  <2>1. j = place[2] \/ j \in 1..(place[2] - 1)
    BY <1>3
  <2>. QED
    BY <1>2, <2>1 DEF RuleComplete
<1>5. result' = sum /\ pc' \in {"available", "rule"}
      /\ \/ /\ place' = <<place[1], place[2] + 1>> /\ UNCHANGED report
         \/ /\ place[2] = Len(rule) /\ report' = Append(report, sum)
            /\ pc' = "rule"
  <2>1. ~(place[2] < Len(rule)) => place[2] = Len(rule)
    BY <1>3
  <2>. QED
    BY <2>1 DEF Finish
<1>. HIDE DEF sum
<1>6. Covered'
  BY <1>5 DEF Covered, Iterating
<1>7. CASE place' = <<place[1], place[2] + 1>> /\ UNCHANGED report
  <2>1. place'[1] = place[1] /\ place'[2] - 1 = place[2]
    BY <1>3, <1>7
  <2>2. RuleComplete'
    BY <1>1, <1>4, <1>5, <2>1 DEF RuleComplete
  <2>3. ReportComplete'
    BY <1>1, <1>7 DEF ReportComplete
  <2>. QED
    BY <1>6, <2>2, <2>3 DEF CompleteInv
<1>8. CASE place[2] = Len(rule) /\ report' = Append(report, sum) /\ pc' = "rule"
  <2>1. RuleComplete'
    BY <1>8 DEF RuleComplete
  <2>2. ASSUME NEW i \in 1..Len(report'), Unmarked(report'[i]), NEW j \in DOMAIN Rules[i]
        PROVE  Measured(i, j)
    <3>1. Len(report') = Len(report) + 1
          /\ (i = Len(report) + 1 \/ (i \in 1..Len(report) /\ report'[i] = report[i]))
      BY <1>3, <1>8
    <3>2. CASE i \in 1..Len(report) /\ report'[i] = report[i]
      BY <2>2, <3>2 DEF ReportComplete
    <3>3. CASE i = Len(report) + 1
      <4>1. report'[i] = sum
        BY <1>3, <1>8, <3>3
      <4>2. i = place[1] /\ j \in 1..place[2]
        BY <1>3, <1>8, <3>3
      <4>. QED
        BY <1>4, <2>2, <4>1, <4>2
    <3>. QED
      BY <3>1, <3>2, <3>3
  <2>3. ReportComplete'
    BY <1>1, <2>2 DEF ReportComplete
  <2>. QED
    BY <1>6, <2>1, <2>3 DEF CompleteInv
<1>. QED
  BY <1>5, <1>7, <1>8

\* A step of scanTarget leaves the results of earlier targets alone.
LEMMA EarlierKept ==
  ASSUME ReportComplete, RuleComplete, pc \notin {"rule", "done"},
         UNCHANGED <<fsVars, place, result, report>>, seen \subseteq seen'
  PROVE  ReportComplete' /\ RuleComplete'
<1>1. \A i, j : Measured(i, j) => Measured(i, j)'
  BY DEF Measured, fsVars, Untouched
<1>. QED
  BY <1>1 DEF ReportComplete, RuleComplete

\* The iterator has ended: nothing is ahead any more.
LEMMA EndedKeepsComplete ==
  ASSUME Inv, CompleteInv, pc \notin {"rule", "done"}, NEW failed \in BOOLEAN, Ended(failed),
         UNCHANGED <<fsVars, place, stats, result, report, seen>>,
         ~failed => \A p \in Wanted : <<place, p>> \in seen \/ ~Untouched(p)
  PROVE  CompleteInv'
<1>1. ReportComplete' /\ RuleComplete'
  BY EarlierKept DEF CompleteInv
<1>2. stack' = <<>> /\ at' = End /\ error' = failed /\ pc' = "loop" /\ Wanted' = Wanted
  BY DEF Ended, Wanted
<1>3. Located' /\ AtOK'
  BY <1>2 DEF Located, AtOK
<1>4. \A p : Untouched(p)' <=> Untouched(p)
  BY DEF fsVars, Untouched
<1>. QED
  BY <1>1, <1>2, <1>3, <1>4 DEF CompleteInv, Covered

LEMMA PushIndex ==
  ASSUME NEW x \in Streams, NEW s \in Seq(Streams)
  PROVE  /\ Len(<<x>> \o s) = Len(s) + 1 /\ (<<x>> \o s)[1] = x
         /\ \A k \in 1..Len(<<x>> \o s) :
              k = 1 \/ (k - 1 \in 1..Len(s) /\ (<<x>> \o s)[k] = s[k - 1])
         /\ \A k \in 1..Len(s) : k + 1 \in 1..Len(<<x>> \o s) /\ (<<x>> \o s)[k + 1] = s[k]
  OBVIOUS

LEMMA TopIndex ==
  ASSUME NEW x \in Streams, NEW s \in Seq(Streams), s # <<>>
  PROVE  /\ Len(<<x>> \o Tail(s)) = Len(s) /\ (<<x>> \o Tail(s))[1] = x
         /\ \A k \in 2..Len(s) : (<<x>> \o Tail(s))[k] = s[k]
<1>1. /\ Tail(s) \in Seq(Streams) /\ Len(Tail(s)) = Len(s) - 1 /\ Len(s) \in Nat /\ Len(s) >= 1
      /\ \A k \in 1..(Len(s) - 1) : Tail(s)[k] = s[k + 1]
  OBVIOUS
<1>2. \A k \in 2..Len(s) : k - 1 \in 1..(Len(s) - 1) /\ (k - 1) + 1 = k
  BY <1>1
<1>. DEFINE u == Tail(s)
<1>3. u \in Seq(Streams) /\ Len(u) = Len(s) - 1 /\ \A k \in 2..Len(s) : u[k - 1] = s[k]
  <2>1. ASSUME NEW k \in 2..Len(s) PROVE u[k - 1] = s[k]
    <3>1. k - 1 \in 1..(Len(s) - 1) /\ (k - 1) + 1 = k
      BY <1>2
    <3>2. Tail(s)[k - 1] = s[(k - 1) + 1]
      BY <1>1, <3>1
    <3>. QED
      BY <3>1, <3>2
  <2>. QED
    BY <1>1, <2>1
<1>. HIDE DEF u
<1>4. /\ Len(<<x>> \o u) = Len(u) + 1 /\ (<<x>> \o u)[1] = x
      /\ \A k \in 1..Len(<<x>> \o u) : k = 1 \/ (<<x>> \o u)[k] = u[k - 1]
  BY <1>3, PushIndex
<1>5. Len(<<x>> \o u) = Len(s)
  <2>1. (Len(s) - 1) + 1 = Len(s)
    BY <1>1
  <2>. QED
    BY <1>3, <1>4, <2>1, Zenon
<1>6. \A k \in 2..Len(s) : k \in 1..Len(s) /\ k # 1
  BY <1>1
<1>7. \A k \in 2..Len(s) : (<<x>> \o u)[k] = s[k]
  BY <1>3, <1>4, <1>5, <1>6, Zenon
<1>. QED
  BY <1>4, <1>5, <1>7 DEF u

LEMMA PopIndex ==
  ASSUME NEW s \in Seq(Streams), s # <<>>
  PROVE  /\ Len(s) \in Nat /\ Len(s) >= 1 /\ 1 \in 1..Len(s) /\ Head(s) = s[1]
         /\ Len(Tail(s)) = Len(s) - 1
         /\ \A k \in 1..Len(Tail(s)) : k + 1 \in 1..Len(s) /\ Tail(s)[k] = s[k + 1]
         /\ \A k \in 1..Len(s) :
              k = 1 \/ (k - 1 \in 1..Len(Tail(s)) /\ Tail(s)[k - 1] = s[k])
<1>1. /\ Len(Tail(s)) = Len(s) - 1 /\ Len(s) \in Nat /\ Len(s) >= 1 /\ Head(s) = s[1]
      /\ \A k \in 1..(Len(s) - 1) : Tail(s)[k] = s[k + 1]
  OBVIOUS
<1>2. \A k \in 1..Len(s) : k = 1 \/ (k - 1 \in 1..(Len(s) - 1) /\ (k - 1) + 1 = k)
  BY <1>1
<1>3. \A k \in 1..Len(s) : k = 1 \/ (k - 1 \in 1..(Len(s) - 1) /\ Tail(s)[k - 1] = s[k])
  BY <1>1, <1>2
<1>4. \A k \in 1..Len(Tail(s)) : k + 1 \in 1..Len(s)
  BY <1>1
<1>. QED
  BY <1>1, <1>3, <1>4

\* What an action may take from the streams.
LEMMA StreamFacts ==
  ASSUME Inv
  PROVE  /\ stack \in Seq(Streams) /\ Len(stack) \in Nat
         /\ \A k \in 1..Len(stack) : /\ stack[k].dir \in Dirs /\ stack[k].path \in Seq(Names)
                                     /\ stack[k].must \subseteq Names
         /\ stack # <<>> => top = stack[1] /\ 1 \in 1..Len(stack)
         /\ at # End => at \in AtEntries /\ at.path \in Seq(Names)
         /\ tree \in Trees /\ InitTree \in Trees /\ FSTypeOK
<1>1. stack \in Seq(Streams)
  BY StayFacts
<1>2. \A k \in 1..Len(stack) : stack[k] \in Streams
  BY <1>1
<1>3. /\ Len(stack) \in Nat
      /\ stack # <<>> => top = stack[1] /\ 1 \in 1..Len(stack)
  BY <1>1, PopIndex DEF top
<1>4. at # End => at \in AtEntries /\ at.path \in Seq(Names)
  BY StayFacts DEF AtEntries
<1>5. tree \in Trees /\ InitTree \in Trees /\ FSTypeOK
  BY TreeAssumption DEF Inv, TypeOK, FSTypeOK
<1>6. \A k \in 1..Len(stack) : /\ stack[k].dir \in Dirs /\ stack[k].path \in Seq(Names)
                               /\ stack[k].must \subseteq Names
  BY <1>2 DEF Streams
<1>. QED
  BY <1>1, <1>3, <1>4, <1>5, <1>6

\* A step of scanTarget that leaves the tree and the place alone.
LEMMA IterateKeepsComplete ==
  ASSUME CompleteInv, Iterating \/ pc = "open", UNCHANGED <<fsVars, place, result, report>>,
         seen \subseteq seen', Located', AtOK',
         \A p \in Wanted : Unmarked(stats') /\ ~error' /\ Untouched(p) /\ <<place, p>> \notin seen'
                             => Ahead(p)'
  PROVE  CompleteInv'
<1>1. ReportComplete' /\ RuleComplete'
  BY EarlierKept DEF CompleteInv, Iterating
<1>2. Wanted' = Wanted /\ (\A p : Untouched(p)' <=> Untouched(p)) /\ place' = place
  BY DEF Wanted, fsVars, Untouched
<1>. QED
  BY <1>1, <1>2 DEF CompleteInv, Covered

LEMMA LocatedStays ==
  ASSUME Located, UNCHANGED <<fsVars, place, stack>>
  PROVE  Located'
<1>1. Wanted' = Wanted /\ target' = target /\ (\A p : Untouched(p)' <=> Untouched(p))
  BY DEF Wanted, target, rule, fsVars, Untouched
<1>. QED
  BY <1>1 DEF Located

\* A stream that was just opened on the directory of a path.
LEMMA NewStreamFacts ==
  ASSUME Inv, pc \notin {"rule", "done"}, NEW d \in Dirs, NEW q \in Seq(Names),
         NEW p \in Wanted, Untouched(p), Leads(q, p), d = Home(q)
  PROVE  p[Len(q) + 1] \in Stream(d, q).must
<1>1. p \in Seq(Names) /\ Lstat(InitTree, p) # None
  BY WantedFacts
<1>2. p[Len(q) + 1] \in Names /\ tree[d][p[Len(q) + 1]] # None
  BY <1>1, StreamFacts, LeadsFacts, LeadsToDir
<1>. QED
  BY <1>2 DEF Stream, Entries

-----------------------------------------------------------------------------
(* The actions keep what is complete. *)

LEMMA RuleStepsKeepComplete ==
  ASSUME Inv, CompleteInv, StartRule \/ Available
  PROVE  CompleteInv'
<1>1. \A i, j : Measured(i, j)' <=> Measured(i, j)
  BY DEF StartRule, Available, Measured, fsVars, Untouched
<1>2. CASE StartRule
  <2>1. place[2] = 1 /\ report \in Seq(Results) /\ Len(report) + 1 = place[1] /\ Len(report) \in Nat
    BY <1>2 DEF StartRule, Inv, PlaceOK
  <2>2. CASE pc' = "done" /\ UNCHANGED <<place, result, report>>
    BY <1>1, <2>2 DEF CompleteInv, ReportComplete, RuleComplete, Covered, Iterating
  <2>3. CASE report' = Append(report, NoResult) /\ rule = <<>> /\ UNCHANGED pc
    <3>1. ASSUME NEW i \in 1..Len(report'), Unmarked(report'[i]), NEW j \in DOMAIN Rules[i]
          PROVE  Measured(i, j)
      <4>1. i = place[1] \/ (i \in 1..Len(report) /\ report'[i] = report[i])
        BY <2>1, <2>3
      <4>2. i # place[1]
        BY <2>3, <3>1 DEF rule
      <4>. QED
        BY <3>1, <4>1, <4>2 DEF CompleteInv, ReportComplete
    <3>2. pc' = "rule"
      BY <1>2, <2>3 DEF StartRule
    <3>. QED
      BY <1>1, <3>1, <3>2 DEF CompleteInv, ReportComplete, RuleComplete, Covered, Iterating
  <2>4. CASE pc' = "available" /\ UNCHANGED <<place, report>>
    <3>1. 1..(place'[2] - 1) = {}
      BY <2>1, <2>4
    <3>. QED
      BY <1>1, <2>4, <3>1 DEF CompleteInv, ReportComplete, RuleComplete, Covered, Iterating
  <2>. QED
    BY <1>2, <2>2, <2>3, <2>4 DEF StartRule
<1>3. CASE Available
  <2>1. Unmarked(result') => Unmarked(result)
    BY <1>3 DEF Available, Unmarked, Inv, TypeOK
  <2>2. pc = "available" /\ pc' = "usable" /\ UNCHANGED <<place, report>>
    BY <1>3 DEF Available
  <2>3. ReportComplete' /\ Covered'
    BY <1>1, <2>2 DEF CompleteInv, ReportComplete, Covered, Iterating
  <2>4. RuleComplete'
    <3>1. ASSUME Unmarked(result'), NEW j \in 1..(place[2] - 1) PROVE Measured(place[1], j)
      BY <2>1, <2>2, <3>1 DEF CompleteInv, RuleComplete
    <3>. QED
      BY <1>1, <2>2, <3>1 DEF RuleComplete
  <2>. QED
    BY <2>3, <2>4 DEF CompleteInv
<1>. QED
  BY <1>2, <1>3

LEMMA UsableKeepsComplete ==
  ASSUME Inv, Inv', CompleteInv, Usable
  PROVE  CompleteInv'
<1>1. pc = "usable" /\ UNCHANGED <<fsVars, cancelled, faults, seen, reach, strays>>
  BY DEF Usable
<1>2. CASE pc' = "open" /\ UNCHANGED <<place, result, report>>
  <2>1. ReportComplete' /\ RuleComplete'
    BY <1>1, <1>2, EarlierKept DEF CompleteInv
  <2>. QED
    BY <1>2, <2>1 DEF CompleteInv, Covered, Iterating
<1>3. CASE ~UsableDirectory(target.path) /\ Finish(NoStats)
  <2>1. Measured(place[1], place[2])
    <3>. SUFFICES ASSUME NEW p \in Wanted, Untouched(p) PROVE FALSE
      BY DEF Measured, Wanted
    <3>1. /\ p \in Seq(Names) /\ target.path \in Seq(Names) /\ Leads(target.path, p)
          /\ Lstat(InitTree, p) # None /\ tree \in Trees
      BY <1>1, WantedFacts, StreamFacts
    <3>2. Lstat(tree, target.path) \in Dirs
      <4>1. Len(target.path) >= Len(target.path)
        BY <3>1
      <4>2. Lstat(InitTree, target.path) \in Dirs
        BY <1>1, <3>1, <4>1, WantedWay
      <4>. QED
        BY <3>1, <4>2, LeadsToDir
    <3>. QED
      BY <1>3, <3>2 DEF UsableDirectory
  <2>. QED
    BY <1>1, <1>3, <2>1, FinishKeepsComplete DEF CompleteInv
<1>. QED
  BY <1>2, <1>3 DEF Usable

LEMMA OpenTargetKeepsComplete ==
  ASSUME Inv, CompleteInv, OpenTarget
  PROVE  CompleteInv'
<1>. DEFINE d == Followed(Lstat(tree, target.path))
<1>1. /\ pc = "open" /\ UNCHANGED <<fsVars, place, stats, result, report, seen>>
      /\ target.path \in Seq(Names)
  BY RuleFacts DEF OpenTarget
<1>2. ASSUME NEW p \in Wanted, Untouched(p)
      PROVE  d = Home(target.path) /\ d \in Dirs \ Unreadable
  <2>1. /\ p \in Seq(Names) /\ target.path \in Seq(Names) /\ Leads(target.path, p)
        /\ Lstat(InitTree, p) # None /\ tree \in Trees
    BY <1>1, WantedFacts, StreamFacts
  <2>2. Lstat(tree, target.path) = Lstat(InitTree, target.path)
    BY <1>2, <2>1, LeadsToDir
  <2>3. Len(target.path) >= Len(target.path)
    BY <2>1
  <2>4. Home(target.path) \in Dirs \ Unreadable
    BY <1>1, <2>1, <2>3, WantedWay
  <2>. QED
    BY <2>2, <2>4 DEF Home
<1>3. CASE d \in Unreadable /\ Ended(FALSE)
  BY <1>1, <1>2, <1>3, EndedKeepsComplete
<1>4. CASE Ended(TRUE)
  BY <1>1, <1>4, EndedKeepsComplete
<1>5. CASE /\ d \in Dirs \ Unreadable /\ stack' = <<Stream(d, target.path)>>
           /\ at' = [path |-> target.path, kind |-> "other", pending |-> FALSE]
           /\ pc' = "advance"
  <2>. DEFINE f == Stream(d, target.path)
  <2>1. f.dir = d /\ f.path = target.path
    BY DEF Stream
  <2>2. \A p \in Wanted : Untouched(p) => Leads(target.path, p) /\ p[Len(target.path) + 1] \in f.must
    BY <1>1, <1>2, <1>5, WantedFacts, NewStreamFacts
  <2>. HIDE DEF d, f
  <2>3. stack' = <<f>>
    BY <1>5 DEF f
  <2>4. Len(stack') = 1 /\ stack'[1] = f
    BY <2>3
  <2>5. target' = target /\ Wanted' = Wanted /\ (\A p : Untouched(p)' <=> Untouched(p))
    BY <1>1 DEF target, rule, Wanted, fsVars, Untouched
  <2>6. Located'
    <3>. SUFFICES ASSUME NEW k \in 1..Len(stack')
                  PROVE  /\ Len(stack'[k].path) >= Len(target.path)
                         /\ \A p \in Wanted : Untouched(p) /\ Leads(stack'[k].path, p)
                              => stack'[k].dir = Home(stack'[k].path)
      BY <2>5 DEF Located
    <3>1. stack'[k] = f /\ Len(target.path) \in Nat
      BY <1>1, <2>4
    <3>. QED
      BY <1>2, <2>1, <3>1
  <2>7. AtOK'
    BY <1>5, EndFacts DEF AtOK, AtEntries, End
  <2>8. \A p \in Wanted : Untouched(p) => Ahead(p)'
    <3>. SUFFICES ASSUME NEW p \in Wanted, Untouched(p) PROVE Ahead(p)'
      OBVIOUS
    <3>1. 1 \in 1..Len(stack')
      BY <2>4
    <3>. QED
      BY <2>1, <2>2, <2>4, <3>1 DEF Ahead
  <2>. QED
    BY <1>1, <2>6, <2>7, <2>8, IterateKeepsComplete
<1>. QED
  BY <1>3, <1>4, <1>5 DEF OpenTarget, Errs

LEMMA LoopKeepsComplete ==
  ASSUME Inv, Inv', CompleteInv, EndOfTarget \/ CutShort \/ PassOver \/ Consider
  PROVE  CompleteInv'
<1>0. /\ pc = "loop" /\ UNCHANGED <<fsVars, cancelled, faults, seen, reach, strays>>
      /\ Located /\ AtOK /\ stats \in AllStats
      /\ Unmarked(stats) /\ ~error =>
           \A p \in Wanted : <<place, p>> \in seen \/ ~Untouched(p) \/ Ahead(p)
  BY StayFacts DEF CompleteInv, Covered, Iterating, EndOfTarget, CutShort, PassOver, Consider,
     AtEntry
<1>1. place = <<place[1], place[2]>>
  BY DEF Inv, TypeOK
<1>2. CASE EndOfTarget
  <2>. DEFINE s == IF error THEN [stats EXCEPT !.inaccessible = @ + 1] ELSE stats
  <2>1. Finish(s) /\ at = End /\ stack = <<>>
    BY <1>0, <1>2 DEF EndOfTarget, AtOK
  <2>2. s \in AllStats
    BY <1>0 DEF AllStats
  <2>3. ASSUME Unmarked(s) PROVE Measured(place[1], place[2])
    <3>1. ~error
      <4>. SUFFICES ASSUME error PROVE FALSE
        OBVIOUS
      <4>1. s.inaccessible = stats.inaccessible + 1 /\ stats.inaccessible \in Nat
        BY <1>0 DEF AllStats
      <4>. QED
        BY <2>3, <4>1 DEF Unmarked
    <3>2. Unmarked(stats)
      BY <2>3, <3>1
    <3>. SUFFICES ASSUME NEW p \in Wanted, <<place, p>> \notin seen, Untouched(p) PROVE FALSE
      BY <1>1 DEF Measured, Wanted
    <3>3. Ahead(p)
      BY <1>0, <3>1, <3>2
    <3>4. at.path = p
      <4>1. 1..Len(stack) = {}
        BY <2>1
      <4>. QED
        BY <2>1, <3>3, <4>1, EndFacts DEF Ahead
    <3>5. p # <<>>
      <4>1. p \in Seq(Names) /\ target.path \in Seq(Names) /\ Leads(target.path, p)
        BY <1>0, WantedFacts
      <4>2. Len(target.path) \in Nat /\ Len(target.path) < Len(p)
        BY <4>1 DEF Leads
      <4>3. Len(p) # 0
        BY <4>2
      <4>. QED
        BY <4>3
    <3>. QED
      BY <2>1, <3>4, <3>5, EndFacts
  <2>. HIDE DEF s
  <2>. QED
    BY <1>0, <2>1, <2>2, <2>3, FinishKeepsComplete DEF CompleteInv
<1>3. CASE CutShort
  <2>. DEFINE s == [stats EXCEPT !.truncated = TRUE]
  <2>1. Finish(s) /\ s \in AllStats /\ ~Unmarked(s)
    BY <1>0, <1>3 DEF CutShort, AllStats, Unmarked
  <2>. HIDE DEF s
  <2>. QED
    BY <1>0, <2>1, FinishKeepsComplete DEF CompleteInv
<1>4. CASE PassOver
  <2>1. /\ IsExcluded(at.path) /\ at # End /\ at' = [at EXCEPT !.pending = FALSE]
        /\ pc' = "increment" /\ UNCHANGED <<place, stack, error, stats, result, report>>
    BY <1>4 DEF PassOver, AtEntry
  <2>2. at \in AtEntries /\ at'.path = at.path /\ at' \in AtEntries
    BY <2>1, StreamFacts DEF AtEntries
  <2>3. Located'
    BY <1>0, <2>1, LocatedStays
  <2>4. AtOK'
    <3>1. PICK n \in Names : at.path = Append(top.path, n)
      BY <1>0, <2>1 DEF AtOK
    <3>2. top' = top /\ at' # End
      BY <2>1, <2>2, EndFacts DEF top
    <3>. QED
      BY <2>2, <3>1, <3>2 DEF AtOK
  <2>5. ASSUME NEW p \in Wanted, Ahead(p) PROVE Ahead(p)'
    <3>1. at.path # p /\ ~Leads(at.path, p)
      BY <1>0, <2>1, WantedFacts
    <3>. QED
      BY <2>1, <2>5, <3>1 DEF Ahead
  <2>. QED
    BY <1>0, <2>1, <2>3, <2>4, <2>5, IterateKeepsComplete DEF Iterating
<1>5. CASE Consider
  <2>1. /\ at # End /\ pc' = "measure"
        /\ UNCHANGED <<at, place, stack, error, stats, result, report>>
    BY <1>5 DEF Consider, AtEntry
  <2>2. Located'
    BY <1>0, <2>1, LocatedStays
  <2>3. AtOK'
    BY <1>0, <2>1 DEF AtOK, top
  <2>4. ASSUME NEW p \in Wanted, Ahead(p) PROVE Ahead(p)'
    BY <1>0, <2>1, <2>4 DEF Ahead
  <2>. QED
    BY <1>0, <2>1, <2>2, <2>3, <2>4, IterateKeepsComplete DEF Iterating
<1>. QED
  BY <1>2, <1>3, <1>4, <1>5

LEMMA MeasureKeepsComplete ==
  ASSUME Inv, CompleteInv, Measure
  PROVE  CompleteInv'
<1>0. /\ pc = "measure" /\ pc' = "recheck" /\ stats \in AllStats
      /\ UNCHANGED <<fsVars, place, stack, at, error, result, report>>
      /\ Located /\ AtOK /\ at # End /\ seen \subseteq seen'
      /\ Unmarked(stats) /\ ~error =>
           \A p \in Wanted : <<place, p>> \in seen \/ ~Untouched(p) \/ Ahead(p)
  BY StayFacts DEF CompleteInv, Covered, Iterating, Measure, Inv, TypeOK
<1>1. Located'
  BY <1>0, LocatedStays
<1>2. AtOK'
  BY <1>0 DEF AtOK, top
<1>3. ASSUME NEW p \in Wanted, Unmarked(stats'), ~error', Untouched(p), <<place, p>> \notin seen'
      PROVE  Ahead(p)'
  <2>1. Unmarked(stats) /\ <<place, at.path>> \in seen'
    <3>1. CASE /\ stats' = [stats EXCEPT !.items = @ + 1]
               /\ seen' = seen \cup {<<place, at.path>>}
      BY <1>0, <1>3, <3>1 DEF AllStats, Unmarked
    <3>2. CASE stats' = [stats EXCEPT !.inaccessible = @ + 1]
      <4>1. stats'.inaccessible = stats.inaccessible + 1 /\ stats.inaccessible \in Nat
        BY <1>0, <3>2 DEF AllStats
      <4>. QED
        BY <1>3, <4>1 DEF Unmarked
    <3>. QED
      BY <3>1, <3>2 DEF Measure
  <2>2. Ahead(p) /\ at.path # p
    BY <1>0, <1>3, <2>1
  <2>. QED
    BY <1>0, <2>2 DEF Ahead
<1>. QED
  BY <1>0, <1>1, <1>2, <1>3, IterateKeepsComplete DEF Iterating

\* What is a link by now does not lead to a path that nobody touched.
LEMMA RecheckKeepsComplete ==
  ASSUME Inv, CompleteInv, Recheck
  PROVE  CompleteInv'
<1>. DEFINE q == at.path
            z == at.pending /\ Lstat(tree, q) \notin Links
<1>0. /\ pc = "recheck" /\ pc' = "increment" /\ at \in AtEntries /\ q \in Seq(Names)
      /\ UNCHANGED <<fsVars, place, stack, error, stats, result, report, seen>>
      /\ Located /\ AtOK /\ at # End /\ stack # <<>>
      /\ Unmarked(stats) /\ ~error =>
           \A p \in Wanted : <<place, p>> \in seen \/ ~Untouched(p) \/ Ahead(p)
      /\ at' = [at EXCEPT !.pending = z] \/ at' = at
  BY StreamFacts DEF CompleteInv, Covered, Iterating, Recheck, Inv, TypeOK
<1>1. at' \in AtEntries /\ at'.path = q /\ at' # End /\ at'.pending \in {at.pending, z}
  <2>1. z \in BOOLEAN
    BY <1>0 DEF AtEntries
  <2>. HIDE DEF z
  <2>. QED
    BY <1>0, <2>1, EndFacts DEF AtEntries
<1>2. Located'
  BY <1>0, LocatedStays
<1>3. AtOK'
  <2>1. top' = top
    BY <1>0 DEF top
  <2>. QED
    BY <1>0, <1>1, <2>1 DEF AtOK
<1>4. ASSUME NEW p \in Wanted, Untouched(p), Leads(q, p) PROVE Lstat(tree, q) \notin Links
  <2>1. PICK n \in Names : q = Append(top.path, n)
    BY <1>0 DEF AtOK
  <2>2. Len(q) >= Len(target.path) /\ Len(q) \in Nat \ {0}
    <3>1. top = stack[1] /\ 1 \in 1..Len(stack) /\ top.path \in Seq(Names)
      BY <1>0, StreamFacts
    <3>2. Len(top.path) >= Len(target.path) /\ Len(q) = Len(top.path) + 1
      BY <1>0, <2>1, <3>1 DEF Located
    <3>3. Len(target.path) \in Nat /\ Len(top.path) \in Nat
      BY <1>0, <3>1, RuleFacts
    <3>. QED
      BY <3>2, <3>3
  <2>3. p \in Seq(Names) /\ Lstat(InitTree, q) \in Dirs
    BY <1>0, <1>4, <2>2, WantedFacts, WantedWay
  <2>4. Len(q) \in 1..Len(p) /\ SubSeq(p, 1, Len(q)) = q
    <3>1. Len(p) \in Nat /\ Len(q) < Len(p) /\ q = SubSeq(p, 1, Len(q))
      BY <1>4, <2>3 DEF Leads
    <3>. QED
      BY <2>2, <3>1
  <2>5. Lstat(tree, q) = Lstat(InitTree, q)
    BY <1>4, <2>4 DEF Untouched
  <2>. QED
    BY <2>3, <2>5, TreeAssumption
<1>5. ASSUME NEW p \in Wanted, Untouched(p), Ahead(p) PROVE Ahead(p)'
  <2>1. CASE \E k \in 1..Len(stack) :
               Leads(stack[k].path, p) /\ p[Len(stack[k].path) + 1] \in stack[k].must
    BY <1>0, <2>1 DEF Ahead
  <2>2. CASE Leads(q, p) /\ at.pending
    <3>1. at'.pending /\ at'.path = q
      BY <1>1, <1>4, <1>5, <2>2
    <3>. QED
      BY <1>0, <2>2, <3>1 DEF Ahead
  <2>. QED
    BY <1>0, <1>5, <2>1, <2>2 DEF Ahead
<1>. QED
  BY <1>0, <1>2, <1>3, <1>5, IterateKeepsComplete DEF Iterating

LEMMA DescendKeepsComplete ==
  ASSUME Inv, CompleteInv, Descend
  PROVE  CompleteInv'
<1>. DEFINE d == Opened(tree[top.dir][Last(at.path)])
            q == at.path
<1>0. /\ pc = "increment" /\ at # End /\ stack # <<>>
      /\ UNCHANGED <<fsVars, place, stats, result, report, seen>>
      /\ Located /\ AtOK
      /\ Unmarked(stats) /\ ~error =>
           \A p \in Wanted : <<place, p>> \in seen \/ ~Untouched(p) \/ Ahead(p)
      /\ q \in Seq(Names) /\ target.path \in Seq(Names)
      /\ stack \in Seq(Streams) /\ top = stack[1] /\ 1 \in 1..Len(stack)
      /\ top.path \in Seq(Names) /\ Len(stack) \in Nat
  BY StreamFacts, RuleFacts DEF CompleteInv, Covered, Iterating, Descend, Inv, TypeOK
<1>1. PICK n \in Names : q = Append(top.path, n)
  BY <1>0 DEF AtOK
<1>2. /\ Last(q) = n /\ Len(q) = Len(top.path) + 1 /\ Len(top.path) \in Nat
      /\ Len(top.path) >= Len(target.path) /\ Len(target.path) \in Nat
  <2>1. Len(q) = Len(top.path) + 1 /\ q[Len(q)] = n /\ Len(top.path) \in Nat
    BY <1>0, <1>1
  <2>. QED
    BY <1>0, <2>1 DEF Last, Located
<1>3. ASSUME NEW p \in Wanted, Untouched(p), Leads(q, p)
      PROVE  /\ d = Home(q) /\ d \in Dirs \ Unreadable
             /\ p \in Seq(Names) /\ Lstat(InitTree, p) # None
  <2>1. /\ p \in Seq(Names) /\ Lstat(InitTree, p) # None /\ tree \in Trees
    BY <1>0, WantedFacts, StreamFacts
  <2>2. /\ Len(q) \in 0..(Len(p) - 1) /\ q = SubSeq(p, 1, Len(q)) /\ Len(p) \in Nat
    BY <1>0, <1>3, <2>1, LeadsFacts DEF Leads
  <2>3. Leads(top.path, p) /\ p[Len(top.path) + 1] = n
    <3>1. Len(top.path) \in 0..(Len(p) - 1) /\ Len(top.path) \in 0..(Len(q) - 1)
      BY <1>2, <2>2
    <3>2. SubSeq(q, 1, Len(top.path)) = top.path
      BY <1>0, <1>1
    <3>3. SubSeq(q, 1, Len(top.path)) = SubSeq(p, 1, Len(top.path))
      <4>. DEFINE m == Len(q)
      <4>1. SubSeq(SubSeq(p, 1, m), 1, Len(top.path)) = SubSeq(p, 1, Len(top.path))
        BY <1>2, <2>1, <2>2
      <4>. QED
        BY <2>2, <4>1
    <3>4. Leads(top.path, p)
      BY <1>2, <2>2, <3>1, <3>2, <3>3 DEF Leads
    <3>5. q[Len(q)] = n
      BY <1>0, <1>1
    <3>6. SubSeq(p, 1, Len(q))[Len(q)] = p[Len(q)]
      BY <1>2, <2>1, <2>2
    <3>. QED
      BY <1>2, <2>2, <3>4, <3>5, <3>6
  <2>4. top.dir = Home(top.path)
    BY <1>0, <1>3, <2>3 DEF Located
  <2>5. /\ tree[top.dir][n] = Way(InitTree, p, Len(q))
    <3>1. tree[Home(top.path)][p[Len(top.path) + 1]]
            = Way(InitTree, p, Len(top.path) + 1)
      BY <1>0, <1>3, <2>1, <2>3, LeadsToDir
    <3>. QED
      BY <1>2, <2>3, <2>4, <3>1
  <2>6. /\ Home(q) = Way(InitTree, p, Len(q)) /\ Home(q) \in Dirs \ Unreadable
    <3>1. Len(q) >= Len(target.path)
      BY <1>2
    <3>. QED
      BY <1>0, <1>3, <3>1, WantedWay
  <2>. QED
    BY <1>2, <2>1, <2>5, <2>6 DEF Opened
<1>4. CASE /\ ~at.pending \/ d \in Unreadable
           /\ pc' = "advance" /\ UNCHANGED <<stack, at, error>>
  <2>1. Located'
    BY <1>0, <1>4, LocatedStays
  <2>2. AtOK'
    BY <1>0, <1>4 DEF AtOK
  <2>3. ASSUME NEW p \in Wanted, Untouched(p), Ahead(p) PROVE Ahead(p)'
    <3>1. ~(Leads(at.path, p) /\ at.pending)
      BY <1>3, <1>4, <2>3
    <3>. QED
      BY <1>0, <1>4, <2>3, <3>1 DEF Ahead
  <2>. QED
    BY <1>0, <1>4, <2>1, <2>2, <2>3, IterateKeepsComplete DEF Iterating
<1>5. CASE Ended(TRUE)
  BY <1>0, <1>5, EndedKeepsComplete
<1>6. CASE /\ d \in Dirs \ Unreadable /\ stack' = <<Stream(d, q)>> \o stack
           /\ pc' = "advance" /\ UNCHANGED <<at, error>>
  <2>. DEFINE f == Stream(d, q)
  <2>1. f \in Streams /\ f.dir = d /\ f.path = q
    BY <1>0, <1>6 DEF Stream, Streams, Entries
  <2>2. \A p \in Wanted : Untouched(p) /\ Leads(q, p) => p[Len(q) + 1] \in f.must
    BY <1>0, <1>3, <1>6, NewStreamFacts
  <2>3. stack' = <<f>> \o stack
    BY <1>6
  <2>. HIDE DEF d, f
  <2>4. /\ Len(stack') = Len(stack) + 1 /\ stack'[1] = f
        /\ \A k \in 1..Len(stack') : k = 1 \/ (k - 1 \in 1..Len(stack) /\ stack'[k] = stack[k - 1])
        /\ \A k \in 1..Len(stack) : k + 1 \in 1..Len(stack') /\ stack'[k + 1] = stack[k]
    BY <1>0, <2>1, <2>3, PushIndex
  <2>5. target' = target /\ Wanted' = Wanted /\ (\A p : Untouched(p)' <=> Untouched(p))
    BY <1>0 DEF target, rule, Wanted, fsVars, Untouched
  <2>6. Located'
    <3>. SUFFICES ASSUME NEW k \in 1..Len(stack')
                  PROVE  /\ Len(stack'[k].path) >= Len(target.path)
                         /\ \A p \in Wanted : Untouched(p) /\ Leads(stack'[k].path, p)
                              => stack'[k].dir = Home(stack'[k].path)
      BY <2>5 DEF Located
    <3>1. CASE stack'[k] = f
      <4>1. Len(q) >= Len(target.path)
        BY <1>2
      <4>. QED
        BY <1>3, <2>1, <3>1, <4>1
    <3>2. CASE k - 1 \in 1..Len(stack) /\ stack'[k] = stack[k - 1]
      BY <1>0, <3>2 DEF Located
    <3>. QED
      BY <2>4, <3>1, <3>2
  <2>7. AtOK'
    BY <1>0, <1>6 DEF AtOK
  <2>8. ASSUME NEW p \in Wanted, Untouched(p), Ahead(p) PROVE Ahead(p)'
    <3>1. CASE Leads(q, p)
      <4>1. 1 \in 1..Len(stack')
        BY <1>0, <2>4
      <4>. QED
        BY <2>1, <2>2, <2>4, <2>8, <3>1, <4>1 DEF Ahead
    <3>2. CASE ~Leads(q, p)
      <4>1. PICK k \in 1..Len(stack) :
              Leads(stack[k].path, p) /\ p[Len(stack[k].path) + 1] \in stack[k].must
        BY <1>0, <2>8, <3>2 DEF Ahead
      <4>2. k + 1 \in 1..Len(stack') /\ stack'[k + 1] = stack[k]
        BY <2>4
      <4>. QED
        BY <4>1, <4>2 DEF Ahead
    <3>. QED
      BY <3>1, <3>2
  <2>. QED
    BY <1>0, <1>6, <2>6, <2>7, <2>8, IterateKeepsComplete DEF Iterating
<1>. QED
  BY <1>4, <1>5, <1>6 DEF Descend, Errs

LEMMA NextEntryKeepsComplete ==
  ASSUME Inv, CompleteInv, NEW n \in Names, NextEntry(n)
  PROVE  CompleteInv'
<1>. DEFINE f == [top EXCEPT !.must = @ \ {n}, !.may = @ \ {n}]
<1>0. /\ pc = "advance" /\ pc' = "loop" /\ at # End /\ stack # <<>>
      /\ UNCHANGED <<fsVars, place, error, stats, result, report, seen>>
      /\ stack' = <<f>> \o Tail(stack)
      /\ Located /\ AtOK
      /\ Unmarked(stats) /\ ~error =>
           \A p \in Wanted : <<place, p>> \in seen \/ ~Untouched(p) \/ Ahead(p)
      /\ stack \in Seq(Streams) /\ top = stack[1] /\ 1 \in 1..Len(stack)
      /\ top.path \in Seq(Names) /\ Len(stack) \in Nat
  BY StreamFacts DEF CompleteInv, Covered, Iterating, NextEntry, Inv, TypeOK
<1>1. PICK kind \in Kinds :
        /\ tree[top.dir][n] # None => (kind = "dir" <=> tree[top.dir][n] \in Dirs)
        /\ at' = [path |-> Append(top.path, n), kind |-> kind, pending |-> kind = "dir"]
  BY DEF NextEntry
<1>2. f \in Streams /\ f.dir = top.dir /\ f.path = top.path /\ f.must = top.must \ {n}
  <2>1. top \in Streams
    BY <1>0
  <2>. QED
    BY <2>1 DEF Streams
<1>. HIDE DEF f
<1>3. /\ Len(stack') = Len(stack) /\ stack'[1] = f
      /\ \A k \in 2..Len(stack) : stack'[k] = stack[k]
  BY <1>0, <1>2, TopIndex
<1>4. \A k \in 1..Len(stack') : /\ stack'[k].dir = stack[k].dir /\ stack'[k].path = stack[k].path
                                /\ k # 1 => stack'[k].must = stack[k].must
  <2>. SUFFICES ASSUME NEW k \in 1..Len(stack')
                PROVE  /\ stack'[k].dir = stack[k].dir /\ stack'[k].path = stack[k].path
                       /\ k # 1 => stack'[k].must = stack[k].must
    OBVIOUS
  <2>1. k = 1 \/ k \in 2..Len(stack)
    BY <1>0, <1>3
  <2>. QED
    BY <1>0, <1>2, <1>3, <2>1
<1>5. target' = target /\ Wanted' = Wanted /\ (\A p : Untouched(p)' <=> Untouched(p))
  BY <1>0 DEF target, rule, Wanted, fsVars, Untouched
<1>6. Located'
  BY <1>0, <1>3, <1>4, <1>5 DEF Located
<1>7. AtOK'
  <2>1. stack' # <<>> /\ top' = f
    <3>1. Tail(stack) \in Seq(Streams)
      BY <1>0
    <3>. QED
      BY <1>0, <1>2, <3>1 DEF top
  <2>2. Append(top.path, n) \in Seq(Names)
    BY <1>0
  <2>3. at' \in AtEntries /\ at'.path = Append(top.path, n)
    BY <1>1, <2>2 DEF AtEntries
  <2>. QED
    BY <1>2, <2>1, <2>3, EndFacts DEF AtOK
<1>8. ASSUME NEW p \in Wanted, Untouched(p), Ahead(p) PROVE Ahead(p)'
  <2>1. PICK k \in 1..Len(stack) :
          Leads(stack[k].path, p) /\ p[Len(stack[k].path) + 1] \in stack[k].must
    BY <1>0, <1>8 DEF Ahead
  <2>2. CASE p[Len(stack[k].path) + 1] \in stack'[k].must
    BY <1>3, <1>4, <2>1, <2>2 DEF Ahead
  <2>3. CASE p[Len(stack[k].path) + 1] \notin stack'[k].must
    <3>1. k = 1 /\ Leads(top.path, p) /\ p[Len(top.path) + 1] = n
      BY <1>0, <1>2, <1>3, <1>4, <2>1, <2>3
    <3>2. /\ p \in Seq(Names) /\ Lstat(InitTree, p) # None /\ tree \in Trees
      BY <1>0, WantedFacts, StreamFacts
    <3>3. Append(top.path, n) = p \/ Leads(Append(top.path, n), p)
      BY <1>0, <3>1, <3>2, LeadsFacts
    <3>4. CASE Append(top.path, n) = p
      BY <1>0, <1>1, <3>4 DEF Ahead
    <3>5. CASE Leads(Append(top.path, n), p)
      <4>1. top.dir = Home(top.path)
        BY <1>0, <1>8, <3>1 DEF Located
      <4>2. tree[top.dir][n] \in Dirs
        <5>1. /\ Append(top.path, n) \in Seq(Names) /\ Len(Append(top.path, n)) = Len(top.path) + 1
              /\ Len(top.path) \in Nat /\ target.path \in Seq(Names)
              /\ Len(top.path) >= Len(target.path)
          BY <1>0, RuleFacts DEF Located
        <5>2. Len(Append(top.path, n)) >= Len(target.path)
          BY <5>1
        <5>3. Way(InitTree, p, Len(Append(top.path, n))) \in Dirs
          BY <1>0, <3>5, <5>1, <5>2, WantedWay
        <5>4. tree[top.dir][n] = Way(InitTree, p, Len(top.path) + 1)
          BY <1>0, <1>8, <3>1, <3>2, <4>1, LeadsToDir
        <5>. QED
          BY <5>1, <5>3, <5>4
      <4>3. kind = "dir"
        BY <1>1, <4>2, TreeAssumption DEF Nodes
      <4>. QED
        BY <1>0, <1>1, <3>5, <4>3 DEF Ahead
    <3>. QED
      BY <3>3, <3>4, <3>5
  <2>. QED
    BY <2>2, <2>3
<1>. QED
  BY <1>0, <1>6, <1>7, <1>8, IterateKeepsComplete DEF Iterating

LEMMA EndOfStreamKeepsComplete ==
  ASSUME Inv, CompleteInv, EndOfStream
  PROVE  CompleteInv'
<1>0. /\ pc = "advance" /\ at # End /\ stack # <<>>
      /\ UNCHANGED <<fsVars, place, stats, result, report, seen>>
      /\ Located /\ AtOK
      /\ Unmarked(stats) /\ ~error =>
           \A p \in Wanted : <<place, p>> \in seen \/ ~Untouched(p) \/ Ahead(p)
      /\ stack \in Seq(Streams) /\ top = stack[1] /\ 1 \in 1..Len(stack) /\ Len(stack) \in Nat
      /\ ~error
  BY StreamFacts, StayFacts DEF CompleteInv, Covered, Iterating, EndOfStream, Inv, TypeOK
<1>1. ASSUME top.must = {}, NEW p \in Wanted, Ahead(p)
      PROVE  \E k \in 2..Len(stack) :
               Leads(stack[k].path, p) /\ p[Len(stack[k].path) + 1] \in stack[k].must
  <2>1. PICK k \in 1..Len(stack) :
          Leads(stack[k].path, p) /\ p[Len(stack[k].path) + 1] \in stack[k].must
    BY <1>0, <1>1 DEF Ahead
  <2>2. k # 1
    BY <1>0, <1>1, <2>1
  <2>3. k \in 2..Len(stack)
    BY <1>0, <2>2
  <2>. QED
    BY <2>1, <2>3
<1>2. CASE top.must = {} /\ Len(stack) > 1 /\ stack' = Tail(stack) /\ UNCHANGED <<pc, at, error>>
  <2>1. /\ Len(stack') = Len(stack) - 1
        /\ \A k \in 1..Len(stack') : k + 1 \in 1..Len(stack) /\ stack'[k] = stack[k + 1]
        /\ \A k \in 1..Len(stack) : k = 1 \/ (k - 1 \in 1..Len(stack') /\ stack'[k - 1] = stack[k])
    BY <1>0, <1>2, PopIndex
  <2>2. target' = target /\ Wanted' = Wanted /\ (\A p : Untouched(p)' <=> Untouched(p))
    BY <1>0 DEF target, rule, Wanted, fsVars, Untouched
  <2>3. Located'
    <3>. SUFFICES ASSUME NEW k \in 1..Len(stack')
                  PROVE  /\ Len(stack'[k].path) >= Len(target.path)
                         /\ \A p \in Wanted : Untouched(p) /\ Leads(stack'[k].path, p)
                              => stack'[k].dir = Home(stack'[k].path)
      BY <2>2 DEF Located
    <3>1. k + 1 \in 1..Len(stack) /\ stack'[k] = stack[k + 1]
      BY <2>1
    <3>. QED
      BY <1>0, <3>1 DEF Located
  <2>4. AtOK'
    BY <1>0, <1>2 DEF AtOK
  <2>5. ASSUME NEW p \in Wanted, Ahead(p) PROVE Ahead(p)'
    <3>1. PICK k \in 2..Len(stack) :
            Leads(stack[k].path, p) /\ p[Len(stack[k].path) + 1] \in stack[k].must
      BY <1>1, <1>2, <2>5
    <3>2. k - 1 \in 1..Len(stack') /\ stack'[k - 1] = stack[k]
      <4>1. k \in 1..Len(stack) /\ k # 1
        OBVIOUS
      <4>. QED
        BY <2>1, <4>1
    <3>. QED
      BY <3>1, <3>2 DEF Ahead
  <2>. QED
    BY <1>0, <1>2, <2>3, <2>4, <2>5, IterateKeepsComplete DEF Iterating
<1>3. CASE top.must = {} /\ Len(stack) = 1 /\ Ended(FALSE)
  <2>1. ReportComplete' /\ RuleComplete'
    BY <1>0, EarlierKept DEF CompleteInv
  <2>2. 2..Len(stack) = {}
    BY <1>3
  <2>3. Unmarked(stats) => \A p \in Wanted : <<place, p>> \in seen \/ ~Untouched(p)
    BY <1>0, <1>1, <1>3, <2>2
  <2>4. stack' = <<>> /\ at' = End /\ pc' = "loop" /\ Wanted' = Wanted
        /\ (\A p : Untouched(p)' <=> Untouched(p))
    BY <1>0, <1>3 DEF Ended, Wanted, fsVars, Untouched
  <2>5. Located' /\ AtOK'
    BY <2>4 DEF Located, AtOK
  <2>. QED
    BY <1>0, <2>1, <2>3, <2>4, <2>5 DEF CompleteInv, Covered
<1>4. CASE Ended(TRUE)
  BY <1>0, <1>4, EndedKeepsComplete
<1>. QED
  BY <1>2, <1>3, <1>4 DEF EndOfStream

LEMMA ScanKeepsComplete == Inv /\ Inv' /\ CompleteInv /\ Scan => CompleteInv'
  BY RuleStepsKeepComplete, UsableKeepsComplete, OpenTargetKeepsComplete, LoopKeepsComplete,
     MeasureKeepsComplete, RecheckKeepsComplete, DescendKeepsComplete, NextEntryKeepsComplete,
     EndOfStreamKeepsComplete DEF Scan

\* Other processes: a name that a stream no longer has to return is one they
\* changed.
LEMMA InterfereKeepsComplete ==
  ASSUME Inv, Inv', CompleteInv, Interfere
  PROVE  CompleteInv'
<1>0. /\ Applications /\ UNCHANGED <<pc, place, at, error, stats, result, report, seen>>
      /\ FSTypeOK /\ FSTypeOK' /\ tree \in Trees /\ tree' \in Trees
      /\ stack \in Seq(Streams) /\ Len(stack) \in Nat
  BY StreamFacts DEF Interfere, Inv, TypeOK, FSTypeOK
<1>1. ASSUME NEW p \in Seq(Names), Lstat(InitTree, p) # None, Untouched(p)'
      PROVE  Untouched(p)
  BY <1>0, <1>1, UntouchedBefore
<1>2. ASSUME NEW i \in 1..Len(Rules), NEW j \in 1..Len(Rules[i]), Measured(i, j)
      PROVE  Measured(i, j)'
  <2>. SUFFICES ASSUME NEW p \in Visible[i][j], Untouched(p)' PROVE <<<<i, j>>, p>> \in seen
    BY <1>0 DEF Measured
  <2>1. Untouched(p)
    BY <1>1, VisibleFacts
  <2>. QED
    BY <1>2, <2>1 DEF Measured
<1>3. Rules \in Seq(Seq(Targets)) /\ Len(report) <= Len(Rules) /\ Len(Rules) \in Nat
      /\ report \in Seq(Results)
  <2>1. Rules \in Seq(Seq(Targets))
    BY ScanAssumption DEF Targets
  <2>. QED
    BY <2>1 DEF Inv, TypeOK
<1>4. ReportComplete'
  <2>. SUFFICES ASSUME NEW i \in 1..Len(report), Unmarked(report[i]), NEW j \in DOMAIN Rules[i]
                PROVE  Measured(i, j)'
    BY <1>0 DEF ReportComplete
  <2>1. i \in 1..Len(Rules)
    BY <1>3
  <2>2. DOMAIN Rules[i] = 1..Len(Rules[i])
    BY <1>3, <2>1
  <2>. QED
    BY <1>2, <2>1, <2>2 DEF CompleteInv, ReportComplete
<1>5. RuleComplete'
  <2>. SUFFICES ASSUME pc \notin {"rule", "done"}, Unmarked(result), NEW j \in 1..(place[2] - 1)
                PROVE  Measured(place[1], j)'
    BY <1>0 DEF RuleComplete
  <2>1. place[1] \in 1..Len(Rules) /\ place[2] \in 1..Len(Rules[place[1]])
        /\ Len(Rules[place[1]]) \in Nat
    BY RuleFacts DEF rule
  <2>2. j \in 1..Len(Rules[place[1]])
    BY <2>1
  <2>3. Measured(place[1], j)
    BY DEF CompleteInv, RuleComplete
  <2>. QED
    BY <1>0, <1>2, <2>1, <2>2, <2>3
<1>6. /\ Len(stack') = Len(stack)
      /\ \A k \in 1..Len(stack) :
           /\ stack'[k].dir = stack[k].dir /\ stack'[k].path = stack[k].path
           /\ stack'[k].must = stack[k].must
                \ {n \in Names : tree'[stack[k].dir][n] # tree[stack[k].dir][n]}
  <2>1. stack' = [k \in 1..Len(stack) |-> Watch(stack[k])]
    BY <1>0 DEF Interfere
  <2>2. ASSUME NEW f \in Streams
        PROVE  /\ Watch(f).dir = f.dir /\ Watch(f).path = f.path
               /\ Watch(f).must = f.must \ {n \in Names : tree'[f.dir][n] # tree[f.dir][n]}
    BY DEF Watch, Streams
  <2>3. \A k \in 1..Len(stack) : stack[k] \in Streams
    BY <1>0
  <2>. QED
    BY <1>0, <2>1, <2>2, <2>3
<1>7. target' = target /\ Wanted' = Wanted /\ (Iterating' <=> Iterating)
  BY <1>0 DEF target, rule, Wanted, Iterating
<1>8. ASSUME Iterating
      PROVE  /\ Located' /\ AtOK'
             /\ Unmarked(stats) /\ ~error =>
                  \A p \in Wanted : <<place, p>> \in seen \/ ~Untouched(p)' \/ Ahead(p)'
  <2>0. /\ pc \notin {"rule", "done"} /\ Located /\ AtOK
        /\ Unmarked(stats) /\ ~error =>
             \A p \in Wanted : <<place, p>> \in seen \/ ~Untouched(p) \/ Ahead(p)
    BY <1>8 DEF Iterating, CompleteInv, Covered
  <2>1. ASSUME NEW p \in Wanted, Untouched(p)'
        PROVE  Untouched(p) /\ p \in Seq(Names) /\ Lstat(InitTree, p) # None
    BY <1>1, <2>0, <2>1, WantedFacts
  <2>2. Located'
    <3>. SUFFICES ASSUME NEW k \in 1..Len(stack')
                  PROVE  /\ Len(stack'[k].path) >= Len(target.path)
                         /\ \A p \in Wanted : Untouched(p)' /\ Leads(stack'[k].path, p)
                              => stack'[k].dir = Home(stack'[k].path)
      BY <1>7 DEF Located
    <3>1. k \in 1..Len(stack) /\ stack'[k].dir = stack[k].dir /\ stack'[k].path = stack[k].path
      BY <1>6
    <3>. QED
      BY <2>0, <2>1, <3>1 DEF Located
  <2>3. AtOK'
    <3>1. stack = <<>> => stack' = <<>>
      <4>1. stack' \in Seq(Streams)
        BY DEF Inv, TypeOK, Streams
      <4>. QED
        BY <1>0, <1>6, <4>1
    <3>2. at # End => top'.path = top.path
      <4>. SUFFICES ASSUME at # End PROVE top'.path = top.path
        OBVIOUS
      <4>1. stack # <<>> /\ stack' # <<>>
        BY <1>0 DEF Inv, IteratorOK
      <4>2. top = stack[1] /\ top' = stack'[1] /\ 1 \in 1..Len(stack)
        <5>1. stack' \in Seq(Streams)
          BY DEF Inv, TypeOK, Streams
        <5>. QED
          BY <1>0, <4>1, <5>1, PopIndex DEF top
      <4>. QED
        BY <1>6, <4>2
    <3>. QED
      BY <1>0, <2>0, <3>1, <3>2 DEF AtOK
  <2>4. ASSUME NEW p \in Wanted, Untouched(p)', Ahead(p) PROVE Ahead(p)'
    <3>0. Untouched(p) /\ p \in Seq(Names) /\ Lstat(InitTree, p) # None
      BY <2>1, <2>4
    <3>1. CASE \E k \in 1..Len(stack) :
                 Leads(stack[k].path, p) /\ p[Len(stack[k].path) + 1] \in stack[k].must
      <4>1. PICK k \in 1..Len(stack) :
              Leads(stack[k].path, p) /\ p[Len(stack[k].path) + 1] \in stack[k].must
        BY <3>1
      <4>. DEFINE q == stack[k].path
                  n == p[Len(q) + 1]
                  d == Home(q)
      <4>2. q \in Seq(Names) /\ stack[k].dir = d
        BY <2>0, <3>0, <4>1, StreamFacts DEF Located
      <4>3. tree[d][n] = Way(InitTree, p, Len(q) + 1)
        BY <1>0, <3>0, <4>1, <4>2, LeadsToDir
      <4>4. tree'[d][n] = Way(InitTree, p, Len(q) + 1)
        <5>1. Len(q) \in 0..(Len(p) - 1) /\ Len(q) + 1 \in 1..Len(p) /\ n \in Names
              /\ Way(InitTree, p, Len(q)) = Lstat(InitTree, q) /\ (Len(q) + 1) - 1 = Len(q)
          BY <3>0, <4>1, <4>2, LeadsFacts
        <5>2. /\ Len(q) \in 0..Len(p) /\ Len(q) + 1 \in 0..Len(p)
          BY <3>0, <5>1
        <5>6. d \in Dirs
          BY <1>0, <3>0, <4>1, <4>2, LeadsToDir
        <5>. HIDE DEF q, n
        <5>3. \A l \in 1..Len(p) : Way(tree', p, l) = Way(InitTree, p, l)
          BY <2>4 DEF Untouched, Way
        <5>4. /\ Way(tree', p, 0) = Root /\ Way(InitTree, p, 0) = Root
              /\ Way(tree', p, Len(q) + 1)
                   = Onward(tree', Followed(Way(tree', p, Len(q))), p[Len(q) + 1])
          BY <1>0, <3>0, <5>1, TreeAssumption, WayAlong
        <5>5. Followed(Way(tree', p, Len(q))) = d
          <6>1. Len(q) = 0 \/ Len(q) \in 1..Len(p)
            BY <5>2
          <6>2. Way(tree', p, Len(q)) = Way(InitTree, p, Len(q))
            BY <5>3, <5>4, <6>1
          <6>. QED
            BY <5>1, <6>2 DEF Home
        <5>. QED
          BY <5>1, <5>3, <5>4, <5>5, <5>6 DEF Onward, n
      <4>5. n \in stack'[k].must
        BY <1>6, <4>1, <4>2, <4>3, <4>4
      <4>. QED
        BY <1>6, <4>1, <4>5 DEF Ahead
    <3>2. CASE at.path = p /\ pc \in {"loop", "measure"}
      BY <1>0, <3>2 DEF Ahead
    <3>3. CASE /\ Leads(at.path, p) /\ at.pending
               /\ pc \in {"loop", "measure", "recheck", "increment"}
      BY <1>0, <3>3 DEF Ahead
    <3>. QED
      BY <2>4, <3>1, <3>2, <3>3 DEF Ahead
  <2>. QED
    BY <2>0, <2>1, <2>2, <2>3, <2>4
<1>9. Covered'
  BY <1>0, <1>7, <1>8 DEF Covered
<1>. QED
  BY <1>4, <1>5, <1>9 DEF CompleteInv

LEMMA NextKeepsComplete == Inv /\ Inv' /\ CompleteInv /\ [Next]_vars => CompleteInv'
<1>1. ASSUME CompleteInv, UNCHANGED <<fsVars, scanVars>> PROVE CompleteInv'
  <2>1. /\ (\A p : Untouched(p)' <=> Untouched(p)) /\ Wanted' = Wanted /\ target' = target
        /\ UNCHANGED <<pc, place, stack, at, error, stats, result, report, seen>>
        /\ top' = top
    BY <1>1 DEF fsVars, scanVars, Untouched, Wanted, target, rule, top
  <2>2. ReportComplete' /\ RuleComplete'
    BY <1>1, <2>1 DEF CompleteInv, ReportComplete, RuleComplete, Measured
  <2>3. Covered'
    BY <1>1, <2>1 DEF CompleteInv, Covered, Located, AtOK, Ahead, Iterating
  <2>. QED
    BY <2>2, <2>3 DEF CompleteInv
<1>2. Cancel \/ UNCHANGED vars => UNCHANGED <<fsVars, scanVars>>
  BY DEF Cancel, vars
<1>. QED
  BY <1>1, <1>2, ScanKeepsComplete, InterfereKeepsComplete DEF Next, Finished

LEMMA InitComplete == Init => CompleteInv
<1>. SUFFICES ASSUME Init PROVE CompleteInv
  OBVIOUS
<1>1. report = <<>> /\ pc = "rule" /\ Len(report) = 0
  BY DEF Init
<1>. QED
  BY <1>1 DEF CompleteInv, ReportComplete, RuleComplete, Covered, Iterating

\* A result of the scan that is neither truncated nor has inaccessible
\* entries is complete: whatever was there before the scan and nobody
\* touched has been measured, whoever else changed the tree meanwhile,
\* whatever call failed, and whether or not the scan was cancelled.
THEOREM UnmarkedIsComplete == Spec => []Complete
<1>1. Inv /\ CompleteInv => Complete
  <2>. SUFFICES ASSUME Inv, CompleteInv, NEW i \in DOMAIN report, ~report[i].truncated,
                       report[i].inaccessible = 0, NEW j \in DOMAIN Rules[i],
                       NEW p \in Visible[i][j]
                PROVE  <<<<i, j>>, p>> \in seen \/ ~Untouched(p)
    BY DEF Complete
  <2>1. i \in 1..Len(report)
    BY DEF Inv
  <2>. QED
    BY <2>1 DEF CompleteInv, ReportComplete, Unmarked, Measured
<1>. QED
  BY <1>1, InitInv, NextKeepsInv, InitComplete, NextKeepsComplete, PTL DEF Spec

-----------------------------------------------------------------------------
(***************************************************************************)
(* What a scan counts that nothing disturbs.  The items of the target at   *)
(* hand are as many as the paths measured in it, all of them wanted; what  *)
(* is ahead was not measured yet, so no path is measured twice; and at the *)
(* end of the target everything wanted was measured, by the invariant      *)
(* above.  That a path is not ahead any more once it was measured takes    *)
(* the order of the streams: none returns again what leads to the          *)
(* directory of a stream further in, or to the entry at hand.              *)
(***************************************************************************)
Quiet == changes = 0 /\ faults = 0 /\ ~cancelled

\* A path on which the iterator gets from the target into directories only.
Good(q) ==
  /\ q \in Seq(Names)
  /\ q = target.path \/ Leads(target.path, q)
  /\ \A k \in Len(target.path)..Len(q) : Way(InitTree, q, k) \in Dirs \ Unreadable

\* The stream s has still to return the name that leads on to p.
Returns(s, p) == Leads(s.path, p) /\ p[Len(s.path) + 1] \in s.must

QuietStream(s) ==
  /\ s.may = {} /\ s.must \subseteq Entries(InitTree, s.dir)
  /\ Good(s.path) /\ s.dir = Lstat(InitTree, s.path)

QuietStreams ==
  /\ \A k \in 1..Len(stack) : QuietStream(stack[k])
  /\ \A k, l \in 1..Len(stack) : k < l =>
       Len(stack[l].path) < Len(stack[k].path) /\ ~Returns(stack[l], stack[k].path)

QuietEntry ==
  /\ at # End /\ pc # "advance" =>
       /\ \A k \in 1..Len(stack) : ~Returns(stack[k], at.path)
       /\ \E n \in Names : /\ at.path = Append(top.path, n) /\ InitTree[top.dir][n] # None
                           /\ at.pending => InitTree[top.dir][n] \in Dirs
  /\ pc = "measure" => ~IsExcluded(at.path)

\* What was measured in the target at hand.
Here == {p \in Wanted : <<place, p>> \in seen}

QuietStats ==
  /\ ~error /\ stats.inaccessible = 0 /\ ~stats.truncated
  /\ stats.items = Cardinality(Here)
  /\ \A p \in Wanted : Ahead(p) => <<place, p>> \notin seen

\* The targets are measured in their order.
InOrder ==
  \A i, j \in Nat, p \in Seq(Names) : <<<<i, j>>, p>> \in seen =>
    i < place[1] \/ (i = place[1] /\ (j < place[2] \/ (j = place[2] /\ Iterating)))

\* The result r of the first n targets of the rule i.
QuietRule(r, i, n) ==
  /\ r.items = Counted(i)[n] /\ r.inaccessible = 0
  /\ r.truncated => \E j \in 1..n : Size(i, j) >= EntryLimit

Calm ==
  /\ tree = InitTree /\ moved = {} /\ InOrder
  /\ pc = "open" => UsableDirectory(target.path)
  /\ ~Iterating => stats = NoStats
  /\ Iterating => QuietStreams /\ QuietEntry /\ QuietStats
  /\ pc \notin {"rule", "done"} => QuietRule(result, place[1], place[2] - 1)
  /\ \A i \in 1..Len(report) : QuietRule(report[i], i, Len(Rules[i]))

QuietInv == Quiet => Calm

-----------------------------------------------------------------------------
(* There are finitely many paths to measure. *)

LEMMA PathsFinite == IsFiniteSet(Paths)
<1>. DEFINE N == 1..Cardinality(Dirs)
            Graph(q) == {<<k, q[k]>> : k \in 1..Len(q)}
            g == [q \in Paths |-> Graph(q)]
            G == SUBSET (N \X Names)
<1>1. Cardinality(Dirs) \in Nat
  BY ForestAssumption, FS_CardinalityType
<1>2. IsFiniteSet(N \X Names)
  <2>1. IsFiniteSet(N)
    BY <1>1, FS_Interval
  <2>. HIDE DEF N
  <2>. QED
    BY <2>1, ForestAssumption, FS_Product
<1>3. IsFiniteSet(G)
  <2>. HIDE DEF N
  <2>. QED
    BY <1>2, FS_SUBSET
<1>4. ASSUME NEW q \in Paths PROVE Graph(q) \in G
  <2>1. q \in Seq(Names) /\ Len(q) \in N
    BY PathsFacts
  <2>2. \A k \in 1..Len(q) : k \in N /\ q[k] \in Names
    BY <1>1, <2>1
  <2>. HIDE DEF N
  <2>. QED
    BY <2>2
<1>5. ASSUME NEW q \in Paths, NEW r \in Paths, Graph(q) = Graph(r) PROVE q = r
  <2>1. q \in Seq(Names) /\ Len(q) \in Nat /\ r \in Seq(Names) /\ Len(r) \in Nat
    BY PathsFacts
  <2>2. \A k \in 1..Len(q) : k \in 1..Len(r) /\ q[k] = r[k]
    <3>. SUFFICES ASSUME NEW k \in 1..Len(q) PROVE k \in 1..Len(r) /\ q[k] = r[k]
      OBVIOUS
    <3>1. <<k, q[k]>> \in Graph(r)
      BY <1>5
    <3>. QED
      BY <3>1
  <2>3. \A k \in 1..Len(r) : k \in 1..Len(q)
    <3>. SUFFICES ASSUME NEW k \in 1..Len(r) PROVE k \in 1..Len(q)
      OBVIOUS
    <3>1. <<k, r[k]>> \in Graph(q)
      BY <1>5
    <3>. QED
      BY <3>1
  <2>4. Len(q) = Len(r)
    BY <2>1, <2>2, <2>3
  <2>. QED
    BY <2>1, <2>2, <2>4, SeqEqual
<1>6. g \in Injection(Paths, G)
  <2>1. g \in [Paths -> G]
    BY <1>4
  <2>2. \A q, r \in Paths : g[q] = g[r] => q = r
    BY <1>5
  <2>. QED
    BY <2>1, <2>2 DEF Injection, IsInjective
<1>. QED
  BY <1>3, <1>6, FS_Injection

LEMMA VisibleFinite ==
  ASSUME NEW i \in 1..Len(Rules), NEW j \in 1..Len(Rules[i])
  PROVE  IsFiniteSet(Visible[i][j])
<1>. DEFINE t == Rules[i][j]
            X == {t.path \o q : q \in Paths}
            f == [q \in Paths |-> t.path \o q]
<1>1. Rules \in Seq(Seq(Targets)) /\ i \in DOMAIN Rules /\ j \in DOMAIN Rules[i]
  BY ScanAssumption DEF Targets
<1>2. Visible[i][j] \subseteq X
  BY <1>1, Zenon DEF Visible
<1>. HIDE DEF t
<1>3. f \in Surjection(Paths, X)
  BY DEF Surjection
<1>4. IsFiniteSet(X)
  BY <1>3, PathsFinite, FS_Surjection
<1>. QED
  BY <1>2, <1>4, FS_Subset

-----------------------------------------------------------------------------
(* What the iterator measures is wanted. *)

\* A path that only leads into directories has at most as many names below
\* the target as there are other directories.
LEMMA GoodIsShort ==
  ASSUME NEW q, Good(q), target.path \in Seq(Names), NEW n \in Names
  PROVE  Append(q, n) \in {target.path \o r : r \in Paths}
<1>. DEFINE t == target.path
            r == SubSeq(q, Len(t) + 1, Len(q))
            m == Len(r)
            D(k) == Way(InitTree, q, Len(t) + k)
<1>1. /\ q \in Seq(Names) /\ Len(q) \in Nat /\ Len(t) \in Nat /\ Len(t) <= Len(q)
      /\ t = SubSeq(q, 1, Len(t))
  <2>1. SubSeq(t, 1, Len(t)) = t
    OBVIOUS
  <2>. QED
    BY <2>1 DEF Good, Leads
<1>. HIDE DEF t
<1>2. /\ r \in Seq(Names) /\ m \in Nat /\ m = Len(q) - Len(t)
      /\ \A k \in 1..m : r[k] = q[Len(t) + k] /\ r[k] \in Names /\ Len(t) + k \in 1..Len(q)
  BY <1>1
<1>3. \A k \in 0..m : D(k) \in Dirs
  <2>. SUFFICES ASSUME NEW k \in 0..m PROVE D(k) \in Dirs
    OBVIOUS
  <2>1. Len(t) + k \in Len(t)..Len(q)
    BY <1>1, <1>2
  <2>. QED
    BY <2>1 DEF Good, t
<1>4. InitTree \in Trees /\ Forest(InitTree) /\ Rooted(InitTree)
  BY TreeAssumption, ForestAssumption
<1>5. ASSUME NEW k \in 1..m PROVE D(k) = InitTree[D(k - 1)][r[k]]
  <2>. DEFINE l == Len(t) + k
  <2>1. l \in 1..Len(q) /\ l - 1 = Len(t) + (k - 1) /\ r[k] = q[l] /\ k - 1 \in 0..m
    BY <1>1, <1>2
  <2>. HIDE DEF l, r, m
  <2>2. Way(InitTree, q, l) = Onward(InitTree, Followed(Way(InitTree, q, l - 1)), q[l])
    BY <1>1, <1>4, <2>1, WayAlong
  <2>3. Way(InitTree, q, l - 1) = D(k - 1) /\ D(k - 1) \in Dirs
    BY <1>3, <2>1
  <2>4. Followed(D(k - 1)) = D(k - 1)
    BY <2>3, FollowedFacts
  <2>. QED
    BY <2>1, <2>2, <2>3, <2>4 DEF Onward, l
<1>. DEFINE A(k) == At(InitTree, D(0), r, k)
<1>6. D(0) \in Dirs
  <2>1. 0 \in 0..m
    BY <1>2
  <2>. HIDE DEF D, m
  <2>. QED
    BY <1>3, <2>1
<1>7. /\ A(0) = D(0) /\ A(m) = Resolve(InitTree, D(0), r)
      /\ \A k \in 1..m : A(k) = Onward(InitTree, A(k - 1), r[k])
  <2>. HIDE DEF D
  <2>. QED
    BY <1>2, <1>4, <1>6, Along
<1>. HIDE DEF A, D, r, m
<1>8. \A k \in 0..m : A(k) = D(k)
  <2>. DEFINE T == {k \in Nat : k <= m /\ A(k) # D(k)}
  <2>1. SUFFICES ASSUME T # {} PROVE FALSE
    BY <1>2
  <2>2. PICK k \in T : \A j \in T : k <= j
    BY <2>1, LeastNumber
  <2>3. k \in 1..m /\ k - 1 \in Nat /\ k - 1 \notin T /\ A(k) # D(k) /\ k - 1 \in 0..m
    BY <1>2, <1>7, <2>2
  <2>4. A(k - 1) = D(k - 1)
    BY <1>2, <2>3
  <2>. HIDE DEF T
  <2>. QED
    BY <1>3, <1>5, <1>7, <2>3, <2>4 DEF Onward
<1>9. ASSUME NEW j \in 0..m, NEW k \in 0..m, D(j) = D(k) PROVE j = k
  <2>1. Resolve(InitTree, D(0), r) \in Dirs /\ A(j) = A(k)
    <3>1. m \in 0..m
      BY <1>2
    <3>. QED
      BY <1>3, <1>7, <1>8, <1>9, <3>1
  <2>. QED
    BY <1>2, <1>4, <1>6, <2>1, MeetingPaths DEF A, m
<1>10. m + 1 <= Cardinality(Dirs)
  <2>. DEFINE I == 0..m
              f == [k \in I |-> D(k)]
  <2>1. f \in [I -> Dirs]
    BY <1>3
  <2>2. \A j, k \in I : f[j] = f[k] => j = k
    BY <1>9
  <2>3. IsFiniteSet(I) /\ Cardinality(I) = m + 1
    <3>1. 0 \in Int /\ m \in Int /\ ~(0 > m) /\ m - 0 + 1 = m + 1
      BY <1>2
    <3>2. IsFiniteSet(0..m) /\ Cardinality(0..m) = (IF 0 > m THEN 0 ELSE m - 0 + 1)
      BY <3>1, FS_Interval
    <3>. QED
      BY <3>1, <3>2
  <2>. HIDE DEF I, f
  <2>4. f \in Injection(I, Dirs)
    BY <2>1, <2>2 DEF Injection, IsInjective
  <2>. QED
    BY <2>3, <2>4, ForestAssumption, FS_Injection
<1>. DEFINE s == Append(r, n)
<1>11. /\ s \in Seq(Names) /\ Len(s) = m + 1 /\ s[m + 1] = n
       /\ \A k \in 1..m : s[k] = r[k]
  <2>1. r \in Seq(Names) /\ m = Len(r)
    BY <1>2 DEF m
  <2>. QED
    BY <2>1
<1>12. s \in Paths
  <2>1. s \in [1..(m + 1) -> Names]
    <3>. HIDE DEF s
    <3>. QED
      BY <1>11
  <2>2. m + 1 \in 1..Cardinality(Dirs)
    BY <1>2, <1>10, ForestAssumption, FS_CardinalityType
  <2>. HIDE DEF s
  <2>. QED
    BY <2>1, <2>2 DEF Paths
<1>13. Append(q, n) = t \o s
  <2>. DEFINE u == Append(q, n)
              v == t \o s
  <2>1. /\ u \in Seq(Names) /\ Len(u) = Len(q) + 1 /\ u[Len(q) + 1] = n
        /\ \A k \in 1..Len(q) : u[k] = q[k]
    BY <1>1
  <2>2. t \in Seq(Names) /\ s \in Seq(Names) /\ Len(s) = m + 1 /\ s[m + 1] = n
        /\ \A k \in 1..m : s[k] = r[k]
    BY <1>11 DEF t
  <2>. HIDE DEF s
  <2>3. /\ v \in Seq(Names) /\ Len(v) = Len(t) + Len(s)
        /\ \A k \in 1..Len(t) : v[k] = t[k]
        /\ \A k \in 1..Len(s) : v[Len(t) + k] = s[k]
    BY <2>2
  <2>. HIDE DEF u, v
  <2>4. \A k \in 1..Len(t) : q[k] = t[k]
    <3>1. \A k \in 1..Len(t) : SubSeq(q, 1, Len(t))[k] = q[k]
      BY <1>1
    <3>. QED
      BY <1>1, <3>1, Zenon
  <2>5. Len(u) = Len(v)
    BY <1>1, <1>2, <2>1, <2>2, <2>3
  <2>6. ASSUME NEW k \in 1..Len(u) PROVE u[k] = v[k]
    <3>1. CASE k \in 1..Len(t)
      <4>1. k \in 1..Len(q)
        BY <1>1, <3>1
      <4>. QED
        BY <2>1, <2>3, <2>4, <3>1, <4>1
    <3>2. CASE k \notin 1..Len(t)
      <4>. DEFINE j == k - Len(t)
      <4>1. j \in 1..(m + 1) /\ Len(t) + j = k /\ k \in 1..(Len(q) + 1)
        BY <1>1, <1>2, <2>1, <3>2
      <4>. HIDE DEF j
      <4>2. v[k] = s[j]
        BY <2>2, <2>3, <4>1
      <4>3. CASE j = m + 1
        BY <1>1, <1>2, <2>1, <2>2, <4>1, <4>2, <4>3
      <4>4. CASE j # m + 1
        <5>1. j \in 1..m /\ k \in 1..Len(q)
          BY <1>1, <1>2, <4>1, <4>4
        <5>. QED
          BY <1>2, <2>1, <2>2, <4>1, <4>2, <5>1
      <4>. QED
        BY <4>3, <4>4
    <3>. QED
      BY <3>1, <3>2
  <2>7. u = v
    BY <2>1, <2>3, <2>5, <2>6, SeqEqual
  <2>. QED
    BY <2>7 DEF u, v
<1>. QED
  BY <1>12, <1>13 DEF t

\* One name below a path that leads into directories only.
LEMMA GoodAppend ==
  ASSUME target.path \in Seq(Names), NEW q, Good(q), NEW n \in Names
  PROVE  /\ Append(q, n) \in Seq(Names) /\ Len(Append(q, n)) = Len(q) + 1
         /\ Leads(target.path, Append(q, n))
         /\ q \in Seq(Names) /\ Len(q) \in Nat /\ Lstat(InitTree, q) \in Dirs
         /\ Lstat(InitTree, Append(q, n)) = InitTree[Lstat(InitTree, q)][n]
         /\ \A k \in Len(target.path)..Len(q) : Way(InitTree, Append(q, n), k) \in Dirs \ Unreadable
<1>. DEFINE t == target.path
            p == Append(q, n)
<1>1. /\ q \in Seq(Names) /\ Len(q) \in Nat /\ t \in Seq(Names) /\ Len(t) \in Nat
      /\ q = t \/ Leads(t, q)
      /\ \A k \in Len(t)..Len(q) : Way(InitTree, q, k) \in Dirs \ Unreadable
  BY DEF Good
<1>. HIDE DEF t
<1>2. Len(t) <= Len(q) /\ t = SubSeq(q, 1, Len(t))
  <2>1. SubSeq(t, 1, Len(t)) = t
    BY <1>1
  <2>. QED
    BY <1>1, <2>1 DEF Leads
<1>3. p \in Seq(Names) /\ Len(p) = Len(q) + 1 /\ \A k \in 1..Len(q) : p[k] = q[k]
  BY <1>1
<1>. HIDE DEF p
<1>4. ASSUME NEW k \in 0..Len(q) PROVE SubSeq(p, 1, k) = SubSeq(q, 1, k)
  <2>. DEFINE u == SubSeq(p, 1, k)
              v == SubSeq(q, 1, k)
  <2>1. /\ u \in Seq(Names) /\ Len(u) = k /\ \A j \in 1..k : u[j] = p[j]
        /\ v \in Seq(Names) /\ Len(v) = k /\ \A j \in 1..k : v[j] = q[j]
    BY <1>1, <1>3
  <2>2. \A j \in 1..k : j \in 1..Len(q)
    BY <1>1
  <2>. HIDE DEF u, v
  <2>3. u = v
    BY <1>3, <2>1, <2>2, SeqEqual
  <2>. QED
    BY <2>3 DEF u, v
<1>5. Leads(t, p)
  <2>1. Len(t) \in 0..Len(q) /\ Len(t) < Len(p)
    BY <1>1, <1>2, <1>3
  <2>. QED
    BY <1>2, <1>4, <2>1 DEF Leads
<1>6. \A k \in Len(t)..Len(q) : Way(InitTree, p, k) \in Dirs \ Unreadable
  <2>. SUFFICES ASSUME NEW k \in Len(t)..Len(q) PROVE Way(InitTree, p, k) \in Dirs \ Unreadable
    OBVIOUS
  <2>1. k \in 0..Len(q)
    BY <1>1
  <2>. QED
    BY <1>1, <1>4, <2>1 DEF Way
<1>7. Lstat(InitTree, q) \in Dirs
  <2>1. Len(q) \in Len(t)..Len(q)
    BY <1>1, <1>2
  <2>2. Way(InitTree, q, Len(q)) = Lstat(InitTree, q)
    BY <1>1, TreeAssumption, WayAlong
  <2>. QED
    BY <1>1, <2>1, <2>2
<1>8. Lstat(InitTree, p) = InitTree[Lstat(InitTree, q)][n]
  <2>1. Lstat(InitTree, p) = Onward(InitTree, Followed(Lstat(InitTree, q)), n)
    BY <1>1, TreeAssumption, LstatAppend DEF p
  <2>2. Followed(Lstat(InitTree, q)) = Lstat(InitTree, q)
    BY <1>7, FollowedFacts
  <2>. QED
    BY <1>7, <2>1, <2>2 DEF Onward
<1>. QED
  BY <1>1, <1>3, <1>5, <1>6, <1>7, <1>8 DEF p, t

\* What is measured is wanted, and is there.
LEMMA MeasureIsWanted ==
  ASSUME Inv, QuietStreams, QuietEntry, pc = "measure"
  PROVE  at.path \in Wanted /\ Lstat(InitTree, at.path) # None
<1>1. /\ target.path \in Seq(Names) /\ place[1] \in 1..Len(Rules) /\ place[2] \in 1..Len(rule)
      /\ rule \in Seq(Targets)
  BY RuleFacts
<1>2. at # End /\ stack # <<>>
  BY DEF Inv, TypeOK
<1>3. QuietStream(top) /\ Good(top.path) /\ top.dir = Lstat(InitTree, top.path)
  BY <1>2, StreamFacts DEF QuietStreams, QuietStream
<1>4. PICK n \in Names : at.path = Append(top.path, n) /\ InitTree[top.dir][n] # None
  BY <1>2 DEF QuietEntry
<1>. DEFINE p == at.path
            t == target
            Node(x) == Lstat(InitTree, x)
            C == {t.path \o q : q \in Paths}
<1>5. /\ Len(p) = Len(top.path) + 1 /\ Len(top.path) \in Nat
      /\ Node(p) = InitTree[Node(top.path)][n]
      /\ \A k \in Len(t.path)..Len(top.path) : Way(InitTree, p, k) \in Dirs \ Unreadable
  BY <1>1, <1>3, <1>4, GoodAppend
<1>6. Node(p) # None
  BY <1>3, <1>4, <1>5
<1>7. p \in C
  BY <1>1, <1>3, <1>4, GoodIsShort
<1>8. \A e \in t.exclusions : ~IsPrefix(e, p)
  BY DEF QuietEntry, IsExcluded
<1>9. \A k \in Len(t.path)..(Len(p) - 1) : Node(SubSeq(p, 1, k)) \in Dirs \ Unreadable
  <2>1. Len(p) - 1 = Len(top.path)
    BY <1>5
  <2>. QED
    BY <1>5, <2>1 DEF Way
<1>10. /\ place[1] \in DOMAIN Rules /\ place[2] \in DOMAIN Rules[place[1]]
       /\ t = Rules[place[1]][place[2]]
  BY <1>1, ScanAssumption DEF rule, target
<1>. HIDE DEF p, t
<1>11. p \in Wanted
  BY <1>6, <1>7, <1>8, <1>9, <1>10, Zenon DEF Wanted, Visible
<1>. QED
  BY <1>6, <1>11 DEF p

-----------------------------------------------------------------------------
(* What is counted in a target, and in the first targets of a rule. *)

LEMMA CappedFacts ==
  ASSUME NEW i \in 1..Len(Rules), NEW j \in 1..Len(Rules[i])
  PROVE  Size(i, j) \in Nat /\ Capped(i, j) \in Nat
<1>1. Size(i, j) \in Nat
  BY VisibleFinite, FS_CardinalityType DEF Size
<1>2. EntryLimit \in Nat
  BY ScanAssumption
<1>. QED
  BY <1>1, <1>2 DEF Capped

LEMMA CountedSteps ==
  ASSUME NEW i \in 1..Len(Rules)
  PROVE  /\ Counted(i)[0] = 0
         /\ \A n \in 0..Len(Rules[i]) : Counted(i)[n] \in Nat
         /\ \A n \in 1..Len(Rules[i]) : Counted(i)[n] = Counted(i)[n - 1] + Capped(i, n)
<1>. DEFINE m == Len(Rules[i])
            Right(f) == f = [j \in 0..m |-> IF j = 0 THEN 0 ELSE f[j - 1] + Capped(i, j)]
<1>0. m \in Nat /\ 0 \in Nat
  BY ScanAssumption
<1>1. \A j \in 1..m : Capped(i, j) \in Nat
  BY CappedFacts
<1>2. \E f : Right(f) /\ \A j \in 0..m : f[j] \in Nat
  <2>. DEFINE G == [z \in (1..m) \X Nat |-> z[2] + Capped(i, z[1])]
  <2>1. G \in [(1..m) \X Nat -> Nat]
    <3>. HIDE DEF m
    <3>. SUFFICES ASSUME NEW z \in (1..m) \X Nat PROVE z[2] + Capped(i, z[1]) \in Nat
      OBVIOUS
    <3>1. z[1] \in 1..m /\ z[2] \in Nat /\ Capped(i, z[1]) \in Nat
      BY <1>1
    <3>. QED
      BY <3>1
  <2>2. \A j \in 1..m, v \in Nat : G[<<j, v>>] = v + Capped(i, j)
    OBVIOUS
  <2>. HIDE DEF G, m
  <2>3. PICK f : Iterates(f, m, Nat, 0, G)
    BY <1>0, <2>1, Iteration
  <2>4. /\ f \in [0..m -> Nat] /\ f[0] = 0
        /\ \A j \in 1..m : f[j] = G[<<j, f[j - 1]>>]
    BY <2>3 DEF Iterates
  <2>5. ASSUME NEW j \in 0..m, j # 0 PROVE f[j] = f[j - 1] + Capped(i, j)
    <3>1. j \in 1..m /\ j - 1 \in 0..m
      BY <1>0, <2>5
    <3>. QED
      BY <2>2, <2>4, <3>1
  <2>6. Right(f) /\ \A j \in 0..m : f[j] \in Nat
    BY <2>4, <2>5
  <2>. QED
    BY <2>6
<1>3. ASSUME NEW f, NEW g, Right(f), Right(g) PROVE f = g
  <2>. DEFINE T == {j \in Nat : j <= m /\ f[j] # g[j]}
  <2>. HIDE DEF m
  <2>1. f = [j \in 0..m |-> f[j]] /\ g = [j \in 0..m |-> g[j]]
    BY <1>3
  <2>2. f[0] = 0 /\ g[0] = 0
    BY <1>0, <1>3
  <2>3. \A j \in 1..m : f[j] = f[j - 1] + Capped(i, j) /\ g[j] = g[j - 1] + Capped(i, j)
    BY <1>0, <1>3
  <2>4. T = {}
    <3>1. SUFFICES ASSUME T # {} PROVE FALSE
      OBVIOUS
    <3>2. PICK k \in T : \A j \in T : k <= j
      BY <3>1, LeastNumber
    <3>3. k \in 1..m /\ k - 1 \in Nat /\ k - 1 \notin T /\ f[k] # g[k]
      BY <1>0, <2>2, <3>2
    <3>4. f[k - 1] = g[k - 1]
      BY <1>0, <3>3
    <3>. HIDE DEF T
    <3>. QED
      BY <2>3, <3>3, <3>4
  <2>. QED
    BY <1>0, <2>1, <2>4
<1>. DEFINE count == CHOOSE f : Right(f)
<1>4. Right(count) /\ \A j \in 0..m : count[j] \in Nat
  <2>. HIDE DEF Right, m
  <2>1. PICK f : Right(f) /\ \A j \in 0..m : f[j] \in Nat
    BY <1>2
  <2>2. Right(count)
    BY <2>1
  <2>. HIDE DEF count
  <2>3. count = f
    BY <1>3, <2>1, <2>2
  <2>. QED
    BY <2>1, <2>2, <2>3
<1>5. Counted(i) = count
  BY DEF Counted
<1>. HIDE DEF count, m
<1>6. count[0] = 0 /\ \A n \in 1..m : count[n] = count[n - 1] + Capped(i, n)
  <2>1. 0 \in 0..m /\ \A n \in 1..m : n \in 0..m /\ n # 0
    BY <1>0
  <2>. QED
    BY <1>4, <2>1
<1>. QED
  BY <1>4, <1>5, <1>6 DEF m

-----------------------------------------------------------------------------
(* The end of a target. *)

\* The result of one more target of the rule at hand.
LEMMA SumIsQuiet ==
  ASSUME NEW i \in 1..Len(Rules), NEW n \in 1..Len(Rules[i]),
         NEW r \in Results, QuietRule(r, i, n - 1), NEW s \in AllStats \cup {NoStats},
         s.items = Capped(i, n), s.inaccessible = 0, s.truncated => Size(i, n) >= EntryLimit,
         NEW q \in Results, q.items = r.items + s.items,
         q.inaccessible = r.inaccessible + s.inaccessible,
         q.truncated = (r.truncated \/ s.truncated)
  PROVE  QuietRule(q, i, n)
<1>1. Len(Rules[i]) \in Nat
  BY ScanAssumption
<1>2. Counted(i)[n] = Counted(i)[n - 1] + Capped(i, n)
  BY CountedSteps
<1>3. q.items = Counted(i)[n] /\ q.inaccessible = 0
  BY <1>2 DEF QuietRule
<1>4. CASE r.truncated
  <2>1. PICK j \in 1..(n - 1) : Size(i, j) >= EntryLimit
    BY <1>4 DEF QuietRule
  <2>2. j \in 1..n
    BY <1>1
  <2>. QED
    BY <1>3, <2>1, <2>2 DEF QuietRule
<1>5. CASE s.truncated
  <2>1. n \in 1..n
    BY <1>1
  <2>. QED
    BY <1>3, <1>5, <2>1 DEF QuietRule
<1>6. CASE ~r.truncated /\ ~s.truncated
  <2>1. ~q.truncated
    BY <1>6, Zenon
  <2>. QED
    BY <1>3, <2>1 DEF QuietRule
<1>. QED
  BY <1>4, <1>5, <1>6

LEMMA FinishKeepsCalm ==
  ASSUME Inv, Calm, pc \notin {"rule", "done"},
         NEW s \in AllStats \cup {NoStats}, Finish(s),
         UNCHANGED <<fsVars, cancelled, faults, seen, reach, strays>>,
         s.items = Capped(place[1], place[2]), s.inaccessible = 0,
         s.truncated => Size(place[1], place[2]) >= EntryLimit
  PROVE  Calm'
<1>. DEFINE sum == [result EXCEPT !.items = @ + s.items,
                                  !.inaccessible = @ + s.inaccessible,
                                  !.truncated = @ \/ s.truncated]
            i == place[1]
            n == place[2]
<1>1. /\ i \in 1..Len(Rules) /\ n \in 1..Len(rule) /\ Len(rule) \in Nat /\ i \in Nat /\ n \in Nat
      /\ rule = Rules[i] /\ report \in Seq(Results) /\ Len(report) + 1 = i /\ Len(report) \in Nat
      /\ result \in Results
  BY RuleFacts DEF Inv, TypeOK, PlaceOK, rule, Results
<1>2. s.items \in Nat /\ s.inaccessible \in Nat /\ s.truncated \in BOOLEAN
  <2>1. EntryLimit \in Nat
    BY ScanAssumption
  <2>2. CASE s \in AllStats
    BY <2>1, <2>2 DEF AllStats
  <2>3. CASE s = NoStats
    BY <2>3 DEF NoStats
  <2>. QED
    BY <2>2, <2>3
<1>3. /\ sum.items = result.items + s.items
      /\ sum.inaccessible = result.inaccessible + s.inaccessible
      /\ sum.truncated = (result.truncated \/ s.truncated)
  BY <1>1 DEF Results
<1>4. sum \in Results
  <2>. DEFINE x == result.items + s.items
              y == result.inaccessible + s.inaccessible
              z == result.truncated \/ s.truncated
  <2>1. x \in Nat /\ y \in Nat
    BY <1>1, <1>2 DEF Results
  <2>2. z \in BOOLEAN
    OBVIOUS
  <2>3. sum = [result EXCEPT !.items = x, !.inaccessible = y, !.truncated = z]
    OBVIOUS
  <2>. HIDE DEF x, y, z, sum
  <2>. QED
    BY <1>1, <2>1, <2>2, <2>3 DEF Results
<1>5. result' = sum /\ stats' = NoStats
      /\ \/ /\ place' = <<i, n + 1>> /\ pc' = "available" /\ UNCHANGED report
         \/ /\ n = Len(rule) /\ report' = Append(report, sum)
            /\ place' = <<i + 1, 1>> /\ pc' = "rule"
  <2>1. ~(n < Len(rule)) => n = Len(rule)
    BY <1>1
  <2>. QED
    BY <2>1 DEF Finish
<1>. HIDE DEF sum
<1>6. QuietRule(sum, i, n)
  <2>1. QuietRule(result, i, n - 1)
    BY DEF Calm
  <2>. QED
    BY <1>1, <1>3, <1>4, <2>1, SumIsQuiet
<1>. HIDE DEF i, n
<1>7. tree' = InitTree /\ moved' = {}
  BY DEF Calm, fsVars
<1>8. InOrder'
  <2>. SUFFICES ASSUME NEW k \in Nat, NEW l \in Nat, NEW p \in Seq(Names), <<<<k, l>>, p>> \in seen
                PROVE  k < place'[1] \/ (k = place'[1] /\ l < place'[2])
    BY DEF InOrder
  <2>1. k < i \/ (k = i /\ (l < n \/ l = n))
    BY DEF Calm, InOrder, i, n
  <2>. QED
    BY <1>1, <1>5, <2>1
<1>9. \A r, k, l : QuietRule(r, k, l)' <=> QuietRule(r, k, l)
  BY DEF QuietRule
<1>10. pc' \in {"available", "rule"} /\ ~Iterating'
  BY <1>5 DEF Iterating
<1>11. pc' \notin {"rule", "done"} => QuietRule(result', place'[1], place'[2] - 1)
  <2>. SUFFICES ASSUME pc' = "available" PROVE QuietRule(result', place'[1], place'[2] - 1)
    BY <1>10
  <2>1. place'[1] = i /\ place'[2] - 1 = n
    BY <1>1, <1>5
  <2>. QED
    BY <1>5, <1>6, <2>1
<1>12. \A k \in 1..Len(report') : QuietRule(report'[k], k, Len(Rules[k]))
  <2>. SUFFICES ASSUME NEW k \in 1..Len(report') PROVE QuietRule(report'[k], k, Len(Rules[k]))
    OBVIOUS
  <2>1. CASE UNCHANGED report
    BY <2>1 DEF Calm
  <2>2. CASE n = Len(rule) /\ report' = Append(report, sum)
    <3>1. (k = i /\ report'[k] = sum) \/ (k \in 1..Len(report) /\ report'[k] = report[k])
      BY <1>1, <1>4, <2>2
    <3>2. CASE k = i /\ report'[k] = sum
      BY <1>1, <1>6, <2>2, <3>2
    <3>3. CASE k \in 1..Len(report) /\ report'[k] = report[k]
      BY <3>3 DEF Calm
    <3>. QED
      BY <3>1, <3>2, <3>3
  <2>. QED
    BY <1>5, <2>1, <2>2
<1>. QED
  BY <1>5, <1>7, <1>8, <1>9, <1>10, <1>11, <1>12 DEF Calm

-----------------------------------------------------------------------------
(* A step of the iterator. *)

LEMMA NoFault ==
  ASSUME Quiet, Quiet'
  PROVE  ~Fault
BY DEF Quiet, Fault

\* What is said of a stream hangs on the target only.
LEMMA PlaceStays ==
  ASSUME UNCHANGED place
  PROVE  /\ Wanted' = Wanted /\ target' = target
         /\ \A q : Good(q)' <=> Good(q)
         /\ \A s : QuietStream(s)' <=> QuietStream(s)
<1>1. Wanted' = Wanted /\ target' = target
  BY DEF Wanted, target, rule
<1>2. \A q : Good(q)' <=> Good(q)
  BY <1>1 DEF Good
<1>. QED
  BY <1>1, <1>2 DEF QuietStream

\* Nobody has touched anything.
LEMMA CalmUntouched ==
  ASSUME Calm, NEW p
  PROVE  Untouched(p)
BY DEF Calm, Untouched

LEMMA HereFacts ==
  ASSUME Inv, pc \notin {"rule", "done"}
  PROVE  /\ IsFiniteSet(Wanted) /\ IsFiniteSet(Here)
         /\ Cardinality(Wanted) = Size(place[1], place[2])
         /\ Cardinality(Wanted) \in Nat /\ Cardinality(Here) \in Nat
         /\ Cardinality(Here) <= Cardinality(Wanted)
<1>1. IsFiniteSet(Wanted)
  BY RuleFacts, VisibleFinite DEF Wanted, rule
<1>2. Here \subseteq Wanted
  BY DEF Here
<1>. QED
  BY <1>1, <1>2, FS_Subset, FS_CardinalityType DEF Size, Wanted

LEMMA MovesKeepCalm ==
  ASSUME Calm, pc \notin {"rule", "done"}, UNCHANGED <<fsVars, place, result, report>>,
         Iterating', QuietStreams', QuietEntry', QuietStats', InOrder'
  PROVE  Calm'
<1>1. /\ tree' = InitTree /\ moved' = {} /\ pc' # "open"
      /\ pc' \notin {"rule", "done"}
  BY DEF Calm, fsVars, Iterating
<1>2. \A r, i, n : QuietRule(r, i, n)' <=> QuietRule(r, i, n)
  BY DEF QuietRule
<1>3. /\ QuietRule(result, place[1], place[2] - 1)
      /\ \A i \in 1..Len(report) : QuietRule(report[i], i, Len(Rules[i]))
  BY DEF Calm
<1>4. /\ QuietRule(result, place[1], place[2] - 1)'
      /\ \A i \in 1..Len(report') : QuietRule(report[i], i, Len(Rules[i]))'
  BY <1>2, <1>3
<1>. QED
  BY <1>1, <1>4 DEF Calm

\* The streams and the entry change, what was counted does not.
LEMMA IterateKeepsCalm ==
  ASSUME Calm, Iterating, Iterating',
         UNCHANGED <<fsVars, place, error, stats, result, report, seen>>,
         QuietStreams', QuietEntry', \A p \in Wanted : Ahead(p)' => Ahead(p)
  PROVE  Calm'
<1>1. QuietStats /\ InOrder /\ pc \notin {"rule", "done"}
  BY DEF Calm, Iterating
<1>2. Wanted' = Wanted /\ Here' = Here
  BY DEF Wanted, Here
<1>3. QuietStats'
  BY <1>1, <1>2 DEF QuietStats
<1>4. InOrder'
  BY <1>1 DEF InOrder
<1>. QED
  BY <1>1, <1>3, <1>4, MovesKeepCalm

\* The iterator has come to its end.
LEMMA EndedKeepsCalm ==
  ASSUME Inv, Calm, pc \notin {"rule", "done"}, Ended(FALSE),
         UNCHANGED <<fsVars, place, stats, result, report, seen>>,
         stats.inaccessible = 0, ~stats.truncated, stats.items = Cardinality(Here)
  PROVE  Calm'
<1>1. stack' = <<>> /\ at' = End /\ ~error' /\ pc' = "loop" /\ Iterating'
  BY DEF Ended, Iterating
<1>2. Wanted' = Wanted /\ Here' = Here
  BY DEF Wanted, Here
<1>3. 1..Len(stack') = {}
  BY <1>1
<1>4. QuietStreams' /\ QuietEntry'
  BY <1>1, <1>3 DEF QuietStreams, QuietEntry
<1>5. ASSUME NEW p \in Wanted PROVE ~Ahead(p)'
  <2>1. p \in Seq(Names) /\ target.path \in Seq(Names) /\ Leads(target.path, p)
    BY WantedFacts
  <2>2. Len(target.path) \in Nat /\ Len(target.path) < Len(p)
    BY <2>1 DEF Leads
  <2>3. Len(p) # 0
    BY <2>2
  <2>4. p # <<>>
    BY <2>3
  <2>. QED
    BY <1>1, <1>3, <2>4, EndFacts DEF Ahead
<1>6. QuietStats'
  BY <1>1, <1>2, <1>5 DEF QuietStats
<1>7. InOrder'
  BY <1>1 DEF Calm, InOrder
<1>. QED
  BY <1>1, <1>4, <1>6, <1>7, MovesKeepCalm

-----------------------------------------------------------------------------
(* The actions keep calm. *)

LEMMA StartRuleKeepsCalm ==
  ASSUME Inv, Calm, StartRule
  PROVE  Calm'
<1>1. /\ pc = "rule" /\ ~Iterating /\ place[2] = 1 /\ report \in Seq(Results)
      /\ Len(report) + 1 = place[1] /\ Len(report) \in Nat /\ place[1] \in Nat
      /\ Len(Rules) \in Nat /\ UNCHANGED <<fsVars, stats, seen>>
  BY ScanAssumption DEF StartRule, Inv, TypeOK, PlaceOK, Iterating
<1>2. tree' = InitTree /\ moved' = {} /\ stats' = NoStats
  BY <1>1 DEF Calm, fsVars
<1>3. \A r, i, n : QuietRule(r, i, n)' <=> QuietRule(r, i, n)
  BY DEF QuietRule
<1>4. \A i \in 1..Len(report) : QuietRule(report[i], i, Len(Rules[i]))
  BY DEF Calm
<1>5. \A i, j \in Nat, p \in Seq(Names) : <<<<i, j>>, p>> \in seen =>
        i < place[1] \/ (i = place[1] /\ j < place[2])
  BY <1>1 DEF Calm, InOrder
<1>6. \A i \in 1..Len(Rules) : QuietRule(NoResult, i, 0)
  BY CountedSteps DEF QuietRule, NoResult
<1>7. CASE pc' = "done" /\ UNCHANGED <<place, result, report>>
  <2>1. InOrder' /\ ~Iterating'
    BY <1>1, <1>5, <1>7 DEF InOrder, Iterating
  <2>. QED
    BY <1>2, <1>3, <1>4, <1>7, <2>1 DEF Calm
<1>8. CASE /\ place[1] <= Len(Rules) /\ rule = <<>> /\ report' = Append(report, NoResult)
           /\ place' = <<place[1] + 1, 1>> /\ UNCHANGED pc
  <2>1. pc' = "rule" /\ ~Iterating' /\ place'[1] = place[1] + 1
    BY <1>1, <1>8 DEF Iterating
  <2>2. InOrder'
    <3>. SUFFICES ASSUME NEW i \in Nat, NEW j \in Nat, NEW p \in Seq(Names), <<<<i, j>>, p>> \in seen
                  PROVE  i < place'[1]
      BY <1>1 DEF InOrder
    <3>1. i < place[1] \/ i = place[1]
      BY <1>5
    <3>. QED
      BY <1>1, <2>1, <3>1
  <2>3. ASSUME NEW i \in 1..Len(report') PROVE QuietRule(report'[i], i, Len(Rules[i]))
    <3>1. NoResult \in Results
      BY DEF NoResult, Results
    <3>2. (i = place[1] /\ report'[i] = NoResult) \/ (i \in 1..Len(report) /\ report'[i] = report[i])
      BY <1>1, <1>8, <3>1
    <3>3. CASE i = place[1] /\ report'[i] = NoResult
      <4>1. i \in 1..Len(Rules) /\ Rules[i] = <<>>
        BY <1>1, <1>8, <3>3 DEF rule
      <4>2. Len(Rules[i]) = 0
        BY <4>1
      <4>. QED
        BY <1>6, <3>3, <4>1, <4>2
    <3>4. CASE i \in 1..Len(report) /\ report'[i] = report[i]
      BY <1>4, <3>4
    <3>. QED
      BY <3>2, <3>3, <3>4
  <2>. QED
    BY <1>2, <1>3, <2>1, <2>2, <2>3 DEF Calm
<1>9. CASE /\ place[1] <= Len(Rules) /\ result' = NoResult
           /\ pc' = "available" /\ UNCHANGED <<place, report>>
  <2>1. InOrder' /\ ~Iterating'
    BY <1>1, <1>5, <1>9 DEF InOrder, Iterating
  <2>2. QuietRule(result', place'[1], place'[2] - 1)
    <3>1. place'[1] \in 1..Len(Rules) /\ place'[2] - 1 = 0
      BY <1>1, <1>9
    <3>. QED
      BY <1>6, <1>9, <3>1
  <2>. QED
    BY <1>2, <1>3, <1>4, <1>9, <2>1, <2>2 DEF Calm
<1>. QED
  BY <1>7, <1>8, <1>9 DEF StartRule

LEMMA AvailableKeepsCalm ==
  ASSUME Inv, Calm, Available
  PROVE  Calm'
<1>1. /\ pc = "available" /\ pc' = "usable" /\ ~Iterating /\ ~Iterating'
      /\ result \in Results /\ result' = [result EXCEPT !.available = @ \/ UsableDirectory(target.path)]
      /\ UNCHANGED <<fsVars, place, stats, report, seen>>
  BY DEF Available, Inv, TypeOK, Iterating, Results
<1>2. /\ result'.items = result.items /\ result'.inaccessible = result.inaccessible
      /\ result'.truncated = result.truncated
  BY <1>1 DEF Results
<1>3. \A i, n : QuietRule(result, i, n) => QuietRule(result, i, n)'
  BY <1>2 DEF QuietRule
<1>4. \A r, i, n : QuietRule(r, i, n)' <=> QuietRule(r, i, n)
  BY DEF QuietRule
<1>5. InOrder' /\ tree' = InitTree /\ moved' = {} /\ stats' = NoStats
  BY <1>1 DEF Calm, InOrder, fsVars
<1>6. /\ QuietRule(result, place[1], place[2] - 1)
      /\ \A i \in 1..Len(report) : QuietRule(report[i], i, Len(Rules[i]))
  BY <1>1 DEF Calm
<1>7. /\ QuietRule(result, place[1], place[2] - 1)'
      /\ \A i \in 1..Len(report') : QuietRule(report[i], i, Len(Rules[i]))'
  BY <1>1, <1>3, <1>4, <1>6
<1>. QED
  BY <1>1, <1>5, <1>7 DEF Calm

LEMMA UsableKeepsCalm ==
  ASSUME Inv, Calm, Usable
  PROVE  Calm'
<1>1. pc = "usable" /\ UNCHANGED <<fsVars, cancelled, faults, seen, reach, strays>>
  BY DEF Usable
<1>2. CASE /\ UsableDirectory(target.path) /\ pc' = "open"
           /\ UNCHANGED <<place, stats, result, report>>
  <2>1. ~Iterating /\ ~Iterating' /\ UsableDirectory(target.path)'
    BY <1>1, <1>2 DEF Iterating, UsableDirectory, target, rule, fsVars
  <2>2. InOrder' /\ tree' = InitTree /\ moved' = {} /\ stats' = NoStats
    BY <1>1, <1>2, <2>1 DEF Calm, InOrder, fsVars
  <2>3. \A r, i, n : QuietRule(r, i, n)' <=> QuietRule(r, i, n)
    BY DEF QuietRule
  <2>4. /\ QuietRule(result, place[1], place[2] - 1)
        /\ \A i \in 1..Len(report) : QuietRule(report[i], i, Len(Rules[i]))
    BY <1>1 DEF Calm
  <2>5. /\ QuietRule(result, place[1], place[2] - 1)'
        /\ \A i \in 1..Len(report') : QuietRule(report[i], i, Len(Rules[i]))'
    BY <1>2, <2>3, <2>4
  <2>. QED
    BY <1>2, <2>1, <2>2, <2>5 DEF Calm
<1>3. CASE ~UsableDirectory(target.path) /\ Finish(NoStats)
  <2>1. Wanted = {}
    <3>. SUFFICES ASSUME NEW p \in Wanted PROVE FALSE
      OBVIOUS
    <3>1. /\ p \in Seq(Names) /\ target.path \in Seq(Names) /\ Leads(target.path, p)
      BY <1>1, WantedFacts
    <3>2. Len(target.path) >= Len(target.path)
      BY <3>1
    <3>3. Lstat(InitTree, target.path) \in Dirs
      BY <1>1, <3>1, <3>2, WantedWay
    <3>. QED
      BY <1>3, <3>3 DEF UsableDirectory, Calm
  <2>2. Size(place[1], place[2]) = 0
    BY <2>1, FS_EmptySet DEF Size, Wanted
  <2>3. Capped(place[1], place[2]) = 0
    <3>1. EntryLimit \in Nat
      BY ScanAssumption
    <3>. QED
      BY <2>2, <3>1 DEF Capped
  <2>4. NoStats.items = 0 /\ NoStats.inaccessible = 0 /\ ~NoStats.truncated
    BY DEF NoStats
  <2>. QED
    BY <1>1, <1>3, <2>3, <2>4, FinishKeepsCalm
<1>. QED
  BY <1>2, <1>3 DEF Usable

LEMMA OpenTargetKeepsCalm ==
  ASSUME Inv, Calm, Quiet, Quiet', OpenTarget
  PROVE  Calm'
<1>. DEFINE d == Followed(Lstat(tree, target.path))
            f == Stream(d, target.path)
<1>1. /\ pc = "open" /\ UNCHANGED <<fsVars, place, stats, result, report, seen>>
      /\ target.path \in Seq(Names) /\ ~Iterating /\ ~error
  BY RuleFacts DEF OpenTarget, Iterating, Inv, IteratorOK
<1>2. d \in Dirs /\ d = Lstat(InitTree, target.path) /\ tree = InitTree
  BY <1>1, FollowedFacts DEF Calm, UsableDirectory
<1>3. Here = {}
  <2>. SUFFICES ASSUME NEW p \in Wanted, <<place, p>> \in seen PROVE FALSE
    BY DEF Here
  <2>1. place[1] \in Nat /\ place[2] \in Nat /\ place = <<place[1], place[2]>>
    BY DEF Inv, TypeOK
  <2>2. p \in Seq(Names) /\ <<<<place[1], place[2]>>, p>> \in seen
    BY <1>1, <2>1, WantedFacts
  <2>3. place[1] < place[1] \/ place[2] < place[2]
    BY <1>1, <2>1, <2>2 DEF Calm, InOrder
  <2>. QED
    BY <2>1, <2>3
<1>4. /\ stats.inaccessible = 0 /\ ~stats.truncated /\ stats.items = 0
      /\ stats.items = Cardinality(Here)
  BY <1>1, <1>3, FS_EmptySet DEF Calm, NoStats
<1>5. CASE Ended(FALSE)
  BY <1>1, <1>4, <1>5, EndedKeepsCalm
<1>6. CASE /\ d \in Dirs \ Unreadable /\ stack' = <<f>>
           /\ at' = [path |-> target.path, kind |-> "other", pending |-> FALSE]
           /\ pc' = "advance" /\ UNCHANGED error
  <2>1. /\ f.dir = d /\ f.path = target.path /\ f.may = {}
        /\ f.must = Entries(InitTree, d)
    BY <1>2 DEF Stream
  <2>2. QuietStream(f)
    <3>1. Good(target.path)
      <4>1. Way(InitTree, target.path, Len(target.path)) = d
        BY <1>1, <1>2, TreeAssumption, WayAlong
      <4>2. Len(target.path) \in Nat
        BY <1>1
      <4>3. \A k \in Len(target.path)..Len(target.path) : k = Len(target.path)
        BY <4>2
      <4>. QED
        BY <1>1, <1>6, <4>1, <4>3 DEF Good
    <3>. HIDE DEF d, f
    <3>. QED
      BY <1>2, <2>1, <3>1 DEF QuietStream
  <2>. HIDE DEF d, f
  <2>3. Len(stack') = 1 /\ stack'[1] = f
    BY <1>6
  <2>4. QuietStreams'
    <3>1. \A k \in 1..Len(stack') : k = 1
      BY <2>3
    <3>2. \A k \in 1..Len(stack') : QuietStream(stack'[k])
      BY <2>2, <2>3, <3>1
    <3>3. \A k, l \in 1..Len(stack') : ~(k < l)
      BY <3>1
    <3>. QED
      BY <1>1, <3>2, <3>3, PlaceStays DEF QuietStreams
  <2>5. QuietEntry'
    BY <1>6 DEF QuietEntry
  <2>6. Wanted' = Wanted /\ Here' = Here
    BY <1>1 DEF Wanted, Here
  <2>7. QuietStats'
    BY <1>1, <1>3, <1>4, <1>6, <2>6 DEF QuietStats, Here
  <2>8. Iterating' /\ InOrder'
    BY <1>1, <1>6 DEF Iterating, Calm, InOrder
  <2>. QED
    BY <1>1, <2>4, <2>5, <2>7, <2>8, MovesKeepCalm
<1>. QED
  BY <1>2, <1>5, <1>6, NoFault DEF OpenTarget, Errs

\* At its end everything wanted was measured; at the limit there is as much
\* as the limit.
LEMMA LoopKeepsCalm ==
  ASSUME Inv, CompleteInv, Calm, Quiet, Quiet', EndOfTarget \/ CutShort \/ PassOver \/ Consider
  PROVE  Calm'
<1>0. /\ pc = "loop" /\ Iterating /\ UNCHANGED <<fsVars, cancelled, faults, seen, reach, strays>>
      /\ stats \in AllStats /\ QuietStreams /\ QuietEntry /\ QuietStats
  BY StayFacts DEF Iterating, EndOfTarget, CutShort, PassOver, Consider, AtEntry, Calm
<1>1. /\ ~error /\ stats.inaccessible = 0 /\ ~stats.truncated
      /\ stats.items = Cardinality(Here) /\ stats.items \in Nat /\ stats.items <= EntryLimit
      /\ EntryLimit \in Nat
  BY <1>0, ScanAssumption DEF QuietStats, AllStats
<1>2. /\ Cardinality(Wanted) = Size(place[1], place[2]) /\ Cardinality(Wanted) \in Nat
      /\ Cardinality(Here) <= Cardinality(Wanted)
  BY <1>0, HereFacts
<1>3. CASE EndOfTarget
  <2>1. Finish(stats) /\ at = End /\ stack = <<>>
    BY <1>0, <1>1, <1>3 DEF EndOfTarget, CompleteInv, Covered, AtOK
  <2>2. Here = Wanted
    <3>. SUFFICES ASSUME NEW p \in Wanted, <<place, p>> \notin seen PROVE FALSE
      BY DEF Here
    <3>1. Ahead(p)
      BY <1>0, <1>1, CalmUntouched DEF CompleteInv, Covered, Unmarked
    <3>2. at.path = p
      <4>1. 1..Len(stack) = {}
        BY <2>1
      <4>. QED
        BY <2>1, <3>1, <4>1, EndFacts DEF Ahead
    <3>3. p \in Seq(Names) /\ target.path \in Seq(Names) /\ Leads(target.path, p)
      BY <1>0, WantedFacts
    <3>4. Len(target.path) \in Nat /\ Len(target.path) < Len(p)
      BY <3>3 DEF Leads
    <3>5. Len(p) = 0
      BY <2>1, <3>2, EndFacts
    <3>. QED
      BY <3>4, <3>5
  <2>3. stats.items = Capped(place[1], place[2])
    <3>1. stats.items = Size(place[1], place[2])
      BY <1>1, <1>2, <2>2
    <3>. QED
      BY <1>1, <3>1 DEF Capped
  <2>. QED
    BY <1>0, <1>1, <2>1, <2>3, FinishKeepsCalm
<1>4. CASE CutShort
  <2>. DEFINE s == [stats EXCEPT !.truncated = TRUE]
  <2>1. Finish(s) /\ stats.items >= EntryLimit
    BY <1>0, <1>4 DEF CutShort, Quiet, IsAtLimit
  <2>2. s \in AllStats /\ s.items = stats.items /\ s.inaccessible = stats.inaccessible
    BY <1>0 DEF AllStats
  <2>. HIDE DEF s
  <2>3. Size(place[1], place[2]) >= EntryLimit
    BY <1>1, <1>2, <2>1
  <2>4. s.items = Capped(place[1], place[2])
    BY <1>1, <1>2, <2>1, <2>2, <2>3 DEF Capped
  <2>. QED
    BY <1>0, <1>1, <2>1, <2>2, <2>3, <2>4, FinishKeepsCalm
<1>5. CASE PassOver
  <2>1. /\ at # End /\ at' = [at EXCEPT !.pending = FALSE] /\ pc' = "increment"
        /\ UNCHANGED <<place, stack, error, stats, result, report>>
    BY <1>5 DEF PassOver, AtEntry
  <2>2. at'.path = at.path /\ ~at'.pending /\ top' = top
    BY <2>1, StreamFacts DEF AtEntries, top
  <2>3. QuietStreams'
    BY <1>0, <2>1, PlaceStays DEF QuietStreams
  <2>4. QuietEntry'
    BY <1>0, <2>1, <2>2 DEF QuietEntry
  <2>5. \A p \in Wanted : Ahead(p)' => Ahead(p)
    BY <1>0, <2>1, <2>2 DEF Ahead
  <2>6. Iterating'
    BY <2>1 DEF Iterating
  <2>. QED
    BY <1>0, <2>1, <2>3, <2>4, <2>5, <2>6, IterateKeepsCalm
<1>6. CASE Consider
  <2>1. /\ at # End /\ ~IsExcluded(at.path) /\ pc' = "measure"
        /\ UNCHANGED <<place, at, stack, error, stats, result, report>>
    BY <1>6 DEF Consider, AtEntry
  <2>2. top' = top /\ IsExcluded(at.path)' = IsExcluded(at.path)
    BY <2>1 DEF top, IsExcluded, target, rule
  <2>3. QuietStreams'
    BY <1>0, <2>1, PlaceStays DEF QuietStreams
  <2>4. QuietEntry'
    BY <1>0, <2>1, <2>2 DEF QuietEntry
  <2>5. \A p \in Wanted : Ahead(p)' => Ahead(p)
    BY <1>0, <2>1 DEF Ahead
  <2>6. Iterating'
    BY <2>1 DEF Iterating
  <2>. QED
    BY <1>0, <2>1, <2>3, <2>4, <2>5, <2>6, IterateKeepsCalm
<1>. QED
  BY <1>3, <1>4, <1>5, <1>6

\* An entry is counted that was not counted before.
LEMMA MeasureKeepsCalm ==
  ASSUME Inv, Calm, Quiet, Quiet', Measure
  PROVE  Calm'
<1>. DEFINE q == at.path
<1>0. /\ pc = "measure" /\ pc' = "recheck" /\ Iterating /\ Iterating' /\ stats \in AllStats
      /\ UNCHANGED <<fsVars, place, stack, at, error, result, report>>
      /\ QuietStreams /\ QuietEntry /\ QuietStats /\ at # End /\ tree = InitTree
  BY StayFacts DEF Iterating, Measure, Calm, Inv, TypeOK
<1>1. q \in Wanted /\ Lstat(InitTree, q) # None
  BY <1>0, MeasureIsWanted
<1>2. stats' = [stats EXCEPT !.items = @ + 1] /\ seen' = seen \cup {<<place, q>>}
  BY <1>0, <1>1, NoFault DEF Measure, Errs
<1>3. /\ stats'.items = stats.items + 1 /\ stats'.inaccessible = 0 /\ ~stats'.truncated
      /\ stats.items = Cardinality(Here) /\ ~error'
  BY <1>0, <1>2 DEF QuietStats, AllStats
<1>4. Wanted' = Wanted /\ Here' = Here \cup {q}
  <2>1. Wanted' = Wanted
    BY <1>0 DEF Wanted
  <2>. QED
    BY <1>0, <1>1, <1>2, <2>1 DEF Here
<1>5. q \notin Here
  BY <1>0, <1>1 DEF QuietStats, Ahead, Here
<1>6. Cardinality(Here') = Cardinality(Here) + 1
  BY <1>0, <1>4, <1>5, HereFacts, FS_AddElement
<1>7. ASSUME NEW p \in Wanted, Ahead(p)' PROVE <<place, p>> \notin seen'
  <2>1. (\E k \in 1..Len(stack) : Returns(stack[k], p)) \/ (Leads(q, p) /\ at.pending)
    BY <1>0, <1>7 DEF Ahead, Returns
  <2>2. Ahead(p)
    BY <1>0, <2>1 DEF Ahead, Returns
  <2>3. p # q
    BY <1>0, <2>1 DEF QuietEntry, Leads
  <2>. QED
    BY <1>0, <1>2, <2>2, <2>3 DEF QuietStats
<1>8. QuietStats'
  BY <1>0, <1>3, <1>4, <1>6, <1>7 DEF QuietStats
<1>9. QuietStreams' /\ QuietEntry'
  BY <1>0, PlaceStays DEF QuietStreams, QuietEntry, top
<1>10. InOrder'
  <2>. SUFFICES ASSUME NEW i \in Nat, NEW j \in Nat, NEW p \in Seq(Names), <<<<i, j>>, p>> \in seen'
                PROVE  i < place[1] \/ (i = place[1] /\ (j < place[2] \/ j = place[2]))
    BY <1>0 DEF InOrder
  <2>1. CASE <<<<i, j>>, p>> \in seen
    BY <2>1 DEF Calm, InOrder
  <2>2. CASE <<i, j>> = place
    BY <2>2
  <2>. QED
    BY <1>2, <2>1, <2>2
<1>. QED
  BY <1>0, <1>8, <1>9, <1>10, MovesKeepCalm DEF Iterating

LEMMA RecheckKeepsCalm ==
  ASSUME Inv, Calm, Quiet, Quiet', Recheck
  PROVE  Calm'
<1>. DEFINE z == at.pending /\ Lstat(tree, at.path) \notin Links
<1>0. /\ pc = "recheck" /\ pc' = "increment" /\ Iterating /\ Iterating' /\ at \in AtEntries
      /\ UNCHANGED <<fsVars, place, stack, error, stats, result, report, seen>>
      /\ QuietStreams /\ QuietEntry /\ QuietStats /\ at # End /\ tree = InitTree
      /\ at' = [at EXCEPT !.pending = z] \/ at' = at
  BY StayFacts DEF Iterating, Recheck, Calm, Inv, TypeOK
<1>1. at'.path = at.path /\ (at'.pending => at.pending)
  <2>1. z \in BOOLEAN /\ (z => at.pending)
    BY <1>0 DEF AtEntries
  <2>. HIDE DEF z
  <2>. QED
    BY <1>0, <2>1 DEF AtEntries
<1>2. QuietStreams'
  BY <1>0, PlaceStays DEF QuietStreams
<1>3. QuietEntry'
  <2>1. top' = top
    BY <1>0 DEF top
  <2>. QED
    BY <1>0, <1>1, <2>1 DEF QuietEntry
<1>4. \A p \in Wanted : Ahead(p)' => Ahead(p)
  BY <1>0, <1>1 DEF Ahead
<1>. QED
  BY <1>0, <1>2, <1>3, <1>4, IterateKeepsCalm

LEMMA DescendKeepsCalm ==
  ASSUME Inv, Calm, Quiet, Quiet', Descend
  PROVE  Calm'
<1>. DEFINE q == at.path
            d == Opened(tree[top.dir][Last(q)])
            f == Stream(d, q)
<1>0. /\ pc = "increment" /\ Iterating /\ at # End /\ stack # <<>> /\ tree = InitTree
      /\ UNCHANGED <<fsVars, place, stats, result, report, seen>>
      /\ QuietStreams /\ QuietEntry /\ QuietStats /\ q \in Seq(Names) /\ target.path \in Seq(Names)
      /\ stack \in Seq(Streams) /\ top = stack[1] /\ 1 \in 1..Len(stack) /\ Len(stack) \in Nat
  BY StreamFacts, RuleFacts DEF Iterating, Descend, Calm, Inv, TypeOK
<1>1. /\ Good(top.path) /\ top.dir = Lstat(InitTree, top.path)
      /\ top \in Streams /\ top.path \in Seq(Names) /\ Len(top.path) \in Nat
  <2>1. QuietStream(top) /\ top \in Streams
    BY <1>0 DEF QuietStreams
  <2>2. top.path \in Seq(Names)
    BY <2>1 DEF Streams
  <2>. QED
    BY <2>1, <2>2 DEF QuietStream
<1>2. PICK n \in Names : /\ q = Append(top.path, n) /\ InitTree[top.dir][n] # None
                         /\ at.pending => InitTree[top.dir][n] \in Dirs
  BY <1>0 DEF QuietEntry
<1>3. /\ Len(q) = Len(top.path) + 1 /\ Leads(target.path, q)
      /\ Lstat(InitTree, q) = InitTree[top.dir][n]
      /\ \A k \in Len(target.path)..Len(top.path) : Way(InitTree, q, k) \in Dirs \ Unreadable
  BY <1>0, <1>1, <1>2, GoodAppend
<1>4. at.pending => d = InitTree[top.dir][n] /\ d \in Dirs
  <2>1. Last(q) = n
    BY <1>1, <1>2 DEF Last
  <2>. QED
    BY <1>0, <1>2, <2>1 DEF Opened
<1>5. CASE pc' = "advance" /\ UNCHANGED <<stack, at, error>>
  <2>1. QuietStreams' /\ QuietEntry' /\ Iterating'
    BY <1>0, <1>5, PlaceStays DEF QuietStreams, QuietEntry, Iterating
  <2>2. \A p \in Wanted : Ahead(p)' => Ahead(p)
    BY <1>0, <1>5 DEF Ahead
  <2>. QED
    BY <1>0, <1>5, <2>1, <2>2, IterateKeepsCalm
<1>6. CASE /\ at.pending /\ d \in Dirs \ Unreadable /\ stack' = <<f>> \o stack
           /\ pc' = "advance" /\ UNCHANGED <<at, error>>
  <2>1. f \in Streams /\ f.dir = d /\ f.path = q /\ f.may = {} /\ f.must = Entries(InitTree, d)
    BY <1>0, <1>6 DEF Stream, Streams, Entries
  <2>2. Good(q)
    <3>1. Way(InitTree, q, Len(q)) = d
      BY <1>0, <1>3, <1>4, <1>6, TreeAssumption, WayAlong
    <3>2. \A k \in Len(target.path)..Len(q) : k = Len(q) \/ k \in Len(target.path)..Len(top.path)
      BY <1>0, <1>1, <1>3
    <3>. QED
      BY <1>0, <1>3, <1>6, <3>1, <3>2 DEF Good
  <2>3. QuietStream(f)
    <3>. HIDE DEF d, f
    <3>. QED
      BY <1>3, <1>4, <1>6, <2>1, <2>2 DEF QuietStream
  <2>4. stack' = <<f>> \o stack
    BY <1>6
  <2>. HIDE DEF d, f
  <2>5. /\ Len(stack') = Len(stack) + 1 /\ stack'[1] = f
        /\ \A k \in 1..Len(stack') : k = 1 \/ (k - 1 \in 1..Len(stack) /\ stack'[k] = stack[k - 1])
    BY <1>0, <2>1, <2>4, PushIndex
  <2>6. \A k \in 1..Len(stack) : Len(stack[k].path) < Len(q) /\ ~Returns(stack[k], q)
    <3>. SUFFICES ASSUME NEW k \in 1..Len(stack)
                  PROVE  Len(stack[k].path) < Len(q) /\ ~Returns(stack[k], q)
      OBVIOUS
    <3>1. ~Returns(stack[k], q)
      BY <1>0 DEF QuietEntry
    <3>2. k = 1 \/ 1 < k
      BY <1>0
    <3>3. Len(stack[k].path) \in Nat
      BY <1>0, StreamFacts
    <3>4. 1 < k => Len(stack[k].path) < Len(top.path)
      BY <1>0 DEF QuietStreams
    <3>. QED
      BY <1>0, <1>1, <1>3, <3>1, <3>2, <3>3, <3>4
  <2>7. QuietStreams'
    <3>1. ASSUME NEW k \in 1..Len(stack') PROVE QuietStream(stack'[k])
      <4>1. CASE k = 1
        BY <2>3, <2>5, <4>1
      <4>2. CASE k - 1 \in 1..Len(stack) /\ stack'[k] = stack[k - 1]
        BY <1>0, <4>2 DEF QuietStreams
      <4>. QED
        BY <2>5, <4>1, <4>2
    <3>2. ASSUME NEW k \in 1..Len(stack'), NEW l \in 1..Len(stack'), k < l
          PROVE  /\ Len(stack'[l].path) < Len(stack'[k].path)
                 /\ ~Returns(stack'[l], stack'[k].path)
      <4>1. l - 1 \in 1..Len(stack) /\ stack'[l] = stack[l - 1]
        BY <2>5, <3>2
      <4>2. CASE k = 1
        BY <2>1, <2>5, <2>6, <4>1, <4>2
      <4>3. CASE k - 1 \in 1..Len(stack) /\ stack'[k] = stack[k - 1]
        <5>1. k - 1 < l - 1
          BY <3>2
        <5>. QED
          BY <1>0, <4>1, <4>3, <5>1 DEF QuietStreams
      <4>. QED
        BY <2>5, <4>2, <4>3
    <3>3. \A s, p : Returns(s, p)' <=> Returns(s, p)
      BY DEF Returns, Leads
    <3>. QED
      BY <1>0, <3>1, <3>2, <3>3, PlaceStays DEF QuietStreams
  <2>8. QuietEntry' /\ Iterating'
    BY <1>6 DEF QuietEntry, Iterating
  <2>9. ASSUME NEW p \in Wanted, Ahead(p)' PROVE Ahead(p)
    <3>1. PICK k \in 1..Len(stack') :
            Leads(stack'[k].path, p) /\ p[Len(stack'[k].path) + 1] \in stack'[k].must
      BY <1>6, <2>9 DEF Ahead
    <3>2. CASE k = 1
      BY <1>0, <1>6, <2>1, <2>5, <3>1, <3>2 DEF Ahead
    <3>3. CASE k - 1 \in 1..Len(stack) /\ stack'[k] = stack[k - 1]
      BY <3>1, <3>3 DEF Ahead
    <3>. QED
      BY <2>5, <3>2, <3>3
  <2>. QED
    BY <1>0, <1>6, <2>7, <2>8, <2>9, IterateKeepsCalm
<1>. QED
  BY <1>4, <1>5, <1>6, NoFault DEF Descend, Errs

\* The next entry is one that no other stream leads to.
LEMMA NextEntryKeepsCalm ==
  ASSUME Inv, Calm, NEW n \in Names, NextEntry(n)
  PROVE  Calm'
<1>. DEFINE f == [top EXCEPT !.must = @ \ {n}, !.may = @ \ {n}]
            q == Append(top.path, n)
<1>0. /\ pc = "advance" /\ pc' = "loop" /\ Iterating /\ Iterating' /\ stack # <<>>
      /\ UNCHANGED <<fsVars, place, error, stats, result, report, seen>>
      /\ stack' = <<f>> \o Tail(stack) /\ n \in top.must \cup top.may
      /\ QuietStreams /\ QuietStats /\ tree = InitTree
      /\ stack \in Seq(Streams) /\ top = stack[1] /\ 1 \in 1..Len(stack) /\ Len(stack) \in Nat
  BY StreamFacts DEF Iterating, NextEntry, Calm, Inv, TypeOK
<1>1. PICK kind \in Kinds :
        /\ tree[top.dir][n] # None => (kind = "dir" <=> tree[top.dir][n] \in Dirs)
        /\ at' = [path |-> q, kind |-> kind, pending |-> kind = "dir"]
  BY DEF NextEntry
<1>2. top \in Streams /\ QuietStream(top) /\ top.path \in Seq(Names) /\ Len(top.path) \in Nat
  <2>1. QuietStream(top) /\ top \in Streams
    BY <1>0 DEF QuietStreams
  <2>2. top.path \in Seq(Names)
    BY <2>1 DEF Streams
  <2>. QED
    BY <2>1, <2>2
<1>3. n \in top.must /\ InitTree[top.dir][n] # None
  BY <1>0, <1>2 DEF QuietStream, Entries
<1>4. /\ f \in Streams /\ f.dir = top.dir /\ f.path = top.path /\ f.must = top.must \ {n}
      /\ f.may = {}
  BY <1>2 DEF Streams, QuietStream
<1>5. at'.path = q /\ (at'.pending => InitTree[top.dir][n] \in Dirs)
  BY <1>0, <1>1, <1>3
<1>6. /\ q \in Seq(Names) /\ Len(q) = Len(top.path) + 1 /\ q[Len(top.path) + 1] = n
      /\ \A k \in 1..Len(top.path) : q[k] = top.path[k]
  BY <1>2
<1>. HIDE DEF f, q
<1>7. /\ Len(stack') = Len(stack) /\ stack'[1] = f
      /\ \A k \in 2..Len(stack) : stack'[k] = stack[k]
  BY <1>0, <1>4, TopIndex
<1>8. \A k \in 1..Len(stack') : /\ k \in 1..Len(stack) /\ stack'[k].path = stack[k].path
                                /\ stack'[k].must \subseteq stack[k].must
                                /\ k = 1 \/ (1 < k /\ stack'[k] = stack[k])
  <2>. SUFFICES ASSUME NEW k \in 1..Len(stack)
                PROVE  /\ stack'[k].path = stack[k].path
                       /\ stack'[k].must \subseteq stack[k].must
                       /\ k = 1 \/ (1 < k /\ stack'[k] = stack[k])
    BY <1>7
  <2>1. k = 1 \/ (1 < k /\ k \in 2..Len(stack))
    BY <1>0
  <2>2. CASE k = 1
    BY <1>0, <1>4, <1>7, <2>2
  <2>3. CASE 1 < k /\ k \in 2..Len(stack)
    BY <1>7, <2>3
  <2>. QED
    BY <2>1, <2>2, <2>3
<1>9. QuietStreams'
  <2>1. QuietStream(f)
    BY <1>2, <1>4 DEF QuietStream
  <2>2. \A k \in 1..Len(stack') : QuietStream(stack'[k])
    BY <1>0, <1>7, <1>8, <2>1 DEF QuietStreams
  <2>3. ASSUME NEW k \in 1..Len(stack'), NEW l \in 1..Len(stack'), k < l
        PROVE  /\ Len(stack'[l].path) < Len(stack'[k].path)
               /\ ~Returns(stack'[l], stack'[k].path)
    <3>1. l # 1
      BY <1>0, <1>7, <2>3
    <3>2. stack'[l] = stack[l] /\ stack'[k].path = stack[k].path
      BY <1>8, <3>1
    <3>3. k \in 1..Len(stack) /\ l \in 1..Len(stack)
      BY <1>7
    <3>. QED
      BY <1>0, <2>3, <3>2, <3>3 DEF QuietStreams
  <2>4. \A s, p : Returns(s, p)' <=> Returns(s, p)
    BY DEF Returns, Leads
  <2>. QED
    BY <1>0, <2>2, <2>3, <2>4, PlaceStays DEF QuietStreams
<1>10. ASSUME NEW k \in 1..Len(stack') PROVE ~Returns(stack'[k], q)
  <2>1. CASE k = 1
    <3>1. q[Len(f.path) + 1] \notin f.must
      BY <1>4, <1>6
    <3>. QED
      BY <1>7, <2>1, <3>1 DEF Returns
  <2>2. CASE 1 < k /\ stack'[k] = stack[k]
    <3>. DEFINE s == stack[k]
                m == Len(s.path)
    <3>1. /\ k \in 1..Len(stack) /\ s.path \in Seq(Names) /\ m \in Nat
          /\ m < Len(top.path) /\ ~Returns(s, top.path)
      BY <1>0, <1>8, <2>2, StreamFacts DEF QuietStreams
    <3>. HIDE DEF s, m
    <3>2. SubSeq(q, 1, m) = SubSeq(top.path, 1, m)
      <4>. DEFINE u == SubSeq(q, 1, m)
                  v == SubSeq(top.path, 1, m)
      <4>1. /\ u \in Seq(Names) /\ Len(u) = m /\ \A j \in 1..m : u[j] = q[j]
            /\ v \in Seq(Names) /\ Len(v) = m /\ \A j \in 1..m : v[j] = top.path[j]
        BY <1>2, <1>6, <3>1
      <4>2. \A j \in 1..m : j \in 1..Len(top.path)
        BY <1>2, <3>1
      <4>. HIDE DEF u, v
      <4>3. u = v
        BY <1>6, <3>1, <4>1, <4>2, SeqEqual
      <4>. QED
        BY <4>3 DEF u, v
    <3>3. q[m + 1] = top.path[m + 1]
      <4>1. m + 1 \in 1..Len(top.path)
        BY <1>2, <3>1
      <4>. QED
        BY <1>6, <4>1
    <3>4. ~Returns(s, q)
      BY <3>1, <3>2, <3>3 DEF Returns, Leads, m
    <3>. QED
      BY <2>2, <3>4 DEF s
  <2>. QED
    BY <1>8, <2>1, <2>2
<1>11. QuietEntry'
  <2>1. top' = f
    <3>1. Tail(stack) \in Seq(Streams)
      BY <1>0
    <3>. QED
      BY <1>0, <1>4, <3>1 DEF top
  <2>2. \E m \in Names : /\ at'.path = Append(f.path, m) /\ InitTree[f.dir][m] # None
                         /\ at'.pending => InitTree[f.dir][m] \in Dirs
    BY <1>3, <1>4, <1>5 DEF q
  <2>3. \A k \in 1..Len(stack') : ~Returns(stack'[k], at'.path)
    BY <1>5, <1>10
  <2>4. \A s, p : Returns(s, p)' <=> Returns(s, p)
    BY DEF Returns, Leads
  <2>. QED
    BY <1>0, <2>1, <2>2, <2>3, <2>4 DEF QuietEntry
<1>12. ASSUME NEW p \in Wanted, Ahead(p)' PROVE Ahead(p)
  <2>1. CASE \E k \in 1..Len(stack') :
               Leads(stack'[k].path, p) /\ p[Len(stack'[k].path) + 1] \in stack'[k].must
    BY <1>8, <2>1 DEF Ahead
  <2>2. CASE q = p \/ Leads(q, p)
    <3>1. p \in Seq(Names) /\ Len(p) \in Nat
      BY <1>0, WantedFacts DEF Iterating
    <3>2. Leads(top.path, p) /\ p[Len(top.path) + 1] = n
      <4>. DEFINE m == Len(top.path)
      <4>1. m < Len(p) /\ m \in Nat /\ m + 1 = Len(q) /\ q = SubSeq(p, 1, m + 1)
        <5>1. CASE q = p
          BY <1>2, <1>6, <3>1, <5>1
        <5>2. CASE Leads(q, p)
          BY <1>2, <1>6, <3>1, <5>2 DEF Leads
        <5>. QED
          BY <2>2, <5>1, <5>2
      <4>2. \A k \in 1..(m + 1) : q[k] = p[k]
        BY <3>1, <4>1
      <4>3. p[m + 1] = n
        BY <1>6, <4>1, <4>2
      <4>. DEFINE v == SubSeq(p, 1, m)
      <4>4. v \in Seq(Names) /\ Len(v) = m /\ \A k \in 1..m : v[k] = p[k]
        BY <3>1, <4>1
      <4>5. \A k \in 1..m : top.path[k] = v[k]
        <5>1. \A k \in 1..m : k \in 1..(m + 1)
          BY <4>1
        <5>. QED
          BY <1>6, <4>2, <4>4, <5>1
      <4>6. top.path = v
        <5>. HIDE DEF v
        <5>. QED
          BY <1>2, <4>4, <4>5, SeqEqual
      <4>. QED
        BY <4>1, <4>3, <4>6 DEF Leads
    <3>. QED
      BY <1>0, <1>3, <3>2 DEF Ahead
  <2>. QED
    BY <1>5, <1>12, <2>1, <2>2 DEF Ahead
<1>. QED
  BY <1>0, <1>9, <1>11, <1>12, IterateKeepsCalm

LEMMA EndOfStreamKeepsCalm ==
  ASSUME Inv, Calm, Quiet, Quiet', EndOfStream
  PROVE  Calm'
<1>0. /\ pc = "advance" /\ Iterating /\ at # End /\ stack # <<>>
      /\ UNCHANGED <<fsVars, place, stats, result, report, seen>>
      /\ QuietStreams /\ QuietStats
      /\ stack \in Seq(Streams) /\ Len(stack) \in Nat
  BY StreamFacts DEF Iterating, EndOfStream, Calm, Inv, TypeOK
<1>1. CASE top.must = {} /\ Len(stack) > 1 /\ stack' = Tail(stack) /\ UNCHANGED <<pc, at, error>>
  <2>1. \A k \in 1..Len(stack') : k + 1 \in 1..Len(stack) /\ stack'[k] = stack[k + 1]
    BY <1>0, <1>1, PopIndex
  <2>2. QuietStreams'
    <3>1. \A k \in 1..Len(stack') : QuietStream(stack'[k])
      BY <1>0, <2>1 DEF QuietStreams
    <3>2. ASSUME NEW k \in 1..Len(stack'), NEW l \in 1..Len(stack'), k < l
          PROVE  /\ Len(stack'[l].path) < Len(stack'[k].path)
                 /\ ~Returns(stack'[l], stack'[k].path)
      <4>1. /\ k + 1 \in 1..Len(stack) /\ stack'[k] = stack[k + 1]
            /\ l + 1 \in 1..Len(stack) /\ stack'[l] = stack[l + 1] /\ k + 1 < l + 1
        BY <2>1, <3>2
      <4>. QED
        BY <1>0, <4>1 DEF QuietStreams
    <3>3. \A s, p : Returns(s, p)' <=> Returns(s, p)
      BY DEF Returns, Leads
    <3>. QED
      BY <1>0, <3>1, <3>2, <3>3, PlaceStays DEF QuietStreams
  <2>3. QuietEntry' /\ Iterating'
    BY <1>0, <1>1 DEF QuietEntry, Iterating
  <2>4. \A p \in Wanted : Ahead(p)' => Ahead(p)
    BY <1>0, <1>1, <2>1 DEF Ahead
  <2>. QED
    BY <1>0, <1>1, <2>2, <2>3, <2>4, IterateKeepsCalm
<1>2. CASE Ended(FALSE)
  BY <1>0, <1>2, EndedKeepsCalm DEF QuietStats
<1>. QED
  BY <1>1, <1>2, NoFault DEF EndOfStream

LEMMA ScanKeepsCalm == Inv /\ CompleteInv /\ Calm /\ Quiet /\ Quiet' /\ Scan => Calm'
  BY StartRuleKeepsCalm, AvailableKeepsCalm, UsableKeepsCalm, OpenTargetKeepsCalm, LoopKeepsCalm,
     MeasureKeepsCalm, RecheckKeepsCalm, DescendKeepsCalm, NextEntryKeepsCalm,
     EndOfStreamKeepsCalm DEF Scan

\* What is quiet has been quiet before: changes and failures are only counted
\* up, and a scan stays cancelled.
LEMMA QuietBefore ==
  ASSUME Inv, Quiet', [Next]_vars
  PROVE  Quiet /\ ~Interfere /\ ~Cancel
<1>1. changes \in Nat /\ faults \in Nat /\ cancelled \in BOOLEAN
  <2>1. /\ changes \in 0..MaxChanges /\ faults \in 0..MaxFaults /\ cancelled \in BOOLEAN
        /\ MaxChanges \in Nat /\ MaxFaults \in Nat
    BY TreeAssumption, ScanAssumption DEF Inv, TypeOK, FSTypeOK
  <2>. QED
    BY <2>1
<1>2. CASE Interfere
  <2>1. changes' = changes + 1
    BY <1>2 DEF Interfere, Applications, CreateEntry, DeleteEntry, RenameEntry, Change
  <2>. QED
    BY <1>1, <2>1 DEF Quiet
<1>3. ~Cancel
  BY DEF Cancel, Quiet
<1>4. CASE Scan
  <2>1. changes' = changes /\ cancelled' = cancelled /\ (UNCHANGED faults \/ faults' = faults + 1)
    <3>1. StartRule \/ Available => changes' = changes /\ cancelled' = cancelled /\ UNCHANGED faults
      BY DEF StartRule, Available, fsVars
    <3>2. Usable \/ EndOfTarget \/ CutShort =>
            changes' = changes /\ cancelled' = cancelled /\ UNCHANGED faults
      BY DEF Usable, EndOfTarget, CutShort, fsVars
    <3>3. PassOver \/ Consider => changes' = changes /\ cancelled' = cancelled /\ UNCHANGED faults
      BY DEF PassOver, Consider, fsVars
    <3>4. OpenTarget \/ Measure =>
            changes' = changes /\ cancelled' = cancelled /\ (UNCHANGED faults \/ faults' = faults + 1)
      BY DEF OpenTarget, Measure, Errs, Fault, fsVars
    <3>5. Descend \/ EndOfStream =>
            changes' = changes /\ cancelled' = cancelled /\ (UNCHANGED faults \/ faults' = faults + 1)
      BY DEF Descend, EndOfStream, Errs, Fault, fsVars
    <3>6. ASSUME NEW n \in Names, NextEntry(n)
          PROVE  changes' = changes /\ cancelled' = cancelled /\ UNCHANGED faults
      BY <3>6 DEF NextEntry, fsVars
    <3>7. Recheck => changes' = changes /\ cancelled' = cancelled /\ (UNCHANGED faults \/ faults' = faults + 1)
      BY DEF Recheck, Errs, Fault, fsVars
    <3>. QED
      BY <1>4, <3>1, <3>2, <3>3, <3>4, <3>5, <3>6, <3>7 DEF Scan
  <2>2. Quiet
    BY <1>1, <2>1 DEF Quiet
  <2>3. changes' = 0 /\ changes = 0
    BY <2>2 DEF Quiet
  <2>4. ~Interfere
    <3>1. Interfere => changes' = changes + 1
      BY DEF Interfere, Applications, CreateEntry, DeleteEntry, RenameEntry, Change
    <3>. QED
      BY <2>3, <3>1
  <2>. QED
    BY <1>3, <2>2, <2>4
<1>5. CASE Finished \/ UNCHANGED vars
  <2>1. UNCHANGED <<changes, faults, cancelled>>
    BY <1>5 DEF Finished, vars, fsVars, scanVars
  <2>2. ~Interfere
    <3>1. Interfere => changes' = changes + 1
      BY DEF Interfere, Applications, CreateEntry, DeleteEntry, RenameEntry, Change
    <3>. QED
      BY <1>1, <2>1, <3>1
  <2>. QED
    BY <1>3, <2>1, <2>2 DEF Quiet
<1>. QED
  BY <1>2, <1>3, <1>4, <1>5 DEF Next

LEMMA NextKeepsQuiet == Inv /\ CompleteInv /\ QuietInv /\ [Next]_vars => QuietInv'
<1>. SUFFICES ASSUME Inv, CompleteInv, QuietInv, [Next]_vars, Quiet' PROVE Calm'
  BY DEF QuietInv
<1>1. Quiet /\ Calm /\ ~Interfere /\ ~Cancel
  BY QuietBefore DEF QuietInv
<1>2. CASE Scan
  BY <1>1, <1>2, ScanKeepsCalm
<1>3. CASE UNCHANGED vars
  <2>1. UNCHANGED <<tree, moved, pc, place, stack, at, error, stats, result, report, seen>>
    BY <1>3 DEF vars, fsVars, scanVars
  <2>2. /\ Wanted' = Wanted /\ Here' = Here /\ target' = target /\ top' = top
        /\ Iterating' = Iterating /\ IsExcluded(at.path)' = IsExcluded(at.path)
    BY <2>1 DEF Wanted, Here, target, rule, top, Iterating, IsExcluded
  <2>3. QuietStreams' = QuietStreams /\ QuietEntry' = QuietEntry
    BY <2>1, <2>2 DEF QuietStreams, QuietEntry, QuietStream, Good, Returns
  <2>4. \A p : Ahead(p)' <=> Ahead(p)
    BY <2>1 DEF Ahead
  <2>5. (QuietStats' <=> QuietStats) /\ (InOrder' <=> InOrder)
    BY <2>1, <2>2, <2>4 DEF QuietStats, InOrder
  <2>6. UsableDirectory(target.path)' = UsableDirectory(target.path)
    BY <2>1, <2>2 DEF UsableDirectory
  <2>7. \A r, i, n : QuietRule(r, i, n)' <=> QuietRule(r, i, n)
    BY DEF QuietRule
  <2>8. /\ pc \notin {"rule", "done"} => QuietRule(result, place[1], place[2] - 1)'
        /\ \A i \in 1..Len(report') : QuietRule(report[i], i, Len(Rules[i]))'
    BY <1>1, <2>1, <2>7 DEF Calm
  <2>. QED
    BY <1>1, <2>1, <2>2, <2>3, <2>5, <2>6, <2>8 DEF Calm
<1>. QED
  BY <1>1, <1>2, <1>3 DEF Next, Finished

LEMMA InitQuiet == Init => QuietInv
<1>. SUFFICES ASSUME Init PROVE Calm
  BY DEF QuietInv
<1>1. /\ tree = InitTree /\ moved = {} /\ pc = "rule" /\ stats = NoStats /\ report = <<>>
      /\ seen = {} /\ Len(report) = 0
  BY DEF Init, FSInit
<1>. QED
  BY <1>1 DEF Calm, InOrder, Iterating

\* When no other process changes the tree, no call fails and nobody cancels,
\* every result of the scan counts each entry of its targets exactly once, up
\* to the item limit in each target, nothing is called inaccessible, and a
\* result is called truncated only if a target reaches the limit.
THEOREM QuietScanCounts == Spec => []QuietCount
<1>1. Inv /\ QuietInv => QuietCount
  <2>. SUFFICES ASSUME Inv, Calm, NEW i \in DOMAIN report
                PROVE  /\ report[i].items = Counted(i)[Len(Rules[i])]
                       /\ report[i].inaccessible = 0
                       /\ report[i].truncated => \E j \in DOMAIN Rules[i] : Size(i, j) >= EntryLimit
    BY DEF QuietCount, QuietInv, Quiet
  <2>1. /\ i \in 1..Len(report) /\ i \in 1..Len(Rules)
    <3>1. report \in Seq(Results) /\ Len(report) <= Len(Rules)
      BY DEF Inv, TypeOK
    <3>2. Len(Rules) \in Nat
      BY ScanAssumption
    <3>. QED
      BY <3>1, <3>2
  <2>2. 1..Len(Rules[i]) = DOMAIN Rules[i]
    BY <2>1, ScanAssumption
  <2>3. QuietRule(report[i], i, Len(Rules[i]))
    BY <2>1 DEF Calm
  <2>. QED
    BY <2>2, <2>3 DEF QuietRule
<1>. QED
  BY <1>1, InitInv, NextKeepsInv, InitComplete, NextKeepsComplete, InitQuiet, NextKeepsQuiet,
     PTL DEF Spec

=============================================================================
