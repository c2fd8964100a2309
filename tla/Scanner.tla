-------------------------------- MODULE Scanner --------------------------------
(***************************************************************************)
(* Scanner::scan and scanTarget (src/core/scanner.cpp): the categories are *)
(* measured one after the other, each of their targets with a              *)
(* std::filesystem::recursive_directory_iterator, while other processes    *)
(* change the tree and the window may cancel.                              *)
(*                                                                         *)
(* The iterator is modelled as libstdc++ implements it: a stack of         *)
(* directory streams; a subdirectory is opened below its parent without    *)
(* following links; one that may not be read is passed over without an     *)
(* error; any other error ENDS the iteration and is returned once.  The    *)
(* branch of the loop that goes on after an error is therefore never       *)
(* taken.  The entry's own numbers, however, come from lstat of its whole  *)
(* path.  Bytes go the way of the item count and are left out.             *)
(***************************************************************************)
EXTENDS FileSystem, SequencesExt

CONSTANTS
  Rules,        \* the targets of each rule: [path, exclusions], from the root
  Unreadable,   \* directories that may not be opened
  EntryLimit,   \* the item limit of a target (2000000)
  MaxFaults     \* bound on the calls that fail though the tree allows them

ASSUME ScanAssumption ==
  /\ Rules \in Seq(Seq([path : Seq(Names), exclusions : SUBSET Seq(Names)]))
  /\ Unreadable \subseteq Dirs
  /\ EntryLimit \in Nat /\ MaxFaults \in Nat

VARIABLES
  pc,
  place,      \* the number of the rule and of its target
  stack,      \* the streams of the iterator, innermost first
  at,         \* its entry, or End
  error,      \* the error_code of its last call
  stats,      \* ScanStats of the target
  result,     \* ScanResult of the rule
  report,     \* the results so far
  cancelled,
  faults,     \* injected failures so far
  \* for the properties only:
  seen,       \* the paths measured, with their place
  reach,      \* the directories that ever were at or below the one opened
  strays      \* others, put into one of those when it was no longer there

scanVars == <<pc, place, stack, at, error, stats, result, report, faults, seen>>
vars == <<fsVars, scanVars, cancelled, reach, strays>>

Kinds == {"dir", "other"}
End == [path |-> <<>>, kind |-> "end", pending |-> FALSE]
NoStats == [items |-> 0, inaccessible |-> 0, truncated |-> FALSE]
NoResult == [available |-> FALSE, items |-> 0, inaccessible |-> 0, truncated |-> FALSE]

rule == Rules[place[1]]
target == rule[place[2]]
top == Head(stack)

TypeOK ==
  /\ FSTypeOK
  /\ pc \in {"rule", "available", "usable", "open", "loop", "measure",
             "recheck", "increment", "advance", "done"}
  /\ place \in Nat \X Nat
  /\ stack \in Seq([dir : Dirs, path : Seq(Names), must : SUBSET Names, may : SUBSET Names])
  /\ at = End \/ at \in [path : Seq(Names), kind : Kinds, pending : BOOLEAN]
  /\ error \in BOOLEAN
  /\ error => at = End /\ stack = <<>>
  /\ pc \in {"measure", "recheck", "increment", "advance"} => at # End /\ stack # <<>>
  /\ stats \in [items : 0..EntryLimit, inaccessible : Nat, truncated : BOOLEAN]
  /\ result \in [available : BOOLEAN, items : Nat, inaccessible : Nat, truncated : BOOLEAN]
  /\ Len(report) <= Len(Rules)
  /\ cancelled \in BOOLEAN
  /\ faults \in 0..MaxFaults
  /\ reach \subseteq Dirs /\ strays \subseteq Dirs

Init ==
  /\ FSInit
  /\ pc = "rule" /\ place = <<1, 1>>
  /\ stack = <<>> /\ at = End /\ error = FALSE
  /\ stats = NoStats /\ result = NoResult /\ report = <<>>
  /\ cancelled = FALSE /\ faults = 0
  /\ seen = {} /\ reach = {} /\ strays = {}

-----------------------------------------------------------------------------
(* Paths from the root, as the kernel resolves them. *)

Followed(x) == IF x \in Links THEN Target[x] ELSE x

\* lstat: a link that is not the last component is followed.
Lstat(t, path) ==
  LET step[i \in 0..Len(path)] ==
        IF i = 0 THEN Root
        ELSE LET d == Followed(step[i - 1]) IN
             IF d \in Dirs THEN t[d][path[i]] ELSE None
  IN  step[Len(path)]

UsableDirectory(path) == Lstat(tree, path) \in Dirs

IsExcluded(path) == \E e \in target.exclusions : IsPrefix(e, path)

Fault == faults < MaxFaults /\ faults' = faults + 1
Errs(ok) == (~ok /\ UNCHANGED faults) \/ Fault

-----------------------------------------------------------------------------
(* scan. *)

\* The next rule, unless the scan was cancelled.
StartRule ==
  /\ pc = "rule"
  /\ \/ /\ cancelled \/ place[1] > Len(Rules)
        /\ pc' = "done"
        /\ UNCHANGED <<place, result, report>>
     \/ /\ ~cancelled /\ place[1] <= Len(Rules)
        /\ result' = NoResult
        /\ IF rule = <<>>
           THEN /\ report' = Append(report, NoResult)
                /\ place' = <<place[1] + 1, 1>>
                /\ UNCHANGED pc
           ELSE pc' = "available" /\ UNCHANGED <<place, report>>
  /\ UNCHANGED <<fsVars, stack, at, error, stats, cancelled, faults, seen, reach, strays>>

\* The rule is available if one of its targets is a directory.
Available ==
  /\ pc = "available"
  /\ result' = [result EXCEPT !.available = @ \/ UsableDirectory(target.path)]
  /\ pc' = "usable"
  /\ UNCHANGED <<fsVars, place, stack, at, error, stats, report, cancelled,
                 faults, seen, reach, strays>>

\* Faulty: the last target's numbers stand for the whole rule.
FinishLast(s) ==
  LET last == [result EXCEPT !.items = s.items,
                             !.inaccessible = s.inaccessible,
                             !.truncated = s.truncated]
  IN  /\ stats' = NoStats
      /\ stack' = <<>> /\ at' = End /\ error' = FALSE
      /\ result' = last
      /\ IF place[2] < Len(rule)
         THEN /\ place' = <<place[1], place[2] + 1>>
              /\ pc' = "available"
              /\ UNCHANGED report
         ELSE /\ report' = Append(report, last)
              /\ place' = <<place[1] + 1, 1>>
              /\ pc' = "rule"

\* The results of a target are added to those of its rule, and the rule's
\* to the report after its last target.
Finish(s) ==
  LET sum == [result EXCEPT !.items = @ + s.items,
                            !.inaccessible = @ + s.inaccessible,
                            !.truncated = @ \/ s.truncated]
  IN  /\ stats' = NoStats
      /\ stack' = <<>> /\ at' = End /\ error' = FALSE
      /\ result' = sum
      /\ IF place[2] < Len(rule)
         THEN /\ place' = <<place[1], place[2] + 1>>
              /\ pc' = "available"
              /\ UNCHANGED report
         ELSE /\ report' = Append(report, sum)
              /\ place' = <<place[1] + 1, 1>>
              /\ pc' = "rule"

-----------------------------------------------------------------------------
(* scanTarget. *)

\* What is not a directory has no entries.
Usable ==
  /\ pc = "usable"
  /\ \/ /\ UsableDirectory(target.path)
        /\ pc' = "open"
        /\ UNCHANGED <<place, stack, at, error, stats, result, report>>
     \/ ~UsableDirectory(target.path) /\ Finish(NoStats)
  /\ UNCHANGED <<fsVars, cancelled, faults, seen, reach, strays>>

Stream(d, path) == [dir |-> d, path |-> path, must |-> Entries(tree, d), may |-> {}]

\* The iterator ends.
Ended(failed) == stack' = <<>> /\ at' = End /\ error' = failed /\ pc' = "loop"

\* The constructor opens the target by its path and reads the first entry;
\* a target that may not be read is empty.
OpenTarget ==
  /\ pc = "open"
  /\ LET d == Followed(Lstat(tree, target.path)) IN
     \/ /\ d \in Dirs \ Unreadable
        /\ stack' = <<Stream(d, target.path)>>
        /\ at' = [path |-> target.path, kind |-> "other", pending |-> FALSE]
        /\ reach' = Below(tree, {d}) /\ strays' = {}
        /\ pc' = "advance"
        /\ UNCHANGED <<error, faults>>
     \/ /\ d \in Unreadable
        /\ Ended(FALSE)
        /\ UNCHANGED <<faults, reach, strays>>
     \/ /\ Errs(d \in Dirs)
        /\ Ended(TRUE)
        /\ UNCHANGED <<reach, strays>>
  /\ UNCHANGED <<fsVars, place, stats, result, report, cancelled, seen>>

AtEntry == pc = "loop" /\ at # End

\* Faulty: an error that ended the iteration is forgotten.
EndOfTargetQuietly ==
  /\ pc = "loop" /\ at = End
  /\ Finish(stats)
  /\ UNCHANGED <<fsVars, cancelled, faults, seen, reach, strays>>

\* An error that ended the iteration is counted once.
EndOfTarget ==
  /\ pc = "loop" /\ at = End
  /\ Finish(IF error THEN [stats EXCEPT !.inaccessible = @ + 1] ELSE stats)
  /\ UNCHANGED <<fsVars, cancelled, faults, seen, reach, strays>>

IsAtLimit == stats.items >= EntryLimit

\* The loop is left at an entry when the scan was cancelled or is at its limit.
CutShort ==
  /\ AtEntry
  /\ cancelled \/ IsAtLimit
  /\ Finish([stats EXCEPT !.truncated = TRUE])
  /\ UNCHANGED <<fsVars, cancelled, faults, seen, reach, strays>>

\* Faulty: the iterator is not incremented.
PassOverAgain ==
  /\ AtEntry
  /\ ~cancelled /\ ~IsAtLimit
  /\ IsExcluded(at.path)
  /\ at' = [at EXCEPT !.pending = FALSE]
  /\ UNCHANGED <<fsVars, pc, place, stack, error, stats, result, report,
                 cancelled, faults, seen, reach, strays>>

\* An excluded entry is not measured, nor a directory entered.
PassOver ==
  /\ AtEntry
  /\ ~cancelled /\ ~IsAtLimit
  /\ IsExcluded(at.path)
  /\ at' = [at EXCEPT !.pending = FALSE]
  /\ pc' = "increment"
  /\ UNCHANGED <<fsVars, place, stack, error, stats, result, report, cancelled,
                 faults, seen, reach, strays>>

Consider ==
  /\ AtEntry
  /\ ~cancelled /\ ~IsAtLimit
  /\ ~IsExcluded(at.path)
  /\ pc' = "measure"
  /\ UNCHANGED <<fsVars, place, stack, at, error, stats, result, report,
                 cancelled, faults, seen, reach, strays>>

\* allocatedBytes: lstat of the whole path.
Measure ==
  /\ pc = "measure"
  /\ LET found == Lstat(tree, at.path) # None IN
     \/ /\ found
        /\ stats' = [stats EXCEPT !.items = @ + 1]
        /\ seen' = seen \cup {<<place, at.path>>}
        /\ UNCHANGED faults
     \/ /\ Errs(found)
        /\ stats' = [stats EXCEPT !.inaccessible = @ + 1]
        /\ UNCHANGED seen
  /\ pc' = "recheck"
  /\ UNCHANGED <<fsVars, place, stack, at, error, result, report, cancelled, reach, strays>>

\* symlink_status: a second lstat of the path; what is a link by now is not
\* entered.
Recheck ==
  /\ pc = "recheck"
  /\ \/ /\ at' = [at EXCEPT !.pending = @ /\ Lstat(tree, at.path) \notin Links]
        /\ UNCHANGED faults
     \/ Fault /\ UNCHANGED at
  /\ pc' = "increment"
  /\ UNCHANGED <<fsVars, place, stack, error, stats, result, report, cancelled,
                 seen, reach, strays>>

\* Faulty: openat without O_NOFOLLOW.
OpenedFollowing(x) ==
  LET y == Followed(x) IN IF y \in Dirs THEN y ELSE None

\* openat with O_DIRECTORY | O_NOFOLLOW: the directory it opens, if any.
Opened(x) == IF x \in Dirs THEN x ELSE None

\* increment: a directory that is to be entered is opened below its parent.
Descend ==
  /\ pc = "increment"
  /\ LET d == Opened(tree[top.dir][Last(at.path)]) IN
     \/ /\ ~at.pending \/ d \in Unreadable
        /\ pc' = "advance"
        /\ UNCHANGED <<stack, at, error, faults>>
     \/ /\ at.pending /\ d \in Dirs \ Unreadable
        /\ stack' = <<Stream(d, at.path)>> \o stack
        /\ pc' = "advance"
        /\ UNCHANGED <<at, error, faults>>
     \/ /\ at.pending /\ Errs(d \in Dirs)
        /\ Ended(TRUE)
  /\ UNCHANGED <<fsVars, place, stats, result, report, cancelled, seen, reach, strays>>

\* advance: the stream returns an entry with the type it had then.
NextEntry(n) ==
  /\ pc = "advance"
  /\ n \in top.must \cup top.may
  /\ stack' = <<[top EXCEPT !.must = @ \ {n}, !.may = @ \ {n}]>> \o Tail(stack)
  /\ \E kind \in Kinds :
       /\ tree[top.dir][n] # None => (kind = "dir" <=> tree[top.dir][n] \in Dirs)
       /\ at' = [path |-> Append(top.path, n), kind |-> kind, pending |-> kind = "dir"]
  /\ pc' = "loop"
  /\ UNCHANGED <<fsVars, place, error, stats, result, report, cancelled, faults,
                 seen, reach, strays>>

\* advance: a stream is at its end, or fails.
EndOfStream ==
  /\ pc = "advance"
  /\ \/ /\ top.must = {} /\ Len(stack) > 1
        /\ stack' = Tail(stack)
        /\ UNCHANGED <<pc, at, error, faults>>
     \/ /\ top.must = {} /\ Len(stack) = 1
        /\ Ended(FALSE)
        /\ UNCHANGED faults
     \/ Fault /\ Ended(TRUE)
  /\ UNCHANGED <<fsVars, place, stats, result, report, cancelled, seen, reach, strays>>

Scan ==
  \/ StartRule \/ Available
  \/ Usable \/ OpenTarget
  \/ EndOfTarget \/ CutShort \/ PassOver \/ Consider
  \/ Measure \/ Recheck
  \/ Descend
  \/ \E n \in Names : NextEntry(n)
  \/ EndOfStream

-----------------------------------------------------------------------------
(* The window and the other processes. *)

Cancel ==
  /\ pc # "done" /\ ~cancelled
  /\ cancelled' = TRUE
  /\ UNCHANGED <<fsVars, scanVars, reach, strays>>

\* An entry that others add or remove may or may not come up in a stream.
Watch(f) ==
  LET new == {n \in Names : tree'[f.dir][n] # tree[f.dir][n]}
  IN  [f EXCEPT !.must = @ \ new, !.may = @ \cup new]

Interfere ==
  /\ pc # "done"
  /\ Applications
  /\ stack' = [i \in DOMAIN stack |-> Watch(stack[i])]
  /\ IF stack = <<>>
     THEN UNCHANGED <<reach, strays>>
     ELSE LET inside == Below(tree', {Last(stack).dir}) IN
          /\ reach' = reach \cup inside
          /\ strays' = strays \cup (PutInto(reach \ inside) \ reach')
  /\ UNCHANGED <<pc, place, at, error, stats, result, report, cancelled, faults, seen>>

Finished == pc = "done" /\ UNCHANGED vars

Next == Scan \/ Cancel \/ Interfere \/ Finished

\* The scan is one thread that the scheduler keeps running.
Spec == Init /\ [][Next]_vars /\ WF_vars(Scan)

-----------------------------------------------------------------------------
(* Correctness. *)

Paths == UNION {[1..k -> Names] : k \in 1..Cardinality(Dirs)}

\* What there is to measure before the scan in each target of each rule: the
\* entries below it that are neither excluded nor hidden by a link or by a
\* directory that may not be read.
Visible ==
  LET Node(p) == Lstat(InitTree, p)
      Measurable(t) ==
        {p \in {t.path \o q : q \in Paths} :
           /\ Node(p) # None
           /\ \A e \in t.exclusions : ~IsPrefix(e, p)
           /\ \A k \in Len(t.path)..(Len(p) - 1) : Node(SubSeq(p, 1, k)) \in Dirs \ Unreadable}
  IN  [i \in DOMAIN Rules |-> [j \in DOMAIN Rules[i] |-> Measurable(Rules[i][j])]]

\* Nobody has moved, removed or replaced anything on the path.
Untouched(p) ==
  \A k \in 1..Len(p) :
    LET x == Lstat(InitTree, SubSeq(p, 1, k)) IN
    x = Lstat(tree, SubSeq(p, 1, k)) /\ x \notin moved

\* A result without a mark is complete: when it is neither truncated nor
\* has inaccessible entries, everything that was there before the scan and
\* was left alone has been measured, in a cancelled scan as well.
Complete ==
  pc = "done" => \A i \in DOMAIN report :
    ~report[i].truncated /\ report[i].inaccessible = 0 =>
      \A j \in DOMAIN Rules[i] : \A p \in Visible[i][j] :
        <<<<i, j>>, p>> \in seen \/ ~Untouched(p)

Size(i, j) == Cardinality(Visible[i][j])
Capped(i, j) == IF Size(i, j) < EntryLimit THEN Size(i, j) ELSE EntryLimit

\* What a scan that nothing disturbs counts in the first targets of a rule.
Counted(i) ==
  LET count[j \in 0..Len(Rules[i])] == IF j = 0 THEN 0 ELSE count[j - 1] + Capped(i, j)
  IN  count

\* A scan that nothing disturbs counts every entry exactly once, up to the
\* limit in each target, and no result is truncated without reason.
QuietCount ==
  changes = 0 /\ faults = 0 /\ ~cancelled =>
    \A i \in DOMAIN report :
      /\ report[i].items = Counted(i)[Len(Rules[i])]
      /\ report[i].inaccessible = 0
      /\ report[i].truncated => \E j \in DOMAIN Rules[i] : Size(i, j) >= EntryLimit

\* The iteration never enters what was never at or below the directory it
\* opened: no symbolic link is followed, whatever is swapped between two
\* calls.  The exception is what other processes put into a directory that has
\* left the opened one: an iteration that is in there meets it.
Contained ==
  \A k \in DOMAIN stack :
    \/ stack[k].dir \in reach
    \/ \E j \in k..Len(stack) : stack[j].dir \in strays

\* The scan ends.
Ends == <>(pc = "done")
=============================================================================
