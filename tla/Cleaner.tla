-------------------------------- MODULE Cleaner --------------------------------
(***************************************************************************)
(* Cleaner::execute (src/core/cleaner.cpp): the loop over the requested    *)
(* categories, the user's own first and those of the helper at the end,    *)
(* run by the window and by vacuoctl, possibly at the same time, on a tree *)
(* that applications use meanwhile.                                        *)
(*                                                                         *)
(* One action per check and per entry removed.  SafeDelete's walk is       *)
(* reduced to the order it has to keep, what is below an entry goes before *)
(* the entry, and to the depth where it ends.  The helper's part is a      *)
(* single step here; PrivilegedClean says what it may report.              *)
(***************************************************************************)
EXTENDS RuleCatalog, FiniteSets, FiniteSetsExt, Integers

CONSTANTS
  Cleaners,    \* calls of execute
  Situations,  \* home, environment, root and the tree they meet
  Requests,    \* the sets of identifiers a call may be given
  Rank,        \* the place of each identifier in a std::set of them
  Links,       \* the symbolic links, and the paths they point to
  Files,       \* the paths of what is no directory
  Foreign,     \* the directories of other users
  MaxDepth,    \* the depth to which SafeDelete descends
  Arrivals,    \* the entries applications may create
  MaxChanges,  \* bound on the changes by applications
  MaxFaults    \* bound on the calls that fail though the tree allows them

ASSUME CleanerAssumption ==
  /\ \A asked \in Requests : asked \subseteq DOMAIN Rank
  /\ UserIds \cap SystemIds = {}
  /\ \A i, j \in DOMAIN Rank : Rank[i] \in Int /\ (i # j => Rank[i] # Rank[j])
  /\ MaxDepth \in Nat /\ MaxChanges \in Nat /\ MaxFaults \in Nat
  /\ IsFiniteSet(Cleaners)

\* With an entry come the directories it is in, the root included, and nothing
\* is in a file; what lies behind a link is known by the path the link points
\* to.
ASSUME TreeAssumption ==
  /\ DOMAIN Links \subseteq Paths /\ Arrivals \subseteq Paths
  /\ \A s \in Situations :
       /\ {s.home, s.cacheEnv, s.dataEnv} \subseteq Paths /\ s.entries \subseteq Paths
       /\ IsFiniteSet(s.entries)
       /\ \A e \in s.entries : \A n \in 0..Len(e) : SubSeq(e, 1, n) \in s.entries
  /\ \A e \in Arrivals \cup UNION {s.entries : s \in Situations} :
       /\ \A l \in DOMAIN Links : ~IsPrefix(l, e)
       /\ \A f \in Files : ~IsStrictPrefix(f, e)

VARIABLES
  system,   \* system_, with whether the program runs as root
  entries,  \* the paths of what exists
  request,  \* the identifiers each call was given
  pc,       \* where each call is
  ids,      \* uniqueIds, those still to come
  rule,     \* the category at hand
  left,     \* its targets from the one at hand on
  todo,     \* what SafeDelete will meet in that target
  action,   \* success and items of the category at hand
  report,   \* the report: success of each category answered so far
  total,    \* its itemsRemoved
  changes, faults,
  \* for the properties only:
  before,   \* what existed when the call started
  arrived,  \* what applications created
  balance,  \* number of entries there would be without the cleaners
  skipped   \* targets that could not be examined, per call

fixed == <<system, request, before>>
tree == <<entries, arrived, balance, changes>>
answers == <<report, total>>
vars == <<fixed, tree, faults, skipped, pc, ids, rule, left, todo, action, answers>>

Ids == DOMAIN Rank
Results == {"none", "ok", "failed"}

TypeOK ==
  /\ request \in [Cleaners -> Requests]
  /\ pc \in [Cleaners -> {"rule", "target", "open", "clear", "done"}]
  /\ ids \in [Cleaners -> SUBSET Ids]
  /\ rule \in [Cleaners -> UserIds \cup {"none"}]
  /\ DOMAIN left = Cleaners /\ DOMAIN todo = Cleaners
  /\ action \in [Cleaners -> [success : BOOLEAN, items : Nat]]
  /\ report \in [Cleaners -> [Ids -> Results]]
  /\ total \in [Cleaners -> Nat]
  /\ changes \in 0..MaxChanges /\ faults \in 0..MaxFaults
  /\ \A c \in Cleaners :
       /\ ids[c] \subseteq request[c]
       /\ pc[c] \in {"rule", "done"} <=> rule[c] = "none"
       /\ pc[c] \in {"open", "clear"} => left[c] # <<>>
       /\ pc[c] # "clear" => todo[c] = {}
       /\ pc[c] = "rule" => action[c].items = 0

Start == [success |-> TRUE, items |-> 0]

Init ==
  /\ \E s \in Situations :
       /\ system = Detect(s.home, s.cacheEnv, s.dataEnv, s.root)
       /\ entries = s.entries
  /\ request \in [Cleaners -> Requests]
  /\ pc = [c \in Cleaners |-> "rule"]
  /\ ids = request
  /\ rule = [c \in Cleaners |-> "none"]
  /\ left = [c \in Cleaners |-> <<>>]
  /\ todo = [c \in Cleaners |-> {}]
  /\ action = [c \in Cleaners |-> Start]
  /\ report = [c \in Cleaners |-> [i \in Ids |-> "none"]]
  /\ total = [c \in Cleaners |-> 0]
  /\ changes = 0 /\ faults = 0
  /\ before = entries
  /\ arrived = {}
  /\ balance = Cardinality(entries)
  /\ skipped = [c \in Cleaners |-> {}]

Fault == faults < MaxFaults /\ faults' = faults + 1
NoFault == UNCHANGED faults

-----------------------------------------------------------------------------
(* The tree. *)

\* A path as the kernel follows it, through a link on the way.
Resolve(path) ==
  IF \E l \in DOMAIN Links : IsPrefix(l, path)
  THEN LET l == CHOOSE l \in DOMAIN Links : IsPrefix(l, path)
       IN  Links[l] \o SubSeq(path, Len(l) + 1, Len(path))
  ELSE path

\* fs::exists
Exists(path) == Resolve(Bare(path)) \in entries

\* Faulty: the empty component after a slash at the end is passed over.
OpensSpelled(path) ==
  /\ LexicallyPermitted(system, path)
  /\ ~\E l \in DOMAIN Links : IsPrefix(l, Bare(path))
  /\ Bare(path) \in entries

\* openApprovedDirectory: what is opened is a directory of the user's.  There
\* is no entry with an empty name, so a path with a slash at its end is
\* permitted but never opened.
Opens(path) ==
  /\ LexicallyPermitted(system, path)
  /\ ~\E l \in DOMAIN Links : IsPrefix(l, Bare(path))
  /\ Bare(path) = path
  /\ path \in entries \ (Files \cup Foreign)

\* clearDirectoryFd refuses a directory too deep below the boundary; it is
\* listed in the directory it is in, and nothing of what it holds is.
Refused(boundary, e) == e \notin Files /\ Len(e) > Len(boundary) + MaxDepth
Listable(boundary, e) == Len(e) <= Len(boundary) + MaxDepth + 1

\* What the walk from a boundary meets, when it is there.
Meetable(id, boundary, e) ==
  IsContent(system, id, boundary, e) /\ Listable(boundary, e)

HoldsSomething(path) == \E e \in entries : IsStrictPrefix(path, e)

-----------------------------------------------------------------------------
(* One call of execute.  Root is refused before anything else. *)

\* Faulty: root is not refused.
MayGoOnAsRoot(c) == pc[c] = "rule"

MayGoOn(c) == pc[c] = "rule" /\ ~system.root

Refuse(c) ==
  /\ pc[c] = "rule" /\ system.root
  /\ pc' = [pc EXCEPT ![c] = "done"]
  /\ UNCHANGED <<fixed, tree, faults, skipped, ids, rule, left, todo, action,
                 answers>>

\* The next identifier: one of the user's own categories is begun; one of
\* the helper's is put off; an unknown one is answered.
NextRule(c) ==
  /\ MayGoOn(c)
  /\ \E next \in ids[c] :
       /\ \A i \in ids[c] : Rank[next] <= Rank[i]
       /\ ids' = [ids EXCEPT ![c] = @ \ {next}]
       /\ IF next \in UserIds
          THEN /\ rule' = [rule EXCEPT ![c] = next]
               /\ left' = [left EXCEPT ![c] = Targets(system, next)]
               /\ action' = [action EXCEPT ![c] = Start]
               /\ pc' = [pc EXCEPT ![c] = "target"]
               /\ UNCHANGED report
          ELSE /\ report' = IF next \in SystemIds THEN report
                            ELSE [report EXCEPT ![c][next] = "failed"]
               /\ UNCHANGED <<pc, rule, left, action>>
  /\ UNCHANGED <<fixed, tree, faults, skipped, todo, total>>

\* Faulty: the first target that is missing ends the category.
ExamineFirst(c) ==
  /\ pc[c] = "target" /\ left[c] # <<>>
  /\ NoFault /\ UNCHANGED skipped
  /\ IF Exists(Head(left[c]))
     THEN pc' = [pc EXCEPT ![c] = "open"] /\ UNCHANGED left
     ELSE left' = [left EXCEPT ![c] = <<>>] /\ UNCHANGED pc
  /\ UNCHANGED <<fixed, tree, ids, rule, todo, action, answers>>

\* A target that does not exist is passed over, and so is one of which
\* fs::exists cannot tell.
Examine(c) ==
  /\ pc[c] = "target" /\ left[c] # <<>>
  /\ \/ /\ Exists(Head(left[c])) /\ NoFault
        /\ pc' = [pc EXCEPT ![c] = "open"]
        /\ UNCHANGED <<left, skipped>>
     \/ /\ ~Exists(Head(left[c])) /\ NoFault
        /\ left' = [left EXCEPT ![c] = Tail(@)]
        /\ UNCHANGED <<pc, skipped>>
     \/ /\ Fault
        /\ left' = [left EXCEPT ![c] = Tail(@)]
        /\ skipped' = [skipped EXCEPT ![c] = @ \cup {Head(left[c])}]
        /\ UNCHANGED pc
  /\ UNCHANGED <<fixed, tree, ids, rule, todo, action, answers>>

\* clearContents opens the boundary, or the target is a failure.
Open(c) ==
  /\ pc[c] = "open"
  /\ LET boundary == Head(left[c]) IN
     \/ /\ Opens(boundary) /\ NoFault
        /\ todo' = [todo EXCEPT ![c] = {e \in entries : Meetable(rule[c], boundary, e)}]
        /\ pc' = [pc EXCEPT ![c] = "clear"]
        /\ UNCHANGED <<left, action>>
     \/ /\ IF Opens(boundary) THEN Fault ELSE NoFault
        /\ action' = [action EXCEPT ![c].success = FALSE]
        /\ left' = [left EXCEPT ![c] = Tail(@)]
        /\ pc' = [pc EXCEPT ![c] = "target"]
        /\ UNCHANGED todo
  /\ UNCHANGED <<fixed, tree, skipped, ids, rule, answers>>

Meets(c, e) ==
  /\ pc[c] = "clear"
  /\ e \in todo[c]
  /\ ~\E d \in todo[c] : IsStrictPrefix(e, d)
  /\ todo' = [todo EXCEPT ![c] = @ \ {e}]
  /\ UNCHANGED <<fixed, arrived, balance, changes, skipped, pc, ids, rule, left,
                 answers>>

\* Faulty: an entry that is gone already counts as removed.
UnlinkGone(c, e) ==
  /\ Meets(c, e)
  /\ ~HoldsSomething(e)
  /\ entries' = entries \ {e}
  /\ action' = [action EXCEPT ![c].items = @ + 1,
                               ![c].success = @ /\ ~Refused(Head(left[c]), e)]
  /\ NoFault

\* unlinkat.  A directory that was too deep to be cleared is a failure, and
\* goes nevertheless if it is empty.
Unlink(c, e) ==
  /\ Meets(c, e)
  /\ e \in entries /\ ~HoldsSomething(e)
  /\ entries' = entries \ {e}
  /\ action' = [action EXCEPT ![c].items = @ + 1,
                               ![c].success = @ /\ ~Refused(Head(left[c]), e)]
  /\ NoFault

\* The entry holds an excluded, a new or too deep a one, is gone since the
\* listing, or the call fails: the category fails.
Keep(c, e) ==
  /\ Meets(c, e)
  /\ IF e \in entries /\ ~HoldsSomething(e) THEN Fault ELSE NoFault
  /\ action' = [action EXCEPT ![c].success = FALSE]
  /\ UNCHANGED entries

\* The entry was gone before the walk listed it.
Pass(c, e) ==
  /\ Meets(c, e)
  /\ e \notin entries
  /\ NoFault
  /\ UNCHANGED <<entries, action>>

Close(c) ==
  /\ pc[c] = "clear" /\ todo[c] = {}
  /\ left' = [left EXCEPT ![c] = Tail(@)]
  /\ pc' = [pc EXCEPT ![c] = "target"]
  /\ UNCHANGED <<fixed, tree, faults, skipped, ids, rule, todo, action, answers>>

\* The category's result enters the report.
EndRule(c) ==
  /\ pc[c] = "target" /\ left[c] = <<>>
  /\ report' = [report EXCEPT ![c][rule[c]] = IF action[c].success THEN "ok" ELSE "failed"]
  /\ total' = [total EXCEPT ![c] = @ + action[c].items]
  /\ action' = [action EXCEPT ![c] = Start]
  /\ rule' = [rule EXCEPT ![c] = "none"]
  /\ pc' = [pc EXCEPT ![c] = "rule"]
  /\ UNCHANGED <<fixed, tree, faults, skipped, ids, left, todo>>

\* executeSystemActions answers every category that was put off; without a
\* helper, or when it is not authorized, each of them with a failure.
SystemActions(c) ==
  /\ MayGoOn(c) /\ ids[c] = {}
  /\ \E ok \in SUBSET (request[c] \cap SystemIds) :
       report' = [report EXCEPT ![c] =
                    [i \in Ids |-> IF i \in ok THEN "ok"
                                   ELSE IF i \in request[c] \cap SystemIds THEN "failed"
                                   ELSE @[i]]]
  /\ pc' = [pc EXCEPT ![c] = "done"]
  /\ UNCHANGED <<fixed, tree, faults, skipped, ids, rule, left, todo, action, total>>

Execute(c) ==
  \/ Refuse(c)
  \/ NextRule(c)
  \/ Examine(c)
  \/ Open(c)
  \/ \E e \in todo[c] : Unlink(c, e) \/ Keep(c, e) \/ Pass(c, e)
  \/ Close(c)
  \/ EndRule(c)
  \/ SystemActions(c)

-----------------------------------------------------------------------------
(* Applications. *)

\* An entry is created; the walks that are at its boundary may meet it.
Create(e) ==
  /\ changes < MaxChanges
  /\ e \notin entries /\ Front(e) \in entries
  /\ entries' = entries \cup {e}
  /\ arrived' = arrived \cup {e}
  /\ balance' = balance + 1
  /\ changes' = changes + 1
  /\ \E seeing \in SUBSET {c \in Cleaners :
                             pc[c] = "clear" /\ Meetable(rule[c], Head(left[c]), e)} :
       todo' = [c \in Cleaners |-> IF c \in seeing THEN todo[c] \cup {e} ELSE todo[c]]
  /\ UNCHANGED <<fixed, faults, skipped, pc, ids, rule, left, action, answers>>

Discard(e) ==
  /\ changes < MaxChanges
  /\ e \in entries /\ ~HoldsSomething(e)
  /\ entries' = entries \ {e}
  /\ balance' = balance - 1
  /\ changes' = changes + 1
  /\ UNCHANGED <<fixed, arrived, faults, skipped, pc, ids, rule, left, todo, action,
                 answers>>

Applications == \E e \in entries : Discard(e)
Arrive == \E e \in Arrivals : Create(e)

Done == \A c \in Cleaners : pc[c] = "done"

Next ==
  \/ \E c \in Cleaners : Execute(c)
  \/ Applications \/ Arrive
  \/ Done /\ UNCHANGED vars

Spec == Init /\ [][Next]_vars

-----------------------------------------------------------------------------
(* Correctness. *)

\* The groups that the description of the application cache excepts:
\* rule_catalog.cpp:132.
SeparateGroups == {"thumbnails", "browser-cache", "developer-cache"}

\* With the data directory below the cache directory, the trash is part of
\* the application cache; nothing in the catalog separates the two.
DataBelowCache == IsWithin(Bare(system.cacheHome), system.dataHome)

\* An entry of a category the call was asked for, and none of a protected
\* directory, however that is spelled.
Requested(c, e) ==
  /\ \E id \in request[c] \cap UserIds : InCategory(system, id, e)
  /\ Bare(Head(left[c])) \notin ProtectedPaths(Bare(system.home))

\* What goes as application cache belongs to none of the groups that its
\* description excepts, whether these are asked for or not.
SparesGroups(c, e) ==
  rule[c] = "application-cache" => \A id \in SeparateGroups : ~InCategory(system, id, e)

\* Whatever the environment says, a cleanup removes only what belongs to a
\* category it was asked for, never the content of a protected directory, and
\* as application cache nothing of the groups that are separate from it.
OnlyRequested ==
  [][\A e \in entries \ entries' :
       changes' = changes =>
         \E c \in Cleaners :
           /\ ~system.root
           /\ e \in todo[c] \ todo'[c]
           /\ Requested(c, e)
           /\ SparesGroups(c, e)]_vars

\* Nothing of a category goes that was not asked for.  In a data directory
\* below the cache directory only the groups are separated.
CategoriesApart ==
  [][\A e \in entries \ entries' :
       changes' = changes =>
         \E c \in Cleaners :
           /\ e \in todo[c] \ todo'[c]
           /\ \A id \in UserIds \ request[c] :
                (id \in SeparateGroups \cup {"gaming-cache"} \/ ~DataBelowCache)
                  => ~InCategory(system, id, e)]_vars

\* Every entry that is gone and was not removed by an application is counted
\* exactly once, in one of the reports.
Accounted ==
  MapThenSumSet(LAMBDA c : total[c] + action[c].items, Cleaners)
    = balance - Cardinality(entries)

\* A category is reported as clean only if everything is gone that was there
\* when the call started, unless it came back or could not be examined.
SuccessMeansGone ==
  \A c \in Cleaners, id \in UserIds :
    id \in Ids /\ report[c][id] = "ok" =>
      \A i \in DOMAIN Targets(system, id), e \in before \cap entries :
        \/ ~IsContent(system, id, Targets(system, id)[i], e)
        \/ e \in arrived
        \/ Targets(system, id)[i] \in skipped[c]

\* Targets that exist but cannot be cleared: spelled with a slash, behind a
\* link, protected, no directory, or another user's.
Refusable(id) ==
  \E i \in DOMAIN Targets(system, id) :
    LET t == Targets(system, id)[i] IN
      \/ ~LexicallyPermitted(system, t)
      \/ t # Bare(t)
      \/ \E l \in DOMAIN Links : IsPrefix(l, Bare(t))
      \/ t \in before \cap (Files \cup Foreign)

\* A directory that holds an excluded one cannot be removed.
HoldsExcluded(id) ==
  \E e, d \in before :
    /\ InCategory(system, id, e)
    /\ IsStrictPrefix(e, d)
    /\ IsExcluded(d, Exclusions(system, id))

\* A directory that is too deep is not cleared.
HoldsTooDeep(id) ==
  \E i \in DOMAIN Targets(system, id), e \in before :
    /\ IsContent(system, id, Targets(system, id)[i], e)
    /\ Refused(Targets(system, id)[i], e)

\* Left alone, a cleanup fails only for a reason that lies in the tree.
FailureExplained ==
  \A c \in Cleaners, id \in UserIds :
    id \in Ids /\ report[c][id] = "failed" =>
      \/ faults > 0 \/ changes > 0
      \/ \E d \in Cleaners \ {c} : request[d] \cap UserIds # {}
      \/ Refusable(id) \/ HoldsExcluded(id) \/ HoldsTooDeep(id)

\* When the call is over, every category asked for has its answer.
Answered ==
  \A c \in Cleaners :
    pc[c] = "done" /\ ~system.root => \A id \in request[c] : report[c][id] # "none"

ReportFaithful == SuccessMeansGone /\ FailureExplained /\ Answered
=============================================================================
