------------------------------ MODULE PathGuard ------------------------------
(***************************************************************************)
(* PathGuard::permits and PathGuard::openApprovedDirectory                 *)
(* (src/core/safe_delete.cpp): how a rule's path becomes the directory     *)
(* descriptor that SafeDelete clears, or a refusal.                        *)
(*                                                                         *)
(* permits looks at the path by name, one lstat per component below the    *)
(* home directory, each of which the kernel resolves from / and through    *)
(* whatever links stand before the last component at that moment.          *)
(* openApprovedDirectory then starts again from / and opens component      *)
(* after component, following no link.  Other processes may rearrange the  *)
(* tree between any two of these calls.                                    *)
(*                                                                         *)
(* Paths are sequences of names from Root, the directory /.  They are      *)
(* normalized and absolute, as RuleCatalog builds them.                    *)
(***************************************************************************)
EXTENDS FileSystem, SequencesExt

CONSTANTS
  Home,         \* the home directory's path
  Settings,     \* .config, .local and .local/share, as paths from Home
  Approved,     \* the paths of the user rules' targets
  Candidates,   \* the paths a caller may ask for
  Owner,        \* the owner of each inode
  User,         \* the user running Vacuo
  MaxFaults     \* bound on the calls that fail though the tree allows them

ASSUME GuardAssumption ==
  /\ Home \in Seq(Names)
  /\ Settings \subseteq Seq(Names)
  /\ Approved \subseteq Seq(Names)
  /\ Candidates \subseteq Seq(Names)
  /\ DOMAIN Owner = Nodes
  /\ MaxFaults \in Nat

VARIABLES
  pc,       \* the next check or call
  target,   \* the path asked for
  index,    \* the component it is at
  fd,       \* the directory descriptor held, or None
  faults,   \* injected failures so far
  passed    \* history: the directories opened on the way, from the root

guardVars == <<pc, target, index, fd, faults, passed>>
vars == <<fsVars, guardVars>>

TypeOK ==
  /\ FSTypeOK
  /\ pc \in {"lexical", "links", "lstat", "root", "openat", "fstat",
             "denied", "opened"}
  /\ target \in Candidates
  /\ index \in 0..(Len(target) + 1)
  /\ fd \in Dirs \cup {None}
  /\ (fd # None) <=> pc \in {"openat", "fstat", "opened"}
  /\ pc = "openat" => index > 0
  /\ faults \in 0..MaxFaults
  /\ passed \in Seq(Dirs)

Init ==
  /\ FSInit
  /\ pc = "lexical"
  /\ target \in Candidates
  /\ index = 0
  /\ fd = None
  /\ faults = 0
  /\ passed = <<>>

-----------------------------------------------------------------------------
Fault == faults < MaxFaults /\ faults' = faults + 1

\* The descriptor held, if any, is closed.
Deny == pc' = "denied" /\ fd' = None /\ UNCHANGED <<fsVars, target, index, passed>>

Go(next) == pc' = next /\ UNCHANGED <<fsVars, target, passed>>

ProtectedPaths == {<<>>, Home} \cup {Home \o s : s \in Settings}

LexicallyDenied(path) ==
  \/ path \in ProtectedPaths
  \/ ~IsPrefix(Home, path)
  \/ path \notin Approved

\* How the kernel resolves a path: links before the last component are
\* followed; a component below a file ends at that file (ENOTDIR).
Follow(x) == IF x \in Links THEN Target[x] ELSE x
Holder(path) ==
  LET at[i \in 0..Len(path)] ==
        IF i = 0 THEN Root
        ELSE IF at[i - 1] \in Dirs THEN Follow(tree[at[i - 1]][path[i]])
             ELSE at[i - 1]
  IN  at[Len(path) - 1]

Lstat(path) ==
  IF Holder(path) \in Dirs THEN tree[Holder(path)][Last(path)] ELSE None

\* Faulty variants, here and below, are what a slip in the code would do;
\* each one breaks a property, and none is part of the specification.
\* This one is openat without O_NOFOLLOW.
OpenedFollowing(x) == IF Follow(x) \in Dirs THEN Follow(x) ELSE None
\* openat with O_DIRECTORY | O_NOFOLLOW.
Opened(x) == IF x \in Dirs THEN x ELSE None

-----------------------------------------------------------------------------
Lexical ==
  /\ pc = "lexical"
  /\ UNCHANGED faults
  /\ IF LexicallyDenied(target) THEN Deny
     ELSE Go("links") /\ index' = Len(Home) + 1 /\ UNCHANGED fd

\* hasUnsafeSymlinkComponent: a link, or an error other than "no such
\* entry", is refused; the first missing component ends the loop.
CheckComponent ==
  /\ pc = "links"
  /\ IF index > Len(target)
     THEN Go("lstat") /\ UNCHANGED <<index, fd, faults>>
     ELSE LET path == SubSeq(target, 1, index) IN
          \/ /\ Holder(path) \in Files \/ Lstat(path) \in Links
             /\ Deny /\ UNCHANGED faults
          \/ /\ Holder(path) \notin Files /\ Lstat(path) = None
             /\ Go("lstat") /\ UNCHANGED <<index, fd, faults>>
          \/ /\ Lstat(path) \in Dirs \cup Files
             /\ Go("links") /\ index' = index + 1 /\ UNCHANGED <<fd, faults>>
          \/ Fault /\ Deny

IsOwned(x) == x \in Dirs /\ Owner[x] = User

CheckTarget ==
  /\ pc = "lstat"
  /\ \/ /\ UNCHANGED faults
        /\ IF IsOwned(Lstat(target)) THEN Go("root") /\ UNCHANGED <<index, fd>>
           ELSE Deny
     \/ Fault /\ Deny

OpenRoot ==
  /\ pc = "root"
  /\ \/ /\ fd' = Root /\ index' = 1
        /\ pc' = "openat" /\ passed' = <<Root>>
        /\ UNCHANGED <<fsVars, target, faults>>
     \/ Fault /\ Deny

\* Faulty: stops one component short.
OpenButLast ==
  /\ pc = "openat"
  /\ IF index >= Len(target)
     THEN Go("fstat") /\ UNCHANGED <<index, fd, faults>>
     ELSE LET d == Opened(tree[fd][target[index]]) IN
          IF d = None THEN Deny /\ UNCHANGED faults
          ELSE /\ fd' = d /\ index' = index + 1 /\ passed' = Append(passed, d)
               /\ UNCHANGED <<fsVars, pc, target, faults>>

\* The next component is opened in the directory held, which is then closed.
OpenComponent ==
  /\ pc = "openat"
  /\ IF index > Len(target)
     THEN Go("fstat") /\ UNCHANGED <<index, fd, faults>>
     ELSE LET d == Opened(tree[fd][target[index]]) IN
          \/ d = None /\ Deny /\ UNCHANGED faults
          \/ /\ d # None
             /\ fd' = d /\ index' = index + 1 /\ passed' = Append(passed, d)
             /\ UNCHANGED <<fsVars, pc, target, faults>>
          \/ Fault /\ Deny

\* Faulty: the owner found by lstat is trusted.
TrustLstat ==
  /\ pc = "fstat"
  /\ UNCHANGED faults
  /\ Go("opened") /\ UNCHANGED <<index, fd>>

\* The last check is of the directory that was opened, not of a path.
CheckOpened ==
  /\ pc = "fstat"
  /\ \/ /\ UNCHANGED faults
        /\ IF IsOwned(fd) THEN Go("opened") /\ UNCHANGED <<index, fd>> ELSE Deny
     \/ Fault /\ Deny

Guard ==
  \/ Lexical
  \/ CheckComponent
  \/ CheckTarget
  \/ OpenRoot
  \/ OpenComponent
  \/ CheckOpened

Interfere ==
  /\ pc \notin {"denied", "opened"}
  /\ Applications
  /\ UNCHANGED guardVars

Decided == pc \in {"denied", "opened"} /\ UNCHANGED vars

Next == Guard \/ Interfere \/ Decided

Spec == Init /\ [][Next]_vars /\ WF_vars(Guard)

-----------------------------------------------------------------------------
(* Correctness. *)

\* The directories lead along the path, none of them through a link.
Leads(along, path) ==
  /\ Len(along) = Len(path) + 1
  /\ \A i \in 1..Len(path) : tree[along[i]][path[i]] = along[i + 1]

\* While nobody renames or removes a directory on the way, the directory that
\* is opened is the one the path names without following any link - whatever
\* links are put in its place between the checks and the opens - and the path
\* is approved, below home and not protected.
OpenedIsTarget ==
  pc = "opened" /\ Range(passed) \cap moved = {} /\ Alive(tree, fd) =>
    /\ ~LexicallyDenied(target)
    /\ Leads(passed, target) /\ Head(passed) = Root /\ Last(passed) = fd

\* Not even a swap between the checks and the opens gets the directory of
\* another user cleared.
OpenedIsOwned == pc = "opened" => Owner[fd] = User

\* Undisturbed, the answer is exact: a path is opened if and only if it is
\* approved, not protected, below home and a real directory of the user's.
QuietAnswer ==
  changes = 0 /\ faults = 0 =>
    /\ pc = "opened" => ~LexicallyDenied(target)
    /\ pc = "opened" => IsOwned(Resolve(tree, Root, target)) /\ fd = Resolve(tree, Root, target)
    /\ pc = "denied" => LexicallyDenied(target) \/ ~IsOwned(Resolve(tree, Root, target))
=============================================================================
