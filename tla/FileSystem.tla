----------------------------- MODULE FileSystem -----------------------------
(***************************************************************************)
(* The directory tree that Vacuo measures and cleans, and the other        *)
(* processes of the same user that change it meanwhile.                    *)
(*                                                                         *)
(* The tree is what the kernel provides to src/core/safe_delete.cpp: a     *)
(* directory is an inode that outlives its name as long as a descriptor    *)
(* holds it, so frames of the walker refer to directories and not to       *)
(* paths.  An entry is found by (directory, name), as with the *at calls.  *)
(* A symbolic link is a leaf that has a target; hard links are left out.   *)
(*                                                                         *)
(* The actions are the calls of OTHER processes (applications that use     *)
(* the cache while it is being cleaned).  They are external to src/ and    *)
(* bounded: MaxChanges calls in a behaviour.                               *)
(***************************************************************************)
EXTENDS Naturals, FiniteSets, Sequences

CONSTANTS
  Dirs, Files, Links,   \* the inodes, by type
  Names,                \* directory entry names
  None,                 \* "no such entry"
  Root,                 \* the directory above the home directory's caches
  Target,               \* where each symbolic link leads in the end
  InitTree,             \* the tree before the run
  Spare,                \* inodes other processes may still create
  MaxChanges            \* bound on the calls of other processes

Nodes == Dirs \cup Files \cup Links
Trees == [Dirs -> [Names -> Nodes \cup {None}]]

ASSUME TreeAssumption ==
  /\ Root \in Dirs
  /\ None \notin Nodes
  /\ Dirs \cap (Files \cup Links) = {}
  /\ Target \in [Links -> Dirs \cup Files]
  /\ InitTree \in Trees
  /\ Spare \subseteq Nodes
  /\ MaxChanges \in Nat

VARIABLES
  tree,      \* tree[d][n] is the inode that directory d holds under name n
  fresh,     \* inodes not created yet
  changes,   \* calls of other processes so far
  moved      \* history: the inodes other processes have renamed

fsVars == <<tree, fresh, changes, moved>>

FSTypeOK ==
  /\ tree \in Trees
  /\ fresh \subseteq Spare
  /\ changes \in 0..MaxChanges
  /\ moved \subseteq Nodes

FSInit ==
  /\ tree = InitTree
  /\ fresh = Spare
  /\ changes = 0
  /\ moved = {}

-----------------------------------------------------------------------------
(* Reading the tree. *)

Entries(t, d) == {n \in Names : t[d][n] # None}

Linked(t, x) == \E d \in Dirs : \E n \in Names : t[d][n] = x

Alive(t, d) == d = Root \/ Linked(t, d)

\* S is closed when every subdirectory of a member is a member.
Closed(t, S) ==
  \A d \in S : \A n \in Names : t[d][n] \in Dirs => t[d][n] \in S

\* The directories at or below those of S: the least closed set with S.
Below(t, S) ==
  {x \in Dirs : \A C \in SUBSET Dirs : S \subseteq C /\ Closed(t, C) => x \in C}

\* The inode a relative path names from directory d, without following links.
Resolve(t, d, path) ==
  LET at[i \in 0..Len(path)] ==
        IF i = 0 THEN d
        ELSE IF at[i - 1] \in Dirs THEN t[at[i - 1]][path[i]] ELSE None
  IN  at[Len(path)]

\* A tree of directories: none has two entries, the root has none, and one
\* without an entry is empty.
Forest(t) ==
  /\ \A d, e \in Dirs, n, m \in Names :
       t[d][n] \in Dirs /\ t[e][m] = t[d][n] => d = e /\ n = m
  /\ ~Linked(t, Root)
  /\ \A d \in Dirs : ~Alive(t, d) => Entries(t, d) = {}

\* Every directory that has an entry is below the root.
Rooted(t) == \A d \in Dirs : Alive(t, d) => d \in Below(t, {Root})

ASSUME ForestAssumption ==
  /\ IsFiniteSet(Dirs) /\ IsFiniteSet(Names)
  /\ Forest(InitTree) /\ Rooted(InitTree)
  /\ \A x \in Spare : ~Alive(InitTree, x)

-----------------------------------------------------------------------------
(* What other processes do to the tree. *)

Change == changes < MaxChanges /\ changes' = changes + 1

\* open(O_CREAT), mkdir or symlink: a new inode under a free name.
CreateEntry(d, n, x) ==
  /\ Change
  /\ Alive(tree, d)
  /\ tree[d][n] = None
  /\ x \in fresh
  /\ tree' = [tree EXCEPT ![d][n] = x]
  /\ fresh' = fresh \ {x}
  /\ UNCHANGED moved

\* unlink, or rmdir of an empty directory.
DeleteEntry(d, n) ==
  /\ Change
  /\ tree[d][n] # None
  /\ tree[d][n] \in Dirs => Entries(tree, tree[d][n]) = {}
  /\ tree' = [tree EXCEPT ![d][n] = None]
  /\ UNCHANGED <<fresh, moved>>

\* rename to a free name; a directory never moves below itself.
RenameEntry(d, n, e, m) ==
  /\ Change
  /\ tree[d][n] # None
  /\ Alive(tree, e)
  /\ tree[e][m] = None
  /\ tree[d][n] \in Dirs => e \notin Below(tree, {tree[d][n]})
  /\ tree' = [tree EXCEPT ![d][n] = None, ![e][m] = tree[d][n]]
  /\ moved' = moved \cup {tree[d][n]}
  /\ UNCHANGED fresh

\* The directories that this step puts into one of S.
PutInto(S) == {x \in Dirs : \E d \in S, n \in Names : tree'[d][n] = x /\ tree[d][n] # x}

Applications ==
  \/ \E d \in Dirs, n \in Names, x \in Spare : CreateEntry(d, n, x)
  \/ \E d \in Dirs, n \in Names : DeleteEntry(d, n)
  \/ \E d, e \in Dirs, n, m \in Names : RenameEntry(d, n, e, m)
=============================================================================
