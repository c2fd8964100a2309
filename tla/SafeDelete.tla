----------------------------- MODULE SafeDelete -----------------------------
(***************************************************************************)
(* SafeDelete::clearDirectoryFd (src/core/safe_delete.cpp): the recursive  *)
(* walk that empties one approved cache directory, call by call, while     *)
(* other processes change the same tree between any two of its calls.      *)
(*                                                                         *)
(* The recursion is an explicit stack, innermost call first.  A frame      *)
(* holds what its C++ activation holds: the directory descriptor, the      *)
(* logical path the exclusions are compared with, the entry name being     *)
(* handled, and the position of the directory stream.  POSIX leaves open   *)
(* whether readdir returns an entry added or removed after opendir, so a   *)
(* stream is the set of names it must still return and the set it may.     *)
(*                                                                         *)
(* clearContents starts the walk on the descriptor that                    *)
(* PathGuard::openApprovedDirectory returned for the boundary.             *)
(***************************************************************************)
EXTENDS FileSystem, SequencesExt

CONSTANTS
  Boundary,     \* the directory whose contents are cleared
  Exclusions,   \* PathTarget::exclusions, as paths from the boundary
  MaxDepth,     \* the recursion limit (128)
  MaxFaults     \* bound on the calls that fail though the tree allows them

ASSUME WalkAssumption ==
  /\ Boundary \in Dirs
  /\ Exclusions \subseteq Seq(Names)
  /\ MaxDepth \in Nat
  /\ MaxFaults \in Nat

VARIABLES
  pc,       \* the next call of the innermost activation
  stack,    \* the activations, innermost first
  result,   \* the DeleteResult, merged over the activations
  faults,   \* injected failures so far
  \* for the properties only:
  reach,    \* the directories that ever were at or below the boundary
  strays    \* others, put into one of those when it was no longer there

walkVars == <<pc, stack, result, faults>>
env == <<fsVars, reach, strays>>
vars == <<env, walkVars>>

Frames == [dir : Dirs, path : Seq(Names), name : Names \cup {None},
           must : SUBSET Names, may : SUBSET Names]

Frame(d, p) == [dir |-> d, path |-> p, name |-> None, must |-> {}, may |-> {}]

TypeOK ==
  /\ FSTypeOK
  /\ pc \in {"enter", "readdir", "fstatat", "openat", "unlink", "rmdir",
             "return", "done"}
  /\ stack \in Seq(Frames) /\ stack # <<>>
  /\ pc \in {"fstatat", "openat", "unlink", "rmdir"} => Head(stack).name \in Names
  /\ result \in [success : BOOLEAN, items : Nat, failures : Nat]
  /\ result.success <=> result.failures = 0
  /\ faults \in 0..MaxFaults
  /\ reach \subseteq Dirs /\ strays \subseteq Dirs

Init ==
  /\ FSInit
  /\ pc = "enter"
  /\ stack = <<Frame(Boundary, <<>>)>>
  /\ result = [success |-> TRUE, items |-> 0, failures |-> 0]
  /\ faults = 0
  /\ reach = Below(tree, {Boundary}) /\ strays = {}

-----------------------------------------------------------------------------
top == Head(stack)
entry == tree[top.dir][top.name]

Update(f) == stack' = <<f>> \o Tail(stack)

\* A call works only if the tree allows it; it may fail although it does.
Fault == faults < MaxFaults /\ faults' = faults + 1
Works(ok) == ok /\ UNCHANGED faults
Errs(ok) == (~ok /\ UNCHANGED faults) \/ Fault

Failed(r) == [r EXCEPT !.success = FALSE, !.failures = @ + 1]
Counted(r) == [r EXCEPT !.items = @ + 1]

\* An error is counted and the walk goes on with the next entry or caller.
Recover(next) ==
  /\ result' = Failed(result)
  /\ pc' = next
  /\ UNCHANGED <<env, stack>>

\* Faulty variants, here and below, are what a slip in the code would do;
\* each one breaks a property, and none is part of the specification.

\* Faulty: compares the directory instead of its entry.
IsParentExcluded(path) == \E e \in Exclusions : IsPrefix(e, Front(path))

IsExcluded(path) == \E e \in Exclusions : IsPrefix(e, path)

\* Faulty: openat without O_NOFOLLOW.
OpenedFollowing(x) ==
  IF x \in Dirs THEN x
  ELSE IF x \in Links /\ Target[x] \in Dirs THEN Target[x] ELSE None

\* openat with O_DIRECTORY | O_NOFOLLOW: the directory it opens, if any.
Opened(x) == IF x \in Dirs THEN x ELSE None

Unlinkable(x) == x \in Files \cup Links
Rmdirable(x) == x \in Dirs /\ Entries(tree, x) = {}

-----------------------------------------------------------------------------
(* The walk. *)

\* Faulty: off by one.
IsAtLimit(depth) == depth >= MaxDepth

IsBeyondLimit(depth) == depth > MaxDepth

TooDeep ==
  /\ pc = "enter"
  /\ IsBeyondLimit(Len(stack) - 1)
  /\ Recover("return")
  /\ UNCHANGED faults

\* dup and fdopendir: the stream starts at the first entry.
OpenStream ==
  /\ pc = "enter"
  /\ ~IsBeyondLimit(Len(stack) - 1)
  /\ \/ /\ UNCHANGED faults
        /\ Update([top EXCEPT !.must = Entries(tree, top.dir), !.may = {}])
        /\ pc' = "readdir"
        /\ UNCHANGED <<env, result>>
     \/ Fault /\ Recover("return")

\* Faulty: an excluded entry is passed over before the stream advances.
ReadEntryAgain(n) ==
  /\ pc = "readdir"
  /\ n \in top.must \cup top.may
  /\ IF IsExcluded(Append(top.path, n))
     THEN /\ Update([top EXCEPT !.name = n])
          /\ pc' = "readdir"
     ELSE /\ Update([top EXCEPT !.name = n, !.must = @ \ {n}, !.may = @ \ {n}])
          /\ pc' = "fstatat"
  /\ UNCHANGED <<env, result, faults>>

\* readdir returns a name; an excluded one is passed over.
ReadEntry(n) ==
  /\ pc = "readdir"
  /\ n \in top.must \cup top.may
  /\ Update([top EXCEPT !.name = n, !.must = @ \ {n}, !.may = @ \ {n}])
  /\ pc' = IF IsExcluded(Append(top.path, n)) THEN "readdir" ELSE "fstatat"
  /\ UNCHANGED <<env, result, faults>>

\* Faulty: a read error is taken for the end.
EndOrError ==
  /\ pc = "readdir"
  /\ (top.must = {} /\ UNCHANGED faults) \/ Fault
  /\ pc' = "return"
  /\ UNCHANGED <<env, stack, result>>

\* readdir returns nothing: the end of the stream, or an error.
EndOfStream ==
  /\ pc = "readdir"
  /\ \/ /\ top.must = {}
        /\ pc' = "return"
        /\ UNCHANGED <<env, stack, result, faults>>
     \/ Fault /\ Recover("return")

Fstatat ==
  /\ pc = "fstatat"
  /\ \/ /\ Works(entry # None)
        /\ pc' = IF entry \in Dirs THEN "openat" ELSE "unlink"
        /\ UNCHANGED <<env, stack, result>>
     \/ Errs(entry # None) /\ Recover("readdir")

\* A directory is entered by a recursive call on its own descriptor.
Openat ==
  /\ pc = "openat"
  /\ LET d == Opened(entry) IN
     \/ /\ Works(d # None)
        /\ stack' = <<Frame(d, Append(top.path, top.name))>> \o stack
        /\ pc' = "enter"
        /\ UNCHANGED <<env, result>>
     \/ Errs(d # None) /\ Recover("readdir")

\* The activation ends; its caller goes on to remove the directory, whatever
\* the nested result, or the walk is over.
Return ==
  /\ pc = "return"
  /\ IF Len(stack) = 1
     THEN pc' = "done" /\ UNCHANGED stack
     ELSE pc' = "rmdir" /\ stack' = Tail(stack)
  /\ UNCHANGED <<env, result, faults>>

\* unlinkat: the name is looked up again in the directory's descriptor.
RemoveEntry ==
  /\ tree' = [tree EXCEPT ![top.dir][top.name] = None]
  /\ result' = Counted(result)
  /\ pc' = "readdir"
  /\ UNCHANGED <<fresh, changes, moved, reach, strays, stack>>

Unlink ==
  /\ pc = "unlink"
  /\ \/ Works(Unlinkable(entry)) /\ RemoveEntry
     \/ Errs(Unlinkable(entry)) /\ Recover("readdir")

\* Faulty: a directory counts as removed once it was handled.
RmdirCounted ==
  /\ pc = "rmdir"
  /\ \/ Works(Rmdirable(entry)) /\ RemoveEntry
     \/ /\ Errs(Rmdirable(entry))
        /\ result' = Counted(Failed(result))
        /\ pc' = "readdir"
        /\ UNCHANGED <<env, stack>>

Rmdir ==
  /\ pc = "rmdir"
  /\ \/ Works(Rmdirable(entry)) /\ RemoveEntry
     \/ Errs(Rmdirable(entry)) /\ Recover("readdir")

Walk ==
  \/ TooDeep
  \/ OpenStream
  \/ \E n \in Names : ReadEntry(n)
  \/ EndOfStream
  \/ Fstatat
  \/ Openat
  \/ Return
  \/ Unlink
  \/ Rmdir

-----------------------------------------------------------------------------
(* Other processes.  A name they add or remove may or may not come up in a *)
(* stream that is already open on its directory.                           *)

Watch(f) ==
  LET new == {n \in Names : tree'[f.dir][n] # tree[f.dir][n]}
  IN  [f EXCEPT !.must = @ \ new, !.may = @ \cup new]

Interfere ==
  /\ pc # "done"
  /\ Applications
  /\ stack' = [i \in DOMAIN stack |-> Watch(stack[i])]
  /\ LET inside == Below(tree', {Boundary}) IN
     /\ reach' = reach \cup inside
     /\ strays' = strays \cup (PutInto(reach \ inside) \ reach')
  /\ UNCHANGED <<pc, result, faults>>

\* clearContents closes the descriptor and returns the result.
Returned == pc = "done" /\ UNCHANGED vars

Next == Walk \/ Interfere \/ Returned

\* The walk is one thread that the scheduler keeps running.
Spec == Init /\ [][Next]_vars /\ WF_vars(Walk)

-----------------------------------------------------------------------------
(* Correctness. *)

Removal == Walk /\ tree' # tree

\* None of the directories being walked was renamed by another process.
Undisturbed == \A i \in DOMAIN stack : stack[i].dir \notin moved

\* The walk never changes a directory that was never at or below the
\* boundary: no symbolic link is followed, whatever is swapped between two
\* calls, and the boundary's own entry in its parent stays.  The exception
\* is what other processes put into a directory that has left the boundary:
\* a walk that is in there meets it.
Confinement ==
  [][Walk => \A d \in Dirs :
       \/ tree'[d] = tree[d]
       \/ d \in reach
       \/ \E i \in DOMAIN stack : stack[i].dir \in strays]_vars

\* While nobody renames a directory being walked, what the walk removes is
\* below the boundary at that very moment.
StaysInBoundary ==
  [][Removal /\ Undisturbed => top.dir \in Below(tree, {Boundary})]_vars

\* The entry n of d is, at this moment, an excluded path or below one.
InExcluded(d, n) ==
  \E e \in Exclusions :
    \/ e # <<>> /\ Resolve(tree, Boundary, Front(e)) = d /\ Last(e) = n
    \/ LET x == Resolve(tree, Boundary, e) IN x \in Dirs /\ d \in Below(tree, {x})

\* While nobody renames a directory being walked, no entry is removed that
\* is excluded, or below an excluded one, in the tree as it then is.
ExclusionsKept ==
  [][Removal /\ Undisturbed => ~InExcluded(top.dir, top.name)]_vars

\* A walk that reports success leaves in the boundary only what is excluded
\* and what other processes created or moved during the walk.
CompleteOnSuccess ==
  pc = "done" /\ result.success =>
    \A n \in Entries(tree, Boundary) :
      \/ IsExcluded(<<n>>)
      \/ tree[Boundary][n] \in moved \cup (Spare \ fresh)

\* A walk that met no interference and no failing call reports failure only
\* for a reason in the tree: an excluded entry inside a directory that
\* cannot be removed because of it, or a directory beyond the depth limit.
FailureExplained ==
  pc = "done" /\ ~result.success /\ changes = 0 /\ faults = 0 =>
    \/ \E e \in Exclusions : Len(e) > 1 /\ Resolve(InitTree, Boundary, e) # None
    \/ \E p \in [1..(MaxDepth + 1) -> Names] :
         Resolve(InitTree, Boundary, p) \in Dirs

\* The item count of the report is exactly the number of entries that the
\* walk took out of the tree.
EntryCount(t) == Cardinality({e \in Dirs \X Names : t[e[1]][e[2]] # None})
ItemsExact ==
  changes = 0 => result.items = EntryCount(InitTree) - EntryCount(tree)

\* The walk ends, however often other processes (boundedly) refill it.
Terminates == <>(pc = "done")
=============================================================================
