-------------------------- MODULE SafeDelete_proofs --------------------------
(***************************************************************************)
(* Proofs about the walk of SafeDelete, for every tree, every set of       *)
(* exclusions, every recursion limit and any number of changes by other    *)
(* processes and of failing calls.                                         *)
(***************************************************************************)
EXTENDS SafeDelete, FileSystem_proofs, SequenceTheorems

(* Facts about the stack of activations. *)

LEMMA PushFacts ==
  ASSUME NEW F, NEW x \in F, NEW s \in Seq(F)
  PROVE  /\ <<x>> \o s \in Seq(F)
         /\ <<x>> \o s # <<>>
         /\ Head(<<x>> \o s) = x
         /\ Len(<<x>> \o s) = Len(s) + 1
         /\ \A i \in 2..(Len(s) + 1) : (<<x>> \o s)[i] = s[i - 1]
  OBVIOUS

LEMMA PopFacts ==
  ASSUME NEW F, NEW s \in Seq(F), s # <<>>
  PROVE  /\ Head(s) \in F /\ Head(s) = s[1] /\ 1 \in 1..Len(s)
         /\ Tail(s) \in Seq(F)
         /\ Len(Tail(s)) = Len(s) - 1
         /\ \A i \in 1..(Len(s) - 1) : Tail(s)[i] = s[i + 1]
  OBVIOUS

LEMMA LongerThanOne ==
  ASSUME NEW F, NEW s \in Seq(F), s # <<>>, Len(s) # 1
  PROVE  Len(s) \in Nat /\ Len(s) > 1
<1>1. Len(s) \in Nat \ {0}
  BY EmptySeq
<1>2. \A n \in Nat \ {0} : n # 1 => n \in Nat /\ n > 1
  OBVIOUS
<1>. QED
  BY <1>1, <1>2, Zenon

-----------------------------------------------------------------------------
(***************************************************************************)
(* The inductive invariant.  TypeOK is not inductive: Return makes the     *)
(* caller's activation the innermost one, whose entry name must then be a  *)
(* name.  Confinement rests on the other part: every directory the walk    *)
(* holds is in reach, or it came there through a stray; and whatever it    *)
(* can enter from a directory in reach is in reach or a stray.             *)
(***************************************************************************)
CallersNamed == \A i \in 2..Len(stack) : stack[i].name \in Names

\* The activation i was begun in a stray, or below one.
Astray(i) == \E j \in i..Len(stack) : stack[j].dir \in strays

HeldInReach ==
  /\ Fenced(tree, reach, strays)
  /\ \A i \in 1..Len(stack) : stack[i].dir \in reach \/ Astray(i)

Inv == TypeOK /\ CallersNamed /\ HeldInReach

\* What an action may take from the invariant about the innermost activation.
LEMMA TopFacts ==
  ASSUME Inv
  PROVE  /\ top \in Frames /\ top = stack[1]
         /\ top.dir \in Dirs /\ (top.dir \in reach \/ Astray(1))
         /\ top.name \in Names \cup {None}
<1>1. top \in Frames /\ top = stack[1] /\ 1 \in 1..Len(stack)
  BY PopFacts DEF Inv, TypeOK, top
<1>. QED
  BY <1>1 DEF Inv, HeldInReach, Frames

\* What a directory is held by stays when the activations keep theirs.
LEMMA SameDirsHeld ==
  ASSUME HeldInReach, Fenced(tree', reach', strays'),
         reach \subseteq reach', strays \subseteq strays', Len(stack') = Len(stack),
         \A i \in 1..Len(stack) : stack'[i].dir = stack[i].dir, Len(stack) \in Nat
  PROVE  HeldInReach'
<1>. SUFFICES ASSUME NEW i \in 1..Len(stack)
              PROVE  stack'[i].dir \in reach' \/ Astray(i)'
  BY DEF HeldInReach
<1>1. CASE stack[i].dir \in reach
  BY <1>1
<1>2. CASE Astray(i)
  <2>1. PICK j \in i..Len(stack) : stack[j].dir \in strays
    BY <1>2 DEF Astray
  <2>. QED
    BY <2>1 DEF Astray
<1>. QED
  BY <1>1, <1>2 DEF HeldInReach

\* A call that errs leaves the tree and the activations alone.
LEMMA RecoverKeepsInv ==
  ASSUME Inv, NEW next \in {"readdir", "return"}, Recover(next),
         Fault \/ UNCHANGED faults
  PROVE  Inv'
<1>. USE DEF Recover, env, fsVars
<1>1. faults' \in 0..MaxFaults
  BY WalkAssumption DEF Fault, Inv, TypeOK
<1>2. /\ result' \in [success : BOOLEAN, items : Nat, failures : Nat]
      /\ result'.success <=> result'.failures = 0
  <2>1. result \in [success : BOOLEAN, items : Nat, failures : Nat]
    BY DEF Inv, TypeOK
  <2>2. result.items \in Nat /\ result.failures \in Nat
    BY <2>1
  <2>3. result' = [success |-> FALSE, items |-> result.items,
                   failures |-> result.failures + 1]
    BY <2>1 DEF Failed
  <2>4. result'.failures # 0
    BY <2>2, <2>3
  <2>. QED
    BY <2>2, <2>3, <2>4
<1>3. TypeOK'
  BY <1>1, <1>2 DEF Inv, TypeOK, FSTypeOK, Trees
<1>4. CallersNamed' /\ HeldInReach'
  BY DEF Inv, CallersNamed, HeldInReach, Fenced, Astray
<1>. QED
  BY <1>3, <1>4 DEF Inv

\* A removal takes one entry out of a directory that the walk holds.
LEMMA RemovalKeepsInv ==
  ASSUME Inv, RemoveEntry, UNCHANGED faults, top.name \in Names
  PROVE  Inv'
<1>. USE DEF RemoveEntry
<1>1. tree' \in Trees /\ Fenced(tree', reach, strays)
  <2>1. tree \in Trees /\ top.dir \in Dirs /\ reach \in SUBSET Dirs
    BY TopFacts DEF Inv, TypeOK, FSTypeOK
  <2>2. tree' \in Trees
    BY <2>1 DEF Trees
  <2>. QED
    BY <2>1, <2>2, RemovalKeepsFenced DEF Inv, HeldInReach
<1>2. /\ result' \in [success : BOOLEAN, items : Nat, failures : Nat]
      /\ result'.success <=> result'.failures = 0
  BY DEF Counted, Inv, TypeOK
<1>3. TypeOK'
  BY <1>1, <1>2 DEF Inv, TypeOK, FSTypeOK
<1>4. CallersNamed' /\ HeldInReach'
  BY <1>1 DEF Inv, CallersNamed, HeldInReach, Astray
<1>. QED
  BY <1>3, <1>4 DEF Inv

\* Only the innermost activation changes, and it keeps its directory.
LEMMA UpdateKeepsInv ==
  ASSUME Inv, NEW f \in Frames, Update(f), f.dir = top.dir,
         UNCHANGED <<env, result, faults>>,
         \/ pc' \in {"readdir", "return"}
         \/ pc' = "fstatat" /\ f.name \in Names
  PROVE  Inv'
<1>. USE DEF Update, env, fsVars
<1>1. Tail(stack) \in Seq(Frames) /\ Len(Tail(stack)) = Len(stack) - 1
      /\ \A i \in 1..(Len(stack) - 1) : Tail(stack)[i] = stack[i + 1]
      /\ Len(stack) \in Nat
  BY PopFacts DEF Inv, TypeOK
<1>2. stack' \in Seq(Frames) /\ stack' # <<>> /\ Head(stack') = f
      /\ Len(stack') = Len(stack)
      /\ \A i \in 2..Len(stack) : stack'[i] = Tail(stack)[i - 1]
  BY <1>1, PushFacts
<1>3. \A i \in 2..Len(stack) : stack'[i] = stack[i]
  BY <1>1, <1>2
<1>4. stack'[1] = f
  BY <1>2, PopFacts
<1>5. TypeOK'
  BY <1>2 DEF Inv, TypeOK, FSTypeOK, Trees
<1>6. CallersNamed'
  BY <1>2, <1>3 DEF Inv, CallersNamed
<1>7. HeldInReach'
  <2>1. Fenced(tree', reach', strays') /\ reach' = reach /\ strays' = strays
    BY DEF Inv, HeldInReach, Fenced
  <2>2. ASSUME NEW i \in 1..Len(stack) PROVE stack'[i].dir = stack[i].dir
    <3>1. CASE i = 1
      BY <3>1, <1>4, TopFacts
    <3>2. CASE i # 1
      BY <3>2, <1>1, <1>3
    <3>. QED
      BY <3>1, <3>2
  <2>. QED
    BY <1>1, <1>2, <2>1, <2>2, SameDirsHeld DEF Inv
<1>. QED
  BY <1>5, <1>6, <1>7 DEF Inv

\* Only the program counter moves.
LEMMA AdvanceKeepsInv ==
  ASSUME Inv, UNCHANGED <<env, stack, result, faults>>,
         \/ pc' \in {"readdir", "return", "done"}
         \/ pc' \in {"openat", "unlink"} /\ top.name \in Names
  PROVE  Inv'
<1>. USE DEF env, fsVars
<1>1. TypeOK'
  BY DEF Inv, TypeOK, FSTypeOK, Trees, top
<1>2. CallersNamed' /\ HeldInReach'
  BY DEF Inv, CallersNamed, HeldInReach, Fenced, Astray
<1>. QED
  BY <1>1, <1>2 DEF Inv

LEMMA StackHasTop ==
  ASSUME Inv
  PROVE  1 \in 1..Len(stack)
  BY PopFacts DEF Inv, TypeOK

\* A directory found under the current name is in reach or a stray: the
\* recursive call starts below a directory the walk already holds.
LEMMA PushKeepsInv ==
  ASSUME Inv, NEW d \in Dirs, d = entry, top.name \in Names,
         stack' = <<Frame(d, Append(top.path, top.name))>> \o stack,
         pc' = "enter", UNCHANGED <<env, result, faults>>
  PROVE  Inv'
<1>. DEFINE fr == Frame(d, Append(top.path, top.name))
<1>. USE DEF env, fsVars
<1>1. fr \in Frames /\ fr.dir = d
  BY TopFacts DEF Frame, Frames
<1>2. /\ stack \in Seq(Frames) /\ Len(stack) \in Nat
      /\ stack' = <<fr>> \o stack
  BY DEF Inv, TypeOK
<1>3. /\ stack' \in Seq(Frames) /\ stack' # <<>> /\ Head(stack') = fr
      /\ Len(stack') = Len(stack) + 1
      /\ \A i \in 2..(Len(stack) + 1) : stack'[i] = stack[i - 1]
  <2>. HIDE DEF fr
  <2>. QED
    BY <1>1, <1>2, PushFacts
<1>4. stack'[1] = fr
  <2>. HIDE DEF fr
  <2>. QED
    BY <1>3, PopFacts
<1>5. TypeOK'
  BY <1>3 DEF Inv, TypeOK, FSTypeOK, Trees
<1>6. CallersNamed'
  <2>. SUFFICES ASSUME NEW i \in 2..Len(stack') PROVE stack'[i].name \in Names
    BY DEF CallersNamed
  <2>1. CASE i = 2
    BY <2>1, <1>2, <1>3, TopFacts
  <2>2. CASE i # 2
    BY <2>2, <1>2, <1>3 DEF Inv, CallersNamed
  <2>. QED
    BY <2>1, <2>2
<1>7. HeldInReach'
  <2>0. reach' = reach /\ strays' = strays /\ tree' = tree
    OBVIOUS
  <2>1. d \in reach \/ d \in strays \/ Astray(1)
    BY TopFacts DEF Inv, HeldInReach, Fenced, entry
  <2>2. Fenced(tree', reach', strays')
    BY <2>0 DEF Inv, HeldInReach
  <2>3. ASSUME NEW i \in 1..Len(stack), Astray(i) PROVE Astray(i + 1)' /\ Astray(1)'
    <3>1. PICK j \in i..Len(stack) : stack[j].dir \in strays
      BY <2>3 DEF Astray
    <3>2. j + 1 \in (i + 1)..Len(stack') /\ j + 1 \in 1..Len(stack') /\ stack'[j + 1] = stack[j]
      BY <1>2, <1>3, <3>1
    <3>. QED
      BY <2>0, <3>1, <3>2 DEF Astray
  <2>4. ASSUME NEW i \in 1..Len(stack')
        PROVE  stack'[i].dir \in reach' \/ Astray(i)'
    <3>1. CASE i = 1
      <4>1. 1 \in 1..Len(stack') /\ stack'[1].dir = d /\ 1 \in 1..Len(stack)
        BY <1>1, <1>3, <1>4, <1>2, StackHasTop
      <4>2. d \in strays => Astray(1)'
        BY <2>0, <4>1, <1>2, <1>3 DEF Astray
      <4>. QED
        BY <2>0, <2>1, <2>3, <3>1, <4>1, <4>2
    <3>2. CASE i # 1
      <4>1. i - 1 \in 1..Len(stack) /\ stack'[i] = stack[i - 1] /\ (i - 1) + 1 = i
        BY <3>2, <1>2, <1>3
      <4>2. stack[i - 1].dir \in reach \/ Astray(i - 1)
        BY <4>1 DEF Inv, HeldInReach
      <4>. QED
        BY <2>0, <2>3, <4>1, <4>2
    <3>. QED
      BY <3>1, <3>2
  <2>. QED
    BY <2>2, <2>4 DEF HeldInReach
<1>. QED
  BY <1>5, <1>6, <1>7 DEF Inv

\* The caller's activation becomes the innermost one.
LEMMA PopKeepsInv ==
  ASSUME Inv, Len(stack) # 1, stack' = Tail(stack), pc' = "rmdir",
         UNCHANGED <<env, result, faults>>
  PROVE  Inv'
<1>. USE DEF env, fsVars
<1>1. /\ stack \in Seq(Frames) /\ Len(stack) \in Nat /\ Len(stack) > 1
      /\ stack' \in Seq(Frames) /\ Len(stack') = Len(stack) - 1
      /\ \A i \in 1..(Len(stack) - 1) : stack'[i] = stack[i + 1]
  <2>1. stack \in Seq(Frames) /\ stack # <<>> /\ Len(stack) \in Nat
    BY DEF Inv, TypeOK
  <2>2. Len(stack) > 1
    BY <2>1, LongerThanOne
  <2>. QED
    BY <2>1, <2>2, PopFacts
<1>2. stack' # <<>> /\ Head(stack').name \in Names
  <2>1. Len(stack') \in Nat /\ Len(stack') # 0 /\ stack'[1] = stack[2]
    BY <1>1
  <2>2. stack' # <<>>
    BY <2>1
  <2>3. Head(stack') = stack'[1]
    BY <1>1, <2>2, PopFacts
  <2>. QED
    BY <1>1, <2>1, <2>2, <2>3 DEF Inv, CallersNamed
<1>3. TypeOK'
  BY <1>1, <1>2 DEF Inv, TypeOK, FSTypeOK, Trees
<1>4. CallersNamed'
  <2>. SUFFICES ASSUME NEW i \in 2..Len(stack') PROVE stack'[i].name \in Names
    BY DEF CallersNamed
  <2>1. i \in 1..(Len(stack) - 1) /\ i + 1 \in 2..Len(stack)
    BY <1>1
  <2>. QED
    BY <1>1, <2>1 DEF Inv, CallersNamed
<1>5. HeldInReach'
  <2>0. reach' = reach /\ strays' = strays /\ tree' = tree
    OBVIOUS
  <2>1. ASSUME NEW i \in 1..Len(stack')
        PROVE  stack'[i].dir \in reach' \/ Astray(i)'
    <3>1. i + 1 \in 1..Len(stack) /\ stack'[i] = stack[i + 1]
      BY <1>1
    <3>2. CASE stack[i + 1].dir \in reach
      BY <2>0, <3>1, <3>2
    <3>3. CASE Astray(i + 1)
      <4>1. PICK j \in (i + 1)..Len(stack) : stack[j].dir \in strays
        BY <3>3 DEF Astray
      <4>2. j - 1 \in i..Len(stack') /\ stack'[j - 1] = stack[j]
        BY <1>1, <4>1
      <4>. QED
        BY <2>0, <4>1, <4>2 DEF Astray
    <3>. QED
      BY <3>1, <3>2, <3>3 DEF Inv, HeldInReach
  <2>. QED
    BY <2>0, <2>1 DEF Inv, HeldInReach
<1>. QED
  BY <1>3, <1>4, <1>5 DEF Inv

\* What they put where the walk cannot be expected is a stray.
LEMMA InterfereKeepsInv ==
  ASSUME Inv, Interfere
  PROVE  Inv'
<1>. USE DEF Interfere
<1>1. FSTypeOK'
  BY ApplicationsKeepFSType DEF Inv, TypeOK
<1>2. stack \in Seq(Frames) /\ stack # <<>>
  BY DEF Inv, TypeOK
<1>3. ASSUME NEW f \in Frames
      PROVE  Watch(f) \in Frames /\ Watch(f).dir = f.dir /\ Watch(f).name = f.name
  BY <1>3 DEF Watch, Frames
<1>4. /\ stack' \in Seq(Frames) /\ stack' # <<>> /\ Len(stack') = Len(stack)
      /\ \A i \in 1..Len(stack) : stack'[i] = Watch(stack[i])
      /\ Head(stack') = stack'[1] /\ Head(stack) = stack[1]
      /\ 1 \in 1..Len(stack)
  <2>1. stack' = [i \in 1..Len(stack) |-> Watch(stack[i])]
    BY <1>2
  <2>2. \A i \in 1..Len(stack) : Watch(stack[i]) \in Frames
    BY <1>2, <1>3
  <2>. QED
    BY <1>2, <2>1, <2>2
<1>5. \A i \in 1..Len(stack) : /\ stack'[i].dir = stack[i].dir
                               /\ stack'[i].name = stack[i].name
  BY <1>2, <1>3, <1>4
<1>6. /\ reach \subseteq reach' /\ reach' \subseteq Dirs
      /\ strays \subseteq strays' /\ strays' \subseteq Dirs
      /\ Fenced(tree', reach', strays')
  <2>. DEFINE inside == Below(tree', {Boundary})
  <2>1. /\ reach' = reach \cup inside
        /\ strays' = strays \cup (PutInto(reach \ inside) \ (reach \cup inside))
    OBVIOUS
  <2>2. inside \in SUBSET Dirs /\ Closed(tree', inside)
    BY WalkAssumption, BelowIsClosed
  <2>3. reach \in SUBSET Dirs /\ strays \subseteq Dirs /\ Fenced(tree, reach, strays)
    BY DEF Inv, TypeOK, HeldInReach
  <2>4. PutInto(reach \ inside) \subseteq Dirs
    BY DEF PutInto
  <2>5. Fenced(tree', reach \cup inside,
               strays \cup (PutInto(reach \ inside) \ (reach \cup inside)))
    <3>. HIDE DEF inside
    <3>. QED
      BY <2>2, <2>3, InterferenceKeepsFenced
  <2>. HIDE DEF inside
  <2>. QED
    BY <2>1, <2>2, <2>3, <2>4, <2>5
<1>7. TypeOK'
  <2>1. Head(stack').name = Head(stack).name
    BY <1>4, <1>5
  <2>. QED
    BY <1>1, <1>4, <1>6, <2>1 DEF Inv, TypeOK
<1>8. CallersNamed'
  <2>. SUFFICES ASSUME NEW i \in 2..Len(stack') PROVE stack'[i].name \in Names
    BY DEF CallersNamed
  <2>1. i \in 1..Len(stack) /\ i \in 2..Len(stack)
    BY <1>2, <1>4
  <2>. QED
    BY <1>5, <2>1 DEF Inv, CallersNamed
<1>9. HeldInReach'
  <2>1. Len(stack) \in Nat /\ Len(stack') = Len(stack) /\ HeldInReach
    BY <1>2, <1>4 DEF Inv
  <2>2. \A i \in 1..Len(stack) : stack'[i].dir = stack[i].dir
    BY <1>5
  <2>. QED
    BY <1>6, <2>1, <2>2, SameDirsHeld
<1>. QED
  BY <1>7, <1>8, <1>9 DEF Inv

-----------------------------------------------------------------------------
(* The theorems. *)

LEMMA InitInv == Init => Inv
<1>. SUFFICES ASSUME Init PROVE Inv
  OBVIOUS
<1>. USE TreeAssumption, WalkAssumption DEF Init, FSInit
<1>1. /\ reach \subseteq Dirs /\ Boundary \in reach
      /\ strays = {} /\ Fenced(tree, reach, strays)
  <2>1. reach \subseteq Dirs /\ Closed(tree, reach) /\ Boundary \in reach
    BY BelowIsClosed
  <2>. QED
    BY <2>1 DEF Closed, Fenced
<1>2. /\ stack \in Seq(Frames) /\ stack # <<>> /\ Len(stack) = 1
      /\ stack[1] = Frame(Boundary, <<>>)
  BY DEF Frame, Frames
<1>3. TypeOK
  <2>1. FSTypeOK
    BY DEF FSTypeOK
  <2>2. /\ result \in [success : BOOLEAN, items : Nat, failures : Nat]
        /\ result.success = TRUE /\ result.failures = 0
    OBVIOUS
  <2>3. faults \in 0..MaxFaults /\ pc = "enter"
    OBVIOUS
  <2>. QED
    BY <1>1, <1>2, <2>1, <2>2, <2>3 DEF TypeOK
<1>4. CallersNamed
  BY <1>2 DEF CallersNamed
<1>5. HeldInReach
  <2>1. stack[1].dir \in reach
    BY <1>1, <1>2 DEF Frame
  <2>2. ASSUME NEW i \in 1..Len(stack) PROVE stack[i].dir \in reach
    <3>1. i = 1
      BY <1>2
    <3>. QED
      BY <2>1, <3>1
  <2>. HIDE DEF Init
  <2>. QED
    BY <1>1, <2>2 DEF HeldInReach
<1>. QED
  BY <1>3, <1>4, <1>5 DEF Inv

LEMMA WalkKeepsInv == Inv /\ Walk => Inv'
<1>. SUFFICES ASSUME Inv, Walk PROVE Inv'
  OBVIOUS
<1>0. top.name \in Names \/ pc \notin {"fstatat", "openat", "unlink", "rmdir"}
  BY DEF Inv, TypeOK, top
<1>1. CASE TooDeep
  BY <1>1, RecoverKeepsInv DEF TooDeep
<1>2. CASE OpenStream
  <2>. DEFINE f == [top EXCEPT !.must = Entries(tree, top.dir), !.may = {}]
  <2>1. f \in Frames /\ f.dir = top.dir
    BY TopFacts DEF Frames, Entries
  <2>2. CASE Update(f) /\ pc' = "readdir" /\ UNCHANGED <<env, result, faults>>
    <3>. HIDE DEF f
    <3>. QED
      BY <2>1, <2>2, UpdateKeepsInv
  <2>3. CASE Fault /\ Recover("return")
    BY <2>3, RecoverKeepsInv
  <2>. QED
    BY <1>2, <2>2, <2>3 DEF OpenStream
<1>3. ASSUME NEW n \in Names, ReadEntry(n) PROVE Inv'
  <2>. DEFINE f == [top EXCEPT !.name = n, !.must = @ \ {n}, !.may = @ \ {n}]
  <2>1. f \in Frames /\ f.dir = top.dir /\ f.name \in Names
    BY TopFacts DEF Frames
  <2>2. Update(f) /\ pc' \in {"readdir", "fstatat"} /\ UNCHANGED <<env, result, faults>>
    BY <1>3 DEF ReadEntry
  <2>. HIDE DEF f
  <2>. QED
    BY <2>1, <2>2, UpdateKeepsInv
<1>4. CASE EndOfStream
  BY <1>4, AdvanceKeepsInv, RecoverKeepsInv DEF EndOfStream
<1>5. CASE Fstatat
  BY <1>0, <1>5, AdvanceKeepsInv, RecoverKeepsInv DEF Fstatat, Works, Errs
<1>6. CASE Openat
  <2>1. top.name \in Names
    BY <1>0, <1>6 DEF Openat
  <2>2. CASE Errs(Opened(entry) # None) /\ Recover("readdir")
    BY <2>2, RecoverKeepsInv DEF Errs
  <2>3. CASE /\ Works(Opened(entry) # None)
             /\ stack' = <<Frame(Opened(entry), Append(top.path, top.name))>> \o stack
             /\ pc' = "enter" /\ UNCHANGED <<env, result>>
    <3>1. entry \in Dirs /\ Opened(entry) = entry
      BY <2>3 DEF Works, Opened
    <3>2. /\ stack' = <<Frame(entry, Append(top.path, top.name))>> \o stack
          /\ pc' = "enter" /\ UNCHANGED <<env, result, faults>>
      BY <2>3, <3>1 DEF Works
    <3>. QED
      BY <2>1, <3>1, <3>2, PushKeepsInv
  <2>. QED
    BY <1>6, <2>2, <2>3 DEF Openat
<1>7. CASE Return
  BY <1>7, AdvanceKeepsInv, PopKeepsInv DEF Return
<1>8. CASE Unlink
  BY <1>0, <1>8, RemovalKeepsInv, RecoverKeepsInv DEF Unlink, Works, Errs
<1>9. CASE Rmdir
  BY <1>0, <1>9, RemovalKeepsInv, RecoverKeepsInv DEF Rmdir, Works, Errs
<1>. QED
  BY <1>1, <1>2, <1>3, <1>4, <1>5, <1>6, <1>7, <1>8, <1>9 DEF Walk

LEMMA NextKeepsInv == Inv /\ [Next]_vars => Inv'
<1>. SUFFICES ASSUME Inv, [Next]_vars PROVE Inv'
  OBVIOUS
<1>1. CASE UNCHANGED vars
  BY <1>1 DEF vars, env, fsVars, walkVars, Inv, TypeOK, FSTypeOK, Trees,
              CallersNamed, HeldInReach, Fenced, Astray
<1>2. CASE Next /\ ~UNCHANGED vars
  BY <1>2, WalkKeepsInv, InterfereKeepsInv DEF Next, Returned
<1>. QED
  BY <1>1, <1>2

\* In every behaviour of the walk, with any number of changes by other
\* processes, the state is well typed; in particular the merged result says
\* success exactly when it counts no failure.
THEOREM TypeCorrect == Spec => []TypeOK
<1>1. Inv => TypeOK
  BY DEF Inv
<1>. QED
  BY <1>1, InitInv, NextKeepsInv, PTL DEF Spec

Confined ==
  \A d \in Dirs :
    \/ tree'[d] = tree[d]
    \/ d \in reach
    \/ \E i \in DOMAIN stack : stack[i].dir \in strays

\* One step of the walk changes no directory out of reach, but those it came
\* to through a stray: the only change it makes is in the directory of the
\* innermost activation.
LEMMA WalkIsConfined ==
  ASSUME Inv, Walk
  PROVE  Confined
<1>1. CASE RemoveEntry
  <2>. SUFFICES ASSUME NEW d \in Dirs, tree'[d] # tree[d]
                PROVE  d \in reach \/ \E i \in DOMAIN stack : stack[i].dir \in strays
    BY DEF Confined
  <2>1. d = top.dir
    BY <1>1, TopFacts DEF RemoveEntry, Inv, TypeOK, FSTypeOK, Trees
  <2>2. DOMAIN stack = 1..Len(stack)
    BY DEF Inv, TypeOK
  <2>. QED
    BY <2>1, <2>2, TopFacts DEF Astray
<1>2. CASE UNCHANGED tree
  BY <1>2 DEF Confined
<1>. QED
  BY <1>1, <1>2 DEF Walk, TooDeep, OpenStream, ReadEntry, EndOfStream, Fstatat,
       Openat, Return, Unlink, Rmdir, Recover, env, fsVars

\* However the tree is rearranged between any two calls of the walk, it
\* removes nothing from a directory that was never at or below the boundary,
\* unless it came there through a directory that others put into one that had
\* left the boundary.
THEOREM WalkConfinement == Spec => Confinement
<1>1. Inv /\ [Next]_vars => [Walk => Confined]_vars
  BY WalkIsConfined
<1>2. Inv /\ [Next]_vars
        => [Walk => \A d \in Dirs :
              \/ tree'[d] = tree[d]
              \/ d \in reach
              \/ \E i \in DOMAIN stack : stack[i].dir \in strays]_vars
  BY <1>1 DEF Confined
<1>. QED
  BY <1>2, InitInv, NextKeepsInv, PTL DEF Spec, Confinement

-----------------------------------------------------------------------------
(***************************************************************************)
(* Where the walk is.  An activation was entered under the name its caller *)
(* is at; that entry stays as long as the directory is neither renamed nor *)
(* removed, and what was removed never comes back.                         *)
(***************************************************************************)
Entered ==
  \A i \in 1..(Len(stack) - 1) :
    /\ stack[i].dir \notin fresh
    /\ stack[i].dir \notin moved /\ Alive(tree, stack[i].dir)
         => tree[stack[i + 1].dir][stack[i + 1].name] = stack[i].dir

Outer == stack[Len(stack)]

Placed ==
  /\ Forest(tree) /\ Unborn
  /\ Outer.dir = Boundary /\ Outer.path = <<>>
  /\ Entered

\* What a step of the walk may do to the stack and the tree.
Kept == stack' = stack /\ UNCHANGED env

Updated ==
  /\ Len(stack') = Len(stack) /\ UNCHANGED env
  /\ stack'[1].dir = stack[1].dir /\ stack'[1].path = stack[1].path
  /\ \A i \in 2..Len(stack) : stack'[i] = stack[i]

Pushed ==
  /\ Len(stack') = Len(stack) + 1 /\ UNCHANGED env
  /\ stack[1].name \in Names /\ stack'[1].dir \in Dirs
  /\ stack'[1].dir = tree[stack[1].dir][stack[1].name]
  /\ stack'[1].path = Append(stack[1].path, stack[1].name)
  /\ \A i \in 1..Len(stack) : stack'[i + 1] = stack[i]

Popped ==
  /\ Len(stack) > 1 /\ Len(stack') = Len(stack) - 1 /\ UNCHANGED env
  /\ \A i \in 1..(Len(stack) - 1) : stack'[i] = stack[i + 1]

Removed ==
  /\ stack' = stack /\ UNCHANGED <<fresh, moved, changes, reach, strays>>
  /\ stack[1].name \in Names /\ entry # None
  /\ entry \in Dirs => Entries(tree, entry) = {}
  /\ entry = tree[stack[1].dir][stack[1].name]
  /\ tree' = [tree EXCEPT ![stack[1].dir][stack[1].name] = None]

LEMMA StackFacts ==
  ASSUME Inv
  PROVE  /\ stack \in Seq(Frames) /\ Len(stack) \in Nat /\ Len(stack) >= 1
         /\ top = stack[1] /\ 1 \in 1..Len(stack)
         /\ \A i \in 1..Len(stack) : stack[i] \in Frames /\ stack[i].dir \in Dirs
         /\ \A i \in 2..Len(stack) : stack[i].name \in Names
<1>1. stack \in Seq(Frames) /\ stack # <<>>
  BY DEF Inv, TypeOK
<1>2. Len(stack) \in Nat /\ Len(stack) >= 1 /\ top = stack[1]
      /\ \A i \in 1..Len(stack) : stack[i] \in Frames
  BY <1>1 DEF top
<1>. QED
  BY <1>1, <1>2 DEF Inv, CallersNamed, Frames

LEMMA UpdateShape ==
  ASSUME Inv, NEW f \in Frames, Update(f), f.dir = top.dir, f.path = top.path, UNCHANGED env
  PROVE  Updated /\ stack'[1] = f
<1>1. stack \in Seq(Frames) /\ stack # <<>> /\ top = stack[1] /\ Len(stack) \in Nat
  BY StackFacts DEF Inv, TypeOK
<1>2. /\ Tail(stack) \in Seq(Frames) /\ Len(Tail(stack)) = Len(stack) - 1
      /\ \A i \in 1..(Len(stack) - 1) : Tail(stack)[i] = stack[i + 1]
  BY <1>1, PopFacts
<1>3. stack' = <<f>> \o Tail(stack)
  BY DEF Update
<1>4. /\ stack' \in Seq(Frames) /\ stack' # <<>> /\ Len(stack') = Len(stack)
      /\ Head(stack') = f
      /\ \A i \in 2..Len(stack) : stack'[i] = Tail(stack)[i - 1]
  BY <1>1, <1>2, <1>3, PushFacts
<1>5. stack'[1] = f
  BY <1>4, PopFacts
<1>6. \A i \in 2..Len(stack) : stack'[i] = stack[i]
  BY <1>1, <1>2, <1>4
<1>. QED
  BY <1>1, <1>4, <1>5, <1>6 DEF Updated

LEMMA PushShape ==
  ASSUME Inv, entry \in Dirs, top.name \in Names,
         stack' = <<Frame(entry, Append(top.path, top.name))>> \o stack, UNCHANGED env
  PROVE  Pushed
<1>. DEFINE fr == Frame(entry, Append(top.path, top.name))
<1>1. stack \in Seq(Frames) /\ stack # <<>> /\ top = stack[1] /\ Len(stack) \in Nat
  BY StackFacts DEF Inv, TypeOK
<1>2. /\ fr \in Frames /\ fr.dir = entry
      /\ fr.path = Append(top.path, top.name)
  BY TopFacts DEF Frame, Frames
<1>3. stack' = <<fr>> \o stack
  OBVIOUS
<1>. HIDE DEF fr
<1>4. /\ stack' \in Seq(Frames) /\ stack' # <<>> /\ Len(stack') = Len(stack) + 1
      /\ Head(stack') = fr
      /\ \A i \in 2..(Len(stack) + 1) : stack'[i] = stack[i - 1]
  BY <1>1, <1>2, <1>3, PushFacts
<1>5. stack'[1] = fr
  BY <1>4, PopFacts
<1>6. \A i \in 1..Len(stack) : stack'[i + 1] = stack[i]
  BY <1>1, <1>4
<1>. QED
  BY <1>1, <1>2, <1>4, <1>5, <1>6 DEF Pushed, entry

LEMMA PopShape ==
  ASSUME Inv, Len(stack) # 1, stack' = Tail(stack), UNCHANGED env
  PROVE  Popped
BY StackFacts, PopFacts, LongerThanOne DEF Popped, Inv, TypeOK

LEMMA RemoveShape ==
  ASSUME Inv, RemoveEntry, top.name \in Names, Unlinkable(entry) \/ Rmdirable(entry)
  PROVE  Removed
<1>1. entry # None /\ (entry \in Dirs => Entries(tree, entry) = {})
  BY TreeAssumption DEF Unlinkable, Rmdirable, Nodes
<1>. QED
  BY <1>1, StackFacts DEF RemoveEntry, Removed, entry

\* Opening the stream and reading a name touch only the innermost activation.
LEMMA UpdateOrKept ==
  ASSUME Inv, OpenStream \/ \E n \in Names : ReadEntry(n)
  PROVE  Kept \/ Updated
<1>1. CASE OpenStream
  <2>. DEFINE f == [top EXCEPT !.must = Entries(tree, top.dir), !.may = {}]
  <2>1. f \in Frames /\ f.dir = top.dir /\ f.path = top.path
    BY TopFacts DEF Frames, Entries
  <2>2. CASE Update(f) /\ UNCHANGED env
    <3>. HIDE DEF f
    <3>. QED
      BY <2>1, <2>2, UpdateShape
  <2>. QED
    BY <1>1, <2>2 DEF OpenStream, Recover, Kept
<1>2. ASSUME NEW n \in Names, ReadEntry(n) PROVE Updated
  <2>. DEFINE f == [top EXCEPT !.name = n, !.must = @ \ {n}, !.may = @ \ {n}]
  <2>1. f \in Frames /\ f.dir = top.dir /\ f.path = top.path
    BY TopFacts DEF Frames
  <2>2. Update(f) /\ UNCHANGED env
    BY <1>2 DEF ReadEntry
  <2>. HIDE DEF f
  <2>. QED
    BY <2>1, <2>2, UpdateShape
<1>. QED
  BY <1>1, <1>2

LEMMA WalkShapes ==
  ASSUME Inv, Walk
  PROVE  Kept \/ Updated \/ Pushed \/ Popped \/ Removed
<1>0. top.name \in Names \/ pc \notin {"fstatat", "openat", "unlink", "rmdir"}
  BY DEF Inv, TypeOK, top
<1>1. ASSUME NEW next, Recover(next) PROVE Kept
  BY <1>1 DEF Recover, Kept
<1>2. CASE TooDeep \/ EndOfStream \/ Fstatat
  BY <1>1, <1>2 DEF TooDeep, EndOfStream, Fstatat, Kept
<1>3. CASE OpenStream \/ \E n \in Names : ReadEntry(n)
  BY <1>3, UpdateOrKept
<1>5. CASE Openat
  <2>1. CASE /\ Works(Opened(entry) # None)
             /\ stack' = <<Frame(Opened(entry), Append(top.path, top.name))>> \o stack
             /\ UNCHANGED env
    <3>1. entry \in Dirs /\ Opened(entry) = entry
      BY <2>1 DEF Works, Opened
    <3>. QED
      BY <1>0, <1>5, <2>1, <3>1, PushShape DEF Openat
  <2>. QED
    BY <1>1, <1>5, <2>1 DEF Openat
<1>6. CASE Return
  BY <1>6, PopShape DEF Return, Kept
<1>7. CASE Unlink
  BY <1>0, <1>1, <1>7, RemoveShape DEF Unlink, Works
<1>8. CASE Rmdir
  BY <1>0, <1>1, <1>8, RemoveShape DEF Rmdir, Works
<1>. QED
  BY <1>2, <1>3, <1>5, <1>6, <1>7, <1>8 DEF Walk

\* Taking an entry away leaves the entry of whatever still has one.
Without(t, g, k) == [t EXCEPT ![g][k] = None]

LEMMA LinkSurvives ==
  ASSUME NEW t \in Trees, NEW g \in Dirs, NEW k \in Names, Forest(t)
  PROVE  \A d, e \in Dirs, m \in Names :
           t[e][m] = d /\ Alive(Without(t, g, k), d) => Without(t, g, k)[e][m] = d
<1>. DEFINE u == Without(t, g, k)
<1>1. u[g][k] = None /\ \A x \in Dirs, y \in Names : ~(x = g /\ y = k) => u[x][y] = t[x][y]
  BY DEF Without, Trees
<1>. HIDE DEF u
<1>. SUFFICES ASSUME NEW d \in Dirs, NEW e \in Dirs, NEW m \in Names,
                     t[e][m] = d, Alive(u, d)
              PROVE  u[e][m] = d
  BY DEF u
<1>2. CASE e = g /\ m = k
  <2>1. d # None /\ d # Root
    BY TreeAssumption DEF Forest, Linked, Nodes
  <2>2. ~Linked(u, d)
    BY <1>1, <1>2, <2>1 DEF Forest, Linked
  <2>. QED
    BY <2>1, <2>2 DEF Alive
<1>. QED
  BY <1>1, <1>2

LEMMA WalkKeepsPlaced ==
  ASSUME Inv, Placed, Walk, Inv'
  PROVE  Placed'
<1>1. CASE Kept
  <2>1. UNCHANGED <<stack, tree, fresh, moved>>
    BY <1>1 DEF Kept, env, fsVars
  <2>. QED
    BY <2>1 DEF Placed, Outer, Entered, Forest, Unborn, Alive, Linked, Entries
<1>. USE StackFacts
<1>0. Outer = stack[Len(stack)] /\ FSTypeOK
  BY DEF Outer, Inv, TypeOK
<1>2. CASE Updated \/ Pushed \/ Popped
  <2>. UNCHANGED <<tree, fresh, moved>>
    BY <1>2 DEF Updated, Pushed, Popped, env, fsVars
  <2>1. Forest(tree)' /\ Unborn'
    BY DEF Placed, Forest, Unborn, Alive, Linked, Entries
  <2>2. Outer'.dir = Outer.dir /\ Outer'.path = Outer.path
    <3>1. CASE Updated
      BY <3>1 DEF Outer, Updated
    <3>2. CASE Pushed \/ Popped
      <4>1. Outer' = Outer
        BY <3>2 DEF Outer, Pushed, Popped
      <4>. QED
        BY <4>1
    <3>. QED
      BY <1>2, <3>1, <3>2
  <2>3. Entered'
    <3>. SUFFICES ASSUME NEW i \in 1..(Len(stack') - 1)
                  PROVE  /\ stack'[i].dir \notin fresh
                         /\ stack'[i].dir \notin moved /\ Alive(tree, stack'[i].dir)
                              => tree[stack'[i + 1].dir][stack'[i + 1].name] = stack'[i].dir
      BY DEF Entered, Alive, Linked
    <3>1. CASE Updated
      <4>1. i \in 1..(Len(stack) - 1) /\ i + 1 \in 2..Len(stack)
        BY <3>1 DEF Updated
      <4>2. stack'[i].dir = stack[i].dir /\ stack'[i + 1] = stack[i + 1]
        BY <3>1, <4>1 DEF Updated
      <4>. QED
        BY <4>1, <4>2 DEF Placed, Entered
    <3>2. CASE Pushed
      <4>1. CASE i = 1
        <5>1. stack'[2] = stack[1] /\ stack'[1].dir = tree[stack[1].dir][stack[1].name]
              /\ stack'[1].dir \in Dirs
          BY <3>2 DEF Pushed
        <5>2. Linked(tree, stack'[1].dir)
          BY <3>2, <5>1 DEF Linked, Pushed
        <5>3. stack'[1].dir \notin fresh
          BY <5>2 DEF Placed, Unborn, Alive
        <5>. QED
          BY <4>1, <5>1, <5>3
      <4>2. CASE i # 1
        <5>1. i - 1 \in 1..(Len(stack) - 1) /\ i \in 1..Len(stack)
              /\ (i - 1) + 1 = i
          BY <3>2, <4>2 DEF Pushed
        <5>2. stack'[i] = stack[i - 1] /\ stack'[i + 1] = stack[i]
          <6>1. i - 1 \in 1..Len(stack)
            BY <5>1
          <6>. QED
            BY <3>2, <5>1, <6>1 DEF Pushed
        <5>. QED
          BY <5>1, <5>2 DEF Placed, Entered
      <4>. QED
        BY <4>1, <4>2
    <3>3. CASE Popped
      <4>1. i + 1 \in 1..(Len(stack) - 1) /\ i \in 1..(Len(stack) - 1)
        BY <3>3 DEF Popped
      <4>2. stack'[i] = stack[i + 1] /\ stack'[i + 1] = stack[(i + 1) + 1]
        BY <3>3, <4>1 DEF Popped
      <4>. QED
        BY <4>1, <4>2 DEF Placed, Entered
    <3>. QED
      BY <1>2, <3>1, <3>2, <3>3
  <2>. QED
    BY <2>1, <2>2, <2>3 DEF Placed
<1>3. CASE Removed
  <2>. USE <1>3 DEF Removed
  <2>1. Forest(tree)' /\ Unborn'
    BY <1>0, DeletionKeepsForest DEF Placed
  <2>2. Entered'
    <3>. SUFFICES ASSUME NEW i \in 1..(Len(stack) - 1)
                  PROVE  /\ stack[i].dir \notin fresh
                         /\ stack[i].dir \notin moved /\ Alive(tree', stack[i].dir)
                              => tree'[stack[i + 1].dir][stack[i + 1].name] = stack[i].dir
      BY DEF Entered
    <3>1. stack[i].dir \notin fresh
      BY DEF Placed, Entered
    <3>2. ASSUME stack[i].dir \notin moved, Alive(tree', stack[i].dir)
          PROVE  tree'[stack[i + 1].dir][stack[i + 1].name] = stack[i].dir
      <4>1. /\ i \in 1..Len(stack) /\ i + 1 \in 2..Len(stack) /\ i + 1 \in 1..Len(stack)
            /\ stack[i].dir \in Dirs /\ stack[i + 1].dir \in Dirs
            /\ stack[i + 1].name \in Names
        OBVIOUS
      <4>2. Alive(tree, stack[i].dir)
        <5>1. \A y \in Dirs : Linked(tree', y) => Linked(tree, y)
          <6>1. \A x \in Dirs, y \in Names : tree'[x][y] = tree[x][y] \/ tree'[x][y] = None
            BY <1>0 DEF FSTypeOK, Trees
          <6>. QED
            BY <6>1, TreeAssumption DEF Linked, Nodes
        <5>. QED
          BY <3>2, <4>1, <5>1 DEF Alive
      <4>3. tree[stack[i + 1].dir][stack[i + 1].name] = stack[i].dir
        BY <3>2, <4>2 DEF Placed, Entered
      <4>4. \A d, e \in Dirs, m \in Names :
              tree[e][m] = d /\ Alive(tree', d) => tree'[e][m] = d
        <5>. DEFINE g == stack[1].dir
                    k == stack[1].name
        <5>1. g \in Dirs /\ k \in Names /\ tree' = Without(tree, g, k)
          BY DEF Without
        <5>2. tree \in Trees /\ Forest(tree)
          BY <1>0 DEF Placed, FSTypeOK
        <5>. HIDE DEF g, k, Removed
        <5>. QED
          BY <5>1, <5>2, LinkSurvives
      <4>. QED
        <5>. DEFINE d == stack[i].dir
                    e == stack[i + 1].dir
                    m == stack[i + 1].name
        <5>1. d \in Dirs /\ e \in Dirs /\ m \in Names
          BY <4>1
        <5>2. tree[e][m] = d /\ Alive(tree', d)
          BY <3>2, <4>3
        <5>. HIDE DEF d, e, m
        <5>3. tree'[e][m] = d
          BY <4>4, <5>1, <5>2
        <5>. QED
          BY <5>3 DEF d, e, m
    <3>. QED
      BY <3>1, <3>2
  <2>. QED
    BY <2>1, <2>2 DEF Placed, Outer
<1>. QED
  BY <1>1, <1>2, <1>3, WalkShapes

LEMMA InterfereKeepsPlaced ==
  ASSUME Inv, Placed, Interfere
  PROVE  Placed'
<1>. USE StackFacts
<1>0. FSTypeOK /\ Applications
  BY DEF Inv, TypeOK, Interfere
<1>1. Forest(tree)' /\ Unborn'
  BY <1>0, ForestKept DEF Placed
<1>2. /\ Len(stack') = Len(stack)
      /\ \A i \in 1..Len(stack) : /\ stack'[i].dir = stack[i].dir
                                  /\ stack'[i].name = stack[i].name
                                  /\ stack'[i].path = stack[i].path
  <2>1. stack' = [i \in 1..Len(stack) |-> Watch(stack[i])]
    BY DEF Interfere
  <2>2. ASSUME NEW f \in Frames
        PROVE  /\ Watch(f).dir = f.dir /\ Watch(f).name = f.name
               /\ Watch(f).path = f.path
    BY DEF Watch, Frames
  <2>. QED
    BY <2>1, <2>2
<1>3. Outer'.dir = Boundary /\ Outer'.path = <<>>
  BY <1>2 DEF Outer, Placed
<1>4. Entered'
  <2>. SUFFICES ASSUME NEW i \in 1..(Len(stack) - 1)
                PROVE  /\ stack[i].dir \notin fresh'
                       /\ stack[i].dir \notin moved' /\ Alive(tree', stack[i].dir)
                            => tree'[stack[i + 1].dir][stack[i + 1].name] = stack[i].dir
    <3>1. \A i \in 1..(Len(stack) - 1) : i \in 1..Len(stack) /\ i + 1 \in 1..Len(stack)
      OBVIOUS
    <3>. QED
      BY <1>2, <3>1 DEF Entered
  <2>. DEFINE d == stack[i].dir
              e == stack[i + 1].dir
              m == stack[i + 1].name
  <2>1. d \in Dirs /\ e \in Dirs /\ m \in Names /\ d # None
    BY TreeAssumption DEF Nodes
  <2>2. d \notin fresh /\ (d \notin moved /\ Alive(tree, d) => tree[e][m] = d)
    BY DEF Placed, Entered
  <2>. HIDE DEF d, e, m
  <2>3. d \notin fresh'
    BY <1>0, <2>2 DEF Applications, CreateEntry, DeleteEntry, RenameEntry
  <2>4. ASSUME d \notin moved', Alive(tree', d) PROVE tree'[e][m] = d
    <3>1. ASSUME NEW g \in Dirs, NEW n \in Names, NEW x \in Spare, CreateEntry(g, n, x)
          PROVE  tree'[e][m] = d
      <4>1. x # d /\ tree[g][n] = None /\ moved' = moved
        BY <2>2, <3>1 DEF CreateEntry
      <4>2. \A y \in Dirs, k \in Names : tree'[y][k] = tree[y][k] \/ tree'[y][k] = x
        BY <1>0, <3>1 DEF CreateEntry, FSTypeOK, Trees
      <4>3. Alive(tree, d)
        BY <2>4, <4>1, <4>2 DEF Alive, Linked
      <4>4. tree[e][m] = d
        BY <2>2, <2>4, <4>1, <4>3
      <4>. QED
        BY <1>0, <2>1, <3>1, <4>1, <4>4 DEF CreateEntry, FSTypeOK, Trees
    <3>2. ASSUME NEW g \in Dirs, NEW n \in Names, DeleteEntry(g, n)
          PROVE  tree'[e][m] = d
      <4>1. tree' = [tree EXCEPT ![g][n] = None] /\ moved' = moved
        BY <3>2 DEF DeleteEntry
      <4>2. \A y \in Dirs, k \in Names : tree'[y][k] = tree[y][k] \/ tree'[y][k] = None
        BY <1>0, <4>1 DEF FSTypeOK, Trees
      <4>3. Alive(tree, d)
        BY <2>1, <2>4, <4>2 DEF Alive, Linked
      <4>4. tree[e][m] = d
        BY <2>2, <2>4, <4>1, <4>3
      <4>5. \A x, y \in Dirs, j \in Names :
              tree[y][j] = x /\ Alive(tree', x) => tree'[y][j] = x
        <5>1. tree' = Without(tree, g, n)
          BY <4>1 DEF Without
        <5>2. tree \in Trees /\ Forest(tree)
          BY <1>0 DEF Placed, FSTypeOK
        <5>. QED
          BY <5>1, <5>2, LinkSurvives
      <4>. QED
        BY <2>1, <2>4, <4>4, <4>5
    <3>3. ASSUME NEW g \in Dirs, NEW h \in Dirs, NEW n \in Names, NEW k \in Names,
                 RenameEntry(g, n, h, k)
          PROVE  tree'[e][m] = d
      <4>1. /\ tree[g][n] # d /\ tree[h][k] = None /\ d \notin moved
            /\ tree' = [tree EXCEPT ![g][n] = None, ![h][k] = tree[g][n]]
        BY <2>4, <3>3 DEF RenameEntry
      <4>2. \A y \in Dirs, j \in Names : tree'[y][j] = d => tree[y][j] = d
        BY <1>0, <2>1, <4>1 DEF FSTypeOK, Trees
      <4>3. Alive(tree, d)
        BY <2>4, <4>2 DEF Alive, Linked
      <4>4. tree[e][m] = d
        BY <2>2, <4>1, <4>3
      <4>5. ~(e = g /\ m = n) /\ ~(e = h /\ m = k)
        BY <2>1, <4>1, <4>4
      <4>. QED
        BY <1>0, <2>1, <4>1, <4>4, <4>5 DEF FSTypeOK, Trees
    <3>. QED
      BY <1>0, <3>1, <3>2, <3>3 DEF Applications
  <2>. QED
    BY <2>3, <2>4 DEF d, e, m
<1>. QED
  BY <1>1, <1>3, <1>4 DEF Placed

LEMMA InitPlaced == Init => Placed
<1>. SUFFICES ASSUME Init PROVE Placed
  OBVIOUS
<1>1. stack = <<Frame(Boundary, <<>>)>> /\ tree = InitTree /\ fresh = Spare
  BY DEF Init, FSInit
<1>2. Forest(tree) /\ Unborn
  BY <1>1, ForestAssumption DEF Unborn
<1>3. Len(stack) = 1 /\ stack[1] = Frame(Boundary, <<>>)
  BY <1>1
<1>. QED
  BY <1>2, <1>3 DEF Placed, Outer, Entered, Frame

LEMMA NextKeepsPlaced == Inv /\ Placed /\ [Next]_vars => Placed'
<1>1. ASSUME Inv, Placed, UNCHANGED vars PROVE Placed'
  BY <1>1 DEF vars, env, fsVars, walkVars, Placed, Outer, Entered, Forest, Unborn, Alive,
     Linked, Entries
<1>2. ASSUME Inv, Placed, Walk PROVE Placed'
  BY <1>2, WalkKeepsInv, WalkKeepsPlaced
<1>. QED
  BY <1>1, <1>2, InterfereKeepsPlaced DEF Next, Returned

\* A directory with an entry has one itself; by the links, all the callers of
\* an activation that finds an entry are then where they were entered.
LEMMA CallersAlive ==
  ASSUME Inv, Placed, entry # None, top.name \in Names, Undisturbed
  PROVE  \A i \in 1..(Len(stack) - 1) :
           tree[stack[i + 1].dir][stack[i + 1].name] = stack[i].dir
<1>. USE StackFacts
<1>0. \A i \in 1..Len(stack) : stack[i].dir \notin moved
  BY DEF Undisturbed
<1>1. Alive(tree, stack[1].dir)
  BY DEF Placed, Forest, Entries, entry
<1>. DEFINE T == {i \in Nat : i \in 1..Len(stack) /\ ~Alive(tree, stack[i].dir)}
<1>2. T = {}
  <2>. SUFFICES ASSUME T # {} PROVE FALSE
    OBVIOUS
  <2>1. PICK n \in T : \A m \in T : n <= m
    BY LeastNumber
  <2>2. n \in 1..Len(stack) /\ ~Alive(tree, stack[n].dir) /\ n # 1
    BY <1>1, <2>1
  <2>3. n - 1 \in 1..(Len(stack) - 1) /\ n - 1 \in 1..Len(stack) /\ n - 1 \notin T
        /\ (n - 1) + 1 = n /\ n \in 2..Len(stack) /\ n - 1 \in Nat
    BY <2>1, <2>2
  <2>4. Alive(tree, stack[n - 1].dir)
    BY <2>3
  <2>. HIDE DEF T
  <2>5. tree[stack[n].dir][stack[n].name] = stack[n - 1].dir
    BY <1>0, <2>3, <2>4 DEF Placed, Entered
  <2>6. stack[n].name \in Entries(tree, stack[n].dir)
    BY <2>3, <2>5, TreeAssumption DEF Entries, Nodes
  <2>. QED
    BY <2>2, <2>6 DEF Placed, Forest
<1>3. \A i \in 1..(Len(stack) - 1) : i \in 1..Len(stack) /\ Alive(tree, stack[i].dir)
  BY <1>2
<1>. QED
  BY <1>0, <1>3 DEF Placed, Entered

LEMMA RemovalIsBelow ==
  ASSUME Inv, Placed, Removal, Undisturbed
  PROVE  top.dir \in Below(tree, {Boundary})
<1>. USE StackFacts
<1>1. entry # None /\ top.name \in Names
  <2>1. Removed
    BY WalkShapes DEF Removal, Kept, Updated, Pushed, Popped, env, fsVars
  <2>. QED
    BY <2>1 DEF Removed
<1>2. \A i \in 1..(Len(stack) - 1) :
        tree[stack[i + 1].dir][stack[i + 1].name] = stack[i].dir
  BY <1>1, CallersAlive
<1>. SUFFICES ASSUME NEW C \in SUBSET Dirs, {Boundary} \subseteq C, Closed(tree, C)
              PROVE  stack[1].dir \in C
  BY DEF Below
<1>3. stack[Len(stack)].dir \in C
  BY DEF Placed, Outer
<1>. DEFINE T == {i \in Nat : i < Len(stack) /\ stack[Len(stack) - i].dir \notin C}
<1>4. T = {}
  <2>. SUFFICES ASSUME T # {} PROVE FALSE
    OBVIOUS
  <2>1. PICK n \in T : \A m \in T : n <= m
    BY LeastNumber
  <2>2. n \in Nat /\ n < Len(stack) /\ stack[Len(stack) - n].dir \notin C /\ n # 0
    BY <1>3, <2>1
  <2>3. n - 1 \in Nat /\ n - 1 < Len(stack) /\ n - 1 \notin T
    BY <2>1, <2>2
  <2>. DEFINE j == Len(stack) - n
  <2>4. /\ j \in 1..(Len(stack) - 1) /\ j \in 1..Len(stack) /\ j + 1 \in 1..Len(stack)
        /\ j + 1 \in 2..Len(stack) /\ Len(stack) - (n - 1) = j + 1
    BY <2>2
  <2>5. stack[j + 1].dir \in C
    BY <2>3, <2>4
  <2>. HIDE DEF T, j
  <2>6. tree[stack[j + 1].dir][stack[j + 1].name] = stack[j].dir
    BY <1>2, <2>4
  <2>7. stack[j].dir \in C
    BY <2>4, <2>5, <2>6 DEF Closed
  <2>. QED
    BY <2>2, <2>7 DEF j
<1>. QED
  <2>1. Len(stack) - 1 \in Nat /\ Len(stack) - 1 < Len(stack)
        /\ Len(stack) - (Len(stack) - 1) = 1
    OBVIOUS
  <2>. QED
    BY <1>4, <2>1

\* As long as nobody renames a directory that is being walked, what
\* clearDirectoryFd removes is, at that moment, below the boundary.
THEOREM RemovalsStayInside == Spec => StaysInBoundary
<1>1. Inv /\ Placed /\ [Next]_vars
        => [Removal /\ Undisturbed => top.dir \in Below(tree, {Boundary})]_vars
  BY RemovalIsBelow
<1>. QED
  BY <1>1, InitInv, NextKeepsInv, InitPlaced, NextKeepsPlaced, PTL DEF Spec, StaysInBoundary

-----------------------------------------------------------------------------
(***************************************************************************)
(* What is spared.  The walk compares names it has put together itself     *)
(* with the exclusions: an activation's logical path is its caller's with  *)
(* the name the caller is at, and no name that is handled gives an         *)
(* excluded path.  Two paths of a tree never meet, so what is not excluded *)
(* by name is not excluded by any other way to the same directory.         *)
(***************************************************************************)
PathOf(i) == Append(stack[i].path, stack[i].name)

Handled == pc \in {"fstatat", "openat", "unlink", "rmdir"}

Spared ==
  /\ Rooted(tree)
  /\ \A i \in 1..(Len(stack) - 1) : stack[i].path = PathOf(i + 1)
  /\ \A i \in 1..Len(stack) : i > 1 \/ Handled => ~IsExcluded(PathOf(i))

LEMMA HandledIsSpared ==
  ASSUME Inv, Spared, Walk, Handled'
  PROVE  ~IsExcluded(Append(stack'[1].path, stack'[1].name))
<1>. USE StackFacts
<1>1. CASE TooDeep \/ OpenStream \/ EndOfStream \/ Openat \/ Unlink \/ Rmdir
  BY <1>1 DEF TooDeep, OpenStream, EndOfStream, Openat, Unlink, Rmdir, Recover, RemoveEntry,
     Handled
<1>2. ASSUME NEW n \in Names, ReadEntry(n)
      PROVE  ~IsExcluded(Append(stack'[1].path, stack'[1].name))
  <2>. DEFINE f == [top EXCEPT !.name = n, !.must = @ \ {n}, !.may = @ \ {n}]
  <2>1. f \in Frames /\ f.dir = top.dir /\ f.path = top.path /\ f.name = n
    BY TopFacts DEF Frames
  <2>2. Update(f) /\ UNCHANGED env /\ ~IsExcluded(Append(top.path, n))
    BY <1>2 DEF ReadEntry, Handled
  <2>. HIDE DEF f
  <2>3. stack'[1] = f
    BY <2>1, <2>2, UpdateShape
  <2>. QED
    BY <2>1, <2>2, <2>3
<1>3. CASE Fstatat
  <2>1. Handled /\ stack' = stack
    BY <1>3 DEF Fstatat, Recover, Handled
  <2>. QED
    BY <2>1 DEF Spared, PathOf
<1>4. CASE Return
  <2>1. Len(stack) # 1 /\ stack' = Tail(stack)
    BY <1>4 DEF Return, Handled
  <2>2. Len(stack) > 1 /\ stack'[1] = stack[2] /\ 2 \in 1..Len(stack)
    BY <2>1, PopFacts, LongerThanOne DEF Inv, TypeOK
  <2>. QED
    BY <2>2 DEF Spared, PathOf
<1>. QED
  BY <1>1, <1>2, <1>3, <1>4 DEF Walk

LEMMA WalkKeepsSpared ==
  ASSUME Inv, Inv', Placed, Spared, Walk
  PROVE  Spared'
<1>. USE StackFacts
<1>0. FSTypeOK /\ tree \in Trees
  BY DEF Inv, TypeOK, FSTypeOK
<1>1. Rooted(tree')
  <2>1. CASE Removed
    <3>1. tree' = [tree EXCEPT ![stack[1].dir][stack[1].name] = None]
          /\ stack[1].name \in Names
          /\ (tree[stack[1].dir][stack[1].name] \in Dirs
                => Entries(tree, tree[stack[1].dir][stack[1].name]) = {})
      BY <2>1 DEF Removed
    <3>. QED
      BY <1>0, <3>1, DeletionKeepsRooted DEF Placed, Spared
  <2>2. CASE Kept \/ Updated \/ Pushed \/ Popped
    <3>1. tree' = tree
      BY <2>2 DEF Kept, Updated, Pushed, Popped, env, fsVars
    <3>. QED
      BY <3>1 DEF Spared
  <2>. QED
    BY <2>1, <2>2, WalkShapes
<1>2. /\ \A i \in 1..(Len(stack') - 1) : stack'[i].path = Append(stack'[i + 1].path, stack'[i + 1].name)
      /\ \A i \in 2..Len(stack') : ~IsExcluded(Append(stack'[i].path, stack'[i].name))
  <2>0. /\ \A i \in 1..(Len(stack) - 1) :
             stack[i].path = Append(stack[i + 1].path, stack[i + 1].name)
        /\ \A i \in 1..Len(stack) :
             i > 1 \/ Handled => ~IsExcluded(Append(stack[i].path, stack[i].name))
    BY DEF Spared, PathOf
  <2>1. CASE Kept \/ Removed
    <3>1. stack' = stack
      BY <2>1 DEF Kept, Removed
    <3>. QED
      BY <2>0, <3>1
  <2>2. CASE Updated
    <3>1. /\ Len(stack') = Len(stack) /\ stack'[1].path = stack[1].path
          /\ \A i \in 2..Len(stack) : stack'[i] = stack[i]
      BY <2>2 DEF Updated
    <3>2. ASSUME NEW i \in 1..(Len(stack') - 1)
          PROVE  stack'[i].path = Append(stack'[i + 1].path, stack'[i + 1].name)
      <4>1. i \in 1..(Len(stack) - 1) /\ i + 1 \in 2..Len(stack)
        BY <3>1
      <4>2. stack'[i].path = stack[i].path /\ stack'[i + 1] = stack[i + 1]
        BY <3>1, <4>1
      <4>. QED
        BY <2>0, <4>1, <4>2
    <3>3. ASSUME NEW i \in 2..Len(stack')
          PROVE  ~IsExcluded(Append(stack'[i].path, stack'[i].name))
      <4>1. i \in 1..Len(stack) /\ i > 1 /\ i \in 2..Len(stack)
        BY <3>1
      <4>2. stack'[i] = stack[i]
        BY <3>1, <4>1, Zenon
      <4>. QED
        BY <2>0, <4>1, <4>2, Zenon
    <3>. QED
      BY <3>2, <3>3, Zenon
  <2>3. CASE Pushed
    <3>1. /\ Len(stack') = Len(stack) + 1
          /\ stack'[1].path = Append(stack[1].path, stack[1].name)
          /\ \A i \in 1..Len(stack) : stack'[i + 1] = stack[i]
      BY <2>3 DEF Pushed
    <3>2. Handled
      <4>1. Len(stack') # Len(stack)
        BY <3>1
      <4>2. ~(Kept \/ Updated \/ Popped \/ Removed)
        BY <3>1 DEF Kept, Updated, Popped, Removed
      <4>3. CASE Openat
        BY <4>3 DEF Openat, Handled
      <4>4. CASE ~Openat
        <5>1. CASE Return
          <6>1. Len(stack) # 1 => Popped
            BY <5>1, PopShape DEF Return
          <6>. QED
            BY <4>1, <4>2, <5>1, <6>1 DEF Return
        <5>2. CASE TooDeep \/ EndOfStream \/ Fstatat \/ Unlink \/ Rmdir
          BY <4>1, <5>2 DEF TooDeep, EndOfStream, Fstatat, Unlink, Rmdir, Recover, RemoveEntry
        <5>3. CASE OpenStream \/ \E n \in Names : ReadEntry(n)
          BY <4>2, <5>3, UpdateOrKept
        <5>. QED
          BY <4>4, <5>1, <5>2, <5>3 DEF Walk
      <4>. QED
        BY <4>3, <4>4
    <3>3. ASSUME NEW i \in 2..Len(stack')
          PROVE  i - 1 \in 1..Len(stack) /\ stack'[i] = stack[i - 1]
      <4>1. i - 1 \in 1..Len(stack) /\ (i - 1) + 1 = i
        BY <3>1
      <4>. QED
        BY <3>1, <4>1
    <3>4. ASSUME NEW i \in 1..(Len(stack') - 1)
          PROVE  stack'[i].path = Append(stack'[i + 1].path, stack'[i + 1].name)
      <4>1. i + 1 \in 2..Len(stack') /\ i \in 1..Len(stack)
        BY <3>1
      <4>2. stack'[i + 1] = stack[i]
        BY <3>1, <4>1
      <4>3. CASE i = 1
        BY <3>1, <4>2, <4>3
      <4>4. CASE i # 1
        <5>1. i \in 2..Len(stack') /\ i - 1 \in 1..(Len(stack) - 1) /\ (i - 1) + 1 = i
          BY <3>1, <4>1, <4>4
        <5>2. stack'[i] = stack[i - 1]
          BY <3>3, <5>1
        <5>3. stack[i - 1].path = Append(stack[i].path, stack[i].name)
          BY <2>0, <5>1
        <5>. QED
          BY <4>2, <5>2, <5>3
      <4>. QED
        BY <4>3, <4>4
    <3>. QED
      BY <2>0, <3>2, <3>3, <3>4
  <2>4. CASE Popped
    <3>1. /\ Len(stack') = Len(stack) - 1 /\ Len(stack) > 1
          /\ \A i \in 1..(Len(stack) - 1) : stack'[i] = stack[i + 1]
      BY <2>4 DEF Popped
    <3>2. ASSUME NEW i \in 1..(Len(stack') - 1)
          PROVE  stack'[i].path = Append(stack'[i + 1].path, stack'[i + 1].name)
      <4>1. /\ i \in 1..(Len(stack) - 1) /\ i + 1 \in 1..(Len(stack) - 1)
            /\ stack'[i] = stack[i + 1] /\ stack'[i + 1] = stack[(i + 1) + 1]
        BY <3>1
      <4>. QED
        BY <2>0, <4>1
    <3>3. ASSUME NEW i \in 2..Len(stack')
          PROVE  ~IsExcluded(Append(stack'[i].path, stack'[i].name))
      <4>1. i \in 1..(Len(stack) - 1) /\ i + 1 \in 1..Len(stack) /\ i + 1 > 1
        BY <3>1
      <4>. QED
        BY <2>0, <3>1, <4>1
    <3>. QED
      BY <3>2, <3>3
  <2>. QED
    BY <2>1, <2>2, <2>3, <2>4, WalkShapes
<1>3. Handled' => ~IsExcluded(Append(stack'[1].path, stack'[1].name))
  BY HandledIsSpared
<1>4. \A i \in 1..Len(stack') : i > 1 \/ Handled' => ~IsExcluded(Append(stack'[i].path, stack'[i].name))
  <2>. SUFFICES ASSUME NEW i \in 1..Len(stack'), i > 1 \/ Handled'
                PROVE  ~IsExcluded(Append(stack'[i].path, stack'[i].name))
    OBVIOUS
  <2>1. Len(stack') \in Nat
    BY DEF Inv, TypeOK
  <2>2. i = 1 \/ i \in 2..Len(stack')
    BY <2>1
  <2>. QED
    BY <1>2, <1>3, <2>2
<1>. QED
  BY <1>1, <1>2, <1>4 DEF Spared, PathOf, IsExcluded

\* Other processes change neither paths nor names of the activations.
LEMMA InterfereKeepsNames ==
  ASSUME Inv, Interfere
  PROVE  /\ Len(stack') = Len(stack)
         /\ \A i \in 1..Len(stack) : /\ stack'[i].dir = stack[i].dir
                                     /\ stack'[i].name = stack[i].name
                                     /\ stack'[i].path = stack[i].path
<1>. USE StackFacts
<1>1. stack' = [i \in 1..Len(stack) |-> Watch(stack[i])]
  BY DEF Interfere
<1>2. ASSUME NEW f \in Frames
      PROVE  Watch(f).dir = f.dir /\ Watch(f).name = f.name /\ Watch(f).path = f.path
  BY DEF Watch, Frames
<1>. QED
  BY <1>1, <1>2

LEMMA InterfereKeepsSpared ==
  ASSUME Inv, Placed, Spared, Interfere
  PROVE  Spared'
<1>. USE StackFacts
<1>1. Rooted(tree')
  BY RootedKept DEF Inv, TypeOK, Interfere, Placed, Spared
<1>2. /\ Len(stack') = Len(stack) /\ pc' = pc
      /\ \A i \in 1..Len(stack) : /\ stack'[i].name = stack[i].name
                                  /\ stack'[i].path = stack[i].path
  BY InterfereKeepsNames DEF Interfere
<1>3. ASSUME NEW i \in 1..(Len(stack') - 1)
      PROVE  stack'[i].path = Append(stack'[i + 1].path, stack'[i + 1].name)
  <2>1. i \in 1..(Len(stack) - 1) /\ i \in 1..Len(stack) /\ i + 1 \in 1..Len(stack)
    BY <1>2
  <2>. QED
    BY <1>2, <2>1 DEF Spared, PathOf
<1>4. ASSUME NEW i \in 1..Len(stack'), i > 1 \/ Handled'
      PROVE  ~IsExcluded(Append(stack'[i].path, stack'[i].name))
  <2>1. i > 1 \/ Handled
    BY <1>2, <1>4 DEF Handled
  <2>. QED
    BY <1>2, <2>1 DEF Spared, PathOf
<1>. QED
  BY <1>1, <1>3, <1>4 DEF Spared, PathOf, IsExcluded

LEMMA InitSpared == Init => Spared
<1>. SUFFICES ASSUME Init PROVE Spared
  OBVIOUS
<1>1. stack = <<Frame(Boundary, <<>>)>> /\ tree = InitTree /\ pc = "enter"
  BY DEF Init, FSInit
<1>2. Len(stack) = 1
  BY <1>1
<1>. QED
  BY <1>1, <1>2, ForestAssumption DEF Spared, Handled

LEMMA NextKeepsSpared == Inv /\ Placed /\ Spared /\ [Next]_vars => Spared'
<1>1. ASSUME Spared, UNCHANGED vars PROVE Spared'
  <2>1. UNCHANGED <<tree, stack, pc>>
    BY <1>1 DEF vars, env, fsVars, walkVars
  <2>. QED
    BY <1>1, <2>1 DEF Spared, PathOf, Handled, IsExcluded, Rooted, Alive, Linked, Below
<1>2. ASSUME Inv, Placed, Spared, Walk PROVE Spared'
  BY <1>2, WalkKeepsInv, WalkKeepsSpared
<1>. QED
  BY <1>1, <1>2, InterfereKeepsSpared DEF Next, Returned

\* As long as every activation is where it was entered, its logical path is
\* the one that leads to its directory.
LEMMA PathsResolve ==
  ASSUME Inv, Placed, Spared,
         \A i \in 1..(Len(stack) - 1) :
           tree[stack[i + 1].dir][stack[i + 1].name] = stack[i].dir
  PROVE  \A i \in 1..Len(stack) :
           /\ stack[i].path \in Seq(Names)
           /\ Resolve(tree, Boundary, stack[i].path) = stack[i].dir
<1>. USE StackFacts
<1>0. /\ tree \in Trees /\ Boundary \in Dirs
      /\ \A i \in 1..Len(stack) : stack[i].path \in Seq(Names)
  BY WalkAssumption DEF Inv, TypeOK, FSTypeOK, Frames
<1>. DEFINE R(i) == Resolve(tree, Boundary, stack[i].path) = stack[i].dir
            T == {n \in Nat : n < Len(stack) /\ ~R(Len(stack) - n)}
<1>1. R(Len(stack))
  BY <1>0, ResolveEmpty DEF Placed, Outer
<1>2. T = {}
  <2>. SUFFICES ASSUME T # {} PROVE FALSE
    OBVIOUS
  <2>. HIDE DEF R
  <2>1. PICK n \in T : \A m \in T : n <= m
    BY LeastNumber
  <2>. DEFINE j == Len(stack) - n
  <2>2. n # 0 /\ n \in Nat /\ n < Len(stack) /\ ~R(j)
    BY <1>1, <2>1
  <2>3. n - 1 \in Nat /\ n - 1 < Len(stack) /\ ~(n <= n - 1) /\ Len(stack) - (n - 1) = j + 1
    BY <2>2
  <2>4. R(j + 1)
    BY <2>1, <2>3
  <2>5. j \in 1..(Len(stack) - 1) /\ j \in 1..Len(stack) /\ j + 1 \in 2..Len(stack)
        /\ j + 1 \in 1..Len(stack)
    BY <2>2
  <2>. HIDE DEF j, T
  <2>6. /\ stack[j].path = Append(stack[j + 1].path, stack[j + 1].name)
        /\ stack[j + 1].name \in Names /\ stack[j + 1].dir \in Dirs
    BY <2>5 DEF Spared, PathOf
  <2>7. Resolve(tree, Boundary, stack[j].path)
          = Onward(tree, Resolve(tree, Boundary, stack[j + 1].path), stack[j + 1].name)
    BY <1>0, <2>5, <2>6, ResolveAppend
  <2>8. R(j)
    BY <2>4, <2>5, <2>6, <2>7 DEF R, Onward
  <2>. QED
    BY <2>2, <2>8
<1>3. ASSUME NEW i \in 1..Len(stack) PROVE R(i)
  <2>1. Len(stack) - i \in Nat /\ Len(stack) - i < Len(stack)
        /\ Len(stack) - (Len(stack) - i) = i
    OBVIOUS
  <2>. QED
    BY <1>2, <2>1
<1>. QED
  BY <1>0, <1>3

LEMMA RemovalIsSpared ==
  ASSUME Inv, Placed, Spared, Removal, Undisturbed
  PROVE  ~InExcluded(top.dir, top.name)
<1>. USE StackFacts
<1>. DEFINE p == stack[1].path
            d == stack[1].dir
            n == stack[1].name
<1>1. Removed /\ Handled
  <2>1. Removed
    BY WalkShapes DEF Removal, Kept, Updated, Pushed, Popped, env, fsVars
  <2>2. Handled
    BY DEF Removal, Walk, TooDeep, OpenStream, ReadEntry, EndOfStream, Fstatat, Openat, Return,
       Unlink, Rmdir, Recover, Handled, env, fsVars
  <2>. QED
    BY <2>1, <2>2
<1>2. /\ tree \in Trees /\ Boundary \in Dirs /\ Forest(tree) /\ Rooted(tree)
      /\ Exclusions \subseteq Seq(Names)
  BY WalkAssumption DEF Inv, TypeOK, FSTypeOK, Placed, Spared
<1>3. /\ p \in Seq(Names) /\ n \in Names /\ d \in Dirs
      /\ Resolve(tree, Boundary, p) = d
      /\ ~IsExcluded(Append(p, n))
  <2>1. entry # None /\ top.name \in Names
    BY <1>1 DEF Removed
  <2>2. \A i \in 1..(Len(stack) - 1) :
          tree[stack[i + 1].dir][stack[i + 1].name] = stack[i].dir
    BY <2>1, CallersAlive
  <2>. QED
    BY <1>1, <2>1, <2>2, PathsResolve DEF Spared, PathOf
<1>. HIDE DEF p, d, n
<1>4. ASSUME NEW e \in Exclusions, e # <<>>, Resolve(tree, Boundary, Front(e)) = d, Last(e) = n
      PROVE  FALSE
  <2>1. /\ e \in Seq(Names) /\ Len(e) \in Nat /\ Len(e) >= 1
        /\ Front(e) = SubSeq(e, 1, Len(e) - 1) /\ Last(e) = e[Len(e)]
    BY <1>2, <1>4 DEF Front, Last
  <2>2. Front(e) \in Seq(Names) /\ Append(Front(e), Last(e)) = SubSeq(e, 1, Len(e))
    <3>1. Len(e) \in 1..Len(e)
      BY <2>1
    <3>2. /\ SubSeq(e, 1, Len(e) - 1) \in Seq(Names)
          /\ SubSeq(e, 1, Len(e)) = Append(SubSeq(e, 1, Len(e) - 1), e[Len(e)])
      BY <2>1, <3>1, PrefixExtends, Zenon
    <3>. QED
      BY <2>1, <3>2, Zenon
  <2>3. Front(e) = p
    BY <1>2, <1>3, <1>4, <2>2, OnePath
  <2>4. Append(p, n) = e
    BY <1>4, <2>1, <2>2, <2>3
  <2>. QED
    BY <1>3, <2>1, <2>4 DEF IsExcluded, IsPrefix
<1>5. ASSUME NEW e \in Exclusions, Resolve(tree, Boundary, e) \in Dirs,
             d \in Below(tree, {Resolve(tree, Boundary, e)})
      PROVE  FALSE
  <2>1. e \in Seq(Names) /\ Len(e) \in Nat
    BY <1>2
  <2>2. Len(e) <= Len(p) /\ \A k \in 1..Len(e) : p[k] = e[k]
    BY <1>2, <1>3, <1>5, <2>1, PathBelow
  <2>3. /\ Append(p, n) \in Seq(Names) /\ Len(Append(p, n)) = Len(p) + 1
        /\ \A k \in 1..Len(p) : Append(p, n)[k] = p[k]
    BY <1>3
  <2>4. IsPrefix(e, Append(p, n))
    BY <1>3, <2>1, <2>2, <2>3 DEF IsPrefix
  <2>. QED
    BY <1>3, <2>4 DEF IsExcluded
<1>. QED
  BY <1>4, <1>5 DEF InExcluded, d, n

\* As long as nobody renames a directory that is being walked, the walk takes
\* away no entry that is excluded, or below an excluded one, in the tree as it
\* is at that moment - by whatever path one gets there.
THEOREM ExclusionsAreKept == Spec => ExclusionsKept
<1>1. Inv /\ Placed /\ Spared /\ [Next]_vars
        => [Removal /\ Undisturbed => ~InExcluded(top.dir, top.name)]_vars
  BY RemovalIsSpared
<1>. QED
  BY <1>1, InitInv, NextKeepsInv, InitPlaced, NextKeepsPlaced, InitSpared, NextKeepsSpared,
     PTL DEF Spec, ExclusionsKept

-----------------------------------------------------------------------------
(***************************************************************************)
(* What success means.  Until the walk counts a failure, every entry of    *)
(* the boundary is excluded, due to other processes, still to come in the  *)
(* outermost stream, or being handled.                                     *)
(***************************************************************************)
Settled(n) == IsExcluded(<<n>>) \/ tree[Boundary][n] \in moved \cup (Spare \ fresh)

Handling == Len(stack) > 1 \/ pc \in {"fstatat", "openat", "unlink", "rmdir"}

Covered ==
  /\ result.success =>
       \A n \in Entries(tree, Boundary) :
         \/ Settled(n)
         \/ n \in Outer.must
         \/ Len(stack) = 1 /\ pc = "enter"
         \/ Handling /\ n = Outer.name
  /\ Len(stack) = 1 /\ pc \in {"return", "done"} /\ result.success => Outer.must = {}
  /\ pc = "done" => Len(stack) = 1

LEMMA WalkKeepsCovered ==
  ASSUME Inv, Placed, Covered, Walk
  PROVE  Covered'
<1>00. Len(stack) = 1 \/ Len(stack) > 1
  <2>1. \A k \in Nat : k >= 1 => k = 1 \/ k > 1
    OBVIOUS
  <2>2. Len(stack) \in Nat /\ Len(stack) >= 1
    BY StackFacts
  <2>. QED
    BY <2>1, <2>2, Zenon
<1>. USE StackFacts
<1>0. top.name \in Names \/ pc \notin {"fstatat", "openat", "unlink", "rmdir"}
  BY DEF Inv, TypeOK, top
<1>1. ASSUME NEW next \in {"readdir", "return"}, Recover(next) PROVE Covered'
  <2>1. ~result'.success
    BY <1>1 DEF Recover, Failed, Inv, TypeOK
  <2>. QED
    BY <1>1, <2>1 DEF Recover, Covered
<1>2. ASSUME UNCHANGED <<env, stack, result>>, Handling => Handling',
             pc' # "enter", pc # "enter", pc' \notin {"return", "done"} PROVE Covered'
  BY <1>2 DEF Covered, env, fsVars, Settled, Outer, Entries, Handling
<1>3. CASE TooDeep
  BY <1>1, <1>3 DEF TooDeep
<1>4. CASE OpenStream
  <2>. DEFINE f == [top EXCEPT !.must = Entries(tree, top.dir), !.may = {}]
  <2>1. f \in Frames /\ f.dir = top.dir /\ f.path = top.path
        /\ f.must = Entries(tree, top.dir) /\ f.name = top.name
    BY TopFacts DEF Frames, Entries
  <2>2. CASE Update(f) /\ pc' = "readdir" /\ UNCHANGED <<env, result>>
    <3>. HIDE DEF f
    <3>1. Updated /\ stack'[1] = f
      BY <2>1, <2>2, UpdateShape
    <3>2. CASE Len(stack) = 1
      <4>1. Outer' = f /\ Outer = top
        BY <3>1, <3>2 DEF Outer, Updated
      <4>2. Outer'.must = Entries(tree, Boundary)
        BY <2>1, <4>1 DEF Placed
      <4>. QED
        BY <2>2, <4>2 DEF Covered, env, fsVars, Entries
    <3>3. CASE Len(stack) # 1
      <4>1. Outer' = Outer /\ Len(stack') = Len(stack) /\ Len(stack) > 1
        BY <3>1, <3>3 DEF Outer, Updated
      <4>. QED
        BY <2>2, <4>1 DEF Covered, env, fsVars, Entries, Settled, Handling
    <3>. QED
      BY <3>2, <3>3
  <2>. QED
    BY <1>1, <1>4, <2>2 DEF OpenStream
<1>5. ASSUME NEW n \in Names, ReadEntry(n) PROVE Covered'
  <2>. DEFINE f == [top EXCEPT !.name = n, !.must = @ \ {n}, !.may = @ \ {n}]
  <2>1. f \in Frames /\ f.dir = top.dir /\ f.path = top.path
        /\ f.must = top.must \ {n} /\ f.name = n
    BY TopFacts DEF Frames
  <2>2. /\ Update(f) /\ UNCHANGED <<env, result>> /\ pc = "readdir"
        /\ pc' = IF IsExcluded(Append(top.path, n)) THEN "readdir" ELSE "fstatat"
    BY <1>5 DEF ReadEntry
  <2>. HIDE DEF f
  <2>3. Updated /\ stack'[1] = f
    BY <2>1, <2>2, UpdateShape
  <2>4. CASE Len(stack) = 1
    <3>1. Outer' = f /\ Outer = top /\ Len(stack') = 1
      BY <2>3, <2>4 DEF Outer, Updated
    <3>2. Append(top.path, n) = <<n>>
      <4>1. top.path = <<>>
        BY <3>1 DEF Placed
      <4>2. Append(<<>>, n) = <<n>>
        OBVIOUS
      <4>. QED
        BY <4>1, <4>2
    <3>3. ASSUME result.success, NEW m \in Entries(tree, Boundary)
          PROVE  Settled(m) \/ m \in Outer'.must \/ (Handling' /\ m = Outer'.name)
      <4>1. Settled(m) \/ m \in Outer.must
        BY <2>2, <2>4, <3>3 DEF Covered, Handling
      <4>2. CASE m \in Outer.must /\ m # n
        BY <2>1, <3>1, <4>2
      <4>3. CASE m = n /\ ~IsExcluded(<<n>>)
        BY <2>1, <2>2, <3>1, <3>2, <4>3 DEF Handling
      <4>4. CASE m = n /\ IsExcluded(<<n>>)
        BY <4>4 DEF Settled
      <4>. QED
        BY <4>1, <4>2, <4>3, <4>4
    <3>4. /\ Entries(tree, Boundary)' = Entries(tree, Boundary)
          /\ \A m : Settled(m)' <=> Settled(m)
      BY <2>2 DEF env, fsVars, Entries, Settled, IsExcluded
    <3>5. pc' \in {"readdir", "fstatat"} /\ result' = result
      BY <2>2
    <3>6. result'.success =>
            \A m \in Entries(tree, Boundary)' :
              Settled(m)' \/ m \in Outer'.must \/ (Handling' /\ m = Outer'.name)
      BY <3>3, <3>4, <3>5
    <3>. QED
      BY <3>5, <3>6 DEF Covered
  <2>5. CASE Len(stack) # 1
    <3>1. Outer' = Outer /\ Len(stack') = Len(stack) /\ Len(stack) > 1
      BY <2>3, <2>5 DEF Outer, Updated
    <3>. QED
      BY <2>2, <3>1 DEF Covered, env, fsVars, Entries, Settled, Handling
  <2>. QED
    BY <2>4, <2>5
<1>6. CASE EndOfStream
  <2>1. CASE top.must = {} /\ pc = "readdir" /\ pc' = "return" /\ UNCHANGED <<env, stack, result>>
    <3>1. Len(stack) = 1 => Outer.must = {}
      BY <2>1 DEF Outer
    <3>. QED
      BY <2>1, <3>1 DEF Covered, env, fsVars, Settled, Outer, Entries, Handling
  <2>. QED
    BY <1>1, <1>6, <2>1 DEF EndOfStream
<1>7. CASE Fstatat
  BY <1>1, <1>2, <1>7 DEF Fstatat, Handling
<1>8. CASE Openat
  <2>1. CASE /\ Works(Opened(entry) # None)
             /\ stack' = <<Frame(Opened(entry), Append(top.path, top.name))>> \o stack
             /\ pc = "openat" /\ pc' = "enter" /\ UNCHANGED <<env, result>>
    <3>1. entry \in Dirs /\ Opened(entry) = entry
      BY <2>1 DEF Works, Opened
    <3>2. Pushed
      BY <1>0, <2>1, <3>1, PushShape
    <3>3. Outer' = Outer /\ Len(stack') > 1
      BY <3>2 DEF Outer, Pushed
    <3>. QED
      BY <2>1, <3>3 DEF Covered, env, fsVars, Entries, Settled, Handling
  <2>. QED
    BY <1>1, <1>8, <2>1 DEF Openat
<1>9. CASE Return
  <2>1. CASE Len(stack) = 1 /\ pc = "return" /\ pc' = "done" /\ UNCHANGED <<env, stack, result>>
    BY <2>1 DEF Covered, env, fsVars, Settled, Outer, Entries, Handling
  <2>2. CASE Len(stack) # 1 /\ pc' = "rmdir" /\ stack' = Tail(stack) /\ UNCHANGED <<env, result>>
    <3>1. Popped
      BY <2>2, PopShape
    <3>2. Outer' = Outer
      BY <3>1 DEF Outer, Popped
    <3>. QED
      BY <2>2, <3>1, <3>2 DEF Covered, env, fsVars, Entries, Settled, Handling, Popped
  <2>. QED
    BY <1>9, <2>1, <2>2 DEF Return
<1>10. ASSUME RemoveEntry, top.name \in Names, pc \in {"unlink", "rmdir"} PROVE Covered'
  <2>. USE <1>10 DEF RemoveEntry
  <2>1. tree \in Trees
    BY DEF Inv, TypeOK, FSTypeOK
  <2>2. /\ tree'[top.dir][top.name] = None
        /\ \A d \in Dirs, n \in Names :
             ~(d = top.dir /\ n = top.name) => tree'[d][n] = tree[d][n]
    BY <2>1 DEF Trees
  <2>3. result'.success = result.success
    BY DEF Counted, Inv, TypeOK
  <2>4. \A n \in Entries(tree', Boundary) :
          n \in Entries(tree, Boundary) /\ tree'[Boundary][n] = tree[Boundary][n]
          /\ ~(Boundary = top.dir /\ n = top.name)
    BY <2>2, WalkAssumption DEF Entries
  <2>5. Len(stack) = 1 => Outer = top /\ top.dir = Boundary
    BY DEF Outer, Placed
  <2>. HIDE DEF RemoveEntry
  <2>6. stack' = stack /\ pc' = "readdir" /\ UNCHANGED <<fresh, moved>>
    BY DEF RemoveEntry
  <2>7. ASSUME result.success, NEW n \in Entries(tree', Boundary)
        PROVE  Settled(n)' \/ n \in Outer.must \/ (Len(stack) > 1 /\ n = Outer.name)
    <3>1. n \in Entries(tree, Boundary) /\ tree'[Boundary][n] = tree[Boundary][n]
      BY <2>4, <2>7
    <3>2. Settled(n) => Settled(n)'
      BY <2>6, <3>1 DEF Settled, IsExcluded
    <3>3. \/ Settled(n) \/ n \in Outer.must \/ n = Outer.name
      BY <1>10, <2>7, <3>1 DEF Covered
    <3>4. ~(n = Outer.name /\ Len(stack) = 1)
      BY <2>4, <2>5, <2>7
    <3>. QED
      BY <1>00, <3>2, <3>3, <3>4
  <2>8. Outer' = Outer /\ Len(stack') = Len(stack)
    BY <2>6 DEF Outer
  <2>9. (Len(stack) > 1 => Handling') /\ pc' = "readdir"
    BY <2>6, <2>8 DEF Handling
  <2>. QED
    BY <2>3, <2>7, <2>8, <2>9 DEF Covered
<1>11. CASE Unlink
  BY <1>0, <1>1, <1>10, <1>11 DEF Unlink
<1>12. CASE Rmdir
  BY <1>0, <1>1, <1>10, <1>12 DEF Rmdir
<1>. QED
  BY <1>3, <1>4, <1>5, <1>6, <1>7, <1>8, <1>9, <1>11, <1>12 DEF Walk

LEMMA InterfereKeepsCovered ==
  ASSUME Inv, Placed, Covered, Interfere
  PROVE  Covered'
<1>. USE StackFacts
<1>0. tree \in Trees /\ fresh \subseteq Spare /\ Applications /\ Boundary \in Dirs
      /\ UNCHANGED <<pc, result>>
  BY WalkAssumption DEF Inv, TypeOK, FSTypeOK, Interfere
<1>1. fresh' \subseteq fresh /\ moved \subseteq moved'
  BY <1>0 DEF Applications, CreateEntry, DeleteEntry, RenameEntry
<1>2. ASSUME NEW n \in Entries(tree', Boundary), tree'[Boundary][n] # tree[Boundary][n]
      PROVE  tree'[Boundary][n] \in moved' \cup (Spare \ fresh')
  <2>0. n \in Names /\ tree'[Boundary][n] # None
    BY DEF Entries
  <2>1. ASSUME NEW d \in Dirs, NEW m \in Names, NEW x \in Spare, CreateEntry(d, m, x)
        PROVE  tree'[Boundary][n] \in Spare \ fresh'
    BY <1>0, <1>2, <2>0, <2>1 DEF CreateEntry, Trees
  <2>2. ASSUME NEW d \in Dirs, NEW m \in Names, DeleteEntry(d, m) PROVE FALSE
    BY <1>0, <1>2, <2>0, <2>2 DEF DeleteEntry, Trees
  <2>3. ASSUME NEW d \in Dirs, NEW e \in Dirs, NEW m \in Names, NEW k \in Names,
               RenameEntry(d, m, e, k)
        PROVE  tree'[Boundary][n] \in moved'
    BY <1>0, <1>2, <2>0, <2>3 DEF RenameEntry, Trees
  <2>. QED
    BY <1>0, <2>1, <2>2, <2>3 DEF Applications
<1>3. /\ Len(stack') = Len(stack) /\ Outer'.name = Outer.name
      /\ \A n \in Names : tree'[Boundary][n] = tree[Boundary][n] /\ n \in Outer.must
           /\ Outer.dir = Boundary => n \in Outer'.must
      /\ Outer'.must \subseteq Outer.must
  <2>1. stack' = [i \in 1..Len(stack) |-> Watch(stack[i])] /\ Outer \in Frames
    BY DEF Interfere, Outer
  <2>2. Len(stack') = Len(stack) /\ Outer' = Watch(Outer)
    BY <2>1 DEF Outer
  <2>3. Watch(Outer).name = Outer.name
        /\ Watch(Outer).must = Outer.must \ {n \in Names : tree'[Outer.dir][n] # tree[Outer.dir][n]}
    BY <2>1 DEF Watch, Frames
  <2>. QED
    BY <2>2, <2>3
<1>. QED
  <2>1. ASSUME Outer.dir = Boundary, result.success, NEW n \in Entries(tree', Boundary)
        PROVE  \/ Settled(n)'
               \/ n \in Outer'.must
               \/ Len(stack') = 1 /\ pc' = "enter"
               \/ Handling' /\ n = Outer'.name
    <3>0. n \in Names /\ (Handling => Handling')
      BY <1>0, <1>3 DEF Entries, Handling
    <3>1. CASE tree'[Boundary][n] # tree[Boundary][n]
      BY <1>2, <2>1, <3>1 DEF Settled
    <3>2. CASE tree'[Boundary][n] = tree[Boundary][n]
      <4>1. n \in Entries(tree, Boundary)
        BY <3>0, <3>2, <2>1 DEF Entries
      <4>2. Settled(n) => Settled(n)'
        BY <1>1, <3>2 DEF Settled, IsExcluded
      <4>. QED
        BY <1>0, <1>3, <2>1, <3>0, <3>2, <4>1, <4>2 DEF Covered
    <3>. QED
      BY <3>1, <3>2
  <2>2. Outer'.must \subseteq Outer.must /\ Outer.dir = Boundary
    BY <1>3 DEF Placed
  <2>. QED
    BY <1>0, <1>3, <2>1, <2>2 DEF Covered

\* A walk that reports success leaves in the boundary only what is excluded
\* and what other processes created or moved: clearDirectoryFd passes over
\* no entry without counting a failure.
THEOREM SuccessIsComplete == Spec => []CompleteOnSuccess
<1>1. Init => Covered
  <2>. SUFFICES ASSUME Init PROVE Covered
    OBVIOUS
  <2>1. stack = <<Frame(Boundary, <<>>)>> /\ pc = "enter"
    BY DEF Init
  <2>2. Len(stack) = 1
    BY <2>1
  <2>. QED
    BY <2>1, <2>2 DEF Covered
<1>2. Inv /\ Placed /\ Covered /\ [Next]_vars => Covered'
  <2>1. ASSUME Covered, UNCHANGED vars PROVE Covered'
    BY <2>1 DEF vars, env, fsVars, walkVars, Covered, Settled, Outer, Entries, Handling
  <2>. QED
    BY <2>1, WalkKeepsCovered, InterfereKeepsCovered DEF Next, Returned
<1>3. Inv /\ Placed /\ Covered => CompleteOnSuccess
  <2>. SUFFICES ASSUME Inv, Covered, pc = "done", result.success,
                       NEW n \in Entries(tree, Boundary)
                PROVE  Settled(n)
    BY DEF CompleteOnSuccess, Settled
  <2>1. Len(stack) = 1 /\ Outer.must = {}
    BY DEF Covered
  <2>2. ~Handling
    BY <2>1 DEF Handling
  <2>. QED
    BY <2>1, <2>2 DEF Covered
<1>. QED
  BY <1>1, <1>2, <1>3, InitInv, NextKeepsInv, InitPlaced, NextKeepsPlaced, PTL DEF Spec

-----------------------------------------------------------------------------
(* The item count: every removal takes one entry out of a finite tree. *)

Held(t) == {e \in Dirs \X Names : t[e[1]][e[2]] # None}

LEMMA HeldIsFinite ==
  ASSUME NEW t
  PROVE  IsFiniteSet(Held(t)) /\ EntryCount(t) = Cardinality(Held(t))
         /\ EntryCount(t) \in Nat
<1>1. IsFiniteSet(Dirs \X Names)
  BY ForestAssumption, FS_Product
<1>2. Held(t) \in SUBSET (Dirs \X Names)
  BY DEF Held
<1>3. IsFiniteSet(Held(t)) /\ EntryCount(t) = Cardinality(Held(t))
  BY <1>1, <1>2, FS_Subset DEF Held, EntryCount
<1>. QED
  BY <1>3, FS_CardinalityType

LEMMA OneEntryLess ==
  ASSUME NEW t \in Trees, NEW d \in Dirs, NEW n \in Names, t[d][n] # None
  PROVE  EntryCount([t EXCEPT ![d][n] = None]) = EntryCount(t) - 1
<1>. DEFINE u == [t EXCEPT ![d][n] = None]
<1>1. /\ u[d][n] = None
      /\ \A e \in Dirs, m \in Names : ~(e = d /\ m = n) => u[e][m] = t[e][m]
  BY DEF Trees
<1>. HIDE DEF u
<1>2. Held(u) = Held(t) \ {<<d, n>>} /\ <<d, n>> \in Held(t)
  BY <1>1 DEF Held
<1>3. Cardinality(Held(t) \ {<<d, n>>}) = Cardinality(Held(t)) - 1
  BY <1>2, HeldIsFinite, FS_RemoveElement
<1>4. EntryCount(u) = EntryCount(t) - 1
  BY <1>2, <1>3, HeldIsFinite
<1>. QED
  BY <1>4 DEF u

Tallied == changes = 0 => result.items + EntryCount(tree) = EntryCount(InitTree)

LEMMA WalkKeepsTallied ==
  ASSUME Inv, Tallied, Walk
  PROVE  Tallied'
<1>. USE StackFacts
<1>0. /\ tree \in Trees /\ result \in [success : BOOLEAN, items : Nat, failures : Nat]
      /\ top.dir \in Dirs
      /\ top.name \in Names \/ pc \notin {"fstatat", "openat", "unlink", "rmdir"}
  BY DEF Inv, TypeOK, FSTypeOK, top
<1>1. ASSUME UNCHANGED <<tree, changes>>, result'.items = result.items PROVE Tallied'
  BY <1>1 DEF Tallied
<1>2. ASSUME NEW next, Recover(next) PROVE Tallied'
  <2>1. result'.items = result.items
    BY <1>0, <1>2 DEF Recover, Failed
  <2>. QED
    BY <1>1, <1>2, <2>1 DEF Recover, env, fsVars
<1>3. ASSUME RemoveEntry, top.name \in Names, entry # None PROVE Tallied'
  <2>1. EntryCount(tree') = EntryCount(tree) - 1
    BY <1>0, <1>3, OneEntryLess DEF RemoveEntry, entry
  <2>2. result'.items = result.items + 1 /\ changes' = changes
    BY <1>0, <1>3 DEF RemoveEntry, Counted
  <2>3. EntryCount(tree) \in Nat /\ EntryCount(InitTree) \in Nat
    BY HeldIsFinite
  <2>. QED
    BY <1>0, <2>1, <2>2, <2>3 DEF Tallied
<1>4. CASE TooDeep
  BY <1>2, <1>4 DEF TooDeep
<1>5. CASE OpenStream
  BY <1>1, <1>2, <1>5 DEF OpenStream, env, fsVars
<1>6. CASE \E n \in Names : ReadEntry(n)
  BY <1>1, <1>6 DEF ReadEntry, env, fsVars
<1>7. CASE EndOfStream
  BY <1>1, <1>2, <1>7 DEF EndOfStream, env, fsVars
<1>8. CASE Fstatat
  BY <1>1, <1>2, <1>8 DEF Fstatat, env, fsVars
<1>9. CASE Openat
  BY <1>1, <1>2, <1>9 DEF Openat, env, fsVars
<1>10. CASE Return
  BY <1>1, <1>10 DEF Return, env, fsVars
<1>11. CASE Unlink
  BY <1>0, <1>2, <1>3, <1>11, TreeAssumption DEF Unlink, Works, Unlinkable, Nodes
<1>12. CASE Rmdir
  BY <1>0, <1>2, <1>3, <1>12, TreeAssumption DEF Rmdir, Works, Rmdirable, Nodes
<1>. QED
  BY <1>4, <1>5, <1>6, <1>7, <1>8, <1>9, <1>10, <1>11, <1>12 DEF Walk

\* While no other process interferes, the item count of the report is the
\* number of entries that unlinkat took out of the tree.
THEOREM ItemsAreExact == Spec => []ItemsExact
<1>1. Init => Tallied
  BY HeldIsFinite DEF Init, FSInit, Tallied
<1>2. Inv /\ Tallied /\ [Next]_vars => Tallied'
  <2>1. ASSUME Tallied, UNCHANGED vars PROVE Tallied'
    BY <2>1 DEF vars, env, fsVars, walkVars, Tallied
  <2>2. ASSUME Inv, Interfere PROVE Tallied'
    <3>1. changes \in Nat /\ Applications
      BY <2>2, TreeAssumption DEF Inv, TypeOK, FSTypeOK, Interfere
    <3>2. changes' = changes + 1
      BY <3>1, Zenon DEF Applications, CreateEntry, DeleteEntry, RenameEntry, Change
    <3>3. changes' # 0
      BY <3>1, <3>2
    <3>. QED
      BY <3>3 DEF Tallied
  <2>. QED
    BY <2>1, <2>2, WalkKeepsTallied DEF Next, Returned
<1>3. Inv /\ Tallied => ItemsExact
  <2>. SUFFICES ASSUME Inv, Tallied, changes = 0
                PROVE  result.items = EntryCount(InitTree) - EntryCount(tree)
    BY Zenon DEF ItemsExact
  <2>1. EntryCount(tree) \in Nat /\ EntryCount(InitTree) \in Nat
    BY HeldIsFinite
  <2>2. result.items \in Nat
    BY DEF Inv, TypeOK
  <2>3. result.items + EntryCount(tree) = EntryCount(InitTree)
    BY DEF Tallied
  <2>. QED
    BY <2>1, <2>2, <2>3
<1>. QED
  BY <1>1, <1>2, <1>3, InitInv, NextKeepsInv, PTL DEF Spec

-----------------------------------------------------------------------------
(***************************************************************************)
(* Why a walk fails.  Left alone, and as long as the tree holds no reason, *)
(* every call finds what the one before it saw: a stream returns what its  *)
(* directory still holds, and a directory that was read to the end has     *)
(* only excluded entries left - of which one that is to be removed has     *)
(* none, its own path not being excluded.                                  *)
(***************************************************************************)
\* The reasons in the tree.
Explained ==
  \/ \E e \in Exclusions : Len(e) > 1 /\ Resolve(InitTree, Boundary, e) # None
  \/ \E p \in [1..(MaxDepth + 1) -> Names] : Resolve(InitTree, Boundary, p) \in Dirs

Quiet == changes = 0 /\ faults = 0 /\ ~Explained

\* Nothing has come into the tree since the start.
Shrunk == \A d \in Dirs, n \in Names : tree[d][n] \in {None, InitTree[d][n]}

Linking ==
  \A i \in 1..(Len(stack) - 1) : tree[stack[i + 1].dir][stack[i + 1].name] = stack[i].dir

\* What a stream has still to return, and what has become of the rest: busy
\* when the activation has an entry in hand, unread before its stream is open.
Streams(t, f, busy, unread) ==
  /\ f.may = {} /\ f.must \subseteq Entries(t, f.dir)
  /\ busy => f.name \notin f.must
  /\ unread \/ \A n \in Entries(t, f.dir) : \/ n \in f.must
                                            \/ busy /\ n = f.name
                                            \/ IsExcluded(Append(f.path, n))

Streaming ==
  /\ Streams(tree, stack[1], Handled, pc = "enter")
  /\ \A i \in 2..Len(stack) : Streams(tree, stack[i], TRUE, FALSE)

\* The next call will work.
Ready ==
  /\ Handled => entry # None
  /\ pc = "openat" => entry \in Dirs
  /\ pc = "unlink" => entry \notin Dirs
  /\ pc = "rmdir" => entry \in Dirs /\ Entries(tree, entry) = {}
  /\ pc = "return" => stack[1].must = {}

Orderly ==
  result.success /\ Shrunk /\ Linking /\ Streaming /\ Ready

QuietInv == Quiet => Orderly

LEMMA PathLengths ==
  ASSUME Inv, Placed, Spared
  PROVE  \A i \in 1..Len(stack) : Len(stack[i].path) = Len(stack) - i
<1>. USE StackFacts
<1>0. \A i \in 1..Len(stack) : stack[i].path \in Seq(Names)
  BY DEF Frames
<1>. DEFINE R(i) == Len(stack[i].path) = Len(stack) - i
            T == {n \in Nat : n < Len(stack) /\ ~R(Len(stack) - n)}
<1>1. R(Len(stack))
  BY DEF Placed, Outer
<1>2. T = {}
  <2>. SUFFICES ASSUME T # {} PROVE FALSE
    OBVIOUS
  <2>. HIDE DEF R
  <2>1. PICK n \in T : \A m \in T : n <= m
    BY LeastNumber
  <2>. DEFINE j == Len(stack) - n
  <2>2. n # 0 /\ n \in Nat /\ n < Len(stack) /\ ~R(j)
    BY <1>1, <2>1
  <2>3. n - 1 \in Nat /\ n - 1 < Len(stack) /\ ~(n <= n - 1) /\ Len(stack) - (n - 1) = j + 1
    BY <2>2
  <2>4. R(j + 1)
    BY <2>1, <2>3
  <2>5. j \in 1..(Len(stack) - 1) /\ j \in 1..Len(stack) /\ j + 1 \in 2..Len(stack)
        /\ j + 1 \in 1..Len(stack)
    BY <2>2
  <2>. HIDE DEF j, T
  <2>6. stack[j].path = Append(stack[j + 1].path, stack[j + 1].name)
    BY <2>5 DEF Spared, PathOf
  <2>7. Len(stack[j].path) = Len(stack[j + 1].path) + 1
    BY <1>0, <2>5, <2>6
  <2>8. R(j)
    BY <2>4, <2>5, <2>7 DEF R
  <2>. QED
    BY <2>2, <2>8
<1>3. ASSUME NEW i \in 1..Len(stack) PROVE R(i)
  <2>1. Len(stack) - i \in Nat /\ Len(stack) - i < Len(stack)
        /\ Len(stack) - (Len(stack) - i) = i
    OBVIOUS
  <2>. QED
    BY <1>2, <2>1
<1>. QED
  BY <1>3

\* No two activations are in the same directory.
LEMMA DistinctDirs ==
  ASSUME Inv, Placed, Spared, Linking,
         NEW i \in 1..Len(stack), NEW j \in 1..Len(stack), i # j
  PROVE  stack[i].dir # stack[j].dir
<1>. USE StackFacts
<1>1. /\ stack[i].path \in Seq(Names) /\ Resolve(tree, Boundary, stack[i].path) = stack[i].dir
      /\ stack[j].path \in Seq(Names) /\ Resolve(tree, Boundary, stack[j].path) = stack[j].dir
  BY PathsResolve DEF Linking
<1>2. Len(stack[i].path) # Len(stack[j].path)
  <2>1. Len(stack[i].path) = Len(stack) - i /\ Len(stack[j].path) = Len(stack) - j
    BY PathLengths
  <2>. QED
    BY <2>1
<1>3. tree \in Trees /\ Forest(tree) /\ Rooted(tree) /\ Boundary \in Dirs
      /\ stack[i].dir \in Dirs
  BY WalkAssumption DEF Inv, TypeOK, FSTypeOK, Placed, Spared
<1>. QED
  BY <1>1, <1>2, <1>3, OnePath

\* A directory that is to be removed holds nothing excluded.
LEMMA NothingNested ==
  ASSUME Inv, Placed, Spared, Linking, Shrunk, ~Explained,
         NEW i \in 1..(Len(stack) - 1), NEW n \in Entries(tree, stack[i].dir)
  PROVE  ~IsExcluded(Append(stack[i].path, n))
<1>. USE StackFacts
<1>. DEFINE p == stack[i].path
            d == stack[i].dir
<1>0. /\ i \in 1..Len(stack) /\ i + 1 \in 1..Len(stack) /\ i + 1 > 1
      /\ tree \in Trees /\ InitTree \in Trees /\ Boundary \in Dirs
      /\ Exclusions \subseteq Seq(Names)
      /\ n \in Names /\ tree[d][n] # None /\ d \in Dirs
  BY WalkAssumption, TreeAssumption DEF Inv, TypeOK, FSTypeOK, Entries
<1>1. p \in Seq(Names) /\ Resolve(tree, Boundary, p) = d
  BY <1>0, PathsResolve DEF Linking
<1>2. ~IsExcluded(p) /\ Len(p) >= 1
  <2>1. p = PathOf(i + 1) /\ ~IsExcluded(PathOf(i + 1))
    BY <1>0 DEF Spared
  <2>. QED
    BY <1>0, <2>1, PathLengths
<1>. SUFFICES ASSUME NEW e \in Exclusions, IsPrefix(e, Append(p, n)) PROVE FALSE
  BY DEF IsExcluded
<1>. HIDE DEF p, d
<1>3. /\ e \in Seq(Names) /\ Len(e) \in Nat /\ Len(p) \in Nat
      /\ Len(e) <= Len(p) + 1
      /\ SubSeq(e, 1, Len(e)) = SubSeq(Append(p, n), 1, Len(e))
  BY <1>0, <1>1 DEF IsPrefix
<1>4. Len(e) = Len(p) + 1
  <2>. SUFFICES ASSUME Len(e) <= Len(p) PROVE FALSE
    BY <1>3
  <2>1. SubSeq(Append(p, n), 1, Len(e)) = SubSeq(p, 1, Len(e))
    BY <1>0, <1>1, <1>3
  <2>. QED
    BY <1>2, <1>3, <2>1 DEF IsExcluded, IsPrefix
<1>5. e = Append(p, n)
  <2>1. /\ Append(p, n) \in Seq(Names) /\ Len(Append(p, n)) = Len(p) + 1
    BY <1>0, <1>1
  <2>2. SubSeq(Append(p, n), 1, Len(e)) = Append(p, n)
    BY <1>4, <2>1
  <2>3. SubSeq(e, 1, Len(e)) = e
    BY <1>3
  <2>. QED
    BY <1>3, <2>2, <2>3
<1>6. Resolve(InitTree, Boundary, p) = d
  BY <1>0, <1>1, ResolveInLarger DEF Shrunk
<1>7. Resolve(InitTree, Boundary, e) = InitTree[d][n]
  BY <1>0, <1>1, <1>5, <1>6, ResolveAppend DEF Onward
<1>8. InitTree[d][n] # None
  BY <1>0 DEF Shrunk
<1>9. Len(e) > 1
  BY <1>2, <1>3, <1>4
<1>. QED
  BY <1>7, <1>8, <1>9 DEF Explained

\* Nor does the walk get beyond the limit.
LEMMA NotTooDeep ==
  ASSUME Inv, Placed, Spared, Linking, Shrunk, ~Explained
  PROVE  ~IsBeyondLimit(Len(stack) - 1)
<1>. USE StackFacts
<1>. SUFFICES ASSUME Len(stack) - 1 > MaxDepth PROVE FALSE
  BY DEF IsBeyondLimit
<1>. DEFINE p == stack[1].path
            m == MaxDepth + 1
            q == SubSeq(p, 1, m)
<1>1. p \in Seq(Names) /\ Resolve(tree, Boundary, p) \in Dirs
  BY PathsResolve DEF Linking
<1>2. m \in Nat /\ m <= Len(p)
  <2>1. Len(p) = Len(stack) - 1 /\ MaxDepth \in Nat
    BY PathLengths, WalkAssumption
  <2>. QED
    BY <2>1
<1>3. q \in Seq(Names) /\ q \in [1..m -> Names]
  <2>. HIDE DEF p, m
  <2>1. q \in Seq(Names) /\ Len(q) = m
    BY <1>1, <1>2
  <2>. HIDE DEF q
  <2>2. q \in [1..Len(q) -> Names]
    BY <2>1
  <2>. QED
    BY <2>1, <2>2
<1>4. tree \in Trees /\ InitTree \in Trees /\ Boundary \in Dirs
  BY WalkAssumption, TreeAssumption DEF Inv, TypeOK, FSTypeOK
<1>. HIDE DEF p, m, q
<1>5. Resolve(tree, Boundary, q) \in Dirs
  <2>1. m \in 0..Len(p)
    BY <1>1, <1>2
  <2>. QED
    BY <1>1, <1>4, <2>1, AlongDirs DEF At, q
<1>6. Resolve(InitTree, Boundary, q) \in Dirs
  BY <1>3, <1>4, <1>5, ResolveInLarger DEF Shrunk
<1>. QED
  BY <1>3, <1>6 DEF Explained, m

\* A step that keeps the callers, and what is in their directories.
LEMMA CallersKept ==
  ASSUME Inv, Linking, Streaming, Len(stack') = Len(stack), stack'[1].dir = stack[1].dir,
         \A i \in 2..Len(stack) : /\ stack'[i] = stack[i]
                                  /\ tree'[stack[i].dir] = tree[stack[i].dir],
         Streams(tree', stack'[1], Handled', pc' = "enter")
  PROVE  Linking' /\ Streaming'
<1>. USE StackFacts
<1>1. ASSUME NEW i \in 1..(Len(stack') - 1)
      PROVE  tree'[stack'[i + 1].dir][stack'[i + 1].name] = stack'[i].dir
  <2>1. i \in 1..(Len(stack) - 1) /\ i + 1 \in 2..Len(stack) /\ (i = 1 \/ i \in 2..Len(stack))
    OBVIOUS
  <2>2. stack'[i].dir = stack[i].dir
    BY <2>1
  <2>. QED
    BY <2>1, <2>2 DEF Linking
<1>2. ASSUME NEW i \in 2..Len(stack') PROVE Streams(tree', stack'[i], TRUE, FALSE)
  <2>1. /\ Streams(tree, stack[i], TRUE, FALSE) /\ stack'[i] = stack[i]
        /\ Entries(tree', stack[i].dir) = Entries(tree, stack[i].dir)
    BY DEF Streaming, Entries
  <2>. QED
    BY <2>1 DEF Streams
<1>. QED
  BY <1>1, <1>2 DEF Linking, Streaming, Streams, IsExcluded

\* An entry is taken away: no caller is in its directory.
LEMMA RemovalKeepsOrderly ==
  ASSUME Inv, Placed, Spared, Orderly, Handled, pc' = "readdir", Removed, RemoveEntry
  PROVE  Orderly'
<1>. USE StackFacts
<1>0. /\ tree \in Trees /\ InitTree \in Trees /\ stack[1].dir \in Dirs /\ stack[1].name \in Names
      /\ stack' = stack /\ ~Handled' /\ pc' # "enter"
      /\ tree' = [tree EXCEPT ![stack[1].dir][stack[1].name] = None]
  BY TreeAssumption DEF Inv, TypeOK, FSTypeOK, Removed, Handled
<1>1. result'.success
  BY DEF Orderly, RemoveEntry, Counted, Inv, TypeOK
<1>2. Shrunk'
  BY <1>0 DEF Orderly, Shrunk, Trees
<1>3. \A i \in 2..Len(stack) : tree'[stack[i].dir] = tree[stack[i].dir]
  <2>. SUFFICES ASSUME NEW i \in 2..Len(stack) PROVE tree'[stack[i].dir] = tree[stack[i].dir]
    OBVIOUS
  <2>1. stack[1].dir # stack[i].dir
    BY DistinctDirs DEF Orderly
  <2>. QED
    BY <1>0, <2>1 DEF Trees
<1>4. Streams(tree', stack[1], FALSE, FALSE)
  <2>1. Entries(tree', stack[1].dir) = Entries(tree, stack[1].dir) \ {stack[1].name}
    BY <1>0 DEF Entries, Trees
  <2>2. Streams(tree, stack[1], TRUE, FALSE)
    <3>1. pc # "enter" /\ (Handled <=> TRUE)
      BY DEF Handled
    <3>. QED
      BY <3>1 DEF Orderly, Streaming, Streams
  <2>. QED
    BY <2>1, <2>2 DEF Streams
<1>5. Streams(tree', stack'[1], Handled', pc' = "enter")
  BY <1>0, <1>4 DEF Streams
<1>6. Linking' /\ Streaming'
  BY <1>0, <1>3, <1>5, CallersKept DEF Orderly
<1>7. Ready'
  BY <1>0 DEF Ready, Handled
<1>. QED
  BY <1>1, <1>2, <1>6, <1>7 DEF Orderly

LEMMA WalkKeepsOrderly ==
  ASSUME Inv, Placed, Spared, Orderly, ~Explained, faults \in Nat, faults' = 0, Walk
  PROVE  Orderly'
<1>. USE StackFacts
<1>0. ~Fault
  BY DEF Fault
<1>1. ASSUME UNCHANGED <<env, result>>, Len(stack') = Len(stack), stack'[1].dir = stack[1].dir,
             \A i \in 2..Len(stack) : stack'[i] = stack[i],
             Streams(tree, stack'[1], Handled', pc' = "enter"), Ready'
      PROVE  Orderly'
  <2>1. tree' = tree /\ result' = result
    BY <1>1 DEF env, fsVars
  <2>2. Linking' /\ Streaming'
    BY <1>1, <2>1, CallersKept DEF Orderly
  <2>. QED
    BY <1>1, <2>1, <2>2 DEF Orderly, Shrunk
<1>2. CASE TooDeep
  BY <1>2, NotTooDeep DEF TooDeep, Orderly
<1>3. CASE OpenStream
  <2>. DEFINE f == [top EXCEPT !.must = Entries(tree, top.dir), !.may = {}]
  <2>1. f \in Frames /\ f.dir = top.dir /\ f.path = top.path
        /\ f.must = Entries(tree, top.dir) /\ f.may = {}
    BY TopFacts DEF Frames, Entries
  <2>2. Update(f) /\ UNCHANGED <<env, result>> /\ pc' = "readdir"
    BY <1>0, <1>3 DEF OpenStream
  <2>. HIDE DEF f
  <2>3. Updated /\ stack'[1] = f
    BY <2>1, <2>2, UpdateShape
  <2>4. ~Handled' /\ Ready' /\ Streams(tree, f, Handled', pc' = "enter")
    BY <2>1, <2>2 DEF Handled, Ready, Streams
  <2>. QED
    BY <1>1, <2>1, <2>2, <2>3, <2>4 DEF Updated
<1>4. ASSUME NEW n \in Names, ReadEntry(n) PROVE Orderly'
  <2>. DEFINE f == [top EXCEPT !.name = n, !.must = @ \ {n}, !.may = @ \ {n}]
  <2>0. Streams(tree, top, FALSE, FALSE)
    BY <1>4 DEF ReadEntry, Orderly, Streaming, Streams, Handled
  <2>1. f \in Frames /\ f.dir = top.dir /\ f.path = top.path
        /\ f.must = top.must \ {n} /\ f.may = {} /\ f.name = n
    BY <2>0, TopFacts DEF Frames, Streams
  <2>2. /\ Update(f) /\ UNCHANGED <<env, result>> /\ pc = "readdir"
        /\ n \in top.must /\ n \in Entries(tree, top.dir)
        /\ pc' = IF IsExcluded(Append(top.path, n)) THEN "readdir" ELSE "fstatat"
    BY <1>4, <2>0 DEF ReadEntry, Streams
  <2>. HIDE DEF f
  <2>3. Updated /\ stack'[1] = f
    BY <2>1, <2>2, UpdateShape
  <2>4. Streams(tree, f, Handled', pc' = "enter")
    <3>1. CASE IsExcluded(Append(top.path, n))
      BY <2>0, <2>1, <2>2, <3>1 DEF Streams, Handled
    <3>2. CASE ~IsExcluded(Append(top.path, n))
      <4>1. Handled'
        BY <2>2, <3>2 DEF Handled
      <4>. QED
        BY <2>0, <2>1, <4>1 DEF Streams
    <3>. QED
      BY <3>1, <3>2
  <2>5. Ready'
    <3>1. entry' = tree[top.dir][n] /\ entry' # None
      <4>1. stack' \in Seq(Frames) /\ Len(stack') >= 1
        BY <2>1, <2>2, <2>3 DEF Updated, Update
      <4>2. top' = f
        BY <2>3, <4>1 DEF top
      <4>. QED
        BY <2>1, <2>2, <4>2 DEF entry, Entries, env, fsVars
    <3>. QED
      BY <2>2, <3>1 DEF Ready, Handled
  <2>. QED
    BY <1>1, <2>1, <2>2, <2>3, <2>4, <2>5 DEF Updated
<1>5. CASE EndOfStream
  <2>1. /\ top.must = {} /\ pc = "readdir" /\ pc' = "return"
        /\ UNCHANGED <<env, stack, result>>
    BY <1>0, <1>5 DEF EndOfStream
  <2>2. Streams(tree, stack'[1], Handled', pc' = "enter")
    BY <2>1 DEF Orderly, Streaming, Streams, Handled
  <2>3. Ready'
    BY <2>1 DEF Ready, Handled
  <2>. QED
    BY <1>1, <2>1, <2>2, <2>3
<1>6. CASE Fstatat
  <2>1. pc = "fstatat" /\ entry # None
    BY <1>6 DEF Fstatat, Orderly, Ready, Handled
  <2>2. /\ pc' = IF entry \in Dirs THEN "openat" ELSE "unlink"
        /\ UNCHANGED <<env, stack, result>>
    BY <1>0, <1>6, <2>1 DEF Fstatat, Errs
  <2>3. Streams(tree, stack'[1], Handled', pc' = "enter")
    BY <2>1, <2>2 DEF Orderly, Streaming, Streams, Handled
  <2>4. Ready'
    <3>1. entry' = entry
      BY <2>2 DEF entry, top, env, fsVars
    <3>. QED
      BY <2>1, <2>2, <3>1 DEF Ready
  <2>. QED
    BY <1>1, <2>2, <2>3, <2>4
<1>7. CASE Openat
  <2>1. pc = "openat" /\ entry \in Dirs /\ Opened(entry) = entry /\ Opened(entry) # None
        /\ top.name \in Names
    BY <1>7, TreeAssumption DEF Openat, Orderly, Ready, Opened, Nodes, Inv, TypeOK, top
  <2>2. /\ stack' = <<Frame(entry, Append(top.path, top.name))>> \o stack
        /\ pc' = "enter" /\ UNCHANGED <<env, result>>
    BY <1>0, <1>7, <2>1 DEF Openat, Errs
  <2>3. Pushed
    BY <2>1, <2>2, PushShape
  <2>4. stack'[1] = Frame(entry, Append(top.path, top.name))
    BY <2>2
  <2>5. \A i \in 2..Len(stack') : i - 1 \in 1..Len(stack) /\ stack'[i] = stack[i - 1]
    <3>. SUFFICES ASSUME NEW i \in 2..Len(stack')
                  PROVE  i - 1 \in 1..Len(stack) /\ stack'[i] = stack[i - 1]
      OBVIOUS
    <3>1. i - 1 \in 1..Len(stack) /\ (i - 1) + 1 = i
      BY <2>3 DEF Pushed
    <3>. QED
      BY <2>3, <3>1 DEF Pushed
  <2>6. tree' = tree /\ result' = result
    BY <2>2 DEF env, fsVars
  <2>7. Linking'
    <3>. SUFFICES ASSUME NEW i \in 1..(Len(stack') - 1)
                  PROVE  tree[stack'[i + 1].dir][stack'[i + 1].name] = stack'[i].dir
      BY <2>6 DEF Linking
    <3>1. i \in 1..Len(stack) /\ stack'[i + 1] = stack[i]
      BY <2>3 DEF Pushed
    <3>2. CASE i = 1
      BY <2>3, <3>1, <3>2 DEF Pushed
    <3>3. CASE i # 1
      <4>1. i \in 2..Len(stack') /\ i - 1 \in 1..(Len(stack) - 1) /\ (i - 1) + 1 = i
        BY <3>1, <3>3
      <4>. QED
        BY <2>5, <3>1, <4>1 DEF Orderly, Linking
    <3>. QED
      BY <3>2, <3>3
  <2>8. Streaming'
    <3>1. Streams(tree, stack'[1], Handled', pc' = "enter")
      BY <2>2, <2>4 DEF Streams, Frame, Handled
    <3>2. Streams(tree, stack[1], TRUE, FALSE)
      <4>1. pc # "enter" /\ Handled
        BY <2>1 DEF Handled
      <4>. QED
        BY <4>1 DEF Orderly, Streaming, Streams
    <3>3. ASSUME NEW i \in 2..Len(stack') PROVE Streams(tree, stack'[i], TRUE, FALSE)
      <4>1. i - 1 \in 1..Len(stack) /\ stack'[i] = stack[i - 1]
        BY <2>5
      <4>2. i - 1 = 1 \/ i - 1 \in 2..Len(stack)
        BY <4>1
      <4>. QED
        BY <3>2, <4>1, <4>2 DEF Orderly, Streaming
    <3>. QED
      BY <2>6, <3>1, <3>3 DEF Streaming, Streams, IsExcluded
  <2>9. Ready'
    BY <2>2 DEF Ready, Handled
  <2>. QED
    BY <2>6, <2>7, <2>8, <2>9 DEF Orderly, Shrunk
<1>8. CASE Return
  <2>0. pc = "return" /\ Streams(tree, stack[1], FALSE, FALSE) /\ stack[1].must = {}
        /\ tree' = tree /\ result' = result
    BY <1>8 DEF Return, Orderly, Streaming, Ready, Streams, Handled, env, fsVars
  <2>1. CASE Len(stack) = 1
    <3>1. pc' = "done" /\ stack' = stack /\ UNCHANGED <<env, result>>
      BY <1>8, <2>1 DEF Return
    <3>2. Ready' /\ Streams(tree, stack'[1], Handled', pc' = "enter")
      BY <2>0, <3>1 DEF Ready, Handled, Streams
    <3>. QED
      BY <1>1, <3>1, <3>2
  <2>2. CASE Len(stack) # 1
    <3>1. Popped /\ stack' = Tail(stack) /\ pc' = "rmdir"
      BY <1>8, <2>2, PopShape DEF Return
    <3>2. /\ Len(stack') = Len(stack) - 1 /\ Len(stack) > 1
          /\ \A i \in 1..(Len(stack) - 1) : stack'[i] = stack[i + 1]
      BY <3>1 DEF Popped
    <3>3. 1 \in 1..(Len(stack) - 1) /\ stack'[1] = stack[2] /\ 1 + 1 = 2 /\ 2 \in 2..Len(stack)
      BY <3>2
    <3>4. Linking'
      <4>. SUFFICES ASSUME NEW i \in 1..(Len(stack') - 1)
                    PROVE  tree[stack'[i + 1].dir][stack'[i + 1].name] = stack'[i].dir
        BY <2>0 DEF Linking
      <4>1. /\ i \in 1..(Len(stack) - 1) /\ i + 1 \in 1..(Len(stack) - 1)
            /\ stack'[i] = stack[i + 1] /\ stack'[i + 1] = stack[(i + 1) + 1]
        BY <3>2
      <4>. QED
        BY <4>1 DEF Orderly, Linking
    <3>5. Streaming'
      <4>1. \A i \in 1..Len(stack') : Streams(tree, stack'[i], TRUE, FALSE)
        <5>. SUFFICES ASSUME NEW i \in 1..Len(stack')
                      PROVE  Streams(tree, stack'[i], TRUE, FALSE)
          OBVIOUS
        <5>1. i \in 1..(Len(stack) - 1) /\ i + 1 \in 2..Len(stack) /\ stack'[i] = stack[i + 1]
          BY <3>2
        <5>. QED
          BY <5>1 DEF Orderly, Streaming
      <4>2. Handled' /\ pc' # "enter" /\ 1 \in 1..Len(stack')
        BY <3>1, <3>2 DEF Handled
      <4>. QED
        BY <2>0, <4>1, <4>2 DEF Streaming, Streams, IsExcluded
    <3>6. Ready'
      <4>1. top' = stack[2]
        BY <3>1, <3>2, <3>3, PopFacts DEF top, Inv, TypeOK
      <4>2. entry' = stack[1].dir /\ entry' \in Dirs
        BY <2>0, <3>3, <4>1 DEF entry, Orderly, Linking
      <4>3. Entries(tree, stack[1].dir) = {}
        <5>. SUFFICES ASSUME NEW n \in Entries(tree, stack[1].dir) PROVE FALSE
          OBVIOUS
        <5>1. IsExcluded(Append(stack[1].path, n))
          BY <2>0 DEF Streams
        <5>. QED
          BY <3>3, <5>1, NothingNested DEF Orderly
      <4>4. entry' # None
        BY <4>2, TreeAssumption DEF Nodes
      <4>. QED
        BY <2>0, <3>1, <4>2, <4>3, <4>4 DEF Ready, Handled, Entries
    <3>. QED
      BY <2>0, <3>4, <3>5, <3>6 DEF Orderly, Shrunk
  <2>. QED
    BY <2>1, <2>2
<1>9. CASE Unlink
  <2>1. pc = "unlink" /\ entry # None /\ entry \notin Dirs /\ top.name \in Names
    BY <1>9 DEF Unlink, Orderly, Ready, Handled, Inv, TypeOK, top
  <2>2. Unlinkable(entry)
    BY <2>1, TopFacts DEF Unlinkable, entry, Inv, TypeOK, FSTypeOK, Trees, Nodes
  <2>3. RemoveEntry
    BY <1>0, <1>9, <2>2 DEF Unlink, Errs
  <2>4. Removed /\ Handled /\ pc' = "readdir"
    BY <2>1, <2>2, <2>3, RemoveShape DEF Handled, RemoveEntry
  <2>. QED
    BY <2>3, <2>4, RemovalKeepsOrderly
<1>10. CASE Rmdir
  <2>1. pc = "rmdir" /\ Rmdirable(entry) /\ top.name \in Names
    BY <1>10 DEF Rmdir, Orderly, Ready, Rmdirable, Inv, TypeOK, top
  <2>2. RemoveEntry
    BY <1>0, <1>10, <2>1 DEF Rmdir, Errs
  <2>3. Removed /\ Handled /\ pc' = "readdir"
    BY <2>1, <2>2, RemoveShape DEF Handled, RemoveEntry
  <2>. QED
    BY <2>2, <2>3, RemovalKeepsOrderly
<1>. QED
  BY <1>2, <1>3, <1>4, <1>5, <1>6, <1>7, <1>8, <1>9, <1>10 DEF Walk

LEMMA InitQuietInv == Init => QuietInv
<1>. SUFFICES ASSUME Init PROVE Orderly
  BY DEF QuietInv
<1>1. /\ stack = <<Frame(Boundary, <<>>)>> /\ tree = InitTree /\ pc = "enter"
      /\ result.success
  BY DEF Init, FSInit
<1>2. Len(stack) = 1 /\ stack[1] = Frame(Boundary, <<>>)
  BY <1>1
<1>3. Streams(tree, stack[1], FALSE, TRUE)
  BY <1>2 DEF Frame, Streams
<1>4. Shrunk /\ Linking /\ Streaming /\ Ready
  BY <1>1, <1>2, <1>3 DEF Shrunk, Linking, Streaming, Streams, Ready, Handled
<1>. QED
  BY <1>1, <1>4 DEF Orderly

LEMMA NextKeepsQuietInv == Inv /\ Placed /\ Spared /\ QuietInv /\ [Next]_vars => QuietInv'
<1>. SUFFICES ASSUME Inv, Placed, Spared, QuietInv, [Next]_vars, changes' = 0, faults' = 0,
                     ~Explained
              PROVE  Orderly'
  BY DEF QuietInv, Quiet, Explained
<1>1. changes \in Nat /\ faults \in Nat
  BY WalkAssumption, TreeAssumption DEF Inv, TypeOK, FSTypeOK
<1>2. CASE Walk
  <2>1. changes = 0 /\ faults = 0
    <3>1. changes' = changes
      BY <1>2, WalkShapes DEF Kept, Updated, Pushed, Popped, Removed, env, fsVars
    <3>2. faults' = faults \/ faults' = faults + 1
      BY <1>2 DEF Walk, TooDeep, OpenStream, ReadEntry, EndOfStream, Fstatat, Openat, Return,
         Unlink, Rmdir, Works, Errs, Fault
    <3>. QED
      BY <1>1, <3>1, <3>2
  <2>. QED
    BY <1>1, <1>2, <2>1, WalkKeepsOrderly DEF QuietInv, Quiet
<1>3. CASE Interfere
  <2>1. changes' = changes + 1
    BY <1>3 DEF Interfere, Applications, CreateEntry, DeleteEntry, RenameEntry, Change
  <2>. QED
    BY <1>1, <2>1
<1>4. CASE UNCHANGED vars
  <2>1. UNCHANGED <<tree, stack, pc, result, changes, faults>>
    BY <1>4 DEF vars, env, fsVars, walkVars
  <2>2. Orderly
    BY <2>1 DEF QuietInv, Quiet
  <2>3. result'.success /\ Shrunk' /\ Linking'
    BY <2>1, <2>2 DEF Orderly, Shrunk, Linking
  <2>4. Streaming'
    BY <2>1, <2>2 DEF Orderly, Streaming, Streams, Handled, IsExcluded, Entries
  <2>5. Ready'
    BY <2>1, <2>2 DEF Orderly, Ready, Handled, Entries, entry, top
  <2>. QED
    BY <2>3, <2>4, <2>5 DEF Orderly
<1>. QED
  BY <1>2, <1>3, <1>4 DEF Next, Returned

\* A walk that nobody interfered with and no failing call disturbed reports
\* failure only for a reason in the tree it found: an excluded entry that is
\* inside a directory to be removed, or a directory beyond the depth limit.
THEOREM FailuresHaveReasons == Spec => []FailureExplained
<1>1. QuietInv => FailureExplained
  BY DEF QuietInv, Quiet, Orderly, Explained, FailureExplained
<1>. QED
  BY <1>1, InitInv, NextKeepsInv, InitPlaced, NextKeepsPlaced, InitSpared, NextKeepsSpared,
     InitQuietInv, NextKeepsQuietInv, PTL DEF Spec
=============================================================================
