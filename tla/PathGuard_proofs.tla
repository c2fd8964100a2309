-------------------------- MODULE PathGuard_proofs --------------------------
(***************************************************************************)
(* Proofs about the approval and opening of a target, for every tree,      *)
(* every set of approved paths and any number of changes by other          *)
(* processes and of failing calls.                                         *)
(***************************************************************************)
EXTENDS PathGuard, FileSystem_proofs, SequenceTheorems

-----------------------------------------------------------------------------
(***************************************************************************)
(* The inductive invariant.  Whether the path still leads to the directory *)
(* held cannot be seen from the path and the tree alone: the proof follows *)
(* the directories opened so far.  One that was removed was empty, so the  *)
(* next one had gone before it, and what is gone never comes back.         *)
(***************************************************************************)
Holding == pc \in {"openat", "fstat", "opened"}

\* Only an approved path gets past the first check.
Screened == pc \notin {"lexical", "denied"} => ~LexicallyDenied(target)

\* The directories opened so far begin at the root and end at the one held.
Held ==
  Holding =>
    /\ Len(passed) \in 1..(Len(target) + 1)
    /\ Head(passed) = Root /\ passed[Len(passed)] = fd
    /\ Len(passed) = IF pc = "openat" THEN index ELSE Len(target) + 1

\* They had been created.
Created == \A i \in 1..Len(passed) : passed[i] \notin fresh

Unmoved == \A i \in 1..Len(passed) : passed[i] \notin moved

\* Unless one was renamed or removed, each holds the next.
Chained ==
  Holding /\ Unmoved /\ Alive(tree, fd) =>
    \A i \in 1..(Len(passed) - 1) : tree[passed[i]][target[i]] = passed[i + 1]

\* The descriptor that is handed over was checked itself.
Owned == pc = "opened" => IsOwned(fd)

Inv ==
  /\ TypeOK /\ Forest(tree) /\ Unborn
  /\ Screened /\ Held /\ Created /\ Chained /\ Owned

LEMMA InitInv == Init => Inv
<1>. SUFFICES ASSUME Init PROVE Inv
  OBVIOUS
<1>. USE DEF Init, FSInit
<1>1. TypeOK
  <2>1. FSTypeOK
    BY TreeAssumption DEF FSTypeOK
  <2>2. target \in Seq(Names) /\ Len(target) \in Nat
    BY GuardAssumption
  <2>3. passed \in Seq(Dirs) /\ faults \in 0..MaxFaults /\ index \in 0..(Len(target) + 1)
    BY <2>2, GuardAssumption
  <2>4. None \notin Dirs
    BY TreeAssumption DEF Nodes
  <2>. QED
    BY <2>1, <2>3, <2>4 DEF TypeOK
<1>2. Forest(tree) /\ Unborn
  BY ForestAssumption DEF Unborn
<1>3. Screened /\ Held /\ Created /\ Chained /\ Owned
  BY DEF Screened, Held, Created, Chained, Owned, Holding
<1>. QED
  BY <1>1, <1>2, <1>3 DEF Inv

\* A refusal keeps nothing but the tree and the path.
LEMMA DenyKeepsInv ==
  ASSUME Inv, Deny, Fault \/ UNCHANGED faults
  PROVE  Inv'
<1>. USE DEF Deny, fsVars
<1>1. TypeOK'
  <2>1. faults' \in 0..MaxFaults
    BY GuardAssumption DEF Fault, Inv, TypeOK
  <2>2. None \notin Dirs
    BY TreeAssumption DEF Nodes
  <2>. QED
    BY <2>1, <2>2 DEF Inv, TypeOK, FSTypeOK, Trees
<1>2. Forest(tree)' /\ Unborn' /\ Created'
  BY DEF Inv, Forest, Unborn, Created, Alive, Linked, Entries
<1>3. Screened' /\ Held' /\ Chained' /\ Owned'
  BY DEF Screened, Held, Chained, Owned, Holding
<1>. QED
  BY <1>1, <1>2, <1>3 DEF Inv

\* Before the first directory is opened nothing is held.
LEMMA CheckKeepsInv ==
  ASSUME Inv, NEW next \in {"links", "lstat", "root"}, Go(next),
         UNCHANGED <<fd, faults>>, index' \in 0..(Len(target) + 1),
         ~Holding, ~LexicallyDenied(target)
  PROVE  Inv'
<1>. USE DEF Go, fsVars
<1>1. TypeOK'
  BY DEF Inv, TypeOK, FSTypeOK, Trees, Holding
<1>2. Forest(tree)' /\ Unborn' /\ Created'
  BY DEF Inv, Forest, Unborn, Created, Alive, Linked, Entries
<1>3. Screened' /\ Held' /\ Chained' /\ Owned'
  BY DEF Screened, Held, Chained, Owned, Holding, LexicallyDenied
<1>. QED
  BY <1>1, <1>2, <1>3 DEF Inv

\* Handing on the directory that is held, at the end of the path.
LEMMA HandOverKeepsInv ==
  ASSUME Inv, NEW next \in {"fstat", "opened"}, Go(next), UNCHANGED <<index, fd, faults>>,
         Holding, Len(passed) = Len(target) + 1,
         next = "opened" => IsOwned(fd)
  PROVE  Inv'
<1>. USE DEF Go, fsVars
<1>1. TypeOK'
  BY DEF Inv, TypeOK, FSTypeOK, Trees, Holding
<1>2. Forest(tree)' /\ Unborn' /\ Created'
  BY DEF Inv, Forest, Unborn, Created, Alive, Linked, Entries
<1>3. Screened' /\ Owned'
  BY DEF Inv, Screened, Owned, Holding, LexicallyDenied, IsOwned
<1>4. Held'
  BY DEF Inv, Held, Holding
<1>5. Chained'
  BY DEF Inv, Chained, Holding, Unmoved, Alive, Linked
<1>. QED
  BY <1>1, <1>2, <1>3, <1>4, <1>5 DEF Inv

LEMMA GuardKeepsInv == Inv /\ Guard => Inv'
<1>. SUFFICES ASSUME Inv, Guard PROVE Inv'
  OBVIOUS
<1>0. /\ target \in Seq(Names) /\ Len(target) \in Nat
      /\ Home \in Seq(Names) /\ Len(Home) \in Nat
  BY GuardAssumption DEF Inv, TypeOK
<1>1. CASE Lexical
  <2>1. CASE LexicallyDenied(target)
    BY <1>1, <2>1, DenyKeepsInv DEF Lexical
  <2>2. CASE ~LexicallyDenied(target)
    <3>1. Len(Home) <= Len(target)
      BY <1>0, <2>2 DEF LexicallyDenied, IsPrefix
    <3>2. Len(Home) + 1 \in 0..(Len(target) + 1)
      BY <1>0, <3>1
    <3>. QED
      BY <1>1, <2>2, <3>2, CheckKeepsInv DEF Lexical, Holding
  <2>. QED
    BY <2>1, <2>2
<1>2. CASE CheckComponent
  <2>1. ~Holding /\ ~LexicallyDenied(target)
    BY <1>2 DEF CheckComponent, Holding, Inv, Screened
  <2>2. index \in 0..(Len(target) + 1)
    BY DEF Inv, TypeOK
  <2>3. CASE Deny /\ (Fault \/ UNCHANGED faults)
    BY <2>3, DenyKeepsInv
  <2>4. CASE Go("lstat") /\ UNCHANGED <<index, fd, faults>>
    BY <2>1, <2>2, <2>4, CheckKeepsInv
  <2>5. CASE /\ ~(index > Len(target))
             /\ Go("links") /\ index' = index + 1 /\ UNCHANGED <<fd, faults>>
    BY <1>0, <2>1, <2>2, <2>5, CheckKeepsInv
  <2>. QED
    BY <1>2, <2>3, <2>4, <2>5 DEF CheckComponent
<1>3. CASE CheckTarget
  <2>1. ~Holding /\ ~LexicallyDenied(target)
    BY <1>3 DEF CheckTarget, Holding, Inv, Screened
  <2>2. CASE Deny /\ (Fault \/ UNCHANGED faults)
    BY <2>2, DenyKeepsInv
  <2>3. CASE Go("root") /\ UNCHANGED <<index, fd, faults>>
    <3>1. index' \in 0..(Len(target) + 1)
      BY <2>3 DEF Inv, TypeOK
    <3>. QED
      BY <2>1, <2>3, <3>1, CheckKeepsInv
  <2>. QED
    BY <1>3, <2>2, <2>3 DEF CheckTarget
<1>4. CASE OpenRoot
  <2>1. CASE Fault /\ Deny
    BY <2>1, DenyKeepsInv
  <2>2. CASE /\ fd' = Root /\ index' = 1
             /\ pc' = "openat" /\ passed' = <<Root>>
             /\ UNCHANGED <<fsVars, target, faults>>
    <3>. USE <2>2 DEF fsVars
    <3>1. passed' \in Seq(Dirs) /\ Len(passed') = 1 /\ passed'[1] = Root
          /\ Head(passed') = Root
      BY TreeAssumption
    <3>2. TypeOK'
      <4>1. 1 \in 0..(Len(target) + 1)
        BY <1>0
      <4>. QED
        BY <3>1, <4>1, TreeAssumption DEF Inv, TypeOK, FSTypeOK, Trees, Nodes
    <3>3. Forest(tree)' /\ Unborn'
      BY DEF Inv, Forest, Unborn, Alive, Linked, Entries
    <3>4. Created'
      BY <3>1 DEF Inv, Unborn, Created, Alive
    <3>5. Screened' /\ Owned'
      BY <1>4 DEF OpenRoot, Inv, Screened, Owned, LexicallyDenied
    <3>6. Held' /\ Chained'
      BY <1>0, <3>1 DEF Held, Chained, Holding
    <3>. QED
      BY <3>2, <3>3, <3>4, <3>5, <3>6 DEF Inv
  <2>. QED
    BY <1>4, <2>1, <2>2 DEF OpenRoot
<1>5. CASE OpenComponent
  <2>. DEFINE d == Opened(tree[fd][target[index]])
  <2>0. /\ Holding /\ pc = "openat" /\ index \in 1..(Len(target) + 1)
        /\ fd \in Dirs /\ passed \in Seq(Dirs) /\ Len(passed) = index
        /\ passed[index] = fd /\ Head(passed) = Root
    BY <1>0, <1>5 DEF OpenComponent, Inv, TypeOK, Held, Holding
  <2>1. CASE index > Len(target)
    <3>1. Go("fstat") /\ UNCHANGED <<index, fd, faults>>
      BY <1>5, <2>1 DEF OpenComponent
    <3>2. Len(passed) = Len(target) + 1
      BY <1>0, <2>0, <2>1
    <3>. QED
      BY <2>0, <3>1, <3>2, HandOverKeepsInv
  <2>2. CASE Deny /\ (Fault \/ UNCHANGED faults)
    BY <2>2, DenyKeepsInv
  <2>3. CASE /\ index <= Len(target)
             /\ d # None /\ fd' = d /\ index' = index + 1 /\ passed' = Append(passed, d)
             /\ UNCHANGED <<fsVars, pc, target, faults>>
    <3>1. /\ d \in Dirs /\ d = tree[fd][target[index]] /\ index \in 1..Len(target)
          /\ target[index] \in Names
      BY <1>0, <2>0, <2>3 DEF Opened
    <3>. HIDE DEF d
    <3>. USE DEF fsVars
    <3>2. /\ passed' \in Seq(Dirs) /\ Len(passed') = index + 1
          /\ \A i \in 1..index : passed'[i] = passed[i]
          /\ passed'[index + 1] = d /\ Head(passed') = Root
      BY <2>0, <2>3, <3>1
    <3>3. TypeOK'
      BY <1>0, <2>0, <2>3, <3>1, <3>2 DEF Inv, TypeOK, FSTypeOK, Trees
    <3>4. Forest(tree)' /\ Unborn'
      BY <2>3 DEF Inv, Forest, Unborn, Alive, Linked, Entries
    <3>5. Linked(tree, d)
      BY <2>0, <3>1 DEF Linked
    <3>6. Created'
      <4>1. d \notin fresh
        BY <3>5 DEF Inv, Unborn, Alive
      <4>. QED
        BY <2>0, <2>3, <3>2, <4>1 DEF Inv, Created
    <3>7. Screened' /\ Owned'
      BY <2>0, <2>3 DEF Inv, Screened, Owned, LexicallyDenied
    <3>8. Held'
      BY <1>0, <2>0, <2>3, <3>1, <3>2 DEF Held, Holding
    <3>9. Chained'
      <4>. SUFFICES ASSUME Unmoved', NEW i \in 1..index
                    PROVE  tree[passed'[i]][target[i]] = passed'[i + 1]
        BY <2>0, <2>3, <3>2 DEF Chained
      <4>1. Unmoved
        BY <2>0, <2>3, <3>2 DEF Unmoved
      <4>2. Alive(tree, fd)
        <5>1. target[index] \in Entries(tree, fd)
          BY <2>3, <3>1 DEF Entries
        <5>. QED
          BY <2>0, <5>1 DEF Inv, Forest
      <4>3. CASE i = index
        BY <2>0, <3>1, <3>2, <4>3
      <4>4. CASE i # index
        <5>1. i \in 1..(Len(passed) - 1) /\ i \in 1..index /\ i + 1 \in 1..index
          BY <2>0, <4>4
        <5>. QED
          BY <2>0, <3>2, <4>1, <4>2, <5>1 DEF Inv, Chained
      <4>. QED
        BY <4>3, <4>4
    <3>. QED
      BY <3>3, <3>4, <3>6, <3>7, <3>8, <3>9 DEF Inv
  <2>4. CASE ~(index > Len(target))
    <3>1. index <= Len(target)
      BY <1>0, <2>0, <2>4
    <3>. HIDE DEF d
    <3>2. \/ d = None /\ Deny /\ UNCHANGED faults
          \/ /\ d # None
             /\ fd' = d /\ index' = index + 1 /\ passed' = Append(passed, d)
             /\ UNCHANGED <<fsVars, pc, target, faults>>
          \/ Fault /\ Deny
      BY <1>5, <2>4 DEF OpenComponent, d
    <3>. QED
      BY <2>2, <2>3, <3>1, <3>2
  <2>. QED
    BY <2>1, <2>4
<1>6. CASE CheckOpened
  <2>1. CASE Deny /\ (Fault \/ UNCHANGED faults)
    BY <2>1, DenyKeepsInv
  <2>2. CASE IsOwned(fd) /\ Go("opened") /\ UNCHANGED <<index, fd, faults>>
    <3>1. Holding /\ Len(passed) = Len(target) + 1
      BY <1>6 DEF CheckOpened, Holding, Inv, Held
    <3>. QED
      BY <2>2, <3>1, HandOverKeepsInv
  <2>. QED
    BY <1>6, <2>1, <2>2 DEF CheckOpened
<1>. QED
  BY <1>1, <1>2, <1>3, <1>4, <1>5, <1>6 DEF Guard

LEMMA InterfereKeepsInv == Inv /\ Interfere => Inv'
<1>. SUFFICES ASSUME Inv, Interfere PROVE Inv'
  OBVIOUS
<1>. USE DEF Interfere, guardVars
<1>1. FSTypeOK' /\ Forest(tree)' /\ Unborn'
  BY ForestKept DEF Inv, TypeOK
<1>2. TypeOK' /\ Screened' /\ Held' /\ Owned'
  BY <1>1 DEF Inv, TypeOK, Screened, Held, Holding, Owned, LexicallyDenied, IsOwned
<1>3. fresh' \subseteq fresh /\ moved \subseteq moved'
  BY DEF Applications, CreateEntry, DeleteEntry, RenameEntry
<1>4. Created'
  BY <1>3 DEF Inv, Created
<1>5. Chained'
  <2>. SUFFICES ASSUME Holding, Unmoved', Alive(tree', fd),
                       NEW i \in 1..(Len(passed) - 1)
                PROVE  tree'[passed[i]][target[i]] = passed[i + 1]
    BY DEF Chained, Holding
  <2>0. Unmoved
    BY <1>3 DEF Unmoved
  <2>1. /\ passed \in Seq(Dirs) /\ Len(passed) \in 1..(Len(target) + 1)
        /\ passed[Len(passed)] = fd /\ Len(target) \in Nat
        /\ \A j \in 1..Len(target) : target[j] \in Names
    BY GuardAssumption DEF Inv, TypeOK, Held
  <2>2. /\ i \in 1..Len(target) /\ i \in 1..Len(passed) /\ i + 1 \in 1..Len(passed)
        /\ passed[i] \in Dirs /\ passed[i + 1] \in Dirs /\ target[i] \in Names
        /\ fd \in Dirs
    BY <2>1
  <2>3. fd \notin fresh /\ fd \notin moved' /\ passed[i + 1] \notin moved'
    BY <2>1, <2>2 DEF Inv, Created, Unmoved
  <2>4. Alive(tree, fd)
    <3>1. CASE fd = Root
      BY <3>1 DEF Alive
    <3>2. CASE Linked(tree', fd)
      <4>1. ASSUME NEW d \in Dirs, NEW n \in Names, NEW x \in Spare, CreateEntry(d, n, x)
            PROVE  Linked(tree, fd)
        BY <2>2, <2>3, <3>2, <4>1 DEF CreateEntry, Linked, Inv, TypeOK, FSTypeOK, Trees
      <4>2. ASSUME NEW d \in Dirs, NEW n \in Names, DeleteEntry(d, n)
            PROVE  Linked(tree, fd)
        <5>1. fd # None
          BY <2>2, TreeAssumption DEF Nodes
        <5>. QED
          BY <2>2, <3>2, <4>2, <5>1 DEF DeleteEntry, Linked, Inv, TypeOK, FSTypeOK, Trees
      <4>3. ASSUME NEW d \in Dirs, NEW e \in Dirs, NEW n \in Names, NEW m \in Names,
                   RenameEntry(d, n, e, m)
            PROVE  Linked(tree, fd)
        <5>1. fd # None /\ fd # tree[d][n]
          BY <2>2, <2>3, <4>3, TreeAssumption DEF Nodes, RenameEntry
        <5>2. \A g \in Dirs, k \in Names : tree'[g][k] = fd => tree[g][k] = fd
          BY <4>3, <5>1 DEF RenameEntry, Inv, TypeOK, FSTypeOK, Trees
        <5>. QED
          BY <3>2, <5>2 DEF Linked
      <4>. QED
        BY <4>1, <4>2, <4>3 DEF Applications, Alive
    <3>. QED
      BY <3>1, <3>2 DEF Alive
  <2>5. \A j \in 1..(Len(passed) - 1) : tree[passed[j]][target[j]] = passed[j + 1]
    BY <2>0, <2>4 DEF Inv, Chained
  <2>6. tree[passed[i]][target[i]] = passed[i + 1] /\ passed[i + 1] # None
    BY <2>2, <2>5, TreeAssumption DEF Nodes
  <2>7. ASSUME NEW d \in Dirs, NEW n \in Names, NEW x \in Spare, CreateEntry(d, n, x)
        PROVE  tree'[passed[i]][target[i]] = passed[i + 1]
    BY <2>2, <2>6, <2>7 DEF CreateEntry, Inv, TypeOK, FSTypeOK, Trees
  <2>8. ASSUME NEW d \in Dirs, NEW n \in Names, NEW e \in Dirs, NEW m \in Names,
               RenameEntry(d, n, e, m)
        PROVE  tree'[passed[i]][target[i]] = passed[i + 1]
    <3>1. tree[d][n] # passed[i + 1] /\ tree[e][m] = None
      BY <2>3, <2>8 DEF RenameEntry
    <3>2. tree' = [tree EXCEPT ![d][n] = None, ![e][m] = tree[d][n]]
      BY <2>8 DEF RenameEntry
    <3>3. ~(passed[i] = d /\ target[i] = n) /\ ~(passed[i] = e /\ target[i] = m)
      BY <2>6, <3>1
    <3>. QED
      BY <2>2, <2>6, <3>2, <3>3 DEF Inv, TypeOK, FSTypeOK, Trees
  <2>9. ASSUME NEW d \in Dirs, NEW n \in Names, DeleteEntry(d, n)
        PROVE  tree'[passed[i]][target[i]] = passed[i + 1]
    <3>0. /\ tree'[d][n] = None
          /\ \A g \in Dirs, k \in Names : ~(g = d /\ k = n) => tree'[g][k] = tree[g][k]
      BY <2>9 DEF DeleteEntry, Inv, TypeOK, FSTypeOK, Trees
    <3>1. CASE ~(passed[i] = d /\ target[i] = n)
      BY <2>2, <2>6, <3>0, <3>1
    <3>2. CASE passed[i] = d /\ target[i] = n
      <4>1. Entries(tree, passed[i + 1]) = {}
        BY <2>2, <2>6, <2>9, <3>2 DEF DeleteEntry
      <4>2. CASE i + 1 = Len(passed)
        <5>1. fd = tree[d][n]
          BY <2>1, <2>6, <3>2, <4>2
        <5>2. fd # None /\ fd # Root
          BY <2>2, <5>1, TreeAssumption DEF Inv, Forest, Linked, Nodes
        <5>3. ~Linked(tree', fd)
          BY <2>2, <3>0, <5>1, <5>2 DEF Inv, Forest, Linked
        <5>. QED
          BY <5>2, <5>3 DEF Alive
      <4>3. CASE i + 1 # Len(passed)
        <5>1. i + 1 \in 1..(Len(passed) - 1) /\ i + 2 \in 1..Len(passed)
              /\ i + 1 \in 1..Len(target) /\ (i + 1) + 1 = i + 2
          BY <2>1, <2>2, <4>3
        <5>2. tree[passed[i + 1]][target[i + 1]] = passed[i + 2]
          BY <2>5, <5>1
        <5>3. passed[i + 2] # None /\ target[i + 1] \in Names
          BY <2>1, <5>1, TreeAssumption DEF Nodes
        <5>. QED
          BY <4>1, <5>2, <5>3 DEF Entries
      <4>. QED
        BY <4>2, <4>3
    <3>. QED
      BY <3>1, <3>2
  <2>. QED
    BY <2>7, <2>8, <2>9 DEF Applications
<1>. QED
  BY <1>1, <1>2, <1>4, <1>5 DEF Inv

LEMMA NextKeepsInv == Inv /\ [Next]_vars => Inv'
<1>1. ASSUME Inv, UNCHANGED vars PROVE Inv'
  BY <1>1 DEF vars, guardVars, fsVars, Inv, TypeOK, FSTypeOK, Trees, Forest, Unborn,
     Screened, Held, Holding, Created, Chained, Unmoved, Owned, Alive, Linked, Entries,
     LexicallyDenied, IsOwned
<1>. QED
  BY <1>1, GuardKeepsInv, InterfereKeepsInv DEF Next, Decided

LEMMA SpecInv == Spec => []Inv
  BY InitInv, NextKeepsInv, PTL DEF Spec

\* Every variable of openApprovedDirectory keeps its type: a descriptor is
\* held exactly while the components are opened, checked and handed over.
THEOREM TypeCorrect == Spec => []TypeOK
<1>1. Inv => TypeOK
  BY DEF Inv
<1>. QED
  BY SpecInv, <1>1, PTL

\* The directory that openApprovedDirectory hands to the walk is the one the
\* approved path names, unless one on the way was renamed or removed - however
\* many links are swapped in meanwhile.
THEOREM OpenedCorrectly == Spec => []OpenedIsTarget
<1>1. ASSUME Inv PROVE OpenedIsTarget
  <2>. SUFFICES ASSUME pc = "opened", Range(passed) \cap moved = {}, Alive(tree, fd)
                PROVE  /\ ~LexicallyDenied(target) /\ Leads(passed, target)
                       /\ Head(passed) = Root /\ Last(passed) = fd
    BY DEF OpenedIsTarget
  <2>1. passed \in Seq(Dirs) /\ Len(target) \in Nat
    BY <1>1, GuardAssumption DEF Inv, TypeOK
  <2>2. /\ Len(passed) = Len(target) + 1 /\ Head(passed) = Root
        /\ passed[Len(passed)] = fd
    BY <1>1, <2>1 DEF Inv, Held, Holding
  <2>3. Unmoved
    BY <2>1 DEF Range, Unmoved
  <2>4. \A i \in 1..Len(target) : tree[passed[i]][target[i]] = passed[i + 1]
    BY <1>1, <2>1, <2>2, <2>3 DEF Inv, Chained, Holding
  <2>. QED
    BY <1>1, <2>2, <2>4 DEF Inv, Screened, Leads, Last
<1>. QED
  BY SpecInv, <1>1, PTL

\* The directory that is handed over belongs to the user, whatever was swapped
\* for what between the lstat of the path and the last openat.
THEOREM OpenedIsTheUsers == Spec => []OpenedIsOwned
<1>1. Inv => OpenedIsOwned
  BY DEF Inv, Owned, IsOwned, OpenedIsOwned
<1>. QED
  BY SpecInv, <1>1, PTL

-----------------------------------------------------------------------------
(***************************************************************************)
(* What an undisturbed check answers.  permits looks at every prefix of    *)
(* the path from the root and through links, openApprovedDirectory goes    *)
(* down by descriptors: when the path leads through real directories the   *)
(* two see the same, and when it does not the answer is a refusal.         *)
(***************************************************************************)
Way(k) == Resolve(tree, Root, SubSeq(target, 1, k))

Undisturbed == changes = 0 /\ faults = 0

\* So far the descent is where the path is, and a refusal has its reason.
QuietInv ==
  Undisturbed =>
    /\ Holding => fd = Way(Len(passed) - 1)
    /\ pc = "denied" => LexicallyDenied(target) \/ ~IsOwned(Way(Len(target)))
    /\ pc = "links" => index > 0

LEMMA WayFacts ==
  ASSUME Inv
  PROVE  /\ target \in Seq(Names) /\ Len(target) \in Nat
         /\ Way(0) = Root /\ Way(Len(target)) = Resolve(tree, Root, target)
         /\ \A k \in 1..Len(target) :
              /\ target[k] \in Names
              /\ Way(k) = Onward(tree, Way(k - 1), target[k])
<1>1. target \in Seq(Names) /\ Len(target) \in Nat /\ tree \in Trees /\ Root \in Dirs
  BY GuardAssumption, TreeAssumption DEF Inv, TypeOK, FSTypeOK
<1>2. SubSeq(target, 1, 0) = <<>> /\ SubSeq(target, 1, Len(target)) = target
  BY <1>1
<1>3. ASSUME NEW k \in 1..Len(target)
      PROVE  target[k] \in Names /\ Way(k) = Onward(tree, Way(k - 1), target[k])
  <2>1. /\ SubSeq(target, 1, k - 1) \in Seq(Names) /\ target[k] \in Names
        /\ SubSeq(target, 1, k) = Append(SubSeq(target, 1, k - 1), target[k])
    BY <1>1, PrefixExtends
  <2>2. \A q \in Seq(Names), n \in Names :
          Resolve(tree, Root, Append(q, n)) = Onward(tree, Resolve(tree, Root, q), n)
    BY <1>1, ResolveAppend
  <2>. QED
    BY <2>1, <2>2, Zenon DEF Way
<1>4. Way(0) = Root
  BY <1>1, <1>2, ResolveEmpty DEF Way
<1>. QED
  BY <1>1, <1>2, <1>3, <1>4 DEF Way

\* A path to a directory leads through directories.
LEMMA RealWay ==
  ASSUME Inv, Way(Len(target)) \in Dirs
  PROVE  \A k \in 0..Len(target) : Way(k) \in Dirs
<1>. DEFINE T == {j \in Nat : j <= Len(target) /\ Way(Len(target) - j) \notin Dirs}
<1>1. T = {}
  <2>. SUFFICES ASSUME T # {} PROVE FALSE
    OBVIOUS
  <2>1. PICK j \in T : \A i \in T : j <= i
    BY LeastNumber
  <2>. DEFINE k == Len(target) - j
  <2>2. j # 0 /\ j \in Nat /\ j <= Len(target) /\ Way(k) \notin Dirs
    BY <2>1, WayFacts
  <2>3. j - 1 \in Nat /\ j - 1 \notin T
    BY <2>1, <2>2
  <2>4. k + 1 \in 1..Len(target) /\ (k + 1) - 1 = k /\ Len(target) - (j - 1) = k + 1
    BY <2>2, WayFacts
  <2>5. Way(k + 1) \in Dirs
    BY <2>2, <2>3, <2>4
  <2>. HIDE DEF T, k
  <2>6. Way(k + 1) = None
    BY <2>2, <2>4, WayFacts DEF Onward
  <2>. QED
    BY <2>5, <2>6, TreeAssumption DEF Nodes
<1>. SUFFICES ASSUME NEW k \in 0..Len(target) PROVE Way(k) \in Dirs
  OBVIOUS
<1>2. Len(target) - k \in Nat /\ Len(target) - (Len(target) - k) = k
      /\ Len(target) - k <= Len(target)
  BY WayFacts
<1>. QED
  BY <1>1, <1>2

\* Then lstat of a prefix, which follows links, finds what is on the way.
LEMMA LstatFindsWay ==
  ASSUME Inv, Way(Len(target)) \in Dirs, NEW k \in 1..Len(target)
  PROVE  /\ Holder(SubSeq(target, 1, k)) = Way(k - 1)
         /\ Lstat(SubSeq(target, 1, k)) = Way(k)
<1>. DEFINE q == SubSeq(target, 1, k)
            Right(f) == f = [i \in 0..Len(q) |->
                               IF i = 0 THEN Root
                               ELSE IF f[i - 1] \in Dirs THEN Follow(tree[f[i - 1]][q[i]])
                                    ELSE f[i - 1]]
            w == [i \in 0..Len(q) |-> Way(i)]
<1>1. /\ Len(q) = k /\ k \in Nat /\ k <= Len(target)
      /\ \A i \in 1..k : q[i] = target[i] /\ i \in 1..Len(target)
  BY WayFacts
<1>2. /\ Way(0) = Root
      /\ \A i \in 1..k : /\ Way(i - 1) \in Dirs /\ Way(i) \in Dirs
                         /\ Way(i) = tree[Way(i - 1)][target[i]]
                         /\ Way(i) = Follow(tree[Way(i - 1)][target[i]])
  <2>. SUFFICES ASSUME NEW i \in 1..k
                PROVE  /\ Way(i - 1) \in Dirs /\ Way(i) \in Dirs
                       /\ Way(i) = tree[Way(i - 1)][target[i]]
                       /\ Way(i) = Follow(tree[Way(i - 1)][target[i]])
    BY WayFacts
  <2>1. i \in 0..Len(target) /\ i - 1 \in 0..Len(target) /\ i \in 1..Len(target)
    BY <1>1
  <2>2. Way(i - 1) \in Dirs /\ Way(i) \in Dirs
    BY <2>1, RealWay
  <2>3. Way(i) = tree[Way(i - 1)][target[i]]
    BY <2>1, <2>2, WayFacts DEF Onward
  <2>4. Way(i) \notin Links
    BY <2>2, TreeAssumption
  <2>. QED
    BY <2>2, <2>3, <2>4 DEF Follow
<1>. HIDE DEF q
<1>3. Right(w)
  <2>1. ASSUME NEW i \in 0..Len(q), i # 0
        PROVE  w[i] = IF w[i - 1] \in Dirs THEN Follow(tree[w[i - 1]][q[i]]) ELSE w[i - 1]
    <3>1. i \in 1..k /\ i - 1 \in 0..Len(q)
      BY <1>1, <2>1
    <3>2. w[i] = Way(i) /\ w[i - 1] = Way(i - 1) /\ q[i] = target[i]
      BY <1>1, <3>1
    <3>. HIDE DEF w
    <3>. QED
      BY <1>2, <3>1, <3>2
  <2>2. w[0] = Root
    BY <1>1, <1>2
  <2>3. w = [i \in 0..Len(q) |-> w[i]]
    OBVIOUS
  <2>. HIDE DEF w
  <2>. QED
    BY <2>1, <2>2, <2>3
<1>. DEFINE at == CHOOSE f : Right(f)
<1>4. Right(at)
  <2>. HIDE DEF Right
  <2>. QED
    BY <1>3
<1>5. Holder(q) = at[Len(q) - 1]
  BY DEF Holder
<1>. HIDE DEF at, w
<1>6. /\ at[0] = Root
      /\ \A i \in 1..k : at[i] = IF at[i - 1] \in Dirs THEN Follow(tree[at[i - 1]][q[i]])
                                 ELSE at[i - 1]
  <2>1. 0 \in 0..Len(q) /\ \A i \in 1..k : i \in 0..Len(q) /\ i # 0
    BY <1>1
  <2>. QED
    BY <1>4, <2>1
<1>7. at[k - 1] = Way(k - 1)
  <2>. DEFINE T == {i \in Nat : i < k /\ at[i] # Way(i)}
  <2>1. SUFFICES ASSUME T # {} PROVE FALSE
    BY <1>1
  <2>2. PICK i \in T : \A j \in T : i <= j
    BY <2>1, LeastNumber
  <2>3. i \in 1..k /\ i - 1 \in Nat /\ i - 1 \notin T /\ at[i] # Way(i)
    BY <1>2, <1>6, <2>2
  <2>4. at[i - 1] = Way(i - 1)
    BY <2>3
  <2>. HIDE DEF T
  <2>5. at[i] = Follow(tree[Way(i - 1)][target[i]])
    BY <1>1, <1>2, <1>6, <2>3, <2>4
  <2>. QED
    BY <1>2, <2>3, <2>5
<1>8. Holder(q) = Way(k - 1)
  BY <1>1, <1>5, <1>7
<1>9. Lstat(q) = Way(k)
  <2>1. Last(q) = target[k] /\ k \in 1..k
    BY <1>1 DEF Last
  <2>. QED
    BY <1>2, <1>8, <2>1 DEF Lstat
<1>. QED
  BY <1>8, <1>9 DEF q

\* A step of an undisturbed check leaves the tree and what is on the way.
LEMMA GuardLeavesWay ==
  ASSUME Inv, Guard, Undisturbed'
  PROVE  Undisturbed /\ UNCHANGED <<fsVars, target, faults>> /\ \A k : Way(k)' = Way(k)
<1>1. UNCHANGED <<fsVars, target>>
  BY DEF Guard, Lexical, CheckComponent, CheckTarget, OpenRoot, OpenComponent, CheckOpened,
     Deny, Go
<1>2. Fault \/ UNCHANGED faults
  BY DEF Guard, Lexical, CheckComponent, CheckTarget, OpenRoot, OpenComponent, CheckOpened
<1>3. faults \in Nat /\ faults' = 0 /\ changes' = 0
  BY GuardAssumption DEF Undisturbed, Inv, TypeOK
<1>4. UNCHANGED faults
  BY <1>2, <1>3 DEF Fault
<1>. QED
  BY <1>1, <1>3, <1>4 DEF Undisturbed, Way, fsVars

LEMMA GuardKeepsQuiet ==
  ASSUME Inv, Inv', QuietInv, Guard
  PROVE  QuietInv'
<1>. SUFFICES ASSUME Undisturbed'
              PROVE  /\ Holding' => fd' = Way(Len(passed') - 1)
                     /\ pc' = "denied" => \/ LexicallyDenied(target)
                                          \/ ~IsOwned(Way(Len(target)))
                     /\ pc' = "links" => index' > 0
  BY GuardLeavesWay, Zenon DEF QuietInv, IsOwned, LexicallyDenied
<1>0. /\ Undisturbed /\ UNCHANGED <<target, faults>> /\ faults = 0
      /\ Holding => fd = Way(Len(passed) - 1)
      /\ pc = "links" => index > 0
  BY GuardLeavesWay DEF QuietInv, Undisturbed
<1>1. ~Fault
  BY <1>0 DEF Fault
<1>2. /\ target \in Seq(Names) /\ Len(target) \in Nat /\ index \in 0..(Len(target) + 1)
      /\ \A k \in 1..Len(target) :
           target[k] \in Names /\ Way(k) = Onward(tree, Way(k - 1), target[k])
  BY WayFacts DEF Inv, TypeOK
<1>3. ASSUME ~LexicallyDenied(target), IsOwned(Way(Len(target)))
      PROVE  /\ Len(target) \in 1..Len(target) /\ SubSeq(target, 1, Len(target)) = target
             /\ \A k \in 1..Len(target) :
                  /\ Way(k) \in Dirs /\ Way(k - 1) \in Dirs /\ Way(k) # None
                  /\ Way(k) \notin Links /\ Way(k - 1) \notin Files
                  /\ Lstat(SubSeq(target, 1, k)) = Way(k)
                  /\ Holder(SubSeq(target, 1, k)) = Way(k - 1)
                  /\ tree[Way(k - 1)][target[k]] = Way(k)
  <2>1. target # <<>>
    BY <1>3 DEF LexicallyDenied, ProtectedPaths
  <2>2. Way(Len(target)) \in Dirs
    BY <1>3 DEF IsOwned
  <2>3. ASSUME NEW k \in 1..Len(target)
        PROVE  /\ Way(k) \in Dirs /\ Way(k - 1) \in Dirs /\ Way(k) # None
               /\ Way(k) \notin Links /\ Way(k - 1) \notin Files
               /\ tree[Way(k - 1)][target[k]] = Way(k)
    <3>1. k \in 0..Len(target) /\ k - 1 \in 0..Len(target)
      BY <1>2
    <3>2. Way(k) \in Dirs /\ Way(k - 1) \in Dirs
      BY <2>2, <3>1, RealWay
    <3>. QED
      BY <1>2, <3>2, TreeAssumption DEF Onward, Nodes
  <2>. QED
    BY <1>2, <2>1, <2>2, <2>3, LstatFindsWay
<1>4. CASE Lexical
  <2>1. pc' = "denied" => LexicallyDenied(target)
    BY <1>4 DEF Lexical, Go
  <2>2. pc' = "links" => index' > 0
    BY <1>4, GuardAssumption DEF Lexical, Deny
  <2>3. pc' \in {"denied", "links"}
    BY <1>4 DEF Lexical, Deny, Go
  <2>. QED
    BY <2>1, <2>2, <2>3 DEF Holding
<1>5. CASE CheckComponent
  <2>1. pc = "links" /\ ~LexicallyDenied(target) /\ index > 0
    BY <1>0, <1>5 DEF CheckComponent, Inv, Screened
  <2>2. pc' = "denied" => ~IsOwned(Way(Len(target)))
    <3>. SUFFICES ASSUME pc' = "denied", IsOwned(Way(Len(target))) PROVE FALSE
      OBVIOUS
    <3>1. index <= Len(target)
      BY <1>2, <1>5 DEF CheckComponent, Go
    <3>2. index \in 1..Len(target)
      BY <1>2, <2>1, <3>1
    <3>3. \/ Holder(SubSeq(target, 1, index)) \in Files
          \/ Lstat(SubSeq(target, 1, index)) \in Links
      BY <1>1, <1>2, <1>5, <3>1 DEF CheckComponent, Go
    <3>. QED
      BY <1>3, <2>1, <3>2, <3>3
  <2>3. pc' \in {"denied", "lstat", "links"}
    BY <1>5 DEF CheckComponent, Deny, Go
  <2>4. pc' = "links" => index' > 0
    BY <1>2, <1>5, <2>1 DEF CheckComponent, Deny, Go
  <2>. QED
    BY <2>2, <2>3, <2>4 DEF Holding
<1>6. CASE CheckTarget
  <2>1. ~LexicallyDenied(target)
    BY <1>6 DEF CheckTarget, Inv, Screened
  <2>2. pc' = "denied" => ~IsOwned(Lstat(target))
    BY <1>1, <1>6 DEF CheckTarget, Go
  <2>3. IsOwned(Way(Len(target))) => Lstat(target) = Way(Len(target))
    BY <1>3, <2>1
  <2>4. pc' \in {"denied", "root"}
    BY <1>6 DEF CheckTarget, Deny, Go
  <2>. QED
    BY <2>2, <2>3, <2>4 DEF Holding
<1>7. CASE OpenRoot
  <2>1. fd' = Root /\ pc' = "openat" /\ passed' = <<Root>>
    BY <1>1, <1>7 DEF OpenRoot
  <2>2. Len(passed') = 1 /\ Way(0) = Root
    BY <2>1, WayFacts
  <2>. QED
    BY <2>1, <2>2
<1>8. CASE OpenComponent
  <2>1. /\ pc = "openat" /\ ~LexicallyDenied(target)
        /\ index \in 1..(Len(target) + 1) /\ Len(passed) = index /\ fd = Way(index - 1)
        /\ fd \in Dirs /\ passed \in Seq(Dirs)
    BY <1>0, <1>2, <1>8 DEF OpenComponent, Inv, TypeOK, Held, Holding, Screened
  <2>2. CASE index > Len(target)
    BY <1>8, <2>1, <2>2, <1>0 DEF OpenComponent, Go, Holding
  <2>3. CASE index <= Len(target)
    <3>. DEFINE d == Opened(tree[fd][target[index]])
    <3>1. \/ d = None /\ Deny
          \/ /\ d # None
             /\ fd' = d /\ passed' = Append(passed, d) /\ pc' = pc
      BY <1>1, <1>2, <1>8, <2>3 DEF OpenComponent
    <3>2. index \in 1..Len(target) /\ Way(index) = tree[fd][target[index]]
      BY <1>2, <2>1, <2>3 DEF Onward
    <3>. HIDE DEF d
    <3>3. CASE d = None /\ Deny
      <4>1. Way(index) \notin Dirs
        BY <3>2, <3>3, TreeAssumption DEF d, Opened, Nodes
      <4>. QED
        BY <1>3, <2>1, <3>2, <3>3, <4>1 DEF Deny, Holding
    <3>4. CASE d # None /\ fd' = d /\ passed' = Append(passed, d) /\ pc' = pc
      <4>1. Len(passed') - 1 = index
        BY <2>1, <3>4
      <4>2. d = Way(index)
        BY <3>2, <3>4 DEF d, Opened
      <4>. QED
        BY <2>1, <3>4, <4>1, <4>2
    <3>. QED
      BY <3>1, <3>3, <3>4
  <2>. QED
    BY <1>2, <2>2, <2>3
<1>9. CASE CheckOpened
  <2>1. /\ pc = "fstat" /\ Len(passed) - 1 = Len(target) /\ fd = Way(Len(target))
    BY <1>0, <1>2, <1>9 DEF CheckOpened, Inv, Held, Holding
  <2>2. \/ pc' = "opened" /\ UNCHANGED <<fd, passed>>
        \/ pc' = "denied" /\ ~IsOwned(fd)
    BY <1>1, <1>9 DEF CheckOpened, Go, Deny
  <2>. QED
    BY <2>1, <2>2 DEF Holding
<1>. QED
  BY <1>4, <1>5, <1>6, <1>7, <1>8, <1>9 DEF Guard

LEMMA NextKeepsQuiet == Inv /\ QuietInv /\ [Next]_vars => QuietInv'
<1>1. ASSUME Inv, QuietInv, UNCHANGED vars PROVE QuietInv'
  <2>1. UNCHANGED <<tree, changes, pc, target, index, fd, faults, passed>>
    BY <1>1 DEF vars, fsVars, guardVars
  <2>2. /\ Way(Len(passed) - 1)' = Way(Len(passed) - 1)
        /\ Way(Len(target))' = Way(Len(target))
    BY <2>1 DEF Way
  <2>3. LexicallyDenied(target)' <=> LexicallyDenied(target)
    BY <2>1 DEF LexicallyDenied
  <2>4. IsOwned(Way(Len(target)))' <=> IsOwned(Way(Len(target)))
    BY <2>2 DEF IsOwned
  <2>5. Holding' <=> Holding
    BY <2>1 DEF Holding
  <2>6. Undisturbed' <=> Undisturbed
    BY <2>1 DEF Undisturbed
  <2>. QED
    BY <1>1, <2>1, <2>2, <2>3, <2>4, <2>5, <2>6 DEF QuietInv
<1>2. ASSUME Inv, Interfere PROVE QuietInv'
  <2>1. changes' = changes + 1 /\ changes \in Nat
    <3>1. Change
      BY <1>2, Zenon DEF Interfere, Applications, CreateEntry, DeleteEntry, RenameEntry
    <3>. QED
      BY <1>2, <3>1, TreeAssumption DEF Change, Inv, TypeOK, FSTypeOK
  <2>. QED
    BY <2>1 DEF QuietInv, Undisturbed
<1>. QED
  BY <1>1, <1>2, GuardKeepsInv, GuardKeepsQuiet DEF Next, Decided

\* Left alone, permits and openApprovedDirectory give the exact answer: they
\* open a path if and only if it is approved, not protected, below home and a
\* real directory of the user's.
THEOREM QuietAnswerExact == Spec => []QuietAnswer
<1>1. Init => QuietInv
  BY DEF Init, QuietInv, Holding
<1>2. ASSUME Inv, QuietInv PROVE QuietAnswer
  <2>. SUFFICES ASSUME Undisturbed
                PROVE  /\ pc = "opened" => /\ ~LexicallyDenied(target)
                                           /\ IsOwned(Way(Len(target)))
                                           /\ fd = Way(Len(target))
                       /\ pc = "denied" => \/ LexicallyDenied(target)
                                           \/ ~IsOwned(Way(Len(target)))
    <3>1. Way(Len(target)) = Resolve(tree, Root, target)
      BY <1>2, WayFacts
    <3>. QED
      BY <3>1, Zenon DEF QuietAnswer, Undisturbed
  <2>1. ASSUME pc = "opened"
        PROVE  ~LexicallyDenied(target) /\ IsOwned(fd) /\ fd = Way(Len(target))
    <3>1. Len(passed) - 1 = Len(target)
      BY <1>2, <2>1, WayFacts DEF Inv, Held, Holding
    <3>. QED
      BY <1>2, <2>1, <3>1 DEF Inv, Screened, Owned, QuietInv, Holding
  <2>. QED
    BY <1>2, <2>1 DEF QuietInv
<1>. QED
  BY SpecInv, InitInv, NextKeepsInv, <1>1, NextKeepsQuiet, <1>2, PTL DEF Spec
=============================================================================
