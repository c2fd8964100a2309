-------------------------- MODULE FileSystem_proofs --------------------------
(***************************************************************************)
(* Facts about the directory tree and what other processes do to it, for   *)
(* every tree: the proofs about SafeDelete, PathGuard and Scanner rest on  *)
(* them.                                                                   *)
(***************************************************************************)
EXTENDS FileSystem, FiniteSetTheorems, TLAPS

\* Every nonempty set of numbers has a least one.
LEMMA LeastNumber ==
  ASSUME NEW T \in SUBSET Nat, T # {}
  PROVE  \E n \in T : \A m \in T : n <= m
<1>. DEFINE F == {1..n : n \in T}
<1>1. F \subseteq FiniteSubsetsOf(Nat)
  BY FS_Interval DEF FiniteSubsetsOf
<1>2. PICK x \in F : \A y \in F : ~(<<y, x>> \in StrictSubsetOrdering(Nat))
  <2>1. F # {}
    OBVIOUS
  <2>. HIDE DEF F
  <2>. QED
    BY <1>1, <2>1, WFMin, FS_StrictSubsetOrderingWellFounded
<1>3. PICK n \in T : x = 1..n
  BY <1>2
<1>4. ASSUME NEW m \in T, m < n PROVE FALSE
  <2>1. /\ 1..m \subseteq 1..n /\ 1..m # 1..n /\ 1..m \in F
        /\ 1..n \in SUBSET Nat /\ 1..m \in SUBSET Nat
    <3>1. n \in 1..n /\ n \notin 1..m
      BY <1>4
    <3>. QED
      BY <1>4, <3>1
  <2>2. <<1..m, x>> \in StrictSubsetOrdering(Nat)
    BY <1>3, <2>1 DEF StrictSubsetOrdering
  <2>. QED
    BY <1>2, <2>1, <2>2
<1>. QED
  BY <1>4

\* f takes the steps of G from a, n of them.
Iterates(f, n, V, a, G) ==
  /\ f \in [0..n -> V]
  /\ f[0] = a /\ \A i \in 1..n : f[i] = G[<<i, f[i - 1]>>]

\* A recursion over 1..n that stays in V has a solution.
LEMMA Iteration ==
  ASSUME NEW n \in Nat, NEW V, NEW a \in V, NEW G \in [(1..n) \X V -> V]
  PROVE  \E f : Iterates(f, n, V, a, G)
<1>. USE DEF Iterates
<1>. DEFINE Upto(k) == \E f : Iterates(f, k, V, a, G)
     T == {k \in Nat : k <= n /\ ~Upto(k)}
<1>1. SUFFICES ASSUME T # {} PROVE FALSE
  <2>. HIDE DEF Upto
  <2>1. T = {} => Upto(n)
    OBVIOUS
  <2>. QED
    BY <2>1 DEF Upto
<1>2. PICK k \in T : \A m \in T : k <= m
  BY <1>1, LeastNumber
<1>3. Upto(0)
  <2>1. /\ [i \in 0..0 |-> a] \in [0..0 -> V]
        /\ [i \in 0..0 |-> a][0] = a
        /\ 1..0 = {}
    OBVIOUS
  <2>. QED
    BY <2>1
<1>4. k # 0 /\ k \in Nat /\ k <= n /\ ~Upto(k)
  BY <1>2, <1>3
<1>5. Upto(k - 1)
  <2>1. k - 1 \in Nat /\ k - 1 \notin T
    BY <1>2, <1>4
  <2>. HIDE DEF Upto
  <2>. QED
    BY <1>4, <2>1
<1>6. PICK f \in [0..(k - 1) -> V] :
        f[0] = a /\ \A i \in 1..(k - 1) : f[i] = G[<<i, f[i - 1]>>]
  BY <1>5
<1>. DEFINE g == [i \in 0..k |-> IF i = k THEN G[<<k, f[k - 1]>>] ELSE f[i]]
<1>7. f[k - 1] \in V /\ G[<<k, f[k - 1]>>] \in V
  BY <1>4
<1>8. g \in [0..k -> V] /\ g[0] = a
  BY <1>4, <1>6, <1>7
<1>9. ASSUME NEW i \in 1..k PROVE g[i] = G[<<i, g[i - 1]>>]
  <2>1. CASE i = k
    <3>1. k - 1 \in 0..k /\ k - 1 # k /\ k \in 0..k
      BY <1>4
    <3>. QED
      BY <2>1, <3>1
  <2>2. CASE i # k
    <3>1. i \in 1..(k - 1) /\ i \in 0..k /\ i - 1 \in 0..k /\ i - 1 # k
      BY <1>4, <2>2
    <3>. QED
      BY <1>6, <2>2, <3>1
  <2>. QED
    BY <2>1, <2>2
<1>. QED
  <2>. HIDE DEF g
  <2>1. Upto(k)
    BY <1>8, <1>9
  <2>. HIDE DEF Upto
  <2>. QED
    BY <1>4, <2>1

\* What a step of Resolve makes of a directory and of anything else.
Onward(t, x, n) == IF x \in Dirs THEN t[x][n] ELSE None

LEMMA OnwardIsNode ==
  ASSUME NEW t \in Trees, NEW x, NEW n \in Names
  PROVE  Onward(t, x, n) \in Nodes \cup {None}
BY DEF Trees, Onward

\* How Resolve gets along a path: its values at every prefix.
Trail(t, d, path, f) ==
  /\ f \in [0..Len(path) -> Nodes \cup {None}]
  /\ f[0] = d
  /\ \A i \in 1..Len(path) : f[i] = Onward(t, f[i - 1], path[i])

LEMMA ResolveSteps ==
  ASSUME NEW t \in Trees, NEW d \in Dirs, NEW path \in Seq(Names)
  PROVE  \E f : Trail(t, d, path, f) /\ Resolve(t, d, path) = f[Len(path)]
<1>. DEFINE V == Nodes \cup {None}
            m == Len(path)
            Right(f) == f = [i \in 0..m |-> IF i = 0 THEN d ELSE Onward(t, f[i - 1], path[i])]
<1>0. m \in Nat /\ d \in V /\ \A i \in 1..m : path[i] \in Names
  BY DEF Nodes
<1>1. \E f : Right(f)
  <2>. DEFINE G == [z \in (1..m) \X V |-> Onward(t, z[2], path[z[1]])]
  <2>1. G \in [(1..m) \X V -> V]
    BY <1>0, OnwardIsNode
  <2>2. \A i \in 1..m, v \in V : G[<<i, v>>] = Onward(t, v, path[i])
    OBVIOUS
  <2>. HIDE DEF G, m, V
  <2>3. PICK f : Iterates(f, m, V, d, G)
    BY <1>0, <2>1, Iteration
  <2>4. ASSUME NEW i \in 0..m, i # 0 PROVE f[i] = Onward(t, f[i - 1], path[i])
    <3>1. i \in 1..m /\ i - 1 \in 0..m
      BY <1>0, <2>4
    <3>. QED
      BY <2>2, <2>3, <3>1 DEF Iterates
  <2>5. Right(f)
    BY <2>3, <2>4 DEF Iterates
  <2>. QED
    BY <2>5
<1>. DEFINE at == CHOOSE f : Right(f)
<1>2. Right(at)
  <2>. HIDE DEF Right
  <2>. QED
    BY <1>1
<1>3. Resolve(t, d, path) = at[m]
  BY DEF Resolve, Onward
<1>. HIDE DEF at
<1>4. at[0] = d /\ \A i \in 1..m : at[i] = Onward(t, at[i - 1], path[i])
  <2>1. 0 \in 0..m /\ \A i \in 1..m : i \in 0..m /\ i # 0
    BY <1>0
  <2>. QED
    BY <1>2, <2>1
<1>5. at \in [0..m -> V]
  <2>. SUFFICES ASSUME NEW i \in 0..m PROVE at[i] \in V
    BY <1>2
  <2>1. CASE i = 0
    BY <1>0, <1>4, <2>1
  <2>2. CASE i # 0
    <3>1. i \in 1..m
      BY <1>0, <2>2
    <3>. QED
      BY <1>0, <1>4, <3>1, OnwardIsNode
  <2>. QED
    BY <2>1, <2>2
<1>6. Trail(t, d, path, at)
  BY <1>4, <1>5 DEF Trail
<1>. QED
  BY <1>3, <1>6

\* Resolve is a step from the front of the path.
LEMMA ResolveEmpty ==
  ASSUME NEW t \in Trees, NEW d \in Dirs
  PROVE  Resolve(t, d, <<>>) = d
<1>. DEFINE path == <<>>
<1>1. path \in Seq(Names) /\ Len(path) = 0
  OBVIOUS
<1>. HIDE DEF path
<1>2. PICK f : Trail(t, d, path, f) /\ Resolve(t, d, path) = f[Len(path)]
  BY <1>1, ResolveSteps
<1>. QED
  BY <1>1, <1>2 DEF path, Trail

LEMMA ResolveAppend ==
  ASSUME NEW t \in Trees, NEW d \in Dirs, NEW path \in Seq(Names), NEW n \in Names
  PROVE  /\ Resolve(t, d, path) \in Nodes \cup {None}
         /\ Resolve(t, d, Append(path, n)) = Onward(t, Resolve(t, d, path), n)
<1>. DEFINE long == Append(path, n)
            m == Len(path)
<1>1. /\ long \in Seq(Names) /\ m \in Nat /\ Len(long) = m + 1 /\ long[m + 1] = n
      /\ \A i \in 1..m : long[i] = path[i]
  OBVIOUS
<1>. HIDE DEF long, m
<1>2. PICK f : Trail(t, d, path, f) /\ Resolve(t, d, path) = f[m]
  BY ResolveSteps DEF m
<1>3. PICK g : Trail(t, d, long, g) /\ Resolve(t, d, long) = g[m + 1]
  BY <1>1, ResolveSteps
<1>4. /\ f \in [0..m -> Nodes \cup {None}] /\ f[0] = d /\ g[0] = d
      /\ \A i \in 1..m : f[i] = Onward(t, f[i - 1], path[i])
      /\ \A i \in 1..(m + 1) : g[i] = Onward(t, g[i - 1], long[i])
  BY <1>1, <1>2, <1>3, Zenon DEF Trail, m
<1>5. f[m] = g[m]
  <2>. DEFINE T == {k \in Nat : k <= m /\ f[k] # g[k]}
  <2>1. SUFFICES ASSUME T # {} PROVE FALSE
    BY <1>1
  <2>2. PICK k \in T : \A j \in T : k <= j
    BY <2>1, LeastNumber
  <2>3. k \in 1..m /\ k - 1 \in Nat /\ k - 1 \notin T /\ f[k] # g[k]
    BY <1>1, <1>4, <2>2
  <2>4. f[k - 1] = g[k - 1] /\ k \in 1..(m + 1) /\ long[k] = path[k]
    BY <1>1, <2>3
  <2>. QED
    BY <1>4, <2>3, <2>4
<1>6. m + 1 \in 1..(m + 1) /\ (m + 1) - 1 = m /\ m \in 0..m
  BY <1>1
<1>7. Resolve(t, d, long) = Onward(t, f[m], n)
  BY <1>1, <1>3, <1>4, <1>5, <1>6
<1>. QED
  BY <1>2, <1>4, <1>6, <1>7 DEF long

\* The prefixes of a path, one name after the other.
LEMMA PrefixGrows ==
  ASSUME NEW S, NEW path \in Seq(S), NEW k \in 0..(Len(path) - 1)
  PROVE  /\ SubSeq(path, 1, k) \in Seq(S) /\ Len(SubSeq(path, 1, k)) = k
         /\ SubSeq(path, 1, k + 1) = Append(SubSeq(path, 1, k), path[k + 1])
         /\ path[k + 1] \in S
<1>1. Len(path) \in Nat /\ k + 1 \in 1..Len(path)
  OBVIOUS
<1>2. /\ SubSeq(path, 1, k) \in Seq(S) /\ Len(SubSeq(path, 1, k)) = k
      /\ SubSeq(path, 1, k + 1) \in Seq(S) /\ Len(SubSeq(path, 1, k + 1)) = k + 1
      /\ \A i \in 1..k : SubSeq(path, 1, k)[i] = path[i]
      /\ \A i \in 1..(k + 1) : SubSeq(path, 1, k + 1)[i] = path[i]
  BY <1>1
<1>3. SubSeq(path, 1, k + 1) = Append(SubSeq(path, 1, k), path[k + 1])
  BY <1>1, <1>2
<1>. QED
  BY <1>1, <1>2, <1>3

LEMMA PrefixExtends ==
  ASSUME NEW S, NEW path \in Seq(S), NEW k \in 1..Len(path)
  PROVE  /\ SubSeq(path, 1, k - 1) \in Seq(S) /\ path[k] \in S
         /\ SubSeq(path, 1, k) = Append(SubSeq(path, 1, k - 1), path[k])
<1>. DEFINE j == k - 1
<1>1. j \in 0..(Len(path) - 1) /\ j + 1 = k
  OBVIOUS
<1>. HIDE DEF j
<1>2. /\ SubSeq(path, 1, j) \in Seq(S) /\ path[j + 1] \in S
      /\ SubSeq(path, 1, j + 1) = Append(SubSeq(path, 1, j), path[j + 1])
  BY <1>1, PrefixGrows, Zenon
<1>3. /\ SubSeq(path, 1, j) \in Seq(S) /\ path[k] \in S
      /\ SubSeq(path, 1, k) = Append(SubSeq(path, 1, j), path[k])
  BY <1>1, <1>2, Zenon
<1>. QED
  BY <1>3 DEF j

\* Below(t, S) contains S and is closed.
LEMMA BelowIsClosed ==
  ASSUME NEW t, NEW S \in SUBSET Dirs
  PROVE  /\ S \subseteq Below(t, S)
         /\ Below(t, S) \subseteq Dirs
         /\ Closed(t, Below(t, S))
<1>1. S \subseteq Below(t, S) /\ Below(t, S) \subseteq Dirs
  BY DEF Below
<1>2. Closed(t, Below(t, S))
  <2>. SUFFICES ASSUME NEW d \in Below(t, S), NEW n \in Names, t[d][n] \in Dirs,
                       NEW C \in SUBSET Dirs, S \subseteq C, Closed(t, C)
                PROVE  t[d][n] \in C
    BY DEF Closed, Below
  <2>1. d \in C
    BY DEF Below
  <2>. QED
    BY <2>1 DEF Closed
<1>. QED
  BY <1>1, <1>2

\* From a member of S a step leads into S or T.
Fenced(t, S, T) == \A d \in S, n \in Names : t[d][n] \in Dirs => t[d][n] \in S \cup T

LEMMA RemovalKeepsFenced ==
  ASSUME NEW t \in Trees, NEW d \in Dirs, NEW n \in Names,
         NEW S \in SUBSET Dirs, NEW T, Fenced(t, S, T)
  PROVE  Fenced([t EXCEPT ![d][n] = None], S, T)
<1>1. None \notin Dirs
  BY TreeAssumption DEF Nodes
<1>2. ASSUME NEW e \in S, NEW m \in Names
      PROVE  [t EXCEPT ![d][n] = None][e][m] \in {None, t[e][m]}
  BY DEF Trees
<1>. QED
  BY <1>1, <1>2 DEF Fenced

\* Who keeps to S must only heed what others put into a member that has left
\* the closed set I.
LEMMA InterferenceKeepsFenced ==
  ASSUME NEW S \in SUBSET Dirs, NEW T, NEW I \in SUBSET Dirs,
         Fenced(tree, S, T), Closed(tree', I)
  PROVE  Fenced(tree', S \cup I, T \cup (PutInto(S \ I) \ (S \cup I)))
<1>. SUFFICES ASSUME NEW d \in S \cup I, NEW n \in Names, tree'[d][n] \in Dirs,
                     tree'[d][n] \notin S \cup I
              PROVE  tree'[d][n] \in T \cup PutInto(S \ I)
  BY DEF Fenced
<1>1. d \in S \ I
  BY DEF Closed
<1>2. CASE tree'[d][n] = tree[d][n]
  BY <1>1, <1>2 DEF Fenced
<1>3. CASE tree'[d][n] # tree[d][n]
  BY <1>1, <1>3 DEF PutInto
<1>. QED
  BY <1>2, <1>3

\* Other processes keep the tree a tree of inodes.
LEMMA ApplicationsKeepFSType ==
  ASSUME FSTypeOK, Applications
  PROVE  FSTypeOK'
<1>. USE TreeAssumption DEF FSTypeOK
<1>1. ASSUME NEW d \in Dirs, NEW n \in Names, NEW x \in Spare, CreateEntry(d, n, x)
      PROVE  FSTypeOK'
  BY <1>1 DEF CreateEntry, Change, Trees
<1>2. ASSUME NEW d \in Dirs, NEW n \in Names, DeleteEntry(d, n)
      PROVE  FSTypeOK'
  BY <1>2 DEF DeleteEntry, Change, Trees
<1>3. ASSUME NEW d \in Dirs, NEW e \in Dirs, NEW n \in Names, NEW m \in Names,
             RenameEntry(d, n, e, m)
      PROVE  FSTypeOK'
  <2>1. tree[d][n] \in Nodes
    BY <1>3 DEF RenameEntry, Trees
  <2>2. tree' \in Trees
    BY <1>3, <2>1 DEF RenameEntry, Trees
  <2>. QED
    BY <1>3, <2>1, <2>2 DEF RenameEntry, Change
<1>. QED
  BY <1>1, <1>2, <1>3 DEF Applications

\* What has not been created yet has no entry.
Unborn == \A x \in fresh : ~Alive(tree, x)

\* Taking a file, a link or an empty directory out of the tree leaves a tree.
LEMMA DeletionKeepsForest ==
  ASSUME FSTypeOK, Forest(tree), Unborn, NEW d \in Dirs, NEW n \in Names,
         tree[d][n] \in Dirs => Entries(tree, tree[d][n]) = {},
         tree' = [tree EXCEPT ![d][n] = None], UNCHANGED fresh
  PROVE  Forest(tree') /\ Unborn'
<1>. USE TreeAssumption
<1>. DEFINE Same(g, k, e, m) == g = e /\ k = m
<1>2. /\ tree'[d][n] = None
      /\ \A e \in Dirs, m \in Names : ~Same(e, m, d, n) => tree'[e][m] = tree[e][m]
  BY DEF FSTypeOK, Trees
<1>3. \A y \in Nodes : Linked(tree', y) => Linked(tree, y)
  BY <1>2 DEF Linked
<1>4. \A e, g \in Dirs, m, k \in Names :
        tree'[e][m] \in Dirs /\ tree'[g][k] = tree'[e][m] => e = g /\ m = k
  BY <1>2 DEF Forest, Nodes
<1>5. ASSUME NEW e \in Dirs, ~Alive(tree', e) PROVE Entries(tree', e) = {}
  <2>1. Entries(tree', e) \subseteq Entries(tree, e)
    BY <1>2 DEF Entries
  <2>2. CASE ~Alive(tree, e)
    BY <2>1, <2>2 DEF Forest
  <2>3. CASE Alive(tree, e)
    <3>1. Linked(tree, e) /\ ~Linked(tree', e)
      BY <1>5, <2>3 DEF Alive
    <3>2. tree[d][n] = e
      BY <1>2, <3>1 DEF Linked
    <3>. QED
      BY <2>1, <3>2
  <2>. QED
    BY <2>2, <2>3
<1>6. ~Linked(tree', Root)
  BY <1>3 DEF Forest, Nodes
<1>7. Unborn'
  BY <1>3 DEF Unborn, Alive, FSTypeOK
<1>. QED
  BY <1>4, <1>5, <1>6, <1>7 DEF Forest

\* Whatever other processes do, the tree remains a tree.
LEMMA ForestKept ==
  ASSUME FSTypeOK, Forest(tree), Unborn, Applications
  PROVE  FSTypeOK' /\ Forest(tree') /\ Unborn'
<1>. USE TreeAssumption
<1>. DEFINE Same(d, n, e, m) == d = e /\ n = m
<1>1. ASSUME NEW d \in Dirs, NEW n \in Names, NEW x \in Spare, CreateEntry(d, n, x)
      PROVE  FSTypeOK' /\ Forest(tree') /\ Unborn'
  <2>1. FSTypeOK'
    BY <1>1 DEF FSTypeOK, CreateEntry, Change, Trees
  <2>2. /\ tree[d][n] = None /\ x \in Nodes /\ x # None /\ ~Alive(tree, x)
        /\ Alive(tree, d)
    BY <1>1 DEF CreateEntry, Unborn
  <2>3. /\ tree'[d][n] = x
        /\ \A e \in Dirs, m \in Names : ~Same(e, m, d, n) => tree'[e][m] = tree[e][m]
    BY <1>1 DEF CreateEntry, FSTypeOK, Trees
  <2>4. \A y \in Nodes : Linked(tree', y) => Linked(tree, y) \/ y = x
    BY <2>3 DEF Linked
  <2>5. \A y \in Nodes : Linked(tree, y) => Linked(tree', y)
    BY <2>2, <2>3 DEF Linked
  <2>6. ASSUME NEW e \in Dirs, NEW g \in Dirs, NEW m \in Names, NEW k \in Names,
               tree'[e][m] \in Dirs, tree'[g][k] = tree'[e][m]
        PROVE  e = g /\ m = k
    BY <2>2, <2>3, <2>6 DEF Forest, Alive, Linked
  <2>7. ~Linked(tree', Root)
    BY <2>2, <2>4 DEF Forest, Alive, Nodes
  <2>8. ASSUME NEW e \in Dirs, ~Alive(tree', e) PROVE Entries(tree', e) = {}
    <3>1. ~Alive(tree, e) /\ e # d
      BY <2>2, <2>5, <2>8 DEF Alive, Nodes
    <3>. QED
      BY <2>3, <3>1 DEF Forest, Entries
  <2>9. Unborn'
    <3>. SUFFICES ASSUME NEW y \in fresh' PROVE ~Alive(tree', y)
      BY DEF Unborn
    <3>1. y \in fresh /\ y # x /\ y \in Nodes
      BY <1>1 DEF CreateEntry, FSTypeOK
    <3>. QED
      BY <2>4, <3>1 DEF Unborn, Alive
  <2>. QED
    BY <2>1, <2>6, <2>7, <2>8, <2>9 DEF Forest
<1>2. ASSUME NEW d \in Dirs, NEW n \in Names, DeleteEntry(d, n)
      PROVE  FSTypeOK' /\ Forest(tree') /\ Unborn'
  <2>1. FSTypeOK'
    BY <1>2 DEF FSTypeOK, DeleteEntry, Change, Trees
  <2>. QED
    BY <1>2, <2>1, DeletionKeepsForest DEF DeleteEntry
<1>3. ASSUME NEW d \in Dirs, NEW e \in Dirs, NEW n \in Names, NEW m \in Names,
             RenameEntry(d, n, e, m)
      PROVE  FSTypeOK' /\ Forest(tree') /\ Unborn'
  <2>. DEFINE x == tree[d][n]
  <2>1. x \in Nodes /\ x # None /\ tree[e][m] = None /\ Alive(tree, e)
    BY <1>3 DEF RenameEntry, FSTypeOK, Trees
  <2>2. tree' \in Trees
    BY <1>3, <2>1 DEF RenameEntry, FSTypeOK, Trees
  <2>3. /\ tree'[d][n] = None /\ tree'[e][m] = x /\ ~Same(d, n, e, m)
        /\ \A g \in Dirs, k \in Names :
             ~Same(g, k, d, n) /\ ~Same(g, k, e, m) => tree'[g][k] = tree[g][k]
    BY <1>3, <2>1 DEF RenameEntry, FSTypeOK, Trees
  <2>4. FSTypeOK'
    BY <1>3, <2>1, <2>2 DEF RenameEntry, Change, FSTypeOK
  <2>. HIDE DEF x
  <2>5. x = tree[d][n]
    BY DEF x
  <2>6. \A y \in Nodes : Linked(tree', y) => Linked(tree, y)
    BY <2>3, <2>5 DEF Linked
  <2>7. \A y \in Nodes : Linked(tree, y) => Linked(tree', y)
    BY <2>1, <2>3, <2>5 DEF Linked
  <2>8. ASSUME NEW g \in Dirs, NEW h \in Dirs, NEW j \in Names, NEW k \in Names,
               tree'[g][j] \in Dirs, tree'[h][k] = tree'[g][j]
        PROVE  g = h /\ j = k
    <3>1. CASE Same(g, j, e, m) \/ Same(h, k, e, m)
      BY <2>1, <2>3, <2>5, <2>8, <3>1 DEF Forest, Nodes
    <3>2. CASE ~Same(g, j, e, m) /\ ~Same(h, k, e, m)
      BY <2>3, <2>8, <3>2 DEF Forest, Nodes
    <3>. QED
      BY <3>1, <3>2
  <2>9. ASSUME NEW g \in Dirs, ~Alive(tree', g) PROVE Entries(tree', g) = {}
    <3>1. ~Alive(tree, g) /\ g # e
      BY <2>1, <2>7, <2>9 DEF Alive, Nodes
    <3>. QED
      BY <2>3, <3>1 DEF Forest, Entries
  <2>10. ~Linked(tree', Root)
    BY <2>6 DEF Forest, Nodes
  <2>11. Unborn'
    BY <1>3, <2>6 DEF Unborn, Alive, RenameEntry, FSTypeOK
  <2>. QED
    BY <2>4, <2>8, <2>9, <2>10, <2>11 DEF Forest
<1>. QED
  BY <1>1, <1>2, <1>3 DEF Applications

-----------------------------------------------------------------------------
(***************************************************************************)
(* Paths in a tree that hangs together at the root: no directory is below  *)
(* itself, and two paths that meet in a directory are one.                 *)
(***************************************************************************)
\* The inode after the first k names of a path.
At(t, d, path, k) == Resolve(t, d, SubSeq(path, 1, k))

LEMMA Along ==
  ASSUME NEW t \in Trees, NEW d \in Dirs, NEW path \in Seq(Names)
  PROVE  /\ Len(path) \in Nat
         /\ At(t, d, path, 0) = d /\ At(t, d, path, Len(path)) = Resolve(t, d, path)
         /\ \A k \in 1..Len(path) :
              /\ path[k] \in Names
              /\ At(t, d, path, k) = Onward(t, At(t, d, path, k - 1), path[k])
<1>1. SubSeq(path, 1, 0) = <<>> /\ SubSeq(path, 1, Len(path)) = path /\ Len(path) \in Nat
  OBVIOUS
<1>2. ASSUME NEW k \in 1..Len(path)
      PROVE  /\ path[k] \in Names
             /\ At(t, d, path, k) = Onward(t, At(t, d, path, k - 1), path[k])
  <2>1. /\ SubSeq(path, 1, k - 1) \in Seq(Names) /\ path[k] \in Names
        /\ SubSeq(path, 1, k) = Append(SubSeq(path, 1, k - 1), path[k])
    BY PrefixExtends
  <2>2. \A q \in Seq(Names), n \in Names :
          Resolve(t, d, Append(q, n)) = Onward(t, Resolve(t, d, q), n)
    BY ResolveAppend
  <2>. QED
    BY <2>1, <2>2, Zenon DEF At
<1>. QED
  BY <1>1, <1>2, ResolveEmpty DEF At

\* A path to a directory leads through directories.
LEMMA AlongDirs ==
  ASSUME NEW t \in Trees, NEW d \in Dirs, NEW path \in Seq(Names),
         Resolve(t, d, path) \in Dirs
  PROVE  /\ \A k \in 0..Len(path) : At(t, d, path, k) \in Dirs
         /\ \A k \in 1..Len(path) : At(t, d, path, k) = t[At(t, d, path, k - 1)][path[k]]
<1>. DEFINE A(k) == At(t, d, path, k)
            T == {j \in Nat : j <= Len(path) /\ A(Len(path) - j) \notin Dirs}
<1>0. /\ Len(path) \in Nat /\ A(Len(path)) \in Dirs
      /\ \A k \in 1..Len(path) : A(k) = Onward(t, A(k - 1), path[k])
  BY Along
<1>. HIDE DEF A
<1>1. T = {}
  <2>. SUFFICES ASSUME T # {} PROVE FALSE
    OBVIOUS
  <2>1. PICK j \in T : \A i \in T : j <= i
    BY LeastNumber
  <2>. DEFINE k == Len(path) - j
  <2>2. j # 0 /\ j \in Nat /\ j <= Len(path) /\ A(k) \notin Dirs
    BY <1>0, <2>1
  <2>3. j - 1 \in Nat /\ j - 1 \notin T
    BY <2>1, <2>2
  <2>4. k + 1 \in 1..Len(path) /\ (k + 1) - 1 = k /\ Len(path) - (j - 1) = k + 1
    BY <1>0, <2>2
  <2>5. A(k + 1) \in Dirs
    BY <1>0, <2>2, <2>3, <2>4
  <2>. HIDE DEF T, k
  <2>6. A(k + 1) = None
    BY <1>0, <2>2, <2>4 DEF Onward
  <2>. QED
    BY <2>5, <2>6, TreeAssumption DEF Nodes
<1>2. ASSUME NEW k \in 0..Len(path) PROVE A(k) \in Dirs
  <2>1. Len(path) - k \in Nat /\ Len(path) - (Len(path) - k) = k /\ Len(path) - k <= Len(path)
    BY <1>0
  <2>. QED
    BY <1>1, <2>1
<1>3. ASSUME NEW k \in 1..Len(path) PROVE A(k) = t[A(k - 1)][path[k]]
  <2>1. k - 1 \in 0..Len(path)
    BY <1>0
  <2>. QED
    BY <1>0, <1>2, <2>1 DEF Onward
<1>. QED
  BY <1>2, <1>3 DEF A

\* What is below x is x or has its entry in a directory below x.
LEMMA BelowHasParent ==
  ASSUME NEW t \in Trees, NEW x \in Dirs, NEW y \in Below(t, {x}), y # x
  PROVE  \E z \in Below(t, {x}), n \in Names : t[z][n] = y
<1>. SUFFICES ASSUME \A z \in Below(t, {x}), n \in Names : t[z][n] # y PROVE FALSE
  OBVIOUS
<1>. DEFINE C == Below(t, {x}) \ {y}
<1>1. {x} \subseteq Below(t, {x}) /\ Below(t, {x}) \subseteq Dirs /\ Closed(t, Below(t, {x}))
  BY BelowIsClosed
<1>2. C \in SUBSET Dirs /\ {x} \subseteq C /\ Closed(t, C)
  BY <1>1 DEF Closed
<1>3. y \in C
  <2>. HIDE DEF C
  <2>. QED
    BY <1>2 DEF Below
<1>. QED
  BY <1>3

\* Below is transitive.
LEMMA BelowBelow ==
  ASSUME NEW t, NEW x \in Dirs, NEW y \in Below(t, {x})
  PROVE  Below(t, {y}) \subseteq Below(t, {x})
<1>1. Below(t, {x}) \in SUBSET Dirs /\ Closed(t, Below(t, {x}))
  BY BelowIsClosed
<1>. QED
  BY <1>1 DEF Below

\* The directory that holds an entry is not below that entry.
LEMMA NoCycle ==
  ASSUME NEW t \in Trees, Forest(t), Rooted(t),
         NEW x \in Dirs, NEW n \in Names, t[x][n] \in Dirs
  PROVE  x \notin Below(t, {t[x][n]})
<1>. DEFINE y == t[x][n]
            C == Dirs \ Below(t, {y})
<1>. SUFFICES ASSUME x \in Below(t, {y}) PROVE FALSE
  OBVIOUS
<1>0. y \in Dirs /\ y = t[x][n] /\ Linked(t, y) /\ y # Root
  BY DEF Forest, Linked
<1>. HIDE DEF y
<1>1. {y} \subseteq Below(t, {y}) /\ Below(t, {y}) \subseteq Dirs
  BY <1>0, BelowIsClosed
<1>2. ASSUME NEW z \in Below(t, {y})
      PROVE  \E w \in Below(t, {y}), k \in Names : t[w][k] = z
  BY <1>0, <1>2, BelowHasParent
<1>3. Root \in C
  BY <1>1, <1>2, TreeAssumption DEF Forest, Linked
<1>4. Closed(t, C)
  <2>. SUFFICES ASSUME NEW d \in C, NEW k \in Names, t[d][k] \in Below(t, {y}) PROVE FALSE
    BY DEF Closed
  <2>1. PICK w \in Below(t, {y}), j \in Names : t[w][j] = t[d][k]
    BY <1>2
  <2>2. d \in Dirs /\ w \in Dirs /\ t[d][k] \in Dirs /\ d # w
    BY <1>1
  <2>. QED
    BY <2>1, <2>2 DEF Forest
<1>5. y \in Below(t, {Root})
  BY <1>0 DEF Rooted, Alive
<1>6. y \in C
  <2>. HIDE DEF C
  <2>1. C \in SUBSET Dirs /\ {Root} \subseteq C
    BY <1>3 DEF C
  <2>. QED
    BY <1>4, <1>5, <2>1 DEF Below
<1>. QED
  BY <1>1, <1>6

\* Nor is the start of a path of at least one name below its end.
LEMMA NoWayBack ==
  ASSUME NEW t \in Trees, Forest(t), Rooted(t), NEW d \in Dirs, NEW path \in Seq(Names),
         path # <<>>, Resolve(t, d, path) \in Dirs
  PROVE  d \notin Below(t, {Resolve(t, d, path)})
<1>. DEFINE A(k) == At(t, d, path, k)
<1>0. /\ Len(path) \in Nat /\ Len(path) >= 1 /\ A(0) = d /\ A(Len(path)) = Resolve(t, d, path)
      /\ \A k \in 0..Len(path) : A(k) \in Dirs
      /\ \A k \in 1..Len(path) : path[k] \in Names /\ A(k) = t[A(k - 1)][path[k]]
  BY Along, AlongDirs
<1>. HIDE DEF A
<1>1. A(1) \in Dirs /\ A(1) = t[d][path[1]] /\ path[1] \in Names
  <2>1. 1 \in 1..Len(path) /\ 1 \in 0..Len(path) /\ 1 - 1 = 0
    BY <1>0
  <2>. QED
    BY <1>0, <2>1
<1>2. d \notin Below(t, {A(1)})
  BY <1>1, NoCycle
<1>3. Below(t, {A(1)}) \subseteq Dirs /\ A(1) \in Below(t, {A(1)})
      /\ Closed(t, Below(t, {A(1)}))
  BY <1>1, BelowIsClosed
<1>. DEFINE T == {k \in Nat : k \in 1..Len(path) /\ A(k) \notin Below(t, {A(1)})}
<1>4. T = {}
  <2>. SUFFICES ASSUME T # {} PROVE FALSE
    OBVIOUS
  <2>1. PICK k \in T : \A j \in T : k <= j
    BY LeastNumber
  <2>2. k \in 1..Len(path) /\ k # 1 /\ A(k) \notin Below(t, {A(1)})
    BY <1>3, <2>1
  <2>3. k - 1 \in Nat /\ k - 1 \in 1..Len(path) /\ k \in 0..Len(path) /\ ~(k <= k - 1)
    BY <1>0, <2>2
  <2>4. A(k - 1) \in Below(t, {A(1)})
    BY <2>1, <2>3
  <2>. HIDE DEF T
  <2>5. A(k) \in Dirs /\ A(k) = t[A(k - 1)][path[k]] /\ path[k] \in Names
    BY <1>0, <2>2, <2>3
  <2>. QED
    BY <1>3, <2>2, <2>4, <2>5 DEF Closed
<1>5. A(Len(path)) \in Below(t, {A(1)})
  <2>1. Len(path) \in Nat /\ Len(path) \in 1..Len(path)
    BY <1>0
  <2>. QED
    BY <1>4, <2>1
<1>6. Below(t, {A(Len(path))}) \subseteq Below(t, {A(1)})
  BY <1>1, <1>5, BelowBelow
<1>. QED
  BY <1>0, <1>2, <1>6

\* Two paths that pass through the same directory came the same way.
LEMMA MeetingPaths ==
  ASSUME NEW t \in Trees, Forest(t), Rooted(t), NEW d \in Dirs,
         NEW p \in Seq(Names), NEW q \in Seq(Names),
         Resolve(t, d, p) \in Dirs, Resolve(t, d, q) \in Dirs,
         NEW a \in 0..Len(p), NEW b \in 0..Len(q), At(t, d, p, a) = At(t, d, q, b)
  PROVE  a = b /\ \A k \in 1..a : p[k] = q[k]
<1>. DEFINE A(k) == At(t, d, p, k)
            B(k) == At(t, d, q, k)
<1>0. /\ Len(p) \in Nat /\ Len(q) \in Nat /\ A(0) = d /\ B(0) = d
      /\ A(a) = B(b) /\ a \in Nat /\ b \in Nat
      /\ \A k \in 0..Len(p) : A(k) \in Dirs
      /\ \A k \in 0..Len(q) : B(k) \in Dirs
      /\ \A k \in 1..Len(p) : p[k] \in Names /\ A(k) = t[A(k - 1)][p[k]]
      /\ \A k \in 1..Len(q) : q[k] \in Names /\ B(k) = t[B(k - 1)][q[k]]
  BY Along, AlongDirs
<1>1. ASSUME NEW w \in Seq(Names), Resolve(t, d, w) \in Dirs, NEW k \in 1..Len(w),
             At(t, d, w, k) = d
      PROVE  FALSE
  <2>1. SubSeq(w, 1, k) \in Seq(Names) /\ Len(SubSeq(w, 1, k)) = k
    OBVIOUS
  <2>2. SubSeq(w, 1, k) # <<>>
    BY <2>1
  <2>3. d \notin Below(t, {d})
    BY <1>1, <2>1, <2>2, NoWayBack DEF At
  <2>. QED
    BY <2>3, BelowIsClosed
<1>2. ASSUME NEW k \in 1..Len(p), NEW j \in 1..Len(q), A(k) = B(j)
      PROVE  A(k - 1) = B(j - 1) /\ p[k] = q[j]
  <2>1. k - 1 \in 0..Len(p) /\ j - 1 \in 0..Len(q) /\ k \in 0..Len(p)
    BY <1>0
  <2>2. /\ A(k - 1) \in Dirs /\ B(j - 1) \in Dirs /\ p[k] \in Names /\ q[j] \in Names
        /\ t[A(k - 1)][p[k]] \in Dirs /\ t[B(j - 1)][q[j]] = t[A(k - 1)][p[k]]
    BY <1>0, <1>2, <2>1
  <2>. HIDE DEF A, B
  <2>. QED
    BY <2>2 DEF Forest
<1>3. ASSUME NEW i \in Nat, i <= a, i <= b PROVE A(a - i) = B(b - i)
  <2>. DEFINE T == {j \in Nat : j <= a /\ j <= b /\ A(a - j) # B(b - j)}
  <2>. HIDE DEF A, B
  <2>1. SUFFICES ASSUME T # {} PROVE FALSE
    BY <1>3
  <2>2. PICK j \in T : \A h \in T : j <= h
    BY <2>1, LeastNumber
  <2>3. j \in Nat /\ j <= a /\ j <= b /\ A(a - j) # B(b - j) /\ j # 0
    BY <1>0, <2>2
  <2>4. j - 1 \in Nat /\ j - 1 <= a /\ j - 1 <= b /\ ~(j <= j - 1)
    BY <1>0, <2>3
  <2>5. A(a - (j - 1)) = B(b - (j - 1))
    BY <2>2, <2>4
  <2>. DEFINE g == a - (j - 1)
              h == b - (j - 1)
  <2>6. /\ g \in 1..Len(p) /\ h \in 1..Len(q)
        /\ g - 1 = a - j /\ h - 1 = b - j
    BY <1>0, <2>3
  <2>7. A(g) = B(h)
    BY <2>5
  <2>. HIDE DEF g, h, T
  <2>. QED
    BY <1>2, <2>3, <2>6, <2>7
<1>4. a = b
  <2>1. CASE a < b
    <3>1. a \in Nat /\ a <= a /\ a <= b /\ a - a = 0 /\ b - a \in 1..Len(q)
      BY <1>0, <2>1
    <3>2. B(b - a) = d
      BY <1>0, <1>3, <3>1
    <3>. QED
      BY <1>1, <3>1, <3>2
  <2>2. CASE b < a
    <3>1. b \in Nat /\ b <= a /\ b <= b /\ b - b = 0 /\ a - b \in 1..Len(p)
      BY <1>0, <2>2
    <3>2. A(a - b) = d
      BY <1>0, <1>3, <3>1
    <3>. QED
      BY <1>1, <3>1, <3>2
  <2>. QED
    BY <1>0, <2>1, <2>2
<1>5. ASSUME NEW k \in 1..a PROVE p[k] = q[k]
  <2>1. /\ a - k \in Nat /\ a - k <= a /\ a - k <= b /\ a - (a - k) = k /\ b - (a - k) = k
        /\ k \in 1..Len(p) /\ k \in 1..Len(q)
    BY <1>0, <1>4
  <2>2. A(k) = B(k)
    BY <1>3, <2>1
  <2>. QED
    BY <1>2, <2>1, <2>2
<1>. QED
  BY <1>4, <1>5

\* A path to a directory below the one that another path names continues it.
LEMMA PathBelow ==
  ASSUME NEW t \in Trees, Forest(t), Rooted(t), NEW d \in Dirs,
         NEW p \in Seq(Names), NEW q \in Seq(Names),
         Resolve(t, d, p) \in Dirs, Resolve(t, d, q) \in Dirs,
         Resolve(t, d, p) \in Below(t, {Resolve(t, d, q)})
  PROVE  Len(q) <= Len(p) /\ \A k \in 1..Len(q) : p[k] = q[k]
<1>. DEFINE A(k) == At(t, d, p, k)
            x == Resolve(t, d, q)
            T == {k \in Nat : k <= Len(p) /\ A(k) \in Below(t, {x})}
<1>0. /\ Len(p) \in Nat /\ Len(q) \in Nat /\ A(0) = d /\ A(Len(p)) = Resolve(t, d, p)
      /\ At(t, d, q, Len(q)) = x /\ x \in Dirs
      /\ \A k \in 0..Len(p) : A(k) \in Dirs
      /\ \A k \in 1..Len(p) : p[k] \in Names /\ A(k) = t[A(k - 1)][p[k]]
  BY Along, AlongDirs
<1>. HIDE DEF A, x
<1>1. A(Len(p)) \in Below(t, {x})
  BY <1>0 DEF x
<1>2. PICK k \in T : \A j \in T : k <= j
  <2>1. Len(p) \in T
    BY <1>0, <1>1
  <2>2. T # {} /\ T \in SUBSET Nat
    BY <2>1
  <2>. HIDE DEF T
  <2>. QED
    BY <2>2, LeastNumber
<1>3. k \in 0..Len(p) /\ A(k) \in Below(t, {x})
  BY <1>0, <1>2
<1>4. CASE k = 0
  <2>1. d \in Below(t, {Resolve(t, d, q)})
    BY <1>0, <1>3, <1>4 DEF x
  <2>2. q = <<>>
    BY <2>1, NoWayBack
  <2>. QED
    BY <1>0, <2>2
<1>5. CASE k # 0
  <2>1. /\ k \in 1..Len(p) /\ k - 1 \in Nat /\ k - 1 <= Len(p) /\ ~(k <= k - 1)
        /\ k - 1 \in 0..Len(p)
    BY <1>0, <1>3, <1>5
  <2>2. A(k - 1) \notin Below(t, {x})
    BY <1>2, <2>1
  <2>3. A(k) = x
    <3>. SUFFICES ASSUME A(k) # x PROVE FALSE
      OBVIOUS
    <3>1. PICK z \in Below(t, {x}), n \in Names : t[z][n] = A(k)
      BY <1>0, <1>3, BelowHasParent
    <3>2. Below(t, {x}) \subseteq Dirs
      BY <1>0, BelowIsClosed
    <3>3. /\ z \in Dirs /\ A(k - 1) \in Dirs /\ p[k] \in Names
          /\ t[z][n] = t[A(k - 1)][p[k]] /\ t[z][n] \in Dirs
      BY <1>0, <1>3, <2>1, <3>1, <3>2
    <3>4. z = A(k - 1)
      BY <3>1, <3>3 DEF Forest
    <3>. QED
      BY <2>2, <3>1, <3>4
  <2>4. Len(q) \in 0..Len(q) /\ At(t, d, p, k) = At(t, d, q, Len(q))
    BY <1>0, <2>3 DEF A
  <2>5. k = Len(q) /\ \A j \in 1..k : p[j] = q[j]
    BY <1>3, <2>4, MeetingPaths
  <2>. QED
    BY <2>1, <2>5
<1>. QED
  BY <1>4, <1>5

\* One directory has one path.
LEMMA OnePath ==
  ASSUME NEW t \in Trees, Forest(t), Rooted(t), NEW d \in Dirs,
         NEW p \in Seq(Names), NEW q \in Seq(Names),
         Resolve(t, d, p) \in Dirs, Resolve(t, d, q) = Resolve(t, d, p)
  PROVE  p = q
<1>1. /\ Len(p) \in 0..Len(p) /\ Len(q) \in 0..Len(q)
      /\ At(t, d, p, Len(p)) = At(t, d, q, Len(q))
  BY Along
<1>2. Len(p) = Len(q) /\ \A k \in 1..Len(p) : p[k] = q[k]
  BY <1>1, MeetingPaths
<1>. QED
  BY <1>2

\* What is left of a tree is found where it was.
LEMMA ResolveInLarger ==
  ASSUME NEW t \in Trees, NEW u \in Trees,
         \A e \in Dirs, n \in Names : t[e][n] \in {None, u[e][n]},
         NEW d \in Dirs, NEW path \in Seq(Names), Resolve(t, d, path) \in Dirs
  PROVE  Resolve(u, d, path) = Resolve(t, d, path)
<1>. DEFINE A(k) == At(t, d, path, k)
            B(k) == At(u, d, path, k)
            T == {k \in Nat : k <= Len(path) /\ A(k) # B(k)}
<1>0. /\ Len(path) \in Nat /\ A(0) = d /\ B(0) = d
      /\ A(Len(path)) = Resolve(t, d, path) /\ B(Len(path)) = Resolve(u, d, path)
      /\ \A k \in 0..Len(path) : A(k) \in Dirs
      /\ \A k \in 1..Len(path) : /\ path[k] \in Names /\ A(k) = t[A(k - 1)][path[k]]
                                 /\ B(k) = Onward(u, B(k - 1), path[k])
  BY Along, AlongDirs
<1>. HIDE DEF A, B
<1>1. T = {}
  <2>. SUFFICES ASSUME T # {} PROVE FALSE
    OBVIOUS
  <2>1. PICK k \in T : \A j \in T : k <= j
    BY LeastNumber
  <2>2. k \in 1..Len(path) /\ A(k) # B(k)
    BY <1>0, <2>1
  <2>3. k - 1 \in Nat /\ k - 1 <= Len(path) /\ ~(k <= k - 1) /\ k - 1 \in 0..Len(path)
        /\ k \in 0..Len(path)
    BY <1>0, <2>2
  <2>4. A(k - 1) = B(k - 1)
    BY <2>1, <2>3
  <2>. HIDE DEF T
  <2>5. A(k) \in Dirs /\ A(k) = t[A(k - 1)][path[k]] /\ A(k - 1) \in Dirs /\ path[k] \in Names
    BY <1>0, <2>2, <2>3
  <2>6. A(k) = u[A(k - 1)][path[k]]
    BY <2>5, TreeAssumption DEF Nodes
  <2>7. B(k) = u[B(k - 1)][path[k]]
    BY <1>0, <2>2, <2>4, <2>5 DEF Onward
  <2>. QED
    BY <2>2, <2>4, <2>6, <2>7
<1>. QED
  BY <1>0, <1>1

-----------------------------------------------------------------------------
(* The tree goes on hanging together at the root. *)

LEMMA DeletionKeepsRooted ==
  ASSUME NEW t \in Trees, Forest(t), Rooted(t), NEW d \in Dirs, NEW n \in Names,
         t[d][n] \in Dirs => Entries(t, t[d][n]) = {}
  PROVE  Rooted([t EXCEPT ![d][n] = None])
<1>. DEFINE u == [t EXCEPT ![d][n] = None]
<1>1. /\ u[d][n] = None
      /\ \A e \in Dirs, m \in Names : ~(e = d /\ m = n) => u[e][m] = t[e][m]
  BY DEF Trees
<1>. HIDE DEF u
<1>. SUFFICES ASSUME NEW x \in Dirs, Alive(u, x),
                     NEW C \in SUBSET Dirs, {Root} \subseteq C, Closed(u, C)
              PROVE  x \in C
  BY DEF Rooted, Below, u
<1>2. None \notin Dirs
  BY TreeAssumption DEF Nodes
<1>3. Alive(t, x)
  BY <1>1, <1>2 DEF Alive, Linked
<1>. DEFINE E == C \cup ({t[d][n]} \cap Dirs)
<1>4. E \in SUBSET Dirs /\ {Root} \subseteq E /\ Closed(t, E)
  <2>1. ASSUME NEW e \in E, NEW m \in Names, t[e][m] \in Dirs PROVE t[e][m] \in E
    <3>1. CASE e = d /\ m = n
      BY <2>1, <3>1
    <3>2. CASE ~(e = d /\ m = n) /\ e \in C
      BY <1>1, <2>1, <3>2 DEF Closed
    <3>3. CASE e \notin C
      <4>1. m \in Entries(t, e) /\ e = t[d][n] /\ e \in Dirs
        BY <1>2, <2>1, <3>3 DEF Entries
      <4>. QED
        BY <4>1
    <3>. QED
      BY <3>1, <3>2, <3>3
  <2>. QED
    BY <2>1 DEF Closed
<1>5. x \in E
  <2>. HIDE DEF E
  <2>. QED
    BY <1>3, <1>4 DEF Rooted, Below
<1>6. x # t[d][n]
  <2>. SUFFICES ASSUME x = t[d][n] PROVE FALSE
    OBVIOUS
  <2>1. x # Root
    BY DEF Forest, Linked
  <2>2. PICK e \in Dirs, m \in Names : u[e][m] = x
    BY <2>1 DEF Alive, Linked
  <2>3. ~(e = d /\ m = n) /\ t[e][m] = x
    BY <1>1, <1>2, <2>2
  <2>. QED
    BY <2>3 DEF Forest
<1>. QED
  BY <1>5, <1>6

LEMMA RootedKept ==
  ASSUME FSTypeOK, Forest(tree), Rooted(tree), Unborn, Applications
  PROVE  Rooted(tree')
<1>0. tree \in Trees /\ None \notin Dirs /\ None \notin Nodes
  BY TreeAssumption DEF FSTypeOK, Nodes
<1>1. ASSUME NEW d \in Dirs, NEW n \in Names, NEW x \in Spare, CreateEntry(d, n, x)
      PROVE  Rooted(tree')
  <2>1. /\ tree'[d][n] = x /\ tree[d][n] = None /\ Alive(tree, d)
        /\ \A e \in Dirs, m \in Names : ~(e = d /\ m = n) => tree'[e][m] = tree[e][m]
    BY <1>0, <1>1 DEF CreateEntry, Trees
  <2>. SUFFICES ASSUME NEW y \in Dirs, Alive(tree', y),
                       NEW C \in SUBSET Dirs, {Root} \subseteq C, Closed(tree', C)
                PROVE  y \in C
    BY DEF Rooted, Below
  <2>2. Closed(tree, C)
    BY <1>0, <2>1 DEF Closed
  <2>3. ASSUME NEW z \in Dirs, Alive(tree, z) PROVE z \in C
    BY <2>2, <2>3 DEF Rooted, Below
  <2>4. CASE y = x
    <3>1. d \in C
      BY <2>1, <2>3
    <3>. QED
      BY <2>1, <2>4, <3>1 DEF Closed
  <2>5. CASE y # x
    <3>1. Alive(tree, y)
      BY <2>1, <2>5 DEF Alive, Linked
    <3>. QED
      BY <2>3, <3>1
  <2>. QED
    BY <2>4, <2>5
<1>2. ASSUME NEW d \in Dirs, NEW n \in Names, DeleteEntry(d, n)
      PROVE  Rooted(tree')
  BY <1>0, <1>2, DeletionKeepsRooted DEF DeleteEntry
<1>3. ASSUME NEW d \in Dirs, NEW e \in Dirs, NEW n \in Names, NEW m \in Names,
             RenameEntry(d, n, e, m)
      PROVE  Rooted(tree')
  <2>. DEFINE x == tree[d][n]
              S == Below(tree, {x})
  <2>1. /\ x # None /\ tree[e][m] = None /\ Alive(tree, e)
        /\ x \in Dirs => e \notin S
    BY <1>3 DEF RenameEntry
  <2>2. /\ tree'[d][n] = None /\ tree'[e][m] = x
        /\ \A g \in Dirs, k \in Names :
             ~(g = d /\ k = n) /\ ~(g = e /\ k = m) => tree'[g][k] = tree[g][k]
    BY <1>0, <1>3 DEF RenameEntry, Trees
  <2>. SUFFICES ASSUME NEW y \in Dirs, Alive(tree', y),
                       NEW C \in SUBSET Dirs, {Root} \subseteq C, Closed(tree', C)
                PROVE  y \in C
    BY DEF Rooted, Below
  <2>3. Alive(tree, y)
    BY <1>0, <2>2 DEF Alive, Linked
  <2>4. CASE x \notin Dirs
    <3>1. Closed(tree, C)
      <4>. SUFFICES ASSUME NEW g \in C, NEW k \in Names, tree[g][k] \in Dirs
                    PROVE  tree[g][k] \in C
        BY DEF Closed
      <4>1. ~(g = d /\ k = n) /\ ~(g = e /\ k = m)
        BY <1>0, <2>1, <2>4
      <4>. QED
        BY <2>2, <4>1 DEF Closed
    <3>. QED
      BY <2>3, <3>1 DEF Rooted, Below
  <2>5. CASE x \in Dirs
    <3>1. S \subseteq Dirs /\ x \in S /\ Closed(tree, S)
      BY <2>5, BelowIsClosed
    <3>2. \A z \in S : z # x => \E w \in S, k \in Names : tree[w][k] = z
      BY <1>0, <2>5, BelowHasParent
    <3>. HIDE DEF S
    <3>3. Closed(tree, C \cup S)
      <4>. SUFFICES ASSUME NEW g \in C, NEW k \in Names, tree[g][k] \in Dirs
                    PROVE  tree[g][k] \in C \cup S
        BY <3>1 DEF Closed
      <4>1. CASE g = d /\ k = n
        BY <3>1, <4>1
      <4>2. CASE ~(g = d /\ k = n)
        <5>1. ~(g = e /\ k = m)
          BY <1>0, <2>1
        <5>. QED
          BY <2>2, <4>2, <5>1 DEF Closed
      <4>. QED
        BY <4>1, <4>2
    <3>4. C \cup S \in SUBSET Dirs /\ {Root} \subseteq C \cup S
      BY <3>1
    <3>5. ASSUME NEW z \in Dirs, Alive(tree, z) PROVE z \in C \cup S
      BY <3>3, <3>4, <3>5 DEF Rooted, Below
    <3>6. e \in C
      BY <2>1, <2>5, <3>5
    <3>7. x \in C
      BY <2>2, <2>5, <3>6 DEF Closed
    <3>8. S \subseteq C
      <4>. DEFINE E == C \cup (Dirs \ S)
      <4>1. Closed(tree, E)
        <5>. SUFFICES ASSUME NEW g \in E, NEW k \in Names, tree[g][k] \in Dirs,
                             tree[g][k] \in S, tree[g][k] # x
                      PROVE  tree[g][k] \in C
          BY <3>7 DEF Closed
        <5>1. PICK w \in S, j \in Names : tree[w][j] = tree[g][k]
          BY <3>2
        <5>2. w = g
          BY <3>1, <5>1 DEF Forest
        <5>3. g \in C /\ ~(g = d /\ k = n) /\ ~(g = e /\ k = m)
          BY <1>0, <2>1, <5>2
        <5>. QED
          BY <2>2, <5>3 DEF Closed
      <4>2. E \in SUBSET Dirs /\ {x} \subseteq E
        BY <3>7
      <4>3. S \subseteq E
        <5>. HIDE DEF E
        <5>. QED
          BY <4>1, <4>2 DEF S, Below
      <4>. QED
        BY <4>3
    <3>. QED
      BY <2>3, <3>5, <3>8
  <2>. QED
    BY <2>4, <2>5
<1>. QED
  BY <1>1, <1>2, <1>3 DEF Applications
=============================================================================
