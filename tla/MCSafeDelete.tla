---------------------------- MODULE MCSafeDelete ----------------------------
(***************************************************************************)
(* Small trees for model-checking SafeDelete.                              *)
(***************************************************************************)
EXTENDS SafeDelete

CONSTANTS
  R, B, D, E, K, O, X,   \* directories
  f, g, h,               \* files
  link,                  \* a symbolic link
  a, b, c                \* names

Dir(n1, n2, n3) == (a :> n1) @@ (b :> n2) @@ (c :> n3)

\* A boundary B with a nested directory, an excluded subtree K, and a link
\* that leads outside, to O.
RaceTree ==
  (R :> Dir(B, None, O)) @@ (B :> Dir(D, K, link)) @@
  (D :> Dir(f, None, None)) @@ (K :> Dir(g, None, None)) @@
  (O :> Dir(h, None, None))
RaceExclusions == {<<b>>, <<a, b>>}

\* Three levels of directories below B, for the depth limit and for failing
\* calls; X is a directory that another process may create.
DeepTree ==
  (R :> Dir(B, None, None)) @@ (B :> Dir(D, K, None)) @@
  (D :> Dir(E, f, None)) @@ (E :> Dir(O, None, None)) @@
  (K :> Dir(g, None, None)) @@ (O :> Dir(None, None, None)) @@
  (X :> Dir(None, None, None))

\* An excluded path inside a directory that is to be removed.
NestTree ==
  (R :> Dir(B, None, None)) @@ (B :> Dir(D, f, None)) @@
  (D :> Dir(K, E, None)) @@ (K :> Dir(g, None, None)) @@
  (E :> Dir(h, None, None))
DeepExclusions == {<<b>>}
NestedExclusions == {<<a, a>>}

LinkTarget == link :> O
NoTarget == <<>>

\* A program that lets nobody else touch the tree and whose calls all work
\* reports success: test safeDeleteDoesNotFollowLinks requires it of a
\* cleanup with an exclusion.
QuietCleanupSucceeds ==
  pc = "done" /\ changes = 0 /\ faults = 0 => result.success
=============================================================================
