------------------------------- MODULE MCScanner -------------------------------
(***************************************************************************)
(* A small home for model-checking Scanner.                                *)
(***************************************************************************)
EXTENDS Scanner

CONSTANTS
  R, B, D, U, O,      \* directories
  f, g, h,            \* files
  link,               \* a symbolic link
  a, b, c             \* names

Dir(n1, n2, n3) == (a :> n1) @@ (b :> n2) @@ (c :> n3)

\* a is a cache with a subdirectory, an excluded file and a link that leads
\* out of it, back to the root; b is a cache with a subdirectory that may
\* not be read.
HomeTree ==
  (R :> Dir(B, U, None)) @@ (B :> Dir(D, g, link)) @@ (D :> Dir(f, None, None)) @@
  (U :> Dir(O, None, None)) @@ (O :> Dir(h, None, None))

HomeLink == link :> R

T(p, e) == [path |-> p, exclusions |-> e]

\* One category with both caches; one with a cache that does not exist and
\* one whose path leads through the link.
HomeRules ==
  << <<T(<<a>>, {<<a, b>>}), T(<<b>>, {})>>, <<T(<<c>>, {}), T(<<a, c, b>>, {})>>, <<>> >>

\* The first cache alone, and a directory outside it to which its link leads.
CacheTree ==
  (R :> Dir(B, U, None)) @@ (B :> Dir(D, g, link)) @@ (D :> Dir(f, None, None)) @@
  (U :> Dir(None, None, None))
CacheLink == link :> U
CacheRules == << <<T(<<a>>, {<<a, b>>})>> >>
=============================================================================
