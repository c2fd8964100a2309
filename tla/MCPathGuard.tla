----------------------------- MODULE MCPathGuard -----------------------------
(***************************************************************************)
(* A home directory H with a settings directory, a cache, a directory of   *)
(* another user and links to put in their place.                           *)
(***************************************************************************)
EXTENDS PathGuard

CONSTANTS
  R, H, S, C, A, F,     \* directories; F belongs to another user
  file, toS,            \* a file, and a link to S
  home, settings, cache, app,   \* names
  me, root              \* users

Bare == [d \in Dirs |-> [n \in Names |-> None]]
Set(t, d, n, x) == [t EXCEPT ![d][n] = x]

\* /home/settings, /home/cache/app, the link /home/cache/settings and the
\* foreign /home/app.
HomeTree ==
  LET below == Set(Set(Set(Set(Bare, R, home, H), H, settings, S), H, cache, C), H, app, F)
  IN  Set(Set(below, C, app, A), C, settings, toS)

MCHome == <<home>>
MCSettings == {<<settings>>}
MCApproved == {<<home, cache>>, <<home, cache, app>>, <<home, settings>>,
               <<home, cache, settings>>, <<home, app>>, <<app>>}
MCCandidates == MCApproved \cup {<<home>>, <<home, cache, cache>>}
MCTarget == toS :> S
MCOwner == [x \in Nodes |-> IF x = F THEN root ELSE me]
=============================================================================
