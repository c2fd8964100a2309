---------------------------- MODULE MCHelperActions ----------------------------
(***************************************************************************)
(* Files a system may have, and three systems on which the helper works:   *)
(* one with dnf5, one with an older dnf, and one without paccache.         *)
(***************************************************************************)
EXTENDS HelperActions

MCPlaces == ("page" :> "dnf") @@ ("data" :> "libdnf5") @@ ("more" :> "libdnf5")
            @@ ("dump" :> "coredump")
MCManaged == ("dnf5" :> {"libdnf5"}) @@ ("dnf" :> {"dnf"}) @@ ("journalctl" :> {"journal"})
MCRequests == {<<"package-cache">>, <<"crash-dumps", "package-cache">>, <<"system-journal">>}

\* One of them prints what looks like a result.
MCMessages == {<<"done">>,
               <<"done", "\n", "VACUO_RESULT", "\t", "snap-cache", "\t", "0", "\t", "1", "\t",
                 "1", "\t">>}

Texts(chars, longest) == UNION {[1..n -> chars] : n \in 0..longest}
Values == Texts({"arch", "suse", " ", "\"", "'", "\\", "$"}, 2)
          \cup Texts({"fedora", "\\", "\""}, 3)

\* / and, in the home's way, a name with a blank or one that looks like the
\* kernel's number for it.
Odd == {<<"a", " ", "b">>, <<"\\", "0", "4", "0">>}
Root == <<"/">>
Homes(name) == {<<>>, Root \o name \o <<"/", "c">>, Root \o name \o <<"d">>}
Points(name) == {Root, Root \o name, Root \o name \o <<"/", "c">>, Root \o name \o <<"d">>}
Types == << <<"ext4">>, <<"btrfs">>, <<"tmpfs">> >>
Mounts(name) ==
  {[i \in DOMAIN points |-> [point |-> points[i], optional |-> i - 1, type |-> Types[i]]] :
     points \in Texts(Points(name), 3)}

Files == [id |-> <<"arch">>, idLike |-> <<>>, quote |-> "\"", mounts |-> <<>>, home |-> <<>>]
Empty == [e \in Entries |-> 0]

MCMachines ==
  {[files |-> [Files EXCEPT !.idLike = value, !.quote = quote],
    installed |-> {}, size |-> Empty] :
     <<value, quote>> \in {p \in Values \X {"\"", "'"} :
                             p[2] = "'" => \A i \in DOMAIN p[1] : p[1][i] # "'"}}
  \cup UNION {{[files |-> [Files EXCEPT !.mounts = mounts, !.home = home],
                installed |-> {}, size |-> Empty] :
                 mounts \in Mounts(name), home \in Homes(name)} : name \in Odd}
  \cup {[files |-> [Files EXCEPT !.id = <<"rocky">>, !.idLike = <<"rhel", " ", "fedora">>],
         installed |-> commands, size |-> [e \in Entries |-> 1]] :
          commands \in {{"dnf5", "dnf"}, {"dnf", "journalctl"}}}
=============================================================================
