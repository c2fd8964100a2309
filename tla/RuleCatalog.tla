------------------------------ MODULE RuleCatalog ------------------------------
(***************************************************************************)
(* Which directories each category of the user's own consists of           *)
(* (src/core/rule_catalog.cpp), where they lie                             *)
(* (SystemDetector::resolveXdgPath) and which of them may be cleared (the  *)
(* part of PathGuard that does not look at the disk).                      *)
(*                                                                         *)
(* An absolute path is the sequence of its components below /.  As in      *)
(* std::filesystem, a path that was written with a slash at its end keeps  *)
(* an empty last component, also when it is normalized.                    *)
(***************************************************************************)
EXTENDS SequencesExt

CONSTANTS
  \* the lists of the catalog, as relative paths
  Browsers,         \* below the cache
  CacheDevelopers,  \* below the cache
  HomeDevelopers,   \* below home
  DataGames,        \* below the data directory
  HomeGames,        \* below home
  Apps,             \* the applications in .var/app when the catalog is built
  SystemIds,        \* the categories that need the helper
  Names             \* the names of files

Paths == Seq(Names)

\* the last component of a path with a slash at its end
Empty == ""

ASSUME CatalogAssumption ==
  /\ {".cache", ".local", "share", ".var", "app", "cache", "thumbnails", "Trash", "files",
      "info"} \subseteq Names
  /\ {Browsers, CacheDevelopers, HomeDevelopers, DataGames, HomeGames} \subseteq Seq(Paths)
  /\ Apps \in Paths
  \* none of the lists names a directory with a slash at its end
  /\ \A list \in {Browsers, CacheDevelopers, HomeDevelopers, DataGames, HomeGames} :
       \A i \in DOMAIN list : list[i] # <<>> /\ Last(list[i]) # Empty

-----------------------------------------------------------------------------
(* std::filesystem::path *)

Bare(path) == IF path # <<>> /\ Last(path) = Empty THEN Front(path) ELSE path

\* operator/
Join(path, rest) == Bare(path) \o rest

\* isWithin: component by component, the empty one included.
IsWithin(parent, child) == IsPrefix(parent, child)

IsExcluded(path, exclusions) == \E x \in exclusions : IsWithin(x, path)

-----------------------------------------------------------------------------
(* SystemDetector *)

\* value is the variable's absolute path, or <<>> if it is unset or relative.
ResolveXdgPath(value, fallback, home) ==
  IF value = <<>> THEN Join(home, fallback) ELSE value

Detect(home, cacheEnv, dataEnv, root) ==
  [home |-> home, root |-> root,
   cacheHome |-> ResolveXdgPath(cacheEnv, <<".cache">>, home),
   dataHome |-> ResolveXdgPath(dataEnv, <<".local", "share">>, home)]

-----------------------------------------------------------------------------
(* RuleCatalog *)

Each(base, list) == [i \in DOMAIN list |-> Join(base, list[i])]

BrowserPaths(s) == Each(s.cacheHome, Browsers)
DeveloperPaths(s) == Each(s.cacheHome, CacheDevelopers) \o Each(s.home, HomeDevelopers)
GamingPaths(s) == Each(s.dataHome, DataGames) \o Each(s.home, HomeGames)

FlatpakPaths(s) == [i \in DOMAIN Apps |-> Join(s.home, <<".var", "app", Apps[i], "cache">>)]
Thumbnails(s) == Join(s.cacheHome, <<"thumbnails">>)

\* Faulty: no exclusion of the games below the cache.
ExclusionsWithoutGames(s) ==
  {Thumbnails(s)} \cup ToSet(BrowserPaths(s)) \cup ToSet(DeveloperPaths(s))

\* Faulty: no exclusion of the developer caches.
ExclusionsWithoutDevelopers(s) ==
  {Thumbnails(s)} \cup ToSet(BrowserPaths(s))
  \cup {p \in ToSet(GamingPaths(s)) : IsWithin(Bare(s.cacheHome), p)}

\* The code compares the games' paths with the cache's as texts; a path that
\* only shares the beginning of a name with it is excluded in vain.
GenericExclusions(s) ==
  {Thumbnails(s)} \cup ToSet(BrowserPaths(s)) \cup ToSet(DeveloperPaths(s))
  \cup {p \in ToSet(GamingPaths(s)) : IsWithin(Bare(s.cacheHome), p)}

UserIds == {"application-cache", "browser-cache", "developer-cache", "flatpak-cache",
            "gaming-cache", "thumbnails", "trash"}

\* The targets of a category, in their order.
Targets(s, id) ==
  CASE id = "application-cache" -> <<s.cacheHome>>
    [] id = "thumbnails" -> <<Thumbnails(s)>>
    [] id = "browser-cache" -> BrowserPaths(s)
    [] id = "developer-cache" -> DeveloperPaths(s)
    [] id = "flatpak-cache" -> FlatpakPaths(s)
    [] id = "gaming-cache" -> GamingPaths(s)
    [] id = "trash" ->
         <<Join(s.dataHome, <<"Trash", "files">>), Join(s.dataHome, <<"Trash", "info">>)>>

Exclusions(s, id) == IF id = "application-cache" THEN GenericExclusions(s) ELSE {}

\* What clearing one of the category's targets may remove.
IsContent(s, id, target, path) ==
  /\ IsStrictPrefix(Bare(target), path)
  /\ ~IsExcluded(path, Exclusions(s, id))

\* The content of the whole category.
InCategory(s, id, path) ==
  \E i \in DOMAIN Targets(s, id) : IsContent(s, id, Targets(s, id)[i], path)

-----------------------------------------------------------------------------
(* PathGuard, as far as it looks at paths only. *)

ApprovedRoots(s) == UNION {ToSet(Targets(s, id)) : id \in UserIds}

ProtectedPaths(home) ==
  {<<>>, home} \cup {Join(home, p) : p \in {<<".config">>, <<".local">>, <<".local", "share">>}}

LexicallyPermitted(s, path) ==
  /\ path \notin ProtectedPaths(s.home)
  /\ IsWithin(s.home, path)
  /\ path \in ApprovedRoots(s)
=============================================================================
