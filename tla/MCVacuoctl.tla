------------------------------ MODULE MCVacuoctl ------------------------------
(***************************************************************************)
(* A home directory with one or two entries of each category, met under    *)
(* different values of the XDG variables, and a Steam installation behind  *)
(* its usual link.                                                         *)
(***************************************************************************)
EXTENDS Vacuoctl

CONSTANTS window, vacuoctl

Home == <<"home">>
Cache == <<"home", ".cache">>
Config == <<"home", ".config">>
Alt == <<"home", "alt">>
Data == <<"home", ".local", "share">>
CacheData == <<"home", ".cache", "data">>

MCBrowsers == << <<"mozilla", "firefox">> >>
MCCacheDevelopers == << <<"pip">> >>
MCHomeDevelopers == << <<".npm">> >>
MCDataGames == << <<"Steam", "shaders">> >>
MCHomeGames == << <<".steam", "steam", "shaders">> >>
MCApps == <<"app">>
MCNames == STRING
MCSystemIds == {"system-journal"}
Sorted == <<"application-cache", "browser-cache", "developer-cache", "flatpak-cache",
            "gaming-cache", "system-journal", "thumbnails", "trash">>
MCRank == [id \in ToSet(Sorted) |-> CHOOSE i \in DOMAIN Sorted : Sorted[i] = id]
MCLinks == (<<"home", ".steam", "steam">> :> <<"home", ".local", "share", "Steam">>)

\* The entries on the way to a path, the root and itself included.
Way(path) == {SubSeq(path, 1, i) : i \in 0..Len(path)}
Tree(paths) == UNION {Way(p) : p \in paths}

Small(cacheEnv) ==
  [home |-> Home, cacheEnv |-> cacheEnv, dataEnv |-> <<>>, root |-> FALSE,
   entries |-> Tree({Cache \o <<"other">>, Cache \o <<"thumbnails", "image">>,
                     Config \o <<"settings">>, Data \o <<"Trash", "info">>})]

Plain ==
  [Small(<<>>) EXCEPT !.entries =
     Tree({Cache \o <<"other">>, Cache \o <<"pip", "wheel">>, Data \o <<"Trash", "files", "old">>})]

MCSituations ==
  { Plain,
    \* a variable that ends with a slash, also for a protected directory
    Small(<<"home", ".cache", "">>), Small(Config \o <<"">>),
    [Plain EXCEPT !.root = TRUE],
    \* nested exclusion, and a category that lies elsewhere
    [Plain EXCEPT !.entries =
       Tree({Cache \o <<"mozilla", "firefox", "page">>,
             <<"home", ".var", "app", "app", "cache", "file">>})],
    \* a Steam installation, and a category that lies elsewhere
    [Plain EXCEPT !.entries =
       Tree({Data \o <<"Steam", "shaders", "shader">>, <<"home", ".npm", "package">>})],
    \* the data directory below the cache directory
    [Plain EXCEPT !.dataEnv = CacheData, !.entries =
       Tree({CacheData \o <<"Steam", "shaders", "shader">>,
             CacheData \o <<"Trash", "files", "old">>})],
    \* a target that is a file, one of another user, and a deep directory
    [Plain EXCEPT !.cacheEnv = Alt, !.entries =
       Tree({Alt \o <<"thumbnails">>, Alt \o <<"pip", "wheel">>,
             Alt \o <<"other", "a", "b", "deep", "leaf">>})] }

\* The window asks for rules of its table only.
MCRequests ==
  { {},
    {"application-cache", "flatpak-cache"},
    {"browser-cache", "developer-cache", "thumbnails"},
    {"gaming-cache", "system-journal", "trash"} }

MCArguments ==
  { <<"clean", "--category", "flatpak-cache", "--yes", "--category", "application-cache">>,
    <<"clean", "--category", "system-journal", "--category", "trash", "--json",
      "--category", "gaming-cache", "--category", "trash", "--yes">>,
    <<"clean", "--yes", "--category", "thumbnails", "--category", "browser-cache",
      "--category", "developer-cache">>,
    \* nothing is cleaned
    <<>>, <<"scan", "--yes">>, <<"clean", "--category", "trash", "--yes", "--help">>,
    <<"clean", "--category", "trash">>, <<"clean", "trash", "--yes">>,
    <<"clean", "--yes", "--category">>, <<"--yes", "clean", "--category", "trash">>,
    <<"clean", "--category", "--yes", "--category", "trash">>,
    <<"clean", "--category", "application-cache", "--category", "flatpak-cache",
      "--category", "unknown", "--yes">> }

MCArrivals == {Cache \o <<"pip", "new">>}

\* What holds nothing in any situation is a file.
MCFiles ==
  LET all == MCArrivals \cup UNION {s.entries : s \in MCSituations}
  IN  {e \in all : ~\E d \in all : IsStrictPrefix(e, d)}
MCForeign == {Alt \o <<"pip">>}
=============================================================================
