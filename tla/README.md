# Vacuo: verification of the cache cleaner

TLA+ modules, TLC runs and TLAPS proofs about Vacuo, a C++20 cache cleaner for
Linux with a command line (`vacuoctl`), a Qt window (`vacuo`) and a privileged
helper (`vacuo-helper`, started through PolicyKit). Paths below are relative to
the repository; `safe_delete.cpp` and the like are files of `src/core/`.

## The system

| Component | State | Operations | Talks to |
|---|---|---|---|
| **SafeDelete** (`safe_delete.cpp`) | recursion of open directories, each with a stream position; the merged `DeleteResult` | `clearContents`, `clearDirectoryFd` | the kernel's directory tree, shared with every other process of the user |
| **PathGuard** (`safe_delete.cpp`) | home, approved roots; one descriptor while opening | `permits`, `openApprovedDirectory` | the same tree, by path first and by descriptor afterwards |
| **ProcessRunner** (`process_runner.cpp`) | child, two pipes, deadline, `ProcessResult` | `run` | a child process and its descendants: pipes, signals, wait |
| **Cleaner** (`cleaner.cpp`) | rules, the report being built | `execute`, `executeSystemActions` | SafeDelete per target, ProcessRunner for `pkexec vacuo-helper` |
| **vacuo-helper** (`helper/main.cpp`, `helper_actions.cpp`) | the lock in `/run`, results on stdout | argument check, lock, one action after the other | Scanner before and after, ProcessRunner for the package tool, SafeDelete |
| **Scanner** (`scanner.cpp`) | iterator, counters | `scanTarget`, `scan` | the tree by path; a cancellation flag set by another thread |
| **RuleCatalog** (`rule_catalog.cpp`) | none | `build`, `find` | SystemDetector's paths and family |
| **SystemDetector** (`system_detector.cpp`) | none | `detect`, XDG resolution, mount lookup | environment, `os-release`, `mountinfo` |
| **MainWindow, ScanModel** (`gui/`) | two future watchers, `cancelled_`, widgets' enabled state, the report and its check marks | `startScan`, `scanFinished`, `startClean`, `cleanFinished`, `closeEvent` | worker threads through queued signals; modal dialogs run nested event loops |
| **LanguageManager**, settings dialog (`gui/`) | installed translator, active language; the stored setting | `applyLanguage`, `showSettings` | the window, through posted LanguageChange events |
| **vacuoctl** (`cli/main.cpp`) | none beyond its arguments | `main` | Scanner, Cleaner; the exit status is its answer |
| JSON, formatting, translated texts, packaging | none | | |

What makes each one correct, and what makes that hard:

- *SafeDelete*: removes nothing outside the boundary or under an exclusion,
  follows no link, counts exactly what it removed, says success only if
  everything is gone that should be. The walk is a sequence of system calls on
  a tree that applications rearrange between any two of them, and any call may
  fail half-way down the recursion.
- *PathGuard*: what it hands out is the approved directory, owned by the user.
  It checks by path and opens by descriptor; everything may change in between.
- *ProcessRunner*: always comes back, with the child collected, the output
  whole and the status right. The child may be silent, chatty, deaf to SIGTERM,
  survive in a descendant, or be out of the caller's reach.
- *Cleaner and helper*: a report that says of each action what happened to it.
  Two deadlines of 300 s are nested, the outer one also covers the password
  prompt, and a helper running as root cannot be signalled.
- *Scanner*: what it shows is what a cleanup would remove, or is marked as a
  lower bound.
- *RuleCatalog*: the categories that are said to be separate are disjoint whatever the XDG variables say.
- *SystemDetector*: the files it reads are written by others, with quotes and
  escapes of their own; a wrong family means the wrong commands.
- *vacuoctl*: a command line that is not understood as a whole does nothing at
  all, and status 0 means that everything asked for was done.
- *LanguageManager and window*: a text is translated when it is written, and the
  window writes its texts at different times.
- *MainWindow*: never a scan and a cleanup together; what is cleaned is what
  was confirmed; after a cleanup the table is scanned anew.

`PROJECT.json` lists the hazards at their lines, with the properties that cover
them.

## Modules

| Module | Models | Extends |
|---|---|---|
| `FileSystem` | the tree of directories, files and links, and the calls of other processes (create, remove, rename) | |
| `SafeDelete` | `clearDirectoryFd`, one action per system call | `FileSystem` |
| `PathGuard` | `permits` and `openApprovedDirectory`, one action per system call | `FileSystem` |
| `ProcessRunner` | `run` and `appendFrom`, the command, signals, clock | |
| `Cleanup` | what a cleanup promises (abstract) | |
| `PrivilegedClean` | `executeSystemActions`, pkexec, the helper's `main` and its lock; implements `Cleanup` | instance of `Cleanup` |
| `SystemDetector` | `parseOsRelease`, `classify`, `fileSystemForPath` as functions of the files' text | |
| `HelperActions` | one helper on a detected system: commands, the scans around them, result lines and how the cleaner reads them | `SystemDetector` |
| `Scanner` | `scan` and `scanTarget` over libstdc++'s recursive iterator | `FileSystem` |
| `RuleCatalog` | targets and exclusions of the user's categories as a function of home and the XDG variables; paths and `permits` without the disk | |
| `Cleaner` | `execute`: the loop over the requested categories and their targets | `RuleCatalog` |
| `Vacuoctl` | the command line and the cleanup it calls, beside one of the window | `Cleaner` |
| `MainWindow` | the window's slots, its workers, the event loop, the dialogs, the check marks of `ScanModel` | |
| `Application` | the window with its setting, its dialog, `LanguageManager` and start-up; implements `MainWindow` | `MainWindow` |
| `MC...` | the small instances | the above |
| `..._proofs` | theorems about all of these but `SystemDetector` and `HelperActions` | the above and `TLAPS` |

The composition follows the calls: `SafeDelete` starts where `PathGuard` ends;
`Cleaner` takes both as one step each per entry, and the helper as one step,
which `PrivilegedClean` details; `HelperActions` details the work between the
helper's lock and its exit, which `PrivilegedClean` takes as `Begin` and `Ended`.
`Cleanup` is implemented by `PrivilegedClean`, where what was done and what is
reported are kept apart; what the reports of `Cleaner` mean is said of the tree
itself (`ReportFaithful`). `Vacuoctl` and `MainWindow` are the two callers.

**FileSystem.** A directory is an inode; an entry is found by (directory, name)
as with the `*at` calls, so a descriptor stays valid when the directory is
renamed. Links are leaves with a target. `Below(t, S)` is the least set closed
under subdirectories, defined as an intersection so that it can be reasoned
about without recursion. Hard links and mount points are left out.

**SafeDelete.** `stack` is the C++ recursion, innermost activation first; each
frame holds the descriptor (`dir`), the logical path compared with the
exclusions (`path`), the local `name`, and the stream. POSIX leaves open whether
`readdir` returns an entry added or removed after `opendir`: `must` holds the
names it has to return, `may` the names it is free to return; `Watch` moves a
name to `may` when another process touches it. `result` is one record for all
activations, which is what `merge` computes in the end. Bytes and message texts
are left out; `items` and `failures` are kept. `Fault` lets any call fail with
an error the tree does not explain (EACCES, EMFILE, EIO). Two variables are
history: `reach` is every directory that was ever at or below the boundary, and
`strays` what was put into one of those when it was itself no longer there.

**PathGuard.** Paths are sequences of names from `/`. `passed`
is history: the directories opened so far. `Lstat` resolves
a path as the kernel does, through links before the last component; the
descriptor walk follows none. `Owner` is a constant function. Normalization of
the path text is taken as done (`RuleCatalog` and `Cleaner` add the slash at the
end). SafeDelete starts where this module ends:
`fd` when `pc = "opened"` is `Boundary` there.

**ProcessRunner.** `pc` follows the outer loop; `Read` is one `read` in
`appendFrom`. Output is counted in buffers, and the counters saturate at
`OutputLimit`, so a command may write for ever in a finite model. `manner` says
whether SIGTERM, only SIGKILL or nothing ends a process. A descendant inherits
the pipes. The process group and its races with `setpgid` are not modelled
beyond that: both sides call it before any signal can be sent.

**PrivilegedClean.** Each cleaner is one call of `executeSystemActions`, of the
window or of `vacuoctl`. The two nested `ProcessRunner` calls are reduced to
what `ProcessRunner` and its runs establish: the output is read, the child is
collected, the deadline is acted on. `expired` is the outer deadline; the
command's own is as long and starts later, so it passes only when `expired`
holds. `prompt` is pkexec before authentication, which still runs with the
user's real identity and can be signalled; afterwards the helper is root and
`Expire` leaves it alone, so `GiveUp` waits for its end (the last `waitpid`).
`Emit` is `std::cout` on a pipe: lines stay in `buffer` until it is full or
`exit` flushes it, and what is in `pipe` when the deadline passes is never read.
Actions are numbers in the order of their names, the order of the helper's
`std::set`. `did` is history: what really became of an action. `HelperDies` and
`CallerDies` are deaths from outside (OOM killer, administrator), at most
`MaxCrashes`; a dead helper's command runs on, without the lock, which is
`O_CLOEXEC`. The scans before and after a command, the choice of the command
and the text of the lines are in `HelperActions`.

**MainWindow.** One action per slot; a slot that opens a dialog is split there,
since the dialog runs its own event loop. `posted` holds the events waiting for
the GUI thread, `drain` that a pass over them is under way. The end of a worker
and the posting of its event are one step; the delivery is another, and in
between `isRunning()` is already false: this gap is what the properties are
about. `setFuture` drops an event still pending, hence `StartScan(pending)`.
`selected` is what `startClean` captured before its question, `cleaning` what the
worker was given; `asked` is history, what was checked when the question was put.
Layout and texts are left out.

**Application.** `MainWindow` with what its slots write. `labels` holds, for each
part of the window, the language it was last written in; the heading is apart,
because its accessible name is set once and never translated again. Parts that
are always written together are one label. `loadable` are the translations that
load (`translator_.load` may fail). A language change posts an event only if a
translator is removed or installed (`Posts`). Cells and headers of the table are
translated when painted and have no label.

**Scanner.** `stack` is the iterator's stack of directory streams (with `must`
and `may` as in `SafeDelete`), `at` its entry with the type `readdir` gave.
`Measure` is the `lstat` of the entry's whole path, `Recheck` the second one, which
keeps the iterator out of an entry that is a link by then, and `Descend` opens a
subdirectory below its parent, without following links. `reach` and `strays` are
as in `SafeDelete`, from the opening of a target on. In libstdc++ any error other
than EACCES ends the iteration and is returned once, so lines 72-77 of
`scanner.cpp` are never reached: an error costs the rest of the target, and only
`inaccessible` tells. A directory that may not be read is passed over without
any mark. `lstat` of a target that exists is taken not to fail.

**RuleCatalog, Cleaner.** Paths are sequences of components, and one written with
a slash at its end keeps an empty last component, as `std::filesystem` has it.
The catalog's lists are constants. `Cleaner` has one action per existence check
(`Examine`), per boundary opened (`Open`), per entry met (`Unlink`, `Keep`,
`Pass`) and per category (`NextRule`, `EndRule`). `Opens` is what `PathGuard` does
in one step, the type and the owner of the directory included (`Files`, `Foreign`);
of `SafeDelete` it keeps what is met (`todo`), that what is below an entry goes
first, that an entry that vanished may fail or pass unseen, and the depth limit: a
directory that is too deep is a failure (`Refused`), what it holds is never listed
(`Listable`), and if it is empty it goes all the same. The permissions inside a
directory of another user are not modelled; what they deny is a fault. The
helper's part is one step with any outcome; `PrivilegedClean` refines it.
The code adds up each target's result after clearing it; here it is added entry
by entry. The links do not change, and applications create and remove single
entries.

**Vacuoctl.** `arguments` is a list of words. The call `Cli` of `Cleaner` gets the
identifiers that the list names and that the model knows; the other call is the
window's. `Informs` is everything answered without touching a file. The order of
the tests in `main` matters and is kept: `--help` anywhere wins, an unknown
category refuses the whole request.

**SystemDetector, HelperActions.** A text is a sequence of characters; a run of
letters whose spelling does not matter is one character. What writes the files is
modelled too (`Quoted`, `Mangled`, `MountLine`), so that reading is checked against
writing. A missing `os-release` is left out. In `HelperActions` each
entry of a directory has a size. The command and other programs change entries
between and during the two scans; a scan may miss an entry that vanished, meet
one that came, find one it cannot examine, or stop at its limit. `lost`, `removed`
and `grown` count what really happened. A unit of size is a block. The branch of
`execute` for an unknown action cannot be reached, since `main` refuses it, and the
shortening of messages beyond 1000 characters is left out.

Operators named as *faulty* are variants of the definition that follows them,
with the slip a maintainer could make. They are not part of any specification;
each shows that a property can fail.

## Runs

| Run | Question | Bounds |
|---|---|---|
| `safe_delete_race` | can interference lead the walk outside, through a link, or into an exclusion? | 5 directories, 2 changes: one takes a directory away, one puts a link or another directory in its place |
| `safe_delete_deep` | is the report true when calls fail, and does the walk end? | 7 directories, 3 levels = `MaxDepth`; 1 change, 1 fault; a change may also push the tree below the limit |
| `safe_delete_nested` | does an undisturbed cleanup with a nested exclusion succeed? (violated) | quiet |
| `path_guard` | is the opened directory the approved one, owned by the user? | 8 candidate paths, 2 changes, 1 fault |
| `process_runner` | does `run` come back with a faithful result? | one descendant, pipes of one buffer, limit of two |
| `process_runner_chatty` | is the deadline enforced on a command that keeps writing? (violated) | the same |
| `privileged_clean` | do two concurrent cleanups implement the abstract one, does the lock keep them apart, are failures explained, and does a cleanup return? | 2 cleaners, one action of each kind, buffer of one line, 1 death |
| `helper_actions` | are the system's files read as they were written, are freed bytes between bounds, are result lines read as they were meant? | every value of up to 2 characters of a set of 7, every table of up to 3 mounts on 4 points; 4 entries in 3 directories, sizes up to 2, 2 changes, 1 fault, 2 sets of commands |
| `scanner` | is an unmarked result complete, an undisturbed one exact, does the scan end? | 3 categories (two targets; a missing one and one whose path leads through a link; none), limit 3, an unreadable directory, 1 change, 1 fault, cancellation anywhere |
| `scanner_race` | can interference lead the iteration out of its directory? | 4 directories, a link, limit 2, 2 changes |
| `vacuoctl` | does a cleanup remove only what was asked for, say truly what it removed, and exit accordingly? | a call by the window (4 sets of identifiers) beside one by `vacuoctl` (12 command lines, 9 of them refused or only informing), 8 situations (default; cache or protected directory spelled with a slash; root; nested exclusion; Steam link; data below cache; a target that is a file, one of another user, a directory beyond `MaxDepth` = 3), 1 change, 1 fault |
| `application` | never two workers, no report dropped, a usable, fresh and translated window at rest, a closed window ends | 2 categories, one checked by default; 2 translations, each of which may fail to load, and settings of any spelling; no other bound |

Two changes are the smallest number that swaps an entry (rename away, rename
in); one change and one fault together exercise every error branch after every
prefix of the walk. Applications stop changing the tree when the operation
under study has returned.

*SafeDelete properties.* `Confinement`: a step of the walk changes no directory
that was never at or below the boundary. No link is followed, whatever is swapped.
It cannot hold without an exception: if a directory that is being walked is
renamed out of the boundary and another one is then put into it, the walk, which
holds a descriptor, enters and empties that too. The exception is just this
(`strays`), and a walk must have got there: what lies elsewhere, or was put
elsewhere, stays out of reach. The run meets it with its two changes.
`StaysInBoundary` and `ExclusionsKept` are about the tree as it is at the moment
of a removal and assume that none of the directories being walked was renamed:
a directory moved into an excluded place while it is being walked is still
emptied, since the descriptor has no path; `docs/SECURITY_MODEL.md` asks users
to close applications for such reasons. `CompleteOnSuccess`, `FailureExplained`
and `ItemsExact` relate the report to the tree; `Terminates` is liveness.

*PathGuard properties.* `OpenedIsTarget` and `OpenedIsOwned` hold under
interference. The first says that the directory opened lies where the approved
path leads, one real directory in the other, as long as none of those passed was
renamed: a link that takes a name between the checks and the opens leads nowhere,
and no path that leads to a protected directory is accepted. `QuietAnswer` says the decision is exact without it. That
answer also covers a home directory whose own path contains a link: `permits`
does not look there, `openApprovedDirectory` refuses, so the scan of such a home
works and every cleanup of it is refused.

*ProcessRunner properties.* `NothingLeftBehind`, `NoSignalAfterReap`,
`ResultFaithful`, `TimeoutHonoured`. A command that exits 0 while a descendant
keeps its pipes open is reported as timed out; that is what the code does and no
document says otherwise.

*PrivilegedClean properties.* `Implements` is the abstract specification: an
action is begun at most once, only if requested and never after the report, and
is reported as successful only if it was done. The converse cannot hold: a
helper that finishes after the deadline has its result lines thrown away, so
actions that were done are reported as "PolicyKit helper timed out".
`FailureExplained` says that this needs the deadline or a death.
`QuietAfterReport`: when the report is out nothing is still at work. This is why
a cleanup can keep the window busy past its deadline: the caller waits for a
helper it cannot signal, at most for the helper's own deadlines (`Returns`).
`WorkApart`: two cleanups are never at work together, unless a helper died and
its command goes on without the lock.

*HelperActions properties.* `DetectedAsWritten` compares what is read with what was
written, over all small texts (`ReleaseRead`) and tables (`MountFound`). Mounts hidden by a later
mount on a directory above them are excepted: the code compares lengths and
would still find them. `FreedMeasured` bounds the difference of two scans taken
while others write: what is reported never exceeds what went from the listed
directories, and falls short of what the command removed only by what was written
meanwhile, each as far as the scan concerned was complete. It relates
`targetsFor` of the helper to the directories the catalog lists, which the code
keeps in two places. `LinesRead`: a command whose output looks like a result line
cannot forge one.

*Application properties.* `LabelsCurrent`: once no LanguageChange waits,
everything in the window (but its heading's accessible name) is in one language;
only the message of a worker that has ended may stay until its end is handled.
`SettingShown`: a window at rest is in the language that was set, in English if
that does not load, also after settings that failed to load before.

*MainWindow properties.* `NeverTwoWorkers` is not obvious, since neither
`Confirm` nor `CloseReport` looks at the workers: it needs that a modal dialog
blocks every other way to start one and that a message box on top blocks the
dialog. `NoReportDropped`: no second cleanup can start between the end of one and
the delivery of its event, because the Clean button stays disabled; F5 does
start a scan in that gap, whose busy state is then ended by the cleanup's event
while the scan still runs. `FreshAtRest` and `UsableAtRest` say that this heals.
`CleansAsConfirmed`: until its worker ends, a cleanup works on what was checked when
its question was put. The table and its check marks may be replaced behind the
question, by a language change or by that scan; that the captured selection stays
what it was is part of the claim. If the window is closed
in the gap, the report is lost; no property denies it. The `cancelled_` branch
of `scanFinished` is unreachable as long as events are delivered, since the flag
is set only by the destructor.

*Scanner properties.* `Complete`: a result that is neither truncated nor has
inaccessible entries contains everything that was there, readable and left
alone, also in a cancelled scan. `QuietCount`: without interference each target
counts min(limit, entries) and nothing is truncated without reason. `Contained`:
the iteration stands only in directories that were at some time at or below the
one it opened, with the exception of `Confinement`.

*Cleaner and Vacuoctl properties.* `ExitFaithful`: a command line that is
not a proper request leaves everything alone, also the part of it that could be
done, and after a cleanup the status is 0 exactly if each category named
succeeded. `OnlyRequested`: root removes nothing, and nothing goes that does not belong to a category that
was asked for, whatever the XDG variables say, and as application cache nothing
of the groups its description excepts (`SparesGroups`); a
protected directory is never a boundary. The latter holds by a narrow margin:
`permits` compares components, so `XDG_CACHE_HOME=~/.config/` passes its
deny-list (and the scan), and only `openat` of the empty last component refuses
it. For the same reason the application cache of `XDG_CACHE_HOME=~/.cache/` can
never be cleaned. `CategoriesApart`: nothing of a category goes that was not
asked for, in the environments of the run. It is not true of
every environment: with the data directory below the cache directory the trash
belongs to the application cache, the catalog separating only the games
(`DataBelowCache`); and where a variable points into another category, as in
`XDG_CACHE_HOME=~/.npm/_cacache`, the browser caches belong to the developer cache.
`Accounted`: two cleanups of the same directory count each
entry once. `ReportFaithful`: a category reported as clean is empty, except for
what came back and for targets whose `fs::exists` failed, an error the code
drops; a failure of an undisturbed cleanup has its reason in the tree: a nested
exclusion (finding 1), a directory beyond the depth limit, or a target that is
refused, because it is no directory of the user's or is reached through a link,
which is the rule for `~/.steam/steam`, usually a link into the data directory;
and at the end every category has its answer.

### Fairness

Weak fairness of the walk, of the guard and of the calling thread: each is one
thread that the scheduler runs and none of its calls blocks for ever, except the
last `waitpid`, which is enabled only when the child is gone. The clock advances.
A signal accepted by the kernel is carried out. In `PrivilegedClean` callers and
helpers are scheduled, a deletion ends (`Terminates` of SafeDelete), and a
command that outlives its deadline is killed by the helper (`TimeoutHonoured` of
ProcessRunner, with the exception of finding 2); the user need not answer the
prompt. In `MainWindow` and `Application` the GUI thread delivers its events, workers end
(`Ends`, `Returns`), and the user need not do anything. Nothing is assumed of other
processes or of the command, except that other processes make boundedly many
changes.

### Findings

1. **A nested exclusion makes every cleanup fail** (`safe_delete_nested`). The
   walk enters `cache/mozilla`, skips the excluded `firefox`, and counts the
   failing `rmdir` of `mozilla` as a failure with its message suppressed
   (`safe_delete.cpp:255-260`). The application-cache rule has such exclusions
   (`rule_catalog.cpp:80,83`), so it reports failure wherever Firefox's cache
   exists, and the message it shows is the nested `Cleanup completed.`
   `tests/test_main.cpp:147` requires success of a cleanup with an exclusion.
2. **The deadline is not enforced on a chatty command**
   (`process_runner_chatty`). `appendFrom` reads until the pipe is empty and the
   clock is read only afterwards; a command, or a descendant of a command that
   already exited, can keep the caller there. `tests/test_main.cpp:195` tests
   the timeout with a silent command; `docs/SECURITY_MODEL.md:21` counts on it.

## Proofs

Checked by `tlapm` for every value of the constants that satisfies the named
assumptions of the modules (`TreeAssumption`, `WalkAssumption`, ...: the constants
have their types, trees and calls are finite; `ForestAssumption`: the initial tree
is one, and each directory with an entry is below the root; `CatalogAssumption`:
the lists of the catalog hold relative paths that are not empty and end with no
slash; `CleanerAssumption`: ranks; `CliAssumption`: words are texts, and
`--category` is no category). Type invariants are
proved and not run: `TypeCorrect` in each module below.

- `FileSystem_proofs` holds what several proofs need: `LeastNumber`, a
  least-number principle proved from the finiteness of intervals, since an
  induction rule cannot be applied here; `BelowIsClosed`; `RemovalKeepsFenced` and
  `InterferenceKeepsFenced` (what leads out of a set of directories is what was
  put into one of them that had left a closed set);
  `ForestKept`: other processes never give a directory two entries; and what
  `Resolve` finds, step by step: `ResolveSteps`, `ResolveAppend`,
  `AlongDirs`/`PathBelow` (a path leads below its start), `NoCycle` and `OnePath` (in a
  forest one path at most leads from a directory to another), `MeetingPaths`,
  `ResolveInLarger`, `RootedKept`.
- `SafeDelete_proofs`. *Confinement* (`WalkConfinement`) rests on `HeldInReach`:
  an entry of a directory in `reach` leads into `reach` or `strays` (`Fenced`), and
  each activation is in `reach`, in `strays`, or inside one in `strays` that the
  walk is in too (`Astray`); a recursive call only enters an entry of a directory
  that is held.
  *StaysInBoundary* (`RemovalsStayInside`) needs where the activations are:
  `Placed` says that the tree is a forest and that each activation's directory
  still has its entry under the caller's `name`, unless it was renamed or is
  gone; `CallersAlive` then follows the entries upwards from the one to be
  removed, by the least caller for which this fails. *CompleteOnSuccess*
  (`SuccessIsComplete`): as long as nothing failed, each name left in the boundary
  is excluded, due to others, still to come in the outermost stream, or being
  handled (`Covered`). *ItemsExact* (`ItemsAreExact`): undisturbed, the count and
  the entries still there add up (`Tallied`), in every finite tree.
  *ExclusionsKept* (`ExclusionsAreKept`): the frames' logical paths lead, from the
  boundary, to the directories they were opened for unless one was renamed, so by
  `OnePath` an excluded entry or one below it has an excluded logical path, which
  no frame has. *FailureExplained* (`FailuresHaveReasons`): in an undisturbed walk
  without a reason in the tree no call fails (`QuietInv`): streams return what is
  there and what they passed over is excluded (`Streaming`), the entry at hand is
  what `fstatat` saw (`Ready`), so a directory that was read to the end holds only
  excluded entries, none of which lies below an entry that is removed
  (`NothingNested`), and the stack grows no longer than the paths of the tree (`NotTooDeep`). `TypeOK` alone
  is not inductive: `Return` exposes the caller's frame, whose `name` must be a
  name (`CallersNamed`).
- `PathGuard_proofs`: `OpenedCorrectly` (`OpenedIsTarget`), `OpenedIsTheUsers`
  (`OpenedIsOwned`) and `QuietAnswerExact` (`QuietAnswer`). The invariant carries
  the checks made so far (`Screened`), the chain of directories opened (`Held`,
  `Chained`: each still has its entry unless renamed) and the owner of the last
  one. That none was a link needs no check by path: `openat` opens no link. Undisturbed, what was opened so far is what the
  path's beginning resolves to (`ResolveAppend`), so each refusal has its reason.
- `Scanner_proofs`: `ScanContained`, by the same argument for the iterator's
  streams (`ReachOK`, `StreamsKeepReach`); `IteratorOK` says when the iterator exists and stands at an entry. `UnmarkedIsComplete`:
  while the target at hand has no mark, each entry to be measured that others left
  alone is measured or still ahead of the iterator (`Covered`): in a stream of the stack, below a name one of them must
  still return, or below the entry it stands at (`Leads`, `Ahead`). A finished
  target has measured all of them (`RuleComplete`, `ReportComplete`). The path of a
  target may lead through links, which the kernel follows (`LstatSteps`, `WayAlong`);
  below the target none does (`WantedWay`). `QuietScanCounts`: as long as no other
  process changes the tree, no call fails and nobody cancels (`Quiet`), `items` is
  the number of wanted paths measured so far, and what is ahead was not measured
  yet (`QuietStats`). That a measured path is behind the iterator for good takes the
  order of its streams: each is shorter than those further in, and none returns
  again the name that leads to one of them, or to the entry at hand
  (`QuietStreams`, `QuietEntry`). What is measured is in the set of paths to measure
  because a path through directories only is no longer than their number
  (`GoodIsShort`, by `MeetingPaths`: no directory comes twice), and that set
  is finite (`VisibleFinite`). The end of a target takes the invariant of
  `UnmarkedIsComplete` as well: nothing is left out. `CountedSteps` and
  `SumIsQuiet` add the targets of a rule up.
- `ProcessRunner_proofs`: `ReturnsClean`, `SignalsAreSafe`, and
  `AnswersAreFaithful`: what was written is read or in the pipe (`OutputKept`), and
  a run that did not time out closes a pipe only when it is empty and has no writer
  (`DrainedBeforeClosed`). The invariant `ChildTracked` follows the child through the loop; its delicate
  point is that the second `waitpid(WNOHANG)` may collect the child while
  `childExited` stays false, after which only the last `waitpid` may come.
- `PrivilegedClean_proofs`, for any number of cleaners, actions, buffered lines
  and deaths: `QuietWhenReported`, `WorkExclusive`,
  `FailuresExplained` (a success line is on its way until it is reported), and
  `CleanupImplemented`, the refinement of `Cleanup` (the mapping is the identity on
  `request`, `did`, `report`). The invariant `IInv` says that a success line
  is true wherever it is on its way (`Truthful`), that the action at hand was
  requested and is as its result says (`AtHand`), that what is still to do was
  not begun (`Ahead`), that a helper exists only while its caller has not
  reported (`Bracketed`), and that a helper at work holds the lock (`Locked`).
- `Cleaner_proofs`, for every catalog, tree, environment and number of calls:
  `ReportCorrect`. What is still to come has no answer (`AnsweredLater`), what was
  taken has one (`TakenAnswered`). The tree must be closed under prefixes, with
  neither links nor files on its paths (`TreeInv`). A success is followed target by
  target: what is still to be met is in `todo`, or a directory on the way to it
  that is too deep (`Listed`, `CutIsMet`), and what was passed holds nothing of
  before (`Progress`, `Cleared`). A failure of a call that is alone (`Alone`) can
  only come from a target that is refused, or an exclusion or a directory too deep
  inside (`Sure`, `Explained`): otherwise an undisturbed walk meets only what it can
  remove.
  `OnlyWhatWasAskedFor`: while a boundary is open its path was permitted, does not
  end with a slash, and what is to be removed is content of the category at hand
  (`Meant`); a permitted path within a home directory that is spelled with a slash
  has an empty component there, which no protected path has
  (`ProtectedHoweverSpelled`). Whatever belongs to an excepted group is below an
  excluded path (`GroupsAreSpared`, `GroupsAreExcluded`). `EntriesAreAccounted`:
  the sum over the calls (`Sum`, built up in `SumsExist`, `SumGrows`, since the fold
  of the library is a recursive function that must be shown to exist) is what the
  tree lacks (`CountInv`). `ExitCorrect` follows the command line through the
  loop over its words (`TakenAreNamed`) and the answers it waits for (`MainInv`).
  `CommandCorrect` and `CommandSafe` transfer the others to the call of `vacuoctl`.
- `Application_proofs`. Of the window, for every catalog: `WorkersExclusive`,
  `ReportsArrive`, `RestIsFresh`, `RestIsUsable`, `ConfirmedIsCleaned`. The
  invariant `Inv` excludes a scan, a start event and an open confirmation while a
  cleanup runs, and follows its event up to the message box; `AskedTracked`, that
  the captured selection is what the question named as long as it is open;
  `RestInv` says for
  every state what still stands between the window and rest. `WindowImplemented`
  (every behaviour of the application is one of the window) carries them over, in
  `WindowCorrect`. `OneLanguage` and `SettingObeyed`
  hold for every set of translations: every label that is not current has an
  event waiting (`LabelsTracked`), a message its worker or the end of it
  (`MessageTracked`), and the language shown is the one the setting resolves to,
  unless its translation does not load.

Only model-checked: liveness (`Terminates`, `Ends`, `Returns`, `TimeoutHonoured`,
`ClosedStops`), which is out of the prover's reach; `DetectedAsWritten` and
`LinesRead`, which need an induction over texts; `FreedMeasured`, a bound on
differences of sums over the files of several directories that change between two
scans, which has no proof yet; `CategoriesApart`, which is true of the
environments of its run and not of every one.

## Plan

All components of the inventory that keep state or take part in a decision are
modelled. What would be worth adding, in this order:

1. A proof of `FreedMeasured`, from the invariant that what the first scan counted
   is never more than what went, what the second has counted and what that has
   still to meet together, nor less than these without what was written.
2. A composition of `Scanner` and `SafeDelete`: the estimate against what a
   cleanup removes (mount points, exclusions, permissions).
3. Mount points and hard links in `FileSystem`.

## Not modelled

- `json.cpp` and all of `types.cpp` but `allSucceeded`, formatting and message
  texts, `translation_utils.cpp`, layout and the texts of the table's cells: no
  state, and no decision depends on them.
- Packaging, PolicyKit policy and build files.
- In `FileSystem`: hard links, mount points below a boundary, changes of owner
  during a run.
- In `SystemDetector`: the names of desktop, session and package manager, which are
  shown only; a system without `os-release`, which gives an unknown family.
- A second instance of the window that changes the stored setting, and the
  accessible name of the heading, which keeps the language of the start.
- Byte counts of scan and cleanup, which follow the item counts except in
  `HelperActions`, where they are modelled.
