----------------------------- MODULE HelperActions -----------------------------
(***************************************************************************)
(* One run of vacuo-helper after the lock (src/helper/main.cpp): it reads  *)
(* what system it is on and executes its actions                           *)
(* (src/core/helper_actions.cpp) one after the other; the cleaner reads    *)
(* the lines it writes (Cleaner::executeSystemActions).                    *)
(*                                                                         *)
(* A command's gain is the difference of two scans.  The directories       *)
(* belong to the whole system: the command and other programs write to     *)
(* them between, and while, the scans pass.  Each entry has a size; one    *)
(* that is not there has none.                                             *)
(***************************************************************************)
EXTENDS SystemDetector, Integers

CONSTANTS
  Places,      \* the directory each entry is in
  Managed,     \* the directories each command keeps its files in
  Machines,    \* os-release, mounts, home, commands and sizes at the start
  Requests,    \* the sets of actions the helper may be given
  Messages,    \* what a command may print
  MaxSize, MaxChanges, MaxFaults   \* bounds

ASSUME HelperAssumption == MaxSize \in Nat /\ MaxChanges \in Nat /\ MaxFaults \in Nat

VARIABLES
  pc,
  files,      \* what detect() is going to read
  installed,  \* the commands that may be executed
  system,     \* the family and the home's file system
  todo,       \* actions to come, in the order of std::set
  action,     \* the one at hand
  command,    \* its command
  phase,      \* which of the two scans
  left,       \* directories it has not begun
  meets,      \* entries it, or the deletion, may still come upon
  stats,      \* what the scans, or the deletion, have counted
  ended,      \* how the command ended, and what it printed
  output,     \* the text written to the cleaner
  size,       \* the size of each entry, 0 if there is none
  changes, faults,
  \* for the properties only:
  results,    \* the results, as they were before they were written
  tally       \* since the action began: what went, and what came

control == <<pc, files, installed, system, todo, action, command, phase, left>>
disk == <<size, changes, tally>>
vars == <<control, meets, stats, ended, output, disk, faults, results>>

Entries == DOMAIN Places
Units == {"bytes", "items"}
Nothing == [bytes |-> 0, items |-> 0]
Clean == [bytes |-> 0, items |-> 0, complete |-> TRUE]
Unmeasured == [before |-> Clean, after |-> Clean]

-----------------------------------------------------------------------------
(* What belongs to an action. *)

\* RuleCatalog: the directories the window and vacuoctl show for it.
Listed(id, family) ==
  CASE id = "crash-dumps" -> {"coredump"}
    [] id = "snap-cache" -> {"snapd"}
    [] id = "system-journal" -> {"journal"}
    [] id = "package-cache" ->
         CASE family = "arch" -> {"pacman"}
           [] family = "debian" -> {"apt"}
           [] family = "fedora" -> {"dnf", "libdnf5", "yum"}
           [] family = "opensuse" -> {"zypp", "zypper"}
           [] family = "alpine" -> {"apk"}
           [] OTHER -> {}

\* Faulty: the cache of dnf5 was forgotten.
TargetsWithoutDnf5(id, family) ==
  CASE id = "package-cache" -> IF family = "fedora" THEN <<"dnf", "yum">> ELSE <<"pacman">>
    [] OTHER -> <<"journal">>

\* targetsFor: the directories that are scanned before and after a command.
TargetsFor(id, family) ==
  CASE id = "system-journal" -> <<"journal">>
    [] id = "package-cache" ->
         CASE family = "arch" -> <<"pacman">>
           [] family = "debian" -> <<"apt">>
           [] family = "fedora" -> <<"dnf", "libdnf5", "yum">>
           [] family = "opensuse" -> <<"zypp", "zypper">>
           [] family = "alpine" -> <<"apk">>
           [] OTHER -> <<>>

\* The commands of an action, the first that is installed counts.
Candidates(id, family) ==
  CASE id = "system-journal" -> <<"journalctl">>
    [] id = "package-cache" ->
         CASE family = "arch" -> <<"paccache">>
           [] family = "debian" -> <<"apt-get">>
           [] family = "fedora" -> <<"dnf5", "dnf">>
           [] family = "opensuse" -> <<"zypper">>
           [] family = "alpine" -> <<"apk">>
           [] OTHER -> <<>>

FirstExecutable(candidates) == SelectInSeq(candidates, LAMBDA c : c \in installed)

Fixed == {"crash-dumps", "snap-cache"}   \* cleared by the helper itself
Directory(id) == CHOOSE d \in Listed(id, "unknown") : TRUE

-----------------------------------------------------------------------------
(* The result lines. *)

\* Faulty: as the command printed it.
AsPrinted(message) == message

SingleLine(message) ==
  [i \in DOMAIN message |-> IF message[i] \in {"\t", "\r", "\n"} THEN " " ELSE message[i]]

EmitLine(id, r, message) ==
  <<"VACUO_RESULT", "\t", id, "\t", IF r.success THEN "0" ELSE "1", "\t",
    ToString(r.bytes), "\t", ToString(r.items), "\t">> \o SingleLine(message) \o <<"\n">>

\* Every field between tabs, the empty ones as well.
SplitTabs(line) ==
  LET Split(fields, c) == IF c = "\t" THEN Append(fields, <<>>)
                          ELSE Append(Front(fields), Append(Last(fields), c))
  IN  FoldLeft(Split, << <<>> >>, line)

Number(field) == CHOOSE n \in 0..1000 : field = <<ToString(n)>>

\* The last line of an action counts.
Parsed(text) ==
  LET Read(read, line) ==
        LET fields == SplitTabs(line) IN
        IF Len(fields) < 6 \/ fields[1] # <<"VACUO_RESULT">> THEN read
        ELSE (Head(fields[2]) :> [success |-> fields[3] = <<"0">>,
                                  bytes |-> Number(fields[4]),
                                  items |-> Number(fields[5])]) @@ read
  IN  FoldLeft(Read, <<>>, Runs(text, {"\n"}))

-----------------------------------------------------------------------------
(* main *)

Release(f) ==
  << <<"#", "ID", "=", "nix">>, <<"ID", "=", "nix">>, <<>>,
     <<"ID", "=">> \o Quoted(f.id, f.quote), <<"ID_LIKE", "=">> \o Quoted(f.idLike, f.quote) >>
MountInfo(f) == [i \in DOMAIN f.mounts |-> MountLine(f.mounts[i])]

Init ==
  /\ \E m \in Machines :
       files = m.files /\ installed = m.installed /\ size = m.size
  /\ pc = "detect" /\ system = [family |-> "unknown", homeFileSystem |-> <<"unknown">>]
  /\ todo \in Requests
  /\ action = "none" /\ command = "none" /\ phase = "before" /\ left = <<>>
  /\ meets = {} /\ stats = Unmeasured /\ ended = [how |-> "ok", message |-> <<>>]
  /\ output = <<>> /\ changes = 0 /\ faults = 0
  /\ results = <<>> /\ tally = [lost |-> Nothing, removed |-> Nothing, grown |-> Nothing]

Fault == faults < MaxFaults /\ faults' = faults + 1

\* SystemDetector::detect
Detect ==
  /\ pc = "detect"
  /\ LET values == ParseOsRelease(Release(files)) IN
     system' = [family |-> Classify(ValueOr(values, <<"ID">>, <<"unknown">>),
                                    ValueOr(values, <<"ID_LIKE">>, <<>>)),
                homeFileSystem |-> FileSystemForPath(files.home, MountInfo(files))]
  /\ files' = <<>>
  /\ pc' = "next"
  /\ UNCHANGED <<installed, todo, action, command, phase, left, meets, stats,
                 ended, output, disk, faults, results>>

\* The result is written; success and gain come from r.
Finish(r, message) ==
  /\ output' = output \o EmitLine(action', r, message)
  /\ results' = (action' :> r) @@ results
  /\ pc' = "next"

\* execute, up to the first scan or the deletion.
Execute(id) ==
  /\ pc = "next" /\ id = Head(todo)
  /\ todo' = Tail(todo)
  /\ action' = id
  /\ stats' = Unmeasured
  /\ tally' = [lost |-> Nothing, removed |-> Nothing, grown |-> Nothing]
  /\ phase' = "before"
  /\ LET candidates == Candidates(id, system.family)
         chosen == FirstExecutable(candidates)
         content == {e \in Entries : Places[e] = Directory(id) /\ size[e] > 0}
     IN  IF id \in Fixed
         THEN /\ \/ pc' = "clear" /\ meets' = content /\ UNCHANGED <<output, results, faults>>
                 \* there is no such directory
                 \/ /\ content = {} /\ UNCHANGED <<meets, faults>>
                    /\ Finish([success |-> TRUE] @@ Nothing, <<>>)
                 \* it is not approved, or cannot be opened
                 \/ /\ Fault /\ UNCHANGED meets
                    /\ Finish([success |-> FALSE] @@ Nothing, <<>>)
              /\ UNCHANGED <<command, left>>
         ELSE IF chosen = 0
         THEN /\ Finish([success |-> FALSE] @@ Nothing, <<>>)
              /\ UNCHANGED <<command, left, meets, faults>>
         ELSE /\ command' = candidates[chosen]
              /\ left' = TargetsFor(id, system.family)
              /\ pc' = "measure"
              /\ UNCHANGED <<meets, output, results, faults>>
  /\ UNCHANGED <<files, installed, system, ended, size, changes>>

-----------------------------------------------------------------------------
(* measure, and Scanner::scanTarget for each of the directories. *)

NextTarget ==
  /\ pc = "measure" /\ meets = {} /\ left # <<>>
  /\ meets' = {e \in Entries : Places[e] = Head(left) /\ size[e] > 0}
  /\ left' = IF meets' = {} THEN Tail(left) ELSE left
  /\ UNCHANGED <<pc, files, installed, system, todo, action, command, phase,
                 stats, ended, output, disk, faults, results>>

\* The rest of the directory, when the entry was dealt with.
Met(e) ==
  /\ pc = "measure" /\ e \in meets
  /\ meets' = meets \ {e}
  /\ left' = IF meets' = {} THEN Tail(left) ELSE left
  /\ UNCHANGED <<pc, files, installed, system, todo, action, command, phase, ended,
                 output, disk, results>>

Measure(e) ==
  /\ Met(e)
  /\ size[e] > 0
  /\ stats' = [stats EXCEPT ![phase].bytes = @ + size[e], ![phase].items = @ + 1]
  /\ UNCHANGED faults

\* It cannot be examined; nobody asks how many there were.
Inaccessible(e) ==
  /\ Met(e)
  /\ IF size[e] > 0 THEN Fault ELSE UNCHANGED faults
  /\ stats' = [stats EXCEPT ![phase].complete = FALSE]

\* It was gone before the scan came to it.
Missed(e) == Met(e) /\ size[e] = 0 /\ UNCHANGED <<stats, faults>>

\* The scan stops at its limit.
CutShort ==
  /\ pc = "measure" /\ meets # {} /\ Fault
  /\ stats' = [stats EXCEPT ![phase].complete = FALSE]
  /\ meets' = {} /\ left' = Tail(left)
  /\ UNCHANGED <<pc, files, installed, system, todo, action, command, phase, ended,
                 output, disk, results>>

Run ==
  /\ pc = "measure" /\ meets = {} /\ left = <<>> /\ phase = "before"
  /\ pc' = "run"
  /\ UNCHANGED <<files, installed, system, todo, action, command, phase, left, meets,
                 stats, ended, output, disk, faults, results>>

\* Faulty: the numbers are unsigned, here of 30 bits.
DifferenceWraps(before, after) == (before - after) % (2^30)

Difference(before, after) == IF before > after THEN before - after ELSE 0

\* execute, after the second scan.
Measured ==
  /\ pc = "measure" /\ meets = {} /\ left = <<>> /\ phase = "after"
  /\ UNCHANGED action
  /\ Finish([success |-> ended.how = "ok"] @@
            [u \in Units |-> Difference(stats.before[u], stats.after[u])], ended.message)
  /\ UNCHANGED <<files, installed, system, todo, command, phase, left, meets, stats,
                 ended, disk, faults>>

-----------------------------------------------------------------------------
(* The entries come and go. *)

Amount(bytes, items) == [bytes |-> bytes, items |-> items]
Plus(a, b) == [u \in Units |-> a[u] + b[u]]
Counts(e) == action # "none" /\ pc # "next" /\ Places[e] \in Listed(action, system.family)

\* e loses its content; by is what else counts it.
Goes(e, by) ==
  /\ size[e] > 0
  /\ size' = [size EXCEPT ![e] = 0]
  /\ tally' = IF Counts(e)
              THEN [t \in DOMAIN tally |->
                      IF t = "lost" \/ t = by THEN Plus(tally[t], Amount(size[e], 1)) ELSE tally[t]]
              ELSE tally

\* e grows, or is created; a scan that is in its directory may come upon it.
Grows(e) ==
  /\ changes < MaxChanges /\ changes' = changes + 1
  /\ size[e] < MaxSize
  /\ size' = [size EXCEPT ![e] = @ + 1]
  /\ tally' = IF Counts(e)
              THEN [tally EXCEPT !.grown =
                      Plus(@, Amount(1, IF size[e] = 0 THEN 1 ELSE 0))]
              ELSE tally
  /\ \/ /\ size[e] = 0 /\ \E d \in meets : Places[d] = Places[e]
        /\ meets' = meets \cup {e}
     \/ UNCHANGED meets

\* The command removes and writes files of its own.
Tool ==
  /\ pc = "run"
  /\ \E e \in Entries :
       /\ Places[e] \in Managed[command]
       /\ \/ Goes(e, "removed") /\ UNCHANGED <<changes, meets>>
          \/ Grows(e)
  /\ UNCHANGED <<control, stats, ended, output, faults, results>>

\* It exits, or is killed at the deadline.
ToolEnds ==
  /\ pc = "run"
  /\ \E how \in {"ok", "failed", "late"}, message \in Messages :
       ended' = [how |-> how, message |-> message]
  /\ pc' = "measure" /\ phase' = "after"
  /\ left' = TargetsFor(action, system.family)
  /\ UNCHANGED <<files, installed, system, todo, action, command, meets, stats,
                 output, disk, faults, results>>

Others ==
  /\ pc \in {"measure", "run", "clear"}
  /\ \E e \in Entries :
       \/ /\ changes < MaxChanges /\ changes' = changes + 1
          /\ Goes(e, "lost") /\ UNCHANGED meets
       \/ Grows(e)
  /\ UNCHANGED <<control, stats, ended, output, faults, results>>

-----------------------------------------------------------------------------
(* clearFixedDirectory: SafeDelete, entry by entry. *)

Deleted(e) ==
  /\ pc = "clear" /\ e \in meets
  /\ meets' = meets \ {e}
  /\ UNCHANGED <<control, ended, output, changes, results>>

Unlink(e) ==
  /\ Deleted(e)
  /\ Goes(e, "removed")
  /\ stats' = [stats EXCEPT !.before.bytes = @ + size[e], !.before.items = @ + 1]
  /\ UNCHANGED faults

\* The entry is gone, or cannot be removed.
Keep(e) ==
  /\ Deleted(e)
  /\ IF size[e] > 0 THEN Fault ELSE UNCHANGED faults
  /\ stats' = [stats EXCEPT !.before.complete = FALSE]
  /\ UNCHANGED <<size, tally>>

Cleared ==
  /\ pc = "clear" /\ meets = {}
  /\ UNCHANGED action
  /\ Finish([success |-> stats.before.complete] @@ [u \in Units |-> stats.before[u]], <<>>)
  /\ UNCHANGED <<files, installed, system, todo, command, phase, left, meets, stats,
                 ended, disk, faults>>

Exit ==
  /\ pc = "next" /\ todo = <<>>
  /\ pc' = "exited"
  /\ UNCHANGED <<files, installed, system, todo, action, command, phase, left, meets,
                 stats, ended, output, disk, faults, results>>

Exited == pc = "exited" /\ UNCHANGED vars

Next ==
  \/ Detect
  \/ \E id \in ToSet(todo) : Execute(id)
  \/ NextTarget \/ CutShort
  \/ \E e \in meets : Measure(e) \/ Inaccessible(e) \/ Missed(e)
  \/ Run \/ Measured
  \/ Tool \/ ToolEnds \/ Others
  \/ \E e \in meets : Unlink(e) \/ Keep(e)
  \/ Cleared
  \/ Exit \/ Exited

Spec == Init /\ [][Next]_vars

-----------------------------------------------------------------------------
(* Correctness. *)

\* os-release is read as it was written, whatever the value and the quotes.
ReleaseRead ==
  pc = "detect" =>
    LET values == ParseOsRelease(Release(files)) IN
    values[<<"ID">>] = files.id /\ values[<<"ID_LIKE">>] = files.idLike

\* Mounts on a directory above an earlier one hide that.
NoneHidden(f) ==
  \A i, j \in DOMAIN f.mounts :
    i < j => ~(/\ IsStrictPrefix(Components(f.mounts[j].point), Components(f.mounts[i].point))
               /\ PathContains(f.mounts[i].point, f.home))

\* The file system found is the one the kernel uses for the directory: the
\* last that was mounted on the way to it, if no mount is hidden by one
\* above it.
MountFound ==
  pc = "detect" /\ NoneHidden(files) =>
    LET above == {i \in DOMAIN files.mounts :
                    files.home # <<>> /\ PathContains(files.mounts[i].point, files.home)}
    IN  FileSystemForPath(files.home, MountInfo(files)) =
          IF above = {} THEN <<"unknown">> ELSE files.mounts[Max(above)].type

\* What is detected of the system is what its files say.
DetectedAsWritten == ReleaseRead /\ MountFound

\* What an action reports as freed is never more than what went from the
\* directories listed for it while it was at work, and never less than what
\* it removed itself, less what was written meanwhile; both only as far as
\* the scans are complete.
FreedMeasured ==
  pc \in {"next", "exited"} /\ action # "none" =>
    \A u \in Units :
      /\ stats.after.complete => results[action][u] <= tally.lost[u]
      /\ stats.before.complete => results[action][u] >= tally.removed[u] - tally.grown[u]

\* The cleaner reads exactly the results the helper had, whatever the
\* commands print.
LinesRead == Parsed(output) = results
=============================================================================
