------------------------------ MODULE MainWindow ------------------------------
(***************************************************************************)
(* The window of the graphical application (src/gui/main_window.cpp with   *)
(* the check marks of src/gui/scan_model.cpp): a scan and a cleanup run on *)
(* worker threads, the window's slots on the GUI thread's event loop.      *)
(*                                                                         *)
(* A worker that ends posts a finished event to its QFutureWatcher;        *)
(* isRunning() is false from the end of the worker, not from the delivery  *)
(* of the event, and setFuture drops an event still pending.  A modal      *)
(* dialog runs a nested event loop: it blocks the user's way to the window *)
(* but not the delivery of events, and the slot that opened it goes on     *)
(* when it is closed.  A slot runs to its end, or to its dialog, in one    *)
(* step.                                                                   *)
(*                                                                         *)
(* One pass of the event loop delivers all posted events before it takes   *)
(* input again; input that was already read may be taken before events     *)
(* posted in the meantime.  The order among posted events is left open.    *)
(***************************************************************************)
EXTENDS FiniteSets

CONSTANTS
  Rules,       \* the categories of the catalog
  Defaults     \* those with selectedByDefault

ASSUME RulesAssumption == Defaults \subseteq Rules

VARIABLES
  scan,        \* is scanWatcher_ running?
  clean,       \* is cleanWatcher_ running?
  cancelled,   \* cancelled_
  posted,      \* events that wait for the GUI thread
  drain,       \* the event loop is in the middle of a pass over them
  busy,        \* scan button and table disabled, progress shown (setBusy)
  canClean,    \* the Clean button is enabled
  listed,      \* rules the table shows as available and not empty
  checked,     \* ScanModel::selected_
  dialog,      \* the modal dialog the user opened
  selected,    \* the local of startClean, alive while it confirms
  reporting,   \* the message box of cleanFinished is open, on top of dialog
  window,      \* open, closed, and what follows
  cleaning,    \* the rules the running cleanup was given
  \* for the properties only:
  asked,       \* the rules checked when the last question was put
  owed,        \* a cleanup has ended whose report was not shown yet
  table        \* the table against the last cleanup

watchers == <<scan, clean, cancelled>>
widgets == <<busy, canClean>>
model == <<listed, checked>>
dialogs == <<dialog, selected, reporting>>
history == <<cleaning, asked, owed, table>>
vars == <<watchers, posted, drain, widgets, model, dialogs, window, history>>

Events == {"start",      \* the timer of the constructor
           "scanned", "cleaned", "language"}

TypeOK ==
  /\ scan \in BOOLEAN /\ clean \in BOOLEAN /\ cancelled \in BOOLEAN
  /\ posted \subseteq Events
  /\ drain \in BOOLEAN
  /\ busy \in BOOLEAN /\ canClean \in BOOLEAN
  /\ listed \subseteq Rules /\ checked \subseteq listed
  /\ dialog \in {"none", "confirm", "settings", "info"}
  /\ selected \subseteq Rules
  /\ reporting \in BOOLEAN
  /\ window \in {"open", "closed", "quit", "destroying", "gone"}
  /\ cleaning \subseteq Rules /\ asked \subseteq Rules
  /\ owed \in BOOLEAN
  /\ table \in {"stale", "renewing", "fresh"}

Init ==
  /\ scan = FALSE /\ clean = FALSE /\ cancelled = FALSE
  /\ posted = {"start"} /\ drain = FALSE
  /\ busy = FALSE /\ canClean = FALSE
  /\ listed = {} /\ checked = {}
  /\ dialog = "none" /\ selected = {} /\ reporting = FALSE
  /\ window = "open"
  /\ cleaning = {} /\ asked = {} /\ owed = FALSE /\ table = "stale"

Running == scan \/ clean

-----------------------------------------------------------------------------
(* What the slots share. *)

SetBusy(b, marks) == busy' = b /\ canClean' = (~b /\ marks # {})

UpdateSelectionSummary(marks) == canClean' = (~Running /\ marks # {})

\* ScanModel::setReport: the check marks start as the catalog has them.
SetReport == listed' \in SUBSET Rules /\ checked' = listed' \cap Defaults

\* ScanModel::setData
Toggle(r) == checked' = IF r \in checked THEN checked \ {r} ELSE checked \cup {r}

\* Faulty: looks at one of the watchers only.
StartScanAnyway(pending) ==
  IF scan
  THEN posted' = pending /\ UNCHANGED <<watchers, widgets, table>>
  ELSE /\ scan' = TRUE /\ cancelled' = FALSE
       /\ SetBusy(TRUE, checked)
       /\ posted' = pending \ {"scanned"}
       /\ table' = "renewing"
       /\ UNCHANGED clean

\* Faulty: one watcher for both workers, so that a scan drops a report too.
StartScanOneWatcher(pending) ==
  IF Running
  THEN posted' = pending /\ UNCHANGED <<watchers, widgets, table>>
  ELSE /\ scan' = TRUE /\ cancelled' = FALSE
       /\ SetBusy(TRUE, checked)
       /\ posted' = pending \ {"scanned", "cleaned"}
       /\ table' = "renewing"
       /\ UNCHANGED clean

\* pending are the posted events that remain if no scan is started; an event
\* of the scan before would be dropped by setFuture.
StartScan(pending) ==
  IF Running
  THEN posted' = pending /\ UNCHANGED <<watchers, widgets, table>>
  ELSE /\ scan' = TRUE /\ cancelled' = FALSE
       /\ SetBusy(TRUE, checked)
       /\ posted' = pending \ {"scanned"}
       /\ table' = "renewing"
       /\ UNCHANGED clean

-----------------------------------------------------------------------------
(* Posted events, delivered by the main event loop or by a dialog's. *)

Deliver(e) == window \in {"open", "closed"} /\ e \in posted

\* The pass is over when no event is left.
Pass == drain' = (posted' # {})

\* QTimer::singleShot of the constructor.
FirstScan ==
  /\ Deliver("start")
  /\ StartScan(posted \ {"start"})
  /\ Pass
  /\ UNCHANGED <<model, dialogs, window, cleaning, asked, owed>>

\* Faulty: the window stays busy.
ScanFinishedBusy ==
  /\ Deliver("scanned")
  /\ posted' = posted \ {"scanned"}
  /\ SetReport
  /\ table' = IF table = "renewing" THEN "fresh" ELSE table
  /\ UpdateSelectionSummary(checked')
  /\ Pass
  /\ UNCHANGED <<watchers, busy, dialogs, window, cleaning, asked, owed>>

\* scanFinished; the result of a cancelled scan is not shown.
ScanFinished ==
  /\ Deliver("scanned")
  /\ posted' = posted \ {"scanned"}
  /\ IF cancelled
     THEN SetBusy(FALSE, checked) /\ UNCHANGED <<model, table>>
     ELSE /\ SetReport
          /\ busy' = FALSE
          /\ UpdateSelectionSummary(checked')
          /\ table' = IF table = "renewing" THEN "fresh" ELSE table
  /\ Pass
  /\ UNCHANGED <<watchers, dialogs, window, cleaning, asked, owed>>

\* cleanFinished, up to its message box.
CleanFinished ==
  /\ Deliver("cleaned")
  /\ posted' = posted \ {"cleaned"}
  /\ SetBusy(FALSE, checked)
  /\ reporting' = TRUE
  /\ owed' = FALSE
  /\ Pass
  /\ UNCHANGED <<watchers, model, dialog, selected, window, cleaning, asked, table>>

\* changeEvent and retranslateUi: the Clean button is enabled anew.
Retranslate ==
  /\ Deliver("language")
  /\ posted' = posted \ {"language"}
  /\ UpdateSelectionSummary(checked)
  /\ Pass
  /\ UNCHANGED <<watchers, busy, model, dialogs, window, history>>

EventLoop == FirstScan \/ ScanFinished \/ CleanFinished \/ Retranslate

-----------------------------------------------------------------------------
(* The user.  A modal dialog blocks the window, a message box on top of a  *)
(* dialog blocks that.                                                     *)

Input == window \in {"open", "closed"} /\ ~drain
WindowInput == Input /\ window = "open" /\ dialog = "none" /\ ~reporting
DialogInput(d) == Input /\ dialog = d /\ ~reporting

\* Events posted before a dialog opens are delivered before it takes input.
Open(d) == dialog' = d /\ drain' = (posted # {})

\* The scan button, or F5, which is never disabled.
Rescan ==
  /\ WindowInput
  /\ StartScan(posted)
  /\ UNCHANGED <<drain, model, dialogs, window, cleaning, asked, owed>>

\* Only what is there to be cleaned can be checked; dataChanged is connected
\* to updateSelectionSummary.
Check(r) ==
  /\ WindowInput /\ ~busy
  /\ r \in listed
  /\ Toggle(r)
  /\ UpdateSelectionSummary(checked')
  /\ UNCHANGED <<watchers, posted, drain, busy, listed, dialogs, window, history>>

\* startClean, up to the confirmation; its question counts and sizes what is
\* checked by then.
StartClean ==
  /\ WindowInput /\ canClean
  /\ ~Running /\ checked # {}
  /\ selected' = checked
  /\ asked' = checked
  /\ Open("confirm")
  /\ UNCHANGED <<watchers, posted, widgets, model, reporting, window,
                 cleaning, owed, table>>

\* Faulty: reads the check marks again after the confirmation.
ConfirmMarked ==
  /\ DialogInput("confirm")
  /\ dialog' = "none" /\ selected' = {}
  /\ clean' = TRUE
  /\ SetBusy(TRUE, checked)
  /\ posted' = posted \ {"cleaned"}
  /\ cleaning' = checked
  /\ table' = "stale"
  /\ UNCHANGED <<scan, cancelled, drain, model, reporting, window, asked, owed>>

\* The rest of startClean, when the user agrees.
Confirm ==
  /\ DialogInput("confirm")
  /\ dialog' = "none" /\ selected' = {}
  /\ clean' = TRUE
  /\ SetBusy(TRUE, checked)
  /\ posted' = posted \ {"cleaned"}
  /\ cleaning' = selected
  /\ table' = "stale"
  /\ UNCHANGED <<scan, cancelled, drain, model, reporting, window, asked, owed>>

\* Cancel, or the end of a dialog that has no consequence.
Dismiss ==
  /\ \E d \in {"confirm", "settings", "info"} : DialogInput(d)
  /\ dialog' = "none" /\ selected' = {}
  /\ UNCHANGED <<watchers, posted, drain, widgets, model, reporting, window, history>>

\* The settings, the about box and the security box can always be opened.
OpenDialog ==
  /\ WindowInput
  /\ Open("settings") \/ Open("info")
  /\ UNCHANGED <<watchers, posted, widgets, model, selected, reporting,
                 window, history>>

\* The end of showSettings, when the translation of the application changed.
ApplyLanguage ==
  /\ DialogInput("settings")
  /\ dialog' = "none"
  /\ posted' = posted \cup {"language"}
  /\ UNCHANGED <<watchers, drain, widgets, model, selected, reporting, window, history>>

\* Faulty: a new scan only when something was cleaned.
CloseReportOnly ==
  /\ Input /\ reporting
  /\ reporting' = FALSE
  /\ \/ StartScan(posted)
     \/ UNCHANGED <<watchers, posted, widgets, table>>
  /\ UNCHANGED <<drain, model, dialog, selected, window, cleaning, asked, owed>>

\* The rest of cleanFinished, when its message box is closed.
CloseReport ==
  /\ Input /\ reporting
  /\ reporting' = FALSE
  /\ StartScan(posted)
  /\ UNCHANGED <<drain, model, dialog, selected, window, cleaning, asked, owed>>

\* closeEvent: refused with a message box while a worker runs.
Close ==
  /\ WindowInput
  /\ IF Running
     THEN Open("info") /\ UNCHANGED window
     ELSE window' = "closed" /\ UNCHANGED <<dialog, drain>>
  /\ UNCHANGED <<watchers, posted, widgets, model, selected, reporting, history>>

User ==
  \/ Rescan
  \/ \E r \in Rules : Check(r)
  \/ StartClean
  \/ Confirm
  \/ Dismiss
  \/ OpenDialog
  \/ ApplyLanguage
  \/ CloseReport
  \/ Close

-----------------------------------------------------------------------------
(* The worker threads. *)

ScanEnds ==
  /\ scan
  /\ scan' = FALSE
  /\ posted' = posted \cup {"scanned"}
  /\ UNCHANGED <<clean, cancelled, drain, widgets, model, dialogs, window, history>>

CleanEnds ==
  /\ clean
  /\ clean' = FALSE
  /\ posted' = posted \cup {"cleaned"}
  /\ cleaning' = {}
  /\ owed' = TRUE
  /\ UNCHANGED <<scan, cancelled, drain, widgets, model, dialogs, window,
                 asked, table>>

-----------------------------------------------------------------------------
(* The end of the application. *)

\* Faulty: an open message box keeps the application alive.
QuitUnlessReporting ==
  /\ window = "closed" /\ ~reporting
  /\ window' = "quit"
  /\ UNCHANGED <<watchers, posted, drain, widgets, model, dialogs, history>>

\* The last window is closed and exec returns: the event loop of a message
\* box is left too, and cleanFinished goes on to its scan.
Quit ==
  /\ window = "closed"
  /\ window' = "quit"
  /\ reporting' = FALSE
  /\ IF reporting
     THEN StartScan(posted)
     ELSE UNCHANGED <<watchers, posted, widgets, table>>
  /\ UNCHANGED <<drain, model, dialog, selected, cleaning, asked, owed>>

\* ~MainWindow cancels the scan and waits for both workers.
Destroy ==
  /\ window = "quit"
  /\ window' = "destroying"
  /\ cancelled' = TRUE
  /\ UNCHANGED <<scan, clean, posted, drain, widgets, model, dialogs, history>>

Destroyed ==
  /\ window = "destroying"
  /\ ~Running
  /\ window' = "gone"
  /\ UNCHANGED <<watchers, posted, drain, widgets, model, dialogs, history>>

Stopped == window = "gone" /\ UNCHANGED vars

Next ==
  EventLoop \/ User \/ ScanEnds \/ CleanEnds \/ Quit \/ Destroy \/ Destroyed \/ Stopped

\* What may happen; what must is said in Application.
Spec == Init /\ [][Next]_vars

-----------------------------------------------------------------------------
(* Correctness. *)

\* The window at rest: nothing runs, waits or is shown on top of it.
AtRest == window = "open" /\ ~Running /\ posted = {} /\ dialog = "none" /\ ~reporting

\* A scan and a cleanup never run at the same time, although neither slot
\* looks at the workers again when its dialog is closed.
NeverTwoWorkers == ~(scan /\ clean)

\* The report of a cleanup that ended is on its way as long as the window is
\* open: no later cleanup takes over the watcher and drops it.
NoReportDropped == owed => "cleaned" \in posted

\* A window at rest shows a table scanned after the last cleanup.
FreshAtRest == AtRest => table = "fresh"

\* A window at rest can be used: it is not busy, and the Clean button is
\* enabled exactly if something is checked.
UsableAtRest == AtRest => ~busy /\ (canClean <=> checked # {})

\* A cleanup cleans what its question was about.  The question stays open
\* while events are delivered: a scan that ended before may replace the table
\* and its check marks behind it.
CleansAsConfirmed == clean => cleaning = asked

\* A closed window is gone in the end, whatever was running or pending.
ClosedStops == window = "closed" ~> window = "gone"
=============================================================================
