-------------------------- MODULE Application_proofs --------------------------
(***************************************************************************)
(* Proofs about the window (Spec of MainWindow) and the application around *)
(* it (AppSpec), for every set of categories, defaults and translations:   *)
(* the window in the application is the window of MainWindow, so that what *)
(* is proved of it holds there, and it is written in one language.         *)
(***************************************************************************)
EXTENDS Application, TLAPS

(***************************************************************************)
(* Neither startClean nor cleanFinished looks at the workers again after   *)
(* its dialog.  What makes that safe is what can be pending beneath one:   *)
(* StartCleanAlone says so for the confirmation.  It holds because the     *)
(* Clean button is disabled while a cleanup runs and, outside a pass over  *)
(* the posted events, until its report was delivered.                      *)
(***************************************************************************)
CleanAlone ==
  clean => /\ ~scan /\ busy /\ ~canClean
           /\ posted \subseteq {"language"}
           /\ ~reporting /\ dialog # "confirm"

StartCleanAlone ==
  dialog = "confirm" => /\ ~scan /\ ~clean /\ ~reporting
                        /\ posted \subseteq {"scanned", "language"}
                        /\ ~drain => posted = {}

ReportPending ==
  "cleaned" \in posted => /\ ~clean /\ ~reporting /\ dialog # "confirm"
                          /\ "start" \notin posted
                          /\ ~drain => busy /\ ~canClean

StartPending ==
  "start" \in posted => /\ ~clean /\ ~reporting /\ dialog # "confirm"
                        /\ ~drain => listed = {} /\ checked = {} /\ ~canClean

ReportOpen == reporting => ~clean /\ dialog # "confirm" /\ "start" \notin posted

Inv ==
  /\ TypeOK
  /\ CleanAlone /\ StartCleanAlone /\ ReportPending /\ StartPending /\ ReportOpen
  /\ NoReportDropped

LEMMA InitInv == Init => Inv
BY RulesAssumption DEF Init, Inv, TypeOK, Events, CleanAlone, StartCleanAlone,
   ReportPending, StartPending, ReportOpen, NoReportDropped

\* The four slots that posted events reach.
LEMMA FirstScanKeepsInv ==
  ASSUME Inv, FirstScan
  PROVE  Inv'
BY DEF FirstScan, Deliver, Pass, StartScan, SetBusy, Running,
   watchers, widgets, model, dialogs, history, Inv, TypeOK, Events, CleanAlone, StartCleanAlone,
   ReportPending, StartPending, ReportOpen, NoReportDropped

LEMMA ScanFinishedKeepsInv ==
  ASSUME Inv, ScanFinished
  PROVE  Inv'
BY DEF ScanFinished, SetReport, Deliver, Pass, SetBusy, UpdateSelectionSummary, Running,
   watchers, widgets, model, dialogs, history, Inv, TypeOK, Events, CleanAlone, StartCleanAlone,
   ReportPending, StartPending, ReportOpen, NoReportDropped

LEMMA CleanFinishedKeepsInv ==
  ASSUME Inv, CleanFinished
  PROVE  Inv'
BY DEF CleanFinished, Deliver, Pass, SetBusy, Running,
   watchers, widgets, model, dialogs, history, Inv, TypeOK, Events, CleanAlone, StartCleanAlone,
   ReportPending, StartPending, ReportOpen, NoReportDropped

LEMMA RetranslateKeepsInv ==
  ASSUME Inv, Retranslate
  PROVE  Inv'
BY DEF Retranslate, Deliver, Pass, UpdateSelectionSummary, Running,
   watchers, widgets, model, dialogs, history, Inv, TypeOK, Events, CleanAlone, StartCleanAlone,
   ReportPending, StartPending, ReportOpen, NoReportDropped

\* The user's actions on the window.
LEMMA RescanKeepsInv ==
  ASSUME Inv, Rescan
  PROVE  Inv'
BY DEF Rescan, StartScan, SetBusy, Input, WindowInput, DialogInput, Open, Running,
   watchers, widgets, model, dialogs, history, Inv, TypeOK, Events, CleanAlone, StartCleanAlone,
   ReportPending, StartPending, ReportOpen, NoReportDropped

LEMMA CheckKeepsInv ==
  ASSUME Inv, NEW r \in Rules, Check(r)
  PROVE  Inv'
BY DEF Check, Toggle, UpdateSelectionSummary, Input, WindowInput, DialogInput, Open, Running,
   watchers, widgets, model, dialogs, history, Inv, TypeOK, Events, CleanAlone, StartCleanAlone,
   ReportPending, StartPending, ReportOpen, NoReportDropped

LEMMA StartCleanKeepsInv ==
  ASSUME Inv, StartClean
  PROVE  Inv'
BY DEF StartClean, Input, WindowInput, DialogInput, Open, Running,
   watchers, widgets, model, dialogs, history, Inv, TypeOK, Events, CleanAlone, StartCleanAlone,
   ReportPending, StartPending, ReportOpen, NoReportDropped

LEMMA OpenDialogKeepsInv ==
  ASSUME Inv, OpenDialog
  PROVE  Inv'
BY DEF OpenDialog, Input, WindowInput, DialogInput, Open, Running,
   watchers, widgets, model, dialogs, history, Inv, TypeOK, Events, CleanAlone, StartCleanAlone,
   ReportPending, StartPending, ReportOpen, NoReportDropped

LEMMA CloseKeepsInv ==
  ASSUME Inv, Close
  PROVE  Inv'
BY DEF Close, Input, WindowInput, DialogInput, Open, Running,
   watchers, widgets, model, dialogs, history, Inv, TypeOK, Events, CleanAlone, StartCleanAlone,
   ReportPending, StartPending, ReportOpen, NoReportDropped

\* The user's actions on a dialog.
LEMMA ConfirmKeepsInv ==
  ASSUME Inv, Confirm
  PROVE  Inv'
BY DEF Confirm, SetBusy, Input, WindowInput, DialogInput, Open, Running,
   watchers, widgets, model, dialogs, history, Inv, TypeOK, Events, CleanAlone, StartCleanAlone,
   ReportPending, StartPending, ReportOpen, NoReportDropped

LEMMA DismissKeepsInv ==
  ASSUME Inv, Dismiss
  PROVE  Inv'
BY DEF Dismiss, Input, WindowInput, DialogInput, Open, Running,
   watchers, widgets, model, dialogs, history, Inv, TypeOK, Events, CleanAlone, StartCleanAlone,
   ReportPending, StartPending, ReportOpen, NoReportDropped

LEMMA ApplyLanguageKeepsInv ==
  ASSUME Inv, ApplyLanguage
  PROVE  Inv'
BY DEF ApplyLanguage, Input, WindowInput, DialogInput, Open, Running,
   watchers, widgets, model, dialogs, history, Inv, TypeOK, Events, CleanAlone, StartCleanAlone,
   ReportPending, StartPending, ReportOpen, NoReportDropped

LEMMA CloseReportKeepsInv ==
  ASSUME Inv, CloseReport
  PROVE  Inv'
BY DEF CloseReport, StartScan, SetBusy, Input, WindowInput, DialogInput, Open, Running,
   watchers, widgets, model, dialogs, history, Inv, TypeOK, Events, CleanAlone, StartCleanAlone,
   ReportPending, StartPending, ReportOpen, NoReportDropped

\* The workers and the end of the application.
LEMMA ScanEndsKeepsInv ==
  ASSUME Inv, ScanEnds
  PROVE  Inv'
<1>1. /\ scan /\ scan' = FALSE
      /\ posted' = posted \cup {"scanned"}
      /\ UNCHANGED <<clean, cancelled, drain, busy, canClean, listed, checked, dialog,
                    selected, reporting, window, cleaning, asked, owed, table>>
  BY DEF ScanEnds, widgets, model, dialogs, history
<1>2. ~clean /\ dialog # "confirm"
  BY <1>1 DEF Inv, CleanAlone, StartCleanAlone
<1>3. TypeOK'
  <2>1. posted \subseteq Events /\ "scanned" \in Events
    BY DEF Inv, TypeOK, Events
  <2>2. posted' \subseteq Events
    BY <1>1, <2>1
  <2>3. /\ scan' \in BOOLEAN /\ clean' \in BOOLEAN /\ cancelled' \in BOOLEAN
        /\ drain' \in BOOLEAN /\ busy' \in BOOLEAN /\ canClean' \in BOOLEAN
        /\ reporting' \in BOOLEAN /\ owed' \in BOOLEAN
    BY <1>1, Zenon DEF Inv, TypeOK
  <2>4. /\ listed' \subseteq Rules /\ checked' \subseteq listed'
        /\ selected' \subseteq Rules /\ cleaning' \subseteq Rules /\ asked' \subseteq Rules
        /\ dialog' \in {"none", "confirm", "settings", "info"}
        /\ window' \in {"open", "closed", "quit", "destroying", "gone"}
        /\ table' \in {"stale", "renewing", "fresh"}
    BY <1>1, Zenon DEF Inv, TypeOK
  <2>. QED
    BY <2>2, <2>3, <2>4, Zenon DEF TypeOK
<1>4. CleanAlone' /\ StartCleanAlone' /\ ReportOpen'
  BY <1>1, <1>2 DEF Inv, CleanAlone, StartCleanAlone, ReportOpen
<1>5. ReportPending' /\ StartPending' /\ NoReportDropped'
  BY <1>1, <1>2 DEF Inv, ReportPending, StartPending, NoReportDropped
<1>. QED
  BY <1>3, <1>4, <1>5 DEF Inv

LEMMA CleanEndsKeepsInv ==
  ASSUME Inv, CleanEnds
  PROVE  Inv'
<1>1. /\ clean /\ clean' = FALSE
      /\ posted' = posted \cup {"cleaned"}
      /\ owed' = TRUE
      /\ UNCHANGED <<scan, cancelled, drain, busy, canClean, listed, checked, dialog,
                    selected, reporting, window, asked, table>>
      /\ cleaning' = {}
  BY DEF CleanEnds, widgets, model, dialogs
<1>2. /\ ~scan /\ busy /\ ~canClean
      /\ posted \subseteq {"language"}
      /\ ~reporting /\ dialog # "confirm"
  BY <1>1 DEF Inv, CleanAlone
<1>3. TypeOK'
  <2>1. posted \subseteq Events /\ "cleaned" \in Events
    BY DEF Inv, TypeOK, Events
  <2>2. posted' \subseteq Events
    BY <1>1, <2>1
  <2>3. /\ scan' \in BOOLEAN /\ clean' \in BOOLEAN /\ cancelled' \in BOOLEAN
        /\ drain' \in BOOLEAN /\ busy' \in BOOLEAN /\ canClean' \in BOOLEAN
        /\ reporting' \in BOOLEAN /\ owed' \in BOOLEAN
    BY <1>1, Zenon DEF Inv, TypeOK
  <2>4. /\ listed' \subseteq Rules /\ checked' \subseteq listed'
        /\ selected' \subseteq Rules /\ cleaning' \subseteq Rules /\ asked' \subseteq Rules
        /\ dialog' \in {"none", "confirm", "settings", "info"}
        /\ window' \in {"open", "closed", "quit", "destroying", "gone"}
        /\ table' \in {"stale", "renewing", "fresh"}
    BY <1>1, Zenon DEF Inv, TypeOK
  <2>. QED
    BY <2>2, <2>3, <2>4, Zenon DEF TypeOK
<1>4. CleanAlone' /\ StartCleanAlone' /\ ReportOpen'
  BY <1>1, <1>2 DEF CleanAlone, StartCleanAlone, ReportOpen
<1>5. "start" \notin posted'
  BY <1>1, <1>2
<1>6. ReportPending' /\ StartPending' /\ NoReportDropped'
  BY <1>1, <1>2, <1>5 DEF ReportPending, StartPending, NoReportDropped
<1>. QED
  BY <1>3, <1>4, <1>6 DEF Inv

LEMMA QuitKeepsInv ==
  ASSUME Inv, Quit
  PROVE  Inv'
<1>. USE DEF Quit, Inv, TypeOK, Events, CleanAlone, StartCleanAlone, ReportPending,
             StartPending, ReportOpen, NoReportDropped
<1>1. CASE ~reporting
  <2>1. window' = "quit" /\ reporting' = FALSE
    BY <1>1
  <2>2. UNCHANGED <<scan, clean, cancelled, posted, drain, busy, canClean, listed, checked,
                   dialog, selected, cleaning, asked, owed, table>>
    BY <1>1 DEF watchers, widgets, model
  <2>3. TypeOK'
    BY <2>1, <2>2, Zenon
  <2>. QED
    BY <1>1, <2>1, <2>2, <2>3
<1>2. CASE reporting /\ Running
  BY <1>2 DEF StartScan, Running, watchers, widgets, model
<1>3. CASE reporting /\ ~Running
  BY <1>3 DEF StartScan, SetBusy, Running, model
<1>. QED
  BY <1>1, <1>2, <1>3

LEMMA DestroyKeepsInv ==
  ASSUME Inv, Destroy \/ Destroyed
  PROVE  Inv'
<1>1. UNCHANGED <<scan, clean, posted, drain, widgets, model, dialogs, history>>
  BY DEF Destroy, Destroyed, watchers
<1>2. window' \in {"destroying", "gone"} /\ cancelled' \in BOOLEAN
  BY DEF Destroy, Destroyed, watchers, Inv, TypeOK
<1>. QED
  BY <1>1, <1>2 DEF widgets, model, dialogs, history, Inv, TypeOK, CleanAlone,
     StartCleanAlone, ReportPending, StartPending, ReportOpen, NoReportDropped

LEMMA NextKeepsInv == Inv /\ [Next]_vars => Inv'
<1>. SUFFICES ASSUME Inv, [Next]_vars PROVE Inv'
  OBVIOUS
<1>1. CASE UNCHANGED vars
  BY <1>1 DEF vars, watchers, widgets, model, dialogs, history, Inv, TypeOK, CleanAlone,
     StartCleanAlone, ReportPending, StartPending, ReportOpen, NoReportDropped
<1>2. CASE EventLoop
  BY <1>2, FirstScanKeepsInv, ScanFinishedKeepsInv, CleanFinishedKeepsInv,
     RetranslateKeepsInv DEF EventLoop
<1>3. CASE User
  BY <1>3, RescanKeepsInv, CheckKeepsInv, StartCleanKeepsInv, OpenDialogKeepsInv,
     CloseKeepsInv, ConfirmKeepsInv, DismissKeepsInv, ApplyLanguageKeepsInv,
     CloseReportKeepsInv DEF User
<1>. QED
  BY <1>1, <1>2, <1>3, ScanEndsKeepsInv, CleanEndsKeepsInv,
     QuitKeepsInv, DestroyKeepsInv DEF Next, Stopped

\* Every state of the window is well typed, and only rules of the table are
\* checked.
THEOREM TypeCorrect == Spec => []TypeOK
<1>1. Inv => TypeOK
  BY DEF Inv
<1>. QED
  BY <1>1, InitInv, NextKeepsInv, PTL DEF Spec

\* Whatever the user presses, and whenever the workers end, a scan and a
\* cleanup never run together.
THEOREM WorkersExclusive == Spec => []NeverTwoWorkers
<1>1. Inv => NeverTwoWorkers
  BY DEF Inv, CleanAlone, NeverTwoWorkers
<1>. QED
  BY <1>1, InitInv, NextKeepsInv, PTL DEF Spec

\* The finished event of a cleanup is never dropped before it is delivered.
THEOREM ReportsArrive == Spec => []NoReportDropped
<1>1. Inv => NoReportDropped
  BY DEF Inv
<1>. QED
  BY <1>1, InitInv, NextKeepsInv, PTL DEF Spec

(***************************************************************************)
(* The table: whatever makes it stale leaves something behind that will    *)
(* start a scan, and whatever keeps the window busy is still to end.       *)
(***************************************************************************)
Alive == window \in {"open", "closed"}

TableTracked ==
  Alive => /\ ~cancelled
           /\ table = "stale" => \/ clean \/ reporting
                                 \/ "start" \in posted \/ "cleaned" \in posted
           /\ table = "renewing" => scan \/ "scanned" \in posted
           /\ scan => table = "renewing" /\ "scanned" \notin posted

WidgetsTracked ==
  Alive /\ ~Running /\ "scanned" \notin posted /\ "cleaned" \notin posted =>
    ~busy /\ (canClean <=> checked # {})

RestInv == TableTracked /\ WidgetsTracked

LEMMA InitRestInv == Init => RestInv
BY DEF Init, RestInv, TableTracked, WidgetsTracked, Alive

LEMMA EventLoopKeepsRest ==
  ASSUME Inv, RestInv, EventLoop
  PROVE  RestInv'
<1>. USE DEF Deliver, Running, watchers, widgets, model, dialogs, Inv, TypeOK, RestInv,
             TableTracked, WidgetsTracked, Alive
<1>1. CASE FirstScan
  BY <1>1 DEF FirstScan, StartScan, SetBusy, StartPending
<1>2. CASE ScanFinished
  BY <1>2 DEF ScanFinished, SetReport, SetBusy, UpdateSelectionSummary
<1>3. CASE CleanFinished
  BY <1>3 DEF CleanFinished, SetBusy, ReportPending
<1>4. CASE Retranslate
  BY <1>4 DEF Retranslate, UpdateSelectionSummary, history
<1>. QED
  BY <1>1, <1>2, <1>3, <1>4 DEF EventLoop

LEMMA UserKeepsRest ==
  ASSUME Inv, RestInv, User
  PROVE  RestInv'
<1>. USE DEF Input, WindowInput, DialogInput, Open, Running, watchers, widgets, model,
             dialogs, history, Inv, TypeOK, RestInv, TableTracked, WidgetsTracked, Alive
<1>1. CASE Rescan
  BY <1>1 DEF Rescan, StartScan, SetBusy
<1>2. ASSUME NEW r \in Rules, Check(r) PROVE RestInv'
  BY <1>2 DEF Check, Toggle, UpdateSelectionSummary
<1>3. CASE StartClean \/ OpenDialog \/ Dismiss
  BY <1>3 DEF StartClean, OpenDialog, Dismiss
<1>4. CASE Confirm
  BY <1>4 DEF Confirm, SetBusy, StartCleanAlone
<1>5. CASE ApplyLanguage
  BY <1>5 DEF ApplyLanguage
<1>6. CASE CloseReport
  BY <1>6 DEF CloseReport, StartScan, SetBusy, ReportOpen
<1>7. CASE Close
  BY <1>7 DEF Close
<1>. QED
  BY <1>1, <1>2, <1>3, <1>4, <1>5, <1>6, <1>7 DEF User

LEMMA NextKeepsRest == Inv /\ RestInv /\ [Next]_vars => RestInv'
<1>. SUFFICES ASSUME Inv, RestInv, [Next]_vars PROVE RestInv'
  OBVIOUS
<1>. USE DEF Running, watchers, widgets, model, dialogs, history, Inv, TypeOK, RestInv,
             TableTracked, WidgetsTracked, Alive
<1>1. CASE UNCHANGED vars
  BY <1>1 DEF vars
<1>2. CASE ScanEnds
  BY <1>2 DEF ScanEnds
<1>3. CASE CleanEnds
  BY <1>3 DEF CleanEnds
<1>4. CASE Quit \/ Destroy \/ Destroyed
  BY <1>4 DEF Quit, Destroy, Destroyed
<1>. QED
  BY <1>1, <1>2, <1>3, <1>4, EventLoopKeepsRest, UserKeepsRest DEF Next, Stopped

\* A window at rest always shows a table scanned after the last cleanup.
THEOREM RestIsFresh == Spec => []FreshAtRest
<1>1. Inv /\ RestInv => FreshAtRest
  BY DEF Inv, TypeOK, RestInv, TableTracked, Alive, FreshAtRest, AtRest, Running
<1>. QED
  BY <1>1, InitInv, NextKeepsInv, InitRestInv, NextKeepsRest, PTL DEF Spec

\* A window at rest is never left busy, nor with a wrong Clean button.
THEOREM RestIsUsable == Spec => []UsableAtRest
<1>1. RestInv => UsableAtRest
  BY DEF RestInv, WidgetsTracked, Alive, UsableAtRest, AtRest
<1>. QED
  BY <1>1, InitInv, NextKeepsInv, InitRestInv, NextKeepsRest, PTL DEF Spec

(***************************************************************************)
(* The question: what startClean keeps for its answer is what it asked     *)
(* about, whatever is delivered meanwhile, and no other question can be    *)
(* put before the cleanup that followed has ended.                         *)
(***************************************************************************)
AskedTracked ==
  /\ dialog = "confirm" => selected = asked
  /\ clean => cleaning = asked

LEMMA InitAsked == Init => AskedTracked
BY DEF Init, AskedTracked

\* Starting a scan is no matter of the question.
LEMMA StartScanLeavesClean ==
  ASSUME NEW STATE pending, StartScan(pending)
  PROVE  clean' = clean
BY Zenon DEF StartScan, watchers

LEMMA NextKeepsAsked == AskedTracked /\ [Next]_vars => AskedTracked'
<1>. SUFFICES ASSUME AskedTracked, [Next]_vars PROVE AskedTracked'
  OBVIOUS
<1>. USE DEF AskedTracked, watchers, dialogs, history
<1>1. CASE EventLoop
  <2>1. UNCHANGED <<clean, dialog, selected, cleaning, asked>>
    BY <1>1, StartScanLeavesClean
       DEF EventLoop, FirstScan, ScanFinished, CleanFinished, Retranslate
  <2>. QED
    BY <2>1
<1>2. CASE StartClean
  BY <1>2 DEF StartClean, Running
<1>3. CASE Confirm
  BY <1>3 DEF Confirm, DialogInput
<1>4. CASE Rescan \/ CloseReport
  <2>1. UNCHANGED <<clean, dialog, selected, cleaning, asked>>
    BY <1>4, StartScanLeavesClean DEF Rescan, CloseReport
  <2>. QED
    BY <2>1
<1>5. CASE (\E r \in Rules : Check(r)) \/ Dismiss \/ OpenDialog \/ ApplyLanguage \/ Close
  BY <1>5 DEF Check, Dismiss, OpenDialog, Open, ApplyLanguage, Close
<1>6. CASE ScanEnds \/ CleanEnds
  BY <1>6 DEF ScanEnds, CleanEnds
<1>7. CASE Quit \/ Destroy \/ Destroyed \/ UNCHANGED vars
  <2>1. UNCHANGED <<clean, dialog, selected, cleaning, asked>>
    BY <1>7, StartScanLeavesClean DEF Quit, Destroy, Destroyed, vars
  <2>. QED
    BY <2>1
<1>. QED
  BY <1>1, <1>2, <1>3, <1>4, <1>5, <1>6, <1>7 DEF Next, User, Stopped

\* A running cleanup cleans what its question was about, whatever replaced the
\* table behind the question.
THEOREM ConfirmedIsCleaned == Spec => []CleansAsConfirmed
<1>1. AskedTracked => CleansAsConfirmed
  BY DEF AskedTracked, CleansAsConfirmed
<1>. QED
  BY <1>1, InitAsked, NextKeepsAsked, PTL DEF Spec

-----------------------------------------------------------------------------
(* The application. *)

LEMMA InitAllowed == AppInit => Init
BY DEF AppInit

LEMMA StepAllowed == [AppNext]_appVars => [Next]_vars
<1>. SUFFICES ASSUME [AppNext]_appVars PROVE [Next]_vars
  OBVIOUS
<1>1. CASE UNCHANGED appVars
  BY <1>1 DEF appVars
<1>2. CASE AppEventLoop
  BY <1>2 DEF AppEventLoop, Next, EventLoop
<1>3. CASE AppUser
  BY <1>3 DEF AppUser, SaveSettings, Next, User
<1>4. CASE AppScanEnds \/ AppCleanEnds \/ AppEnd \/ Stopped
  BY <1>4 DEF AppScanEnds, AppCleanEnds, AppEnd, Next
<1>. QED
  BY <1>1, <1>2, <1>3, <1>4 DEF AppNext

\* Languages and settings add nothing to what the window does: every
\* behaviour of the application is one of the window.
THEOREM WindowImplemented == AppSpec => Spec
BY InitAllowed, StepAllowed, PTL DEF AppSpec, Spec

\* What is proved of the window holds in the application.
THEOREM WindowCorrect ==
  AppSpec => [](/\ NeverTwoWorkers /\ NoReportDropped
                /\ FreshAtRest /\ UsableAtRest /\ CleansAsConfirmed)
BY WindowImplemented, WorkersExclusive, ReportsArrive, RestIsFresh, RestIsUsable,
   ConfirmedIsCleaned, PTL

-----------------------------------------------------------------------------

Shown == IF ResolveLanguage(setting) \in loadable THEN ResolveLanguage(setting) ELSE "en"

\* A message in the status bar belongs to a worker whose end was not handled.
MessageTracked ==
  labels["status"] # "none" => Running \/ posted \cap {"scanned", "cleaned"} # {}

LabelsTracked ==
  "language" \notin posted =>
    \A l \in Labels \ {"heading"} :
      \/ labels[l] = translator
      \/ l = "status" /\ (labels[l] = "none" \/ posted \cap {"scanned", "cleaned"} # {})

LangInv ==
  /\ loadable \subseteq Translations
  /\ labels = [l \in Labels |-> labels[l]]
  /\ active = translator /\ translator = Shown
  /\ MessageTracked /\ LabelsTracked

LEMMA InitLangInv == AppInit => LangInv
BY DEF AppInit, Init, LangInv, MessageTracked, LabelsTracked, Labels, Shown

LEMMA ScanStarts ==
  ASSUME TypeOK, NEW STATE pending, StartScan(pending), ~Running
  PROVE  /\ scan' = TRUE /\ scan' # scan
         /\ posted' = pending \ {"scanned"}
<1>1. scan' = TRUE /\ posted' = pending \ {"scanned"}
  BY Zenon DEF StartScan
<1>2. scan = FALSE
  BY DEF Running, TypeOK
<1>. QED
  BY <1>1, <1>2

\* A scan that starts writes its message, and drops no event otherwise.
LEMMA ScanLabelsKeep ==
  ASSUME TypeOK, LangInv, NEW STATE pending, pending \in {posted, posted \ {"start"}},
         StartScan(pending), ScanLabels, UNCHANGED languages
  PROVE  LangInv'
<1>. USE DEF LangInv, MessageTracked, LabelsTracked, Labels, Shown, ResolveLanguage,
             NormalizedLanguage, languages, ScanLabels, Write, StartScan, watchers, Running
<1>1. CASE Running
  BY <1>1
<1>2. CASE ~Running
  <2>1. /\ scan' = TRUE /\ scan' # scan
        /\ posted' = pending \ {"scanned"}
    BY <1>2, ScanStarts
  <2>2. labels' = [l \in Labels |-> IF l \in {"summary", "status"} THEN translator ELSE labels[l]]
    BY <2>1
  <2>3. UNCHANGED <<languages, translator>> /\ Shown' = Shown
    OBVIOUS
  <2>4. labels'["status"] = translator /\ MessageTracked'
    BY <2>1, <2>2
  <2>5. "language" \notin posted' => "language" \notin posted
    BY <2>1
  <2>6. LabelsTracked'
    BY <2>2, <2>3, <2>4, <2>5
  <2>. QED
    BY <2>2, <2>3, <2>4, <2>6
<1>. QED
  BY <1>1, <1>2

LEMMA StepLangInv == TypeOK /\ LangInv /\ [AppNext]_appVars => LangInv'
<1>. SUFFICES ASSUME TypeOK, LangInv, [AppNext]_appVars PROVE LangInv'
  OBVIOUS
<1>. USE DEF LangInv, MessageTracked, LabelsTracked, Labels, Shown, ResolveLanguage,
             NormalizedLanguage, Running, watchers, languages
<1>1. CASE UNCHANGED appVars
  BY <1>1 DEF appVars, vars
<1>2. CASE AppEventLoop
  <2>1. CASE FirstScan /\ ScanLabels /\ UNCHANGED languages
    BY <2>1, ScanLabelsKeep DEF FirstScan
  <2>2. CASE ScanFinished /\ ScanFinishedLabels /\ UNCHANGED languages
    BY <2>2 DEF ScanFinished, SetReport, ScanFinishedLabels
  <2>3. CASE CleanFinished /\ CleanFinishedLabels /\ UNCHANGED languages
    BY <2>3 DEF CleanFinished, CleanFinishedLabels
  <2>4. CASE Retranslate /\ RetranslateLabels /\ UNCHANGED languages
    BY <2>4 DEF Retranslate, RetranslateLabels, Write
  <2>. QED
    BY <1>2, <2>1, <2>2, <2>3, <2>4 DEF AppEventLoop
<1>3. CASE AppUser
  <2>1. CASE (Rescan \/ CloseReport) /\ ScanLabels /\ UNCHANGED languages
    BY <2>1, ScanLabelsKeep DEF Rescan, CloseReport
  <2>2. ASSUME NEW r \in Rules, Check(r), Write({"selection"}), UNCHANGED languages
        PROVE  LangInv'
    BY <2>2 DEF Check, Write
  <2>3. CASE Confirm /\ Write({"status"}) /\ UNCHANGED languages
    BY <2>3 DEF Confirm, Write
  <2>4. CASE (StartClean \/ Dismiss \/ OpenDialog \/ Close) /\ UNCHANGED labels
             /\ UNCHANGED languages
    BY <2>4 DEF StartClean, Dismiss, OpenDialog, Close
  <2>5. ASSUME NEW choice \in Choices, SaveSettings(choice) PROVE LangInv'
    <3>1. translator' = Shown' /\ active' = translator'
      BY <2>5, LanguageAssumption DEF SaveSettings, Activate, Languages, Choices
    <3>2. \/ "language" \in posted' /\ posted \subseteq posted'
          \/ posted' = posted /\ translator' = translator
      BY <2>5 DEF SaveSettings, Posts, ApplyLanguage, Dismiss
    <3>3. posted' \cap {"scanned", "cleaned"} = posted \cap {"scanned", "cleaned"}
          /\ scan' = scan /\ clean' = clean /\ labels' = labels /\ loadable' = loadable
      BY <2>5 DEF SaveSettings, ApplyLanguage, Dismiss
    <3>. QED
      BY <3>1, <3>2, <3>3
  <2>. QED
    BY <1>3, <2>1, <2>2, <2>3, <2>4, <2>5 DEF AppUser
<1>4. CASE AppScanEnds
  BY <1>4 DEF AppScanEnds, ScanEnds
<1>5. CASE AppCleanEnds
  BY <1>5 DEF AppCleanEnds, CleanEnds
<1>6. CASE AppEnd
  <2>1. CASE Quit /\ ScanLabels /\ UNCHANGED languages
    BY <2>1, ScanLabelsKeep DEF Quit, ScanLabels, Write
  <2>2. CASE (Destroy \/ Destroyed) /\ UNCHANGED labels /\ UNCHANGED languages
    BY <2>2 DEF Destroy, Destroyed
  <2>. QED
    BY <1>6, <2>1, <2>2 DEF AppEnd
<1>7. CASE Stopped /\ UNCHANGED <<languages, labels>>
  BY <1>7 DEF Stopped, vars
<1>. QED
  BY <1>1, <1>2, <1>3, <1>4, <1>5, <1>6, <1>7 DEF AppNext

LEMMA LanguageInvariance == AppSpec => []LangInv
BY WindowImplemented, TypeCorrect, InitLangInv, StepLangInv, PTL DEF AppSpec

\* All parts of an open window but its heading agree on the language as soon
\* as the LanguageChange event was delivered.
THEOREM OneLanguage == AppSpec => []LabelsCurrent
<1>1. LangInv => LabelsCurrent
  BY DEF LangInv, LabelsTracked, LabelsCurrent
<1>. QED
  BY <1>1, LanguageInvariance, PTL

\* A window at rest is written in the language of the last settings.
THEOREM SettingObeyed == AppSpec => []SettingShown
<1>1. LangInv => SettingShown
  BY DEF LangInv, LabelsTracked, SettingShown, AtRest, Labels, Shown
<1>. QED
  BY <1>1, LanguageInvariance, PTL
=============================================================================
