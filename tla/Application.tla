----------------------------- MODULE Application -----------------------------
(***************************************************************************)
(* The graphical application as a whole: the window (MainWindow), the      *)
(* setting and the dialog that changes it (src/gui/settings_dialog.cpp),   *)
(* and LanguageManager, which installs the translation                     *)
(* (src/gui/language_manager.cpp).                                         *)
(*                                                                         *)
(* A text is translated when it is written, so each part of the window     *)
(* keeps the language it was last written in.  The window writes some of   *)
(* its parts in slots that run while a LanguageChange event still waits,   *)
(* and a part that no slot writes again stays as it is.  Cells of the      *)
(* table are translated whenever they are painted and are left out.        *)
(***************************************************************************)
EXTENDS MainWindow

CONSTANTS
  Translations,   \* the languages there are translations for
  Spelled         \* values a settings file may hold, and the choice each names

Languages == Translations \cup {"en"}
Choices == Languages \cup {"system"}

ASSUME LanguageAssumption ==
  /\ "en" \notin Translations /\ "system" \notin Translations
  /\ Spelled \in [DOMAIN Spelled -> Choices]
  /\ \A c \in Choices \cap DOMAIN Spelled : Spelled[c] = c

VARIABLES
  locale,      \* the language of the desktop, English if it is none of these
  loadable,    \* the translations that load
  setting,     \* General/language, as it is stored
  active,      \* activeLanguage_
  translator,  \* the language of the installed translator, English without
  labels       \* the language each part of the window was written in

languages == <<locale, loadable, setting, active, translator>>
appVars == <<vars, languages, labels>>

Labels == {
  "heading",     \* the title and its accessible name
  "fixed",       \* buttons, menus, other accessible names, system summary
  "summary", "selection", "details",
  "status"}      \* the message in the status bar, "none" without one

AppTypeOK ==
  /\ locale \in Languages /\ loadable \subseteq Translations
  /\ setting \in Choices \cup DOMAIN Spelled
  /\ active \in Languages /\ translator \in Languages
  /\ labels \in [Labels -> Languages \cup {"none"}]

-----------------------------------------------------------------------------
(* LanguageManager *)

\* Without regard to blanks, case and region.
NormalizedLanguage(value) ==
  IF value \in Choices THEN value
  ELSE IF value \in DOMAIN Spelled THEN Spelled[value]
  ELSE "system"

ResolveLanguage(value) ==
  IF NormalizedLanguage(value) = "system" THEN locale ELSE NormalizedLanguage(value)

\* Faulty: the old translator is removed only when the new one was loaded.
ActivateAnyway(resolved) ==
  active' = resolved /\ translator' = IF resolved \in loadable THEN resolved ELSE translator

\* applyLanguage from where the translator is removed.
Activate(resolved) ==
  /\ translator' = IF resolved \in loadable THEN resolved ELSE "en"
  /\ active' = IF resolved \in loadable THEN resolved ELSE "en"

-----------------------------------------------------------------------------
(* main, up to window.show(): the translation comes before the window. *)

AppInit ==
  /\ Init
  /\ locale \in Languages
  /\ loadable \in SUBSET Translations
  /\ setting \in Choices \cup DOMAIN Spelled
  /\ active = (IF ResolveLanguage(setting) \in loadable THEN ResolveLanguage(setting) ELSE "en")
  /\ translator = active
  /\ labels = [l \in Labels |-> IF l = "status" THEN "none" ELSE translator]

-----------------------------------------------------------------------------
(* What each slot of the window writes. *)

Write(written) == labels' = [l \in Labels |-> IF l \in written THEN translator ELSE labels[l]]

\* startScan writes only if it starts a scan.
ScanLabels == Write(IF scan' # scan THEN {"summary", "status"} ELSE {})

ScanFinishedLabels ==
  labels' = [l \in Labels |->
               IF l = "status" THEN "none"
               ELSE IF l \in {"summary", "selection", "details"} /\ ~cancelled THEN translator
               ELSE labels[l]]

CleanFinishedLabels == labels' = [labels EXCEPT !["status"] = "none"]

\* Faulty: retranslateUi leaves the message of a running worker.
RetranslateIdle == Write({"fixed", "summary", "selection", "details"})

\* A message is shown anew only while its worker runs.
RetranslateLabels ==
  Write({"fixed", "summary", "selection", "details"} \cup IF Running THEN {"status"} ELSE {})

-----------------------------------------------------------------------------
(* showSettings: the setting is saved, the language applied to all texts   *)
(* written from now on; removing and installing a translator both post a   *)
(* LanguageChange event to the window.                                     *)

Posts(resolved) == resolved # active /\ (translator # "en" \/ translator' # "en")

SaveSettings(choice) ==
  LET resolved == ResolveLanguage(choice) IN
  /\ DialogInput("settings")
  /\ setting' = choice
  /\ IF resolved = active THEN UNCHANGED <<active, translator>> ELSE Activate(resolved)
  /\ IF Posts(resolved) THEN ApplyLanguage ELSE Dismiss
  /\ UNCHANGED <<locale, loadable, labels>>

-----------------------------------------------------------------------------

AppEventLoop ==
  /\ \/ FirstScan /\ ScanLabels
     \/ ScanFinished /\ ScanFinishedLabels
     \/ CleanFinished /\ CleanFinishedLabels
     \/ Retranslate /\ RetranslateLabels
  /\ UNCHANGED languages

AppUser ==
  \/ /\ \/ (Rescan \/ CloseReport) /\ ScanLabels
        \/ \E r \in Rules : Check(r) /\ Write({"selection"})
        \/ Confirm /\ Write({"status"})
        \/ (StartClean \/ Dismiss \/ OpenDialog \/ Close) /\ UNCHANGED labels
     /\ UNCHANGED languages
  \/ \E choice \in Choices : SaveSettings(choice)

AppEnd ==
  /\ (Quit /\ ScanLabels) \/ ((Destroy \/ Destroyed) /\ UNCHANGED labels)
  /\ UNCHANGED languages

AppScanEnds == ScanEnds /\ UNCHANGED <<languages, labels>>
AppCleanEnds == CleanEnds /\ UNCHANGED <<languages, labels>>

AppNext ==
  \/ AppEventLoop \/ AppUser \/ AppScanEnds \/ AppCleanEnds \/ AppEnd
  \/ Stopped /\ UNCHANGED <<languages, labels>>

\* The GUI thread and the workers are scheduled; the user need not do anything.
AppSpec ==
  /\ AppInit /\ [][AppNext]_appVars
  /\ WF_appVars(AppEventLoop) /\ WF_appVars(AppEnd)
  /\ WF_appVars(AppScanEnds) /\ WF_appVars(AppCleanEnds)

-----------------------------------------------------------------------------
(* Correctness. *)

\* Everything the window shows is in one language once no LanguageChange
\* waits, in whatever order slots and event come; only the message of a
\* worker that has ended may stay until the end of the worker is handled.
\* The heading is never translated again.
LabelsCurrent ==
  window = "open" /\ "language" \notin posted =>
    \A l \in Labels \ {"heading"} :
      \/ labels[l] = translator
      \/ l = "status" /\ (labels[l] = "none" \/ posted \cap {"scanned", "cleaned"} # {})

\* A window at rest is written in the language that was set, or in English
\* if its translation does not load, also after other settings.
SettingShown ==
  AtRest =>
    LET wanted == ResolveLanguage(setting) IN
    \A l \in Labels \ {"heading", "status"} :
      labels[l] = IF wanted \in loadable THEN wanted ELSE "en"
=============================================================================
