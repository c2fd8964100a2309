SPECIFICATION AppSpec
CONSTANTS
  cache = cache
  trash = trash
  Rules <- MCRules
  Defaults <- MCDefaults
  Translations <- MCTranslations
  Spelled <- MCSpelled
INVARIANTS
  NeverTwoWorkers
  NoReportDropped
  FreshAtRest
  UsableAtRest
  CleansAsConfirmed
  LabelsCurrent
  SettingShown
PROPERTIES
  ClosedStops
