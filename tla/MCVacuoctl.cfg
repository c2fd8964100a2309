CONSTANTS
  window = window
  vacuoctl = vacuoctl
  Cleaners = {window, vacuoctl}
  Browsers <- MCBrowsers
  CacheDevelopers <- MCCacheDevelopers
  HomeDevelopers <- MCHomeDevelopers
  DataGames <- MCDataGames
  HomeGames <- MCHomeGames
  Apps <- MCApps
  SystemIds <- MCSystemIds
  Names <- MCNames
  Situations <- MCSituations
  Requests <- MCRequests
  Rank <- MCRank
  Links <- MCLinks
  Arrivals <- MCArrivals
  Files <- MCFiles
  Foreign <- MCForeign
  MaxDepth = 3
  Cli = vacuoctl
  ArgumentLists <- MCArguments
  MaxChanges = 1
  MaxFaults = 1
SPECIFICATION CliSpec
INVARIANT ReportFaithful
INVARIANT Accounted
INVARIANT ExitFaithful
PROPERTY OnlyRequested
PROPERTY CategoriesApart
