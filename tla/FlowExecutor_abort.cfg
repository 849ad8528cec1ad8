CONSTANTS
  Flows <- MCFlows
  Offers <- MCOffers
  Limit <- MCLimit
  Supported <- MCSupported
  Program <- MCProgram
  ScimFlows <- MCScimFlows
  FreshFlows <- MCFreshFlows
  RefreshFlow <- MCRefreshFlow
  Windows <- LoginWindows
  NoWindow <- NoLoginWindow
  Ids <- ScimIds
  ErrorWindow = "oauth_authorization"
  NoFlow = NoFlow
  MaxRuns = 1
  MaxExecutors = 3
  MaxMail = 1
SPECIFICATION Spec
PROPERTIES IdleUntilExecuted
CHECK_DEADLOCK FALSE
