CONSTANTS
  Flows <- MCFlows
  Offers <- MCOffers
  Limit <- MCLimit
  Supported <- MCSupported
  Program <- MCProgram
  ScimFlows <- MCScimFlows
  FreshFlows <- MCFreshFlows
  RefreshFlow <- MCRefreshFlow
  Windows <- LoginWindows
  NoWindow <- NoLoginWindow
  Ids <- ScimIds
  ErrorWindow = "oauth_authorization"
  NoFlow = NoFlow
  MaxRuns = 2
  MaxExecutors = 3
  MaxMail = 1
SPECIFICATION Spec
INVARIANTS TypeOK PageShowsCurrent TokensFromOwnLogin CompletedHasTokens NeverStuck CleansUp
PROPERTIES NoLateRequest Settles
CHECK_DEADLOCK FALSE
