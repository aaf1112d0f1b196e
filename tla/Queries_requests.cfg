CONSTANTS
  Components <- MCComponents
  Number <- MCNumber
  Above <- MCAbove
  Norm <- MCNorm
  Locations <- MCLocations
  FRUs <- MCFRUs
  History <- MCHistory
  RFEndpoints <- MCRFEndpoints
  CompEndpoints <- MCCompEndpoints
  ServiceEndpoints <- MCServiceEndpoints
  EthInterfaces <- MCEthInterfaces
  Mentions <- MCMentions
  Words <- MCWords
  QueryRequests <- MCQueryRequests
  EndpointReports <- Reports
  At <- MCAt
  Env <- MCEnv
SPECIFICATION Spec
CHECK_DEADLOCK FALSE
INVARIANTS ComponentsMatch UpdatesAgree InventoryMatches ListingsAgree WholeTree OrderIsFree
