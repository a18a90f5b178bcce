SPECIFICATION RequestsSpec
CONSTANTS
  c1 = c1
  c2 = c2
  r1 = r1
  r2 = r2
  a = a
  b = b
  Clients <- TwoClients
  Sites <- TwoSites
  Requests <- TwoRequests
  Cap = 1
  MaxRestarts = 1
  Navigating <- Navigations
  Carrying <- PathShapes
  Urls <- ChainUrls
  Origin <- ChainOrigin
  First = "a1"
  Submitted <- ChainInputs
  MaxHops = 2
SYMMETRY Alike
CHECK_DEADLOCK FALSE
INVARIANTS RequestsFindTheirHome HopsAreSound AnswersAreTreated LoadsAreGated
