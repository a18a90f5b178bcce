SPECIFICATION ExtSpec
CONSTANTS
  Exts = {"e"}
  Paths = {"o", "p"}
  Pages = {"p1", "p2"}
  Ported = {"p1"}
  MaxTokens = 1
  MaxPosts = 1
  MaxKills = 1
  Messages = {"m1", "m2"}
  Listeners = {"a", "b"}
  Admitted = {"m1"}
  MaxClears = 1
  Required = {"blocking"}
  Optional = {"host"}
  MaxCalls = 2
  MaxPuts = 2
  MaxEnds = 1
  Keys = {"a", "b"}
  AreaCalls = {1, 2}
  Sizes = {1, 2}
  Quota = 3
  MaxItem = 1
  MaxItems = 1
  MaxWrites = 2
  MaxReloads = 1
  ControlCalls = {1, 2}
  Senders <- ThreeSenders
  MaxChain = 1
  MaxReboots = 1
CHECK_DEADLOCK FALSE
INVARIANTS CopiesAgree StorageIsKept AnswersAreSound PagesAndPortsAgree AcksAreSound GrantsAgree
