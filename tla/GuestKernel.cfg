SPECIFICATION KernelSpec
CONSTANTS
  Scopes = {1, 2}
  Hosts = {h1}
  NoHost = NoHost
  URLs = {u1}
  Versions = {0, 1}
  Callers = {c1}
  Fetches = {f1}
  What = {"update"}
  RegistrationsMax = 2
  MaxRealms = 2
CHECK_DEADLOCK FALSE
INVARIANTS RealmsAgree OneResult
PROPERTIES CallersAreKept
