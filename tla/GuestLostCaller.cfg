SPECIFICATION Spec
CONSTANTS
  Scopes = {1}
  Hosts = {h1}
  NoHost = NoHost
  URLs = {u1}
  Versions = {0}
  Callers = {c1}
  Fetches = {f1}
  What = {"update"}
  RegistrationsMax = 1
  MaxRealms = 1
CHECK_DEADLOCK FALSE
INVARIANTS ConfirmedCallersKept
