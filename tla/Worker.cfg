SPECIFICATION WorkerSpec
CONSTANTS
  Hosts = {h1, h2}
  f1 = f1
  NoHost = NoHost
  Frames = {f1}
  MaxPushes = 2
  MaxReboots = 1
  Origins = {"o1", "o2"}
  Ids <- FourCookies
  DomainOf <- Domains
  PerDomain = 2
  Total = 3
  Stored = {"a2", "b1"}
  Inputs <- Settable
  MaxOps = 2
  MaxNow = 2
  MaxRestarts = 1
  Prefixes = {"/x/"}
  Primaries = {"wss://w1"}
  Alts = {"wss://a1"}
  MaxMessages = 3
  MaxKills = 1
SYMMETRY Symmetry
CHECK_DEADLOCK FALSE
INVARIANTS SettingsAreKept LinkIsSound
PROPERTIES JarIsSound WindowsKeepTheirJar
