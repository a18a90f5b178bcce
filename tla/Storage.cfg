SPECIFICATION StorageSpec
CONSTANTS
  Keys = {k1, k2, k3}
  NoKey = NoKey
  r1 = r1
  r2 = r2
  Limit = 4
  MaxLives = 3
  Reqs = {"r1", "r2"}
  MaxSize = 3
  ReplayCap = 1
  SpoolCap = 2
  Budget = 3
  CopyBound = 1
  Fetches = {r1, r2}
  Documents = {"d"}
  Scripts = {"j"}
  Revalidated = {"j"}
  PageLimit = 1
  TotalMax = 2
  MaxLogouts = 1
  Names = {"n1", "n2"}
  GuestUrls = {"u1", "u2", "u3"}
  Sizes = {1, 2, 4}
  MaxCaches = 1
  MaxEntries = 2
  MaxBytes = 3
SYMMETRY Alike
CHECK_DEADLOCK FALSE
INVARIANTS RecordsAreSound SpoolsAreSound CachesAreSound
PROPERTIES DownloadsAreSound
