SPECIFICATION FairSpec
CONSTANTS
  NKeys = 4
  Known <- KnownKeys
  Gated <- GatedKeys
  Blocked = {3}
  Extra = {4}
  ExtraGated = {4}
  Verbatim = {3}
  Index = 4
  Value = {"new"}
  Bad = "bad"
  Unset = "unset"
  Backup <- BackupFile
  Handler = {h1}
  Watcher = watcher
  MaxVersion = 1
INVARIANTS TypeOK
PROPERTIES Redetected GateHonoured RestoreComplete
