\* Two archives, two versions, two faults, one change of an object.
SPECIFICATION FairSpec
CONSTANTS
  audio = audio
  resources = resources
  v1 = v1
  v2 = v2
  Absent = Absent
  Torn = Torn
  Archives = {audio, resources}
  Order <- MCOrder
  Versions = {v1, v2}
  Size <- MCSize
  LegacyVersion = v1
  MaxFaults = 2
  MaxChanges = 1
INVARIANTS
  NeverMixed
  ValidatorRetained
  ReceiptsTruthful
  ManifestBacked
  MigrationVouchesAll
PROPERTY RestartsFinish
CHECK_DEADLOCK FALSE
