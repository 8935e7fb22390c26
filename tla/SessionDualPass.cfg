\* A dual-pass session whose backend may raise in every call.
SPECIFICATION Spec
CONSTANTS
  s = s
  t = t
  Samples = {s, t}
  Payloads <- MCPayloads
  Digest <- MCDigest
  Blank = Blank
  text = text
  Texts = {Blank, text}
  r1 = r1
  r2 = r2
  r3 = r3
  ResetIds = {r1, r2, r3}
  HasFinalizer = TRUE
  ResetMayRaise = TRUE
  MaxUtteranceSamples = 3
  MaxSessionSamples = 4
  FingerprintCapacity = 2
  ResetCacheCapacity = 2
  MaxStateVersion = 5
SYMMETRY MCSymmetry
INVARIANTS
  TypeOK
  UtterancesPartitionStream
  LimitsHold
  FingerprintsFaithful
  DuplicatesAreReal
  UtterancesWellFormed
  DecoderInSync
  ResetCacheOrdered
PROPERTIES
  VersionTracksState
  ServiceResumesFresh
  KeepsPromise
