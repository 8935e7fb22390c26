\* Does a backend failure take the session out of service?
SPECIFICATION Spec
CONSTANTS
  s = s
  t = t
  Samples = {s, t}
  Payloads <- MCPayloads
  Digest <- MCDigest
  Blank = Blank
  text = text
  Texts = {Blank, text}
  r1 = r1
  r2 = r2
  r3 = r3
  ResetIds = {r1, r2}
  HasFinalizer = FALSE
  ResetMayRaise = TRUE
  MaxUtteranceSamples = 3
  MaxSessionSamples = 4
  FingerprintCapacity = 2
  ResetCacheCapacity = 1
  MaxStateVersion = 3
INVARIANT FailClosed
