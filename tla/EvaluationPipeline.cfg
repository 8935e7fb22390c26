CONSTANTS
  u1 = u1  u2 = u2  u3 = u3
  snd1 = snd1  snd2 = snd2  snd3 = snd3  noise = noise
  t1 = t1  t2 = t2
  w1 = w1  w2 = w2  w3 = w3
  dev = dev  test = test
  Order <- MCOrder
  SplitOf <- MCSplitOf
  SpeakerOf <- MCSpeakerOf
  Original <- MCOriginal
  Contents = {snd1, snd2, snd3, noise}
  Texts = {t1, t2}
  OriginalText = t1
  Weights = {w1, w2, w3}
  FirstWeights = w1
  Plausible = {w1, w2}
  Extractions <- MCExtractions
  Preparations <- MCPreparations
  Runs <- MCRuns
  Absent = Absent
  Torn = Torn
  MaxFaults = 1
  MaxChanges = 2
  Restores = FALSE
SPECIFICATION Spec
INVARIANTS
  EvaluatedHonest
  RunEvidenceBound
  
PROPERTIES
  OutputsAppearWhole
CHECK_DEADLOCK FALSE
