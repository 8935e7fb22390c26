\* Frames of two samples, debounce of two frames each way.
SPECIFICATION Spec
CONSTANTS
  FrameSamples = 2
  MinSpeechSamples = 3
  MinSilenceSamples = 3
  StartPower = 2
  ContinuePower = 1
  Amplitudes = {0, 1, 2}
  Inputs <- MCInputs
  MaxSamples = 9
INVARIANTS
  SegmentsDisjoint
  Debounced
  BoundariesJustified
  ChunkingInvisible
