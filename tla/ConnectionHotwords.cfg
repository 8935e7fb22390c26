\* One connection that asks for hotwords before the model is loaded, with a
\* sherpa build whose streams do not take them.
SPECIFICATION Spec
CONSTANTS
  h1 = h1
  h2 = h2
  None = None
  Scripts <- HotwordScripts
  Hotwords = {h1, h2}
  QueueSize = 1
  ReceiveDeadline = FALSE
  HotwordStreams = FALSE
  MaxHeartbeats = 0
INVARIANT HotwordsTruthful
CHECK_DEADLOCK FALSE
