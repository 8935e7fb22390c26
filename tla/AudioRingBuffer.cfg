\* A four-sample buffer and every array of up to five samples.
SPECIFICATION Spec
CONSTANTS
  Capacity = 4
  Samples = {0, 1}
  Arrays <- MCArrays
PROPERTY HoldsNewest
