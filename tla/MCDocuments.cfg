\* Each promise once, in order.
CONSTANTS
  IMax = 7
  Inputs <- DocumentInputs
SPECIFICATION DocumentSpec
INVARIANT DocumentsKept
