\* The order in which the private profile's gateway is opened and closed.
SPECIFICATION Spec
CONSTANTS
  Private = TRUE
  None = None
INVARIANT NoPublicInference
