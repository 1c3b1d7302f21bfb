\* Overlapping calls that share a token, refusals, expiry, capture on.
SPECIFICATION Spec
CONSTANTS
  Requests = {r1, r2, r3}
  Capturing = TRUE
  Skew = 1
  Timeout = 1
  Lifetimes = {2, 3}
  Statuses = {200, 401}
  MaxTime = 2
  MaxRestarts = 1
  MaxChunks = 1
  None = None
SYMMETRY Symmetry
CHECK_DEADLOCK FALSE
INVARIANT SignInsNeeded
INVARIANT CompleteOnlyIfWhole
PROPERTY AskedAfterRefusal
PROPERTY KeepsPromise
