\* Two calls, an expiring token, a restart and another person signing in.
\* Statuses: one of each class; another one counts as an answer that never comes.
SPECIFICATION Spec
CONSTANTS
  alice = alice  bob = bob  home = home  invoke = invoke  ide = ide  gpt = gpt
  n1 = n1  None = None
  Requests = {r1, r2}
  Capturing = FALSE
  Skew = 1  Timeout = 1
  Lifetimes = {2}
  Statuses = {200, 401, 429, 504}
  MaxTime = 2  MaxRestarts = 1  MaxChunks = 0  MaxSwitches = 1
  Messages <- MCMessages
  Tids = {home}  Oids = {alice, bob}
  Scopes = {invoke}  Apps = {ide}
  Models = {gpt}  Guids = {}
  Brokered = TRUE  RequiredScope = invoke  AllowedApps = {ide}
  ApprovedModel = gpt  BackendStatuses = {200}
  Nodes = {n1}  Keys <- MCKeys
  Calls = 1  TokensPerMinute = 1  DailyQuota = 1  MaxCost = 0
SYMMETRY Symmetry
CHECK_DEADLOCK FALSE
INVARIANT SignedInIsServed
INVARIANT RunsAsSignedIn
PROPERTY KeepsPromise
