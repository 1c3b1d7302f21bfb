\* Two runs of the command, the second possibly beside the first one's request.
SPECIFICATION Spec
CONSTANTS
  alice = alice  home = home  invoke = invoke  cli = cli  gpt = gpt  shadow = shadow
  n1 = n1  None = None
  MaxEvents = 2
  MaxRuns = 2
  Messages <- MCMessages
  Tids = {home}  Oids = {alice}
  Scopes = {invoke}  Apps = {cli}
  Models = {gpt, shadow}  Guids = {}
  Brokered = TRUE  RequiredScope = invoke  AllowedApps = {cli}
  ApprovedModel = gpt  BackendStatuses = {200, 429, 500}
  Nodes = {n1}  Keys <- MCKeys
  Calls = 1  TokensPerMinute = 1  DailyQuota = 1  MaxCost = 1
CHECK_DEADLOCK FALSE
PROPERTY KeepsPromise
