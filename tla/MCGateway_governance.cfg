\* Three requests of two entitled users against the counters of two nodes, passthrough.
SPECIFICATION Spec
CONSTANTS
  alice = alice  bob = bob  home = home  invoke = invoke  other = other
  ide = ide  rogue = rogue  gpt = gpt  shadow = shadow  guid = guid
  n1 = n1  n2 = n2  None = None
  Requests = {r1, r2, r3}
  Messages <- GoodMessages
  Tids = {home}  Oids = {alice, bob}
  Scopes = {invoke, other}  Apps = {ide, rogue}
  Models = {gpt, shadow}  Guids = {guid}
  Brokered = FALSE  RequiredScope = None  AllowedApps = {}
  ApprovedModel = gpt  BackendStatuses = {200, 403, 429, 500}
  Nodes = {n1, n2}  Keys <- MCKeys
  Calls = 1  TokensPerMinute = 1  DailyQuota = 2  MaxCost = 1
CHECK_DEADLOCK FALSE
INVARIANT WindowCeiling
PROPERTY ChargedForOwnInference
