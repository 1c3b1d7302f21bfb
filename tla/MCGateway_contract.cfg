\* One request of every kind against the contract as documented.
SPECIFICATION Spec
CONSTANTS
  alice = alice  bob = bob  home = home  invoke = invoke  other = other
  ide = ide  rogue = rogue  gpt = gpt  shadow = shadow  guid = guid
  n1 = n1  n2 = n2  None = None
  Requests = {r1}
  Messages <- AllMessages
  Tids = {home}  Oids = {alice, bob}
  Scopes = {invoke, other}  Apps = {ide, rogue}
  Models = {gpt, shadow}  Guids = {guid}
  Brokered = FALSE  RequiredScope = invoke  AllowedApps = {ide}
  ApprovedModel = gpt  BackendStatuses = {200}
  Nodes = {n1}  Keys <- MCKeys
  Calls = 1  TokensPerMinute = 2  DailyQuota = 2  MaxCost = 0
CHECK_DEADLOCK FALSE
INVARIANT StoreContractKept
