\* Two requests of every kind through the brokered pipeline.
SPECIFICATION Spec
CONSTANTS
  alice = alice  bob = bob  home = home  invoke = invoke  other = other
  ide = ide  rogue = rogue  gpt = gpt  shadow = shadow  guid = guid
  n1 = n1  n2 = n2  None = None
  Requests = {r1, r2}
  Messages <- AllMessages
  Tids = {home}  Oids = {alice, bob}
  Scopes = {invoke, other}  Apps = {ide, rogue}
  Models = {gpt, shadow}  Guids = {guid}
  Brokered = TRUE  RequiredScope = invoke  AllowedApps = {ide}
  ApprovedModel = gpt  BackendStatuses = {200, 403, 429, 500}
  Nodes = {n1}  Keys <- MCKeys
  Calls = 1  TokensPerMinute = 2  DailyQuota = 2  MaxCost = 2
CHECK_DEADLOCK FALSE
INVARIANT OnlyContractualForwarded
INVARIANT BackendSeesValidatedIdentity
INVARIANT OneRecordPerAnswer
INVARIANT TruthfulRecords
INVARIANT RefusalOrder
PROPERTY EveryRequestEnds
PROPERTY KeepsPromise
