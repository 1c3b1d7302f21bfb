-------------------------- MODULE TokenGovernance --------------------------
(***************************************************************************)
(* The counters behind policies/fragments/token-governance.xml.            *)
(*                                                                         *)
(* The two limiting policies are API Management's own, so what a counter   *)
(* does is modelled from what the fragment configures and from what its    *)
(* comments report as measured:                                            *)
(*   - rate-limit-by-key counts requests per user, per gateway NODE, in    *)
(*     windows of renewal-period = 1 second;                               *)
(*   - llm-token-limit counts tokens per user, per minute and per day, and *)
(*     with estimate-prompt-tokens = false it learns what a request cost   *)
(*     only when the response is over.                                     *)
(*                                                                         *)
(* The module has no Next of its own: Gateway runs these operators as part *)
(* of its steps, so that the counters meet the requests in flight.         *)
(***************************************************************************)
EXTENDS Naturals, FiniteSets

CONSTANTS
  Nodes,           \* gateway scale units, each with its own request counter
  Keys,            \* quota keys, tid:oid
  Calls,           \* map-max-concurrent-per-user
  TokensPerMinute, \* map-tokens-per-minute
  DailyQuota,      \* map-daily-token-quota
  MaxCost          \* bound: tokens one inference can consume

ASSUME GovernanceAssumption ==
  /\ Calls \in Nat \ {0}
  /\ TokensPerMinute \in Nat \ {0}
  /\ DailyQuota \in Nat \ {0}
  /\ MaxCost \in Nat
  /\ IsFiniteSet(Nodes)

VARIABLES
  burst,           \* burst[n][k]: calls of k that node n let through this second
  minute,          \* minute[k]: tokens charged to k this minute
  day              \* day[k]: tokens charged to k this UTC day

governanceVars == <<burst, minute, day>>

GovernanceTypeOK ==
  /\ burst \in [Nodes -> [Keys -> 0 .. Calls]]
  /\ minute \in [Keys -> Nat]
  /\ day \in [Keys -> Nat]

GovernanceInit ==
  /\ burst = [n \in Nodes |-> [k \in Keys |-> 0]]
  /\ minute = [k \in Keys |-> 0]
  /\ day = [k \in Keys |-> 0]

-----------------------------------------------------------------------------
(* Mutants of the operators below. *)
CountCallForgotten(n, k) == UNCHANGED burst
ChargeEverybody(k, cost) ==
  /\ minute' = [j \in Keys |-> minute[j] + cost]
  /\ day' = [j \in Keys |-> day[j] + cost]
  /\ UNCHANGED burst

(* rate-limit-by-key at node n. *)
WithinRate(n, k) == burst[n][k] < Calls

CountCall(n, k) == burst' = [burst EXCEPT ![n][k] = @ + 1]

(* llm-token-limit: the per-minute limit answers 429, the daily quota 403. *)
WithinMinute(k) == minute[k] < TokensPerMinute
WithinDay(k) == day[k] < DailyQuota

ChargeTokens(k, cost) ==
  /\ minute' = [minute EXCEPT ![k] = @ + cost]
  /\ day' = [day EXCEPT ![k] = @ + cost]
  /\ UNCHANGED burst

(* The three windows roll over independently of any request. A window that *)
(* counted nothing rolls over unseen. *)
NextSecond ==
  /\ \E n \in Nodes, k \in Keys : burst[n][k] > 0
  /\ burst' = [n \in Nodes |-> [k \in Keys |-> 0]]
  /\ UNCHANGED <<minute, day>>

NextMinute ==
  /\ \E k \in Keys : minute[k] > 0
  /\ minute' = [k \in Keys |-> 0]
  /\ burst' = [n \in Nodes |-> [k \in Keys |-> 0]]
  /\ UNCHANGED day

NextDay ==
  /\ \E k \in Keys : day[k] > 0
  /\ day' = [k \in Keys |-> 0]
  /\ minute' = [k \in Keys |-> 0]
  /\ burst' = [n \in Nodes |-> [k \in Keys |-> 0]]
=============================================================================
