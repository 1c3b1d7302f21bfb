--------------------------- MODULE GatewayPromise ---------------------------
(***************************************************************************)
(* What the gateway promises of each request, whatever its policies do in  *)
(* between: it is refused without cost, or, when it is admissible, it runs *)
(* exactly one inference and is then answered (docs/api-contract.md,       *)
(* "Retries"; docs/architecture.md).                                       *)
(***************************************************************************)
EXTENDS Naturals

CONSTANT Requests

VARIABLES
  admissible,   \* admissible[r]: the contract and the entitlement hold for r
  phase,        \* phase[r]: "open", "inference", "answered" or "refused"
  inferences    \* inferences[r]: inferences run for r

vars == <<admissible, phase, inferences>>

Init ==
  /\ admissible \in [Requests -> BOOLEAN]
  /\ phase = [r \in Requests |-> "open"]
  /\ inferences = [r \in Requests |-> 0]

Refuse(r) ==
  /\ phase[r] = "open"
  /\ phase' = [phase EXCEPT ![r] = "refused"]
  /\ UNCHANGED <<admissible, inferences>>

Infer(r) ==
  /\ phase[r] = "open"
  /\ admissible[r]
  /\ phase' = [phase EXCEPT ![r] = "inference"]
  /\ inferences' = [inferences EXCEPT ![r] = @ + 1]
  /\ UNCHANGED admissible

Reply(r) ==
  /\ phase[r] = "inference"
  /\ phase' = [phase EXCEPT ![r] = "answered"]
  /\ UNCHANGED <<admissible, inferences>>

Next == \E r \in Requests : Refuse(r) \/ Infer(r) \/ Reply(r)

Spec == Init /\ [][Next]_vars
=============================================================================
