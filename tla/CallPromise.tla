---------------------------- MODULE CallPromise ----------------------------
(***************************************************************************)
(* What a caller, an IDE or a developer at a terminal, may conclude from   *)
(* the way a call came back, with proxy, client and gateway left out:      *)
(* a refused call has not run and will not, an answered call has run       *)
(* exactly once, and of a call that came back otherwise it may only be     *)
(* known that it ran at most once, perhaps                                 *)
(* later than it was given up. "POST /responses is not idempotent"         *)
(* (docs/api-contract.md, "Retries").                                      *)
(***************************************************************************)
EXTENDS Naturals

CONSTANT Requests

VARIABLES
  verdict,  \* verdict[r]: "nothing" yet, "refused", "answered" or "unknown"
  runs      \* runs[r]: times r was handed to the model

vars == <<verdict, runs>>

Init ==
  /\ verdict = [r \in Requests |-> "nothing"]
  /\ runs = [r \in Requests |-> 0]

Run(r) ==
  /\ runs[r] = 0
  /\ verdict[r] \in {"nothing", "unknown"}
  /\ runs' = [runs EXCEPT ![r] = 1]
  /\ UNCHANGED verdict

Return(r, v) ==
  /\ verdict[r] = "nothing"
  /\ verdict' = [verdict EXCEPT ![r] = v]
  /\ UNCHANGED runs

Refuse(r) == runs[r] = 0 /\ Return(r, "refused")
Answer(r) == runs[r] = 1 /\ Return(r, "answered")
GiveUp(r) == Return(r, "unknown")

(* A restart of the proxy gives up all the calls it has at once. *)
GiveUpAll(S) ==
  /\ \A r \in S : verdict[r] = "nothing"
  /\ verdict' = [r \in Requests |-> IF r \in S THEN "unknown" ELSE verdict[r]]
  /\ UNCHANGED runs

Next ==
  \/ \E r \in Requests : Run(r) \/ Refuse(r) \/ Answer(r) \/ GiveUp(r)
  \/ \E S \in SUBSET Requests : GiveUpAll(S)

Spec == Init /\ [][Next]_vars
=============================================================================
