----------------------------- MODULE Deployment -----------------------------
(***************************************************************************)
(* The deployment as infra/*.tf describes it and Terraform carries it out: *)
(* a graph of resources, created and updated along their dependencies and  *)
(* destroyed against them, in any order the graph leaves open. Any number  *)
(* of applies and destroys follow each other; each may be cut off after    *)
(* any resource, and between two of them the operator may change           *)
(* identity_mode and required_scope.                                       *)
(*                                                                         *)
(* One resource of the model stands for the Terraform resources that come  *)
(* and go together for the properties. A resource and its entry in the     *)
(* Terraform state are one step.                                           *)
(***************************************************************************)
EXTENDS FiniteSets

CONSTANTS
  Private,         \* deployment_profile = "private"
  None             \* nothing deployed, or nothing uploaded

ASSUME DeploymentAssumption == Private \in BOOLEAN

Mode == {"brokered", "passthrough"}

(* identity_mode, and whether required_scope holds anything. *)
Config == [mode: Mode, scoped: BOOLEAN]

ASSUME NoneAssumption == None \notin Config \cup Mode

VARIABLES
  want,            \* the operator's variables
  target,          \* what the last apply was told to build; None: a destroy
  pending,         \* resources the current run has still to visit
  running,         \* Terraform is at work
  settled,         \* the last run ended well and nothing was edited since
  present,         \* resources that exist
  scoped,          \* named value map-required-scope holds a scope
  mode,            \* identity mode of the uploaded map-backend-auth fragment
  publicAccess     \* the gateway's publicNetworkAccess

runVars == <<target, pending, running, settled>>
cloudVars == <<present, scoped, mode, publicAccess>>
vars == <<want, runVars, cloudVars>>

-----------------------------------------------------------------------------
(* Which resources there are, and what each one waits for: its references  *)
(* and its explicit depends_on edges.                                      *)
PrivateOnly == {"network", "network_rules", "model_endpoint", "gateway_endpoint",
                "closure"}

Resource == PrivateOnly \cup
  {"account", "model", "user_roles", "broker_role", "gateway", "named_values",
   "schema", "backend", "operation", "fragments", "global_policy",
   "operation_policy"}

(* Mutant of NetworkEdges: the gateway's endpoint waits for the closure.   *)
NetworkEdgesCircular ==
  {<<"network_rules", "network">>, <<"model_endpoint", "network">>,
   <<"model_endpoint", "account">>, <<"gateway_endpoint", "network">>,
   <<"gateway_endpoint", "gateway">>, <<"gateway_endpoint", "closure">>}

(* network: virtual network, subnets, security groups, DNS. The rules of   *)
(* the groups are resources of their own, and no endpoint waits for them.  *)
NetworkEdges ==
  {<<"network_rules", "network">>, <<"model_endpoint", "network">>,
   <<"model_endpoint", "account">>, <<"gateway_endpoint", "network">>,
   <<"gateway_endpoint", "gateway">>}

FoundryEdges ==
  {<<"model", "account">>, <<"user_roles", "account">>,
   <<"broker_role", "account">>, <<"broker_role", "gateway">>}

ServiceEdges ==
  (IF Private THEN {<<"gateway", "network">>} ELSE {}) \cup
  {<<"named_values", "gateway">>, <<"named_values", "model">>,
   <<"schema", "gateway">>, <<"backend", "gateway">>, <<"backend", "account">>,
   <<"operation", "gateway">>}

(* Mutants of PolicyEdges: only what Terraform can infer by itself, without *)
(* depends_on for what the XML refers to by name; the fragments are not     *)
(* ordered after the values.                                                *)
PolicyEdgesInferred ==
  {<<"fragments", "gateway">>, <<"global_policy", "gateway">>,
   <<"operation_policy", "gateway">>, <<"operation_policy", "operation">>}
PolicyEdgesUnordered ==
  {<<"fragments", "gateway">>, <<"global_policy", "gateway">>,
   <<"global_policy", "fragments">>} \cup
  ({"operation_policy"} \X {"operation", "named_values", "fragments", "backend", "schema"})

PolicyEdges ==
  {<<"fragments", "gateway">>, <<"fragments", "named_values">>,
   <<"global_policy", "gateway">>, <<"global_policy", "fragments">>} \cup
  ({"operation_policy"} \X {"operation", "fragments", "backend", "schema"})

ClosureEdges == {"closure"} \X {"gateway", "operation_policy", "gateway_endpoint"}

Needs(r) ==
  {q \in Resource : <<r, q>> \in NetworkEdges \cup FoundryEdges \cup ServiceEdges
                                   \cup PolicyEdges \cup ClosureEdges}

(* What a configuration asks for; a destroy asks for nothing.              *)
Desired(c) ==
  IF c = None THEN {}
  ELSE (Resource \ (IF Private THEN {} ELSE PrivateOnly))
         \ (IF c.mode = "brokered" THEN {"user_roles"} ELSE {"broker_role"})

-----------------------------------------------------------------------------
TypeOK ==
  /\ want \in Config
  /\ target \in Config \cup {None}
  /\ pending \subseteq Resource
  /\ running \in BOOLEAN /\ settled \in BOOLEAN
  /\ present \subseteq Resource
  /\ scoped \in BOOLEAN
  /\ mode \in Mode \cup {None}
  /\ publicAccess \in BOOLEAN

Init ==
  /\ want \in Config
  /\ target = None /\ pending = {} /\ running = FALSE /\ settled = FALSE
  /\ present = {} /\ scoped = FALSE /\ mode = None /\ publicAccess = FALSE

-----------------------------------------------------------------------------
(* Planning. The guards are preconditions on variables known at plan time: *)
(* a plan that violates one changes nothing.                               *)
AuthorizationGuard(c) == c.mode = "brokered" => c.scoped

(* Mutant of Stale: what is uploaded is compared by name only.             *)
StaleValuesOnly(c) ==
  {r \in present \cap Desired(c) : r = "named_values" /\ scoped # c.scoped}

(* Mutant of Stale: the gateway resource still owns the access property.   *)
StaleAccessToo(c) ==
  {r \in present \cap Desired(c) :
     \/ r = "named_values" /\ scoped # c.scoped
     \/ r = "fragments" /\ mode # c.mode
     \/ r = "gateway" /\ ~publicAccess}

(* Resources whose content differs from the configuration. The gateway     *)
(* never does: public_network_access_enabled is under ignore_changes.      *)
Stale(c) ==
  {r \in present \cap Desired(c) :
     \/ r = "named_values" /\ scoped # c.scoped
     \/ r = "fragments" /\ mode # c.mode}

Run(c) ==
  /\ ~running
  /\ running' = TRUE /\ settled' = FALSE
  /\ target' = c
  /\ pending' = (Desired(c) \ present) \cup (present \ Desired(c)) \cup Stale(c)
  /\ UNCHANGED <<want, cloudVars>>

Apply == AuthorizationGuard(want) /\ Run(want)

Destroy == present # {} /\ Run(None)

EditVariables ==
  /\ ~running
  /\ want' \in Config \ {want}
  /\ settled' = FALSE
  /\ UNCHANGED <<target, pending, running, cloudVars>>

-----------------------------------------------------------------------------
(* The walk: a resource to build waits for what it needs, a resource to    *)
(* remove for what needs it.                                               *)
Buildable(r) == r \in pending \cap Desired(target) /\ Needs(r) \cap pending = {}

Removable(r) ==
  /\ r \in pending \ Desired(target)
  /\ \A q \in pending \ Desired(target) : r \notin Needs(q)

Visit(r) ==
  /\ running
  /\ pending' = pending \ {r}
  /\ UNCHANGED <<want, target, running, settled>>

CreateGateway ==
  /\ Buildable("gateway") /\ Visit("gateway")
  /\ present' = present \cup {"gateway"}
  /\ publicAccess' = TRUE
  /\ UNCHANGED <<scoped, mode>>

SetNamedValues ==
  /\ Buildable("named_values") /\ Visit("named_values")
  /\ present' = present \cup {"named_values"}
  /\ scoped' = target.scoped
  /\ UNCHANGED <<mode, publicAccess>>

UploadFragments ==
  /\ Buildable("fragments") /\ Visit("fragments")
  /\ present' = present \cup {"fragments"}
  /\ mode' = target.mode
  /\ UNCHANGED <<scoped, publicAccess>>

ClosePublicAccess ==
  /\ Buildable("closure") /\ Visit("closure")
  /\ present' = present \cup {"closure"}
  /\ publicAccess' = FALSE
  /\ UNCHANGED <<scoped, mode>>

Build(r) ==
  /\ r \notin {"gateway", "named_values", "fragments", "closure"}
  /\ Buildable(r) /\ Visit(r)
  /\ present' = present \cup {r}
  /\ UNCHANGED <<scoped, mode, publicAccess>>

(* Destroying the closure does not revert it.                              *)
Remove(r) ==
  /\ Removable(r) /\ Visit(r)
  /\ present' = present \ {r}
  /\ scoped' = (scoped /\ r # "named_values")
  /\ mode' = IF r = "fragments" THEN None ELSE mode
  /\ publicAccess' = (publicAccess /\ r # "gateway")

Finish ==
  /\ running /\ pending = {}
  /\ running' = FALSE /\ settled' = TRUE
  /\ UNCHANGED <<want, target, pending, cloudVars>>

(* A resource fails for good, or Terraform is killed. What the failure     *)
(* does not hold up may still be visited before the run ends.              *)
Interrupt ==
  /\ running
  /\ running' = FALSE /\ pending' = {}
  /\ UNCHANGED <<want, target, settled, cloudVars>>

Next ==
  \/ Apply
  \/ Destroy
  \/ EditVariables
  \/ CreateGateway
  \/ SetNamedValues
  \/ UploadFragments
  \/ ClosePublicAccess
  \/ \E r \in Resource : Build(r) \/ Remove(r)
  \/ Finish
  \/ Interrupt

Spec == Init /\ [][Next]_vars

-----------------------------------------------------------------------------
(* The policies refer to fragments, named values, schema and backend by    *)
(* name, which Terraform cannot see. Through every cut-off apply and every *)
(* cut-off destroy, a policy that is in force finds what it refers to.     *)
PolicyIsComplete ==
  /\ "operation_policy" \in present =>
       {"fragments", "named_values", "schema", "backend", "operation"} \subseteq present
  /\ "global_policy" \in present => {"fragments", "named_values"} \subseteq present

(* While the state file records the closure, public access is closed:      *)
(* no later apply reopens it (docs/security.md:280), and no destroy that   *)
(* was cut off leaves a record behind of which a new gateway knows nothing.*)
ClosureMeansClosed == "closure" \in present => ~publicAccess

(* The brokered fragment only ever replaces another one when the scope the *)
(* authentication fragment then requires is already in its named value.    *)
BrokeredGoesScoped == [][mode' = "brokered" /\ mode # "brokered" => scoped]_vars

(* Gateway and network modules refer to each other: a run never has work   *)
(* left with every piece of it waiting for another.                        *)
NeverStuck ==
  running /\ pending # {} => \E r \in pending : Buildable(r) \/ Removable(r)

(* A run that ends well leaves what was asked for, whatever the runs cut   *)
(* off and the edits before it left behind: the right fragment, its scope, *)
(* one kind of principal with inference rights, and in the private profile *)
(* a closed gateway behind all its network rules.                          *)
EndsAsAsked ==
  settled =>
    /\ present = Desired(target)
    /\ target # None =>
         /\ mode = target.mode /\ scoped = target.scoped
         /\ publicAccess = ~Private

-----------------------------------------------------------------------------
(* The inductive invariant behind these. What exists always has what it    *)
(* needs, although runs are cut off anywhere; a run has everything ahead   *)
(* of it that differs from what was asked; and what it has passed is as    *)
(* asked.                                                                  *)
GraphInv ==
  /\ \A r \in present : Needs(r) \subseteq present
  /\ ~Private => present \cap PrivateOnly = {}

PlanInv ==
  /\ target # None => AuthorizationGuard(target)
  /\ ~running => pending = {}
  /\ running => ~settled /\ Desired(target) \ present \subseteq pending
                         /\ present \ Desired(target) \subseteq pending
  /\ settled => present = Desired(target)
  /\ pending \cap present \cap Desired(target) \subseteq {"named_values", "fragments"}

ContentInv ==
  /\ (running \/ settled) /\ target # None =>
       /\ "named_values" \in present \ pending => scoped = target.scoped
       /\ "fragments" \in present \ pending => mode = target.mode
  /\ "closure" \in present => ~publicAccess
  /\ ~Private /\ "gateway" \in present => publicAccess

DeploymentInv == GraphInv /\ PlanInv /\ ContentInv

-----------------------------------------------------------------------------
(* A statement of the documents that the code does not keep.               *)

CanInfer ==
  /\ {"operation_policy", "model"} \subseteq present
  /\ present \cap {"user_roles", "broker_role"} # {}
  /\ Private => "model_endpoint" \in present

(* docs/architecture.md, "Bootstrap ordering": no usable inference         *)
(* endpoint is ever publicly exposed by the private profile.               *)
NoPublicInference == Private => ~(CanInfer /\ publicAccess)
=============================================================================
