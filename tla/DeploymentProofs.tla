-------------------------- MODULE DeploymentProofs --------------------------
(***************************************************************************)
(* Theorems about Deployment, for either profile and whatever sequence of  *)
(* applies, destroys, interruptions and edits.                             *)
(***************************************************************************)
EXTENDS Deployment, TLAPS

-----------------------------------------------------------------------------
(* The graph, written out once.                                            *)
LEMMA Graph ==
  /\ Needs("network") = {} /\ Needs("account") = {}
  /\ Needs("network_rules") = {"network"}
  /\ Needs("model_endpoint") = {"network", "account"}
  /\ Needs("gateway_endpoint") = {"network", "gateway"}
  /\ Needs("model") = {"account"} /\ Needs("user_roles") = {"account"}
  /\ Needs("broker_role") = {"account", "gateway"}
  /\ Needs("gateway") = IF Private THEN {"network"} ELSE {}
  /\ Needs("named_values") = {"gateway", "model"}
  /\ Needs("schema") = {"gateway"} /\ Needs("operation") = {"gateway"}
  /\ Needs("backend") = {"gateway", "account"}
  /\ Needs("fragments") = {"gateway", "named_values"}
  /\ Needs("global_policy") = {"gateway", "fragments"}
  /\ Needs("operation_policy") = {"operation", "fragments", "backend", "schema"}
  /\ Needs("closure") = {"gateway", "operation_policy", "gateway_endpoint"}
BY DEF Needs, NetworkEdges, FoundryEdges, ServiceEdges, PolicyEdges, ClosureEdges,
       Resource, PrivateOnly

(* Whatever a configuration asks for, it asks for what that needs.         *)
LEMMA DesiredIsClosed ==
  ASSUME NEW c \in Config \cup {None}
  PROVE  /\ Desired(c) \subseteq Resource
         /\ \A r \in Desired(c) : Needs(r) \subseteq Desired(c)
         /\ ~Private => Desired(c) \cap PrivateOnly = {}
         /\ Private /\ c # None => "closure" \in Desired(c)
         /\ c # None => {"gateway", "named_values", "fragments"} \subseteq Desired(c)
<1>1. CASE c = None
  BY <1>1 DEF Desired
<1>2. CASE c # None
  <2>1. Desired(c) \subseteq Resource
    BY <1>2 DEF Desired
  <2>2. ASSUME NEW r \in Desired(c) PROVE Needs(r) \subseteq Desired(c)
    BY <1>2, Graph, DeploymentAssumption DEF Desired, Resource, PrivateOnly
  <2>3. /\ ~Private => Desired(c) \cap PrivateOnly = {}
        /\ Private => "closure" \in Desired(c)
        /\ {"gateway", "named_values", "fragments"} \subseteq Desired(c)
    BY <1>2, DeploymentAssumption DEF Desired, Resource, PrivateOnly
  <2>4. QED
    BY <1>2, <2>1, <2>2, <2>3
<1>3. QED
  BY <1>1, <1>2

-----------------------------------------------------------------------------
(* Every variable keeps its type.                                          *)
LEMMA TypeStep == TypeOK /\ [Next]_vars => TypeOK'
<1> SUFFICES ASSUME TypeOK, [Next]_vars PROVE TypeOK'
  OBVIOUS
<1> USE DEF TypeOK
<1>1. ASSUME NEW c \in Config \cup {None}, Run(c) PROVE TypeOK'
  <2>1. Desired(c) \subseteq Resource
    BY DesiredIsClosed
  <2>2. QED
    BY <1>1, <2>1 DEF Run, Stale, cloudVars
<1>2. CASE Apply
  BY <1>1, <1>2 DEF Apply
<1>3. CASE Destroy
  BY <1>1, <1>3 DEF Destroy
<1>4. CASE EditVariables
  BY <1>4 DEF EditVariables, cloudVars
<1>5. CASE CreateGateway
  BY <1>5 DEF CreateGateway, Buildable, Visit
<1>6. CASE SetNamedValues
  <2>1. target \in Config
    BY <1>6 DEF SetNamedValues, Buildable, Desired
  <2>2. target.scoped \in BOOLEAN
    BY <2>1 DEF Config
  <2>3. QED
    BY <1>6, <2>2 DEF SetNamedValues, Buildable, Visit
<1>7. CASE UploadFragments
  <2>1. target \in Config
    BY <1>7 DEF UploadFragments, Buildable, Desired
  <2>2. target.mode \in Mode
    BY <2>1 DEF Config
  <2>3. QED
    BY <1>7, <2>2 DEF UploadFragments, Buildable, Visit
<1>8. CASE ClosePublicAccess
  BY <1>8 DEF ClosePublicAccess, Buildable, Visit
<1>9. ASSUME NEW r \in Resource, Build(r) PROVE TypeOK'
  BY <1>9 DEF Build, Buildable, Visit
<1>10. ASSUME NEW r \in Resource, Remove(r) PROVE TypeOK'
  BY <1>10 DEF Remove, Removable, Visit
<1>11. CASE Finish
  BY <1>11 DEF Finish, cloudVars
<1>12. CASE Interrupt
  BY <1>12 DEF Interrupt, cloudVars
<1>13. CASE UNCHANGED vars
  BY <1>13 DEF vars, runVars, cloudVars
<1>14. QED
  BY <1>2, <1>3, <1>4, <1>5, <1>6, <1>7, <1>8, <1>9, <1>10, <1>11, <1>12, <1>13 DEF Next

(* Deployment's state: operator's variables, Terraform's run and the cloud *)
(* keep their types.                                                       *)
THEOREM TypeCorrect == Spec => []TypeOK
<1>1. Init => TypeOK
  BY DEF Init, TypeOK
<1>2. QED
  BY <1>1, TypeStep, PTL DEF Spec

-----------------------------------------------------------------------------
(* The steps of a run. A resource that is built finds what it needs; one   *)
(* that is removed is needed by nothing that stays.                        *)
LEMMA BuildKeepsGraph ==
  ASSUME TypeOK, DeploymentInv, NEW r \in Resource, running, Buildable(r),
         present' = present \cup {r}
  PROVE  GraphInv'
<1> USE DEF TypeOK, DeploymentInv
<1>1. target \in Config \cup {None}
  OBVIOUS
<1>2. r \in Desired(target) /\ Needs(r) \cap pending = {}
  BY DEF Buildable
<1>3. Needs(r) \subseteq Desired(target) /\ (~Private => r \notin PrivateOnly)
  BY <1>1, <1>2, DesiredIsClosed
<1>4. Needs(r) \subseteq present
  BY <1>2, <1>3 DEF PlanInv
<1>5. ASSUME NEW q \in present' PROVE Needs(q) \subseteq present'
  <2>1. CASE q = r
    BY <1>4, <2>1
  <2>2. CASE q \in present
    BY <2>2 DEF GraphInv
  <2>3. QED
    BY <2>1, <2>2
<1>6. ~Private => present' \cap PrivateOnly = {}
  BY <1>3 DEF GraphInv
<1>7. QED
  BY <1>5, <1>6 DEF GraphInv

LEMMA RemoveKeepsGraph ==
  ASSUME TypeOK, DeploymentInv, NEW r \in Resource, running, Removable(r),
         present' = present \ {r}
  PROVE  GraphInv'
<1> USE DEF TypeOK, DeploymentInv
<1>1. target \in Config \cup {None}
  OBVIOUS
<1>2. r \notin Desired(target)
  BY DEF Removable
<1>3. ASSUME NEW q \in present \ {r} PROVE Needs(q) \subseteq present \ {r}
  <2>1. Needs(q) \subseteq present
    BY DEF GraphInv
  <2>2. CASE q \in Desired(target)
    BY <1>1, <1>2, <2>1, <2>2, DesiredIsClosed
  <2>3. CASE q \notin Desired(target)
    <3>1. q \in pending \ Desired(target)
      BY <2>3 DEF PlanInv
    <3>2. QED
      BY <2>1, <3>1 DEF Removable
  <2>4. QED
    BY <2>2, <2>3
<1>4. QED
  BY <1>3 DEF GraphInv

(* Visiting one resource leaves the rest of the plan as it was.            *)
LEMMA BuildKeepsPlan ==
  ASSUME TypeOK, DeploymentInv, NEW r \in Resource, running, Buildable(r), Visit(r),
         present' = present \cup {r}
  PROVE  PlanInv'
BY DEF TypeOK, DeploymentInv, PlanInv, Visit, Buildable

LEMMA RemoveKeepsPlan ==
  ASSUME TypeOK, DeploymentInv, NEW r \in Resource, running, Removable(r), Visit(r),
         present' = present \ {r}
  PROVE  PlanInv'
BY DEF TypeOK, DeploymentInv, PlanInv, Visit, Removable

-----------------------------------------------------------------------------
(* The invariant holds throughout.                                         *)
LEMMA RunStep ==
  ASSUME TypeOK, DeploymentInv, NEW c \in Config \cup {None}, Run(c),
         c # None => AuthorizationGuard(c)
  PROVE  DeploymentInv'
<1> USE DEF TypeOK, DeploymentInv
<1>1. GraphInv'
  BY DEF GraphInv, Run, cloudVars
<1>2. PlanInv'
  <2>1. pending' \cap present' \cap Desired(target') \subseteq {"named_values", "fragments"}
    BY DEF Run, Stale, cloudVars
  <2>2. QED
    BY <2>1 DEF PlanInv, Run, cloudVars
<1>3. ContentInv'
  <2>1. ASSUME c # None, "named_values" \in present' \ pending' PROVE scoped = c.scoped
    BY <2>1, DesiredIsClosed DEF Run, Stale, cloudVars
  <2>2. ASSUME c # None, "fragments" \in present' \ pending' PROVE mode = c.mode
    BY <2>2, DesiredIsClosed DEF Run, Stale, cloudVars
  <2>3. QED
    BY <2>1, <2>2 DEF ContentInv, Run, cloudVars
<1>4. QED
  BY <1>1, <1>2, <1>3

LEMMA InvariantStep == TypeOK /\ DeploymentInv /\ [Next]_vars => DeploymentInv'
<1> SUFFICES ASSUME TypeOK, DeploymentInv, [Next]_vars PROVE DeploymentInv'
  OBVIOUS
<1>1. CASE Apply
  <2>1. want \in Config /\ Run(want) /\ AuthorizationGuard(want)
    BY <1>1 DEF Apply, TypeOK
  <2>2. QED
    BY <2>1, RunStep
<1>2. CASE Destroy
  BY <1>2, RunStep DEF Destroy
<1>3. CASE EditVariables
  BY <1>3 DEF EditVariables, cloudVars, TypeOK, DeploymentInv, GraphInv, PlanInv, ContentInv
<1>4. CASE CreateGateway
  <2>1. "gateway" \in Resource /\ running
    BY <1>4 DEF CreateGateway, Visit, Resource
  <2>2. GraphInv' /\ PlanInv'
    BY <1>4, <2>1, BuildKeepsGraph, BuildKeepsPlan DEF CreateGateway
  <2>3. "gateway" \notin present
    BY <1>4 DEF CreateGateway, Buildable, DeploymentInv, PlanInv
  <2>4. "closure" \notin present
    BY <2>3, Graph DEF DeploymentInv, GraphInv
  <2>5. ContentInv'
    BY <1>4, <2>4 DEF CreateGateway, Visit, DeploymentInv, ContentInv, PlanInv
  <2>6. QED
    BY <2>2, <2>5 DEF DeploymentInv
<1>5. CASE SetNamedValues
  <2>1. "named_values" \in Resource /\ running
    BY <1>5 DEF SetNamedValues, Visit, Resource
  <2>2. GraphInv' /\ PlanInv'
    BY <1>5, <2>1, BuildKeepsGraph, BuildKeepsPlan DEF SetNamedValues
  <2>3. ContentInv'
    BY <1>5 DEF SetNamedValues, Visit, DeploymentInv, ContentInv, PlanInv
  <2>4. QED
    BY <2>2, <2>3 DEF DeploymentInv
<1>6. CASE UploadFragments
  <2>1. "fragments" \in Resource /\ running
    BY <1>6 DEF UploadFragments, Visit, Resource
  <2>2. GraphInv' /\ PlanInv'
    BY <1>6, <2>1, BuildKeepsGraph, BuildKeepsPlan DEF UploadFragments
  <2>3. ContentInv'
    BY <1>6 DEF UploadFragments, Visit, DeploymentInv, ContentInv, PlanInv
  <2>4. QED
    BY <2>2, <2>3 DEF DeploymentInv
<1>7. CASE ClosePublicAccess
  <2>1. "closure" \in Resource /\ running
    BY <1>7 DEF ClosePublicAccess, Visit, Resource, PrivateOnly
  <2>2. GraphInv' /\ PlanInv'
    BY <1>7, <2>1, BuildKeepsGraph, BuildKeepsPlan DEF ClosePublicAccess
  <2>3. "closure" \in Desired(target) /\ target \in Config \cup {None}
    BY <1>7 DEF ClosePublicAccess, Buildable, TypeOK
  <2>4. Private
    BY <2>3, DesiredIsClosed DEF PrivateOnly
  <2>5. ContentInv'
    BY <1>7, <2>4 DEF ClosePublicAccess, Visit, DeploymentInv, ContentInv, PlanInv
  <2>6. QED
    BY <2>2, <2>5 DEF DeploymentInv
<1>8. ASSUME NEW r \in Resource, Build(r) PROVE DeploymentInv'
  <2>1. running /\ Buildable(r) /\ Visit(r) /\ present' = present \cup {r}
    BY <1>8 DEF Build, Visit
  <2>2. GraphInv' /\ PlanInv'
    BY <2>1, BuildKeepsGraph, BuildKeepsPlan
  <2>3. ContentInv'
    BY <1>8 DEF Build, Visit, DeploymentInv, ContentInv, PlanInv
  <2>4. QED
    BY <2>2, <2>3 DEF DeploymentInv
<1>9. ASSUME NEW r \in Resource, Remove(r) PROVE DeploymentInv'
  <2>1. running /\ Removable(r) /\ Visit(r) /\ present' = present \ {r}
    BY <1>9 DEF Remove, Visit
  <2>2. GraphInv' /\ PlanInv'
    BY <2>1, RemoveKeepsGraph, RemoveKeepsPlan
  <2>3. target # None => r \notin {"gateway", "named_values", "fragments"}
    BY <2>1, DesiredIsClosed DEF Removable, TypeOK
  <2>4. ContentInv'
    <3>1. (running' \/ settled') /\ target' # None =>
            /\ "named_values" \in present' \ pending' => scoped' = target'.scoped
            /\ "fragments" \in present' \ pending' => mode' = target'.mode
      BY <1>9, <2>1, <2>3 DEF Remove, Visit, DeploymentInv, ContentInv, TypeOK
    <3>2. /\ "closure" \in present' => ~publicAccess'
          /\ ~Private /\ "gateway" \in present' => publicAccess'
      BY <1>9, <2>1 DEF Remove, DeploymentInv, ContentInv, TypeOK
    <3>3. QED
      BY <3>1, <3>2 DEF ContentInv
  <2>5. QED
    BY <2>2, <2>4 DEF DeploymentInv
<1>10. CASE Finish
  BY <1>10 DEF Finish, cloudVars, TypeOK, DeploymentInv, GraphInv, PlanInv, ContentInv
<1>11. CASE Interrupt
  BY <1>11 DEF Interrupt, cloudVars, TypeOK, DeploymentInv, GraphInv, PlanInv, ContentInv
<1>12. CASE UNCHANGED vars
  BY <1>12 DEF vars, runVars, cloudVars, DeploymentInv, GraphInv, PlanInv, ContentInv
<1>13. QED
  BY <1>1, <1>2, <1>3, <1>4, <1>5, <1>6, <1>7, <1>8, <1>9, <1>10, <1>11, <1>12 DEF Next

(* What exists has what it needs, a run has all differences ahead of it,   *)
(* and what it has passed is as asked: infra/*.tf under Terraform's walk.  *)
THEOREM DeploymentCorrect == Spec => []DeploymentInv
<1>1. Init => DeploymentInv
  BY DEF Init, DeploymentInv, GraphInv, PlanInv, ContentInv
<1>2. QED
  BY <1>1, TypeCorrect, InvariantStep, PTL DEF Spec

-----------------------------------------------------------------------------
(* A policy in force finds fragments, named values, schema and backend.    *)
THEOREM PoliciesComplete == Spec => []PolicyIsComplete
<1>1. DeploymentInv => PolicyIsComplete
  BY Graph DEF DeploymentInv, GraphInv, PolicyIsComplete
<1>2. QED
  BY <1>1, DeploymentCorrect, PTL

(* The closure on record means a closed gateway: gateway/main.tf 404-430.  *)
THEOREM ClosureHolds == Spec => []ClosureMeansClosed
<1>1. DeploymentInv => ClosureMeansClosed
  BY DEF DeploymentInv, ContentInv, ClosureMeansClosed
<1>2. QED
  BY <1>1, DeploymentCorrect, PTL

(* A run that ends well leaves what was asked for, in either profile.      *)
THEOREM RunsEndAsAsked == Spec => []EndsAsAsked
<1>1. TypeOK /\ DeploymentInv => EndsAsAsked
  <2> SUFFICES ASSUME TypeOK, DeploymentInv, settled PROVE EndsAsAsked
    BY DEF EndsAsAsked
  <2>1. present = Desired(target) /\ pending = {} /\ target \in Config \cup {None}
    BY DEF TypeOK, DeploymentInv, PlanInv
  <2>2. ASSUME target # None
        PROVE  mode = target.mode /\ scoped = target.scoped /\ publicAccess = ~Private
    <3>1. {"gateway", "named_values", "fragments"} \subseteq present
      BY <2>1, <2>2, DesiredIsClosed
    <3>2. mode = target.mode /\ scoped = target.scoped
      BY <2>1, <2>2, <3>1 DEF DeploymentInv, ContentInv
    <3>3. CASE Private
      <4>1. "closure" \in present
        BY <2>1, <2>2, <3>3, DesiredIsClosed
      <4>2. ~publicAccess
        BY <4>1 DEF DeploymentInv, ContentInv
      <4>3. QED
        BY <3>2, <3>3, <4>2, DeploymentAssumption DEF TypeOK
    <3>4. CASE ~Private
      BY <3>1, <3>2, <3>4, DeploymentAssumption DEF DeploymentInv, ContentInv, TypeOK
    <3>5. QED
      BY <3>3, <3>4
  <2>3. QED
    BY <2>1, <2>2 DEF EndsAsAsked
<1>2. QED
  BY <1>1, TypeCorrect, DeploymentCorrect, PTL

(* The brokered fragment goes up only over a named value with a scope.     *)
THEOREM BrokeredIsScoped == Spec => BrokeredGoesScoped
<1>1. TypeOK /\ DeploymentInv /\ [Next]_vars
        => [mode' = "brokered" /\ mode # "brokered" => scoped]_vars
  <2> SUFFICES ASSUME TypeOK, DeploymentInv, Next, mode' = "brokered", mode # "brokered"
               PROVE  scoped
    OBVIOUS
  <2>1. CASE UploadFragments
    <3>1. target \in Config /\ running /\ target.mode = "brokered"
      BY <2>1 DEF UploadFragments, Buildable, Visit, Desired, TypeOK
    <3>2. target # None /\ target.scoped
      BY <3>1, NoneAssumption DEF DeploymentInv, PlanInv, AuthorizationGuard
    <3>3. "named_values" \in Needs("fragments") /\ Needs("fragments") \cap pending = {}
      BY <2>1, Graph DEF UploadFragments, Buildable
    <3>4. "named_values" \in Desired(target)
      BY <3>1, <3>2, DesiredIsClosed
    <3>5. "named_values" \in present \ pending
      BY <3>1, <3>3, <3>4 DEF DeploymentInv, PlanInv
    <3>6. QED
      BY <3>1, <3>2, <3>5 DEF DeploymentInv, ContentInv
  <2>2. CASE \E r \in Resource : Build(r) \/ Remove(r)
    <3>1. PICK r \in Resource : Build(r) \/ Remove(r)
      BY <2>2
    <3>2. mode' \in {mode, None}
      BY <3>1 DEF Build, Remove
    <3>3. QED
      BY <3>2, NoneAssumption DEF Mode
  <2>3. ASSUME Apply \/ Destroy \/ EditVariables \/ CreateGateway \/ SetNamedValues
               \/ ClosePublicAccess \/ Finish \/ Interrupt
        PROVE  FALSE
    <3>1. mode' = mode
      BY <2>3 DEF Apply, Destroy, Run, EditVariables, CreateGateway, SetNamedValues,
                  ClosePublicAccess, Finish, Interrupt, cloudVars
    <3>2. QED
      BY <3>1
  <2>4. QED
    BY <2>1, <2>2, <2>3 DEF Next
<1>2. QED
  BY <1>1, TypeCorrect, DeploymentCorrect, PTL DEF Spec, BrokeredGoesScoped
-----------------------------------------------------------------------------
(* The graph has no cycle: layer by layer, no resource needs one of its    *)
(* own layer or of a later one.                                            *)
Layers == [Base |-> {"network", "account"},
           Hosts |-> {"network_rules", "model_endpoint", "model", "user_roles", "gateway"},
           Parts |-> {"gateway_endpoint", "broker_role", "named_values", "schema",
                      "backend", "operation"},
           Texts |-> {"fragments"},
           Policies |-> {"global_policy", "operation_policy"},
           Closing |-> {"closure"}]

LEMMA Layered ==
  /\ Resource = Layers.Base \cup Layers.Hosts \cup Layers.Parts \cup Layers.Texts
                  \cup Layers.Policies \cup Layers.Closing
  /\ \A r \in Layers.Base : Needs(r) = {}
  /\ \A r \in Layers.Hosts : Needs(r) \subseteq Layers.Base
  /\ \A r \in Layers.Parts : Needs(r) \subseteq Layers.Base \cup Layers.Hosts
  /\ \A r \in Layers.Texts : Needs(r) \subseteq Layers.Hosts \cup Layers.Parts
  /\ \A r \in Layers.Policies :
       Needs(r) \subseteq Layers.Hosts \cup Layers.Parts \cup Layers.Texts
  /\ \A r \in Layers.Closing :
       Needs(r) \subseteq Layers.Hosts \cup Layers.Parts \cup Layers.Policies
<1>1. Resource = Layers.Base \cup Layers.Hosts \cup Layers.Parts \cup Layers.Texts
                   \cup Layers.Policies \cup Layers.Closing
  BY DEF Resource, PrivateOnly, Layers
<1>2. /\ \A r \in Layers.Base : Needs(r) = {}
      /\ \A r \in Layers.Hosts : Needs(r) \subseteq Layers.Base
  BY Graph, DeploymentAssumption DEF Layers
<1>3. /\ \A r \in Layers.Parts : Needs(r) \subseteq Layers.Base \cup Layers.Hosts
      /\ \A r \in Layers.Texts : Needs(r) \subseteq Layers.Hosts \cup Layers.Parts
  BY Graph DEF Layers
<1>4. /\ \A r \in Layers.Policies :
           Needs(r) \subseteq Layers.Hosts \cup Layers.Parts \cup Layers.Texts
      /\ \A r \in Layers.Closing :
           Needs(r) \subseteq Layers.Hosts \cup Layers.Parts \cup Layers.Policies
  BY Graph DEF Layers
<1>5. QED
  BY <1>1, <1>2, <1>3, <1>4

(* The layers have nothing in common.                                      *)
LEMMA LayersApart ==
  /\ Layers.Hosts \cap Layers.Base = {}
  /\ Layers.Parts \cap (Layers.Base \cup Layers.Hosts) = {}
  /\ Layers.Texts \cap (Layers.Base \cup Layers.Hosts \cup Layers.Parts) = {}
  /\ Layers.Policies \cap (Layers.Base \cup Layers.Hosts \cup Layers.Parts
                             \cup Layers.Texts) = {}
  /\ Layers.Closing \cap (Layers.Base \cup Layers.Hosts \cup Layers.Parts
                            \cup Layers.Texts \cup Layers.Policies) = {}
BY DEF Layers

(* Of any resources, one of the first layer among them needs no other, and *)
(* one of the last is needed by no other.                                  *)
LEMMA SomeFirst ==
  ASSUME NEW some \in SUBSET Resource, some # {}
  PROVE  \E r \in some : Needs(r) \cap some = {}
<1>1. CASE some \cap Layers.Base # {}
  BY <1>1, Layered
<1>2. CASE some \cap Layers.Base = {} /\ some \cap Layers.Hosts # {}
  BY <1>2, Layered
<1>3. CASE some \cap (Layers.Base \cup Layers.Hosts) = {} /\ some \cap Layers.Parts # {}
  BY <1>3, Layered
<1>4. CASE some \cap (Layers.Base \cup Layers.Hosts \cup Layers.Parts) = {}
  <2>1. CASE some \cap Layers.Texts # {}
    BY <1>4, <2>1, Layered
  <2>2. CASE some \cap Layers.Texts = {} /\ some \cap Layers.Policies # {}
    BY <1>4, <2>2, Layered
  <2>3. CASE some \cap Layers.Texts = {} /\ some \cap Layers.Policies = {}
    BY <1>4, <2>3, Layered
  <2>4. QED
    BY <2>1, <2>2, <2>3
<1>5. QED
  BY <1>1, <1>2, <1>3, <1>4

LEMMA SomeLast ==
  ASSUME NEW some \in SUBSET Resource, some # {}
  PROVE  \E r \in some : \A q \in some : r \notin Needs(q)
<1>1. CASE some \cap Layers.Closing # {}
  BY <1>1, Layered, LayersApart
<1>2. CASE some \cap Layers.Closing = {} /\ some \cap Layers.Policies # {}
  BY <1>2, Layered, LayersApart
<1>3. CASE some \cap (Layers.Closing \cup Layers.Policies) = {}
  <2>1. CASE some \cap Layers.Texts # {}
    BY <1>3, <2>1, Layered, LayersApart
  <2>2. CASE some \cap Layers.Texts = {} /\ some \cap Layers.Parts # {}
    BY <1>3, <2>2, Layered, LayersApart
  <2>3. CASE some \cap (Layers.Texts \cup Layers.Parts) = {} /\ some \cap Layers.Hosts # {}
    BY <1>3, <2>3, Layered, LayersApart
  <2>4. CASE some \cap (Layers.Texts \cup Layers.Parts \cup Layers.Hosts) = {}
    BY <1>3, <2>4, Layered
  <2>5. QED
    BY <2>1, <2>2, <2>3, <2>4
<1>4. QED
  BY <1>1, <1>2, <1>3

(* A run never has all its work waiting for itself: infra/main.tf's two    *)
(* modules and their depends_on leave a resource to visit, whatever was    *)
(* cut off before.                                                         *)
THEOREM RunsGetOn == Spec => []NeverStuck
<1>1. TypeOK => NeverStuck
  <2> SUFFICES ASSUME TypeOK, running, pending # {}
               PROVE  \E r \in pending : Buildable(r) \/ Removable(r)
    BY DEF NeverStuck
  <2>1. pending \subseteq Resource /\ target \in Config \cup {None}
    BY DEF TypeOK
  <2>2. CASE pending \cap Desired(target) # {}
    <3>1. PICK r \in pending \cap Desired(target) :
                 Needs(r) \cap (pending \cap Desired(target)) = {}
      BY <2>1, <2>2, SomeFirst
    <3>2. Needs(r) \subseteq Desired(target)
      BY <2>1, <3>1, DesiredIsClosed
    <3>3. QED
      BY <3>1, <3>2 DEF Buildable
  <2>3. CASE pending \ Desired(target) # {}
    <3>1. PICK r \in pending \ Desired(target) :
                 \A q \in pending \ Desired(target) : r \notin Needs(q)
      BY <2>1, <2>3, SomeLast
    <3>2. QED
      BY <3>1 DEF Removable
  <2>4. QED
    BY <2>2, <2>3
<1>2. QED
  BY <1>1, TypeCorrect, PTL
=============================================================================
