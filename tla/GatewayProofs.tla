--------------------------- MODULE GatewayProofs ---------------------------
(***************************************************************************)
(* Proofs about the gateway's pipeline, for every set of requests,         *)
(* messages, nodes and users and either identity mode.                     *)
(***************************************************************************)
EXTENDS Gateway, SequenceTheorems, FiniteSetTheorems, TLAPS

(* The request variables are what TypeOK says, primed: what every way of   *)
(* ending a step establishes.                                              *)
RequestTypes ==
  /\ pc \in [Requests -> Stages]
  /\ ctx \in [Requests -> Context]
  /\ outgoing \in [Requests -> Outgoing]
  /\ calls \in [Requests -> Seq(Outgoing)]
  /\ answer \in [Requests -> Answer \cup {None}]
  /\ telemetry \in [Requests -> Seq(Record)]

(* A trace appends one record to the request's own log. *)
LEMMA TraceType ==
  ASSUME RequestTypes, NEW r \in Requests, NEW c \in Context,
         NEW status \in Nat, NEW category \in Code \cup {None},
         NEW usage \in {"unavailable", "reported"},
         Trace(r, c, status, category, usage)
  PROVE  telemetry' \in [Requests -> Seq(Record)]
<1> DEFINE record == [correlation |-> c.correlation, tid |-> c.tid, oid |-> c.oid,
                      client |-> c.azp, status |-> status, streaming |-> c.streaming,
                      category |-> category, usage |-> usage]
<1>1. record \in Record
  BY DEF Context, Record
<1> HIDE DEF record
<1>2. telemetry' = [telemetry EXCEPT ![r] = Append(@, record)]
  BY DEF Trace, record
<1>3. telemetry[r] \in Seq(Record)
  BY DEF RequestTypes
<1>4. Append(telemetry[r], record) \in Seq(Record)
  BY <1>1, <1>3, AppendProperties
<1> QED  BY <1>2, <1>4 DEF RequestTypes

LEMMA RespondType ==
  ASSUME RequestTypes, NEW r \in Requests, NEW c \in Context,
         NEW status \in Nat, NEW correlation \in Correlation \cup {None},
         NEW code \in Code \cup {None}, NEW next \in Stages,
         Respond(r, c, status, correlation, code, next)
  PROVE  /\ pc' \in [Requests -> Stages]
         /\ ctx' \in [Requests -> Context]
         /\ answer' \in [Requests -> Answer \cup {None}]
<1> DEFINE given == [status |-> status, correlation |-> correlation, code |-> code]
<1>1. given \in Answer
  BY DEF Answer
<1> HIDE DEF given
<1>2. answer' = [answer EXCEPT ![r] = given]
  BY DEF Respond, given
<1> QED  BY <1>1, <1>2 DEF Respond, RequestTypes

LEMMA RejectType ==
  ASSUME RequestTypes, NEW r \in Requests, NEW c \in Context,
         NEW status \in Nat, NEW code \in Code,
         Reject(r, c, status, code)
  PROVE  RequestTypes'
<1>1. c.correlation \in Correlation \cup {None} /\ "done" \in Stages
  BY DEF Context, Stages
<1>2. telemetry' \in [Requests -> Seq(Record)]
  BY TraceType DEF Reject
<1>3. /\ pc' \in [Requests -> Stages]
      /\ ctx' \in [Requests -> Context]
      /\ answer' \in [Requests -> Answer \cup {None}]
  BY <1>1, RespondType DEF Reject
<1> QED  BY <1>2, <1>3 DEF Reject, RequestTypes

(* on-error's taxonomy is total. *)
LEMMA FailureCategoryType ==
  ASSUME NEW status \in Nat
  PROVE  FailureCategory(status) \in Code
BY DEF FailureCategory, Code

(* A failure without a response is answered like a 500. *)
LEMMA StatusOfType ==
  ASSUME NEW response \in Nat
  PROVE  StatusOf(response) \in Nat
BY DEF StatusOf

LEMMA OnErrorType ==
  ASSUME RequestTypes, NEW r \in Requests, NEW c \in Context,
         NEW response \in Nat, OnError(r, c, response)
  PROVE  RequestTypes'
<1>1. c.correlation \in Correlation \cup {None} /\ "done" \in Stages
  BY DEF Context, Stages
<1>2. telemetry' \in [Requests -> Seq(Record)]
  BY TraceType, StatusOfType, FailureCategoryType DEF OnError
<1>3. /\ pc' \in [Requests -> Stages]
      /\ ctx' \in [Requests -> Context]
      /\ answer' \in [Requests -> Answer \cup {None}]
  BY <1>1, RespondType, StatusOfType, FailureCategoryType DEF OnError
<1> QED  BY <1>2, <1>3 DEF OnError, RequestTypes

LEMMA ProceedType ==
  ASSUME RequestTypes, NEW r \in Requests, NEW c \in Context,
         NEW next \in Stages, Proceed(r, c, next),
         outgoing' \in [Requests -> Outgoing]
  PROVE  RequestTypes'
BY DEF Proceed, RequestTypes
-----------------------------------------------------------------------------
(* Type correctness. *)

LEMMA TypeOKSplit ==
  TypeOK <=> /\ message \in [Requests -> Messages]
             /\ RequestTypes
             /\ admitted \in [Keys -> SUBSET Requests]
             /\ GovernanceTypeOK
BY DEF TypeOK, RequestTypes

(* What a message carries, and the keys its claims can make. *)
LEMMA MessageType ==
  ASSUME TypeOK, NEW r \in Requests
  PROVE  /\ message[r] \in Message
         /\ message[r].token \in Token
         /\ message[r].body \in Body
         /\ ctx[r] \in Context
         /\ outgoing[r] \in Outgoing
<1>1. message[r] \in Message
  BY GatewayAssumption DEF TypeOK
<1> QED  BY <1>1 DEF TypeOK, Message

LEMMA InitType == Init => TypeOK
<1> SUFFICES ASSUME Init  PROVE TypeOK
  OBVIOUS
<1>1. \A r \in Requests : message[r] \in Message
  BY GatewayAssumption DEF Init
<1>2. ctx \in [Requests -> Context]
  BY DEF Init, Context
<1>3. outgoing \in [Requests -> Outgoing]
  BY <1>1 DEF Init, Outgoing, Message
<1>4. GovernanceTypeOK
  BY GovernanceAssumption DEF Init, GovernanceInit, GovernanceTypeOK
<1>5. calls \in [Requests -> Seq(Outgoing)] /\ telemetry \in [Requests -> Seq(Record)]
  BY EmptySeq DEF Init
<1> QED  BY <1>2, <1>3, <1>4, <1>5 DEF Init, TypeOK, Stages

(* A step that leaves governance alone and keeps the request's types.      *)
LEMMA StepType ==
  ASSUME TypeOK, NoGovernance, RequestTypes'
  PROVE  TypeOK'
BY DEF TypeOK, NoGovernance, RequestTypes, governanceVars, GovernanceTypeOK

LEMMA GlobalType ==
  ASSUME TypeOK, NEW r \in Requests, Global(r)
  PROVE  TypeOK'
<1> DEFINE c == [ctx[r] EXCEPT !.correlation = CorrelationId(r)]
<1>1. CorrelationId(r) \in Correlation
  BY MessageType DEF CorrelationId, Correlation, Message
<1>2. c \in Context
  BY <1>1, MessageType DEF Context
<1>3. RequestTypes
  BY DEF TypeOK, RequestTypes
<1> HIDE DEF c
<1>4. CASE /\ Trace(r, c, 400, "invalid_request", "unavailable")
           /\ Respond(r, c, 400, None, "https_required", "done")
           /\ UNCHANGED <<outgoing, calls>>
  <2>1. telemetry' \in [Requests -> Seq(Record)]
    BY <1>2, <1>3, <1>4, TraceType DEF Code
  <2>2. /\ pc' \in [Requests -> Stages]
        /\ ctx' \in [Requests -> Context]
        /\ answer' \in [Requests -> Answer \cup {None}]
    BY <1>2, <1>3, <1>4, RespondType DEF Code, Stages
  <2>3. RequestTypes'
    BY <1>3, <1>4, <2>1, <2>2 DEF RequestTypes
  <2> QED  BY <2>3, StepType DEF Global
<1>5. CASE /\ outgoing' = [outgoing EXCEPT ![r].headers = @ \ {"bad_traceparent"}]
           /\ Proceed(r, c, "headers")
  <2>1. outgoing' \in [Requests -> Outgoing]
    BY <1>5 DEF TypeOK, Outgoing
  <2>2. RequestTypes'
    BY <1>2, <1>3, <1>5, <2>1, ProceedType DEF Stages
  <2> QED  BY <2>2, StepType DEF Global
<1> QED  BY <1>4, <1>5 DEF Global, c

LEMMA SecurityHeadersType ==
  ASSUME TypeOK, NEW r \in Requests, SecurityHeaders(r)
  PROVE  TypeOK'
<1>1. outgoing' \in [Requests -> Outgoing]
  BY DEF SecurityHeaders, TypeOK, Outgoing
<1>2. RequestTypes'
  BY <1>1, MessageType, ProceedType DEF SecurityHeaders, Stages, TypeOK, RequestTypes
<1> QED  BY <1>2, StepType DEF SecurityHeaders

LEMMA AuthenticateType ==
  ASSUME TypeOK, NEW r \in Requests, Authenticate(r)
  PROVE  TypeOK'
<1> SUFFICES RequestTypes'
  BY StepType DEF Authenticate
<1> DEFINE t == message[r].token
           claims == [ctx[r] EXCEPT !.tid = t.tid, !.oid = t.oid]
           c == [claims EXCEPT !.azp = ClientApp(t)]
<1>1. claims \in Context /\ ctx[r] \in Context
  BY MessageType DEF Token, Context
<1>2. ClientApp(t) \in Apps \cup {None}
  BY MessageType DEF Token, ClientApp
<1>3. c \in Context
  BY <1>1, <1>2 DEF Context
<1>4. RequestTypes
  BY DEF TypeOK, RequestTypes
<1>5. \/ OnError(r, ctx[r], 401)
      \/ Reject(r, claims, 403, "not_authorized")
      \/ Reject(r, c, 403, "not_delegated_identity")
      \/ Reject(r, c, 403, "unapproved_client")
      \/ Proceed(r, c, "validate") /\ UNCHANGED outgoing
  BY DEF Authenticate, RefuseToken, RefuseScope, RefuseIdentity,
         RefuseClient, AcceptCaller, Claims, CallerClaims
<1> HIDE DEF t, claims, c
<1>6. CASE OnError(r, ctx[r], 401)
  BY <1>1, <1>4, <1>6, OnErrorType
<1>7. CASE Reject(r, claims, 403, "not_authorized")
  BY <1>1, <1>4, <1>7, RejectType DEF Code
<1>8. CASE \/ Reject(r, c, 403, "not_delegated_identity")
           \/ Reject(r, c, 403, "unapproved_client")
  BY <1>3, <1>4, <1>8, RejectType DEF Code
<1>9. CASE Proceed(r, c, "validate") /\ UNCHANGED outgoing
  BY <1>3, <1>4, <1>9, ProceedType DEF Stages, RequestTypes
<1> QED  BY <1>5, <1>6, <1>7, <1>8, <1>9

LEMMA ValidateRequestType ==
  ASSUME TypeOK, NEW r \in Requests, ValidateRequest(r)
  PROVE  TypeOK'
<1> SUFFICES RequestTypes'
  BY StepType DEF ValidateRequest
<1> DEFINE c == [ctx[r] EXCEPT !.streaming = message[r].body.stream = "true"]
<1>1. ctx[r] \in Context /\ c \in Context
  BY MessageType DEF Context
<1>2. RequestTypes
  BY DEF TypeOK, RequestTypes
<1>3. \/ \E status \in {400, 415}, code \in Code : Reject(r, ctx[r], status, code)
      \/ \E response \in GatewayFailure : OnError(r, ctx[r], response)
      \/ /\ outgoing' = [outgoing EXCEPT ![r].body.store = "false"]
         /\ Proceed(r, c, "schema")
  BY DEF ValidateRequest, RefuseMediaType, RefuseUnreadable, RefuseModel,
         RefuseTools, RefuseStore, RewriteBody, WellFormed, ModelApproved, ToolsPermitted,
         Code
<1> HIDE DEF c
<1>4. CASE \E status \in {400, 415}, code \in Code : Reject(r, ctx[r], status, code)
  BY <1>1, <1>2, <1>4, RejectType
<1>5. CASE \E response \in GatewayFailure : OnError(r, ctx[r], response)
  BY <1>1, <1>2, <1>5, OnErrorType DEF GatewayFailure, NoResponse
<1>6. CASE /\ outgoing' = [outgoing EXCEPT ![r].body.store = "false"]
           /\ Proceed(r, c, "schema")
  <2> DEFINE b == [outgoing[r].body EXCEPT !.store = "false"]
  <2>1. b \in Body /\ [outgoing[r] EXCEPT !.body = b] \in Outgoing
    BY MessageType DEF Outgoing, Body
  <2>2. outgoing' = [outgoing EXCEPT ![r] = [outgoing[r] EXCEPT !.body = b]]
    BY <1>6
  <2> HIDE DEF b
  <2>3. outgoing' \in [Requests -> Outgoing]
    BY <2>1, <2>2 DEF TypeOK
  <2> QED  BY <1>1, <1>2, <1>6, <2>3, ProceedType DEF Stages
<1> QED  BY <1>3, <1>4, <1>5, <1>6

LEMMA ValidateContentType ==
  ASSUME TypeOK, NEW r \in Requests, ValidateContent(r)
  PROVE  TypeOK'
<1> SUFFICES RequestTypes'
  BY StepType DEF ValidateContent
<1>1. ctx[r] \in Context
  BY MessageType
<1>2. RequestTypes
  BY DEF TypeOK, RequestTypes
<1>3. \/ \E status \in {400, 413} : OnError(r, ctx[r], status)
      \/ Proceed(r, ctx[r], "govern") /\ UNCHANGED outgoing
  BY DEF ValidateContent
<1>4. CASE \E status \in {400, 413} : OnError(r, ctx[r], status)
  BY <1>1, <1>2, <1>4, OnErrorType
<1>5. CASE Proceed(r, ctx[r], "govern") /\ UNCHANGED outgoing
  BY <1>1, <1>2, <1>5, ProceedType DEF Stages, RequestTypes
<1> QED  BY <1>3, <1>4, <1>5

(* A node counts a call only while it is within the rate. *)
LEMMA CountCallType ==
  ASSUME GovernanceTypeOK, NEW n \in Nodes, NEW k, WithinRate(n, k), CountCall(n, k)
  PROVE  burst' \in [Nodes -> [Keys -> 0 .. Calls]]
<1>1. CASE k \in Keys
  BY <1>1, GovernanceAssumption DEF GovernanceTypeOK, WithinRate, CountCall
<1>2. CASE k \notin Keys
  BY <1>2 DEF GovernanceTypeOK, CountCall
<1> QED  BY <1>1, <1>2

LEMMA GovernType ==
  ASSUME TypeOK, NEW r \in Requests, Govern(r)
  PROVE  TypeOK'
<1> DEFINE k == QuotaKey(r)
<1>1. ctx[r] \in Context /\ RequestTypes /\ GovernanceTypeOK
  BY MessageType DEF TypeOK, RequestTypes
<1>2. PICK n \in Nodes :
        /\ \/ UNCHANGED burst
           \/ WithinRate(n, k) /\ CountCall(n, k)
        /\ \/ UNCHANGED admitted
           \/ admitted' = [admitted EXCEPT ![k] = @ \cup {r}]
        /\ \/ \E status \in {403, 429} : OnError(r, ctx[r], status)
           \/ Proceed(r, ctx[r], "credential") /\ UNCHANGED outgoing
  BY DEF Govern
<1> HIDE DEF k
<1>3. burst' \in [Nodes -> [Keys -> 0 .. Calls]]
  BY <1>1, <1>2, CountCallType DEF GovernanceTypeOK
<1>4. admitted' \in [Keys -> SUBSET Requests]
  <2>1. \A j \in Keys : admitted[j] \in SUBSET Requests /\ admitted[j] \cup {r} \in SUBSET Requests
    BY DEF TypeOK
  <2> QED  BY <1>2, <2>1 DEF TypeOK
<1>5. RequestTypes'
  <2>1. CASE \E status \in {403, 429} : OnError(r, ctx[r], status)
    BY <1>1, <2>1, OnErrorType
  <2>2. CASE Proceed(r, ctx[r], "credential") /\ UNCHANGED outgoing
    BY <1>1, <2>2, ProceedType DEF Stages, RequestTypes
  <2> QED  BY <1>2, <2>1, <2>2
<1> QED  BY <1>3, <1>4, <1>5 DEF Govern, TypeOK, RequestTypes, GovernanceTypeOK

LEMMA BackendAuthType ==
  ASSUME TypeOK, NEW r \in Requests, BackendAuth(r)
  PROVE  TypeOK'
<1> SUFFICES RequestTypes'
  BY StepType DEF BackendAuth
<1>1. ctx[r] \in Context /\ RequestTypes
  BY MessageType DEF TypeOK, RequestTypes
<1>2. CASE \E response \in GatewayFailure : OnError(r, ctx[r], response)
  BY <1>1, <1>2, OnErrorType DEF GatewayFailure, NoResponse
<1>3. CASE /\ outgoing' = [outgoing EXCEPT ![r].credential = "managed_identity",
                                           ![r].body.endUser = ctx[r].oid]
           /\ Proceed(r, ctx[r], "forward")
  <2> DEFINE b == [outgoing[r].body EXCEPT !.endUser = ctx[r].oid]
             o == [outgoing[r] EXCEPT !.credential = "managed_identity", !.body = b]
  <2>1. b \in Body
    BY MessageType DEF Outgoing, Body, Context
  <2> HIDE DEF b
  <2>2. o \in Outgoing
    BY <2>1, MessageType DEF Outgoing
  <2>3. outgoing' = [outgoing EXCEPT ![r] = o]
    BY <1>3 DEF b
  <2> HIDE DEF o
  <2>4. outgoing' \in [Requests -> Outgoing]
    BY <2>2, <2>3 DEF TypeOK
  <2> QED  BY <1>1, <1>3, <2>4, ProceedType DEF Stages
<1>4. CASE Proceed(r, ctx[r], "forward") /\ UNCHANGED outgoing
  BY <1>1, <1>4, ProceedType DEF Stages, RequestTypes
<1> QED  BY <1>2, <1>3, <1>4 DEF BackendAuth

LEMMA ForwardType ==
  ASSUME TypeOK, NEW r \in Requests, Forward(r)
  PROVE  TypeOK'
<1>1. Append(calls[r], outgoing[r]) \in Seq(Outgoing)
  BY AppendProperties DEF TypeOK
<1>2. calls' \in [Requests -> Seq(Outgoing)]
  BY <1>1 DEF Forward, TypeOK
<1>3. RequestTypes'
  BY <1>2 DEF Forward, TypeOK, RequestTypes, Stages
<1> QED  BY <1>3, StepType DEF Forward

LEMMA OutboundType ==
  ASSUME TypeOK, NEW r \in Requests, Outbound(r)
  PROVE  TypeOK'
<1> SUFFICES RequestTypes'
  BY StepType DEF Outbound
<1>1. /\ ctx[r] \in Context /\ RequestTypes
      /\ ctx[r].correlation \in Correlation \cup {None}
  BY MessageType DEF TypeOK, RequestTypes, Context
<1> DEFINE usage == IF ctx[r].streaming THEN "unavailable" ELSE "reported"
<1>2. usage \in {"unavailable", "reported"}
  OBVIOUS
<1>3. PICK status \in BackendStatuses :
        /\ Trace(r, ctx[r], status, None, usage)
        /\ Respond(r, ctx[r], status, ctx[r].correlation, None, "relaying")
  BY DEF Outbound
<1> HIDE DEF usage
<1>4. status \in Nat
  BY GatewayAssumption
<1>5. telemetry' \in [Requests -> Seq(Record)]
  BY <1>1, <1>2, <1>3, <1>4, TraceType
<1>6. /\ pc' \in [Requests -> Stages]
      /\ ctx' \in [Requests -> Context]
      /\ answer' \in [Requests -> Answer \cup {None}]
  BY <1>1, <1>3, <1>4, RespondType DEF Stages
<1> QED  BY <1>1, <1>5, <1>6 DEF Outbound, RequestTypes

LEMMA ForwardFailsType ==
  ASSUME TypeOK, NEW r \in Requests, ForwardFails(r)
  PROVE  TypeOK'
<1>1. ctx[r] \in Context /\ RequestTypes
  BY MessageType DEF TypeOK, RequestTypes
<1>2. RequestTypes'
  BY <1>1, OnErrorType DEF ForwardFails, GatewayFailure, NoResponse
<1> QED  BY <1>2, StepType DEF ForwardFails

LEMMA FinishType ==
  ASSUME TypeOK, NEW r \in Requests, Finish(r)
  PROVE  TypeOK'
<1>1. PICK cost \in 0 .. MaxCost : ChargeTokens(QuotaKey(r), cost)
  BY GovernanceAssumption DEF Finish
<1> DEFINE k == QuotaKey(r)
<1> HIDE DEF k
<1>2. cost \in Nat /\ \A j \in Keys : minute[j] + cost \in Nat /\ day[j] + cost \in Nat
  BY <1>1, GovernanceAssumption DEF TypeOK, GovernanceTypeOK
<1>3. /\ minute' = [minute EXCEPT ![k] = @ + cost]
      /\ day' = [day EXCEPT ![k] = @ + cost]
      /\ UNCHANGED burst
  BY <1>1 DEF ChargeTokens, k
<1>4. GovernanceTypeOK'
  BY <1>2, <1>3 DEF TypeOK, GovernanceTypeOK
<1> QED  BY <1>4 DEF Finish, TypeOK, Stages

LEMMA WindowType ==
  ASSUME TypeOK, WindowRollsOver
  PROVE  TypeOK'
<1>1. GovernanceTypeOK'
  BY GovernanceAssumption
  DEF WindowRollsOver, NextSecond, NextMinute, NextDay, TypeOK, GovernanceTypeOK
<1> QED  BY <1>1 DEF WindowRollsOver, requestVars, TypeOK

LEMMA ServeType ==
  ASSUME TypeOK, NEW r \in Requests, Serve(r)
  PROVE  TypeOK'
BY GlobalType, SecurityHeadersType, AuthenticateType, ValidateRequestType,
   ValidateContentType, GovernType, BackendAuthType, ForwardType, OutboundType,
   ForwardFailsType, FinishType DEF Serve

(* Every variable of the gateway keeps its type. *)
THEOREM TypeCorrect == Spec => []TypeOK
<1>1. Init => TypeOK
  BY InitType
<1>2. TypeOK /\ [Next]_vars => TypeOK'
  <2> SUFFICES ASSUME TypeOK, [Next]_vars  PROVE TypeOK'
    OBVIOUS
  <2>1. CASE WindowRollsOver
    BY <2>1, WindowType
  <2>2. ASSUME NEW r \in Requests, Serve(r)  PROVE TypeOK'
    BY <2>2, ServeType
  <2>3. CASE UNCHANGED vars
    BY <2>3 DEF vars, requestVars, governanceVars, TypeOK, GovernanceTypeOK
  <2> QED  BY <2>1, <2>2, <2>3 DEF Next
<1> QED  BY <1>1, <1>2, PTL DEF Spec
-----------------------------------------------------------------------------
(* The inductive invariant. *)

(* A step of r leaves every other request as it was. *)
SameRequest(q) ==
  /\ message'[q] = message[q]
  /\ pc'[q] = pc[q]
  /\ ctx'[q] = ctx[q]
  /\ outgoing'[q] = outgoing[q]
  /\ calls'[q] = calls[q]
  /\ answer'[q] = answer[q]
  /\ telemetry'[q] = telemetry[q]

LEMMA OthersUntouched ==
  ASSUME TypeOK, NEW r \in Requests, NEW q \in Requests, q # r, Serve(r)
  PROVE  SameRequest(q)
<1> USE DEF SameRequest, TypeOK, NoGovernance
<1>1. CASE Global(r)
  BY <1>1 DEF Global, Trace, Respond, Proceed
<1>2. CASE SecurityHeaders(r)
  BY <1>2 DEF SecurityHeaders, Proceed
<1>3. CASE Authenticate(r)
  BY <1>3 DEF Authenticate, RefuseToken, RefuseScope, RefuseIdentity,
         RefuseClient, AcceptCaller, Claims, CallerClaims,
         Reject, OnError, Trace, Respond, Proceed
<1>4. CASE ValidateRequest(r)
  BY <1>4 DEF ValidateRequest, RefuseMediaType, RefuseUnreadable, RefuseModel,
         RefuseTools, RefuseStore, RewriteBody, GatewayFailure, WellFormed, ModelApproved, ToolsPermitted,
         Reject, OnError, Trace, Respond, Proceed
<1>5. CASE ValidateContent(r)
  BY <1>5 DEF ValidateContent, OnError, Trace, Respond, Proceed
<1>6. CASE Govern(r)
  BY <1>6 DEF Govern, OnError, Trace, Respond, Proceed
<1>7. CASE BackendAuth(r)
  BY <1>7 DEF BackendAuth, OnError, Trace, Respond, Proceed
<1>8. CASE Forward(r)
  BY <1>8 DEF Forward
<1>9. CASE Outbound(r)
  BY <1>9 DEF Outbound, Trace, Respond
<1>10. CASE ForwardFails(r)
  BY <1>10 DEF ForwardFails, OnError, Trace, Respond
<1>11. CASE Finish(r)
  BY <1>11 DEF Finish
<1> QED  BY <1>1, <1>2, <1>3, <1>4, <1>5, <1>6, <1>7, <1>8, <1>9, <1>10, <1>11 DEF Serve

LEMMA SameRequestInv ==
  ASSUME NEW q \in Requests, RequestInv(q), SameRequest(q)
  PROVE  RequestInv(q)'
BY DEF SameRequest, RequestInv, EnvelopeInv, BodyInv, IdentityInv, ForwardInv, AnswerInv,
       AsVouchedFor, Fulfilled

(* What a rejection, in a policy or in on-error, does to its request.      *)
Refused(r, code) ==
  /\ pc'[r] = "done"
  /\ message'[r] = message[r]
  /\ calls'[r] = calls[r]
  /\ answer'[r] # None
  /\ answer'[r].code = code
  /\ Len(telemetry'[r]) = Len(telemetry[r]) + 1

LEMMA RejectRefuses ==
  ASSUME TypeOK, NEW r \in Requests, NEW c \in Context, NEW status \in Nat, NEW code \in Code,
         UNCHANGED message, Reject(r, c, status, code)
  PROVE  Refused(r, code)
<1> DEFINE given == [status |-> status, correlation |-> c.correlation, code |-> code]
<1>1. given \in Answer /\ given.code = code
  BY DEF Answer, Context
<1>2. given # None
  BY <1>1, GatewayAssumption
<1>3. answer'[r] = given /\ pc'[r] = "done" /\ calls'[r] = calls[r] /\ message'[r] = message[r]
  BY DEF Reject, Respond, TypeOK
<1>4. Len(telemetry'[r]) = Len(telemetry[r]) + 1
  BY DEF Reject, Trace, TypeOK
<1> HIDE DEF given
<1> QED  BY <1>1, <1>2, <1>3, <1>4 DEF Refused

LEMMA OnErrorRefuses ==
  ASSUME TypeOK, NEW r \in Requests, NEW c \in Context, NEW response \in Nat,
         UNCHANGED message, OnError(r, c, response)
  PROVE  Refused(r, FailureCategory(StatusOf(response)))
<1> DEFINE status == StatusOf(response)
           code == FailureCategory(status)
           given == [status |-> status, correlation |-> c.correlation, code |-> code]
<1>1. given \in Answer /\ given.code = code
  BY StatusOfType, FailureCategoryType DEF Answer, Context
<1>2. given # None
  BY <1>1, GatewayAssumption
<1>3. answer'[r] = given /\ pc'[r] = "done" /\ calls'[r] = calls[r] /\ message'[r] = message[r]
  BY DEF OnError, Respond, TypeOK
<1>4. Len(telemetry'[r]) = Len(telemetry[r]) + 1
  BY DEF OnError, Trace, TypeOK
<1> HIDE DEF given
<1> QED  BY <1>1, <1>2, <1>3, <1>4 DEF Refused

(* A refusal keeps the invariant if the request was still unanswered and   *)
(* its code is one a stranger may be told, or its caller is entitled.      *)
LEMMA RefusedInv ==
  ASSUME NEW r \in Requests, RequestInv(r), NEW code, Refused(r, code),
         pc[r] \notin {"relaying", "done"},
         \/ CallerEntitled(message[r].token)
         \/ code \in {"https_required", "invalid_token", "not_authorized",
                      "not_delegated_identity", "unapproved_client"}
  PROVE  RequestInv(r)'
<1>1. EnvelopeInv(r)' /\ BodyInv(r)' /\ IdentityInv(r)'
  BY DEF Refused, EnvelopeInv, BodyInv, IdentityInv
<1>2. AnswerInv(r)'
  BY DEF Refused, RequestInv, AnswerInv, CallerEntitled
<1>3. ForwardInv(r)'
  BY DEF Refused, RequestInv, ForwardInv, Fulfilled, CallerEntitled,
      Admissible, Contractual, ContractualButForStore, AsVouchedFor
<1> QED  BY <1>1, <1>2, <1>3 DEF RequestInv

(* A policy that lets a request pass changes its context and stage only.   *)
LEMMA ProceedEffect ==
  ASSUME TypeOK, NEW r \in Requests, NEW c, NEW next, Proceed(r, c, next), UNCHANGED message
  PROVE  /\ pc'[r] = next /\ ctx'[r] = c
         /\ calls'[r] = calls[r] /\ answer'[r] = answer[r]
         /\ telemetry'[r] = telemetry[r] /\ message'[r] = message[r]
BY DEF Proceed, TypeOK

LEMMA GlobalInv ==
  ASSUME TypeOK, NEW r \in Requests, RequestInv(r), Global(r)
  PROVE  RequestInv(r)'
<1> DEFINE c == [ctx[r] EXCEPT !.correlation = CorrelationId(r)]
<1>1. CorrelationId(r) \in Correlation /\ CorrelationId(r) # None
  BY MessageType, GatewayAssumption DEF CorrelationId, Correlation, Message
<1>2. /\ c \in Context /\ c.correlation # None
      /\ c.tid = ctx[r].tid /\ c.oid = ctx[r].oid /\ c.azp = ctx[r].azp
  BY <1>1, MessageType DEF Context
<1>3. pc[r] = "global" /\ UNCHANGED message
  BY DEF Global, NoGovernance
<1> HIDE DEF c
<1>4. CASE /\ Trace(r, c, 400, "invalid_request", "unavailable")
           /\ Respond(r, c, 400, None, "https_required", "done")
           /\ UNCHANGED <<outgoing, calls>>
  <2> DEFINE given == [status |-> 400, correlation |-> None, code |-> "https_required"]
  <2>1. given \in Answer /\ given.code = "https_required"
    BY DEF Answer, Code
  <2>2. given # None
    BY <2>1, GatewayAssumption
  <2>3. answer'[r] = given /\ pc'[r] = "done" /\ calls'[r] = calls[r]
    BY <1>4 DEF Respond, TypeOK
  <2>4. Len(telemetry'[r]) = Len(telemetry[r]) + 1
    BY <1>4 DEF Trace, TypeOK
  <2> HIDE DEF given
  <2>5. Refused(r, "https_required")
    BY <1>3, <2>1, <2>2, <2>3, <2>4 DEF Refused
  <2> QED  BY <1>3, <2>5, RefusedInv
<1>5. CASE /\ message[r].scheme = "https"
           /\ outgoing' = [outgoing EXCEPT ![r].headers = @ \ {"bad_traceparent"}]
           /\ Proceed(r, c, "headers")
  <2>1. /\ outgoing'[r].headers = outgoing[r].headers \ {"bad_traceparent"}
        /\ outgoing'[r].credential = outgoing[r].credential
        /\ outgoing'[r].body = outgoing[r].body
    BY <1>5, MessageType DEF TypeOK, Outgoing
  <2> QED  BY <1>2, <1>3, <1>5, <2>1, ProceedEffect
           DEF RequestInv, EnvelopeInv, BodyInv, IdentityInv, ForwardInv, AnswerInv
<1> QED  BY <1>4, <1>5 DEF Global, c

LEMMA SecurityHeadersInv ==
  ASSUME TypeOK, NEW r \in Requests, RequestInv(r), SecurityHeaders(r)
  PROVE  RequestInv(r)'
<1>1. /\ pc[r] = "headers" /\ UNCHANGED message
      /\ Proceed(r, ctx[r], "authenticate")
  BY DEF SecurityHeaders, NoGovernance
<1>2. outgoing[r].headers \subseteq HeaderGroup /\ "bad_traceparent" \notin outgoing[r].headers
  BY <1>1, MessageType DEF Outgoing, RequestInv, EnvelopeInv
<1>3. /\ outgoing'[r].headers = outgoing[r].headers \
           {"identity", "gateway_metadata", "credential", "preview", "routing"}
      /\ outgoing'[r].credential = outgoing[r].credential
      /\ outgoing'[r].body = outgoing[r].body
  BY MessageType DEF SecurityHeaders, TypeOK, Outgoing
<1>4. outgoing'[r].headers = {}
  BY <1>2, <1>3 DEF HeaderGroup
<1> QED  BY <1>1, <1>3, <1>4, ProceedEffect
         DEF RequestInv, EnvelopeInv, BodyInv, IdentityInv, ForwardInv, AnswerInv

LEMMA AuthenticateInv ==
  ASSUME TypeOK, NEW r \in Requests, RequestInv(r), Authenticate(r)
  PROVE  RequestInv(r)'
<1> DEFINE t == message[r].token
           claims == [ctx[r] EXCEPT !.tid = t.tid, !.oid = t.oid]
           c == [claims EXCEPT !.azp = ClientApp(t)]
<1>1. /\ claims \in Context /\ c \in Context
      /\ c.tid = t.tid /\ c.oid = t.oid /\ c.azp = ClientApp(t)
      /\ c.correlation = ctx[r].correlation
  BY MessageType DEF Token, Context, ClientApp
<1>2. pc[r] = "authenticate" /\ UNCHANGED message
  BY DEF Authenticate, NoGovernance
<1>3. \/ OnError(r, ctx[r], 401)
      \/ Reject(r, claims, 403, "not_authorized")
      \/ Reject(r, c, 403, "not_delegated_identity")
      \/ Reject(r, c, 403, "unapproved_client")
      \/ /\ t.valid /\ HasRequiredScope(t) /\ IsDelegatedHuman(t) /\ ClientAppAllowed(t)
         /\ Proceed(r, c, "validate") /\ UNCHANGED outgoing
  BY DEF Authenticate, RefuseToken, RefuseScope, RefuseIdentity,
         RefuseClient, AcceptCaller, Claims, CallerClaims
<1> HIDE DEF claims, c
<1>4. CASE OnError(r, ctx[r], 401)
  <2>1. FailureCategory(StatusOf(401)) = "invalid_token"
    BY DEF FailureCategory, StatusOf, NoResponse
  <2>2. Refused(r, "invalid_token")
    BY <1>2, <1>4, <2>1, MessageType, OnErrorRefuses
  <2> QED  BY <1>2, <2>2, RefusedInv
<1>5. CASE Reject(r, claims, 403, "not_authorized")
  <2>1. Refused(r, "not_authorized")
    BY <1>1, <1>2, <1>5, RejectRefuses DEF Code
  <2> QED  BY <1>2, <2>1, RefusedInv
<1>6. CASE Reject(r, c, 403, "not_delegated_identity")
  <2>1. Refused(r, "not_delegated_identity")
    BY <1>1, <1>2, <1>6, RejectRefuses DEF Code
  <2> QED  BY <1>2, <2>1, RefusedInv
<1>7. CASE Reject(r, c, 403, "unapproved_client")
  <2>1. Refused(r, "unapproved_client")
    BY <1>1, <1>2, <1>7, RejectRefuses DEF Code
  <2> QED  BY <1>2, <2>1, RefusedInv
<1>8. CASE /\ t.valid /\ HasRequiredScope(t) /\ IsDelegatedHuman(t) /\ ClientAppAllowed(t)
           /\ Proceed(r, c, "validate") /\ UNCHANGED outgoing
  <2>1. None \notin AllowedApps
    BY GatewayAssumption
  <2>2. CallerEntitled(t)
    BY <1>8, <2>1 DEF CallerEntitled, HasRequiredScope, IsDelegatedHuman, ClientAppAllowed,
                      ClientApp
  <2> QED  BY <1>1, <1>2, <1>8, <2>2, ProceedEffect
           DEF RequestInv, EnvelopeInv, BodyInv, IdentityInv, ForwardInv, AnswerInv
<1> QED  BY <1>3, <1>4, <1>5, <1>6, <1>7, <1>8

(* A refusal after authentication, whatever its code. *)
LEMMA LateRefusalInv ==
  ASSUME TypeOK, NEW r \in Requests, RequestInv(r), UNCHANGED message,
         pc[r] \notin {"relaying", "done"}, CallerEntitled(message[r].token),
         \/ \E status \in Nat, code \in Code : Reject(r, ctx[r], status, code)
         \/ \E status \in Nat : OnError(r, ctx[r], status)
  PROVE  RequestInv(r)'
<1>1. \E code : Refused(r, code)
  BY MessageType, RejectRefuses, OnErrorRefuses
<1> QED  BY <1>1, RefusedInv

LEMMA ValidateRequestInv ==
  ASSUME TypeOK, NEW r \in Requests, RequestInv(r), ValidateRequest(r)
  PROVE  RequestInv(r)'
<1> DEFINE m == message[r]
           c == [ctx[r] EXCEPT !.streaming = m.body.stream = "true"]
<1>1. /\ pc[r] = "validate" /\ UNCHANGED message
      /\ CallerEntitled(m.token) /\ outgoing[r].body = m.body
      /\ outgoing[r].credential = "caller" /\ outgoing[r].headers = {}
  BY DEF ValidateRequest, NoGovernance, RequestInv, IdentityInv, BodyInv, EnvelopeInv
<1>2. \/ \E status \in Nat, code \in Code : Reject(r, ctx[r], status, code)
      \/ \E response \in Nat : OnError(r, ctx[r], response)
      \/ /\ m.jsonType /\ m.text = "json" /\ m.body.model = ApprovedModel
         /\ m.body.tools \in {"absent", "function"} /\ ~StoreViolation(m.body)
         /\ outgoing' = [outgoing EXCEPT ![r].body.store = "false"]
         /\ Proceed(r, c, "schema")
  BY DEF ValidateRequest, RefuseMediaType, RefuseUnreadable, RefuseModel,
         RefuseTools, RefuseStore, RewriteBody, WellFormed, ModelApproved, ToolsPermitted,
         Code, GatewayFailure, NoResponse
<1>3. CASE \/ \E status \in Nat, code \in Code : Reject(r, ctx[r], status, code)
           \/ \E response \in Nat : OnError(r, ctx[r], response)
  BY <1>1, <1>3, LateRefusalInv
<1>4. CASE /\ m.jsonType /\ m.text = "json" /\ m.body.model = ApprovedModel
           /\ m.body.tools \in {"absent", "function"} /\ ~StoreViolation(m.body)
           /\ outgoing' = [outgoing EXCEPT ![r].body.store = "false"]
           /\ Proceed(r, c, "schema")
  <2>1. /\ outgoing'[r].body = [m.body EXCEPT !.store = "false"]
        /\ outgoing'[r].credential = "caller" /\ outgoing'[r].headers = {}
    BY <1>1, <1>4, MessageType DEF TypeOK, Outgoing
  <2>2. /\ c.tid = ctx[r].tid /\ c.oid = ctx[r].oid /\ c.azp = ctx[r].azp
        /\ c.correlation = ctx[r].correlation
    BY MessageType DEF Context
  <2> HIDE DEF c
  <2> QED  BY <1>1, <1>4, <2>1, <2>2, ProceedEffect
           DEF RequestInv, EnvelopeInv, BodyInv, IdentityInv, ForwardInv, AnswerInv,
               StoreViolation
<1> QED  BY <1>2, <1>3, <1>4

LEMMA ValidateContentInv ==
  ASSUME TypeOK, NEW r \in Requests, RequestInv(r), ValidateContent(r)
  PROVE  RequestInv(r)'
<1> DEFINE m == message[r]
<1>1. /\ pc[r] = "schema" /\ UNCHANGED message /\ CallerEntitled(m.token)
      /\ outgoing[r].body = [m.body EXCEPT !.store = "false"]
      /\ m.jsonType /\ m.text = "json" /\ m.body.model = ApprovedModel
      /\ m.body.tools \in {"absent", "function"} /\ m.body.store \notin {"true", "string"}
      /\ m.scheme = "https"
  BY DEF ValidateContent, NoGovernance, RequestInv, IdentityInv, BodyInv, EnvelopeInv
<1>2. CASE \E status \in Nat : OnError(r, ctx[r], status)
  BY <1>1, <1>2, LateRefusalInv
<1>3. CASE /\ ~m.oversized /\ SchemaAccepts(outgoing[r].body)
           /\ Proceed(r, ctx[r], "govern") /\ UNCHANGED outgoing
  <2>1. Admissible(m)
    BY <1>1, <1>3, MessageType DEF SchemaAccepts, Admissible, Contractual, ContractualButForStore, Body
  <2> QED  BY <1>1, <1>3, <2>1, ProceedEffect
           DEF RequestInv, EnvelopeInv, BodyInv, IdentityInv, ForwardInv, AnswerInv
<1> QED  BY <1>2, <1>3 DEF ValidateContent

LEMMA GovernInv ==
  ASSUME TypeOK, NEW r \in Requests, RequestInv(r), Govern(r)
  PROVE  RequestInv(r)'
<1>1. pc[r] = "govern" /\ UNCHANGED message /\ CallerEntitled(message[r].token)
  BY DEF Govern, RequestInv, IdentityInv
<1>2. CASE \E status \in Nat : OnError(r, ctx[r], status)
  BY <1>1, <1>2, LateRefusalInv
<1>3. CASE Proceed(r, ctx[r], "credential") /\ UNCHANGED outgoing
  BY <1>1, <1>3, ProceedEffect
  DEF RequestInv, EnvelopeInv, BodyInv, IdentityInv, ForwardInv, AnswerInv
<1> QED  BY <1>2, <1>3 DEF Govern

LEMMA BackendAuthInv ==
  ASSUME TypeOK, NEW r \in Requests, RequestInv(r), BackendAuth(r)
  PROVE  RequestInv(r)'
<1> DEFINE m == message[r]
<1>1. /\ pc[r] = "credential" /\ UNCHANGED message /\ CallerEntitled(m.token)
      /\ Admissible(m) /\ ctx[r].oid = m.token.oid
      /\ outgoing[r].body = [m.body EXCEPT !.store = "false"]
      /\ outgoing[r].credential = "caller" /\ outgoing[r].headers = {}
  BY DEF BackendAuth, NoGovernance, RequestInv, IdentityInv, BodyInv, EnvelopeInv
<1>2. CASE \E response \in GatewayFailure : OnError(r, ctx[r], response)
  BY <1>1, <1>2, LateRefusalInv DEF GatewayFailure, NoResponse
<1>3. CASE /\ Brokered
           /\ outgoing' = [outgoing EXCEPT ![r].credential = "managed_identity",
                                           ![r].body.endUser = ctx[r].oid]
           /\ Proceed(r, ctx[r], "forward")
  <2>1. /\ outgoing'[r].credential = "managed_identity" /\ outgoing'[r].headers = {}
        /\ outgoing'[r].body = [outgoing[r].body EXCEPT !.endUser = ctx[r].oid]
    BY <1>1, <1>3, MessageType DEF TypeOK, Outgoing
  <2>2. outgoing'[r].body.store = "false" /\ outgoing'[r].body.endUser = m.token.oid
    BY <1>1, <2>1, MessageType DEF Body, Outgoing
  <2>3. AsVouchedFor(r, outgoing[r])'
    BY <1>1, <1>3, <2>1, <2>2 DEF AsVouchedFor
  <2>4. Proceed(r, ctx[r], "forward")
    BY <1>3
  <2> QED  BY <1>1, <2>1, <2>3, <2>4, ProceedEffect
           DEF RequestInv, EnvelopeInv, BodyInv, IdentityInv, ForwardInv, AnswerInv
<1>4. CASE ~Brokered /\ Proceed(r, ctx[r], "forward") /\ UNCHANGED outgoing
  <2>1. outgoing[r].body.store = "false" /\ outgoing[r].body.endUser = None
    BY <1>1, MessageType DEF Body, Outgoing, Admissible, Contractual, ContractualButForStore
  <2>2. AsVouchedFor(r, outgoing[r])'
    BY <1>1, <1>4, <2>1 DEF AsVouchedFor
  <2> QED  BY <1>1, <1>4, <2>2, ProceedEffect
           DEF RequestInv, EnvelopeInv, BodyInv, IdentityInv, ForwardInv, AnswerInv
<1> QED  BY <1>2, <1>3, <1>4 DEF BackendAuth

LEMMA ForwardStepInv ==
  ASSUME TypeOK, NEW r \in Requests, RequestInv(r), Forward(r)
  PROVE  RequestInv(r)'
<1>1. /\ pc[r] = "forward" /\ UNCHANGED message /\ calls[r] = <<>>
      /\ AsVouchedFor(r, outgoing[r]) /\ Fulfilled(r)
  BY DEF Forward, NoGovernance, RequestInv, ForwardInv, BodyInv, IdentityInv, Fulfilled
<1>2. /\ pc'[r] = "waiting" /\ calls'[r] = Append(calls[r], outgoing[r])
      /\ UNCHANGED <<ctx, outgoing, answer, telemetry>>
  BY DEF Forward, TypeOK
<1>3. Len(calls'[r]) = 1 /\ calls'[r][1] = outgoing[r] /\ calls'[r] # <<>>
  BY <1>1, <1>2
<1>4. ForwardInv(r)'
  BY <1>1, <1>2, <1>3 DEF ForwardInv, Fulfilled, AsVouchedFor
<1> QED  BY <1>1, <1>2, <1>4
         DEF RequestInv, EnvelopeInv, BodyInv, IdentityInv, AnswerInv

LEMMA OutboundInv ==
  ASSUME TypeOK, NEW r \in Requests, RequestInv(r), Outbound(r)
  PROVE  RequestInv(r)'
<1> DEFINE usage == IF ctx[r].streaming THEN "unavailable" ELSE "reported"
<1>1. PICK status \in BackendStatuses :
        /\ Trace(r, ctx[r], status, None, usage)
        /\ Respond(r, ctx[r], status, ctx[r].correlation, None, "relaying")
  BY DEF Outbound
<1> HIDE DEF usage
<1>2. /\ pc[r] = "waiting" /\ UNCHANGED <<message, outgoing, calls>>
      /\ calls[r] # <<>> /\ CallerEntitled(message[r].token)
      /\ message[r].scheme = "https" /\ ctx[r].correlation # None /\ outgoing[r].headers = {}
      /\ IdentityInv(r)
  BY DEF Outbound, NoGovernance, RequestInv, ForwardInv, Fulfilled, EnvelopeInv
<1> DEFINE given == [status |-> status, correlation |-> ctx[r].correlation, code |-> None]
<1>3. given \in Answer
  BY MessageType, GatewayAssumption DEF Answer, Context
<1>4. given # None
  BY <1>3, GatewayAssumption
<1>5. answer'[r] = given /\ pc'[r] = "relaying" /\ ctx'[r] = ctx[r]
  BY <1>1 DEF Respond, TypeOK
<1>6. Len(telemetry'[r]) = Len(telemetry[r]) + 1
  BY <1>1 DEF Trace, TypeOK
<1> HIDE DEF given
<1>7. AnswerInv(r)'
  BY <1>2, <1>4, <1>5, <1>6 DEF RequestInv, AnswerInv, CallerEntitled
<1>8. ForwardInv(r)'
  BY <1>2, <1>5
  DEF RequestInv, ForwardInv, Fulfilled, CallerEntitled,
      Admissible, Contractual, ContractualButForStore, AsVouchedFor
<1>9. IdentityInv(r)'
  BY <1>2, <1>5 DEF IdentityInv, CallerEntitled, ClientApp
<1> QED  BY <1>2, <1>5, <1>7, <1>8, <1>9 DEF RequestInv, EnvelopeInv, BodyInv

LEMMA ForwardFailsInv ==
  ASSUME TypeOK, NEW r \in Requests, RequestInv(r), ForwardFails(r)
  PROVE  RequestInv(r)'
<1>1. pc[r] = "waiting" /\ UNCHANGED message /\ CallerEntitled(message[r].token)
  BY DEF ForwardFails, NoGovernance, RequestInv, ForwardInv, Fulfilled
<1>2. PICK response \in GatewayFailure \cup {503, 504} : OnError(r, ctx[r], response)
  BY DEF ForwardFails
<1>3. response \in Nat
  BY DEF GatewayFailure, NoResponse
<1>4. \E status \in Nat : OnError(r, ctx[r], status)
  BY <1>2, <1>3
<1> QED  BY <1>1, <1>4, LateRefusalInv

LEMMA FinishInv ==
  ASSUME TypeOK, NEW r \in Requests, RequestInv(r), Finish(r)
  PROVE  RequestInv(r)'
<1>1. /\ pc[r] = "relaying" /\ pc'[r] = "done"
      /\ UNCHANGED <<message, ctx, outgoing, calls, answer, telemetry>>
  BY DEF Finish, TypeOK
<1> QED  BY <1>1 DEF RequestInv, EnvelopeInv, BodyInv, IdentityInv, ForwardInv, AnswerInv,
                     AsVouchedFor, Fulfilled, CallerEntitled,
                     Admissible, Contractual, ContractualButForStore

LEMMA InitInv == Init => PipelineInv
<1> SUFFICES ASSUME Init, NEW r \in Requests  PROVE RequestInv(r)
  BY DEF PipelineInv
<1>1. /\ pc[r] = "global" /\ calls[r] = <<>> /\ answer[r] = None /\ telemetry[r] = <<>>
      /\ outgoing[r].credential = "caller" /\ outgoing[r].body = message[r].body
      /\ ctx[r].tid = None /\ ctx[r].oid = None /\ ctx[r].azp = None
  BY DEF Init
<1> QED  BY <1>1 DEF RequestInv, EnvelopeInv, BodyInv, IdentityInv, ForwardInv, AnswerInv

LEMMA ServeInv ==
  ASSUME TypeOK, NEW r \in Requests, NEW q \in Requests, RequestInv(q), Serve(r)
  PROVE  RequestInv(q)'
<1>1. CASE q # r
  BY <1>1, OthersUntouched, SameRequestInv
<1>2. CASE q = r
  BY <1>2, GlobalInv, SecurityHeadersInv, AuthenticateInv, ValidateRequestInv,
     ValidateContentInv, GovernInv, BackendAuthInv, ForwardStepInv, OutboundInv,
     ForwardFailsInv, FinishInv DEF Serve
<1> QED  BY <1>1, <1>2

(* What each fragment established still holds at every later one.          *)
THEOREM PipelineCorrect == Spec => []PipelineInv
<1>1. Init => PipelineInv
  BY InitInv
<1>2. TypeOK /\ PipelineInv /\ [Next]_vars => PipelineInv'
  <2> SUFFICES ASSUME TypeOK, PipelineInv, [Next]_vars, NEW q \in Requests
               PROVE  RequestInv(q)'
    BY DEF PipelineInv
  <2>1. RequestInv(q)
    BY DEF PipelineInv
  <2>2. CASE WindowRollsOver \/ UNCHANGED vars
    <3>1. SameRequest(q)
      BY <2>2 DEF WindowRollsOver, requestVars, vars, SameRequest
    <3> QED  BY <2>1, <3>1, SameRequestInv
  <2>3. ASSUME NEW r \in Requests, Serve(r)  PROVE RequestInv(q)'
    BY <2>1, <2>3, ServeInv
  <2> QED  BY <2>2, <2>3 DEF Next
<1> QED  BY <1>1, <1>2, TypeCorrect, PTL DEF Spec

(* Nothing reaches the model unless an entitled human asked for it within  *)
(* the contract, but for a store of null, which the policies take for an   *)
(* omitted one.                                                            *)
THEOREM OnlyContractual == Spec => []OnlyContractualForwarded
<1>1. PipelineInv => OnlyContractualForwarded
  BY DEF PipelineInv, RequestInv, ForwardInv, Fulfilled, OnlyContractualForwarded
<1> QED  BY <1>1, PipelineCorrect, PTL

(* What the model receives is what the gateway vouches for, in both modes. *)
THEOREM ValidatedIdentity == Spec => []BackendSeesValidatedIdentity
<1>1. TypeOK /\ PipelineInv => BackendSeesValidatedIdentity
  <2> SUFFICES ASSUME TypeOK, PipelineInv, NEW r \in Requests, NEW i \in DOMAIN calls[r]
               PROVE  AsVouchedFor(r, calls[r][i])
    BY DEF BackendSeesValidatedIdentity
  <2>1. calls[r] \in Seq(Outgoing) /\ ForwardInv(r)
    BY DEF TypeOK, PipelineInv, RequestInv
  <2>2. calls[r] # <<>>
    BY <2>1
  <2>3. i = 1
    BY <2>1, <2>2 DEF ForwardInv
  <2> QED  BY <2>1, <2>2, <2>3 DEF ForwardInv
<1> QED  BY <1>1, PipelineCorrect, TypeCorrect, PTL

(* Every answer leaves exactly one record. *)
THEOREM OneRecord == Spec => []OneRecordPerAnswer
<1>1. PipelineInv => OneRecordPerAnswer
  BY DEF PipelineInv, RequestInv, AnswerInv, OneRecordPerAnswer
<1> QED  BY <1>1, PipelineCorrect, PTL

(* A stranger learns that he is one, and nothing else. *)
THEOREM StrangersLearnNothing == Spec => []RefusalOrder
<1>1. PipelineInv => RefusalOrder
  BY DEF PipelineInv, RequestInv, AnswerInv, RefusalOrder
<1> QED  BY <1>1, PipelineCorrect, PTL
-----------------------------------------------------------------------------
(* The record of an answer tells the truth about it.                       *)

(* A context that names whom the record of an answer with this code must   *)
(* name: nobody before a token was validated, then its tenant and human,   *)
(* and its application once the fragment has read it.                      *)
Named(r, c, code) ==
  LET t == message[r].token
      authenticated == message[r].scheme = "https" /\ t.valid IN
  /\ c.tid = IF authenticated THEN t.tid ELSE None
  /\ c.oid = IF authenticated THEN t.oid ELSE None
  /\ c.azp = IF authenticated /\ code # "not_authorized" THEN ClientApp(t) ELSE None

Truthful(r) == RecordMatchesAnswer(r) /\ RecordAttribution(r)

(* The trace of a request not yet answered is the first of its log. *)
LEMMA FirstRecord ==
  ASSUME TypeOK, NEW r \in Requests, AnswerInv(r), answer[r] = None,
         NEW c \in Context, NEW status, NEW category, NEW usage,
         Trace(r, c, status, category, usage)
  PROVE  LET record == telemetry'[r][1] IN
         /\ record.status = status /\ record.category = category
         /\ record.correlation = c.correlation
         /\ record.tid = c.tid /\ record.oid = c.oid /\ record.client = c.azp
<1> DEFINE record == [correlation |-> c.correlation, tid |-> c.tid, oid |-> c.oid,
                      client |-> c.azp, status |-> status, streaming |-> c.streaming,
                      category |-> category, usage |-> usage]
<1>1. telemetry[r] \in Seq(Record) /\ Len(telemetry[r]) = 0
  BY DEF TypeOK, AnswerInv
<1>2. telemetry'[r] = Append(telemetry[r], record)
  BY DEF Trace, TypeOK
<1>3. /\ record.status = status /\ record.category = category
      /\ record.correlation = c.correlation
      /\ record.tid = c.tid /\ record.oid = c.oid /\ record.client = c.azp
  OBVIOUS
<1> HIDE DEF record
<1>4. telemetry'[r][1] = record
  BY <1>1, <1>2
<1> QED  BY <1>3, <1>4

(* Whichever policy answers, its answer and its trace agree, and the trace *)
(* names the caller if the context did.                                    *)
LEMMA AnsweredTruthfully ==
  ASSUME TypeOK, NEW r \in Requests, AnswerInv(r), answer[r] = None, UNCHANGED message,
         NEW c \in Context, c.correlation # None, NEW response, NEW status, NEW correlation,
         NEW code, NEW category, NEW usage, NEW next,
         Trace(r, c, response, category, usage),
         Respond(r, c, status, correlation, code, next),
         \/ response = status
         \/ response = NoResponse /\ status = 500 /\ code = "backend_error",
         \/ code = "https_required"
         \/ correlation = c.correlation /\ code = category,
         Named(r, c, code)
  PROVE  Truthful(r)'
<1>1. /\ answer'[r].status = status /\ answer'[r].correlation = correlation
      /\ answer'[r].code = code
  BY DEF Respond, TypeOK
<1>2. /\ telemetry'[r][1].status = response /\ telemetry'[r][1].category = category
      /\ telemetry'[r][1].correlation = c.correlation
      /\ telemetry'[r][1].tid = c.tid /\ telemetry'[r][1].oid = c.oid
      /\ telemetry'[r][1].client = c.azp
  BY FirstRecord
<1>3. c.correlation \in Correlation
  BY DEF Context
<1>4. RecordMatchesAnswer(r)'
  BY <1>1, <1>2, <1>3 DEF RecordMatchesAnswer
<1>5. RecordAttribution(r)'
  BY <1>1, <1>2 DEF RecordAttribution, Named, ClientApp
<1> QED  BY <1>4, <1>5 DEF Truthful

LEMMA RejectedTruthfully ==
  ASSUME TypeOK, NEW r \in Requests, AnswerInv(r), answer[r] = None, UNCHANGED message,
         NEW c \in Context, c.correlation # None, NEW status, NEW code,
         Reject(r, c, status, code), Named(r, c, code)
  PROVE  Truthful(r)'
BY AnsweredTruthfully DEF Reject

LEMMA FailedTruthfully ==
  ASSUME TypeOK, NEW r \in Requests, AnswerInv(r), answer[r] = None, UNCHANGED message,
         NEW c \in Context, c.correlation # None, NEW response,
         OnError(r, c, response), Named(r, c, FailureCategory(StatusOf(response)))
  PROVE  Truthful(r)'
<1> DEFINE code == FailureCategory(StatusOf(response))
<1>1. \/ response = StatusOf(response)
      \/ response = NoResponse /\ StatusOf(response) = 500 /\ code = "backend_error"
  BY DEF StatusOf, NoResponse, FailureCategory
<1>2. /\ Trace(r, c, response, code, "unavailable")
      /\ Respond(r, c, StatusOf(response), c.correlation, code, "done")
      /\ Named(r, c, code)
  BY DEF OnError
<1> HIDE DEF code
<1> QED  BY <1>1, <1>2, AnsweredTruthfully

(* Past authentication the context names the validated caller. *)
LEMMA NamedPastAuthentication ==
  ASSUME TypeOK, NEW r \in Requests, RequestInv(r),
         pc[r] \notin {"global", "headers", "authenticate", "done"},
         NEW code, code # "not_authorized"
  PROVE  Named(r, ctx[r], code) /\ ctx[r].correlation # None /\ ctx[r] \in Context
BY MessageType DEF RequestInv, EnvelopeInv, IdentityInv, CallerEntitled, Named

LEMMA FailureIsNotScope ==
  ASSUME NEW status
  PROVE  FailureCategory(status) # "not_authorized"
BY DEF FailureCategory

(* A refusal past authentication. *)
LEMMA LateRefusalTruthful ==
  ASSUME TypeOK, NEW r \in Requests, RequestInv(r), UNCHANGED message,
         pc[r] \notin {"global", "headers", "authenticate", "relaying", "done"},
         \/ \E status, code : code # "not_authorized" /\ Reject(r, ctx[r], status, code)
         \/ \E status : OnError(r, ctx[r], status)
  PROVE  Truthful(r)'
<1>1. AnswerInv(r) /\ answer[r] = None
  BY DEF RequestInv, AnswerInv
<1>2. CASE \E status, code : code # "not_authorized" /\ Reject(r, ctx[r], status, code)
  BY <1>1, <1>2, RejectedTruthfully, NamedPastAuthentication
<1>3. CASE \E status : OnError(r, ctx[r], status)
  BY <1>1, <1>3, FailedTruthfully, NamedPastAuthentication, FailureIsNotScope
<1> QED  BY <1>2, <1>3

LEMMA GlobalTruthful ==
  ASSUME TypeOK, NEW r \in Requests, RequestInv(r), Global(r), answer'[r] # None
  PROVE  Truthful(r)'
<1> DEFINE c == [ctx[r] EXCEPT !.correlation = CorrelationId(r)]
<1>1. CorrelationId(r) \in Correlation /\ CorrelationId(r) # None
  BY MessageType, GatewayAssumption DEF CorrelationId, Correlation, Message
<1>2. /\ c \in Context /\ c.correlation # None
      /\ c.tid = ctx[r].tid /\ c.oid = ctx[r].oid /\ c.azp = ctx[r].azp
  BY <1>1, MessageType DEF Context
<1>3. /\ pc[r] = "global" /\ UNCHANGED message /\ AnswerInv(r) /\ answer[r] = None
      /\ ctx[r].tid = None /\ ctx[r].oid = None /\ ctx[r].azp = None
  BY DEF Global, NoGovernance, RequestInv, AnswerInv, IdentityInv
<1> HIDE DEF c
<1>4. /\ message[r].scheme # "https"
      /\ Trace(r, c, 400, "invalid_request", "unavailable")
      /\ Respond(r, c, 400, None, "https_required", "done")
  BY <1>3 DEF Global, Proceed, c
<1>5. Named(r, c, "https_required")
  BY <1>2, <1>3, <1>4 DEF Named
<1> QED  BY <1>2, <1>3, <1>4, <1>5, AnsweredTruthfully

LEMMA AuthenticateTruthful ==
  ASSUME TypeOK, NEW r \in Requests, RequestInv(r), Authenticate(r), answer'[r] # None
  PROVE  Truthful(r)'
<1> DEFINE t == message[r].token
           claims == [ctx[r] EXCEPT !.tid = t.tid, !.oid = t.oid]
           c == [claims EXCEPT !.azp = ClientApp(t)]
<1>1. /\ claims \in Context /\ claims.correlation = ctx[r].correlation
      /\ claims.tid = t.tid /\ claims.oid = t.oid /\ claims.azp = ctx[r].azp
      /\ c \in Context /\ c.correlation = ctx[r].correlation
      /\ c.tid = t.tid /\ c.oid = t.oid /\ c.azp = ClientApp(t)
      /\ ctx[r] \in Context
  BY MessageType DEF Token, Context, ClientApp
<1>2. /\ UNCHANGED message /\ AnswerInv(r) /\ answer[r] = None
      /\ message[r].scheme = "https" /\ ctx[r].correlation # None
      /\ ctx[r].tid = None /\ ctx[r].oid = None /\ ctx[r].azp = None
  BY DEF Authenticate, NoGovernance, RequestInv, AnswerInv, IdentityInv, EnvelopeInv
<1>3. \/ ~t.valid /\ OnError(r, ctx[r], 401)
      \/ t.valid /\ Reject(r, claims, 403, "not_authorized")
      \/ t.valid /\ Reject(r, c, 403, "not_delegated_identity")
      \/ t.valid /\ Reject(r, c, 403, "unapproved_client")
  BY <1>2 DEF Authenticate, RefuseToken, RefuseScope, RefuseIdentity,
              RefuseClient, AcceptCaller, Claims, CallerClaims, Proceed
<1> HIDE DEF claims, c
<1>4. CASE ~t.valid /\ OnError(r, ctx[r], 401)
  <2>1. Named(r, ctx[r], FailureCategory(StatusOf(401)))
    BY <1>2, <1>4 DEF Named
  <2> QED  BY <1>1, <1>2, <1>4, <2>1, FailedTruthfully
<1>5. CASE t.valid /\ Reject(r, claims, 403, "not_authorized")
  <2>1. Named(r, claims, "not_authorized")
    BY <1>1, <1>2, <1>5 DEF Named
  <2> QED  BY <1>1, <1>2, <1>5, <2>1, RejectedTruthfully
<1>6. CASE \E code \in {"not_delegated_identity", "unapproved_client"} :
             t.valid /\ Reject(r, c, 403, code)
  <2>1. PICK code \in {"not_delegated_identity", "unapproved_client"} :
          t.valid /\ Reject(r, c, 403, code)
    BY <1>6
  <2>2. Named(r, c, code)
    BY <1>1, <1>2, <2>1 DEF Named
  <2> QED  BY <1>1, <1>2, <2>1, <2>2, RejectedTruthfully
<1> QED  BY <1>3, <1>4, <1>5, <1>6

LEMMA OutboundTruthful ==
  ASSUME TypeOK, NEW r \in Requests, RequestInv(r), Outbound(r)
  PROVE  Truthful(r)'
<1>1. /\ UNCHANGED message /\ AnswerInv(r) /\ answer[r] = None
      /\ pc[r] \notin {"global", "headers", "authenticate", "done"}
  BY DEF Outbound, NoGovernance, RequestInv, AnswerInv
<1>2. PICK status \in BackendStatuses, usage \in {"unavailable", "reported"} :
        /\ Trace(r, ctx[r], status, None, usage)
        /\ Respond(r, ctx[r], status, ctx[r].correlation, None, "relaying")
  BY DEF Outbound
<1>3. None # "not_authorized"
  BY GatewayAssumption DEF Code
<1> QED  BY <1>1, <1>2, <1>3, NamedPastAuthentication, AnsweredTruthfully

(* Serving a request keeps its record truthful, whichever fragment ran. *)
LEMMA OwnTruthful ==
  ASSUME TypeOK, NEW r \in Requests, RequestInv(r), Serve(r), answer'[r] # None,
         answer[r] # None => Truthful(r)
  PROVE  Truthful(r)'
<1>1. answer[r] # None <=> pc[r] \in {"relaying", "done"}
  BY DEF RequestInv, AnswerInv
<1>2. CASE Global(r)
  BY <1>2, GlobalTruthful
<1>3. CASE SecurityHeaders(r)
  BY <1>1, <1>3 DEF SecurityHeaders, Proceed
<1>4. CASE Authenticate(r)
  BY <1>4, AuthenticateTruthful
<1>5. CASE ValidateRequest(r)
  <2>1. /\ UNCHANGED message
        /\ pc[r] \notin {"global", "headers", "authenticate", "relaying", "done"}
    BY <1>5 DEF ValidateRequest, NoGovernance
  <2>2. \/ \E status, code : code # "not_authorized" /\ Reject(r, ctx[r], status, code)
        \/ \E status : OnError(r, ctx[r], status)
    BY <1>1, <1>5, <2>1
    DEF ValidateRequest, RefuseMediaType, RefuseUnreadable, RefuseModel,
        RefuseTools, RefuseStore, RewriteBody, Proceed
  <2> QED  BY <2>1, <2>2, LateRefusalTruthful
<1>6. CASE ValidateContent(r) \/ Govern(r) \/ BackendAuth(r) \/ ForwardFails(r)
  <2>1. /\ UNCHANGED message
        /\ pc[r] \notin {"global", "headers", "authenticate", "relaying", "done"}
    BY <1>6 DEF ValidateContent, Govern, BackendAuth, ForwardFails, NoGovernance
  <2>2. \E status : OnError(r, ctx[r], status)
    BY <1>1, <1>6, <2>1
    DEF ValidateContent, Govern, BackendAuth, ForwardFails, Proceed
  <2> QED  BY <2>1, <2>2, LateRefusalTruthful
<1>7. CASE Forward(r)
  BY <1>1, <1>7 DEF Forward
<1>8. CASE Outbound(r)
  BY <1>8, OutboundTruthful
<1>9. CASE Finish(r)
  BY <1>1, <1>9 DEF Finish, Truthful, RecordMatchesAnswer, RecordAttribution
<1> QED  BY <1>2, <1>3, <1>4, <1>5, <1>6, <1>7, <1>8, <1>9 DEF Serve

LEMMA SameTruthful ==
  ASSUME NEW q \in Requests, SameRequest(q), answer[q] # None => Truthful(q)
  PROVE  answer'[q] # None => Truthful(q)'
BY DEF SameRequest, Truthful, RecordMatchesAnswer, RecordAttribution

LEMMA ServeTruthful ==
  ASSUME TypeOK, NEW r \in Requests, NEW q \in Requests, RequestInv(q), Serve(r),
         answer[q] # None => Truthful(q)
  PROVE  answer'[q] # None => Truthful(q)'
BY OwnTruthful, SameTruthful, OthersUntouched

(* Every record states the status, the correlation id and the code the     *)
(* caller was told, and names the validated caller or nobody. A failure    *)
(* without a response is the exception: it is recorded with status 0 and   *)
(* told as a 500 backend_error.                                            *)
THEOREM RecordsAreTruthful == Spec => []TruthfulRecords
<1>1. Init => TruthfulRecords
  BY DEF Init, TruthfulRecords
<1>2. TypeOK /\ PipelineInv /\ TruthfulRecords /\ [Next]_vars => TruthfulRecords'
  <2> SUFFICES ASSUME TypeOK, PipelineInv, TruthfulRecords, [Next]_vars, NEW q \in Requests
               PROVE  answer'[q] # None => Truthful(q)'
    BY DEF TruthfulRecords, Truthful
  <2>1. RequestInv(q) /\ (answer[q] # None => Truthful(q))
    BY DEF PipelineInv, TruthfulRecords, Truthful
  <2>2. CASE WindowRollsOver \/ UNCHANGED vars
    <3>1. SameRequest(q)
      BY <2>2 DEF WindowRollsOver, requestVars, vars, SameRequest
    <3> QED  BY <2>1, <3>1, SameTruthful
  <2>3. ASSUME NEW r \in Requests, Serve(r)  PROVE answer'[q] # None => Truthful(q)'
    BY <2>1, <2>3, ServeTruthful
  <2> QED  BY <2>2, <2>3 DEF Next
<1> QED  BY <1>1, <1>2, TypeCorrect, PipelineCorrect, PTL DEF Spec
-----------------------------------------------------------------------------
(* What the code of an answer tells of the call: that its token was not    *)
(* valid, that the model has seen it, or that it has not.                  *)
Telling(r) ==
  answer[r] # None =>
    /\ answer[r].code = "invalid_token" => ~message[r].token.valid
    /\ answer[r].code = None => calls[r] # <<>>
    /\ calls[r] # <<>> => answer[r].code \in {None, "backend_unavailable",
                                             "backend_timeout", "backend_error"}

LEMMA RefusalTells ==
  ASSUME TypeOK, NEW r \in Requests, ForwardInv(r), UNCHANGED <<message, calls>>,
         pc[r] \notin {"waiting", "relaying", "done"},
         NEW c, NEW status, NEW correlation, NEW code \in Code, NEW next,
         Respond(r, c, status, correlation, code, next),
         code = "invalid_token" => ~message[r].token.valid
  PROVE  Telling(r)'
<1>1. answer'[r].code = code
  BY DEF Respond, TypeOK
<1>2. code # None
  BY GatewayAssumption
<1> QED  BY <1>1, <1>2 DEF Telling, ForwardInv

(* A rejection, or a failure other than a 401, before the forward. *)
LEMMA RejectTells ==
  ASSUME TypeOK, NEW r \in Requests, ForwardInv(r), UNCHANGED message,
         pc[r] \notin {"waiting", "relaying", "done"}, NEW c,
         \/ \E status, code : code \in Code \ {"invalid_token"} /\ Reject(r, c, status, code)
         \/ \E response : response # 401 /\ OnError(r, c, response)
  PROVE  Telling(r)'
<1>1. CASE \E status, code : code \in Code \ {"invalid_token"} /\ Reject(r, c, status, code)
  BY <1>1, RefusalTells DEF Reject
<1>2. CASE \E response : response # 401 /\ OnError(r, c, response)
  <2>1. PICK response : response # 401 /\ OnError(r, c, response)
    BY <1>2
  <2>2. /\ FailureCategory(StatusOf(response)) \in Code
        /\ FailureCategory(StatusOf(response)) # "invalid_token"
    BY <2>1 DEF StatusOf, FailureCategory, Code
  <2> QED  BY <2>1, <2>2, RefusalTells DEF OnError
<1> QED  BY <1>1, <1>2

LEMMA BackendTells ==
  ASSUME TypeOK, NEW r \in Requests, ForwardInv(r), Outbound(r) \/ ForwardFails(r)
  PROVE  Telling(r)'
<1>1. calls'[r] = calls[r] /\ calls[r] # <<>>
  BY DEF Outbound, ForwardFails, OnError, ForwardInv
<1>2. answer'[r].code \in {None, "backend_unavailable", "backend_timeout", "backend_error"}
  <2>1. CASE Outbound(r)
    BY <2>1 DEF Outbound, Respond, TypeOK
  <2>2. CASE ForwardFails(r)
    <3>1. PICK response \in GatewayFailure \cup {503, 504} : OnError(r, ctx[r], response)
      BY <2>2 DEF ForwardFails
    <3>2. answer'[r].code = FailureCategory(StatusOf(response))
      BY <3>1 DEF OnError, Respond, TypeOK
    <3> QED  BY <3>1, <3>2 DEF FailureCategory, StatusOf, GatewayFailure, NoResponse
  <2> QED  BY <2>1, <2>2
<1>3. None # "invalid_token"
  BY GatewayAssumption DEF Code
<1> QED  BY <1>1, <1>2, <1>3 DEF Telling

LEMMA OwnTelling ==
  ASSUME TypeOK, NEW r \in Requests, RequestInv(r), Serve(r), Telling(r)
  PROVE  Telling(r)'
<1>1. ForwardInv(r) /\ (answer[r] # None <=> pc[r] \in {"relaying", "done"})
  BY DEF RequestInv, AnswerInv, ForwardInv
<1>2. CASE Global(r)
  <2>1. UNCHANGED <<message, calls>> /\ pc[r] = "global"
    BY <1>2 DEF Global, NoGovernance, Proceed
  <2>2. CASE answer' = answer
    BY <1>1, <2>1, <2>2 DEF Telling
  <2>3. CASE \E c : Respond(r, c, 400, None, "https_required", "done")
    BY <1>1, <2>1, <2>3, RefusalTells DEF Code
  <2> QED  BY <1>2, <2>2, <2>3 DEF Global, Proceed
<1>3. CASE SecurityHeaders(r)
  BY <1>1, <1>3 DEF SecurityHeaders, Proceed, Telling
<1>4. CASE Authenticate(r)
  <2>1. UNCHANGED message /\ pc[r] = "authenticate"
    BY <1>4 DEF Authenticate, NoGovernance
  <2>2. CASE ~message[r].token.valid /\ OnError(r, ctx[r], 401)
    BY <1>1, <2>1, <2>2, RefusalTells, FailureCategoryType DEF OnError, StatusOf, NoResponse
  <2>3. CASE \E c, code : /\ code \in {"not_authorized", "not_delegated_identity",
                                       "unapproved_client"}
                         /\ Reject(r, c, 403, code)
    BY <1>1, <2>1, <2>3, RejectTells DEF Code
  <2>4. CASE answer' = answer
    BY <1>1, <2>1, <2>4 DEF Telling
  <2> QED
    BY <1>4, <2>2, <2>3, <2>4
    DEF Authenticate, RefuseToken, RefuseScope, RefuseIdentity, RefuseClient, AcceptCaller,
        Proceed
<1>5. CASE ValidateRequest(r)
  <2>1. UNCHANGED message /\ pc[r] = "validate"
    BY <1>5 DEF ValidateRequest, NoGovernance
  <2>2. \/ \E status, code : /\ code \in Code \ {"invalid_token"}
                              /\ Reject(r, ctx[r], status, code)
        \/ \E response : response # 401 /\ OnError(r, ctx[r], response)
        \/ answer' = answer
    BY <1>5 DEF GatewayFailure, NoResponse, ValidateRequest, RefuseMediaType, RefuseUnreadable, RefuseModel,
                RefuseTools, RefuseStore, RewriteBody, Proceed, Code
  <2> QED  BY <1>1, <2>1, <2>2, RejectTells DEF Telling
<1>6. CASE ValidateContent(r) \/ Govern(r) \/ BackendAuth(r)
  <2>1. UNCHANGED message /\ pc[r] \notin {"waiting", "relaying", "done"}
    BY <1>6 DEF ValidateContent, Govern, BackendAuth, NoGovernance
  <2>2. (\E response : response # 401 /\ OnError(r, ctx[r], response)) \/ answer' = answer
    BY <1>6 DEF ValidateContent, Govern, BackendAuth, Proceed, GatewayFailure, NoResponse
  <2> QED  BY <1>1, <2>1, <2>2, RejectTells DEF Telling
<1>7. CASE Forward(r)
  BY <1>1, <1>7 DEF Forward, Telling
<1>8. CASE Outbound(r) \/ ForwardFails(r)
  BY <1>1, <1>8, BackendTells
<1>9. CASE Finish(r)
  BY <1>9 DEF Finish, Telling
<1> QED  BY <1>2, <1>3, <1>4, <1>5, <1>6, <1>7, <1>8, <1>9 DEF Serve

LEMMA ServeTelling ==
  ASSUME TypeOK, NEW r \in Requests, NEW q \in Requests, RequestInv(q), Serve(r), Telling(q)
  PROVE  Telling(q)'
<1>1. SameRequest(q) => Telling(q)'
  BY DEF SameRequest, Telling
<1> QED  BY <1>1, OwnTelling, OthersUntouched

(* How far one step takes its request, seen from the backend.              *)
LEMMA ServeMoves ==
  ASSUME TypeOK, NEW r \in Requests, Serve(r)
  PROVE  /\ message' = message
         /\ \/ /\ pc[r] \notin {"waiting", "relaying", "done"}
               /\ pc'[r] \notin {"waiting", "relaying"}
               /\ calls'[r] = calls[r]
            \/ /\ pc[r] = "forward" /\ pc'[r] = "waiting"
               /\ calls'[r] = Append(calls[r], outgoing[r])
            \/ /\ pc[r] = "waiting" /\ pc'[r] \in {"relaying", "done"}
               /\ calls'[r] = calls[r]
            \/ /\ pc[r] = "relaying" /\ pc'[r] = "done"
               /\ calls'[r] = calls[r]
<1> USE DEF TypeOK, NoGovernance
<1>1. CASE Global(r)
  BY <1>1 DEF Global, Respond, Proceed
<1>2. CASE SecurityHeaders(r)
  BY <1>2 DEF SecurityHeaders, Proceed
<1>3. CASE Authenticate(r)
  BY <1>3 DEF Authenticate, RefuseToken, RefuseScope, RefuseIdentity,
         RefuseClient, AcceptCaller, Claims, CallerClaims,
         Reject, OnError, Respond, Proceed
<1>4. CASE ValidateRequest(r)
  BY <1>4 DEF ValidateRequest, RefuseMediaType, RefuseUnreadable, RefuseModel,
         RefuseTools, RefuseStore, RewriteBody, WellFormed, ModelApproved, ToolsPermitted,
         Reject, OnError, Respond, Proceed
<1>5. CASE ValidateContent(r)
  BY <1>5 DEF ValidateContent, OnError, Respond, Proceed
<1>6. CASE Govern(r)
  BY <1>6 DEF Govern, OnError, Respond, Proceed
<1>7. CASE BackendAuth(r)
  BY <1>7 DEF BackendAuth, OnError, Respond, Proceed
<1>8. CASE Forward(r)
  BY <1>8 DEF Forward
<1>9. CASE Outbound(r)
  BY <1>9 DEF Outbound, Respond
<1>10. CASE ForwardFails(r)
  BY <1>10 DEF ForwardFails, OnError, Respond
<1>11. CASE Finish(r)
  BY <1>11 DEF Finish
<1> QED  BY <1>1, <1>2, <1>3, <1>4, <1>5, <1>6, <1>7, <1>8, <1>9, <1>10, <1>11 DEF Serve

(* An answer is given once, and nothing is forwarded after it.             *)
LEMMA AnswerKept ==
  ASSUME TypeOK, NEW r \in Requests, NEW q \in Requests, RequestInv(q), Serve(r),
         answer[q] # None
  PROVE  answer'[q] = answer[q] /\ calls'[q] = calls[q]
<1>1. pc[q] \in {"relaying", "done"}
  BY DEF RequestInv, AnswerInv
<1>2. CASE q # r
  BY <1>2, OthersUntouched DEF SameRequest
<1>3. CASE q = r
  <2>1. Finish(r)
    BY <1>1, <1>3 DEF Serve, Global, SecurityHeaders, Authenticate, ValidateRequest,
       ValidateContent, Govern, BackendAuth, Forward, Outbound, ForwardFails
  <2> QED  BY <1>3, <2>1 DEF Finish
<1> QED  BY <1>2, <1>3

(* The context of a forwarded request keeps naming the token's human.      *)
ForwardedAsHuman(r) == calls[r] # <<>> => ctx[r].oid = message[r].token.oid

LEMMA ServeForwardedAsHuman ==
  ASSUME TypeOK, NEW r \in Requests, NEW q \in Requests, RequestInv(q), Serve(r),
         ForwardedAsHuman(q)
  PROVE  ForwardedAsHuman(q)'
<1>1. CASE q # r
  BY <1>1, OthersUntouched DEF SameRequest, ForwardedAsHuman
<1>2. CASE q = r /\ calls'[r] = <<>>
  BY <1>2 DEF ForwardedAsHuman
<1>3. CASE q = r /\ calls'[r] # <<>>
  <2>1. pc[r] \in {"forward", "waiting", "relaying", "done"}
    BY <1>3, ServeMoves DEF RequestInv, ForwardInv
  <2>2. UNCHANGED <<message, ctx>> /\ (calls'[r] = calls[r] \/ pc[r] = "forward")
    <3>1. Forward(r) \/ Outbound(r) \/ ForwardFails(r) \/ Finish(r)
      BY <2>1 DEF Serve, Global, SecurityHeaders, Authenticate, ValidateRequest,
         ValidateContent, Govern, BackendAuth
    <3>2. ctx' = [ctx EXCEPT ![r] = ctx[r]] => ctx' = ctx
      BY DEF TypeOK
    <3>3. CASE Forward(r) \/ Finish(r)
      BY <3>3 DEF Forward, Finish, NoGovernance
    <3>4. CASE Outbound(r) \/ ForwardFails(r)
      BY <3>2, <3>4 DEF Outbound, ForwardFails, OnError, Respond, NoGovernance
    <3> QED  BY <3>1, <3>3, <3>4
  <2>3. pc[r] = "forward" => ctx[r].oid = message[r].token.oid
    BY <1>3 DEF RequestInv, IdentityInv
  <2> QED  BY <1>3, <2>2, <2>3 DEF ForwardedAsHuman
<1> QED  BY <1>1, <1>2, <1>3

(* A policy that refuses a request does not call that a success. *)
LEMMA RefusalIsNoSuccess ==
  ASSUME TypeOK, NEW r \in Requests, Serve(r), answer[r] = None,
         pc[r] \notin {"waiting", "relaying", "done"}
  PROVE  answer'[r] = None \/ answer'[r].status # 200
<1> USE DEF TypeOK
<1>1. CASE Global(r)
  BY <1>1 DEF Global, Respond, Proceed
<1>2. CASE SecurityHeaders(r)
  BY <1>2 DEF SecurityHeaders, Proceed
<1>3. CASE Authenticate(r)
  BY <1>3 DEF Authenticate, RefuseToken, RefuseScope, RefuseIdentity,
         RefuseClient, AcceptCaller, Claims, CallerClaims,
         Reject, OnError, StatusOf, Respond, Proceed
<1>4. CASE ValidateRequest(r)
  BY <1>4 DEF ValidateRequest, RefuseMediaType, RefuseUnreadable, RefuseModel,
         RefuseTools, RefuseStore, RewriteBody, GatewayFailure, NoResponse, WellFormed, ModelApproved, ToolsPermitted,
         Reject, OnError, StatusOf, Respond, Proceed
<1>5. CASE ValidateContent(r)
  BY <1>5 DEF ValidateContent, OnError, StatusOf, Respond, Proceed
<1>6. CASE Govern(r)
  BY <1>6 DEF Govern, OnError, StatusOf, Respond, Proceed
<1>7. CASE BackendAuth(r)
  BY <1>7 DEF BackendAuth, GatewayFailure, NoResponse, OnError, StatusOf, Respond, Proceed
<1>8. CASE Forward(r)
  BY <1>8 DEF Forward
<1> QED  BY <1>1, <1>2, <1>3, <1>4, <1>5, <1>6, <1>7, <1>8
         DEF Serve, Outbound, ForwardFails, Finish

(* Who is answered with success has had an inference of the model.         *)
SucceedsByModel(r) == answer[r] # None /\ answer[r].status = 200 => calls[r] # <<>>

LEMMA ServeSucceeds ==
  ASSUME TypeOK, NEW r \in Requests, NEW q \in Requests, RequestInv(q), Serve(r),
         SucceedsByModel(q)
  PROVE  SucceedsByModel(q)'
<1>1. CASE q # r
  BY <1>1, OthersUntouched DEF SameRequest, SucceedsByModel
<1>2. CASE q = r /\ pc[r] \in {"waiting", "relaying"}
  BY <1>2, ServeMoves DEF RequestInv, ForwardInv, SucceedsByModel
<1>3. CASE q = r /\ pc[r] \notin {"waiting", "relaying", "done"}
  BY <1>3, RefusalIsNoSuccess DEF RequestInv, AnswerInv, SucceedsByModel
<1>4. pc[r] # "done"
  BY DEF Serve, Global, SecurityHeaders, Authenticate, ValidateRequest, ValidateContent,
     Govern, BackendAuth, Forward, Outbound, ForwardFails, Finish
<1> QED  BY <1>1, <1>2, <1>3, <1>4

-----------------------------------------------------------------------------
(* What moves the counters.                                                *)

(* The end of a response charges the very user the token named. *)
LEMMA FinishCharges ==
  ASSUME TypeOK, NEW r \in Requests, RequestInv(r), Finish(r),
         NEW k \in Keys, day'[k] > day[k]
  PROVE  /\ calls[r] # <<>> /\ pc[r] # "done" /\ pc'[r] = "done"
         /\ answer[r].status = 200
         /\ k = <<message[r].token.tid, message[r].token.oid>>
<1>1. /\ pc[r] = "relaying" /\ pc'[r] = "done" /\ calls[r] # <<>>
      /\ QuotaKey(r) = <<message[r].token.tid, message[r].token.oid>>
  BY DEF Finish, TypeOK, RequestInv, IdentityInv, ForwardInv, QuotaKey
<1>2. PICK cost \in IF answer[r].status = 200 THEN 0 .. MaxCost ELSE {0} :
        ChargeTokens(QuotaKey(r), cost)
  BY DEF Finish
<1> DEFINE key == QuotaKey(r)
<1>3. day' = [day EXCEPT ![key] = @ + cost]
  BY <1>2 DEF ChargeTokens
<1> HIDE DEF key
<1>4. day[k] \in Nat /\ cost \in Nat
  BY <1>2, GovernanceAssumption DEF TypeOK, GovernanceTypeOK
<1>5. k = key /\ cost # 0
  BY <1>3, <1>4 DEF TypeOK, GovernanceTypeOK
<1> QED  BY <1>1, <1>2, <1>5 DEF key

(* Nothing else raises a day's counter. *)
LEMMA OnlyFinishCharges ==
  ASSUME TypeOK, NEW r \in Requests, Serve(r), ~Finish(r)
  PROVE  day' = day
BY DEF Serve, Global, SecurityHeaders, Authenticate, ValidateRequest, ValidateContent,
       Govern, BackendAuth, Forward, Outbound, ForwardFails, NoGovernance, governanceVars

(* A user is charged by the end of a successful inference of their own,    *)
(* and by nothing else.                                                    *)
THEOREM ChargesAreOwn == Spec => ChargedForOwnInference
<1>1. TypeOK /\ PipelineInv /\ [Next]_vars =>
        [\A k \in Keys : day'[k] > day[k] =>
           \E r \in Requests :
             /\ calls[r] # <<>>
             /\ pc[r] # "done" /\ pc'[r] = "done"
             /\ answer[r].status = 200
             /\ k = <<message[r].token.tid, message[r].token.oid>>]_vars
  <2> SUFFICES ASSUME TypeOK, PipelineInv, Next, NEW k \in Keys, day'[k] > day[k]
               PROVE  \E r \in Requests :
                        /\ calls[r] # <<>>
                        /\ pc[r] # "done" /\ pc'[r] = "done"
                        /\ answer[r].status = 200
                        /\ k = <<message[r].token.tid, message[r].token.oid>>
    OBVIOUS
  <2>1. day[k] \in Nat
    BY DEF TypeOK, GovernanceTypeOK
  <2>2. ~WindowRollsOver
    BY <2>1 DEF WindowRollsOver, NextSecond, NextMinute, NextDay
  <2>3. PICK r \in Requests : Serve(r)
    BY <2>2 DEF Next
  <2>4. Finish(r)
    BY <2>1, <2>3, OnlyFinishCharges
  <2> QED  BY <2>4, FinishCharges DEF PipelineInv
<1> QED  BY <1>1, TypeCorrect, PipelineCorrect, PTL DEF Spec, ChargedForOwnInference

(* Every request past governance this second holds a slot of its own: a    *)
(* node and the number its call had there. That is what the ceiling rests  *)
(* on, since no sum of counters is kept anywhere.                          *)
Slots == Nodes \X (1 .. Calls)

SlotInv ==
  \A k \in Keys :
    \E slot \in Injection(admitted[k], Slots) :
      \A r \in admitted[k] : slot[r][2] <= burst[slot[r][1]][k]

LEMMA FewSlots == IsFiniteSet(Slots) /\ Cardinality(Slots) = Calls * Cardinality(Nodes)
<1>1. IsFiniteSet(1 .. Calls) /\ Cardinality(1 .. Calls) = Calls
  BY FS_Interval, GovernanceAssumption
<1>2. IsFiniteSet(Nodes) /\ Cardinality(Nodes) \in Nat
  BY FS_CardinalityType, GovernanceAssumption
<1>3. /\ IsFiniteSet(Slots)
      /\ Cardinality(Slots) = Cardinality(Nodes) * Cardinality(1 .. Calls)
  BY <1>1, <1>2, FS_Product DEF Slots
<1>4. \A a, b \in Nat : a * b = b * a
  OBVIOUS
<1> QED  BY <1>1, <1>2, <1>3, <1>4, GovernanceAssumption

(* A counted call takes the next slot of its node; slots taken stay taken. *)
LEMMA CountCallSlot ==
  ASSUME TypeOK, SlotInv, NEW n \in Nodes, NEW k \in Keys, NEW r \in Requests,
         WithinRate(n, k), CountCall(n, k),
         \/ UNCHANGED admitted
         \/ admitted' = [admitted EXCEPT ![k] = @ \cup {r}]
  PROVE  SlotInv'
<1> DEFINE next == burst[n][k] + 1
<1>1. /\ \A m \in Nodes, j \in Keys : burst[m][j] \in 0 .. Calls
      /\ next \in 1 .. Calls
  BY GovernanceAssumption DEF TypeOK, GovernanceTypeOK, WithinRate
<1>2. \A m \in Nodes, j \in Keys :
        burst'[m][j] = IF m = n /\ j = k THEN next ELSE burst[m][j]
  BY DEF CountCall, TypeOK, GovernanceTypeOK
<1> SUFFICES ASSUME NEW j \in Keys
             PROVE  \E slot \in Injection(admitted'[j], Slots) :
                      \A q \in admitted'[j] : slot[q][2] <= burst'[slot[q][1]][j]
  BY DEF SlotInv
<1>3. PICK slot \in Injection(admitted[j], Slots) :
        \A q \in admitted[j] : slot[q][2] <= burst[slot[q][1]][j]
  BY DEF SlotInv
<1>4. /\ slot \in [admitted[j] -> Slots]
      /\ \A q \in admitted[j] : slot[q][1] \in Nodes /\ slot[q][2] \in 1 .. Calls
  BY <1>3 DEF Injection, Slots
<1>5. \A q \in admitted[j] : slot[q][2] <= burst'[slot[q][1]][j]
  BY <1>1, <1>2, <1>3, <1>4
<1>6. CASE admitted'[j] = admitted[j]
  BY <1>3, <1>5, <1>6
<1>7. CASE j = k /\ r \notin admitted[k] /\ admitted'[k] = admitted[k] \cup {r}
  <2> DEFINE wider == [q \in admitted'[k] |-> IF q = r THEN <<n, next>> ELSE slot[q]]
  <2>1. wider \in [admitted'[k] -> Slots]
    BY <1>1, <1>4, <1>7 DEF Slots
  <2>2. wider[r] = <<n, next>> /\ \A q \in admitted[k] : wider[q] = slot[q]
    BY <1>7
  <2>3. \A q \in admitted[k] : slot[q] # <<n, next>>
    BY <1>1, <1>3, <1>4, <1>7
  <2>4. \A p, q \in admitted[k] : slot[p] = slot[q] => p = q
    BY <1>3, <1>7 DEF Injection, IsInjective
  <2> HIDE DEF wider
  <2>5. wider \in Injection(admitted'[k], Slots)
    BY <1>7, <2>1, <2>2, <2>3, <2>4 DEF Injection, IsInjective
  <2>6. \A q \in admitted'[k] : wider[q][2] <= burst'[wider[q][1]][k]
    BY <1>1, <1>2, <1>5, <1>7, <2>2
  <2> QED  BY <1>7, <2>5, <2>6
<1>8. \/ admitted'[j] = admitted[j]
      \/ j = k /\ r \notin admitted[k] /\ admitted'[k] = admitted[k] \cup {r}
  <2>1. r \in admitted[k] => admitted[k] \cup {r} = admitted[k]
    OBVIOUS
  <2>2. \/ admitted'[j] = admitted[j]
        \/ j = k /\ admitted'[k] = admitted[k] \cup {r}
    BY DEF TypeOK
  <2> QED  BY <2>1, <2>2
<1> QED  BY <1>6, <1>7, <1>8

LEMMA ServeSlots ==
  ASSUME TypeOK, PipelineInv, SlotInv, NEW r \in Requests, Serve(r)
  PROVE  SlotInv'
<1>1. CASE UNCHANGED <<admitted, burst>>
  BY <1>1 DEF SlotInv
<1>2. CASE Govern(r)
  <2>1. QuotaKey(r) \in Keys
    <3>1. IdentityInv(r) /\ pc[r] = "govern"
      BY <1>2 DEF Govern, PipelineInv, RequestInv
    <3>2. CallerEntitled(message[r].token) /\ QuotaKey(r) = <<message[r].token.tid, message[r].token.oid>>
      BY <3>1 DEF IdentityInv, QuotaKey
    <3> QED  BY <3>2, MessageType, GatewayAssumption DEF CallerEntitled, Token
  <2> DEFINE k == QuotaKey(r)
  <2>2. PICK n \in Nodes :
          \/ UNCHANGED <<burst, admitted>>
          \/ /\ WithinRate(n, k) /\ CountCall(n, k)
             /\ \/ UNCHANGED admitted
                \/ admitted' = [admitted EXCEPT ![k] = @ \cup {r}]
    BY <1>2 DEF Govern
  <2> HIDE DEF k
  <2> QED  BY <1>1, <2>1, <2>2, CountCallSlot DEF k
<1>3. Govern(r) \/ UNCHANGED <<admitted, burst>>
  BY DEF Serve, Global, SecurityHeaders, Authenticate, ValidateRequest, ValidateContent,
         BackendAuth, Forward, Outbound, ForwardFails, Finish, ChargeTokens,
         NoGovernance, governanceVars
<1> QED  BY <1>1, <1>2, <1>3

(* In one second no user gets more requests past governance than the       *)
(* configured calls on each node.                                          *)
THEOREM CeilingHolds == Spec => []WindowCeiling
<1>1. Init => SlotInv
  <2> SUFFICES ASSUME Init, NEW k \in Keys
               PROVE  \E slot \in Injection(admitted[k], Slots) :
                        \A r \in admitted[k] : slot[r][2] <= burst[slot[r][1]][k]
    BY DEF SlotInv
  <2>1. admitted[k] = {}
    BY DEF Init
  <2>2. [x \in {} |-> x] \in Injection({}, Slots)
    BY DEF Injection, IsInjective
  <2> QED  BY <2>1, <2>2
<1>2. TypeOK /\ PipelineInv /\ SlotInv /\ [Next]_vars => SlotInv'
  <2> SUFFICES ASSUME TypeOK, PipelineInv, SlotInv, [Next]_vars  PROVE SlotInv'
    OBVIOUS
  <2>1. CASE WindowRollsOver
    <3> SUFFICES ASSUME NEW k \in Keys
                 PROVE  \E slot \in Injection(admitted'[k], Slots) :
                          \A r \in admitted'[k] : slot[r][2] <= burst'[slot[r][1]][k]
      BY DEF SlotInv
    <3>1. admitted'[k] = {}
      BY <2>1 DEF WindowRollsOver
    <3>2. [x \in {} |-> x] \in Injection({}, Slots)
      BY DEF Injection, IsInjective
    <3> QED  BY <3>1, <3>2
  <2>2. ASSUME NEW r \in Requests, Serve(r)  PROVE SlotInv'
    BY <2>2, ServeSlots
  <2>3. CASE UNCHANGED vars
    BY <2>3 DEF vars, governanceVars, SlotInv
  <2> QED  BY <2>1, <2>2, <2>3 DEF Next
<1>3. SlotInv => WindowCeiling
  <2> SUFFICES ASSUME SlotInv, NEW k \in Keys
               PROVE  Cardinality(admitted[k]) <= Calls * Cardinality(Nodes)
    BY DEF WindowCeiling
  <2>1. PICK slot \in Injection(admitted[k], Slots) : TRUE
    BY DEF SlotInv
  <2>2. Cardinality(admitted[k]) <= Cardinality(Slots)
    BY <2>1, FewSlots, FS_Injection
  <2> QED  BY <2>2, FewSlots
<1> QED  BY <1>1, <1>2, <1>3, TypeCorrect, PipelineCorrect, PTL DEF Spec
-----------------------------------------------------------------------------
(* The pipeline implements GatewayPromise. *)

(* Serving r leaves every phase alone or is a step of the promise.         *)
LEMMA PromiseStep ==
  ASSUME TypeOK, PipelineInv, PipelineInv', NEW r \in Requests, Serve(r)
  PROVE  [Promise!Next]_(Promise!vars)
<1>1. \A q \in Requests : RequestInv(q) /\ RequestInv(q)'
  BY DEF PipelineInv
<1>2. \A q \in Requests : q # r => Phase(q)' = Phase(q) /\ calls'[q] = calls[q]
  BY OthersUntouched DEF SameRequest, Phase
<1>3. message' = message
  BY ServeMoves
<1>4. UNCHANGED [q \in Requests |-> CallerEntitled(message[q].token) /\ Admissible(message[q])]
  BY <1>3 DEF CallerEntitled, Admissible, Contractual, ContractualButForStore
<1>5. CASE calls'[r] = calls[r] /\ Phase(r)' = Phase(r)
  BY <1>2, <1>4, <1>5 DEF Promise!vars
<1>6. CASE calls'[r] = calls[r] /\ Phase(r) = "open" /\ Phase(r)' = "refused"
  <2>1. Promise!Refuse(r)
    BY <1>2, <1>4, <1>6 DEF Promise!Refuse
  <2> QED  BY <2>1 DEF Promise!Next
<1>7. CASE calls'[r] = calls[r] /\ Phase(r) = "inference" /\ Phase(r)' = "answered"
  <2>1. Promise!Reply(r)
    BY <1>2, <1>4, <1>7 DEF Promise!Reply
  <2> QED  BY <2>1 DEF Promise!Next
<1>8. CASE /\ pc[r] = "forward" /\ pc'[r] = "waiting"
           /\ calls'[r] = Append(calls[r], outgoing[r])
  <2>1. Phase(r) = "open" /\ Phase(r)' = "inference"
    BY <1>1, <1>8 DEF RequestInv, ForwardInv, AnswerInv, Phase
  <2>2. CallerEntitled(message[r].token) /\ Admissible(message[r])
    BY <1>1, <1>8 DEF RequestInv, IdentityInv, BodyInv
  <2>3. Len(calls'[r]) = Len(calls[r]) + 1
    BY <1>8 DEF TypeOK
  <2>4. Promise!Infer(r)
    BY <1>2, <1>4, <2>1, <2>2, <2>3 DEF Promise!Infer
  <2> QED  BY <2>4 DEF Promise!Next
<1>9. \/ calls'[r] = calls[r] /\ Phase(r)' = Phase(r)
      \/ calls'[r] = calls[r] /\ Phase(r) = "open" /\ Phase(r)' = "refused"
      \/ calls'[r] = calls[r] /\ Phase(r) = "inference" /\ Phase(r)' = "answered"
      \/ /\ pc[r] = "forward" /\ pc'[r] = "waiting"
         /\ calls'[r] = Append(calls[r], outgoing[r])
  BY <1>1, ServeMoves DEF RequestInv, ForwardInv, AnswerInv, Phase
<1> QED  BY <1>5, <1>6, <1>7, <1>8, <1>9

(* The pipeline implements the promise: every request is refused for free, *)
(* or is admissible (contractual, but for a store of null) and runs        *)
(* exactly one inference before its answer.                                *)
THEOREM PipelineKeepsPromise == Spec => KeepsPromise
<1>1. Init => Promise!Init
  BY DEF Init, Promise!Init, Phase, CallerEntitled,
         Admissible, Contractual, ContractualButForStore
<1>2. TypeOK /\ PipelineInv /\ PipelineInv' /\ [Next]_vars => [Promise!Next]_(Promise!vars)
  <2> SUFFICES ASSUME TypeOK, PipelineInv, PipelineInv', [Next]_vars
               PROVE  [Promise!Next]_(Promise!vars)
    OBVIOUS
  <2>1. CASE WindowRollsOver \/ UNCHANGED vars
    <3>1. UNCHANGED <<message, calls, answer>>
      BY <2>1 DEF WindowRollsOver, vars, requestVars
    <3> QED  BY <3>1 DEF Promise!vars, Phase, CallerEntitled,
         Admissible, Contractual, ContractualButForStore
  <2>2. ASSUME NEW r \in Requests, Serve(r)  PROVE [Promise!Next]_(Promise!vars)
    BY <2>2, PromiseStep
  <2> QED  BY <2>1, <2>2 DEF Next
<1> QED  BY <1>1, <1>2, TypeCorrect, PipelineCorrect, PTL DEF Spec, KeepsPromise, Promise!Spec
=============================================================================
