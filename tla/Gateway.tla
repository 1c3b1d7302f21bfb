------------------------------ MODULE Gateway ------------------------------
(***************************************************************************)
(* The request pipeline of the API Management gateway:                     *)
(*   policies/global.xml, policies/responses.xml and the fragments they    *)
(*   include, in the order responses.xml includes them.                    *)
(*                                                                         *)
(* Each action is one policy fragment (or one policy section) run to its   *)
(* end for one request. Requests are served concurrently and meet in the   *)
(* governance counters only; everything else a policy touches belongs to   *)
(* the request's own context. A rejection written in a policy ends in      *)
(* return-response, which cancels the pipeline: neither outbound nor       *)
(* on-error runs, so each such rejection carries its own trace.            *)
(***************************************************************************)
EXTENDS Sequences, TokenGovernance

CONSTANTS
  Requests,        \* context.RequestId of each request
  Messages,        \* the HTTP requests callers may send
  Tids, Oids,      \* values of the tid and oid claims
  Scopes, Apps,    \* values of scp entries and of azp / appid
  Models, Guids,   \* deployment names; correlation GUIDs callers choose
  None,            \* an absent claim, header or setting ("none" in a trace)
  Brokered,        \* identity_mode = "brokered" (else "passthrough")
  RequiredScope,   \* map-required-scope, or None when it is blank
  AllowedApps,     \* map-allowed-client-app-ids; empty disables the check
  ApprovedModel,   \* map-approved-deployment
  BackendStatuses  \* status codes the model endpoint answers with

-----------------------------------------------------------------------------
(* What a caller sends. scp, azp, appid... are what validation would find  *)
(* in the token; valid stands for signature, tenant, audience and lifetime *)
(* all being right. stream "other" and store "string" are values of        *)
(* another JSON type; conformant stands for the rest of the schema.        *)
Token == [valid: BOOLEAN, tid: Tids \cup {None}, oid: Oids \cup {None},
          scp: SUBSET Scopes, appOnly: BOOLEAN,
          azp: Apps \cup {None}, appid: Apps \cup {None}]

Body == [model: Models,
         tools: {"absent", "function", "hosted", "not_object"},
         store: {"absent", "null", "false", "true", "string"},
         stream: {"absent", "false", "true", "other"},
         endUser: Oids \cup {None},       \* user_security_context.end_user_id
         conformant: BOOLEAN]

HeaderGroup == {"identity", "gateway_metadata", "credential", "preview",
                "routing", "bad_traceparent"}

Message == [scheme: {"https", "http"},
            correlation: Guids \cup {None},  \* None: absent or not a GUID
            jsonType: BOOLEAN,               \* Content-Type has application/json
            text: {"json", "not_utf8", "not_json"},
            oversized: BOOLEAN,              \* over map-max-request-bytes
            headers: SUBSET HeaderGroup,
            token: Token, body: Body]

Correlation == [from: {"caller"}, id: Guids] \cup [from: {"gateway"}, id: Requests]

(* What a caller is told, and the error codes of the bodies. *)
Code == {"https_required", "not_authorized", "not_delegated_identity",
         "unapproved_client", "unapproved_model", "hosted_tool_not_permitted",
         "store_not_permitted", "invalid_request", "invalid_token",
         "forbidden_rbac", "payload_too_large", "rate_limited",
         "backend_unavailable", "backend_timeout", "backend_error"}

Answer == [status: Nat, correlation: Correlation \cup {None}, code: Code \cup {None}]

ASSUME GatewayAssumption ==
  /\ Messages \subseteq Message
  /\ Keys = Tids \X Oids
  /\ None \notin Tids \cup Oids \cup Scopes \cup Apps \cup Code \cup Correlation \cup Answer
  /\ Brokered \in BOOLEAN
  /\ RequiredScope \in Scopes \cup {None}
  /\ AllowedApps \subseteq Apps
  /\ BackendStatuses \subseteq Nat

-----------------------------------------------------------------------------
VARIABLES
  message,         \* message[r]: what the caller of r sent
  pc,              \* pc[r]: the next policy to run for r
  ctx,             \* ctx[r]: the context variables the policies share
  outgoing,        \* outgoing[r]: the request as it would now be forwarded
  calls,           \* calls[r]: what was forwarded to the backend for r
  answer,          \* answer[r]: the response given to the caller of r
  telemetry,       \* telemetry[r]: trace records emitted for r
  admitted         \* admitted[k]: requests of k let past governance this second

requestVars == <<pc, ctx, outgoing, calls, answer, telemetry>>
vars == <<message, requestVars, admitted, governanceVars>>

Stages == {"global", "headers", "authenticate", "validate", "schema",
           "govern", "credential", "forward", "waiting", "relaying", "done"}

Context == [correlation: Correlation \cup {None},
            tid: Tids \cup {None}, oid: Oids \cup {None},
            azp: Apps \cup {None}, streaming: BOOLEAN]

Outgoing == [credential: {"caller", "managed_identity"},
             headers: SUBSET HeaderGroup, body: Body]

Record == [correlation: Correlation \cup {None},
           tid: Tids \cup {None}, oid: Oids \cup {None}, client: Apps \cup {None},
           status: Nat,                   \* 0: there was no response
           streaming: BOOLEAN, category: Code \cup {None},
           usage: {"unavailable", "reported"}]

TypeOK ==
  /\ message \in [Requests -> Messages]
  /\ pc \in [Requests -> Stages]
  /\ ctx \in [Requests -> Context]
  /\ outgoing \in [Requests -> Outgoing]
  /\ calls \in [Requests -> Seq(Outgoing)]
  /\ answer \in [Requests -> Answer \cup {None}]
  /\ telemetry \in [Requests -> Seq(Record)]
  /\ admitted \in [Keys -> SUBSET Requests]
  /\ GovernanceTypeOK

Init ==
  /\ message \in [Requests -> Messages]
  /\ pc = [r \in Requests |-> "global"]
  /\ ctx = [r \in Requests |-> [correlation |-> None, tid |-> None, oid |-> None,
                                azp |-> None, streaming |-> FALSE]]
  /\ outgoing = [r \in Requests |-> [credential |-> "caller",
                                     headers |-> message[r].headers,
                                     body |-> message[r].body]]
  /\ calls = [r \in Requests |-> <<>>]
  /\ answer = [r \in Requests |-> None]
  /\ telemetry = [r \in Requests |-> <<>>]
  /\ admitted = [k \in Keys |-> {}]
  /\ GovernanceInit

-----------------------------------------------------------------------------
(* Ways a step ends. c is the request's context after the step's own       *)
(* assignments; a trace coalesces what is not set yet to None.             *)

(* Mutant of Trace: the human is left out of the record. *)
TraceTenantOnly(r, c, status, category, usage) ==
  telemetry' = [telemetry EXCEPT ![r] = Append(@,
    [correlation |-> c.correlation, tid |-> c.tid, oid |-> None,
     client |-> c.azp, status |-> status, streaming |-> c.streaming,
     category |-> category, usage |-> usage])]

Trace(r, c, status, category, usage) ==
  telemetry' = [telemetry EXCEPT ![r] = Append(@,
    [correlation |-> c.correlation, tid |-> c.tid, oid |-> c.oid,
     client |-> c.azp, status |-> status, streaming |-> c.streaming,
     category |-> category, usage |-> usage])]

Respond(r, c, status, correlation, code, next) ==
  /\ answer' = [answer EXCEPT ![r] =
                  [status |-> status, correlation |-> correlation, code |-> code]]
  /\ ctx' = [ctx EXCEPT ![r] = c]
  /\ pc' = [pc EXCEPT ![r] = next]

(* Mutant of Reject: the inline trace is forgotten. *)
RejectUntraced(r, c, status, code) ==
  /\ Respond(r, c, status, c.correlation, code, "done")
  /\ UNCHANGED <<outgoing, calls, telemetry>>

(* A policy-authored rejection: inline trace, then return-response. *)
Reject(r, c, status, code) ==
  /\ Trace(r, c, status, code, "unavailable")
  /\ Respond(r, c, status, c.correlation, code, "done")
  /\ UNCHANGED <<outgoing, calls>>

(* responses.xml on-error, the taxonomy. *)
FailureCategory(status) ==
  IF status = 400 THEN "invalid_request"
  ELSE IF status = 401 THEN "invalid_token"
  ELSE IF status = 403 THEN "forbidden_rbac"
  ELSE IF status = 413 THEN "payload_too_large"
  ELSE IF status = 429 THEN "rate_limited"
  ELSE IF status = 503 THEN "backend_unavailable"
  ELSE IF status = 504 THEN "backend_timeout"
  ELSE "backend_error"

(* context.Response is null if nothing made a response before the failure. *)
(* The taxonomy then takes 500 and so does the platform's answer, but the  *)
(* status of the record is "0".                                            *)
NoResponse == 0
StatusOf(response) == IF response = NoResponse THEN 500 ELSE response

(* A failure of the gateway's own, an expression that throws or a token or *)
(* a backend it cannot get: with a 500 already made, or without any.       *)
GatewayFailure == {NoResponse, 500}

(* Mutant of OnError: x-correlation-id is not set on the error answer. *)
OnErrorUncorrelated(r, c, response) ==
  /\ Trace(r, c, response, FailureCategory(StatusOf(response)), "unavailable")
  /\ Respond(r, c, StatusOf(response), None, FailureCategory(StatusOf(response)), "done")
  /\ UNCHANGED <<outgoing, calls>>

OnError(r, c, response) ==
  /\ Trace(r, c, response, FailureCategory(StatusOf(response)), "unavailable")
  /\ Respond(r, c, StatusOf(response), c.correlation,
             FailureCategory(StatusOf(response)), "done")
  /\ UNCHANGED <<outgoing, calls>>

(* The policy let the request pass: on to the next one. *)
Proceed(r, c, next) ==
  /\ ctx' = [ctx EXCEPT ![r] = c]
  /\ pc' = [pc EXCEPT ![r] = next]
  /\ UNCHANGED <<calls, answer, telemetry>>

NoGovernance == UNCHANGED <<message, admitted, governanceVars>>

-----------------------------------------------------------------------------
(* global.xml inbound: correlation fragment, then the scheme check, whose  *)
(* response carries no correlation header.                                 *)
CorrelationId(r) ==
  IF message[r].correlation # None
  THEN [from |-> "caller", id |-> message[r].correlation]
  ELSE [from |-> "gateway", id |-> r]

Global(r) ==
  LET c == [ctx[r] EXCEPT !.correlation = CorrelationId(r)] IN
  /\ pc[r] = "global"
  /\ \/ /\ message[r].scheme # "https"
        /\ Trace(r, c, 400, "invalid_request", "unavailable")
        /\ Respond(r, c, 400, None, "https_required", "done")
        /\ UNCHANGED <<outgoing, calls>>
     \/ /\ message[r].scheme = "https"
        /\ outgoing' = [outgoing EXCEPT ![r].headers = @ \ {"bad_traceparent"}]
        /\ Proceed(r, c, "headers")
  /\ NoGovernance

(* Mutants of SecurityHeaders: a header group is not deleted; the fragment  *)
(* after it is included too late.                                           *)
SecurityHeadersKeepPreview(r) ==
  /\ pc[r] = "headers"
  /\ outgoing' = [outgoing EXCEPT ![r].headers =
       @ \ {"identity", "gateway_metadata", "credential", "routing"}]
  /\ Proceed(r, ctx[r], "authenticate")
  /\ NoGovernance
SecurityHeadersThenValidation(r) ==
  /\ pc[r] = "headers"
  /\ outgoing' = [outgoing EXCEPT ![r].headers = {}]
  /\ Proceed(r, ctx[r], "validate")
  /\ NoGovernance

(* security-headers fragment. *)
SecurityHeaders(r) ==
  /\ pc[r] = "headers"
  /\ outgoing' = [outgoing EXCEPT ![r].headers =
       @ \ {"identity", "gateway_metadata", "credential", "preview", "routing"}]
  /\ Proceed(r, ctx[r], "authenticate")
  /\ NoGovernance

-----------------------------------------------------------------------------
(* authentication fragment. Every check reads the validated token only.    *)
HasRequiredScope(t) == RequiredScope = None \/ RequiredScope \in t.scp

IsDelegatedHuman(t) ==
  /\ ~t.appOnly
  /\ t.scp # {}
  /\ t.tid # None
  /\ t.oid # None

ClientApp(t) == IF t.azp # None THEN t.azp ELSE t.appid

ClientAppAllowed(t) == AllowedApps = {} \/ ClientApp(t) \in AllowedApps

(* The context variables set after validation, and after the scope check. *)
Claims(r) == [ctx[r] EXCEPT !.tid = message[r].token.tid, !.oid = message[r].token.oid]
CallerClaims(r) == [Claims(r) EXCEPT !.azp = ClientApp(message[r].token)]

RefuseToken(r) == ~message[r].token.valid /\ OnError(r, ctx[r], 401)

RefuseScope(r) ==
  /\ message[r].token.valid /\ ~HasRequiredScope(message[r].token)
  /\ Reject(r, Claims(r), 403, "not_authorized")

RefuseIdentity(r) ==
  /\ message[r].token.valid /\ HasRequiredScope(message[r].token)
  /\ ~IsDelegatedHuman(message[r].token)
  /\ Reject(r, CallerClaims(r), 403, "not_delegated_identity")

RefuseClient(r) ==
  /\ message[r].token.valid /\ HasRequiredScope(message[r].token)
  /\ IsDelegatedHuman(message[r].token) /\ ~ClientAppAllowed(message[r].token)
  /\ Reject(r, CallerClaims(r), 403, "unapproved_client")

AcceptCaller(r) ==
  /\ message[r].token.valid /\ HasRequiredScope(message[r].token)
  /\ IsDelegatedHuman(message[r].token) /\ ClientAppAllowed(message[r].token)
  /\ Proceed(r, CallerClaims(r), "validate")
  /\ UNCHANGED outgoing

Authenticate(r) ==
  /\ pc[r] = "authenticate"
  /\ \/ RefuseToken(r)
     \/ RefuseScope(r)
     \/ RefuseIdentity(r)
     \/ RefuseClient(r)
     \/ AcceptCaller(r)
  /\ NoGovernance

(* The quota key the fragment's last line builds, from validated claims. *)
QuotaKey(r) == <<ctx[r].tid, ctx[r].oid>>

-----------------------------------------------------------------------------
(* Mutant of StoreViolation: only the JSON boolean is refused. *)
StoreViolationBooleanOnly(b) == b.store = "true"

(* request-validation fragment, one check after the other. *)
StoreViolation(b) == b.store \in {"string", "true"}

WellFormed(m) == m.jsonType /\ m.text = "json"
ModelApproved(m) == WellFormed(m) /\ m.body.model = ApprovedModel
ToolsPermitted(m) == ModelApproved(m) /\ m.body.tools \in {"absent", "function"}

RefuseMediaType(r) ==
  ~message[r].jsonType /\ Reject(r, ctx[r], 415, "invalid_request")

RefuseUnreadable(r) ==
  /\ message[r].jsonType /\ message[r].text # "json"
  /\ Reject(r, ctx[r], 400, "invalid_request")

RefuseModel(r) ==
  /\ WellFormed(message[r]) /\ ~ModelApproved(message[r])
  /\ Reject(r, ctx[r], 400, "unapproved_model")

(* tool["type"] throws on an element that is not an object. *)
RefuseTools(r) ==
  /\ ModelApproved(message[r])
  /\ \/ /\ message[r].body.tools = "not_object"
        /\ \E response \in GatewayFailure : OnError(r, ctx[r], response)
     \/ /\ message[r].body.tools = "hosted"
        /\ Reject(r, ctx[r], 400, "hosted_tool_not_permitted")

RefuseStore(r) ==
  /\ ToolsPermitted(message[r]) /\ StoreViolation(message[r].body)
  /\ Reject(r, ctx[r], 400, "store_not_permitted")

RewriteBody(r) ==
  /\ ToolsPermitted(message[r]) /\ ~StoreViolation(message[r].body)
  /\ outgoing' = [outgoing EXCEPT ![r].body.store = "false"]
  /\ Proceed(r, [ctx[r] EXCEPT !.streaming = message[r].body.stream = "true"], "schema")

ValidateRequest(r) ==
  /\ pc[r] = "validate"
  /\ \/ RefuseMediaType(r)
     \/ RefuseUnreadable(r)
     \/ RefuseModel(r)
     \/ RefuseTools(r)
     \/ RefuseStore(r)
     \/ RewriteBody(r)
  /\ NoGovernance

(* validate-content, on the body as the fragment above rewrote it. *)
SchemaAccepts(b) ==
  /\ b.conformant
  /\ b.endUser = None          \* additionalProperties: false
  /\ b.tools \in {"absent", "function"}
  /\ b.store \in {"absent", "false"}
  /\ b.stream # "other"

ValidateContent(r) ==
  /\ pc[r] = "schema"
  /\ \/ message[r].oversized /\ \E status \in {400, 413} : OnError(r, ctx[r], status)
     \/ /\ ~message[r].oversized /\ ~SchemaAccepts(outgoing[r].body)
        /\ OnError(r, ctx[r], 400)
     \/ /\ ~message[r].oversized /\ SchemaAccepts(outgoing[r].body)
        /\ Proceed(r, ctx[r], "govern")
        /\ UNCHANGED outgoing
  /\ NoGovernance

-----------------------------------------------------------------------------
(* token-governance fragment at the node that serves r. A call that passes *)
(* the rate limit is counted there even when the token limit then refuses. *)
Govern(r) ==
  LET k == QuotaKey(r) IN
  /\ pc[r] = "govern"
  /\ \E n \in Nodes :
       \/ /\ ~WithinRate(n, k)
          /\ OnError(r, ctx[r], 429)
          /\ UNCHANGED <<burst, admitted>>
       \/ /\ WithinRate(n, k) /\ ~WithinMinute(k)
          /\ CountCall(n, k)
          /\ OnError(r, ctx[r], 429)
          /\ UNCHANGED admitted
       \/ /\ WithinRate(n, k) /\ WithinMinute(k) /\ ~WithinDay(k)
          /\ CountCall(n, k)
          /\ OnError(r, ctx[r], 403)
          /\ UNCHANGED admitted
       \/ /\ WithinRate(n, k) /\ WithinMinute(k) /\ WithinDay(k)
          /\ CountCall(n, k)
          /\ admitted' = [admitted EXCEPT ![k] = @ \cup {r}]
          /\ Proceed(r, ctx[r], "credential")
          /\ UNCHANGED outgoing
  /\ UNCHANGED <<message, minute, day>>

(* backend-auth fragment, in the variant identity_mode uploads. The        *)
(* brokered one can fail to obtain the managed identity's token.           *)
BackendAuth(r) ==
  /\ pc[r] = "credential"
  /\ \/ /\ Brokered
        /\ outgoing' = [outgoing EXCEPT ![r].credential = "managed_identity",
                                        ![r].body.endUser = ctx[r].oid]
        /\ Proceed(r, ctx[r], "forward")
     \/ Brokered /\ \E response \in GatewayFailure : OnError(r, ctx[r], response)
     \/ /\ ~Brokered
        /\ Proceed(r, ctx[r], "forward")
        /\ UNCHANGED outgoing
  /\ NoGovernance

-----------------------------------------------------------------------------
(* Mutant of Forward: forward-request retries. *)
ForwardRetries(r) ==
  /\ pc[r] = "forward"
  /\ calls' = [calls EXCEPT ![r] = Append(@, outgoing[r])]
  /\ \E next \in {"waiting", "forward"} : pc' = [pc EXCEPT ![r] = next]
  /\ UNCHANGED <<ctx, outgoing, answer, telemetry>>
  /\ NoGovernance

(* responses.xml backend and outbound. *)
Forward(r) ==
  /\ pc[r] = "forward"
  /\ calls' = [calls EXCEPT ![r] = Append(@, outgoing[r])]
  /\ pc' = [pc EXCEPT ![r] = "waiting"]
  /\ UNCHANGED <<ctx, outgoing, answer, telemetry>>
  /\ NoGovernance

(* The backend answers, with whatever status: fail-on-error-status-code is *)
(* false, so its errors take the outbound path too.                        *)
Outbound(r) ==
  /\ pc[r] = "waiting"
  /\ \E status \in BackendStatuses :
       /\ Trace(r, ctx[r], status, None,
                IF ctx[r].streaming THEN "unavailable" ELSE "reported")
       /\ Respond(r, ctx[r], status, ctx[r].correlation, None, "relaying")
  /\ UNCHANGED <<outgoing, calls>>
  /\ NoGovernance

(* forward-request gives up: the backend is unreachable, or the timeout of *)
(* map-backend-timeout-seconds expires. There is no retry.                 *)
ForwardFails(r) ==
  /\ pc[r] = "waiting"
  /\ \E response \in GatewayFailure \cup {503, 504} : OnError(r, ctx[r], response)
  /\ NoGovernance

(* Mutant of Finish: only a successful response is relayed to its end. *)
FinishOnSuccess(r) ==
  /\ pc[r] = "relaying"
  /\ answer[r].status = 200
  /\ \E cost \in 0 .. MaxCost : ChargeTokens(QuotaKey(r), cost)
  /\ pc' = [pc EXCEPT ![r] = "done"]
  /\ UNCHANGED <<message, ctx, outgoing, calls, answer, telemetry, admitted>>

(* The response body has been relayed, unbuffered, or the stream broke off. *)
(* Only now does llm-token-limit learn what the request cost.               *)
Finish(r) ==
  /\ pc[r] = "relaying"
  /\ \E cost \in IF answer[r].status = 200 THEN 0 .. MaxCost ELSE {0} :
       ChargeTokens(QuotaKey(r), cost)
  /\ pc' = [pc EXCEPT ![r] = "done"]
  /\ UNCHANGED <<message, ctx, outgoing, calls, answer, telemetry, admitted>>

-----------------------------------------------------------------------------
WindowRollsOver ==
  /\ NextSecond \/ NextMinute \/ NextDay
  /\ admitted' = [k \in Keys |-> {}]
  /\ UNCHANGED <<message, requestVars>>

Serve(r) ==
  \/ Global(r)
  \/ SecurityHeaders(r)
  \/ Authenticate(r)
  \/ ValidateRequest(r)
  \/ ValidateContent(r)
  \/ Govern(r)
  \/ BackendAuth(r)
  \/ Forward(r)
  \/ Outbound(r)
  \/ ForwardFails(r)
  \/ Finish(r)

Next == WindowRollsOver \/ \E r \in Requests : Serve(r)

(* The gateway keeps serving every request it accepted: each policy runs   *)
(* to its end, and forward-request ends by its timeout if by nothing else. *)
Spec == Init /\ [][Next]_vars /\ \A r \in Requests : WF_vars(Serve(r))
-----------------------------------------------------------------------------
(* Safety. What the properties demand is spelled out on the message as the *)
(* caller sent it, independently of the operators the policies use.        *)

CallerEntitled(t) ==
  /\ t.valid
  /\ RequiredScope # None => RequiredScope \in t.scp
  /\ ~t.appOnly /\ t.scp # {} /\ t.tid # None /\ t.oid # None
  /\ AllowedApps # {} => \/ t.azp \in AllowedApps
                         \/ t.azp = None /\ t.appid \in AllowedApps

ContractualButForStore(m) ==
  /\ m.scheme = "https" /\ m.jsonType /\ m.text = "json" /\ ~m.oversized
  /\ m.body.model = ApprovedModel
  /\ m.body.tools \in {"absent", "function"}
  /\ m.body.stream # "other"
  /\ m.body.endUser = None
  /\ m.body.conformant

(* docs/api-contract.md: store is false or omitted; "store": null, true or *)
(* a string is refused with 400.                                           *)
Contractual(m) == ContractualButForStore(m) /\ m.body.store \in {"absent", "false"}

(* What the policies let through: a store of null as well, which           *)
(* request-validation takes for an omitted one.                            *)
Admissible(m) ==
  Contractual(m) \/ (ContractualButForStore(m) /\ m.body.store = "null")

(* Nothing reaches the model unless the caller proved to be an entitled    *)
(* human of an approved application and the whole request kept to the      *)
(* contract, with one exception: a request may say "store": null. It takes *)
(* every fragment of responses.xml, in its order.                          *)
OnlyContractualForwarded ==
  \A r \in Requests : calls[r] # <<>> => /\ CallerEntitled(message[r].token)
                                         /\ Admissible(message[r])

(* The contract as docs/api-contract.md and test_request_schema.py state   *)
(* it, without that exception: nothing reaches the model that says of      *)
(* store anything but false. The code does not keep it.                    *)
StoreContractKept ==
  \A r \in Requests : calls[r] # <<>> => Contractual(message[r])

AsVouchedFor(r, sent) ==
  /\ sent.body.store = "false"
  /\ sent.credential = IF Brokered THEN "managed_identity" ELSE "caller"
  /\ sent.body.endUser = IF Brokered THEN message[r].token.oid ELSE None
  /\ sent.headers = {}

(* What the model receives is what the gateway vouches for: store is false *)
(* whatever the caller left out, the credential is the one identity_mode   *)
(* calls for, the security context names the human of the validated token  *)
(* and never a value the caller wrote, and no stripped header is left.     *)
BackendSeesValidatedIdentity ==
  \A r \in Requests : \A i \in DOMAIN calls[r] : AsVouchedFor(r, calls[r][i])

(* Every answer leaves exactly one record, on the rejections that cancel   *)
(* the pipeline as on outbound and on-error, and no record comes without.  *)
OneRecordPerAnswer ==
  \A r \in Requests : Len(telemetry[r]) = IF answer[r] = None THEN 0 ELSE 1

(* Of each answer the record tells the truth, with the exceptions named    *)
(* here. It has the status, the correlation id and the code the caller was *)
(* told; but a failure without a response is recorded with status 0, which *)
(* telemetry.schema.json does not allow, where the caller is told 500      *)
(* backend_error, and the plain-http answer has a code of its own and      *)
(* returns no correlation id. And it names the tenant, the human and the   *)
(* application of the validated token, whoever refused the request, and    *)
(* nobody when no token was validated. Only the not_authorized record,     *)
(* written before the fragment has read azp and appid, lacks the           *)
(* application.                                                            *)
RecordMatchesAnswer(r) ==
  LET record == telemetry[r][1] IN
  /\ \/ record.status = answer[r].status
     \/ /\ record.status = NoResponse
        /\ answer[r].status = 500 /\ answer[r].code = "backend_error"
  /\ record.correlation \in Correlation
  /\ \/ answer[r].code = "https_required"
     \/ /\ record.correlation = answer[r].correlation
        /\ record.category = answer[r].code

RecordAttribution(r) ==
  LET record == telemetry[r][1]
      t == message[r].token
      authenticated == message[r].scheme = "https" /\ t.valid
      application == IF t.azp # None THEN t.azp ELSE t.appid IN
  /\ record.tid = IF authenticated THEN t.tid ELSE None
  /\ record.oid = IF authenticated THEN t.oid ELSE None
  /\ record.client =
       IF authenticated /\ answer[r].code # "not_authorized" THEN application ELSE None

TruthfulRecords ==
  \A r \in Requests : answer[r] # None => RecordMatchesAnswer(r) /\ RecordAttribution(r)

(* A caller who is not entitled learns that and nothing else: never what   *)
(* the contract would have said of the request, nor a counter, nor the     *)
(* backend.                                                                *)
RefusalOrder ==
  \A r \in Requests :
    answer[r] # None /\ ~CallerEntitled(message[r].token) =>
      answer[r].code \in {"https_required", "invalid_token", "not_authorized",
                          "not_delegated_identity", "unapproved_client"}

(* In one second, no user gets more requests past governance than the      *)
(* configured calls on each node: the ceiling token-governance.xml states. *)
WindowCeiling ==
  \A k \in Keys : Cardinality(admitted[k]) <= Calls * Cardinality(Nodes)

(* Tokens are charged when an inference of that very user completes, and   *)
(* by nothing else: no refusal, no error and no other user moves a counter *)
(* up.                                                                     *)
ChargedForOwnInference ==
  [][\A k \in Keys : day'[k] > day[k] =>
       \E r \in Requests :
         /\ calls[r] # <<>>
         /\ pc[r] # "done" /\ pc'[r] = "done"
         /\ answer[r].status = 200
         /\ k = <<message[r].token.tid, message[r].token.oid>>]_vars

(* Every request is answered and its response comes to an end.             *)
EveryRequestEnds == \A r \in Requests : <>(pc[r] = "done" /\ answer[r] # None)

-----------------------------------------------------------------------------
(* The inductive invariant behind the safety properties: what each fragment *)
(* has established is still true at every later one, of the message the     *)
(* caller sent and of the request as it would be forwarded.                 *)
Fulfilled(r) == CallerEntitled(message[r].token) /\ Admissible(message[r])

EnvelopeInv(r) ==
  /\ pc[r] \notin {"global", "done"} =>
       message[r].scheme = "https" /\ ctx[r].correlation # None
  /\ pc[r] = "headers" => "bad_traceparent" \notin outgoing[r].headers
  /\ pc[r] \notin {"global", "headers", "done"} => outgoing[r].headers = {}

BodyInv(r) ==
  LET m == message[r] IN
  /\ pc[r] \in {"global", "headers", "authenticate", "validate"} =>
       outgoing[r].credential = "caller" /\ outgoing[r].body = m.body
  /\ pc[r] \in {"schema", "govern", "credential"} =>
       /\ outgoing[r].credential = "caller"
       /\ outgoing[r].body = [m.body EXCEPT !.store = "false"]
       /\ m.jsonType /\ m.text = "json" /\ m.body.model = ApprovedModel
       /\ m.body.tools \in {"absent", "function"}
       /\ m.body.store \notin {"true", "string"}
  /\ pc[r] \in {"govern", "credential", "forward"} => Admissible(m)

IdentityInv(r) ==
  LET t == message[r].token IN
  /\ pc[r] \in {"global", "headers", "authenticate"} =>
       ctx[r].tid = None /\ ctx[r].oid = None /\ ctx[r].azp = None
  /\ pc[r] \notin {"global", "headers", "authenticate", "done"} =>
       /\ CallerEntitled(t)
       /\ ctx[r].tid = t.tid /\ ctx[r].oid = t.oid /\ ctx[r].azp = ClientApp(t)

ForwardInv(r) ==
  /\ pc[r] = "forward" => AsVouchedFor(r, outgoing[r])
  /\ pc[r] \in {"waiting", "relaying"} => calls[r] # <<>>
  /\ pc[r] \notin {"waiting", "relaying", "done"} => calls[r] = <<>>
  /\ calls[r] # <<>> => Fulfilled(r) /\ Len(calls[r]) = 1 /\ AsVouchedFor(r, calls[r][1])

AnswerInv(r) ==
  /\ answer[r] # None <=> pc[r] \in {"relaying", "done"}
  /\ Len(telemetry[r]) = IF answer[r] = None THEN 0 ELSE 1
  /\ answer[r] # None /\ ~CallerEntitled(message[r].token) =>
       answer[r].code \in {"https_required", "invalid_token", "not_authorized",
                           "not_delegated_identity", "unapproved_client"}

RequestInv(r) ==
  EnvelopeInv(r) /\ BodyInv(r) /\ IdentityInv(r) /\ ForwardInv(r) /\ AnswerInv(r)

PipelineInv == \A r \in Requests : RequestInv(r)

-----------------------------------------------------------------------------
(* What the gateway promises, with the pipeline left out.                  *)
Phase(r) ==
  IF answer[r] = None
  THEN IF calls[r] = <<>> THEN "open" ELSE "inference"
  ELSE IF calls[r] = <<>> THEN "refused" ELSE "answered"

Promise == INSTANCE GatewayPromise WITH
  admissible <- [r \in Requests |-> CallerEntitled(message[r].token)
                                      /\ Admissible(message[r])],
  phase <- [r \in Requests |-> Phase(r)],
  inferences <- [r \in Requests |-> Len(calls[r])]

(* The pipeline implements the promise: a request is refused for free, or  *)
(* it is admissible and runs exactly one inference before it is answered.  *)
KeepsPromise == Promise!Spec

=============================================================================
