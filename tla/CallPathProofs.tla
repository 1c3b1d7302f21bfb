--------------------------- MODULE CallPathProofs ---------------------------
(***************************************************************************)
(* Theorems of CallPath, for any number of calls and people, any lifetimes *)
(* and any clock bound. What LocalProxyProofs and GatewayProofs prove of   *)
(* the two processes is carried over: every step of the path is a step of  *)
(* the proxy or leaves it alone, and a step of the gateway, or leaves it   *)
(* alone but for the token an arriving POST brings.                        *)
(***************************************************************************)
EXTENDS CallPath, SequenceTheorems, TLAPS

PP == INSTANCE LocalProxyProofs WITH pc <- handler, answer <- told
GP == INSTANCE GatewayProofs WITH pc <- stage, answer <- reply

-----------------------------------------------------------------------------
(* The proxy's part. *)
LEMMA ProxyInit == Init => PP!Init
BY DEF Init, Proxy!Init, PP!Init, Proxy!Kinds, PP!Kinds

LEMMA ProxyHandles ==
  ASSUME NEW r \in Requests, ProxyAlone(r) \/ SignIn(r) \/ Headers(r)
  PROVE  PP!Handle(r)
<1> USE DEF PP!Handle, PP!cacheVars, Proxy!cacheVars
<1>1. CASE Proxy!Authorise(r)
  BY <1>1 DEF Proxy!Authorise, Proxy!Refuse, PP!Authorise, PP!Refuse
<1>2. CASE Proxy!BodyLost(r) \/ Proxy!RelayBreaks(r)
  BY <1>2 DEF Proxy!BodyLost, Proxy!RelayBreaks, Proxy!Cut, PP!BodyLost, PP!RelayBreaks, PP!Cut
<1>3. CASE Proxy!BodyTooLarge(r) \/ Proxy!CaptureFails(r) \/ Proxy!PostFails(r)
  BY <1>3 DEF Proxy!BodyTooLarge, Proxy!CaptureFails, Proxy!PostFails, Proxy!Refuse,
         PP!BodyTooLarge, PP!CaptureFails, PP!PostFails, PP!Refuse
<1>4. CASE Proxy!PostWithCached(r)
  BY <1>4 DEF Proxy!PostWithCached, Proxy!BodyTaken, Proxy!Capture, Proxy!Fresh, Proxy!Post,
     PP!PostWithCached, PP!BodyTaken, PP!Capture, PP!Fresh, PP!Post
<1>5. CASE Proxy!SignIn(r)
  BY <1>5 DEF Proxy!SignIn, Proxy!BodyTaken, Proxy!Capture, Proxy!Fresh, Proxy!Post,
     PP!SignIn, PP!BodyTaken, PP!Capture, PP!Fresh, PP!Post
<1>6. CASE Proxy!SignInFails(r)
  BY <1>6 DEF Proxy!SignInFails, Proxy!BodyTaken, Proxy!Capture, Proxy!Fresh, Proxy!Refuse,
     PP!SignInFails, PP!BodyTaken, PP!Capture, PP!Fresh, PP!Refuse
<1>7. CASE Proxy!Headers(r)
  BY <1>7 DEF Proxy!Headers, Proxy!Invalidate, Proxy!Capture,
     PP!Headers, PP!Invalidate, PP!Capture
<1>8. CASE Proxy!RelayChunk(r) \/ Proxy!RelayEnds(r)
  BY <1>8 DEF Proxy!RelayChunk, Proxy!RelayEnds, PP!RelayChunk, PP!RelayEnds
<1> QED
  BY <1>1, <1>2, <1>3, <1>4, <1>5, <1>6, <1>7, <1>8 DEF ProxyAlone, SignIn, Headers

(* Whatever the gateway and the developer do, the proxy behaves as         *)
(* LocalProxy says.                                                        *)
LEMMA ProxyStep == [Next]_vars => [PP!Next]_(PP!vars)
<1> SUFFICES ASSUME [Next]_vars PROVE [PP!Next]_(PP!vars)
  OBVIOUS
<1> USE DEF PP!cacheVars, PP!callVars, Proxy!cacheVars, Proxy!callVars
<1>1. CASE UNCHANGED vars
  BY <1>1 DEF vars, proxyVars, PP!vars
<1>2. CASE Tick
  BY <1>2 DEF Tick, Proxy!Tick, PP!Next, PP!Tick
<1>3. CASE Restart
  BY <1>3 DEF Restart, Proxy!Restart, PP!Next, PP!Restart
<1>4. CASE SwitchAccount \/ WindowRollsOver \/ \E r \in Requests : Arrive(r) \/ Serve(r)
  BY <1>4 DEF SwitchAccount, WindowRollsOver, Arrive, Serve, proxyVars, PP!vars
<1> QED  BY <1>1, <1>2, <1>3, <1>4, ProxyHandles DEF Next, PP!Next

(* What LocalProxy assumes of its constants. *)
LEMMA ProxyConstants ==
  /\ Capturing \in BOOLEAN
  /\ Skew \in Nat /\ Timeout \in Nat
  /\ Lifetimes \subseteq Nat
  /\ Statuses \subseteq Nat
  /\ MaxTime \in Nat /\ MaxChunks \in Nat /\ MaxRestarts \in Nat
  /\ None \notin PP!Answer
BY CallPathAssumption DEF Proxy!Answer, PP!Answer

(* So the path refines the proxy, and inherits its invariant.              *)
LEMMA ProxyPart == Spec => [](PP!TypeOK /\ PP!ProxyInv)
<1>1. Spec => PP!Spec
  BY ProxyInit, ProxyStep, PTL DEF Spec, PP!Spec
<1>2. PP!Spec => []PP!TypeOK
  BY PP!TypeCorrect, ProxyConstants
<1>3. PP!Spec => []PP!ProxyInv
  BY PP!ProxyCorrect, ProxyConstants
<1> QED  BY <1>1, <1>2, <1>3, PTL

-----------------------------------------------------------------------------
(* The gateway's part. *)
LEMMA GatewayServes ==
  ASSUME NEW r \in Requests, Gateway!Serve(r)
  PROVE  GP!Serve(r)
<1> USE DEF GP!Serve, Gateway!NoGovernance, GP!NoGovernance,
            Gateway!governanceVars, GP!governanceVars, Gateway!Trace, GP!Trace,
            Gateway!Respond, GP!Respond, Gateway!Reject, GP!Reject,
            Gateway!OnError, GP!OnError, Gateway!Proceed, GP!Proceed,
            Gateway!FailureCategory, GP!FailureCategory, Gateway!StatusOf, GP!StatusOf,
            Gateway!NoResponse, GP!NoResponse, Gateway!GatewayFailure, GP!GatewayFailure
<1>1. CASE Gateway!Global(r)
  BY <1>1 DEF Gateway!Global, GP!Global, Gateway!CorrelationId, GP!CorrelationId
<1>2. CASE Gateway!SecurityHeaders(r)
  BY <1>2 DEF Gateway!SecurityHeaders, GP!SecurityHeaders
<1>3. CASE Gateway!Authenticate(r)
  BY <1>3 DEF Gateway!Authenticate, GP!Authenticate, Gateway!RefuseToken, GP!RefuseToken,
     Gateway!RefuseScope, GP!RefuseScope, Gateway!RefuseIdentity, GP!RefuseIdentity,
     Gateway!RefuseClient, GP!RefuseClient, Gateway!AcceptCaller, GP!AcceptCaller,
     Gateway!HasRequiredScope, GP!HasRequiredScope, Gateway!IsDelegatedHuman,
     GP!IsDelegatedHuman, Gateway!ClientApp, GP!ClientApp, Gateway!ClientAppAllowed,
     GP!ClientAppAllowed, Gateway!Claims, GP!Claims, Gateway!CallerClaims, GP!CallerClaims
<1>4. CASE Gateway!ValidateRequest(r)
  BY <1>4 DEF Gateway!ValidateRequest, GP!ValidateRequest, Gateway!RefuseMediaType,
     GP!RefuseMediaType, Gateway!RefuseUnreadable, GP!RefuseUnreadable, Gateway!RefuseModel,
     GP!RefuseModel, Gateway!RefuseTools, GP!RefuseTools, Gateway!RefuseStore, GP!RefuseStore,
     Gateway!RewriteBody, GP!RewriteBody, Gateway!WellFormed, GP!WellFormed,
     Gateway!ModelApproved, GP!ModelApproved, Gateway!ToolsPermitted, GP!ToolsPermitted,
     Gateway!StoreViolation, GP!StoreViolation
<1>5. CASE Gateway!ValidateContent(r)
  BY <1>5 DEF Gateway!ValidateContent, GP!ValidateContent, Gateway!SchemaAccepts,
     GP!SchemaAccepts
<1>6. CASE Gateway!Govern(r)
  BY ZenonT(40), <1>6 DEF Gateway!Govern, GP!Govern, Gateway!QuotaKey, GP!QuotaKey,
     Gateway!WithinRate, GP!WithinRate, Gateway!WithinMinute, GP!WithinMinute,
     Gateway!WithinDay, GP!WithinDay, Gateway!CountCall, GP!CountCall
<1>7. CASE Gateway!BackendAuth(r)
  BY <1>7 DEF Gateway!BackendAuth, GP!BackendAuth
<1>8. CASE Gateway!Forward(r)
  BY <1>8 DEF Gateway!Forward, GP!Forward
<1>9. CASE Gateway!Outbound(r)
  BY <1>9 DEF Gateway!Outbound, GP!Outbound
<1>10. CASE Gateway!ForwardFails(r)
  BY <1>10 DEF Gateway!ForwardFails, GP!ForwardFails
<1>11. CASE Gateway!Finish(r)
  BY <1>11 DEF Gateway!Finish, GP!Finish, Gateway!ChargeTokens, GP!ChargeTokens,
     Gateway!QuotaKey, GP!QuotaKey
<1> QED  BY <1>1, <1>2, <1>3, <1>4, <1>5, <1>6, <1>7, <1>8, <1>9, <1>10, <1>11
         DEF Gateway!Serve

(* What Gateway and TokenGovernance assume of their constants.             *)
LEMMA GatewayConstants ==
  /\ Messages \subseteq GP!Message
  /\ Keys = Tids \X Oids
  /\ None \notin Tids \cup Oids \cup Scopes \cup Apps \cup GP!Code
               \cup GP!Correlation \cup GP!Answer
  /\ Brokered \in BOOLEAN
  /\ RequiredScope \in Scopes \cup {None} /\ AllowedApps \subseteq Apps
  /\ BackendStatuses \subseteq Nat
  /\ GP!IsFiniteSet(Nodes)
  /\ Calls \in Nat \ {0} /\ TokensPerMinute \in Nat \ {0} /\ DailyQuota \in Nat \ {0}
  /\ MaxCost \in Nat
<1>1. GP!Message = Gateway!Message
  BY DEF GP!Message, GP!HeaderGroup, GP!Token, GP!Body,
         Gateway!Message, Gateway!HeaderGroup, Gateway!Token, Gateway!Body
<1>2. GP!Code = Gateway!Code /\ GP!Correlation = Gateway!Correlation
  BY DEF GP!Code, Gateway!Code, GP!Correlation, Gateway!Correlation
<1>3. GP!Answer = Gateway!Answer
  BY <1>2 DEF GP!Answer, Gateway!Answer
<1>4. GP!IsFiniteSet(Nodes)
  BY CallPathAssumption DEF IsFiniteSet, GP!IsFiniteSet
<1> QED  BY <1>1, <1>2, <1>3, <1>4, CallPathAssumption

-----------------------------------------------------------------------------
(* The types of the path's own variables. *)
Login == [oid: Oids, at: 0 .. MaxTime]

OwnType ==
  /\ arrived \subseteq Requests
  /\ holder \in Seq(Oids \cup {None}) /\ Len(holder) = Len(issued)
  /\ logins \in Seq(Login) /\ Len(logins) \in 1 .. MaxSwitches + 1
  /\ first \in 1 .. Len(logins)
  /\ since \in [Requests -> 1 .. first]

LEMMA Bounds == MaxSwitches \in Nat /\ MaxTime \in Nat
BY CallPathAssumption

(* Who is signed in is somebody. *)
LEMMA SomebodySignedIn ==
  ASSUME OwnType
  PROVE  SignedIn \in Oids /\ Len(logins) \in Nat /\ Len(logins) >= 1
<1>1. Len(logins) \in 1 .. Len(logins) /\ Len(logins) \in Nat /\ Len(logins) >= 1
  BY Bounds DEF OwnType
<1>2. \A i \in 1 .. Len(logins) : logins[i] \in Login
  BY <1>1, ElementOfSeq DEF OwnType
<1> QED  BY <1>1, <1>2 DEF SignedIn, Login

(* Only a sign-in issues a token, and the proxy's handlers leave the clock *)
(* alone.                                                                  *)
LEMMA IssuedSame ==
  ASSUME NEW r \in Requests, ProxyAlone(r) \/ Headers(r)
  PROVE  issued' = issued /\ now' = now
<1> USE DEF Proxy!cacheVars
<1>1. CASE Headers(r)
  BY <1>1 DEF Headers, Proxy!Headers
<1>2. CASE ProxyAlone(r)
  BY <1>2 DEF ProxyAlone, Proxy!Authorise, Proxy!BodyLost, Proxy!BodyTooLarge,
     Proxy!CaptureFails, Proxy!PostWithCached, Proxy!SignInFails, Proxy!PostFails, Proxy!RelayChunk,
     Proxy!RelayBreaks, Proxy!RelayEnds, Proxy!Post
<1> QED  BY <1>1, <1>2

(* What a sign-in adds. *)
LEMMA SignInAdds ==
  ASSUME PP!TypeOK, OwnType, NEW r \in Requests, SignIn(r)
  PROVE  /\ Len(issued') = Len(issued) + 1 /\ Len(issued) \in Nat
         /\ cached' = Len(issued) + 1
         /\ \A g \in 1 .. Len(issued) : issued'[g] = issued[g]
         /\ issued'[Len(issued) + 1].at = now
         /\ \E life \in Lifetimes : issued'[Len(issued) + 1].expires = now + life
         /\ holder' \in Seq(Oids \cup {None}) /\ Len(holder') = Len(issued) + 1
         /\ \A g \in 1 .. Len(issued) : holder'[g] = holder[g]
         /\ holder'[Len(issued) + 1] \in {SignedIn, None}
<1>1. PP!SignIn(r)
  BY DEF SignIn, Proxy!SignIn, Proxy!BodyTaken, Proxy!Capture, Proxy!Fresh, Proxy!Post,
     PP!SignIn, PP!BodyTaken, PP!Capture, PP!Fresh, PP!Post
<1>2. /\ Len(issued') = Len(issued) + 1 /\ Len(issued) \in Nat
      /\ cached' = Len(issued) + 1
      /\ \A g \in 1 .. Len(issued) : issued'[g] = issued[g]
      /\ \E life \in Lifetimes : issued'[Len(issued) + 1].expires = now + life
  BY <1>1, PP!SignInIssues, ProxyConstants
<1>3. issued'[Len(issued) + 1].at = now
  BY <1>1, <1>2 DEF PP!SignIn, PP!TypeOK
<1>4. PICK o \in {SignedIn, None} : holder' = Append(holder, o)
  BY DEF SignIn
<1>5. o \in Oids \cup {None}
  BY <1>4, SomebodySignedIn
<1>6. /\ holder' \in Seq(Oids \cup {None}) /\ Len(holder') = Len(holder) + 1
      /\ \A g \in 1 .. Len(holder) : holder'[g] = holder[g]
      /\ holder'[Len(holder) + 1] = o
  BY <1>4, <1>5, AppendProperties DEF OwnType
<1> QED  BY <1>2, <1>3, <1>4, <1>6 DEF OwnType

(* What it means that another person signs in. *)
LEMMA SwitchAdds ==
  ASSUME PP!TypeOK, OwnType, SwitchAccount
  PROVE  /\ logins' \in Seq(Login)
         /\ Len(logins') = Len(logins) + 1 /\ Len(logins) \in 1 .. MaxSwitches
         /\ \A i \in 1 .. Len(logins) : logins'[i] = logins[i]
         /\ logins'[Len(logins) + 1].at = now
<1>1. PICK o \in Oids : logins' = Append(logins, [oid |-> o, at |-> now])
  BY DEF SwitchAccount
<1> DEFINE login == [oid |-> o, at |-> now]
<1>2. login \in Login /\ login.at = now
  BY DEF PP!TypeOK, Login
<1> HIDE DEF login
<1>3. Len(logins) \in 1 .. MaxSwitches
  BY Bounds DEF SwitchAccount, OwnType
<1>4. logins' = Append(logins, login)
  BY <1>1 DEF login
<1> QED  BY <1>2, <1>3, <1>4, AppendProperties DEF OwnType

LEMMA OwnTypeInit == Init => OwnType
<1> SUFFICES ASSUME Init PROVE OwnType
  OBVIOUS
<1>1. holder = <<>> /\ issued = <<>>
  BY DEF Init, Proxy!Init
<1>2. PICK o \in Oids : logins = <<[oid |-> o, at |-> 0]>>
  BY DEF Init
<1>3. logins \in Seq(Login) /\ Len(logins) = 1
  BY <1>2, Bounds DEF Login
<1> QED  BY <1>1, <1>3, EmptySeq, Bounds DEF Init, OwnType

LEMMA OwnTypeNext == PP!TypeOK /\ OwnType /\ [Next]_vars => OwnType'
<1> SUFFICES ASSUME PP!TypeOK, OwnType, [Next]_vars PROVE OwnType'
  OBVIOUS
<1>1. CASE UNCHANGED vars
  BY <1>1 DEF vars, proxyVars, developerVars, OwnType
<1>2. CASE Tick \/ WindowRollsOver \/ \E r \in Requests : Serve(r)
  BY <1>2 DEF Tick, Proxy!Tick, Proxy!cacheVars, WindowRollsOver, Serve, proxyVars,
     developerVars, OwnType
<1>3. CASE Restart
  <2>1. /\ UNCHANGED <<arrived, holder, issued, logins, since>> /\ first' = Len(logins)
    BY <1>3 DEF Restart, Proxy!Restart
  <2>2. first \in Nat /\ Len(logins) \in Nat /\ first <= Len(logins) /\ Len(logins) >= 1
    BY DEF OwnType
  <2>3. \A q \in Requests : since[q] \in 1 .. Len(logins)
    BY <2>2 DEF OwnType
  <2> QED  BY <2>1, <2>2, <2>3 DEF OwnType
<1>4. CASE SwitchAccount
  <2>1. UNCHANGED <<arrived, holder, issued, first, since>>
    BY <1>4 DEF SwitchAccount, proxyVars
  <2>2. /\ logins' \in Seq(Login)
        /\ Len(logins') = Len(logins) + 1 /\ Len(logins) \in 1 .. MaxSwitches
    BY <1>4, SwitchAdds
  <2>3. Len(logins') \in 1 .. MaxSwitches + 1 /\ first' \in 1 .. Len(logins')
    BY <2>1, <2>2, Bounds DEF OwnType
  <2> QED  BY <2>1, <2>2, <2>3 DEF OwnType
<1>5. ASSUME NEW r \in Requests, Arrive(r) PROVE OwnType'
  BY <1>5 DEF Arrive, proxyVars, developerVars, OwnType
<1>6. ASSUME NEW r \in Requests, ProxyAlone(r) \/ Headers(r) PROVE OwnType'
  <2>1. UNCHANGED <<arrived, holder, logins, first, issued>>
    BY <1>6, IssuedSame DEF ProxyAlone, Headers, developerVars
  <2>2. since' \in [Requests -> 1 .. first]
    <3>1. first \in 1 .. first
      BY DEF OwnType
    <3> QED  BY <1>6, <3>1 DEF ProxyAlone, Headers, Posted, OwnType
  <2> QED  BY <2>1, <2>2 DEF OwnType
<1>7. ASSUME NEW r \in Requests, SignIn(r) PROVE OwnType'
  <2>1. UNCHANGED <<arrived, logins, first>>
    BY <1>7 DEF SignIn
  <2>2. since' \in [Requests -> 1 .. first]
    BY <1>7 DEF SignIn, Posted, OwnType
  <2> QED  BY <1>7, <2>1, <2>2, SignInAdds DEF OwnType
<1> QED  BY <1>1, <1>2, <1>3, <1>4, <1>5, <1>6, <1>7 DEF Next

LEMMA OwnTypes == Spec => []OwnType
<1> QED  BY OwnTypeInit, OwnTypeNext, ProxyPart, PTL DEF Spec
-----------------------------------------------------------------------------
(* The gateway's part: what GatewayProofs finds inductive of each request, *)
(* and that none is served before it arrives.                              *)
ServedInv(r) ==
  /\ GP!RequestInv(r) /\ GP!Telling(r) /\ GP!ForwardedAsHuman(r)
  /\ reply[r] # None => GP!Truthful(r)
  /\ r \notin arrived => stage[r] = "global"

GatewayInv == GP!TypeOK /\ \A r \in Requests : ServedInv(r)

LEMMA GatewayInit == Init => GatewayInv
<1> SUFFICES ASSUME Init PROVE GatewayInv
  OBVIOUS
<1>1. GP!Init
  BY DEF Init, Gateway!Init, Gateway!GovernanceInit, GP!Init, GP!GovernanceInit
<1>2. GP!TypeOK /\ GP!PipelineInv
  BY <1>1, GP!InitType, GP!InitInv, GatewayConstants
<1>3. \A r \in Requests : reply[r] = None /\ stage[r] = "global"
  BY <1>1 DEF GP!Init
<1>4. \A r \in Requests : calls[r] = <<>>
  BY <1>1 DEF GP!Init
<1> QED  BY <1>2, <1>3, <1>4
         DEF GatewayInv, ServedInv, GP!PipelineInv, GP!Telling, GP!ForwardedAsHuman

(* A step that leaves a request alone keeps what is known of it. *)
LEMMA ServedSame ==
  ASSUME NEW q \in Requests, ServedInv(q), GP!SameRequest(q), arrived \subseteq arrived'
  PROVE  ServedInv(q)'
<1>1. GP!RequestInv(q)'
  BY GP!SameRequestInv, GatewayConstants DEF ServedInv
<1>2. GP!Telling(q)' /\ GP!ForwardedAsHuman(q)'
  BY DEF ServedInv, GP!SameRequest, GP!Telling, GP!ForwardedAsHuman
<1>3. (reply[q] # None => GP!Truthful(q))'
  BY GP!SameTruthful, GatewayConstants DEF ServedInv
<1> QED  BY <1>1, <1>2, <1>3 DEF ServedInv, GP!SameRequest

LEMMA ServeKeeps ==
  ASSUME GatewayInv, NEW r \in Requests, Serve(r)
  PROVE  GatewayInv'
<1>1. GP!Serve(r) /\ r \in arrived /\ arrived' = arrived
  BY GatewayServes DEF Serve
<1>2. GP!TypeOK'
  BY <1>1, GP!ServeType, GatewayConstants DEF GatewayInv
<1>3. ASSUME NEW q \in Requests PROVE ServedInv(q)'
  <2>1. ServedInv(q) /\ GP!TypeOK
    BY DEF GatewayInv
  <2>2. GP!RequestInv(q)'
    BY <1>1, <2>1, GP!ServeInv, GatewayConstants DEF ServedInv
  <2>3. GP!Telling(q)' /\ GP!ForwardedAsHuman(q)'
    BY <1>1, <2>1, GP!ServeTelling, GP!ServeForwardedAsHuman, GatewayConstants DEF ServedInv
  <2>4. (reply[q] # None => GP!Truthful(q))'
    BY <1>1, <2>1, GP!ServeTruthful, GatewayConstants DEF ServedInv
  <2>5. q \notin arrived' => stage'[q] = "global"
    <3>1. q # r => GP!SameRequest(q)
      BY <1>1, <2>1, GP!OthersUntouched, GatewayConstants
    <3> QED  BY <1>1, <2>1, <3>1 DEF ServedInv, GP!SameRequest
  <2> QED  BY <2>2, <2>3, <2>4, <2>5 DEF ServedInv
<1> QED  BY <1>2, <1>3 DEF GatewayInv

LEMMA AnybodysToken ==
  \A m \in Messages, valid \in BOOLEAN, o \in Oids \cup {None} :
    [m EXCEPT !.token.valid = valid, !.token.oid = o] \in Messages
BY CallPathAssumption

(* What was posted carries a token that was issued, to one holder. *)
LEMMA SentHeld ==
  ASSUME PP!TypeOK, PP!ProxyInv, OwnType, NEW r \in Requests, posts[r] > 0
  PROVE  /\ sent[r] \in 1 .. Len(issued) /\ Len(issued) \in Nat
         /\ issued[sent[r]] \in PP!SignInRecord
         /\ holder[sent[r]] \in Oids \cup {None}
<1>1. sent[r] \in 1 .. Len(issued)
  BY DEF PP!ProxyInv, PP!PostAccountable
<1>2. issued \in Seq(PP!SignInRecord) /\ holder \in Seq(Oids \cup {None})
      /\ Len(holder) = Len(issued)
  BY DEF PP!TypeOK, OwnType
<1>3. Len(issued) \in Nat
  BY <1>2
<1> QED  BY <1>1, <1>2, <1>3, ElementOfSeq

(* The POST fills in the token of a request that no policy has seen.       *)
LEMMA ArriveFills ==
  ASSUME PP!TypeOK, PP!ProxyInv, OwnType, GatewayInv, NEW r \in Requests, Arrive(r)
  PROVE  /\ message' \in [Requests -> Messages]
         /\ \A q \in Requests \ {r} : message'[q] = message[q]
         /\ message'[r].body = message[r].body
         /\ message'[r].token.oid = holder[sent[r]]
         /\ message'[r].token.valid <=> holder[sent[r]] # None /\ now < issued[sent[r]].expires
<1> DEFINE valid == holder[sent[r]] # None /\ now < issued[sent[r]].expires
           o == holder[sent[r]]
           token == [message[r].token EXCEPT !.valid = valid, !.oid = o]
           filled == [message[r] EXCEPT !.token.valid = valid, !.token.oid = o]
<1>1. o \in Oids \cup {None} /\ valid \in BOOLEAN
  BY SentHeld DEF Arrive
<1>2. message \in [Requests -> Messages] /\ message[r] \in GP!Message
  BY GatewayConstants DEF GatewayInv, GP!TypeOK
<1>3. message[r].token \in GP!Token
  BY <1>2 DEF GP!Message
<1> HIDE DEF valid, o
<1>4. filled \in Messages
  BY <1>1, <1>2, AnybodysToken
<1>5. token.valid = valid /\ token.oid = o
  BY <1>3 DEF GP!Token
<1>6. filled = [message[r] EXCEPT !.token = token]
  BY <1>2 DEF GP!Message
<1>7. filled.body = message[r].body /\ filled.token.oid = o /\ filled.token.valid = valid
  BY <1>2, <1>5, <1>6 DEF GP!Message
<1>8. message' = [message EXCEPT ![r] = filled]
  BY <1>2 DEF Arrive, valid, o
<1> HIDE DEF filled
<1> QED  BY <1>2, <1>4, <1>7, <1>8 DEF valid, o

LEMMA ArriveKeeps ==
  ASSUME PP!TypeOK, PP!ProxyInv, OwnType, GatewayInv, NEW r \in Requests, Arrive(r)
  PROVE  GatewayInv'
<1>1. /\ UNCHANGED <<ctx, outgoing, calls, telemetry, admitted, burst, minute, day, stage, reply>>
      /\ r \notin arrived /\ arrived' = arrived \cup {r}
  BY DEF Arrive
<1>2. GP!TypeOK'
  BY <1>1, ArriveFills DEF GatewayInv, GP!TypeOK, GP!GovernanceTypeOK
<1>3. ASSUME NEW q \in Requests \ {r} PROVE ServedInv(q)'
  <2>1. GP!SameRequest(q)
    BY <1>1, ArriveFills DEF GP!SameRequest
  <2> QED  BY <1>1, <2>1, ServedSame DEF GatewayInv
<1>4. ServedInv(r)'
  <2>1. ServedInv(r) /\ stage[r] = "global"
    BY <1>1 DEF GatewayInv, ServedInv
  <2>2. GP!EnvelopeInv(r)' /\ GP!IdentityInv(r)'
    BY <1>1, <2>1 DEF ServedInv, GP!RequestInv, GP!EnvelopeInv, GP!IdentityInv
  <2>3. GP!BodyInv(r)'
    BY <1>1, <2>1, ArriveFills DEF ServedInv, GP!RequestInv, GP!BodyInv
  <2>4. GP!ForwardInv(r)' /\ GP!AnswerInv(r)'
    BY <1>1, <2>1 DEF ServedInv, GP!RequestInv, GP!ForwardInv, GP!AnswerInv
  <2>5. reply'[r] = None
    BY <1>1, <2>1 DEF ServedInv, GP!RequestInv, GP!AnswerInv
  <2>6. calls'[r] = <<>>
    BY <1>1, <2>1 DEF ServedInv, GP!RequestInv, GP!ForwardInv
  <2> QED  BY <1>1, <2>1, <2>2, <2>3, <2>4, <2>5, <2>6
           DEF ServedInv, GP!RequestInv, GP!Telling, GP!ForwardedAsHuman
<1> QED  BY <1>2, <1>3, <1>4 DEF GatewayInv

LEMMA GatewayNext ==
  ASSUME PP!TypeOK, PP!ProxyInv, OwnType, GatewayInv, [Next]_vars
  PROVE  GatewayInv'
<1>1. CASE UNCHANGED gatewayVars /\ arrived' = arrived
  <2>1. GP!TypeOK'
    BY <1>1 DEF gatewayVars, GatewayInv, GP!TypeOK, GP!GovernanceTypeOK
  <2>2. \A q \in Requests : GP!SameRequest(q)
    BY <1>1 DEF gatewayVars, GP!SameRequest
  <2> QED  BY <1>1, <2>1, <2>2, ServedSame DEF GatewayInv
<1>2. CASE WindowRollsOver
  <2>1. GP!WindowRollsOver /\ arrived' = arrived
    BY <1>2 DEF WindowRollsOver, Gateway!WindowRollsOver, Gateway!NextSecond,
       Gateway!NextMinute, Gateway!NextDay, Gateway!requestVars, GP!WindowRollsOver,
       GP!NextSecond, GP!NextMinute, GP!NextDay, GP!requestVars
  <2>2. GP!TypeOK'
    BY <2>1, GP!WindowType, GatewayConstants DEF GatewayInv
  <2>3. \A q \in Requests : GP!SameRequest(q)
    BY <2>1 DEF GP!WindowRollsOver, GP!requestVars, GP!SameRequest
  <2> QED  BY <2>1, <2>2, <2>3, ServedSame DEF GatewayInv
<1>3. ASSUME NEW r \in Requests, Arrive(r) PROVE GatewayInv'
  BY <1>3, ArriveKeeps
<1>4. ASSUME NEW r \in Requests, Serve(r) PROVE GatewayInv'
  BY <1>4, ServeKeeps
<1>5. CASE Tick \/ Restart \/ SwitchAccount \/ UNCHANGED vars
           \/ \E r \in Requests : ProxyAlone(r) \/ SignIn(r) \/ Headers(r)
  BY <1>1, <1>5 DEF Tick, Restart, SwitchAccount, ProxyAlone, SignIn, Headers, vars
<1> QED  BY <1>2, <1>3, <1>4, <1>5 DEF Next

LEMMA GatewayPart == Spec => []GatewayInv
<1> QED  BY GatewayInit, GatewayNext, ProxyPart, OwnTypes, PTL DEF Spec

(* Every variable of the path keeps its type. *)
THEOREM TypeCorrect == Spec => []TypeOK
<1>1. PP!TypeOK /\ GatewayInv /\ OwnType => TypeOK
  <2> SUFFICES ASSUME PP!TypeOK, GatewayInv, OwnType PROVE TypeOK
    OBVIOUS
  <2>1. Proxy!TypeOK
    BY DEF PP!TypeOK, PP!SignInRecord, PP!Kinds, PP!Answer,
           Proxy!TypeOK, Proxy!SignInRecord, Proxy!Kinds, Proxy!Answer
  <2>2. Gateway!TypeOK
    BY DEF GatewayInv, GP!TypeOK, GP!GovernanceTypeOK, GP!Stages, GP!Context, GP!Outgoing,
       GP!Record, GP!Answer, GP!Code, GP!Correlation, GP!HeaderGroup, GP!Body,
       Gateway!TypeOK, Gateway!GovernanceTypeOK, Gateway!Stages, Gateway!Context,
       Gateway!Outgoing, Gateway!Record, Gateway!Answer, Gateway!Code, Gateway!Correlation,
       Gateway!HeaderGroup, Gateway!Body
  <2> QED  BY <2>1, <2>2 DEF TypeOK, OwnType, Login
<1> QED  BY <1>1, ProxyPart, GatewayPart, OwnTypes, PTL
-----------------------------------------------------------------------------
(* What a step of its handler does to a call: nothing the path can tell,   *)
(* or it posts it, answers it itself, hears from the gateway, or ends or   *)
(* breaks off the relay.                                                   *)
Stays(r) ==
  /\ posts'[r] = posts[r] /\ sent'[r] = sent[r]
  /\ started'[r] = started[r] /\ since'[r] = since[r]

Idles(r) == Stays(r) /\ told'[r] = told[r] /\ outcome'[r] = outcome[r]

WithCached(r) ==
  /\ cached # 0 /\ now < issued[cached].expires - Skew
  /\ sent'[r] = cached /\ issued' = issued /\ holder' = holder

IsPosted(r) ==
  /\ posts[r] = 0 /\ posts'[r] = 1 /\ started'[r] = now /\ since'[r] = first
  /\ told[r] = None /\ told'[r] = None
  /\ outcome[r] = "open" /\ outcome'[r] = "open"
  /\ \/ WithCached(r)
     \/ SignIn(r) /\ sent'[r] = cached'

ProxyAnswers(r) ==
  /\ Stays(r) /\ outcome[r] = "open" /\ outcome'[r] = "complete"
  /\ told'[r] # None /\ told'[r].from = "proxy"
  /\ told'[r].status = 502 \/ posts[r] = 0

Hears(r) ==
  /\ Stays(r) /\ outcome[r] = "open" /\ outcome'[r] = "open"
  /\ handler[r] = "posting" /\ told[r] = None
  /\ told'[r].from = "gateway" /\ reply[r] # None

Ends(r) ==
  /\ Stays(r) /\ outcome[r] = "open" /\ outcome'[r] = "complete"
  /\ told'[r] = told[r] /\ told[r] # None /\ told[r].from = "gateway"
  /\ stage[r] = "done"

Breaks(r) ==
  /\ Stays(r) /\ outcome[r] = "open" /\ outcome'[r] = "cut" /\ told'[r] = told[r]

LEMMA PostedStays ==
  ASSUME PP!TypeOK, OwnType, NEW r \in Requests, Posted(r) \/ UNCHANGED since,
         posts'[r] = posts[r]
  PROVE  since'[r] = since[r]
<1>1. posts[r] \in Nat /\ ~(posts[r] > posts[r])
  BY DEF PP!TypeOK
<1> QED  BY <1>1 DEF Posted, OwnType

LEMMA HandlerMoves ==
  ASSUME PP!TypeOK, PP!ProxyInv, OwnType,
         NEW r \in Requests, ProxyAlone(r) \/ SignIn(r) \/ Headers(r)
  PROVE  \/ Idles(r) \/ IsPosted(r) \/ ProxyAnswers(r) \/ Hears(r) \/ Ends(r) \/ Breaks(r)
<1>1. PP!CallInv(r)
  BY DEF PP!ProxyInv
<1>2. Posted(r) \/ UNCHANGED since
  BY DEF ProxyAlone, SignIn, Headers
<1>3. posts'[r] = posts[r] => since'[r] = since[r]
  BY <1>2, PostedStays
<1> USE DEF PP!TypeOK
<1>4. CASE Proxy!Authorise(r) \/ Proxy!RelayChunk(r)
  <2>1. CASE Proxy!Refuse(r, 401) /\ handler[r] = "new"
    <3>1. [from |-> "proxy", status |-> 401] # None
      BY ProxyConstants DEF PP!Answer
    <3>2. ProxyAnswers(r)
      BY <1>1, <1>3, <2>1, <3>1 DEF Proxy!Refuse, PP!CallInv, ProxyAnswers, Stays
    <3> QED  BY <3>2
  <2>2. CASE UNCHANGED <<posts, sent, started, told, outcome>>
    BY <1>3, <2>2 DEF Idles, Stays
  <2> QED  BY <1>4, <2>1, <2>2 DEF Proxy!Authorise, Proxy!RelayChunk
<1>5. CASE Proxy!BodyLost(r) \/ Proxy!RelayBreaks(r)
  <2>1. Breaks(r)
    BY <1>1, <1>3, <1>5
    DEF Proxy!BodyLost, Proxy!RelayBreaks, Proxy!Cut, PP!CallInv, Breaks, Stays
  <2> QED  BY <2>1
<1>6. CASE \/ Proxy!BodyTooLarge(r) \/ Proxy!CaptureFails(r) \/ Proxy!SignInFails(r)
           \/ Proxy!PostFails(r)
  <2>1. PICK status \in {401, 413, 500, 502} : /\ Proxy!Refuse(r, status)
                                               /\ \/ handler[r] = "reading"
                                                  \/ handler[r] = "posting" /\ status = 502
    BY <1>6 DEF Proxy!BodyTooLarge, Proxy!CaptureFails, Proxy!SignInFails, Proxy!PostFails, Proxy!BodyTaken
  <2>2. /\ UNCHANGED <<posts, sent, started>> /\ outcome'[r] = "complete"
        /\ told'[r] = [from |-> "proxy", status |-> status]
    BY <2>1 DEF Proxy!Refuse
  <2>3. outcome[r] = "open" /\ (status = 502 \/ posts[r] = 0)
    BY <1>1, <2>1 DEF PP!CallInv
  <2> HIDE DEF PP!TypeOK
  <2>4. Stays(r)
    BY <1>3, <2>2 DEF Stays
  <2>5. [from |-> "proxy", status |-> status] # None
    BY ProxyConstants DEF PP!Answer
  <2> QED  BY <2>1, <2>2, <2>3, <2>4, <2>5 DEF ProxyAnswers
<1>7. CASE ProxyAlone(r) /\ Proxy!PostWithCached(r)
  <2>1. /\ handler[r] = "reading" /\ Proxy!Fresh /\ Proxy!Post(r, cached)
        /\ UNCHANGED <<issued, holder>>
    BY <1>7 DEF ProxyAlone, Proxy!PostWithCached, Proxy!BodyTaken, Proxy!cacheVars, developerVars
  <2>2. /\ posts'[r] = posts[r] + 1 /\ sent'[r] = cached /\ started'[r] = now
        /\ told' = told /\ outcome' = outcome
    BY <2>1 DEF Proxy!Post
  <2>3. since'[r] = first
    BY <1>1, <1>7, <2>1, <2>2 DEF ProxyAlone, Posted, OwnType, PP!CallInv
  <2>4. IsPosted(r)
    BY <1>1, <2>1, <2>2, <2>3 DEF PP!CallInv, Proxy!Fresh, IsPosted, WithCached
  <2> QED  BY <2>4
<1>8. CASE SignIn(r)
  <2>1. handler[r] = "reading" /\ Proxy!Post(r, cached')
    BY <1>8 DEF SignIn, Proxy!SignIn, Proxy!BodyTaken
  <2>2. /\ posts'[r] = posts[r] + 1 /\ sent'[r] = cached' /\ started'[r] = now
        /\ told' = told /\ outcome' = outcome
    BY <2>1 DEF Proxy!Post
  <2>3. since'[r] = first
    BY <1>1, <1>8, <2>1, <2>2 DEF SignIn, Posted, OwnType, PP!CallInv
  <2>4. IsPosted(r)
    BY <1>1, <1>8, <2>1, <2>2, <2>3 DEF PP!CallInv, IsPosted
  <2> QED  BY <2>4
<1>9. CASE Headers(r)
  <2>1. Hears(r)
    BY <1>1, <1>3, <1>9 DEF Headers, Proxy!Headers, PP!CallInv, Hears, Stays
  <2> QED  BY <2>1
<1>10. CASE stage[r] = "done" /\ Proxy!RelayEnds(r)
  <2>1. Ends(r)
    BY <1>1, <1>3, <1>10 DEF Proxy!RelayEnds, PP!CallInv, Ends, Stays
  <2> QED  BY <2>1
<1> QED  BY <1>4, <1>5, <1>6, <1>7, <1>8, <1>9, <1>10 DEF ProxyAlone

(* ... and to the other calls. *)
LEMMA OthersIdle ==
  ASSUME PP!TypeOK, OwnType, NEW r \in Requests, NEW q \in Requests, q # r,
         ProxyAlone(r) \/ SignIn(r) \/ Headers(r)
  PROVE  Idles(q)
<1>1. /\ posts'[q] = posts[q] /\ sent'[q] = sent[q] /\ started'[q] = started[q]
      /\ told'[q] = told[q] /\ outcome'[q] = outcome[q]
  BY ProxyHandles, PP!OtherCallsKept, ProxyConstants
<1>2. since'[q] = since[q]
  BY DEF ProxyAlone, SignIn, Headers, Posted, OwnType
<1> QED  BY <1>1, <1>2 DEF Idles, Stays

-----------------------------------------------------------------------------
(* What stays, whoever moves. *)
LEMMA TokensStay ==
  ASSUME PP!TypeOK, OwnType, [Next]_vars, NEW g \in 1 .. Len(issued)
  PROVE  g \in 1 .. Len(issued') /\ issued'[g] = issued[g] /\ holder'[g] = holder[g]
<1>1. CASE UNCHANGED <<issued, holder>>
  BY <1>1
<1>2. ASSUME NEW r \in Requests, SignIn(r)
      PROVE  g \in 1 .. Len(issued') /\ issued'[g] = issued[g] /\ holder'[g] = holder[g]
  BY <1>2, SignInAdds
<1>3. ASSUME NEW r \in Requests, ProxyAlone(r) \/ Headers(r)
      PROVE  UNCHANGED <<issued, holder>>
  BY <1>3, IssuedSame DEF ProxyAlone, Headers, developerVars
<1>4. CASE Tick \/ Restart \/ SwitchAccount \/ WindowRollsOver \/ UNCHANGED vars
           \/ \E r \in Requests : Arrive(r) \/ Serve(r)
  BY <1>1, <1>4 DEF Tick, Proxy!Tick, Restart, Proxy!Restart, SwitchAccount, WindowRollsOver,
     Arrive, Serve, vars, proxyVars, developerVars, Proxy!cacheVars
<1> QED  BY <1>1, <1>2, <1>3, <1>4 DEF Next

(* A call stays as it is, or its own handler moves it; a restart only cuts *)
(* it off.                                                                 *)
LEMMA CallsStay ==
  ASSUME PP!TypeOK, PP!ProxyInv, OwnType, [Next]_vars, NEW q \in Requests
  PROVE  \/ Idles(q) \/ Breaks(q)
         \/ (ProxyAlone(q) \/ SignIn(q) \/ Headers(q))
              /\ (IsPosted(q) \/ ProxyAnswers(q) \/ Hears(q) \/ Ends(q))
<1>1. CASE Tick \/ SwitchAccount \/ WindowRollsOver \/ UNCHANGED vars
           \/ \E r \in Requests : Arrive(r) \/ Serve(r)
  BY <1>1 DEF Tick, Proxy!Tick, Proxy!callVars, SwitchAccount, WindowRollsOver, Arrive, Serve,
     vars, proxyVars, Idles, Stays
<1>2. CASE Restart
  <2>1. UNCHANGED <<posts, sent, started, told, since>>
    BY <1>2 DEF Restart, Proxy!Restart
  <2>2. outcome'[q] = outcome[q] \/ (outcome[q] = "open" /\ outcome'[q] = "cut")
    BY <1>2 DEF Restart, Proxy!Restart
  <2> QED  BY <2>1, <2>2 DEF Idles, Breaks, Stays
<1>3. CASE ProxyAlone(q) \/ SignIn(q) \/ Headers(q)
  BY <1>3, HandlerMoves
<1>4. ASSUME NEW r \in Requests, r # q, ProxyAlone(r) \/ SignIn(r) \/ Headers(r)
      PROVE  Idles(q)
  BY <1>4, OthersIdle
<1> QED  BY <1>1, <1>2, <1>3, <1>4 DEF Next

(* The clock moves in ticks. *)
LEMMA ClockMoves ==
  ASSUME PP!TypeOK, [Next]_vars
  PROVE  now' \in Nat /\ now \in Nat /\ now <= now'
<1>1. now \in Nat
  BY ProxyConstants DEF PP!TypeOK
<1>2. CASE Tick
  BY <1>1, <1>2 DEF Tick, Proxy!Tick
<1>3. CASE Restart \/ SwitchAccount \/ WindowRollsOver \/ UNCHANGED vars
           \/ \E r \in Requests : Arrive(r) \/ Serve(r)
  <2>1. now' = now
    BY <1>3 DEF Restart, Proxy!Restart, SwitchAccount, WindowRollsOver, Arrive, Serve,
       vars, proxyVars
  <2> QED  BY <1>1, <2>1
<1>4. ASSUME NEW r \in Requests, ProxyAlone(r) \/ Headers(r)
      PROVE  now' = now
  BY <1>4, IssuedSame
<1>5. ASSUME NEW r \in Requests, SignIn(r) PROVE now' = now
  BY <1>5 DEF SignIn, Proxy!SignIn, Proxy!Post
<1> QED  BY <1>1, <1>2, <1>3, <1>4, <1>5 DEF Next

(* The times of tokens and sign-ins are numbers. *)
LEMMA TimesType ==
  ASSUME PP!TypeOK, OwnType
  PROVE  /\ now \in Nat /\ Len(issued) \in Nat /\ Len(logins) \in Nat
         /\ \A g \in 1 .. Len(issued) : issued[g].at \in Nat /\ issued[g].expires \in Nat
         /\ \A i \in 1 .. Len(logins) : logins[i].at \in Nat
         /\ \A r \in Requests : started[r] \in Nat
<1>1. issued \in Seq(PP!SignInRecord) /\ logins \in Seq(Login)
  BY DEF PP!TypeOK, OwnType
<1>2. Len(issued) \in Nat /\ Len(logins) \in Nat
  BY <1>1
<1>3. /\ \A g \in 1 .. Len(issued) : issued[g] \in PP!SignInRecord
      /\ \A i \in 1 .. Len(logins) : logins[i] \in Login
  BY <1>1, ElementOfSeq
<1>4. now \in Nat /\ \A r \in Requests : started[r] \in Nat
  BY ProxyConstants DEF PP!TypeOK
<1>5. \A i \in 1 .. Len(logins) : logins[i].at \in Nat
  BY <1>3, Bounds DEF Login
<1> QED  BY <1>2, <1>3, <1>4, <1>5 DEF PP!SignInRecord

(* The bearer of a token does not change, and nobody signs in before.      *)
LEMMA BearerStays ==
  ASSUME PP!TypeOK, OwnType, [Next]_vars, TokenInv,
         NEW g \in 1 .. Len(issued), NEW oldest \in Nat \ {0}, Bearer(g, oldest)
  PROVE  Bearer(g, oldest)'
<1>1. issued'[g] = issued[g] /\ holder'[g] = holder[g]
  BY TokensStay
<1>2. CASE UNCHANGED logins
  BY <1>1, <1>2 DEF Bearer
<1>3. CASE SwitchAccount
  <2>1. SUFFICES ASSUME holder[g] # None PROVE Bearer(g, oldest)'
    BY <1>1 DEF Bearer
  <2>2. PICK i \in oldest .. Len(logins) :
               /\ logins[i].oid = holder[g] /\ logins[i].at <= issued[g].at
               /\ i < Len(logins) => logins[i + 1].at >= issued[g].at
    BY <2>1 DEF Bearer
  <2>3. /\ Len(logins') = Len(logins) + 1 /\ Len(logins) \in Nat
        /\ \A j \in 1 .. Len(logins) : logins'[j] = logins[j]
        /\ logins'[Len(logins) + 1].at = now
    BY <1>3, SwitchAdds
  <2>4. issued[g].at <= now /\ issued[g].at \in Nat /\ now \in Nat
    BY TimesType DEF TokenInv
  <2>5. i \in 1 .. Len(logins) /\ logins'[i] = logins[i]
    BY <2>3
  <2>6. i < Len(logins') => logins'[i + 1].at >= issued[g].at
    <3>1. CASE i < Len(logins)
      <4>1. logins'[i + 1] = logins[i + 1]
        BY <2>3, <2>5, <3>1
      <4> QED  BY <2>2, <3>1, <4>1
    <3>2. CASE i = Len(logins)
      BY <2>3, <2>4, <3>2
    <3> QED  BY <2>3, <2>5, <3>1, <3>2
  <2>7. i \in oldest .. Len(logins')
    BY <2>3
  <2> QED  BY <1>1, <2>2, <2>5, <2>6, <2>7 DEF Bearer
<1>4. UNCHANGED logins \/ SwitchAccount
  BY DEF Next, Tick, Restart, WindowRollsOver, ProxyAlone, SignIn, Headers, Arrive, Serve,
     vars, developerVars
<1> QED  BY <1>2, <1>3, <1>4

-----------------------------------------------------------------------------
(* The inductive invariant of the path, part by part: the tokens.          *)
LEMMA SpanCovers ==
  /\ Span \in Nat
  /\ \A life \in Lifetimes : life \in Nat /\ life - Skew <= Span
<1> DEFINE Longest(l) == \A k \in Lifetimes : k <= l
           longest == CHOOSE l \in Lifetimes : Longest(l)
<1>1. \E l \in Lifetimes : Longest(l)
  BY CallPathAssumption
<1> HIDE DEF Longest
<1>2. longest \in Lifetimes /\ Longest(longest)
  BY <1>1
<1> USE DEF Longest
<1>3. Span = IF longest > Skew THEN longest - Skew ELSE 0
  BY DEF Span
<1> HIDE DEF longest
<1>4. Skew \in Nat /\ Lifetimes \subseteq Nat
  BY ProxyConstants
<1> QED  BY <1>2, <1>3, <1>4

LEMMA TokenInit == Init => TokenInv
<1> SUFFICES ASSUME Init PROVE TokenInv
  OBVIOUS
<1>1. issued = <<>> /\ cached = 0 /\ now = 0
  BY DEF Init, Proxy!Init
<1>2. PICK o \in Oids : logins = <<[oid |-> o, at |-> 0]>>
  BY DEF Init
<1> QED  BY <1>1, <1>2 DEF TokenInv

(* The cached token is that of the last person found signed in by this     *)
(* process.                                                                *)
LEMMA CachedNext ==
  ASSUME PP!TypeOK, OwnType, TokenInv, [Next]_vars, cached' # 0
  PROVE  Bearer(cached, first)'
<1>1. first \in Nat \ {0} /\ first \in 1 .. Len(logins) /\ Len(logins) \in Nat
  BY SomebodySignedIn DEF OwnType
<1>2. CASE cached' = cached /\ first' = first
  <2>1. cached \in 1 .. Len(issued) /\ Bearer(cached, first)
    <3>1. Len(issued) \in Nat
      BY TimesType
    <3> QED  BY <1>2, <3>1 DEF PP!TypeOK, TokenInv
  <2> QED  BY <1>1, <1>2, <2>1, BearerStays DEF Bearer
<1>3. ASSUME NEW r \in Requests, SignIn(r) PROVE Bearer(cached, first)'
  <2>1. UNCHANGED <<logins, first>>
    BY <1>3 DEF SignIn
  <2>2. SUFFICES ASSUME holder'[cached'] # None PROVE Bearer(cached, first)'
    BY DEF Bearer
  <2>3. issued'[cached'].at = now /\ holder'[cached'] = SignedIn
    BY <1>3, <2>2, SignInAdds
  <2>4. logins[Len(logins)].oid = holder'[cached'] /\ logins[Len(logins)].at <= issued'[cached'].at
    BY <1>1, <2>3 DEF TokenInv, SignedIn
  <2>5. Len(logins) \in first .. Len(logins) /\ ~(Len(logins) < Len(logins))
    BY <1>1
  <2> QED  BY <2>1, <2>4, <2>5 DEF Bearer
<1>4. \/ cached' = cached /\ first' = first
      \/ \E r \in Requests : SignIn(r)
  <2>1. CASE Tick \/ SwitchAccount \/ WindowRollsOver \/ UNCHANGED vars
             \/ \E r \in Requests : Arrive(r) \/ Serve(r)
    BY <2>1 DEF Tick, Proxy!Tick, Proxy!cacheVars, SwitchAccount, WindowRollsOver, Arrive,
       Serve, vars, proxyVars, developerVars
  <2>2. CASE Restart
    BY <2>2 DEF Restart, Proxy!Restart
  <2>3. ASSUME NEW r \in Requests, ProxyAlone(r) PROVE cached' = cached /\ first' = first
    BY <2>3 DEF ProxyAlone, developerVars, Proxy!cacheVars, Proxy!Authorise, Proxy!BodyLost,
       Proxy!BodyTooLarge, Proxy!CaptureFails, Proxy!PostWithCached, Proxy!SignInFails, Proxy!PostFails,
       Proxy!RelayChunk, Proxy!RelayBreaks, Proxy!RelayEnds
  <2>4. ASSUME NEW r \in Requests, Headers(r) PROVE cached' = cached /\ first' = first
    BY <2>4 DEF Headers, developerVars, Proxy!Headers, Proxy!Invalidate
  <2> QED  BY <2>1, <2>2, <2>3, <2>4 DEF Next
<1> QED  BY <1>2, <1>3, <1>4

LEMMA TokenNext ==
  ASSUME PP!TypeOK, OwnType, TokenInv, [Next]_vars
  PROVE  TokenInv'
<1>1. /\ now' \in Nat /\ now \in Nat /\ now <= now'
      /\ Len(issued) \in Nat /\ Len(logins) \in Nat
      /\ \A g \in 1 .. Len(issued) : issued[g].at \in Nat
      /\ \A i \in 1 .. Len(logins) : logins[i].at \in Nat
  BY TimesType, ClockMoves
<1>2. ASSUME NEW i \in 1 .. Len(logins') PROVE logins'[i].at <= now'
  <2>1. CASE UNCHANGED logins
    BY <1>1, <2>1 DEF TokenInv
  <2>2. CASE SwitchAccount
    <3>1. i \in 1 .. Len(logins) \/ i = Len(logins) + 1
      BY <1>1, <2>2, SwitchAdds
    <3> QED  BY <1>1, <2>2, <3>1, SwitchAdds DEF TokenInv
  <2>3. UNCHANGED logins \/ SwitchAccount
    BY DEF Next, Tick, Restart, WindowRollsOver, ProxyAlone, SignIn, Headers, Arrive, Serve,
       vars, developerVars
  <2> QED  BY <2>1, <2>2, <2>3
<1>3. ASSUME NEW g \in 1 .. Len(issued')
      PROVE  /\ issued'[g].at <= now'
             /\ \E life \in Lifetimes : issued'[g].expires = issued'[g].at + life
  <2>1. CASE g \in 1 .. Len(issued)
    BY <1>1, <2>1, TokensStay DEF TokenInv
  <2>2. CASE g \notin 1 .. Len(issued)
    <3>1. PICK r \in Requests : SignIn(r)
      <4>1. issued' # issued
        BY <2>2
      <4> QED  BY <4>1, IssuedSame DEF Next, Tick, Proxy!Tick, Proxy!cacheVars, Restart,
               Proxy!Restart, SwitchAccount, WindowRollsOver, Arrive, Serve, vars, proxyVars
    <3>2. g = Len(issued) + 1
      BY <1>1, <2>2, <3>1, SignInAdds
    <3> QED  BY <1>1, <3>1, <3>2, SignInAdds
  <2> QED  BY <2>1, <2>2
<1> QED  BY <1>2, <1>3, CachedNext DEF TokenInv

(* The calls: what a posted call was posted with.                          *)
LEMMA PostNext ==
  ASSUME PP!TypeOK, PP!ProxyInv, OwnType, TokenInv, [Next]_vars,
         NEW q \in Requests, PostInv(q)
  PROVE  PostInv(q)'
<1>1. SUFFICES ASSUME posts'[q] > 0 PROVE PostInv(q)'
  BY DEF PostInv
<1>2. CASE Stays(q)
  <2>1. posts[q] > 0
    BY <1>1, <1>2 DEF Stays
  <2>2. sent[q] \in 1 .. Len(issued) /\ since[q] \in Nat \ {0}
    <3>1. since[q] \in 1 .. first /\ first \in Nat
      BY SomebodySignedIn DEF OwnType
    <3> QED  BY <2>1, <3>1, SentHeld
  <2>3. Bearer(sent[q], since[q])' /\ issued'[sent[q]] = issued[sent[q]]
    <3>1. Bearer(sent[q], since[q])
      BY <2>1 DEF PostInv
    <3>2. sent'[q] = sent[q] /\ since'[q] = since[q]
      BY <1>2 DEF Stays
    <3>3. ASSUME NEW g \in 1 .. Len(issued), NEW oldest \in Nat \ {0},
                 g = sent[q], oldest = since[q]
          PROVE  Bearer(sent[q], since[q])'
      <4>1. Bearer(g, oldest)
        BY <3>1, <3>3 DEF Bearer
      <4>2. Bearer(g, oldest)'
        BY <4>1, BearerStays
      <4> QED  BY <3>2, <3>3, <4>2 DEF Bearer
    <3>4. Bearer(sent[q], since[q])'
      BY <2>2, <3>3
    <3> QED  BY <2>2, <3>4, TokensStay
  <2> QED  BY <1>2, <2>1, <2>3 DEF PostInv, Stays
<1>3. CASE IsPosted(q) /\ WithCached(q)
  <2>1. cached \in 1 .. Len(issued) /\ Len(issued) \in Nat
    BY <1>3, TimesType DEF WithCached, PP!TypeOK
  <2>2. PICK life \in Lifetimes : issued[cached].expires = issued[cached].at + life
    BY <2>1 DEF TokenInv
  <2>3. /\ issued[cached].at \in Nat /\ now \in Nat /\ issued[cached].at <= now
        /\ life \in Nat /\ life - Skew <= Span /\ Span \in Nat /\ Skew \in Nat
    BY <2>1, TimesType, SpanCovers, ProxyConstants DEF TokenInv
  <2>4. issued[cached].at >= now - Span
    BY <1>3, <2>2, <2>3 DEF WithCached
  <2>5. Bearer(cached, first)
    BY <1>3 DEF WithCached, TokenInv
  <2>6. Bearer(sent[q], since[q])'
    <3>1. UNCHANGED <<logins, issued, holder>>
      <4>1. ~SwitchAccount
        BY <1>3 DEF IsPosted, SwitchAccount, proxyVars
      <4> QED  BY <1>3, <4>1 DEF WithCached, Next, Tick, Restart, WindowRollsOver, ProxyAlone,
               SignIn, Headers, Arrive, Serve, vars, developerVars
    <3> QED  BY <1>3, <2>5, <3>1 DEF IsPosted, WithCached, Bearer
  <2> QED  BY <1>3, <2>3, <2>4, <2>6 DEF IsPosted, WithCached, PostInv
<1>4. CASE IsPosted(q) /\ SignIn(q) /\ sent'[q] = cached'
  <2>1. issued'[sent'[q]].at = now /\ cached' # 0
    BY <1>4, SignInAdds
  <2>2. Bearer(cached, first)'
    BY <2>1, CachedNext
  <2>3. Bearer(sent[q], since[q])'
    <3>1. first' = first
      BY <1>4 DEF SignIn
    <3> QED  BY <1>4, <2>2, <3>1 DEF IsPosted, Bearer
  <2>4. now \in Nat /\ Span \in Nat
    BY TimesType, SpanCovers
  <2> QED  BY <1>4, <2>1, <2>3, <2>4 DEF IsPosted, PostInv
<1>5. Stays(q) \/ IsPosted(q)
  BY CallsStay DEF Idles, Breaks, ProxyAnswers, Hears, Ends
<1> QED  BY <1>2, <1>3, <1>4, <1>5 DEF IsPosted

(* What the gateway has of a call is what was posted.                      *)
LEMMA ArrivalNext ==
  ASSUME PP!TypeOK, PP!ProxyInv, OwnType, GatewayInv, GatewayInv', [Next]_vars,
         NEW q \in Requests, ArrivalInv(q)
  PROVE  ArrivalInv(q)'
<1>1. (q \notin arrived => stage[q] = "global")'
  BY DEF GatewayInv, ServedInv
<1>2. SUFFICES ASSUME q \in arrived'
               PROVE  /\ posts'[q] > 0
                      /\ message'[q].token.oid = holder'[sent'[q]]
                      /\ ~message'[q].token.valid /\ holder'[sent'[q]] # None =>
                            issued'[sent'[q]].expires <= now'
  BY <1>1 DEF ArrivalInv
<1>3. now' \in Nat /\ now \in Nat /\ now <= now'
  BY ClockMoves
<1>4. CASE q \in arrived /\ message'[q] = message[q]
  <2>1. posts[q] > 0 /\ Stays(q)
    <3>1. posts[q] > 0
      BY <1>4 DEF ArrivalInv
    <3> QED  BY <3>1, CallsStay DEF Idles, Breaks, ProxyAnswers, Hears, Ends, IsPosted
  <2>2. /\ sent[q] \in 1 .. Len(issued)
        /\ issued'[sent[q]] = issued[sent[q]] /\ holder'[sent[q]] = holder[sent[q]]
        /\ issued[sent[q]].expires \in Nat
    BY <2>1, SentHeld, TokensStay, TimesType
  <2> QED  BY <1>3, <1>4, <2>1, <2>2 DEF ArrivalInv, Stays
<1>5. CASE Arrive(q)
  <2>1. posts[q] > 0 /\ UNCHANGED <<posts, sent, issued, holder, now>>
    BY <1>5 DEF Arrive, proxyVars, developerVars
  <2>2. issued[sent[q]].expires \in Nat
    BY <2>1, SentHeld, TimesType
  <2> QED  BY <1>3, <1>5, <2>1, <2>2, ArriveFills
<1>6. (q \in arrived /\ message'[q] = message[q]) \/ Arrive(q)
  <2>1. CASE UNCHANGED <<arrived, message>>
    BY <1>2, <2>1
  <2>2. ASSUME NEW r \in Requests, r # q, Arrive(r) PROVE q \in arrived /\ message'[q] = message[q]
    BY <1>2, <2>2, ArriveFills DEF Arrive
  <2>3. ASSUME NEW r \in Requests, Serve(r) PROVE UNCHANGED <<arrived, message>>
    BY <2>3, GatewayServes, GP!ServeMoves, GatewayConstants DEF Serve, GatewayInv
  <2>4. CASE Tick \/ Restart \/ SwitchAccount \/ WindowRollsOver \/ UNCHANGED vars
             \/ \E r \in Requests : ProxyAlone(r) \/ SignIn(r) \/ Headers(r)
    BY <2>1, <2>4 DEF Tick, Restart, SwitchAccount, WindowRollsOver, Gateway!WindowRollsOver,
       ProxyAlone, SignIn, Headers, vars, gatewayVars
  <2> QED  BY <2>1, <2>2, <2>3, <2>4 DEF Next
<1> QED  BY <1>4, <1>5, <1>6

(* What the IDE was told stays what it was told, and so does the reply.    *)
LEMMA ReplyStays ==
  ASSUME GatewayInv, [Next]_vars, NEW q \in Requests, reply[q] # None
  PROVE  reply'[q] = reply[q] /\ calls'[q] = calls[q]
<1>1. GP!TypeOK /\ GP!RequestInv(q)
  BY DEF GatewayInv, ServedInv
<1>2. ASSUME NEW r \in Requests, Serve(r) PROVE reply'[q] = reply[q] /\ calls'[q] = calls[q]
  BY <1>1, <1>2, GatewayServes, GP!AnswerKept, GatewayConstants DEF Serve
<1>3. CASE Tick \/ Restart \/ SwitchAccount \/ WindowRollsOver \/ UNCHANGED vars
           \/ \E r \in Requests : ProxyAlone(r) \/ SignIn(r) \/ Headers(r) \/ Arrive(r)
  BY <1>3 DEF Tick, Restart, SwitchAccount, WindowRollsOver, Gateway!WindowRollsOver,
     Gateway!requestVars, ProxyAlone, SignIn, Headers, Arrive, vars, gatewayVars
<1> QED  BY <1>2, <1>3 DEF Next

LEMMA ToldNext ==
  ASSUME PP!TypeOK, PP!ProxyInv, OwnType, GatewayInv, [Next]_vars,
         NEW q \in Requests, ToldInv(q)
  PROVE  ToldInv(q)'
<1>1. posts[q] \in Nat
  BY DEF PP!TypeOK
<1>2. reply[q] # None => reply'[q] # None
  BY ReplyStays
<1>3. CASE Idles(q) \/ Breaks(q) \/ Ends(q)
  BY <1>2, <1>3 DEF Idles, Breaks, Ends, Stays, ToldInv
<1>4. CASE IsPosted(q)
  BY <1>4 DEF IsPosted, ToldInv
<1>5. CASE ProxyAnswers(q)
  BY <1>1, <1>5 DEF ProxyAnswers, Stays, ToldInv
<1>6. CASE Hears(q)
  BY <1>2, <1>6 DEF Hears, ToldInv
<1> QED  BY <1>3, <1>4, <1>5, <1>6, CallsStay

(* The parts together. *)
LEMMA PathInit == Init => PathInv
<1> SUFFICES ASSUME Init PROVE PathInv
  OBVIOUS
<1>1. TokenInv
  BY TokenInit
<1>2. ASSUME NEW r \in Requests PROVE ArrivalInv(r) /\ ToldInv(r) /\ PostInv(r)
  <2>1. arrived = {} /\ stage[r] = "global"
    BY DEF Init, Gateway!Init
  <2>2. posts[r] = 0 /\ told[r] = None /\ outcome[r] = "open"
    BY DEF Init, Proxy!Init
  <2> QED  BY <2>1, <2>2 DEF ArrivalInv, ToldInv, PostInv
<1> QED  BY <1>1, <1>2 DEF PathInv

LEMMA PathNext ==
  ASSUME PP!TypeOK, PP!ProxyInv, OwnType, GatewayInv, GatewayInv', PathInv, [Next]_vars
  PROVE  PathInv'
<1>1. TokenInv'
  BY TokenNext DEF PathInv
<1>2. ASSUME NEW q \in Requests PROVE (ArrivalInv(q) /\ ToldInv(q) /\ PostInv(q))'
  <2>1. TokenInv /\ ArrivalInv(q) /\ ToldInv(q) /\ PostInv(q)
    BY DEF PathInv
  <2> QED  BY <2>1, ArrivalNext, ToldNext, PostNext
<1> QED  BY <1>1, <1>2 DEF PathInv

(* What the gateway has is what was posted, what the IDE was told came     *)
(* from it or from the proxy, and every token has its bearer.              *)
THEOREM PathCorrect == Spec => []PathInv
<1> QED  BY PathInit, PathNext, ProxyPart, OwnTypes, GatewayPart, PTL DEF Spec

-----------------------------------------------------------------------------
(* A call the gateway has answered was posted, and arrived. *)
LEMMA RepliedArrived ==
  ASSUME GatewayInv, PathInv, NEW r \in Requests, reply[r] # None \/ calls[r] # <<>>
  PROVE  r \in arrived /\ posts[r] > 0 /\ message[r].token.oid = holder[sent[r]]
<1>1. ServedInv(r) /\ ArrivalInv(r)
  BY DEF GatewayInv, PathInv
<1>2. stage[r] # "global"
  BY <1>1 DEF ServedInv, GP!RequestInv, GP!AnswerInv, GP!ForwardInv
<1> QED  BY <1>1, <1>2 DEF ArrivalInv

(* Who bears the token of a posted call was signed in as KnownAs demands.  *)
LEMMA BearerKnown ==
  ASSUME PP!TypeOK, PP!ProxyInv, OwnType, PathInv, NEW r \in Requests,
         posts[r] > 0, holder[sent[r]] # None
  PROVE  KnownAs(holder[sent[r]], r)
<1>1. /\ Bearer(sent[r], since[r])
      /\ issued[sent[r]].at <= started[r] /\ issued[sent[r]].at >= started[r] - Span
  BY DEF PathInv, PostInv
<1>2. PICK i \in since[r] .. Len(logins) :
             /\ logins[i].oid = holder[sent[r]] /\ logins[i].at <= issued[sent[r]].at
             /\ i < Len(logins) => logins[i + 1].at >= issued[sent[r]].at
  BY <1>1 DEF Bearer
<1>3. /\ issued[sent[r]].at \in Nat /\ started[r] \in Nat /\ Span \in Nat
      /\ since[r] \in Nat \ {0} /\ Len(logins) \in Nat
  <2>1. since[r] \in 1 .. first
    BY DEF OwnType
  <2> QED  BY <2>1, SentHeld, TimesType, SpanCovers, SomebodySignedIn DEF OwnType
<1>4. i \in 1 .. Len(logins) /\ logins[i].at \in Nat
  BY <1>3, TimesType
<1>5. i < Len(logins) => logins[i + 1].at \in Nat
  BY <1>3, <1>4, TimesType
<1>6. logins[i].at <= started[r]
  BY <1>1, <1>2, <1>3, <1>4
<1>7. i < Len(logins) => logins[i + 1].at >= started[r] - Span
  BY <1>1, <1>2, <1>3, <1>5
<1> QED  BY <1>2, <1>6, <1>7 DEF KnownAs

(* The model, the quota and the record know a call as somebody who was     *)
(* signed in when it was posted, or no longer before than a token lasts    *)
(* less the skew, and under the proxy's own run.                           *)
THEOREM KnownAsSignedIn == Spec => []RunsAsSignedIn
<1>1. PP!TypeOK /\ PP!ProxyInv /\ OwnType /\ GatewayInv /\ PathInv => RunsAsSignedIn
  <2> SUFFICES ASSUME PP!TypeOK, PP!ProxyInv, OwnType, GatewayInv, PathInv, NEW r \in Requests
               PROVE  /\ calls[r] # <<>> => KnownAs(ctx[r].oid, r)
                      /\ \A i \in DOMAIN telemetry[r] :
                           telemetry[r][i].oid # None => KnownAs(telemetry[r][i].oid, r)
    BY DEF RunsAsSignedIn
  <2>1. ServedInv(r) /\ GP!TypeOK
    BY DEF GatewayInv
  <2>2. ASSUME calls[r] # <<>> PROVE KnownAs(ctx[r].oid, r)
    <3>1. ctx[r].oid = message[r].token.oid /\ message[r].token.oid # None
      BY <2>1, <2>2 DEF ServedInv, GP!ForwardedAsHuman, GP!RequestInv, GP!ForwardInv,
         GP!Fulfilled, GP!CallerEntitled
    <3> QED  BY <2>2, <3>1, RepliedArrived, BearerKnown
  <2>3. ASSUME NEW i \in DOMAIN telemetry[r], telemetry[r][i].oid # None
        PROVE  KnownAs(telemetry[r][i].oid, r)
    <3>1. telemetry[r] \in Seq(GP!Record) /\ GP!AnswerInv(r)
      BY <2>1 DEF GP!TypeOK, ServedInv, GP!RequestInv
    <3>2. reply[r] # None /\ i = 1
      BY <2>3, <3>1 DEF GP!AnswerInv
    <3>3. telemetry[r][i].oid = message[r].token.oid
      BY <2>1, <2>3, <3>2 DEF ServedInv, GP!Truthful, GP!RecordAttribution
    <3> QED  BY <2>3, <3>2, <3>3, RepliedArrived, BearerKnown
  <2> QED  BY <2>2, <2>3
<1> QED  BY <1>1, ProxyPart, OwnTypes, GatewayPart, PathCorrect, PTL

-----------------------------------------------------------------------------
(* The skew of TokenProvider.get covers the way to the gateway's own check *)
(* of the token: no call of a developer whose token is good is told        *)
(* invalid_token while it is waited for.                                   *)
ServedOnTime(r) ==
  told[r] # None /\ told[r].from = "gateway" /\ reply[r].code = "invalid_token" =>
    holder[sent[r]] = None

LEMMA OnTimeNext ==
  ASSUME PP!TypeOK, PP!ProxyInv, OwnType, GatewayInv, PathInv, [Next]_vars,
         Timeout <= Skew, \A life \in Lifetimes : life > Timeout, PP!ValidWhileWaiting,
         NEW q \in Requests, ServedOnTime(q)
  PROVE  ServedOnTime(q)'
<1>1. SUFFICES ASSUME told'[q] # None, told'[q].from = "gateway",
                      reply'[q].code = "invalid_token"
               PROVE  holder'[sent'[q]] = None
  BY DEF ServedOnTime
<1>2. reply[q] # None /\ Stays(q)
  BY <1>1, CallsStay DEF Idles, Breaks, IsPosted, ProxyAnswers, Hears, Ends, PathInv, ToldInv,
     Stays
<1>3. reply'[q] = reply[q] /\ posts[q] > 0 /\ q \in arrived
  BY <1>2, ReplyStays, RepliedArrived
<1>4. sent'[q] = sent[q] /\ holder'[sent[q]] = holder[sent[q]]
  BY <1>2, <1>3, SentHeld, TokensStay DEF Stays
<1>5. CASE Hears(q)
  <2>1. now < issued[sent[q]].expires
    BY <1>5 DEF Hears, PP!ValidWhileWaiting
  <2>2. ~message[q].token.valid
    BY <1>1, <1>2, <1>3 DEF GatewayInv, ServedInv, GP!Telling
  <2>3. issued[sent[q]].expires \in Nat /\ now \in Nat
    BY <1>3, SentHeld, TimesType
  <2> QED  BY <1>3, <1>4, <2>1, <2>2, <2>3 DEF PathInv, ArrivalInv
<1>6. CASE Idles(q) \/ Breaks(q) \/ Ends(q)
  BY <1>1, <1>3, <1>4, <1>6 DEF Idles, Breaks, Ends, ServedOnTime
<1> QED  BY <1>1, <1>5, <1>6, CallsStay DEF IsPosted, ProxyAnswers

THEOREM SignedInServed == Spec => []SignedInIsServed
<1> DEFINE Covered == Timeout <= Skew /\ \A life \in Lifetimes : life > Timeout
           OnTime == Covered => \A r \in Requests : ServedOnTime(r)
<1>1. Init => OnTime
  BY DEF Init, Proxy!Init, ServedOnTime
<1>2. PP!TypeOK /\ PP!ProxyInv /\ OwnType /\ GatewayInv /\ PathInv /\ PP!ValidWhileWaiting
        /\ OnTime /\ [Next]_vars => OnTime'
  BY OnTimeNext
<1>3. Spec => []PP!ValidWhileWaiting
  <2>1. Spec => PP!Spec
    BY ProxyInit, ProxyStep, PTL DEF Spec, PP!Spec
  <2>2. PP!Spec => []PP!ValidWhileWaiting
    BY PP!NoExpiryWhileWaiting, ProxyConstants
  <2> QED  BY <2>1, <2>2, PTL
<1>4. OnTime => SignedInIsServed
  BY DEF SignedInIsServed, ServedOnTime
<1> HIDE DEF OnTime
<1> QED  BY <1>1, <1>2, <1>3, <1>4, ProxyPart, OwnTypes, GatewayPart, PathCorrect, PTL DEF Spec

-----------------------------------------------------------------------------
(* The path implements CallPromise. *)

(* A call that nothing happens to keeps its verdict: the gateway's code    *)
(* enters it only once the reply is there.                                 *)
LEMMA VerdictStays ==
  ASSUME PP!TypeOK, GatewayInv, PathInv, [Next]_vars, NEW q \in Requests, Idles(q)
  PROVE  Verdict(q)' = Verdict(q)
<1>1. outcome'[q] = outcome[q] /\ told'[q] = told[q]
  BY DEF Idles
<1>2. CASE reply[q] # None
  BY <1>1, <1>2, ReplyStays DEF Verdict
<1>3. CASE reply[q] = None
  <2>1. outcome[q] = "complete" => told[q].from = "proxy"
    BY <1>3 DEF PathInv, ToldInv
  <2>2. CASE outcome[q] \in {"open", "cut"}
    BY <1>1, <2>2 DEF Verdict
  <2>3. CASE outcome[q] = "complete"
    BY <1>1, <2>1, <2>3 DEF Verdict
  <2> QED  BY <2>2, <2>3 DEF PP!TypeOK
<1> QED  BY <1>2, <1>3

(* One call returns, and nothing else happens.                             *)
LEMMA OneReturns ==
  ASSUME NEW r \in Requests, NEW v, Verdict(r) = "nothing", Verdict(r)' = v, calls' = calls,
         \A q \in Requests : q # r => Verdict(q)' = Verdict(q)
  PROVE  Promise!Return(r, v)
BY DEF Promise!Return

LEMMA ServePromise ==
  ASSUME PP!TypeOK, GatewayInv, PathInv, [Next]_vars, NEW r \in Requests, Serve(r)
  PROVE  [Promise!Next]_(Promise!vars)
<1>1. \A q \in Requests : Verdict(q)' = Verdict(q)
  <2>1. \A q \in Requests : Idles(q)
    BY DEF Serve, proxyVars, Idles, Stays
  <2> QED  BY <2>1, VerdictStays
<1>2. GP!TypeOK /\ ServedInv(r) /\ ArrivalInv(r) /\ ToldInv(r) /\ GP!Serve(r) /\ r \in arrived
  BY GatewayServes DEF Serve, GatewayInv, PathInv
<1>3. \A q \in Requests : q # r => calls'[q] = calls[q]
  BY <1>2, GP!OthersUntouched, GatewayConstants DEF GP!SameRequest
<1>4. CASE calls'[r] = calls[r]
  BY <1>1, <1>3, <1>4 DEF Promise!vars
<1>5. CASE calls'[r] # calls[r]
  <2>1. stage[r] = "forward" /\ calls'[r] = Append(calls[r], outgoing[r])
    BY <1>2, <1>5, GP!ServeMoves, GatewayConstants
  <2>2. calls[r] = <<>> /\ reply[r] = None
    BY <1>2, <2>1 DEF ServedInv, GP!RequestInv, GP!ForwardInv, GP!AnswerInv
  <2>3. Len(calls[r]) = 0 /\ Len(calls'[r]) = 1
    BY <2>1, <2>2
  <2>4. Verdict(r) \in {"nothing", "unknown"}
    <3>1. told[r] # None => told[r].from = "proxy" /\ told[r].status = 502
      BY <1>2, <2>2 DEF ToldInv, ArrivalInv
    <3>2. outcome[r] \in {"open", "cut"} \/ told[r] # None
      BY <1>2 DEF PP!TypeOK, ToldInv
    <3> QED  BY <3>1, <3>2 DEF Verdict
  <2>5. Promise!Run(r)
    BY <1>1, <1>3, <2>3, <2>4 DEF Promise!Run
  <2> QED  BY <2>5 DEF Promise!Next
<1> QED  BY <1>4, <1>5

LEMMA HandlerPromise ==
  ASSUME PP!TypeOK, PP!ProxyInv, OwnType, GatewayInv, PathInv, [Next]_vars,
         NEW r \in Requests, ProxyAlone(r) \/ SignIn(r) \/ Headers(r)
  PROVE  [Promise!Next]_(Promise!vars)
<1>1. calls' = calls /\ reply' = reply
  BY DEF ProxyAlone, SignIn, Headers, gatewayVars
<1>2. \A q \in Requests : q # r => Verdict(q)' = Verdict(q)
  BY OthersIdle, VerdictStays
<1>3. ServedInv(r) /\ ArrivalInv(r) /\ ToldInv(r)
  BY DEF GatewayInv, PathInv
<1>4. CASE Verdict(r)' = Verdict(r)
  BY <1>1, <1>2, <1>4 DEF Promise!vars
<1>5. CASE Verdict(r) = "nothing" /\ Verdict(r)' = "unknown"
  <2>1. Promise!GiveUp(r)
    BY <1>1, <1>2, <1>5, OneReturns DEF Promise!GiveUp
  <2> QED  BY <2>1 DEF Promise!Next
<1>6. CASE Verdict(r) = "nothing" /\ Verdict(r)' = "refused" /\ calls[r] = <<>>
  <2>1. Promise!Refuse(r)
    BY <1>1, <1>2, <1>6, OneReturns DEF Promise!Refuse
  <2> QED  BY <2>1 DEF Promise!Next
<1>7. CASE Verdict(r) = "nothing" /\ Verdict(r)' = "answered" /\ Len(calls[r]) = 1
  <2>1. Promise!Answer(r)
    BY <1>1, <1>2, <1>7, OneReturns DEF Promise!Answer
  <2> QED  BY <2>1 DEF Promise!Next
<1>8. CASE Idles(r)
  BY <1>4, <1>8, VerdictStays
<1>9. CASE IsPosted(r) \/ Hears(r)
  BY <1>4, <1>9 DEF IsPosted, Hears, Verdict
<1>10. CASE Breaks(r)
  BY <1>5, <1>10 DEF Breaks, Verdict
<1>11. CASE ProxyAnswers(r)
  <2>1. CASE told'[r].status = 502
    BY <1>5, <1>11, <2>1 DEF ProxyAnswers, Verdict
  <2>2. CASE told'[r].status # 502
    <3>1. Verdict(r) = "nothing" /\ Verdict(r)' = "refused" /\ posts[r] = 0
      BY <1>11, <2>2 DEF ProxyAnswers, Verdict
    <3>2. calls[r] = <<>>
      BY <3>1, RepliedArrived
    <3> QED  BY <1>6, <3>1, <3>2
  <2> QED  BY <2>1, <2>2
<1>12. CASE Ends(r)
  <2>1. reply[r] # None /\ reply'[r] = reply[r]
    BY <1>1, <1>3, <1>12 DEF Ends, ToldInv
  <2>2. /\ Verdict(r) = "nothing"
        /\ Verdict(r)' = IF reply[r].code = None THEN "answered"
                         ELSE IF reply[r].code \in BackendTrouble THEN "unknown" ELSE "refused"
    BY <1>12, <2>1 DEF Ends, Verdict
  <2>3. CASE reply[r].code = None
    <3>1. Len(calls[r]) = 1
      BY <1>3, <2>1, <2>3 DEF ServedInv, GP!Telling, GP!RequestInv, GP!ForwardInv
    <3> QED  BY <1>7, <2>2, <2>3, <3>1
  <2>4. CASE reply[r].code # None /\ reply[r].code \in BackendTrouble
    BY <1>5, <2>2, <2>4
  <2>5. CASE reply[r].code # None /\ reply[r].code \notin BackendTrouble
    <3>1. calls[r] = <<>>
      BY <1>3, <2>1, <2>5 DEF ServedInv, GP!Telling, BackendTrouble
    <3> QED  BY <1>6, <2>2, <2>5, <3>1
  <2> QED  BY <2>3, <2>4, <2>5
<1> QED  BY <1>8, <1>9, <1>10, <1>11, <1>12, HandlerMoves

LEMMA RestartPromise ==
  ASSUME PP!TypeOK, GatewayInv, PathInv, [Next]_vars, Restart
  PROVE  [Promise!Next]_(Promise!vars)
<1> DEFINE S == {q \in Requests : outcome[q] = "open" /\ outcome'[q] = "cut"}
<1>1. calls' = calls /\ UNCHANGED <<posts, sent, started, told, since>>
  BY DEF Restart, Proxy!Restart, gatewayVars
<1>2. ASSUME NEW q \in Requests \ S PROVE Verdict(q)' = Verdict(q)
  <2>1. outcome'[q] = outcome[q]
    BY <1>2 DEF Restart, Proxy!Restart
  <2> QED  BY <1>1, <2>1, VerdictStays DEF Idles, Stays
<1>3. \A q \in S : Verdict(q) = "nothing" /\ Verdict(q)' = "unknown"
  BY DEF Verdict
<1>4. S \in SUBSET Requests
  OBVIOUS
<1> HIDE DEF S
<1>5. Promise!GiveUpAll(S)
  BY <1>1, <1>2, <1>3, <1>4 DEF Promise!GiveUpAll
<1> QED  BY <1>4, <1>5 DEF Promise!Next

(* Proxy, network and gateway together keep the promise a retry rests on:  *)
(* a call the IDE sees refused never reaches the model, not even later, an *)
(* answered one reached it exactly once, and none reaches it twice.        *)
THEOREM PathKeepsPromise == Spec => KeepsPromise
<1>1. Init => Promise!Init
  <2> SUFFICES ASSUME Init PROVE Promise!Init
    OBVIOUS
  <2>1. outcome = [r \in Requests |-> "open"] /\ calls = [r \in Requests |-> <<>>]
    BY DEF Init, Proxy!Init, Gateway!Init
  <2> QED  BY <2>1 DEF Promise!Init, Verdict
<1>2. PP!TypeOK /\ PP!ProxyInv /\ OwnType /\ GatewayInv /\ PathInv /\ [Next]_vars
        => [Promise!Next]_(Promise!vars)
  <2> SUFFICES ASSUME PP!TypeOK, PP!ProxyInv, OwnType, GatewayInv, PathInv, [Next]_vars
               PROVE  [Promise!Next]_(Promise!vars)
    OBVIOUS
  <2>1. ASSUME NEW r \in Requests, Serve(r) PROVE [Promise!Next]_(Promise!vars)
    BY <2>1, ServePromise
  <2>2. ASSUME NEW r \in Requests, ProxyAlone(r) \/ SignIn(r) \/ Headers(r)
        PROVE  [Promise!Next]_(Promise!vars)
    BY <2>2, HandlerPromise
  <2>3. CASE Restart
    BY <2>3, RestartPromise
  <2>4. CASE Tick \/ SwitchAccount \/ WindowRollsOver \/ UNCHANGED vars
             \/ \E r \in Requests : Arrive(r)
    <3>1. calls' = calls
      BY <2>4 DEF Tick, SwitchAccount, WindowRollsOver, Gateway!WindowRollsOver,
         Gateway!requestVars, Arrive, vars, gatewayVars
    <3>2. \A q \in Requests : Idles(q)
      BY <2>4 DEF Tick, Proxy!Tick, Proxy!callVars, SwitchAccount, WindowRollsOver, Arrive,
         vars, proxyVars, Idles, Stays
    <3>3. \A q \in Requests : Verdict(q)' = Verdict(q)
      BY <3>2, VerdictStays
    <3> QED  BY <3>1, <3>3 DEF Promise!vars
  <2> QED  BY <2>1, <2>2, <2>3, <2>4 DEF Next
<1> QED  BY <1>1, <1>2, ProxyPart, OwnTypes, GatewayPart, PathCorrect, PTL
         DEF Spec, KeepsPromise, Promise!Spec
=============================================================================
