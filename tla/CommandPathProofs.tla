-------------------------- MODULE CommandPathProofs --------------------------
(***************************************************************************)
(* Theorems of CommandPath, for any number of runs, any stream and any     *)
(* policy settings: what GatewayProofs proves of the gateway is carried    *)
(* over, since every step of the path is a step of the gateway's or leaves *)
(* it alone but for what an arriving POST brings.                          *)
(***************************************************************************)
EXTENDS CommandPath, SequenceTheorems, FiniteSetTheorems, TLAPS

GP == INSTANCE GatewayProofs WITH pc <- stage, answer <- reply

-----------------------------------------------------------------------------
(* The gateway's part. *)
LEMMA GatewayServes ==
  ASSUME NEW r \in Requests, Gateway!Serve(r)
  PROVE  GP!Serve(r)
<1> USE DEF GP!Serve, Gateway!NoGovernance, GP!NoGovernance,
            Gateway!governanceVars, GP!governanceVars, Gateway!Trace, GP!Trace,
            Gateway!Respond, GP!Respond, Gateway!Reject, GP!Reject,
            Gateway!OnError, GP!OnError, Gateway!Proceed, GP!Proceed,
            Gateway!FailureCategory, GP!FailureCategory, Gateway!StatusOf, GP!StatusOf,
            Gateway!NoResponse, GP!NoResponse, Gateway!GatewayFailure, GP!GatewayFailure
<1>1. CASE Gateway!Global(r)
  BY <1>1 DEF Gateway!Global, GP!Global, Gateway!CorrelationId, GP!CorrelationId
<1>2. CASE Gateway!SecurityHeaders(r)
  BY <1>2 DEF Gateway!SecurityHeaders, GP!SecurityHeaders
<1>3. CASE Gateway!Authenticate(r)
  BY <1>3 DEF Gateway!Authenticate, GP!Authenticate, Gateway!RefuseToken, GP!RefuseToken,
     Gateway!RefuseScope, GP!RefuseScope, Gateway!RefuseIdentity, GP!RefuseIdentity,
     Gateway!RefuseClient, GP!RefuseClient, Gateway!AcceptCaller, GP!AcceptCaller,
     Gateway!HasRequiredScope, GP!HasRequiredScope, Gateway!IsDelegatedHuman,
     GP!IsDelegatedHuman, Gateway!ClientApp, GP!ClientApp, Gateway!ClientAppAllowed,
     GP!ClientAppAllowed, Gateway!Claims, GP!Claims, Gateway!CallerClaims, GP!CallerClaims
<1>4. CASE Gateway!ValidateRequest(r)
  BY <1>4 DEF Gateway!ValidateRequest, GP!ValidateRequest, Gateway!RefuseMediaType,
     GP!RefuseMediaType, Gateway!RefuseUnreadable, GP!RefuseUnreadable, Gateway!RefuseModel,
     GP!RefuseModel, Gateway!RefuseTools, GP!RefuseTools, Gateway!RefuseStore, GP!RefuseStore,
     Gateway!RewriteBody, GP!RewriteBody, Gateway!WellFormed, GP!WellFormed,
     Gateway!ModelApproved, GP!ModelApproved, Gateway!ToolsPermitted, GP!ToolsPermitted,
     Gateway!StoreViolation, GP!StoreViolation
<1>5. CASE Gateway!ValidateContent(r)
  BY <1>5 DEF Gateway!ValidateContent, GP!ValidateContent, Gateway!SchemaAccepts,
     GP!SchemaAccepts
<1>6. CASE Gateway!Govern(r)
  BY <1>6 DEF Gateway!Govern, GP!Govern, Gateway!QuotaKey, GP!QuotaKey,
     Gateway!WithinRate, GP!WithinRate, Gateway!WithinMinute, GP!WithinMinute,
     Gateway!WithinDay, GP!WithinDay, Gateway!CountCall, GP!CountCall
<1>7. CASE Gateway!BackendAuth(r)
  BY <1>7 DEF Gateway!BackendAuth, GP!BackendAuth
<1>8. CASE Gateway!Forward(r)
  BY <1>8 DEF Gateway!Forward, GP!Forward
<1>9. CASE Gateway!Outbound(r)
  BY <1>9 DEF Gateway!Outbound, GP!Outbound
<1>10. CASE Gateway!ForwardFails(r)
  BY <1>10 DEF Gateway!ForwardFails, GP!ForwardFails
<1>11. CASE Gateway!Finish(r)
  BY <1>11 DEF Gateway!Finish, GP!Finish, Gateway!ChargeTokens, GP!ChargeTokens,
     Gateway!QuotaKey, GP!QuotaKey
<1> QED  BY <1>1, <1>2, <1>3, <1>4, <1>5, <1>6, <1>7, <1>8, <1>9, <1>10, <1>11
         DEF Gateway!Serve

(* What Gateway and TokenGovernance assume of their constants.             *)
LEMMA GatewayConstants ==
  /\ Messages \subseteq GP!Message
  /\ Keys = Tids \X Oids
  /\ None \notin Tids \cup Oids \cup Scopes \cup Apps \cup GP!Code
               \cup GP!Correlation \cup GP!Answer
  /\ Brokered \in BOOLEAN
  /\ RequiredScope \in Scopes \cup {None} /\ AllowedApps \subseteq Apps
  /\ BackendStatuses \subseteq Nat
  /\ GP!IsFiniteSet(Nodes)
  /\ Calls \in Nat \ {0} /\ TokensPerMinute \in Nat \ {0} /\ DailyQuota \in Nat \ {0}
  /\ MaxCost \in Nat
<1>1. GP!Message = Gateway!Message
  BY DEF GP!Message, GP!HeaderGroup, GP!Token, GP!Body,
         Gateway!Message, Gateway!HeaderGroup, Gateway!Token, Gateway!Body
<1>2. GP!Code = Gateway!Code /\ GP!Correlation = Gateway!Correlation
  BY DEF GP!Code, Gateway!Code, GP!Correlation, Gateway!Correlation
<1>3. GP!Answer = Gateway!Answer
  BY <1>2 DEF GP!Answer, Gateway!Answer
<1>4. GP!IsFiniteSet(Nodes)
  BY CommandAssumption DEF IsFiniteSet, GP!IsFiniteSet
<1> QED  BY <1>1, <1>2, <1>3, <1>4, CommandAssumption DEF Shown

-----------------------------------------------------------------------------
(* The types of the path's own variables. *)
Post == [run: Runs, stream: BOOLEAN]

OwnType ==
  /\ at \in {"prompt", "response", "event", "ended"}
  /\ streaming \in BOOLEAN /\ posts \in Nat
  /\ run \in Runs
  /\ sent \in Seq(Post) /\ Len(sent) <= MaxRuns
  /\ arrived \subseteq DOMAIN sent
  /\ shown \in [Runs -> Shown \cup {None}]

LEMMA SentIs ==
  ASSUME OwnType
  PROVE  /\ Len(sent) \in Nat /\ DOMAIN sent = 1 .. Len(sent)
         /\ DOMAIN sent \subseteq Requests
         /\ \A n \in DOMAIN sent : sent[n] \in Post /\ sent[n].run \in Runs
<1>1. Len(sent) \in Nat /\ DOMAIN sent = 1 .. Len(sent) /\ MaxRuns \in Nat
  BY CommandAssumption DEF OwnType
<1>2. \A n \in DOMAIN sent : sent[n] \in Post
  BY <1>1, ElementOfSeq DEF OwnType
<1> QED  BY <1>1, <1>2 DEF OwnType, Requests, Post

LEMMA OneMore ==
  ASSUME NEW S, NEW s \in Seq(S), NEW t \in Seq(S), Len(t) = 1
  PROVE  /\ s \o t \in Seq(S) /\ Len(s \o t) = Len(s) + 1
         /\ \A n \in 1 .. Len(s) : (s \o t)[n] = s[n]
         /\ (s \o t)[Len(s) + 1] = t[1]
<1>1. /\ s \o t \in Seq(S) /\ Len(s \o t) = Len(s) + Len(t)
      /\ \A i \in 1 .. Len(s) + Len(t) :
           (s \o t)[i] = IF i <= Len(s) THEN s[i] ELSE t[i - Len(s)]
  BY ConcatProperties, Zenon
<1>2. Len(s) \in Nat
  BY LenProperties
<1>3. Len(s) + 1 - Len(s) = 1 /\ Len(s) + 1 \in 1 .. Len(s) + 1 /\ ~(Len(s) + 1 <= Len(s))
  BY <1>2
<1>4. (s \o t)[Len(s) + 1] = t[1]
  BY <1>1, <1>3
<1>5. \A n \in 1 .. Len(s) : n \in 1 .. Len(s) + 1 /\ n <= Len(s)
  BY <1>2
<1> QED  BY <1>1, <1>4, <1>5

(* A run posts once: the SDK's retries are off. *)
LEMMA SendAdds ==
  ASSUME OwnType, Send
  PROVE  /\ sent' \in Seq(Post) /\ Len(sent') = Len(sent) + 1
         /\ DOMAIN sent' = 1 .. Len(sent) + 1
         /\ \A n \in DOMAIN sent : sent'[n] = sent[n]
         /\ sent'[Len(sent) + 1].run = run
<1> DEFINE one == [i \in 1 .. 1 |-> [run |-> run, stream |-> streaming]]
<1>1. one \in Seq(Post) /\ Len(one) = 1 /\ one[1].run = run
  BY DEF OwnType, Post
<1>2. posts' - posts = 1
  BY DEF Send, Client!Post, OwnType
<1>3. sent' = sent \o one
  BY <1>2 DEF Send
<1> HIDE DEF one
<1>4. sent \in Seq(Post) /\ Len(sent) \in Nat
  BY SentIs DEF OwnType
<1>5. /\ sent \o one \in Seq(Post) /\ Len(sent \o one) = Len(sent) + 1
      /\ \A n \in 1 .. Len(sent) : (sent \o one)[n] = sent[n]
      /\ (sent \o one)[Len(sent) + 1] = one[1]
  BY <1>1, <1>4, OneMore
<1>6. DOMAIN sent' = 1 .. Len(sent) + 1
  BY <1>3, <1>4, <1>5
<1> QED  BY <1>1, <1>3, <1>5, <1>6, SentIs

(* How the run under way ends, and what that is grounded on: a POST that   *)
(* was answered, unless the terminal tells of nothing but trouble or of a  *)
(* refusal before any POST.                                                *)
Trouble == {"rejected", "failed", "cancelled"} \cup BackendTrouble

Grounds(what) ==
  \/ what \in Trouble
  \/ what = "usage" /\ at = "prompt"
  \/ what \in {"answer", "backend"} /\ at # "prompt" /\ reply[Posted] # None
       /\ calls[Posted] # <<>>
  \/ what \in Gateway!Code \ BackendTrouble /\ at # "prompt" /\ reply[Posted] # None
       /\ calls[Posted] = <<>>

EndsWith(what) ==
  /\ at # "ended" /\ at' = "ended"
  /\ what \in Shown \ {"underway"} /\ Show(what)
  /\ UNCHANGED <<gatewayVars, run, sent, arrived, streaming, posts>>
  /\ Grounds(what)

-----------------------------------------------------------------------------
(* What GatewayProofs finds inductive of each request, and that none is    *)
(* served before it arrives.                                               *)
ServedInv(n) ==
  /\ GP!RequestInv(n) /\ GP!Telling(n) /\ GP!SucceedsByModel(n)
  /\ n \notin arrived => stage[n] = "global"

GatewayInv == GP!TypeOK /\ \A n \in Requests : ServedInv(n)

LEMMA GatewayInit == Init => GatewayInv
<1> SUFFICES ASSUME Init PROVE GatewayInv
  OBVIOUS
<1>1. GP!Init
  BY DEF Init, Gateway!Init, Gateway!GovernanceInit, GP!Init, GP!GovernanceInit
<1>2. GP!TypeOK /\ GP!PipelineInv
  BY <1>1, GP!InitType, GP!InitInv, GatewayConstants
<1>3. \A n \in Requests : reply[n] = None /\ stage[n] = "global"
  BY <1>1 DEF GP!Init
<1> QED  BY <1>2, <1>3 DEF GatewayInv, ServedInv, GP!PipelineInv, GP!Telling, GP!SucceedsByModel

(* A step that leaves a request alone keeps what is known of it. *)
LEMMA ServedSame ==
  ASSUME NEW n \in Requests, ServedInv(n), GP!SameRequest(n), arrived \subseteq arrived'
  PROVE  ServedInv(n)'
<1>1. GP!RequestInv(n)'
  BY GP!SameRequestInv, GatewayConstants DEF ServedInv
<1>2. GP!Telling(n)' /\ GP!SucceedsByModel(n)'
  BY DEF ServedInv, GP!SameRequest, GP!Telling, GP!SucceedsByModel
<1> QED  BY <1>1, <1>2 DEF ServedInv, GP!SameRequest

LEMMA GatewayRests ==
  ASSUME GatewayInv, UNCHANGED gatewayVars, arrived' = arrived
  PROVE  GatewayInv'
<1>1. GP!TypeOK'
  BY DEF gatewayVars, GatewayInv, GP!TypeOK, GP!GovernanceTypeOK
<1>2. \A n \in Requests : GP!SameRequest(n)
  BY DEF gatewayVars, GP!SameRequest
<1> QED  BY <1>1, <1>2, ServedSame DEF GatewayInv

LEMMA ServeKeeps ==
  ASSUME GatewayInv, NEW r \in Requests, Serve(r)
  PROVE  GatewayInv'
<1>1. GP!Serve(r) /\ r \in arrived /\ arrived' = arrived
  BY GatewayServes DEF Serve
<1>2. GP!TypeOK'
  BY <1>1, GP!ServeType, GatewayConstants DEF GatewayInv
<1>3. ASSUME NEW n \in Requests PROVE ServedInv(n)'
  <2>1. ServedInv(n) /\ GP!TypeOK
    BY DEF GatewayInv
  <2>2. GP!RequestInv(n)'
    BY <1>1, <2>1, GP!ServeInv, GatewayConstants DEF ServedInv
  <2>3. GP!Telling(n)'
    BY <1>1, <2>1, GP!ServeTelling, GatewayConstants DEF ServedInv
  <2>4. GP!SucceedsByModel(n)'
    BY <1>1, <2>1, GP!ServeSucceeds, GatewayConstants DEF ServedInv
  <2>5. n \notin arrived' => stage'[n] = "global"
    <3>1. n # r => GP!SameRequest(n)
      BY <1>1, <2>1, GP!OthersUntouched, GatewayConstants
    <3> QED  BY <1>1, <2>1, <3>1 DEF ServedInv, GP!SameRequest
  <2> QED  BY <2>2, <2>3, <2>4, <2>5 DEF ServedInv
<1> QED  BY <1>2, <1>3 DEF GatewayInv

(* A POST brings the message of a request that no policy has seen.         *)
LEMMA ArriveKeeps ==
  ASSUME OwnType, GatewayInv, NEW r \in Requests, Arrive(r)
  PROVE  GatewayInv'
<1>1. /\ UNCHANGED <<ctx, calls, telemetry, admitted, burst, minute, day, stage, reply>>
      /\ r \notin arrived /\ arrived' = arrived \cup {r}
  BY DEF Arrive
<1>2. PICK m \in Messages :
        /\ message' = [message EXCEPT ![r] = m]
        /\ outgoing' = [outgoing EXCEPT ![r] = [credential |-> "caller",
                                                 headers |-> m.headers, body |-> m.body]]
  BY DEF Arrive
<1> DEFINE blank == [credential |-> "caller", headers |-> m.headers, body |-> m.body]
<1>3. blank \in GP!Outgoing /\ blank.credential = "caller" /\ blank.body = m.body
  BY GatewayConstants DEF GP!Outgoing, GP!Message
<1> HIDE DEF blank
<1>4. message' = [message EXCEPT ![r] = m] /\ outgoing' = [outgoing EXCEPT ![r] = blank]
  BY <1>2 DEF blank
<1>5. GP!TypeOK'
  BY <1>1, <1>3, <1>4 DEF GatewayInv, GP!TypeOK, GP!GovernanceTypeOK
<1>6. message'[r] = m /\ outgoing'[r] = blank
  BY <1>4 DEF GatewayInv, GP!TypeOK
<1>7. ASSUME NEW n \in Requests \ {r} PROVE ServedInv(n)'
  <2>1. GP!SameRequest(n)
    BY <1>1, <1>4 DEF GatewayInv, GP!TypeOK, GP!SameRequest
  <2> QED  BY <1>1, <2>1, ServedSame DEF GatewayInv
<1>8. ServedInv(r)'
  <2>1. ServedInv(r) /\ stage[r] = "global"
    BY <1>1 DEF GatewayInv, ServedInv
  <2>2. GP!EnvelopeInv(r)' /\ GP!IdentityInv(r)'
    BY <1>1, <2>1 DEF ServedInv, GP!RequestInv, GP!EnvelopeInv, GP!IdentityInv
  <2>3. GP!BodyInv(r)'
    BY <1>1, <1>3, <1>6, <2>1 DEF ServedInv, GP!RequestInv, GP!BodyInv
  <2>4. GP!ForwardInv(r)' /\ GP!AnswerInv(r)'
    BY <1>1, <2>1 DEF ServedInv, GP!RequestInv, GP!ForwardInv, GP!AnswerInv
  <2>5. reply'[r] = None
    BY <1>1, <2>1 DEF ServedInv, GP!RequestInv, GP!AnswerInv
  <2> QED  BY <1>1, <2>1, <2>2, <2>3, <2>4, <2>5
           DEF ServedInv, GP!RequestInv, GP!Telling, GP!SucceedsByModel
<1> QED  BY <1>5, <1>7, <1>8 DEF GatewayInv

LEMMA WindowKeeps ==
  ASSUME GatewayInv, WindowRollsOver
  PROVE  GatewayInv'
<1>1. GP!WindowRollsOver /\ arrived' = arrived
  BY DEF WindowRollsOver, Gateway!WindowRollsOver, Gateway!NextSecond,
     Gateway!NextMinute, Gateway!NextDay, Gateway!requestVars, GP!WindowRollsOver,
     GP!NextSecond, GP!NextMinute, GP!NextDay, GP!requestVars
<1>2. GP!TypeOK'
  BY <1>1, GP!WindowType, GatewayConstants DEF GatewayInv
<1>3. \A n \in Requests : GP!SameRequest(n)
  BY <1>1 DEF GP!WindowRollsOver, GP!requestVars, GP!SameRequest
<1> QED  BY <1>1, <1>2, <1>3, ServedSame DEF GatewayInv

-----------------------------------------------------------------------------
(* The four ways in which a run ends. *)
LEMMA PostedIs ==
  ASSUME OwnType, Posted > 0
  PROVE  Posted \in DOMAIN sent /\ Posted \in Requests
BY SentIs DEF Posted

LEMMA LocallyEnds ==
  ASSUME RefuseLocally
  PROVE  EndsWith("usage") \/ EndsWith("rejected")
<1>1. /\ at = "prompt" /\ at' = "ended" /\ (Show("usage") \/ Show("rejected"))
      /\ UNCHANGED <<gatewayVars, run, sent, arrived, streaming, posts>>
  BY DEF RefuseLocally, Client!RefuseLocally, Client!Exit
<1> QED  BY <1>1 DEF EndsWith, Grounds, Trouble, Shown

LEMMA AnsweredEnds ==
  ASSUME OwnType, GatewayInv, Answered
  PROVE  EndsWith("answer")
<1>1. /\ at \in {"response", "event"} /\ at' = "ended" /\ Show("answer")
      /\ UNCHANGED <<gatewayVars, run, sent, arrived, streaming, posts>>
  BY DEF Answered, Client!WholeResponse, Client!StreamEnds, Client!Exit
<1>2. Posted > 0 /\ reply[Posted] # None /\ reply[Posted].status = 200
  BY DEF Answered, Replied
<1>3. calls[Posted] # <<>>
  BY <1>2, PostedIs DEF GatewayInv, ServedInv, GP!SucceedsByModel
<1> QED  BY <1>1, <1>2, <1>3 DEF EndsWith, Grounds, Shown

LEMMA RefusedEnds ==
  ASSUME OwnType, GatewayInv, Refused
  PROVE  EndsWith(IF reply[Posted].code = None THEN "backend" ELSE reply[Posted].code)
<1> DEFINE code == reply[Posted].code
           what == IF code = None THEN "backend" ELSE code
<1>1. /\ at = "response" /\ at' = "ended" /\ Show(what)
      /\ UNCHANGED <<gatewayVars, run, sent, arrived, streaming, posts>>
  BY DEF Refused, Client!StatusError, Client!Exit
<1>2. Posted > 0 /\ reply[Posted] # None
  BY DEF Refused, Replied
<1>3. ServedInv(Posted) /\ reply[Posted] \in GP!Answer
  BY <1>2, PostedIs DEF GatewayInv, GP!TypeOK
<1>4. code \in Gateway!Code \cup {None}
  BY <1>3 DEF GP!Answer, GP!Code, Gateway!Code
<1>5. /\ code = None => calls[Posted] # <<>>
      /\ code \notin BackendTrouble \cup {None} => calls[Posted] = <<>>
  BY <1>2, <1>3 DEF ServedInv, GP!Telling, BackendTrouble
<1>6. (code = None => what = "backend") /\ (code # None => what = code)
  OBVIOUS
<1> HIDE DEF code, what
<1>7. ASSUME code = None PROVE EndsWith(what)
  BY <1>1, <1>2, <1>5, <1>6, <1>7 DEF EndsWith, Grounds, Shown
<1>8. ASSUME code # None PROVE EndsWith(what)
  <2>1. what = code /\ code \in Gateway!Code /\ code \in Shown \ {"underway"}
    BY <1>4, <1>6, <1>8 DEF Shown, Gateway!Code
  <2>2. Grounds(code)
    BY <1>1, <1>2, <1>5, <1>8, <2>1 DEF Grounds, Trouble
  <2> QED  BY <1>1, <2>1, <2>2 DEF EndsWith
<1>9. EndsWith(what)
  BY <1>7, <1>8
<1> QED  BY <1>9 DEF code, what

LEMMA RaiseEnds ==
  ASSUME Raise
  PROVE  \E what \in {"rejected", "failed", "cancelled"} : EndsWith(what)
<1>1. /\ at \in {"response", "event"} /\ at' = "ended"
      /\ UNCHANGED <<gatewayVars, run, sent, arrived, streaming, posts>>
  BY DEF Raise, Client!Raise, Client!Exit
<1>2. \E what \in {"rejected", "failed", "cancelled"} : Show(what)
  BY DEF Raise, Parting
<1> QED  BY <1>1, <1>2 DEF EndsWith, Grounds, Trouble, Shown

Ending == RefuseLocally \/ Answered \/ Refused \/ Raise

LEMMA EndsHow ==
  ASSUME OwnType, GatewayInv, Ending
  PROVE  \E what : EndsWith(what)
BY LocallyEnds, AnsweredEnds, RefusedEnds, RaiseEnds DEF Ending

(* The steps that the terminal does not show. *)
Unseen == Stream \/ WindowRollsOver \/ (\E n \in Requests : Arrive(n) \/ Serve(n))
            \/ UNCHANGED vars

LEMMA UnseenIs ==
  ASSUME OwnType, Unseen
  PROVE  /\ UNCHANGED <<run, sent, shown, streaming, posts>>
         /\ \/ at' = at
            \/ at \in {"response", "event"} /\ at' \in {"response", "event"}
<1> USE DEF vars, clientVars
<1>1. CASE Stream
  BY <1>1 DEF Stream, Client!Headers, Client!Event
<1>2. CASE ~Stream
  BY <1>2 DEF Unseen, WindowRollsOver, Arrive, Serve
<1> QED  BY <1>1, <1>2

LEMMA StepsAre == [Next]_vars => Ending \/ Send \/ RunAgain \/ Unseen
BY DEF Next, Ending, Unseen

-----------------------------------------------------------------------------
(* Type correctness. *)
LEMMA OwnTypeInit == Init => OwnType
<1> SUFFICES ASSUME Init PROVE OwnType
  OBVIOUS
<1>1. 1 \in Runs
  BY CommandAssumption DEF Runs
<1>2. shown \in [Runs -> Shown \cup {None}]
  BY DEF Init, Shown
<1>3. sent \in Seq(Post) /\ Len(sent) = 0 /\ arrived = {}
  BY EmptySeq DEF Init
<1> QED  BY <1>1, <1>2, <1>3, CommandAssumption DEF Init, Client!Init, OwnType

LEMMA OwnTypeNext ==
  ASSUME OwnType, GatewayInv, [Next]_vars
  PROVE  OwnType'
<1>1. CASE Ending
  <2>1. PICK what : EndsWith(what)
    BY <1>1, EndsHow
  <2>2. shown' \in [Runs -> Shown \cup {None}]
    BY <2>1 DEF EndsWith, Show, OwnType
  <2> QED  BY <2>1, <2>2 DEF EndsWith, OwnType
<1>2. CASE Send
  <2>1. /\ at' = "response" /\ posts' = posts + 1
        /\ UNCHANGED <<streaming, run, arrived, shown>> /\ Len(sent') <= MaxRuns
    BY <1>2 DEF Send, Client!Post
  <2>2. sent' \in Seq(Post) /\ DOMAIN sent \subseteq DOMAIN sent'
    BY <1>2, SendAdds, SentIs
  <2> QED  BY <2>1, <2>2 DEF OwnType
<1>3. CASE RunAgain
  <2>1. run + 1 \in Runs
    BY <1>3, CommandAssumption DEF RunAgain, OwnType, Runs
  <2>2. shown' \in [Runs -> Shown \cup {None}]
    BY <1>3 DEF RunAgain, OwnType, Shown
  <2> QED  BY <1>3, <2>1, <2>2 DEF RunAgain, OwnType
<1>4. CASE Unseen
  <2>1. arrived' \subseteq DOMAIN sent
    BY <1>4 DEF Unseen, Stream, WindowRollsOver, Arrive, Serve, vars, OwnType
  <2> QED  BY <1>4, <2>1, UnseenIs DEF OwnType
<1> QED  BY <1>1, <1>2, <1>3, <1>4, StepsAre

LEMMA GatewayNext ==
  ASSUME OwnType, GatewayInv, [Next]_vars
  PROVE  GatewayInv'
<1>1. CASE Ending \/ Send \/ RunAgain
  <2>1. UNCHANGED gatewayVars /\ arrived' = arrived
    BY <1>1 DEF Ending, RefuseLocally, Answered, Refused, Raise, Send, RunAgain
  <2> QED  BY <2>1, GatewayRests
<1>2. CASE Stream \/ UNCHANGED vars
  <2>1. UNCHANGED gatewayVars /\ arrived' = arrived
    BY <1>2 DEF Stream, vars
  <2> QED  BY <2>1, GatewayRests
<1>3. CASE WindowRollsOver
  BY <1>3, WindowKeeps
<1>4. ASSUME NEW n \in Requests, Arrive(n) \/ Serve(n) PROVE GatewayInv'
  BY <1>4, ArriveKeeps, ServeKeeps
<1> QED  BY <1>1, <1>2, <1>3, <1>4, StepsAre DEF Unseen

LEMMA TypesTogether == Spec => [](OwnType /\ GatewayInv)
<1>1. OwnType /\ GatewayInv /\ [Next]_vars => OwnType' /\ GatewayInv'
  BY OwnTypeNext, GatewayNext
<1> QED  BY <1>1, OwnTypeInit, GatewayInit, PTL DEF Spec

(* Every variable of the path keeps its type. *)
THEOREM TypeCorrect == Spec => []TypeOK
<1>1. OwnType /\ GatewayInv => TypeOK
  <2> SUFFICES ASSUME OwnType, GatewayInv PROVE TypeOK
    OBVIOUS
  <2>1. Gateway!TypeOK
    BY DEF GatewayInv, GP!TypeOK, GP!GovernanceTypeOK, GP!Stages, GP!Context, GP!Outgoing,
       GP!Record, GP!Answer, GP!Code, GP!Correlation, GP!HeaderGroup, GP!Body,
       Gateway!TypeOK, Gateway!GovernanceTypeOK, Gateway!Stages, Gateway!Context,
       Gateway!Outgoing, Gateway!Record, Gateway!Answer, Gateway!Code, Gateway!Correlation,
       Gateway!HeaderGroup, Gateway!Body
  <2> QED  BY <2>1 DEF OwnType, Post, TypeOK
<1> QED  BY <1>1, TypesTogether, PTL

-----------------------------------------------------------------------------
(* The inductive invariant. *)
LEMMA VerdictSame ==
  ASSUME NEW k, shown'[k] = shown[k]
  PROVE  Verdict(k)' = Verdict(k)
BY DEF Verdict

(* What the developer concludes from the end of a run. *)
LEMMA EndsVerdict ==
  ASSUME OwnType, NEW what, EndsWith(what), NEW g \in Runs, g = run
  PROVE  /\ shown'[g] = what /\ what # None /\ what # "underway"
         /\ \A k \in Runs : k # g => shown'[k] = shown[k] /\ Verdict(k)' = Verdict(k)
         /\ what \in Trouble => Verdict(g)' = "unknown"
         /\ what \in {"answer", "backend"} => Verdict(g)' = "answered"
         /\ what = "usage" => Verdict(g)' = "refused"
         /\ what \in Gateway!Code \ BackendTrouble => Verdict(g)' = "refused"
<1>1. shown'[g] = what /\ what # None /\ what # "underway"
  BY CommandAssumption DEF EndsWith, Show, OwnType
<1>2. \A k \in Runs : k # g => shown'[k] = shown[k] /\ Verdict(k)' = Verdict(k)
  BY VerdictSame DEF EndsWith, Show, OwnType
<1>3. what \in Trouble => Verdict(g)' = "unknown"
  BY <1>1 DEF Verdict, Trouble, BackendTrouble
<1>4. what \in {"answer", "backend"} => Verdict(g)' = "answered"
  BY <1>1 DEF Verdict
<1>5. what = "usage" => Verdict(g)' = "refused"
  BY <1>1 DEF Verdict, BackendTrouble
<1>6. what \in Gateway!Code \ BackendTrouble => Verdict(g)' = "refused"
  BY <1>1 DEF Verdict, Gateway!Code
<1> QED  BY <1>1, <1>2, <1>3, <1>4, <1>5, <1>6

(* A run underway tells nothing, and neither does one still to come.       *)
LEMMA NothingYet ==
  ASSUME OwnType, ShownInv, NEW k \in Runs, k > run \/ (k = run /\ at # "ended")
  PROVE  Verdict(k) = "nothing"
BY DEF ShownInv, Verdict

(* The POST of the run under way is the last one. *)
LEMMA OwnPost ==
  ASSUME OwnType, PostInv, at \in {"response", "event"},
         NEW n \in DOMAIN sent, sent[n].run = run
  PROVE  n = Posted
<1>1. Posted \in DOMAIN sent /\ sent[Posted].run = run /\ Posted = Len(sent)
  BY PostedIs DEF PostInv, Posted
<1>2. n < Posted => sent[n].run < sent[Posted].run
  BY <1>1 DEF PostInv
<1>3. n \in 1 .. Len(sent) /\ Len(sent) \in Nat /\ run \in Nat
  BY SentIs DEF OwnType, Runs
<1> QED  BY <1>1, <1>2, <1>3

(* What the gateway has answered stands. *)
LEMMA RepliesStand ==
  ASSUME OwnType, GatewayInv, [Next]_vars, NEW n \in Requests, reply[n] # None
  PROVE  reply'[n] = reply[n] /\ calls'[n] = calls[n]
<1>1. CASE UNCHANGED <<reply, calls>>
  BY <1>1
<1>2. ASSUME NEW r \in Requests, Serve(r) PROVE reply'[n] = reply[n] /\ calls'[n] = calls[n]
  BY <1>2, GatewayServes, GP!AnswerKept, GatewayConstants DEF Serve, GatewayInv, ServedInv
<1>3. UNCHANGED <<reply, calls>> \/ \E r \in Requests : Serve(r)
  BY DEF Next, RefuseLocally, Send, Stream, Answered, Refused, Raise, RunAgain, gatewayVars,
     WindowRollsOver, Gateway!WindowRollsOver, Gateway!requestVars, Arrive, vars
<1> QED  BY <1>1, <1>2, <1>3

LEMMA CommandInit == Init => CommandInv
<1> SUFFICES ASSUME Init PROVE CommandInv
  OBVIOUS
<1>1. sent = <<>> /\ at = "prompt" /\ run = 1
  BY DEF Init, Client!Init
<1>2. DOMAIN sent = {}
  BY <1>1
<1>3. \A k \in Runs : shown[k] = IF k = 1 THEN "underway" ELSE None
  BY DEF Init
<1>4. None # "underway" /\ \A k \in Runs : k \in Nat /\ k >= 1
  BY CommandAssumption DEF Shown, Runs
<1>5. ShownInv
  BY <1>1, <1>3, <1>4 DEF ShownInv
<1> QED  BY <1>1, <1>2, <1>5 DEF CommandInv, PostInv, ConclusionInv

LEMMA EndKeeps ==
  ASSUME OwnType, CommandInv, NEW what, EndsWith(what)
  PROVE  CommandInv'
<1>1. /\ at # "ended" /\ at' = "ended"
      /\ UNCHANGED <<run, sent, reply>> /\ Grounds(what)
  BY DEF EndsWith, gatewayVars
<1> DEFINE g == run
<1>2. g \in Runs /\ run' = g
  BY <1>1 DEF OwnType
<1>3. PostInv'
  BY <1>1 DEF CommandInv, PostInv
<1> HIDE DEF g
<1>4. g = run
  BY DEF g
<1>5. ShownInv'
  BY <1>1, <1>2, <1>4, EndsVerdict DEF CommandInv, ShownInv, Runs
<1>6. ConclusionInv'
  <2> SUFFICES ASSUME NEW n \in DOMAIN sent, NEW k \in Runs, k = sent[n].run,
                      Verdict(k)' \in {"refused", "answered"}
               PROVE  reply[n] # None
    <3>1. \A n \in DOMAIN sent : sent[n].run \in Runs
      BY SentIs
    <3> QED  BY <1>1, <3>1 DEF ConclusionInv
  <2>1. CASE k # g
    BY <1>2, <1>4, <2>1, EndsVerdict DEF CommandInv, ConclusionInv
  <2>2. CASE k = g
    <3>1. at # "prompt"
      <4>1. sent[n].run = run /\ run \in Nat
        BY <1>4, <2>2 DEF OwnType, Runs
      <4> QED  BY <4>1 DEF CommandInv, PostInv
    <3>2. n = Posted
      BY <1>1, <1>4, <2>2, <3>1, OwnPost DEF CommandInv, OwnType
    <3>3. what \notin Trouble
      BY <1>2, <1>4, <2>2, EndsVerdict
    <3> QED  BY <1>1, <3>1, <3>2, <3>3 DEF Grounds
  <2> QED  BY <2>1, <2>2
<1> QED  BY <1>3, <1>5, <1>6 DEF CommandInv

LEMMA SendKeeps ==
  ASSUME OwnType, CommandInv, Send
  PROVE  CommandInv'
<1>1. /\ at = "prompt" /\ at' = "response"
      /\ UNCHANGED <<run, shown, reply>>
  BY DEF Send, Client!Post, gatewayVars
<1> DEFINE last == Len(sent) + 1
<1>2. /\ Len(sent') = last /\ last \in Nat /\ last > 0
      /\ DOMAIN sent' = DOMAIN sent \cup {last} /\ \A n \in DOMAIN sent : n < last
      /\ \A n \in DOMAIN sent : sent'[n] = sent[n]
      /\ sent'[last].run = run
  BY SendAdds, SentIs
<1> HIDE DEF last
<1>3. \A n \in DOMAIN sent : n \in Nat /\ sent[n].run \in Nat /\ run \in Nat
  BY SentIs DEF OwnType, Runs
<1>4. PostInv'
  BY <1>1, <1>2, <1>3 DEF CommandInv, PostInv, Posted, OwnType, Runs
<1>5. ShownInv'
  BY <1>1 DEF CommandInv, ShownInv
<1>6. ConclusionInv'
  <2> SUFFICES ASSUME NEW n \in DOMAIN sent', NEW k \in Runs, k = sent'[n].run,
                      Verdict(k)' \in {"refused", "answered"}
               PROVE  reply[n] # None
    <3>1. \A n \in DOMAIN sent' : sent'[n].run \in Runs
      BY <1>2, SentIs DEF OwnType
    <3> QED  BY <1>1, <3>1 DEF ConclusionInv
  <2>1. Verdict(k) \in {"refused", "answered"}
    BY <1>1, VerdictSame
  <2>2. n # last
    BY <1>1, <1>2, <2>1, NothingYet DEF CommandInv
  <2> QED  BY <1>2, <2>1, <2>2 DEF CommandInv, ConclusionInv
<1> QED  BY <1>4, <1>5, <1>6 DEF CommandInv

LEMMA RunAgainKeeps ==
  ASSUME OwnType, CommandInv, RunAgain
  PROVE  CommandInv'
<1>1. /\ at = "ended" /\ at' = "prompt" /\ run < MaxRuns
      /\ UNCHANGED <<sent, reply>>
  BY DEF RunAgain, gatewayVars
<1> DEFINE g == run + 1
<1>2. /\ run' = g /\ g \in Runs /\ run \in Nat /\ g = run + 1
      /\ shown' = [shown EXCEPT ![g] = "underway"]
  BY <1>1, CommandAssumption DEF RunAgain, OwnType, Runs
<1> HIDE DEF g
<1>3. shown'[g] = "underway" /\ \A k \in Runs : k # g => shown'[k] = shown[k]
  BY <1>2 DEF OwnType
<1>4. \A n \in DOMAIN sent : sent[n].run \in Runs /\ sent[n].run \in Nat
  BY SentIs DEF Runs
<1>5. PostInv'
  BY <1>1, <1>2, <1>4 DEF CommandInv, PostInv
<1>6. None # "underway" /\ \A k \in Runs : k \in Nat
  BY CommandAssumption DEF Shown, Runs
<1>7. ShownInv'
  BY <1>1, <1>2, <1>3, <1>6 DEF CommandInv, ShownInv
<1>8. ConclusionInv'
  <2> SUFFICES ASSUME NEW n \in DOMAIN sent, NEW k \in Runs, k = sent[n].run,
                      Verdict(k)' \in {"refused", "answered"}
               PROVE  reply[n] # None
    BY <1>1, <1>4 DEF ConclusionInv
  <2>1. k # g
    BY <1>2, <1>4 DEF CommandInv, PostInv
  <2>2. Verdict(k)' = Verdict(k)
    BY <1>3, <2>1, VerdictSame
  <2> QED  BY <2>2 DEF CommandInv, ConclusionInv
<1> QED  BY <1>5, <1>7, <1>8 DEF CommandInv

LEMMA UnseenKeeps ==
  ASSUME OwnType, GatewayInv, CommandInv, [Next]_vars, Unseen
  PROVE  CommandInv'
<1>1. /\ UNCHANGED <<run, sent, shown>>
      /\ \/ at' = at
         \/ at \in {"response", "event"} /\ at' \in {"response", "event"}
  BY UnseenIs
<1>2. PostInv' /\ ShownInv'
  BY <1>1 DEF CommandInv, PostInv, ShownInv, Posted
<1>3. ConclusionInv'
  <2> SUFFICES ASSUME NEW n \in DOMAIN sent, NEW k \in Runs, k = sent[n].run,
                      Verdict(k)' \in {"refused", "answered"}
               PROVE  reply'[n] # None
    BY <1>1, SentIs DEF ConclusionInv
  <2>1. Verdict(k)' = Verdict(k)
    BY <1>1, VerdictSame
  <2>2. reply[n] # None
    BY <2>1 DEF CommandInv, ConclusionInv
  <2> QED  BY <2>2, RepliesStand, SentIs
<1> QED  BY <1>2, <1>3 DEF CommandInv

(* A run posts once and waits for its own POST, and the developer          *)
(* concludes something only from an answer of the gateway's.               *)
THEOREM CommandCorrect == Spec => []CommandInv
<1>1. OwnType /\ GatewayInv /\ CommandInv /\ [Next]_vars => CommandInv'
  <2> SUFFICES ASSUME OwnType, GatewayInv, CommandInv, [Next]_vars PROVE CommandInv'
    OBVIOUS
  <2>1. CASE Ending
    <3>1. PICK what : EndsWith(what)
      BY <2>1, EndsHow
    <3> QED  BY <3>1, EndKeeps
  <2> QED  BY <2>1, SendKeeps, RunAgainKeeps, UnseenKeeps, StepsAre
<1> QED  BY <1>1, CommandInit, TypesTogether, PTL DEF Spec

-----------------------------------------------------------------------------
(* Counting the inferences of a run: pairs of a POST and a call of it.     *)
Pairs(S, c) == UNION {{n} \X DOMAIN c[n] : n \in S}

LEMMA PairsSame ==
  ASSUME NEW S, NEW T, NEW c, NEW d, S \subseteq T,
         \A n \in S : DOMAIN d[n] = DOMAIN c[n],
         \A n \in T \ S : DOMAIN d[n] = {}
  PROVE  Pairs(T, d) = Pairs(S, c)
<1>1. ASSUME NEW x PROVE x \in Pairs(T, d) <=> x \in Pairs(S, c)
  <2>1. x \in Pairs(T, d) <=> \E n \in T : x \in {n} \X DOMAIN d[n]
    BY DEF Pairs
  <2>2. x \in Pairs(S, c) <=> \E n \in S : x \in {n} \X DOMAIN c[n]
    BY DEF Pairs
  <2> QED  BY <2>1, <2>2
<1> QED  BY <1>1

LEMMA NoPairs ==
  ASSUME NEW S, NEW c, \A n \in S : c[n] = <<>>
  PROVE  Cardinality(Pairs(S, c)) = 0
<1>1. Pairs(S, c) = {}
  BY DEF Pairs
<1> QED  BY <1>1, FS_EmptySet

LEMMA OnePair ==
  ASSUME NEW m, NEW c, NEW X, c[m] \in Seq(X), Len(c[m]) = 1
  PROVE  Cardinality(Pairs({m}, c)) = 1
<1>1. DOMAIN c[m] = {1}
  <2>1. DOMAIN c[m] = 1 .. Len(c[m]) /\ 1 .. 1 = {1}
    BY LenProperties
  <2> QED  BY <2>1
<1>2. Pairs({m}, c) = {<<m, 1>>}
  BY <1>1 DEF Pairs
<1> QED  BY <1>2, FS_Singleton

PostsOf(k) == {n \in DOMAIN sent : sent[n].run = k}

LEMMA InferencesAre ==
  ASSUME NEW k
  PROVE  /\ Inferences(k) = Cardinality(Pairs(PostsOf(k), calls))
         /\ Inferences(k)' = Cardinality(Pairs(PostsOf(k)', calls'))
BY DEF Inferences, Pairs, PostsOf

LEMMA SendFree ==
  ASSUME OwnType, GatewayInv, Send, NEW k
  PROVE  Inferences(k)' = Inferences(k)
<1> DEFINE last == Len(sent) + 1
<1>0. Len(sent') = last /\ Len(sent') <= MaxRuns
  BY SendAdds DEF Send
<1>1. /\ DOMAIN sent' = DOMAIN sent \cup {last}
      /\ \A n \in DOMAIN sent : sent'[n] = sent[n]
      /\ last \notin DOMAIN sent /\ last \in Requests
  BY <1>0, SendAdds, SentIs, CommandAssumption DEF Requests
<1>2. calls[last] = <<>> /\ calls' = calls
  <2>1. stage[last] = "global"
    BY <1>1 DEF OwnType, GatewayInv, ServedInv
  <2> QED  BY <1>1, <2>1 DEF GatewayInv, ServedInv, GP!RequestInv, GP!ForwardInv, Send, gatewayVars
<1> HIDE DEF last
<1>3. /\ PostsOf(k) \subseteq PostsOf(k)'
      /\ \A n \in PostsOf(k)' \ PostsOf(k) : n = last
  BY <1>1 DEF PostsOf
<1>4. Pairs(PostsOf(k)', calls') = Pairs(PostsOf(k), calls)
  BY <1>2, <1>3, PairsSame
<1> QED  BY <1>4, InferencesAre

LEMMA OthersFree ==
  ASSUME NEW k, sent' = sent, \A n \in PostsOf(k) : calls'[n] = calls[n]
  PROVE  Inferences(k)' = Inferences(k)
<1>1. PostsOf(k)' = PostsOf(k)
  BY DEF PostsOf
<1>2. Pairs(PostsOf(k), calls') = Pairs(PostsOf(k), calls)
  BY PairsSame
<1> QED  BY <1>1, <1>2, InferencesAre

(* A run has one POST. *)
LEMMA OnePost ==
  ASSUME OwnType, PostInv, NEW n \in DOMAIN sent
  PROVE  PostsOf(sent[n].run) = {n}
<1>1. ASSUME NEW m \in DOMAIN sent, sent[m].run = sent[n].run PROVE m = n
  <2>1. m \in Nat /\ n \in Nat /\ sent[n].run \in Nat
    BY SentIs DEF Runs
  <2>2. ~(m < n) /\ ~(n < m)
    BY <1>1, <2>1 DEF PostInv
  <2> QED  BY <2>1, <2>2
<1> QED  BY <1>1 DEF PostsOf

(* What a run that ends has cost. *)
LEMMA EndsCost ==
  ASSUME OwnType, GatewayInv, CommandInv, NEW what, EndsWith(what), NEW g \in Runs, g = run
  PROVE  /\ what = "usage" \/ what \in Gateway!Code \ BackendTrouble => Inferences(g) = 0
         /\ what \in {"answer", "backend"} => Inferences(g) = 1
<1>1. Grounds(what) /\ at # "ended" /\ run \in Nat
  BY DEF EndsWith, OwnType, Runs
<1>2. CASE at = "prompt"
  <2>1. PostsOf(g) = {}
    BY <1>1, <1>2 DEF CommandInv, PostInv, PostsOf
  <2>2. Inferences(g) = 0
    BY <2>1, NoPairs, InferencesAre
  <2>3. what \notin {"answer", "backend"}
    BY <1>1, <1>2 DEF Grounds, Trouble, BackendTrouble, Gateway!Code
  <2> QED  BY <2>2, <2>3
<1>3. CASE at # "prompt"
  <2>1. Posted \in DOMAIN sent /\ Posted \in Requests /\ sent[Posted].run = g
    BY <1>1, <1>3, PostedIs DEF CommandInv, PostInv, OwnType
  <2>2. PostsOf(g) = {Posted}
    BY <2>1, OnePost DEF CommandInv
  <2>3. calls[Posted] \in Seq(GP!Outgoing) /\ GP!ForwardInv(Posted)
    BY <2>1 DEF GatewayInv, ServedInv, GP!TypeOK, GP!RequestInv
  <2>4. calls[Posted] # <<>> => Inferences(g) = 1
    BY <2>2, <2>3, OnePair, InferencesAre DEF GP!ForwardInv
  <2>5. calls[Posted] = <<>> => Inferences(g) = 0
    BY <2>2, NoPairs, InferencesAre
  <2> QED  BY <1>1, <1>3, <2>4, <2>5 DEF Grounds, Trouble, BackendTrouble, Gateway!Code
<1> QED  BY <1>2, <1>3

-----------------------------------------------------------------------------
(* The path implements CallPromise. *)
LEMMA OneReturns ==
  ASSUME NEW g \in Runs, NEW v, Verdict(g) = "nothing", Verdict(g)' = v,
         \A k \in Runs : k # g => Verdict(k)' = Verdict(k),
         \A k \in Runs : Inferences(k)' = Inferences(k)
  PROVE  Promise!Return(g, v)
BY DEF Promise!Return

LEMMA Stutters ==
  ASSUME \A k \in Runs : Verdict(k)' = Verdict(k) /\ Inferences(k)' = Inferences(k)
  PROVE  [Promise!Next]_(Promise!vars)
BY DEF Promise!vars

LEMMA EndPromise ==
  ASSUME OwnType, GatewayInv, CommandInv, NEW what, EndsWith(what)
  PROVE  [Promise!Next]_(Promise!vars)
<1> DEFINE g == run
<1>1. g \in Runs /\ g = run
  BY DEF OwnType
<1> HIDE DEF g
<1>2. Verdict(g) = "nothing"
  BY <1>1, NothingYet DEF EndsWith, CommandInv
<1>3. \A k \in Runs : k # g => Verdict(k)' = Verdict(k)
  BY <1>1, EndsVerdict
<1>4. \A k \in Runs : Inferences(k)' = Inferences(k)
  BY OthersFree DEF EndsWith, gatewayVars
<1>5. Grounds(what)
  BY DEF EndsWith
<1>6. CASE what \in Trouble
  <2>1. Promise!Return(g, "unknown")
    BY <1>1, <1>2, <1>3, <1>4, <1>6, EndsVerdict, OneReturns
  <2> QED  BY <1>1, <2>1 DEF Promise!GiveUp, Promise!Next
<1>7. CASE what = "usage" \/ what \in Gateway!Code \ BackendTrouble
  <2>1. Promise!Return(g, "refused")
    BY <1>1, <1>2, <1>3, <1>4, <1>7, EndsVerdict, OneReturns
  <2>2. Inferences(g) = 0
    BY <1>1, <1>7, EndsCost
  <2> QED  BY <1>1, <2>1, <2>2 DEF Promise!Refuse, Promise!Next
<1>8. CASE what \in {"answer", "backend"}
  <2>1. Promise!Return(g, "answered")
    BY <1>1, <1>2, <1>3, <1>4, <1>8, EndsVerdict, OneReturns
  <2>2. Inferences(g) = 1
    BY <1>1, <1>8, EndsCost
  <2> QED  BY <1>1, <2>1, <2>2 DEF Promise!Answer, Promise!Next
<1> QED  BY <1>5, <1>6, <1>7, <1>8 DEF Grounds

LEMMA RunAgainPromise ==
  ASSUME OwnType, CommandInv, RunAgain
  PROVE  [Promise!Next]_(Promise!vars)
<1>1. \A k \in Runs : Inferences(k)' = Inferences(k)
  <2>1. sent' = sent /\ calls' = calls
    BY DEF RunAgain, gatewayVars
  <2> QED  BY <2>1, OthersFree
<1>2. PICK g \in Runs : g > run /\ shown' = [shown EXCEPT ![g] = "underway"]
  <2>1. run \in Nat /\ 1 <= run /\ run < MaxRuns /\ MaxRuns \in Nat
    BY CommandAssumption DEF RunAgain, OwnType, Runs
  <2>2. run + 1 \in 1 .. MaxRuns /\ run + 1 > run
    BY <2>1
  <2> QED  BY <2>2 DEF RunAgain, Runs
<1>3. Verdict(g) = "nothing"
  BY <1>2, NothingYet DEF CommandInv
<1>4. shown'[g] = "underway" /\ \A k \in Runs : k # g => shown'[k] = shown[k]
  BY <1>2 DEF OwnType
<1>5. Verdict(g)' = "nothing"
  BY <1>4 DEF Verdict
<1>6. \A k \in Runs : Verdict(k)' = Verdict(k)
  BY <1>3, <1>4, <1>5, VerdictSame
<1> QED  BY <1>1, <1>6, Stutters

(* The gateway runs an inference only for a run of which the developer has *)
(* concluded nothing.                                                      *)
LEMMA ServePromise ==
  ASSUME OwnType, GatewayInv, CommandInv, NEW n \in Requests, Serve(n)
  PROVE  [Promise!Next]_(Promise!vars)
<1>1. /\ UNCHANGED <<sent, shown>> /\ n \in arrived /\ n \in DOMAIN sent
      /\ GP!TypeOK /\ ServedInv(n) /\ GP!Serve(n)
  BY GatewayServes DEF Serve, OwnType, GatewayInv
<1>2. \A k \in Runs : Verdict(k)' = Verdict(k)
  BY <1>1, VerdictSame
<1>3. \A m \in Requests : m # n => calls'[m] = calls[m]
  BY <1>1, GP!OthersUntouched, GatewayConstants DEF GP!SameRequest
<1>0. PICK g \in Runs : g = sent[n].run
  BY <1>1, SentIs
<1>4. PostsOf(g) = {n} /\ PostsOf(g)' = {n}
  <2>1. PostsOf(g)' = PostsOf(g)
    BY <1>1 DEF PostsOf
  <2> QED  BY <1>0, <1>1, <2>1, OnePost DEF CommandInv
<1>5. \A k \in Runs : k # g => Inferences(k)' = Inferences(k)
  <2> SUFFICES ASSUME NEW k \in Runs, k # g PROVE Inferences(k)' = Inferences(k)
    OBVIOUS
  <2>1. ASSUME NEW m \in PostsOf(k) PROVE calls'[m] = calls[m]
    <3>1. m \in DOMAIN sent /\ m # n
      BY <1>0 DEF PostsOf
    <3>2. m \in Requests
      BY <3>1, SentIs
    <3> QED  BY <1>3, <3>1, <3>2
  <2> QED  BY <1>1, <2>1, OthersFree
<1>6. Verdict(g) \in {"refused", "answered"} => reply[n] # None
  BY <1>0, <1>1 DEF CommandInv, ConclusionInv
<1>7. CASE calls'[n] = calls[n]
  <2>1. Inferences(g)' = Inferences(g)
    BY <1>1, <1>4, <1>7, OthersFree
  <2> QED  BY <1>2, <1>5, <2>1, Stutters
<1>8. CASE calls'[n] # calls[n]
  <2>1. stage[n] = "forward" /\ calls'[n] = Append(calls[n], outgoing[n])
    BY <1>1, <1>8, GP!ServeMoves, GatewayConstants
  <2>2. calls[n] = <<>> /\ reply[n] = None
    BY <1>1, <2>1 DEF ServedInv, GP!RequestInv, GP!ForwardInv, GP!AnswerInv
  <2>3. calls'[n] \in Seq(GP!Outgoing) /\ Len(calls'[n]) = 1
    <3>1. outgoing[n] \in GP!Outgoing
      BY <1>1 DEF GP!TypeOK
    <3>2. <<>> \in Seq(GP!Outgoing) /\ Len(<<>>) = 0
      OBVIOUS
    <3> QED  BY <2>1, <2>2, <3>1, <3>2, AppendProperties
  <2>4. Inferences(g) = 0
    BY <1>4, <2>2, NoPairs, InferencesAre
  <2>5. Inferences(g)' = 1
    BY <1>4, <2>3, OnePair, InferencesAre
  <2>6. Verdict(g) \in {"nothing", "unknown"}
    BY <1>6, <2>2 DEF Verdict
  <2>7. Promise!Run(g)
    BY <1>2, <1>4, <1>5, <2>4, <2>5, <2>6 DEF Promise!Run
  <2> QED  BY <1>4, <2>7 DEF Promise!Next
<1> QED  BY <1>7, <1>8

LEMMA UnseenPromise ==
  ASSUME OwnType, GatewayInv, CommandInv, Unseen
  PROVE  [Promise!Next]_(Promise!vars)
<1>1. CASE UNCHANGED <<sent, shown, calls>>
  <2>1. \A k \in Runs : Verdict(k)' = Verdict(k) /\ Inferences(k)' = Inferences(k)
    BY <1>1, VerdictSame, OthersFree
  <2> QED  BY <2>1, Stutters
<1>2. UNCHANGED <<sent, shown, calls>> \/ \E n \in Requests : Serve(n)
  BY DEF Unseen, Stream, gatewayVars, WindowRollsOver, Gateway!WindowRollsOver,
     Gateway!requestVars, Arrive, vars
<1> QED  BY <1>1, <1>2, ServePromise

(* A run of the command never costs more than one inference, one that      *)
(* prints an answer costs exactly one, and one that prints a refusal of    *)
(* the gateway's has cost none and will not.                               *)
THEOREM CommandKeepsPromise == Spec => KeepsPromise
<1>1. Init => Promise!Init
  <2> SUFFICES ASSUME Init PROVE Promise!Init
    OBVIOUS
  <2>1. ASSUME NEW k \in Runs PROVE Verdict(k) = "nothing" /\ Inferences(k) = 0
    <3>1. shown[k] \in {None, "underway"} /\ sent = <<>>
      BY DEF Init
    <3>2. PostsOf(k) = {}
      BY <3>1 DEF PostsOf
    <3>3. Inferences(k) = 0
      BY <3>2, NoPairs, InferencesAre
    <3> QED  BY <3>1, <3>3 DEF Verdict
  <2> QED  BY <2>1 DEF Promise!Init
<1>2. OwnType /\ GatewayInv /\ CommandInv /\ [Next]_vars => [Promise!Next]_(Promise!vars)
  <2> SUFFICES ASSUME OwnType, GatewayInv, CommandInv, [Next]_vars
               PROVE  [Promise!Next]_(Promise!vars)
    OBVIOUS
  <2>1. CASE Ending
    <3>1. PICK what : EndsWith(what)
      BY <2>1, EndsHow
    <3> QED  BY <3>1, EndPromise
  <2>2. CASE Send
    <3>1. \A k \in Runs : Verdict(k)' = Verdict(k)
      BY <2>2, VerdictSame DEF Send
    <3>2. \A k \in Runs : Inferences(k)' = Inferences(k)
      BY <2>2, SendFree
    <3> QED  BY <3>1, <3>2, Stutters
  <2>3. CASE RunAgain
    BY <2>3, RunAgainPromise
  <2>4. CASE Unseen
    BY <2>4, UnseenPromise
  <2> QED  BY <2>1, <2>2, <2>3, <2>4, StepsAre
<1> QED  BY <1>1, <1>2, TypesTogether, CommandCorrect, PTL DEF Spec, KeepsPromise, Promise!Spec
=============================================================================
