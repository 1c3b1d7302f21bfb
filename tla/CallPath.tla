------------------------------ MODULE CallPath ------------------------------
(***************************************************************************)
(* A call of the IDE from end to end: the local proxy, the network, the    *)
(* gateway, and the developer at the az command line, put together from    *)
(* LocalProxy and Gateway.                                                 *)
(*                                                                         *)
(* The proxy's POST becomes the gateway's request when it arrives, which   *)
(* may be after the proxy has given it up, or never. The gateway's answer  *)
(* is the status the proxy relays. Neither process knows of the other's    *)
(* end: a proxy that times out, is stopped or loses the IDE leaves the     *)
(* gateway running.                                                        *)
(*                                                                         *)
(* Tokens are az's: they name whoever is signed in there when the proxy    *)
(* asks for one, be they new or from az's own cache. The developer may     *)
(* sign in as somebody else at any time; the proxy is not told.            *)
(***************************************************************************)
EXTENDS Integers, Sequences, FiniteSets

CONSTANTS                    \* of LocalProxy, whose calls are
  Requests, Capturing, Skew, Timeout, Lifetimes, Statuses,
  MaxTime, MaxRestarts, MaxChunks, None
CONSTANTS                    \* ... the requests of Gateway
  Messages, Tids, Oids, Scopes, Apps, Models, Guids, Brokered, RequiredScope,
  AllowedApps, ApprovedModel, BackendStatuses, Nodes, Keys, Calls, TokensPerMinute,
  DailyQuota, MaxCost
CONSTANTS
  MaxSwitches                \* bound: times another person signs in

VARIABLES                    \* LocalProxy; its pc and answer are these:
  now, issued, cached, heard, kind, posts, sent, started, size, got, outcome, log, restarts,
  handler,                   \* handler[r]: the await r's handler is in
  told                       \* told[r]: what the IDE was told
VARIABLES                    \* Gateway; its pc and answer are these:
  message, ctx, outgoing, calls, telemetry, admitted, burst, minute, day,
  stage,                     \* stage[r]: the next policy to run for r
  reply                      \* reply[r]: the gateway's answer
VARIABLES
  arrived,                   \* the calls whose POST has reached the gateway
  holder,                    \* holder[g]: whose token answer g held; None: one
                             \* the gateway will not accept
  logins,                    \* who was signed in at az since when, last is now
  first,                     \* the sign-in of logins the proxy was started under
  since                      \* since[r]: first, when r was posted

Proxy == INSTANCE LocalProxy WITH pc <- handler, answer <- told
Gateway == INSTANCE Gateway WITH pc <- stage, answer <- reply

(* What the two modules assume of their constants; a token may be anybody's *)
(* or nobody's, whatever the rest of the message; some token lasts longest. *)
ASSUME CallPathAssumption ==
  /\ Capturing \in BOOLEAN
  /\ Skew \in Nat /\ Timeout \in Nat
  /\ Lifetimes \subseteq Nat
  /\ \E l \in Lifetimes : \A k \in Lifetimes : k <= l
  /\ Statuses \subseteq Nat
  /\ MaxTime \in Nat /\ MaxChunks \in Nat /\ MaxRestarts \in Nat /\ MaxSwitches \in Nat
  /\ Messages \subseteq Gateway!Message
  /\ \A m \in Messages, valid \in BOOLEAN, o \in Oids \cup {None} :
       [m EXCEPT !.token.valid = valid, !.token.oid = o] \in Messages
  /\ Keys = Tids \X Oids
  /\ None \notin Tids \cup Oids \cup Scopes \cup Apps \cup Proxy!Answer
               \cup Gateway!Code \cup Gateway!Correlation \cup Gateway!Answer
  /\ Brokered \in BOOLEAN
  /\ RequiredScope \in Scopes \cup {None} /\ AllowedApps \subseteq Apps
  /\ BackendStatuses \subseteq Nat
  /\ IsFiniteSet(Nodes)
  /\ Calls \in Nat \ {0} /\ TokensPerMinute \in Nat \ {0} /\ DailyQuota \in Nat \ {0}
  /\ MaxCost \in Nat

proxyVars == <<now, issued, cached, heard, kind, posts, sent, started, size, got,
               outcome, log, restarts, handler, told>>
gatewayVars == <<message, ctx, outgoing, calls, telemetry, admitted, burst, minute,
                 day, stage, reply>>
developerVars == <<holder, logins, first>>
vars == <<proxyVars, gatewayVars, arrived, developerVars, since>>

SignedIn == logins[Len(logins)].oid

TypeOK ==
  /\ Proxy!TypeOK
  /\ Gateway!TypeOK
  /\ arrived \subseteq Requests
  /\ holder \in Seq(Oids \cup {None}) /\ Len(holder) = Len(issued)
  /\ logins \in Seq([oid: Oids, at: 0 .. MaxTime]) /\ Len(logins) \in 1 .. MaxSwitches + 1
  /\ first \in 1 .. Len(logins)
  /\ since \in [Requests -> 1 .. first]

Init ==
  /\ Proxy!Init
  /\ Gateway!Init
  /\ arrived = {}
  /\ \A r \in Requests :
       /\ ~message[r].token.valid /\ message[r].token.oid = None
       /\ kind[r] = "not_object" => message[r].text = "not_json"
  /\ holder = <<>>
  /\ \E o \in Oids : logins = <<[oid |-> o, at |-> 0]>>
  /\ first = 1 /\ since = [r \in Requests |-> 1]

-----------------------------------------------------------------------------
Posted(r) == since' = [since EXCEPT ![r] = IF posts'[r] > posts[r] THEN first ELSE @]

(* The proxy on its own: everything but acquiring a token and hearing from *)
(* the gateway. The end of a relay is the end of the gateway's response.   *)
ProxyAlone(r) ==
  /\ \/ Proxy!Authorise(r)
     \/ Proxy!BodyLost(r) \/ Proxy!BodyTooLarge(r) \/ Proxy!CaptureFails(r)
     \/ Proxy!PostWithCached(r) \/ Proxy!SignInFails(r)
     \/ Proxy!PostFails(r)
     \/ Proxy!RelayChunk(r) \/ Proxy!RelayBreaks(r)
     \/ stage[r] = "done" /\ Proxy!RelayEnds(r)
  /\ Posted(r)
  /\ UNCHANGED <<gatewayVars, arrived, developerVars>>

(* az answers for whoever is signed in; what it returns may still be a     *)
(* token the gateway will not accept.                                      *)
SignIn(r) ==
  /\ Proxy!SignIn(r)
  /\ \E o \in {SignedIn, None} : holder' = Append(holder, o)
  /\ Posted(r)
  /\ UNCHANGED <<gatewayVars, arrived, logins, first>>

(* The POST reaches the gateway, with the caller's own headers and body    *)
(* and the token the proxy put there.                                      *)
Arrive(r) ==
  LET g == sent[r] IN
  /\ posts[r] > 0 /\ r \notin arrived
  /\ arrived' = arrived \cup {r}
  /\ message' = [message EXCEPT
       ![r].token.valid = (holder[g] # None /\ now < issued[g].expires),
       ![r].token.oid = holder[g]]
  /\ UNCHANGED <<proxyVars, developerVars, since,
                 ctx, outgoing, calls, telemetry, admitted, burst, minute, day, stage, reply>>

(* The gateway serves what has arrived. Up to the forward, a request meets *)
(* others in one step, Govern, so here it gets there before the next one   *)
(* starts; Gateway itself is checked with every interleaving.              *)
Underway(r) == r \in arrived /\ stage[r] \notin {"global", "waiting", "relaying", "done"}

Serve(r) ==
  /\ r \in arrived
  /\ \A q \in Requests \ {r} : ~Underway(q)
  /\ Gateway!Serve(r)
  /\ UNCHANGED <<proxyVars, arrived, developerVars, since>>

WindowRollsOver ==
  /\ Gateway!WindowRollsOver
  /\ UNCHANGED <<proxyVars, arrived, developerVars, since>>

(* The response headers reach the proxy. *)
Headers(r) ==
  /\ reply[r] # None
  /\ Proxy!Headers(r)
  /\ told'[r].status = reply[r].status
  /\ UNCHANGED <<gatewayVars, arrived, developerVars, since>>

-----------------------------------------------------------------------------
(* A tick is long for the policies: they run within one.                   *)
Tick ==
  /\ Proxy!Tick
  /\ \A r \in arrived : stage[r] # "global" /\ ~Underway(r)
  /\ UNCHANGED <<gatewayVars, arrived, developerVars, since>>

Restart ==
  /\ Proxy!Restart
  /\ first' = Len(logins)
  /\ UNCHANGED <<gatewayVars, arrived, holder, logins, since>>

(* az login by somebody else of the same tenant. *)
SwitchAccount ==
  /\ Len(logins) <= MaxSwitches
  /\ \E o \in Oids \ {SignedIn} : logins' = Append(logins, [oid |-> o, at |-> now])
  /\ UNCHANGED <<proxyVars, gatewayVars, arrived, holder, first, since>>

Next ==
  \/ Tick \/ Restart \/ SwitchAccount \/ WindowRollsOver
  \/ \E r \in Requests : ProxyAlone(r) \/ SignIn(r) \/ Arrive(r) \/ Serve(r) \/ Headers(r)

Spec == Init /\ [][Next]_vars

-----------------------------------------------------------------------------
(* What the IDE can tell from a response: where it came from, its status   *)
(* and the error code of its body, if it got to the end of it.             *)
BackendTrouble == {"backend_unavailable", "backend_timeout", "backend_error"}

Verdict(r) ==
  IF outcome[r] = "open" THEN "nothing"
  ELSE IF outcome[r] = "cut" THEN "unknown"
  ELSE IF told[r].from = "proxy" THEN IF told[r].status = 502 THEN "unknown" ELSE "refused"
  ELSE IF reply[r].code = None THEN "answered"
  ELSE IF reply[r].code \in BackendTrouble THEN "unknown"
  ELSE "refused"

Promise == INSTANCE CallPromise WITH
  verdict <- [r \in Requests |-> Verdict(r)],
  runs <- [r \in Requests |-> Len(calls[r])]

(* Proxy and gateway together keep the promise a retry rests on: a call    *)
(* the IDE sees refused, by either of them, never reaches the model, not   *)
(* even later, and one it sees answered has reached it exactly once. Only  *)
(* a 502 of the proxy's, a backend_* code and a response cut off leave it  *)
(* open.                                                                   *)
KeepsPromise == Promise!Spec

(* A developer with a good token is never told invalid_token: the skew of  *)
(* the cache covers the whole way from the check in TokenProvider.get to   *)
(* the check at the gateway, for every call that is still waited for. It   *)
(* supposes a timeout within the skew, as the default is, and answers of   *)
(* the credential's that are good for longer than a POST may take.         *)
SignedInIsServed ==
  Timeout <= Skew /\ (\A life \in Lifetimes : life > Timeout) =>
    \A r \in Requests :
      told[r] # None /\ told[r].from = "gateway" /\ reply[r].code = "invalid_token" =>
        holder[sent[r]] = None

(* The model, the quota and the record know a call as a person who was     *)
(* signed in at az when the call was posted, or no longer before than a    *)
(* token lasts, less the skew, and never as one who had signed out when    *)
(* the proxy was last started.                                             *)
Span == LET longest == CHOOSE l \in Lifetimes : \A k \in Lifetimes : k <= l
        IN  IF longest > Skew THEN longest - Skew ELSE 0

KnownAs(o, r) ==
  \E i \in since[r] .. Len(logins) :
    /\ logins[i].oid = o /\ logins[i].at <= started[r]
    /\ i < Len(logins) => logins[i + 1].at >= started[r] - Span

RunsAsSignedIn ==
  \A r \in Requests :
    /\ calls[r] # <<>> => KnownAs(ctx[r].oid, r)
    /\ \A i \in DOMAIN telemetry[r] :
         telemetry[r][i].oid # None => KnownAs(telemetry[r][i].oid, r)

-----------------------------------------------------------------------------
(* The inductive invariant. What the gateway has is what was posted; what  *)
(* the IDE was told came from it, or the call was never posted, or it is a *)
(* 502; and a token's bearer was signed in at the moment it was got, under *)
(* the present run of the proxy if it is the cached one, and under the run *)
(* that posted it otherwise.                                               *)
ArrivalInv(r) ==
  /\ r \notin arrived => stage[r] = "global"
  /\ r \in arrived =>
       /\ posts[r] > 0
       /\ message[r].token.oid = holder[sent[r]]
       /\ ~message[r].token.valid /\ holder[sent[r]] # None =>
            issued[sent[r]].expires <= now

ToldInv(r) ==
  /\ outcome[r] = "complete" => told[r] # None
  /\ told[r] # None =>
       \/ told[r].from = "gateway" /\ reply[r] # None
       \/ told[r].from = "proxy" /\ (posts[r] > 0 => told[r].status = 502)

Bearer(g, oldest) ==
  holder[g] # None =>
    \E i \in oldest .. Len(logins) :
      /\ logins[i].oid = holder[g] /\ logins[i].at <= issued[g].at
      /\ i < Len(logins) => logins[i + 1].at >= issued[g].at

TokenInv ==
  /\ \A i \in 1 .. Len(logins) : logins[i].at <= now
  /\ \A g \in 1 .. Len(issued) :
       issued[g].at <= now /\ \E life \in Lifetimes : issued[g].expires = issued[g].at + life
  /\ cached # 0 => Bearer(cached, first)

PostInv(r) ==
  posts[r] > 0 =>
    /\ Bearer(sent[r], since[r])
    /\ issued[sent[r]].at <= started[r]
    /\ issued[sent[r]].at >= started[r] - Span

PathInv ==
  /\ TokenInv
  /\ \A r \in Requests : ArrivalInv(r) /\ ToldInv(r) /\ PostInv(r)
=============================================================================
