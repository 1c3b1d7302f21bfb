----------------------------- MODULE LocalProxy -----------------------------
(***************************************************************************)
(* The local proxy, map_proxy/server.py with the token cache of tokens.py  *)
(* and the capture of capture.py.                                          *)
(*                                                                         *)
(* One event loop serves all calls of the IDE: a handler runs undisturbed  *)
(* from one await to the next, so an action is what it does between two of *)
(* them. TokenProvider.get does not await: a call gets its token in one    *)
(* step. Calls meet in the token cache. The process may die or be stopped  *)
(* at any time and be started again: what is lost is the cache and the     *)
(* handlers; what the gateway was sent it has.                             *)
(*                                                                         *)
(* What is cached and sent is the number of an answer of the credential's. *)
(* Two answers may hold the same token: az has a cache of its own, and     *)
(* returns what is in it as long as that is good for a while, whether the  *)
(* gateway has refused it or not. So the lifetime of an answer is what is  *)
(* left of the token's.                                                    *)
(***************************************************************************)
EXTENDS Integers, Sequences, FiniteSets

CONSTANTS
  Requests,     \* calls of POST /v1/responses
  Capturing,    \* --capture is on
  Skew,         \* _REFRESH_SKEW_SECONDS
  Timeout,      \* timeout_seconds
  Lifetimes,    \* for how long the tokens the credential returns are good yet
  Statuses,     \* status codes the gateway may answer
  MaxTime,      \* bound: clock
  MaxRestarts,  \* bound: restarts of the proxy
  MaxChunks,    \* bound: pieces of a response body
  None          \* no answer yet

Answer == [from: {"proxy", "gateway"}, status: Nat]

ASSUME ProxyAssumption ==
  /\ Capturing \in BOOLEAN
  /\ Skew \in Nat /\ Timeout \in Nat
  /\ Lifetimes \subseteq Nat
  /\ Statuses \subseteq Nat
  /\ MaxTime \in Nat /\ MaxChunks \in Nat /\ MaxRestarts \in Nat
  /\ None \notin Answer

VARIABLES
  now,          \* the clock
  issued,       \* issued[g]: when the credential gave its answer g, and when
                \* the token in it expires
  cached,       \* the answer in the cache, 0 if there is none
  heard,        \* history: the last answer when the gateway last refused a token
  kind,         \* kind[r]: a caller without the key, or what the body is
  pc,           \* pc[r]: the await r's handler is in
  posts,        \* posts[r]: calls of session.post for r
  sent,         \* sent[r]: the answer whose token r was posted with, 0 before
  started,      \* started[r]: when it was posted
  answer,       \* answer[r]: what the IDE was told
  size, got,    \* pieces of r's response body, and those relayed
  outcome,      \* outcome[r]: how the relay of r ended
  log,          \* what the capture file tells of which call
  restarts      \* restarts so far

cacheVars == <<issued, cached, heard>>
callVars == <<kind, pc, posts, sent, started, answer, size, got, outcome>>
vars == <<now, cacheVars, callVars, log, restarts>>

Kinds == {"stranger", "not_object", "other"}

SignInRecord == [at: Nat, expires: Nat]

TypeOK ==
  /\ now \in 0 .. MaxTime
  /\ issued \in Seq(SignInRecord)
  /\ cached \in {0, Len(issued)} /\ heard \in 0 .. Len(issued)
  /\ kind \in [Requests -> Kinds]
  /\ pc \in [Requests -> {"new", "reading", "posting", "relaying", "done"}]
  /\ posts \in [Requests -> Nat]
  /\ sent \in [Requests -> 0 .. Len(issued)]
  /\ started \in [Requests -> 0 .. MaxTime]
  /\ answer \in [Requests -> Answer \cup {None}]
  /\ size \in [Requests -> 0 .. MaxChunks]
  /\ got \in [Requests -> 0 .. MaxChunks]
  /\ outcome \in [Requests -> {"open", "complete", "cut"}]
  /\ log \in SUBSET ({"request", "response"} \X Requests)
  /\ restarts \in 0 .. MaxRestarts

Init ==
  /\ now = 0 /\ issued = <<>> /\ cached = 0 /\ heard = 0
  /\ kind \in [Requests -> Kinds]
  /\ pc = [r \in Requests |-> "new"]
  /\ posts = [r \in Requests |-> 0]
  /\ sent = [r \in Requests |-> 0]
  /\ started = [r \in Requests |-> 0]
  /\ answer = [r \in Requests |-> None]
  /\ size = [r \in Requests |-> 0] /\ got = [r \in Requests |-> 0]
  /\ outcome = [r \in Requests |-> "open"]
  /\ log = {}
  /\ restarts = 0

-----------------------------------------------------------------------------
Capture(what, r) == log' = IF Capturing THEN log \cup {<<what, r>>} ELSE log

(* The handler of r returns a response of the proxy's own making. *)
Refuse(r, status) ==
  /\ answer' = [answer EXCEPT ![r] = [from |-> "proxy", status |-> status]]
  /\ outcome' = [outcome EXCEPT ![r] = "complete"]
  /\ pc' = [pc EXCEPT ![r] = "done"]
  /\ UNCHANGED <<kind, posts, sent, started, size, got>>

(* It ends without the end of the response being written. *)
Cut(r) ==
  /\ outcome' = [outcome EXCEPT ![r] = "cut"]
  /\ pc' = [pc EXCEPT ![r] = "done"]
  /\ UNCHANGED <<kind, posts, sent, started, answer, size, got>>

(* authorise: the session key, before anything else. *)
Authorise(r) ==
  /\ pc[r] = "new"
  /\ \/ kind[r] = "stranger" /\ Refuse(r, 401)
     \/ /\ kind[r] # "stranger"
        /\ pc' = [pc EXCEPT ![r] = "reading"]
        /\ UNCHANGED <<kind, posts, sent, started, answer, size, got, outcome>>
  /\ UNCHANGED <<now, cacheVars, log, restarts>>

-----------------------------------------------------------------------------
(* handle_responses from the body's arrival to the POST. *)

(* The IDE may close its connection at any time; aiohttp does not cancel   *)
(* the handler, which runs on until it reads from or writes to it. Here:   *)
(* the connection is lost while the body is read.                          *)
BodyLost(r) ==
  /\ pc[r] = "reading"
  /\ Cut(r)
  /\ UNCHANGED <<now, cacheVars, log, restarts>>

(* record_request raises what is not caught: the body is JSON but not an   *)
(* object, or the file cannot be written. aiohttp answers 500.             *)
CaptureFails(r) ==
  /\ pc[r] = "reading" /\ Capturing
  /\ Refuse(r, 500)
  /\ UNCHANGED <<now, cacheVars, log, restarts>>

(* The body is longer than request.read() takes (client_max_size of        *)
(* aiohttp's Application).                                                 *)
BodyTooLarge(r) ==
  /\ pc[r] = "reading"
  /\ Refuse(r, 413)
  /\ UNCHANGED <<now, cacheVars, log, restarts>>

BodyTaken(r) ==
  /\ pc[r] = "reading"
  /\ Capturing => kind[r] # "not_object"
  /\ Capture("request", r)

Post(r, token) ==
  /\ posts' = [posts EXCEPT ![r] = @ + 1]
  /\ sent' = [sent EXCEPT ![r] = token]
  /\ started' = [started EXCEPT ![r] = now]
  /\ pc' = [pc EXCEPT ![r] = "posting"]
  /\ UNCHANGED <<now, kind, answer, size, got, outcome, restarts>>

(* Mutants of Fresh: a token counts until its last moment; the cache is    *)
(* never used.                                                             *)
FreshToTheEnd == cached # 0 /\ now < issued[cached].expires
NeverFresh == FALSE

(* TokenProvider.get. *)
Fresh == cached # 0 /\ now < issued[cached].expires - Skew

PostWithCached(r) ==
  /\ BodyTaken(r)
  /\ Fresh
  /\ Post(r, cached)
  /\ UNCHANGED cacheVars

(* The credential answers, with a new token or one it has given before.    *)
SignIn(r) ==
  /\ BodyTaken(r)
  /\ ~Fresh
  /\ \E life \in Lifetimes :
       issued' = Append(issued, [at |-> now, expires |-> now + life])
  /\ cached' = Len(issued')
  /\ Post(r, cached')
  /\ UNCHANGED heard

(* get_token raises or returns nothing; what was cached stays cached. *)
SignInFails(r) ==
  /\ BodyTaken(r)
  /\ ~Fresh
  /\ Refuse(r, 401)
  /\ UNCHANGED <<now, cacheVars, restarts>>

-----------------------------------------------------------------------------
(* From the gateway's answer to the end of the relay. *)

(* Mutant of PostFails: a call without an answer is reported as refused. *)
PostFailsAsRefusal(r) ==
  /\ pc[r] = "posting"
  /\ Refuse(r, 401)
  /\ UNCHANGED <<now, cacheVars, log, restarts>>

(* session.post raises: unreachable, or no headers within the timeout. *)
PostFails(r) ==
  /\ pc[r] = "posting"
  /\ Refuse(r, 502)
  /\ UNCHANGED <<now, cacheVars, log, restarts>>

(* Mutant of Invalidate: the refused token is kept. *)
KeepToken(status) == UNCHANGED cached

(* When the gateway refuses a token the cache is emptied, whichever token  *)
(* it holds by then.                                                       *)
Invalidate(status) == cached' = IF status = 401 THEN 0 ELSE cached

(* Mutant of Headers: a 401 is tried again. *)
HeadersRetry(r) ==
  /\ pc[r] = "posting" /\ posts[r] < 2
  /\ cached' = 0
  /\ posts' = [posts EXCEPT ![r] = @ + 1]
  /\ UNCHANGED <<now, issued, heard, kind, pc, sent, started, answer, size, got, outcome,
                 log, restarts>>

(* The status and headers arrive. The await of response.prepare, behind    *)
(* invalidate() and before record_response, is in this step: what others   *)
(* do meanwhile commutes with the writing of the caller's headers, and a   *)
(* loss of the caller there is RelayBreaks with a response record too many.*)
Headers(r) ==
  /\ pc[r] = "posting"
  /\ \E status \in Statuses :
       /\ Invalidate(status)
       /\ heard' = IF status = 401 THEN Len(issued) ELSE heard
       /\ answer' = [answer EXCEPT ![r] = [from |-> "gateway", status |-> status]]
  /\ \E n \in 0 .. MaxChunks : size' = [size EXCEPT ![r] = n]
  /\ Capture("response", r)
  /\ pc' = [pc EXCEPT ![r] = "relaying"]
  /\ UNCHANGED <<now, issued, kind, posts, sent, started, got, outcome, restarts>>

RelayChunk(r) ==
  /\ pc[r] = "relaying"
  /\ got[r] < size[r]
  /\ got' = [got EXCEPT ![r] = @ + 1]
  /\ UNCHANGED <<now, cacheVars, kind, pc, posts, sent, started, answer,
                 size, outcome, log, restarts>>

RelayEnds(r) ==
  /\ pc[r] = "relaying"
  /\ got[r] = size[r]
  /\ outcome' = [outcome EXCEPT ![r] = "complete"]
  /\ pc' = [pc EXCEPT ![r] = "done"]
  /\ UNCHANGED <<now, cacheVars, kind, posts, sent, started, answer, size,
                 got, log, restarts>>

(* Mutant of RelayBreaks: whatever ends the loop, the end is written. *)
RelayEndsAnyway(r) ==
  /\ pc[r] = "relaying"
  /\ outcome' = [outcome EXCEPT ![r] = "complete"]
  /\ pc' = [pc EXCEPT ![r] = "done"]
  /\ UNCHANGED <<now, cacheVars, kind, posts, sent, started, answer, size,
                 got, log, restarts>>

(* The IDE is gone (ConnectionResetError), or the gateway's stream breaks  *)
(* off, the timeout expires or the capture cannot be written: nothing is   *)
(* retried, and aiohttp closes the connection without an end.              *)
RelayBreaks(r) ==
  /\ pc[r] = "relaying"
  /\ Cut(r)
  /\ UNCHANGED <<now, cacheVars, log, restarts>>

-----------------------------------------------------------------------------
(* Time passes, but no POST outlives its timeout. *)
Tick ==
  /\ now < MaxTime
  /\ \A r \in Requests : pc[r] = "posting" => now < started[r] + Timeout
  /\ now' = now + 1
  /\ UNCHANGED <<cacheVars, callVars, log, restarts>>

(* Mutant of Restart: the token outlives the process. *)
RestartWithToken ==
  /\ restarts < MaxRestarts
  /\ restarts' = restarts + 1
  /\ pc' = [r \in Requests |-> IF pc[r] = "new" THEN "new" ELSE "done"]
  /\ outcome' = [r \in Requests |-> IF outcome[r] = "open" /\ pc[r] # "new" THEN "cut"
                                    ELSE outcome[r]]
  /\ UNCHANGED <<now, cacheVars, kind, posts, sent, started, answer, size, got, log>>

(* The process ends, by Ctrl-C or otherwise, and is started again: the     *)
(* calls under way are cut off where they are, and "there is no token      *)
(* cache on disk" (TokenProvider), so the next call acquires one.          *)
Restart ==
  /\ restarts < MaxRestarts
  /\ restarts' = restarts + 1
  /\ cached' = 0
  /\ pc' = [r \in Requests |-> IF pc[r] = "new" THEN "new" ELSE "done"]
  /\ outcome' = [r \in Requests |-> IF outcome[r] = "open" /\ pc[r] # "new" THEN "cut"
                                    ELSE outcome[r]]
  /\ UNCHANGED <<now, issued, heard, kind, posts, sent, started, answer, size, got, log>>

Handle(r) ==
  \/ Authorise(r)
  \/ BodyLost(r) \/ BodyTooLarge(r) \/ CaptureFails(r)
  \/ PostWithCached(r) \/ SignIn(r) \/ SignInFails(r)
  \/ PostFails(r) \/ Headers(r)
  \/ RelayChunk(r) \/ RelayEnds(r) \/ RelayBreaks(r)

Next == Tick \/ Restart \/ \E r \in Requests : Handle(r)

Spec == Init /\ [][Next]_vars
-----------------------------------------------------------------------------
RefusedByGateway(r) == answer[r] # None /\ answer[r].from = "gateway" /\ answer[r].status = 401

(* Once the gateway has refused a token, no call is posted before the      *)
(* credential has been asked again, however the calls that got it, drop it *)
(* and replace it overlap, and however often the proxy is restarted. The   *)
(* answer may hold the refused token once more: invalidate() does not      *)
(* reach the credential's own cache.                                       *)
AskedAfterRefusal ==
  [][\A r \in Requests : sent[r] = 0 /\ sent'[r] # 0 => sent'[r] > heard]_vars

(* While a call waits for the gateway its token does not expire: the skew  *)
(* covers the time a POST may take. It supposes a timeout within the skew, *)
(* as the default is, and answers of the credential's that are good for    *)
(* longer than that.                                                       *)
ValidWhileWaiting ==
  Timeout <= Skew /\ (\A life \in Lifetimes : life > Timeout) =>
    \A r \in Requests : pc[r] = "posting" => now < issued[sent[r]].expires

(* A burst of calls signs in once. Another sign-in before the last token   *)
(* was about to expire takes a 401 of the gateway's or a restart, and each *)
(* of these causes one at most.                                            *)
Early == {g \in 1 .. Len(issued) - 1 : issued[g + 1].at < issued[g].expires - Skew}

SignInsNeeded ==
  Cardinality(Early) <= Cardinality({r \in Requests : RefusedByGateway(r)}) + restarts

(* The IDE sees a response end properly only if the proxy made it itself,  *)
(* or relayed it whole, with the gateway's own status.                     *)
CompleteOnlyIfWhole ==
  \A r \in Requests : outcome[r] = "complete" =>
    \/ answer[r].from = "proxy" /\ got[r] = 0
    \/ answer[r].from = "gateway" /\ answer[r].status \in Statuses /\ got[r] = size[r]

(* What is posted is the call of somebody who knows the key, with a token  *)
(* of the developer's, and in the capture file if there is one.            *)
PostAccountable ==
  \A r \in Requests : posts[r] > 0 =>
    /\ kind[r] # "stranger"
    /\ sent[r] \in 1 .. Len(issued)
    /\ Capturing => <<"request", r>> \in log

(* The proxy gives its caller what the gateway gives the proxy: a call is  *)
(* refused for free, or is authorised and posted exactly once before it is *)
(* answered, whatever expires, is refused, breaks off or goes away.        *)
Phase(r) ==
  IF answer[r] = None
  THEN IF posts[r] = 0 THEN "open" ELSE "inference"
  ELSE IF posts[r] = 0 THEN "refused" ELSE "answered"

Promise == INSTANCE GatewayPromise WITH
  admissible <- [r \in Requests |-> kind[r] # "stranger"],
  phase <- [r \in Requests |-> Phase(r)],
  inferences <- posts

KeepsPromise == Promise!Spec

-----------------------------------------------------------------------------
(* The inductive invariant: a call's state fits the await it is in, what   *)
(* is cached came after the last refusal, and a waiting call is within its *)
(* timeout of a moment at which its token was good.                        *)
CallInv(r) ==
  /\ pc[r] \in {"new", "reading"} => posts[r] = 0 /\ sent[r] = 0
  /\ posts[r] = 0 <=> sent[r] = 0
  /\ pc[r] \in {"posting", "relaying"} => posts[r] = 1
  /\ pc[r] \in {"new", "reading", "posting"} => answer[r] = None /\ got[r] = 0
  /\ pc[r] = "relaying" =>
       answer[r] # None /\ answer[r].from = "gateway" /\ answer[r].status \in Statuses
  /\ pc[r] # "done" => outcome[r] = "open"
  /\ pc[r] \notin {"new", "done"} => kind[r] # "stranger"
  /\ got[r] <= size[r]

CachedSinceRefusal == cached # 0 => cached > heard

InTime(r) ==
  pc[r] = "posting" =>
    /\ started[r] <= now /\ now <= started[r] + Timeout
    /\ \/ started[r] < issued[sent[r]].expires - Skew
       \/ \E life \in Lifetimes : issued[sent[r]].expires = started[r] + life

ProxyInv ==
  /\ \A r \in Requests : CallInv(r) /\ InTime(r)
  /\ CachedSinceRefusal
  /\ CompleteOnlyIfWhole
  /\ PostAccountable
=============================================================================
