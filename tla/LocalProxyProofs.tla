-------------------------- MODULE LocalProxyProofs --------------------------
(***************************************************************************)
(* Theorems of LocalProxy, for any number of calls, any clock bound, any   *)
(* lifetimes and any outcome of every await.                               *)
(***************************************************************************)
EXTENDS LocalProxy, TLAPS, SequenceTheorems, FiniteSetTheorems

(* A sign-in appends one record and caches its number. *)
LEMMA SignInIssues ==
  ASSUME TypeOK, NEW r \in Requests, SignIn(r)
  PROVE  /\ issued' \in Seq(SignInRecord)
         /\ Len(issued') = Len(issued) + 1 /\ Len(issued) \in Nat
         /\ cached' = Len(issued) + 1
         /\ \A g \in 1 .. Len(issued) : issued'[g] = issued[g]
         /\ \E life \in Lifetimes : issued'[Len(issued) + 1].expires = now + life
<1>1. PICK life \in Lifetimes : issued' = Append(issued, [at |-> now, expires |-> now + life])
  BY DEF SignIn
<1>2. [at |-> now, expires |-> now + life] \in SignInRecord /\ issued \in Seq(SignInRecord)
  BY ProxyAssumption DEF TypeOK, SignInRecord
<1>3. cached' = Len(issued')
  BY DEF SignIn
<1>4. /\ issued' \in Seq(SignInRecord) /\ Len(issued') = Len(issued) + 1
      /\ \A g \in 1 .. Len(issued) : issued'[g] = issued[g]
      /\ issued'[Len(issued) + 1] = [at |-> now, expires |-> now + life]
  BY <1>1, <1>2, AppendProperties
<1>5. Len(issued) \in Nat
  BY <1>2, LenProperties
<1> QED  BY <1>3, <1>4, <1>5
-----------------------------------------------------------------------------
LEMMA CaptureTyped ==
  ASSUME TypeOK, NEW what \in {"request", "response"}, NEW r \in Requests, Capture(what, r)
  PROVE  log' \in SUBSET ({"request", "response"} \X Requests)
BY DEF TypeOK, Capture

LEMMA TypeInit == Init => TypeOK
BY ProxyAssumption, EmptySeq DEF Init, TypeOK, Kinds

LEMMA TypeNext == TypeOK /\ [Next]_vars => TypeOK'
<1> SUFFICES ASSUME TypeOK, [Next]_vars PROVE TypeOK'
  OBVIOUS
<1>0. CASE UNCHANGED vars
  BY <1>0 DEF TypeOK, vars, cacheVars, callVars
<1>1. ASSUME Tick PROVE TypeOK'
  BY <1>1, ProxyAssumption DEF Tick, TypeOK, cacheVars, callVars
<1>2. ASSUME NEW r \in Requests, Authorise(r) PROVE TypeOK'
  <2>1. CASE kind[r] = "stranger" /\ Refuse(r, 401)
    BY <1>2, <2>1 DEF Authorise, Refuse, TypeOK, cacheVars, Answer
  <2>2. CASE pc' = [pc EXCEPT ![r] = "reading"]
    BY <1>2, <2>2 DEF Authorise, Refuse, TypeOK, cacheVars
  <2> QED  BY <1>2, <2>1, <2>2 DEF Authorise
<1>3. ASSUME NEW r \in Requests, BodyLost(r) PROVE TypeOK'
  BY <1>3 DEF BodyLost, Cut, TypeOK, cacheVars
<1>4. ASSUME NEW r \in Requests, BodyTooLarge(r) \/ CaptureFails(r) PROVE TypeOK'
  <2>1. \E status \in {413, 500} : Refuse(r, status)
    BY <1>4 DEF BodyTooLarge, CaptureFails
  <2>2. UNCHANGED <<now, cacheVars, log, restarts>>
    BY <1>4 DEF BodyTooLarge, CaptureFails
  <2> QED  BY <2>1, <2>2 DEF Refuse, TypeOK, cacheVars, Answer
<1>5. ASSUME NEW r \in Requests, PostWithCached(r) PROVE TypeOK'
  <2>1. Len(issued) \in Nat
    BY LenProperties DEF TypeOK
  <2>2. /\ sent' = [sent EXCEPT ![r] = cached] /\ posts' = [posts EXCEPT ![r] = @ + 1]
        /\ started' = [started EXCEPT ![r] = now] /\ pc' = [pc EXCEPT ![r] = "posting"]
        /\ UNCHANGED <<now, kind, answer, size, got, outcome, restarts, cacheVars>>
    BY <1>5 DEF PostWithCached, Post
  <2>3. log' \in SUBSET ({"request", "response"} \X Requests)
    BY <1>5, CaptureTyped DEF PostWithCached, BodyTaken
  <2> HIDE DEF SignInRecord
  <2> QED  BY <2>1, <2>2, <2>3 DEF TypeOK, cacheVars
<1>6. ASSUME NEW r \in Requests, SignIn(r) PROVE TypeOK'
  <2>1. /\ issued' \in Seq(SignInRecord) /\ Len(issued) \in Nat
        /\ Len(issued') = Len(issued) + 1 /\ cached' = Len(issued) + 1
    BY <1>6, SignInIssues
  <2>2. /\ sent' = [sent EXCEPT ![r] = cached'] /\ posts' = [posts EXCEPT ![r] = @ + 1]
        /\ started' = [started EXCEPT ![r] = now] /\ pc' = [pc EXCEPT ![r] = "posting"]
        /\ UNCHANGED <<now, kind, answer, size, got, outcome, restarts>>
    BY <1>6 DEF SignIn, Post
  <2>3. log' \in SUBSET ({"request", "response"} \X Requests)
    BY <1>6, CaptureTyped DEF SignIn, BodyTaken
  <2>4. heard' \in 0 .. Len(issued')
    BY <1>6, <2>1 DEF SignIn, TypeOK
  <2> HIDE DEF SignInRecord
  <2> QED  BY SMTT(30), <2>1, <2>2, <2>3, <2>4 DEF TypeOK
<1>7. ASSUME NEW r \in Requests, SignInFails(r) PROVE TypeOK'
  <2>1. log' \in SUBSET ({"request", "response"} \X Requests)
    BY <1>7, CaptureTyped DEF SignInFails, BodyTaken
  <2> QED  BY <1>7, <2>1 DEF SignInFails, Refuse, TypeOK, cacheVars, Answer
<1>8. ASSUME NEW r \in Requests, PostFails(r) PROVE TypeOK'
  BY <1>8 DEF PostFails, Refuse, TypeOK, cacheVars, Answer
<1>9. ASSUME NEW r \in Requests, Headers(r) PROVE TypeOK'
  <2>1. PICK status \in Statuses :
          /\ cached' \in {0, cached}
          /\ answer' = [answer EXCEPT ![r] = [from |-> "gateway", status |-> status]]
    BY <1>9 DEF Headers, Invalidate
  <2>2. [from |-> "gateway", status |-> status] \in Answer
    BY ProxyAssumption DEF Answer
  <2>3. heard' \in 0 .. Len(issued) /\ issued' = issued
    BY <1>9, LenProperties DEF Headers, TypeOK
  <2>4. log' \in SUBSET ({"request", "response"} \X Requests)
    BY <1>9, CaptureTyped DEF Headers
  <2>5. size' \in [Requests -> 0 .. MaxChunks] /\ pc' = [pc EXCEPT ![r] = "relaying"]
    BY <1>9 DEF Headers, TypeOK
  <2>6. UNCHANGED <<now, kind, posts, sent, started, got, outcome, restarts>>
    BY <1>9 DEF Headers
  <2> HIDE DEF SignInRecord
  <2> QED  BY <2>1, <2>2, <2>3, <2>4, <2>5, <2>6 DEF TypeOK
<1>10. ASSUME NEW r \in Requests, RelayChunk(r) PROVE TypeOK'
  BY <1>10, ProxyAssumption DEF RelayChunk, TypeOK, cacheVars
<1>11. ASSUME NEW r \in Requests, RelayEnds(r) PROVE TypeOK'
  BY <1>11 DEF RelayEnds, TypeOK, cacheVars
<1>12. ASSUME NEW r \in Requests, RelayBreaks(r) PROVE TypeOK'
  BY <1>12 DEF RelayBreaks, Cut, TypeOK, cacheVars
<1>14. ASSUME Restart PROVE TypeOK'
  BY <1>14, ProxyAssumption DEF Restart, TypeOK
<1>13. CASE Next
  BY <1>14, <1>1, <1>2, <1>3, <1>4, <1>5, <1>6, <1>7, <1>8, <1>9, <1>10, <1>11, <1>12,
     <1>13 DEF Next, Handle
<1> QED  BY <1>0, <1>13

(* Every variable of the proxy keeps its type (TokenProvider and the       *)
(* handlers of server.py).                                                 *)
THEOREM TypeCorrect == Spec => []TypeOK
<1> QED  BY TypeInit, TypeNext, PTL DEF Spec
-----------------------------------------------------------------------------
(* The invariant of one call: only the handler of a call changes it. *)
LEMMA OtherCallsKept ==
  ASSUME TypeOK, NEW r \in Requests, Handle(r), NEW q \in Requests, q # r
  PROVE  /\ pc'[q] = pc[q] /\ posts'[q] = posts[q] /\ sent'[q] = sent[q]
         /\ started'[q] = started[q] /\ answer'[q] = answer[q]
         /\ size'[q] = size[q] /\ got'[q] = got[q] /\ outcome'[q] = outcome[q]
         /\ kind' = kind
<1>1. CASE Authorise(r)
  BY <1>1 DEF Authorise, Refuse, TypeOK
<1>2. CASE BodyLost(r) \/ RelayBreaks(r)
  BY <1>2 DEF BodyLost, RelayBreaks, Cut, TypeOK
<1>3. CASE BodyTooLarge(r) \/ CaptureFails(r) \/ SignInFails(r) \/ PostFails(r)
  BY <1>3 DEF BodyTooLarge, CaptureFails, SignInFails, PostFails, Refuse, TypeOK
<1>4. CASE PostWithCached(r) \/ SignIn(r)
  BY <1>4 DEF PostWithCached, SignIn, Post, TypeOK
<1>5. CASE Headers(r)
  BY <1>5 DEF Headers, TypeOK
<1>6. CASE RelayChunk(r) \/ RelayEnds(r)
  BY <1>6 DEF RelayChunk, RelayEnds, TypeOK
<1> QED  BY <1>1, <1>2, <1>3, <1>4, <1>5, <1>6 DEF Handle

LEMMA CallInit == Init => \A r \in Requests : CallInv(r)
BY ProxyAssumption DEF Init, CallInv

LEMMA CallStep ==
  ASSUME TypeOK, NEW r \in Requests, CallInv(r), Handle(r)
  PROVE  CallInv(r)'
<1>1. CASE Authorise(r)
  <2>1. CASE kind[r] = "stranger" /\ Refuse(r, 401)
    BY <1>1, <2>1 DEF Authorise, Refuse, CallInv, TypeOK
  <2>2. CASE /\ kind[r] # "stranger" /\ pc' = [pc EXCEPT ![r] = "reading"]
             /\ UNCHANGED <<kind, posts, sent, started, answer, size, got, outcome>>
    BY <1>1, <2>2 DEF Authorise, CallInv, TypeOK
  <2> QED  BY <1>1, <2>1, <2>2 DEF Authorise
<1>2. CASE BodyLost(r) \/ RelayBreaks(r)
  BY <1>2 DEF BodyLost, RelayBreaks, Cut, CallInv, TypeOK
<1>3. CASE BodyTooLarge(r) \/ CaptureFails(r) \/ SignInFails(r) \/ PostFails(r)
  BY <1>3 DEF BodyTooLarge, CaptureFails, SignInFails, PostFails, Refuse, CallInv, TypeOK
<1>4. CASE PostWithCached(r) \/ SignIn(r)
  <2>1. /\ pc[r] = "reading" /\ cached' # 0
        /\ posts' = [posts EXCEPT ![r] = @ + 1]
        /\ sent' = [sent EXCEPT ![r] = cached']
        /\ pc' = [pc EXCEPT ![r] = "posting"]
        /\ UNCHANGED <<kind, answer, size, got, outcome>>
    <3>1. CASE PostWithCached(r)
      BY <3>1 DEF PostWithCached, BodyTaken, Post, Fresh, cacheVars
    <3>2. CASE SignIn(r)
      <4>1. cached' = Len(issued) + 1 /\ Len(issued) \in Nat
        BY <3>2, SignInIssues
      <4>2. cached' # 0
        BY <4>1
      <4> QED  BY <3>2, <4>2 DEF SignIn, BodyTaken, Post
    <3> QED  BY <1>4, <3>1, <3>2
  <2> QED  BY <2>1 DEF CallInv, TypeOK
<1>5. CASE Headers(r)
  <2>1. PICK status \in Statuses :
          answer' = [answer EXCEPT ![r] = [from |-> "gateway", status |-> status]]
    BY <1>5 DEF Headers
  <2>2. [from |-> "gateway", status |-> status] # None
    BY ProxyAssumption DEF Answer
  <2>3. /\ pc[r] = "posting" /\ pc' = [pc EXCEPT ![r] = "relaying"]
        /\ size'[r] \in 0 .. MaxChunks
        /\ UNCHANGED <<kind, posts, sent, started, got, outcome>>
    BY <1>5 DEF Headers, TypeOK
  <2> QED  BY <2>1, <2>2, <2>3, ProxyAssumption DEF CallInv, TypeOK
<1>6. CASE RelayChunk(r) \/ RelayEnds(r)
  BY <1>6, ProxyAssumption DEF RelayChunk, RelayEnds, CallInv, TypeOK
<1> QED  BY <1>1, <1>2, <1>3, <1>4, <1>5, <1>6 DEF Handle

LEMMA CallNext ==
  TypeOK /\ (\A r \in Requests : CallInv(r)) /\ [Next]_vars
    => (\A r \in Requests : CallInv(r))'
<1> SUFFICES ASSUME TypeOK, \A r \in Requests : CallInv(r), [Next]_vars,
                    NEW q \in Requests
             PROVE  CallInv(q)'
  OBVIOUS
<1>1. CASE Tick \/ UNCHANGED vars
  BY <1>1 DEF Tick, vars, cacheVars, callVars, CallInv
<1>3. CASE Restart
  BY <1>3 DEF Restart, CallInv, TypeOK
<1>2. ASSUME NEW r \in Requests, Handle(r) PROVE CallInv(q)'
  <2>1. CASE r = q
    BY <1>2, <2>1, CallStep
  <2>2. CASE r # q
    BY <1>2, <2>2, OtherCallsKept DEF CallInv
  <2> QED  BY <2>1, <2>2
<1> QED  BY <1>1, <1>2, <1>3 DEF Next
-----------------------------------------------------------------------------
(* What is cached is an answer to a question asked after the last refusal. *)
LEMMA RefusedNext ==
  ASSUME TypeOK, CachedSinceRefusal, [Next]_vars
  PROVE  CachedSinceRefusal'
<1> SUFFICES ASSUME cached' # 0
             PROVE  cached' > heard'
  BY DEF CachedSinceRefusal
<1>1. CASE cached' = cached /\ heard' = heard
  BY <1>1 DEF CachedSinceRefusal
<1>2. ~ Restart
  BY DEF Restart
<1>3. ASSUME NEW r \in Requests, SignIn(r)  PROVE cached' > heard'
  <2>1. cached' = Len(issued) + 1 /\ Len(issued) \in Nat
    BY <1>3, SignInIssues
  <2>2. heard' = heard /\ heard \in 0 .. Len(issued)
    BY <1>3 DEF SignIn, TypeOK
  <2> QED  BY <2>1, <2>2
<1>4. ASSUME NEW r \in Requests, Headers(r)  PROVE cached' = cached /\ heard' = heard
  BY <1>4 DEF Headers, Invalidate
<1> QED
  BY <1>1, <1>2, <1>3, <1>4
  DEF Next, vars, Tick, Handle, Authorise, BodyLost, BodyTooLarge, CaptureFails,
      PostWithCached, SignInFails, PostFails, RelayChunk, RelayEnds, RelayBreaks, cacheVars

(* What a sign-in made known stays as it was. *)
LEMMA IssuedKept ==
  ASSUME TypeOK, [Next]_vars, NEW g \in 1 .. Len(issued)
  PROVE  issued'[g] = issued[g] /\ g \in 1 .. Len(issued')
<1>1. CASE \E r \in Requests : SignIn(r)
  <2>1. PICK r \in Requests : SignIn(r)
    BY <1>1
  <2>2. /\ Len(issued') = Len(issued) + 1 /\ Len(issued) \in Nat
        /\ \A h \in 1 .. Len(issued) : issued'[h] = issued[h]
    BY <2>1, SignInIssues
  <2> QED  BY <2>2
<1>2. CASE issued' = issued
  BY <1>2
<1> QED
  BY <1>1, <1>2 DEF Next, Handle, Tick, Restart, Authorise, BodyLost, BodyTooLarge, CaptureFails,
     PostWithCached, SignInFails, PostFails, Headers, RelayChunk, RelayEnds,
     RelayBreaks, vars, cacheVars

(* A waiting call is within its timeout. *)
LEMMA InTimeNext ==
  ASSUME TypeOK, \A r \in Requests : CallInv(r), PostAccountable, [Next]_vars,
         NEW q \in Requests, InTime(q)
  PROVE  InTime(q)'
<1>1. CASE UNCHANGED vars
  BY <1>1 DEF vars, cacheVars, callVars, InTime
<1>2. CASE Tick
  <2>1. pc[q] = "posting" => now < started[q] + Timeout
    BY <1>2 DEF Tick
  <2>2. /\ now \in Nat /\ now' = now + 1 /\ started[q] \in Nat
        /\ UNCHANGED <<pc, started, sent, issued>>
    BY <1>2, ProxyAssumption DEF Tick, TypeOK, cacheVars, callVars
  <2>3. Timeout \in Nat
    BY ProxyAssumption
  <2>4. pc[q] = "posting" => started[q] <= now' /\ now' <= started[q] + Timeout
    BY <2>1, <2>2, <2>3 DEF InTime
  <2> QED  BY <2>2, <2>4 DEF InTime
<1>4. CASE Restart
  BY <1>4 DEF Restart, InTime, TypeOK
<1>3. ASSUME NEW r \in Requests, Handle(r) PROVE InTime(q)'
  <2>1. now' = now
    BY <1>3 DEF Handle, Authorise, BodyLost, BodyTooLarge,
    CaptureFails, PostWithCached, SignIn,
       SignInFails, Post, PostFails, Headers, RelayChunk, RelayEnds, RelayBreaks
  <2>2. CASE r # q
    <3>1. /\ pc'[q] = pc[q] /\ sent'[q] = sent[q] /\ started'[q] = started[q]
      BY <1>3, <2>2, OtherCallsKept
    <3>2. CASE pc[q] = "posting"
      <4>0. posts[q] = 1 /\ 1 > 0
        BY <3>2 DEF CallInv
      <4>1. sent[q] \in 1 .. Len(issued)
        BY <4>0 DEF PostAccountable
      <4>2. issued'[sent[q]] = issued[sent[q]]
        BY <4>1, IssuedKept
      <4> QED  BY <2>1, <3>1, <4>2 DEF InTime
    <3> QED  BY <3>1, <3>2 DEF InTime
  <2>3. CASE r = q /\ PostWithCached(r)
    <3>1. /\ started'[q] = now /\ sent'[q] = cached /\ issued' = issued
          /\ now < issued[cached].expires - Skew /\ now \in Nat
      BY <2>3, ProxyAssumption DEF PostWithCached, Fresh, Post, TypeOK, cacheVars
    <3> QED  BY <2>1, <3>1, ProxyAssumption DEF InTime
  <2>4. CASE r = q /\ SignIn(r)
    <3>1. /\ started'[q] = now /\ sent'[q] = cached' /\ now \in Nat
      BY <2>4, ProxyAssumption DEF SignIn, Post, TypeOK
    <3>2. /\ cached' = Len(issued) + 1
          /\ \E life \in Lifetimes : issued'[Len(issued) + 1].expires = now + life
      BY <2>4, SignInIssues
    <3> QED  BY <2>1, <3>1, <3>2, ProxyAssumption DEF InTime
  <2>5. CASE r = q /\ ~ PostWithCached(r) /\ ~ SignIn(r)
    <3>1. pc'[q] # "posting"
      BY <1>3, <2>5 DEF Handle, Authorise, BodyLost, BodyTooLarge,
      CaptureFails, SignInFails,
         PostFails, Headers, RelayChunk, RelayEnds, RelayBreaks, Refuse, Cut, TypeOK
    <3> QED  BY <3>1 DEF InTime
  <2> QED  BY <2>2, <2>3, <2>4, <2>5
<1> QED  BY <1>1, <1>2, <1>3, <1>4 DEF Next
-----------------------------------------------------------------------------
(* What is complete is whole, what is posted is accounted for. *)
Whole(r) ==
  outcome[r] = "complete" =>
    \/ answer[r].from = "proxy" /\ got[r] = 0
    \/ answer[r].from = "gateway" /\ answer[r].status \in Statuses /\ got[r] = size[r]

LEMMA WholeStep ==
  ASSUME TypeOK, NEW r \in Requests, CallInv(r), Whole(r), Handle(r)
  PROVE  Whole(r)'
<1>1. CASE \E status \in Nat : pc[r] # "relaying" /\ pc[r] # "done" /\ Refuse(r, status)
  <2>1. got[r] = 0
    BY <1>1 DEF CallInv, TypeOK
  <2>2. answer'[r].from = "proxy" /\ got'[r] = got[r]
    BY <1>1 DEF Refuse, TypeOK
  <2> QED  BY <2>1, <2>2 DEF Whole
<1>2. CASE Cut(r)
  BY <1>2 DEF Cut, TypeOK, Whole
<1>3. CASE outcome' = outcome /\ pc[r] # "done"
  BY <1>3 DEF CallInv, Whole
<1>4. CASE RelayEnds(r)
  <2>1. /\ answer[r].from = "gateway" /\ answer[r].status \in Statuses
        /\ got[r] = size[r]
    BY <1>4 DEF RelayEnds, CallInv
  <2> QED  BY <1>4, <2>1 DEF RelayEnds, Whole
<1> QED
  BY <1>1, <1>2, <1>3, <1>4
  DEF Handle, Authorise, BodyLost, BodyTooLarge,
    CaptureFails, PostWithCached, SignIn, SignInFails,
      BodyTaken, Post, PostFails, Headers, RelayChunk, RelayEnds, RelayBreaks

LEMMA WholeNext ==
  ASSUME TypeOK, \A r \in Requests : CallInv(r), CompleteOnlyIfWhole, [Next]_vars
  PROVE  CompleteOnlyIfWhole'
<1> SUFFICES ASSUME NEW q \in Requests PROVE Whole(q)'
  BY DEF CompleteOnlyIfWhole, Whole
<1>1. Whole(q) /\ CallInv(q)
  BY DEF CompleteOnlyIfWhole, Whole
<1>2. CASE Tick \/ Restart \/ UNCHANGED vars
  BY <1>1, <1>2 DEF Tick, Restart, vars, callVars, Whole, TypeOK
<1>3. ASSUME NEW r \in Requests, Handle(r) PROVE Whole(q)'
  <2>1. CASE r = q
    BY <1>1, <1>3, <2>1, WholeStep
  <2>2. CASE r # q
    BY <1>1, <1>3, <2>2, OtherCallsKept DEF Whole
  <2> QED  BY <2>1, <2>2
<1> QED  BY <1>2, <1>3 DEF Next

Accountable(r) ==
  posts[r] > 0 =>
    /\ kind[r] # "stranger"
    /\ sent[r] \in 1 .. Len(issued)
    /\ Capturing => <<"request", r>> \in log

LEMMA LogGrows ==
  ASSUME [Next]_vars PROVE log \subseteq log'
BY DEF Next, vars, Tick, Restart, Handle, Authorise, BodyLost, BodyTooLarge,
    CaptureFails, PostWithCached,
       SignIn, SignInFails, BodyTaken, Capture, Post, PostFails, Headers, RelayChunk,
       RelayEnds, RelayBreaks

LEMMA AccountableNext ==
  ASSUME TypeOK, \A r \in Requests : CallInv(r), PostAccountable, [Next]_vars
  PROVE  PostAccountable'
<1> SUFFICES ASSUME NEW q \in Requests PROVE Accountable(q)'
  BY DEF PostAccountable, Accountable
<1>1. Accountable(q)
  BY DEF PostAccountable, Accountable
<1>2. CASE posts'[q] = posts[q] /\ sent'[q] = sent[q] /\ kind' = kind
  BY <1>1, <1>2, LogGrows, IssuedKept DEF Accountable
<1>3. CASE PostWithCached(q) \/ SignIn(q)
  <2>1. kind'[q] # "stranger"
    BY <1>3 DEF PostWithCached, SignIn, BodyTaken, Post, CallInv
  <2>2. Capturing => <<"request", q>> \in log'
    BY <1>3 DEF PostWithCached, SignIn, BodyTaken, Capture
  <2>3. sent'[q] \in 1 .. Len(issued')
    <3>1. CASE PostWithCached(q)
      BY <3>1, LenProperties DEF PostWithCached, Fresh, Post, TypeOK, cacheVars
    <3>2. CASE SignIn(q)
      BY <3>2, SignInIssues DEF SignIn, Post, TypeOK
    <3> QED  BY <1>3, <3>1, <3>2
  <2> QED  BY <2>1, <2>2, <2>3 DEF Accountable
<1>4. CASE Tick \/ Restart \/ UNCHANGED vars
  BY <1>2, <1>4 DEF Tick, Restart, vars, callVars
<1>5. ASSUME NEW r \in Requests, Handle(r) PROVE Accountable(q)'
  <2>1. CASE r # q
    BY <1>2, <1>5, <2>1, OtherCallsKept
  <2>2. CASE r = q
    BY <1>2, <1>3, <1>5, <2>2
    DEF Handle, Authorise, BodyLost, BodyTooLarge,
    CaptureFails, SignInFails, PostFails, Headers,
        RelayChunk, RelayEnds, RelayBreaks, Refuse, Cut
  <2> QED  BY <2>1, <2>2
<1> QED  BY <1>4, <1>5 DEF Next
-----------------------------------------------------------------------------
LEMMA ProxyInit == Init => ProxyInv
<1> SUFFICES ASSUME Init PROVE ProxyInv
  OBVIOUS
<1>1. \A r \in Requests : CallInv(r)
  BY CallInit
<1>2. CachedSinceRefusal /\ (\A r \in Requests : InTime(r))
  BY DEF Init, CachedSinceRefusal, InTime
<1>3. CompleteOnlyIfWhole /\ PostAccountable
  BY DEF Init, CompleteOnlyIfWhole, PostAccountable
<1> QED  BY <1>1, <1>2, <1>3 DEF ProxyInv

LEMMA ProxyNext == TypeOK /\ ProxyInv /\ [Next]_vars => ProxyInv'
<1> SUFFICES ASSUME TypeOK, ProxyInv, [Next]_vars PROVE ProxyInv'
  OBVIOUS
<1>1. /\ \A r \in Requests : CallInv(r) /\ InTime(r)
      /\ CachedSinceRefusal /\ CompleteOnlyIfWhole /\ PostAccountable
  BY DEF ProxyInv
<1>2. (\A r \in Requests : CallInv(r))'
  BY <1>1, CallNext
<1>3. \A r \in Requests : InTime(r)'
  BY <1>1, InTimeNext
<1>4. CachedSinceRefusal' /\ CompleteOnlyIfWhole' /\ PostAccountable'
  BY <1>1, RefusedNext, WholeNext, AccountableNext
<1> QED  BY <1>2, <1>3, <1>4 DEF ProxyInv

(* The proxy's inductive invariant: handlers of server.py and the cache of *)
(* TokenProvider stay consistent over every interleaving at the awaits.    *)
THEOREM ProxyCorrect == Spec => []ProxyInv
<1>1. Spec => []TypeOK
  BY TypeCorrect
<1> QED  BY <1>1, ProxyInit, ProxyNext, PTL DEF Spec

(* No call is told that a response is complete which handle_responses      *)
(* relayed in part.                                                        *)
THEOREM CompleteIsWhole == Spec => []CompleteOnlyIfWhole
<1>1. ProxyInv => CompleteOnlyIfWhole
  BY DEF ProxyInv
<1> QED  BY <1>1, ProxyCorrect, PTL

(* The skew of TokenProvider.get covers the time a POST may wait.          *)
THEOREM NoExpiryWhileWaiting == Spec => []ValidWhileWaiting
<1>1. TypeOK /\ ProxyInv => ValidWhileWaiting
  <2> SUFFICES ASSUME TypeOK, ProxyInv, Timeout <= Skew,
                      \A life \in Lifetimes : life > Timeout,
                      NEW r \in Requests, pc[r] = "posting"
               PROVE  now < issued[sent[r]].expires
    BY DEF ValidWhileWaiting
  <2>1. /\ CallInv(r) /\ InTime(r) /\ PostAccountable
    BY DEF ProxyInv
  <2>2. posts[r] = 1 /\ 1 > 0
    BY <2>1 DEF CallInv
  <2>3. sent[r] \in 1 .. Len(issued)
    BY <2>1, <2>2 DEF PostAccountable
  <2>4. issued[sent[r]] \in SignInRecord
    BY <2>3, ElementOfSeq DEF TypeOK
  <2>5. issued[sent[r]].expires \in Nat /\ started[r] \in Nat /\ now \in Nat
    BY <2>4, ProxyAssumption DEF SignInRecord, TypeOK
  <2> QED  BY <2>1, <2>5, ProxyAssumption DEF InTime
<1> QED  BY <1>1, TypeCorrect, ProxyCorrect, PTL

(* TokenProvider.invalidate: after a 401 no call is posted before the      *)
(* credential has been asked again, whatever it answers.                   *)
THEOREM AsksAfterRefusal == Spec => AskedAfterRefusal
<1> DEFINE Asked(r) == sent[r] = 0 /\ sent'[r] # 0 => sent'[r] > heard
<1>1. TypeOK /\ ProxyInv /\ [Next]_vars => [\A r \in Requests : Asked(r)]_vars
  <2> SUFFICES ASSUME TypeOK, ProxyInv, Next, NEW r \in Requests,
                      sent[r] = 0, sent'[r] # 0
               PROVE  sent'[r] > heard
    OBVIOUS
  <2>1. CASE PostWithCached(r)
    BY <2>1 DEF PostWithCached, Fresh, Post, TypeOK, ProxyInv, CachedSinceRefusal
  <2>2. CASE SignIn(r)
    <3>1. cached' = Len(issued) + 1 /\ Len(issued) \in Nat
      BY <2>2, SignInIssues
    <3>2. sent'[r] = cached' /\ heard \in 0 .. Len(issued)
      BY <2>2 DEF SignIn, Post, TypeOK
    <3> QED  BY <3>1, <3>2
  <2>3. CASE ~ PostWithCached(r) /\ ~ SignIn(r)
    <3>1. sent'[r] = sent[r]
      <4>1. CASE Tick \/ Restart
        BY <4>1 DEF Tick, Restart, callVars
      <4>2. ASSUME NEW p \in Requests, Handle(p), p # r PROVE sent'[r] = sent[r]
        BY <4>2, OtherCallsKept
      <4>3. CASE Handle(r)
        BY <2>3, <4>3 DEF Handle, Authorise, BodyLost, BodyTooLarge, CaptureFails,
           SignInFails, PostFails, Headers, RelayChunk, RelayEnds, RelayBreaks, Refuse, Cut
      <4> QED  BY <4>1, <4>2, <4>3 DEF Next
    <3> QED  BY <3>1
  <2> QED  BY <2>1, <2>2, <2>3
<1> QED  BY <1>1, TypeCorrect, ProxyCorrect, PTL DEF Spec, AskedAfterRefusal
-----------------------------------------------------------------------------
(* A handler's step moves its call along, seen from the gateway. *)
LEMMA HandleMoves ==
  ASSUME TypeOK, NEW r \in Requests, CallInv(r), Handle(r)
  PROVE  \/ posts'[r] = posts[r] /\ answer'[r] = answer[r]
         \/ posts'[r] = posts[r] /\ answer[r] = None /\ answer'[r] # None
         \/ posts[r] = 0 /\ posts'[r] = 1 /\ answer[r] = None /\ answer'[r] = None
                /\ kind[r] # "stranger"
<1>1. CASE posts' = posts /\ answer' = answer
  BY <1>1
<1>2. CASE posts' = posts /\ answer[r] = None
             /\ \E a \in Answer : answer' = [answer EXCEPT ![r] = a]
  <2>1. PICK a \in Answer : answer' = [answer EXCEPT ![r] = a]
    BY <1>2
  <2>2. answer'[r] = a
    BY <2>1 DEF TypeOK
  <2>3. a # None
    BY ProxyAssumption
  <2> QED  BY <1>2, <2>2, <2>3
<1>3. ASSUME NEW status \in Nat, Refuse(r, status), answer[r] = None
      PROVE  posts' = posts /\ \E a \in Answer : answer' = [answer EXCEPT ![r] = a]
  BY <1>3 DEF Refuse, Answer
<1>4. CASE Authorise(r)
  BY <1>1, <1>2, <1>3, <1>4 DEF Authorise, CallInv
<1>5. CASE BodyTooLarge(r) \/ CaptureFails(r) \/ SignInFails(r) \/ PostFails(r)
  BY <1>2, <1>3, <1>5 DEF BodyTooLarge,
    CaptureFails, SignInFails, BodyTaken, PostFails, CallInv
<1>6. CASE BodyLost(r) \/ RelayBreaks(r) \/ RelayChunk(r) \/ RelayEnds(r)
  BY <1>1, <1>6 DEF BodyLost, RelayBreaks, Cut, RelayChunk, RelayEnds
<1>7. CASE PostWithCached(r) \/ SignIn(r)
  <2>1. /\ pc[r] = "reading" /\ posts' = [posts EXCEPT ![r] = @ + 1]
        /\ answer' = answer
    BY <1>7 DEF PostWithCached, SignIn, BodyTaken, Post
  <2> QED  BY <2>1 DEF CallInv, TypeOK
<1>8. CASE Headers(r)
  <2>1. PICK status \in Statuses :
          answer' = [answer EXCEPT ![r] = [from |-> "gateway", status |-> status]]
    BY <1>8 DEF Headers
  <2>2. [from |-> "gateway", status |-> status] \in Answer
    BY ProxyAssumption DEF Answer
  <2>3. posts' = posts /\ answer[r] = None
    BY <1>8 DEF Headers, CallInv
  <2> QED  BY <1>2, <2>1, <2>2, <2>3
<1> QED  BY <1>4, <1>5, <1>6, <1>7, <1>8 DEF Handle
-----------------------------------------------------------------------------
(* Sign-ins, counted. *)

(* An early sign-in finds the cache emptied, and whatever emptied it has   *)
(* been counted: an emptied cache is one sign-in still to come.            *)
Refusals == {r \in Requests : RefusedByGateway(r)}

Owed == IF cached = 0 /\ Len(issued) > 0 THEN 1 ELSE 0

SignInInv ==
  /\ IsFiniteSet(Refusals)
  /\ Cardinality(Early) + Owed <= Cardinality(Refusals) + restarts

LEMMA EarlyFinite == TypeOK => IsFiniteSet(Early) /\ Cardinality(Early) \in Nat
<1> SUFFICES ASSUME TypeOK PROVE IsFiniteSet(Early) /\ Cardinality(Early) \in Nat
  OBVIOUS
<1>1. Len(issued) \in Nat
  BY LenProperties DEF TypeOK
<1>2. IsFiniteSet(1 .. Len(issued) - 1)
  BY <1>1, FS_Interval
<1>3. Early \in SUBSET (1 .. Len(issued) - 1)
  BY DEF Early
<1> QED  BY <1>2, <1>3, FS_Subset, FS_CardinalityType

(* A handler makes at most its own call one the gateway refused. *)
LEMMA RefusalsStep ==
  ASSUME TypeOK, NEW r \in Requests, CallInv(r), Handle(r), IsFiniteSet(Refusals)
  PROVE  /\ IsFiniteSet(Refusals')
         /\ Cardinality(Refusals) \in Nat /\ Cardinality(Refusals') \in Nat
         /\ Cardinality(Refusals) <= Cardinality(Refusals')
         /\ RefusedByGateway(r)' /\ answer[r] = None =>
              Cardinality(Refusals') = Cardinality(Refusals) + 1
<1>1. \A q \in Requests : q # r => answer'[q] = answer[q]
  BY OtherCallsKept
<1>2. answer[r] # None => answer'[r] = answer[r]
  BY HandleMoves
<1>3. \A q \in Refusals : q \in Refusals'
  BY <1>1, <1>2 DEF Refusals, RefusedByGateway
<1>4. \A q \in Refusals' : q = r \/ q \in Refusals
  BY <1>1 DEF Refusals, RefusedByGateway
<1>5. Refusals' = Refusals \/ Refusals' = Refusals \cup {r}
  BY <1>3, <1>4
<1>6. answer[r] = None => r \notin Refusals
  BY DEF Refusals, RefusedByGateway
<1>7. /\ Cardinality(Refusals) \in Nat
      /\ IsFiniteSet(Refusals \cup {r})
      /\ Cardinality(Refusals \cup {r}) =
           IF r \in Refusals THEN Cardinality(Refusals) ELSE Cardinality(Refusals) + 1
  BY FS_AddElement, FS_CardinalityType
<1>8. RefusedByGateway(r)' => r \in Refusals'
  BY DEF Refusals
<1> HIDE DEF Refusals
<1> QED  BY <1>5, <1>6, <1>7, <1>8

(* A sign-in pays what is owed, or is not early. *)
LEMMA SignInPays ==
  ASSUME TypeOK, NEW r \in Requests, SignIn(r)
  PROVE  /\ Owed' = 0
         /\ Cardinality(Early') <= Cardinality(Early) + Owed
         /\ Cardinality(Early') \in Nat
<1> DEFINE n == Len(issued)
<1>1. /\ issued' \in Seq(SignInRecord) /\ n \in Nat
      /\ Len(issued') = n + 1 /\ cached' = n + 1
      /\ \A g \in 1 .. n : issued'[g] = issued[g]
  BY SignInIssues
<1>2. Owed' = 0
  BY <1>1 DEF Owed
<1>3. issued'[n + 1].at = now
  <2>1. PICK life \in Lifetimes : issued' = Append(issued, [at |-> now, expires |-> now + life])
    BY DEF SignIn
  <2>2. [at |-> now, expires |-> now + life] \in SignInRecord /\ issued \in Seq(SignInRecord)
    BY ProxyAssumption DEF TypeOK, SignInRecord
  <2>3. issued'[n + 1] = [at |-> now, expires |-> now + life]
    BY <2>1, <2>2, AppendProperties
  <2> QED  BY <2>3
<1>4. n \in Early' => Owed = 1
  <2> SUFFICES ASSUME n \in Early'  PROVE Owed = 1
    OBVIOUS
  <2>1. n \in 1 .. n /\ now < issued[n].expires - Skew
    BY <1>1, <1>3 DEF Early
  <2>2. cached = 0
    BY <2>1 DEF SignIn, Fresh, TypeOK
  <2> QED  BY <2>1, <2>2 DEF Owed
<1>5. \A g \in Early' : g = n \/ g \in Early
  BY <1>1 DEF Early
<1>6. IsFiniteSet(Early) /\ Cardinality(Early) \in Nat
  BY EarlyFinite
<1> HIDE DEF n
<1>7. /\ IsFiniteSet(Early \cup {n})
      /\ Cardinality(Early \cup {n}) <= Cardinality(Early) + 1
      /\ Cardinality(Early \cup {n}) \in Nat
  <2>1. /\ IsFiniteSet(Early \cup {n})
        /\ Cardinality(Early \cup {n}) =
             IF n \in Early THEN Cardinality(Early) ELSE Cardinality(Early) + 1
    BY <1>6, FS_AddElement
  <2> QED  BY <1>6, <2>1
<1>8. CASE n \in Early'
  <2>1. Early' \in SUBSET (Early \cup {n})
    BY <1>5
  <2>2. Cardinality(Early') <= Cardinality(Early \cup {n})  /\ IsFiniteSet(Early')
    BY <1>7, <2>1, FS_Subset
  <2>3. Cardinality(Early') \in Nat
    BY <2>2, FS_CardinalityType
  <2> QED  BY <1>2, <1>4, <1>6, <1>7, <1>8, <2>2, <2>3
<1>9. CASE n \notin Early'
  <2>1. Early' \in SUBSET Early
    BY <1>5, <1>9
  <2>2. Cardinality(Early') <= Cardinality(Early)  /\ IsFiniteSet(Early')
    BY <1>6, <2>1, FS_Subset
  <2>3. Cardinality(Early') \in Nat /\ Owed \in {0, 1}
    BY <2>2, FS_CardinalityType DEF Owed
  <2> QED  BY <1>2, <1>6, <2>2, <2>3
<1> QED  BY <1>8, <1>9

LEMMA SignInNext ==
  ASSUME TypeOK, ProxyInv, SignInInv, [Next]_vars
  PROVE  SignInInv'
<1>1. /\ IsFiniteSet(Refusals) /\ Cardinality(Refusals) \in Nat
      /\ Cardinality(Early) \in Nat
      /\ Cardinality(Early) + Owed <= Cardinality(Refusals) + restarts
      /\ restarts \in Nat
  BY SMTT(30), EarlyFinite, FS_CardinalityType, ProxyAssumption DEF SignInInv, TypeOK
<1>2. Owed \in {0, 1} /\ Owed' \in {0, 1}
  BY DEF Owed
<1>3. UNCHANGED issued => Early' = Early
  BY DEF Early
<1>4. UNCHANGED answer => Refusals' = Refusals
  BY DEF Refusals, RefusedByGateway
<1>5. CASE Tick \/ UNCHANGED vars
  <2>1. UNCHANGED <<issued, cached, answer, restarts>>
    BY <1>5 DEF Tick, vars, cacheVars, callVars
  <2> QED  BY <1>1, <1>3, <1>4, <2>1 DEF SignInInv, Owed
<1>6. CASE Restart
  <2>1. UNCHANGED <<issued, answer>> /\ restarts' = restarts + 1
    BY <1>6 DEF Restart
  <2> QED  BY <1>1, <1>2, <1>3, <1>4, <2>1 DEF SignInInv
<1>7. ASSUME NEW r \in Requests, Handle(r)  PROVE SignInInv'
  <2>1. CallInv(r) /\ restarts' = restarts
    BY <1>7 DEF ProxyInv, Handle, Authorise, BodyLost, BodyTooLarge,
    CaptureFails, PostWithCached, SignIn,
       SignInFails, Post, PostFails, Headers, RelayChunk, RelayEnds, RelayBreaks
  <2>2. /\ IsFiniteSet(Refusals') /\ Cardinality(Refusals') \in Nat
        /\ Cardinality(Refusals) <= Cardinality(Refusals')
        /\ RefusedByGateway(r)' /\ answer[r] = None =>
             Cardinality(Refusals') = Cardinality(Refusals) + 1
    BY <1>1, <1>7, <2>1, RefusalsStep
  <2>3. CASE UNCHANGED <<issued, cached>>
    <3>1. Owed' = Owed
      BY <2>3 DEF Owed
    <3> QED  BY <1>1, <1>2, <1>3, <2>1, <2>2, <2>3, <3>1 DEF SignInInv
  <2>4. CASE Headers(r) /\ cached' # cached
    <3>1. PICK status \in Statuses :
            /\ Invalidate(status)
            /\ answer' = [answer EXCEPT ![r] = [from |-> "gateway", status |-> status]]
      BY <2>4 DEF Headers
    <3>2. status = 401
      BY <2>4, <3>1 DEF Invalidate
    <3>3. answer'[r] = [from |-> "gateway", status |-> 401]
      BY <3>1, <3>2 DEF TypeOK
    <3>4. [from |-> "gateway", status |-> 401] \in Answer
      BY DEF Answer
    <3>5. RefusedByGateway(r)'
      BY <3>3, <3>4, ProxyAssumption DEF RefusedByGateway
    <3>6. answer[r] = None /\ issued' = issued
      BY <2>1, <2>4 DEF Headers, CallInv
    <3> QED  BY <1>1, <1>2, <1>3, <2>1, <2>2, <3>5, <3>6 DEF SignInInv
  <2>5. CASE SignIn(r)
    <3>1. /\ Owed' = 0 /\ Cardinality(Early') <= Cardinality(Early) + Owed
          /\ Cardinality(Early') \in Nat
      BY <2>5, SignInPays
    <3> QED  BY <1>1, <1>2, <2>1, <2>2, <3>1 DEF SignInInv
  <2>6. \/ UNCHANGED <<issued, cached>>
        \/ Headers(r) /\ cached' # cached
        \/ SignIn(r)
    BY <1>7 DEF Handle, Authorise, BodyLost, BodyTooLarge, CaptureFails, PostWithCached,
       SignInFails, PostFails, Headers, RelayChunk, RelayEnds, RelayBreaks, cacheVars
  <2> QED  BY <2>3, <2>4, <2>5, <2>6
<1> QED  BY <1>5, <1>6, <1>7 DEF Next

(* A sign-in before the last token was about to expire takes a 401 of the  *)
(* gateway's or a restart, and each of these causes one at most.           *)
THEOREM SignInsAreNeeded == Spec => []SignInsNeeded
<1>1. Init => SignInInv
  <2> SUFFICES ASSUME Init PROVE SignInInv
    OBVIOUS
  <2>1. Refusals = {} /\ Early = {} /\ Owed = 0 /\ restarts = 0
    BY EmptySeq DEF Init, Refusals, RefusedByGateway, Early, Owed
  <2> QED  BY <2>1, FS_EmptySet DEF SignInInv
<1>2. TypeOK /\ ProxyInv /\ SignInInv /\ [Next]_vars => SignInInv'
  BY SignInNext
<1>3. TypeOK /\ SignInInv => SignInsNeeded
  <2> SUFFICES ASSUME TypeOK, SignInInv PROVE SignInsNeeded
    OBVIOUS
  <2>1. Cardinality(Early) \in Nat /\ Cardinality(Refusals) \in Nat /\ restarts \in Nat
    BY EarlyFinite, FS_CardinalityType, ProxyAssumption DEF SignInInv, TypeOK
  <2> QED  BY <2>1 DEF SignInInv, SignInsNeeded, Owed, Refusals
<1> QED  BY <1>1, <1>2, <1>3, TypeCorrect, ProxyCorrect, PTL DEF Spec
-----------------------------------------------------------------------------
(* The proxy implements GatewayPromise. *)

(* A handler's step leaves every phase alone or is a step of the promise.  *)
LEMMA PromiseStep ==
  ASSUME TypeOK, TypeOK', NEW r \in Requests, CallInv(r), Handle(r)
  PROVE  [Promise!Next]_(Promise!vars)
<1> DEFINE admissible == [q \in Requests |-> kind[q] # "stranger"]
           phase == [q \in Requests |-> Phase(q)]
<1>1. \A q \in Requests : q # r => Phase(q)' = Phase(q) /\ posts'[q] = posts[q]
  BY OtherCallsKept DEF Phase
<1>2. admissible' = admissible
  <2>1. kind' = kind
    BY DEF Handle, Authorise, Refuse, BodyLost, Cut, BodyTooLarge,
    CaptureFails, PostWithCached,
       SignIn, SignInFails, Post, PostFails, Headers, RelayChunk, RelayEnds, RelayBreaks
  <2> QED  BY <2>1
<1>3. posts = [posts EXCEPT ![r] = posts[r]] /\ posts' = [posts EXCEPT ![r] = posts'[r]]
  BY <1>1 DEF TypeOK
<1>4. phase' = [phase EXCEPT ![r] = Phase(r)']
  BY <1>1
<1>5. CASE posts'[r] = posts[r] /\ answer'[r] = answer[r]
  <2>1. Phase(r)' = Phase(r)
    BY <1>5 DEF Phase
  <2>2. phase' = phase /\ posts' = posts
    BY <1>1, <1>3, <1>5, <2>1
  <2> QED  BY <1>2, <2>2 DEF Promise!vars
<1>6. CASE posts'[r] = posts[r] /\ answer[r] = None /\ answer'[r] # None
  <2>1. posts' = posts
    BY <1>3, <1>6
  <2>2. CASE posts[r] = 0
    <3>1. phase[r] = "open" /\ Phase(r)' = "refused"
      BY <1>6, <2>2 DEF Phase
    <3>2. Promise!Refuse(r)
      BY <1>2, <1>4, <2>1, <3>1 DEF Promise!Refuse
    <3> QED  BY <3>2 DEF Promise!Next
  <2>3. CASE posts[r] # 0
    <3>1. phase[r] = "inference" /\ Phase(r)' = "answered"
      BY <1>6, <2>3 DEF Phase
    <3>2. Promise!Reply(r)
      BY <1>2, <1>4, <2>1, <3>1 DEF Promise!Reply
    <3> QED  BY <3>2 DEF Promise!Next
  <2> QED  BY <2>2, <2>3
<1>7. CASE /\ posts[r] = 0 /\ posts'[r] = 1 /\ answer[r] = None /\ answer'[r] = None
           /\ kind[r] # "stranger"
  <2>1. phase[r] = "open" /\ Phase(r)' = "inference"
    BY <1>7 DEF Phase
  <2>2. posts' = [posts EXCEPT ![r] = posts[r] + 1]
    BY <1>3, <1>7
  <2>3. Promise!Infer(r)
    BY <1>2, <1>4, <1>7, <2>1, <2>2 DEF Promise!Infer
  <2> QED  BY <2>3 DEF Promise!Next
<1> QED  BY <1>5, <1>6, <1>7, HandleMoves

(* The proxy implements the promise of the gateway towards the IDE:        *)
(* handle_responses refuses a call for free, or posts it exactly once.     *)
THEOREM ProxyKeepsPromise == Spec => KeepsPromise
<1>1. Init => Promise!Init
  BY DEF Init, Promise!Init, Phase
<1>2. TypeOK /\ TypeOK' /\ ProxyInv /\ [Next]_vars => [Promise!Next]_(Promise!vars)
  <2> SUFFICES ASSUME TypeOK, TypeOK', ProxyInv, [Next]_vars
               PROVE  [Promise!Next]_(Promise!vars)
    OBVIOUS
  <2>1. CASE Tick \/ Restart \/ UNCHANGED vars
    <3>1. UNCHANGED <<kind, posts, answer>>
      BY <2>1 DEF Tick, Restart, vars, callVars
    <3> QED  BY <3>1 DEF Promise!vars, Phase
  <2>2. ASSUME NEW r \in Requests, Handle(r)  PROVE [Promise!Next]_(Promise!vars)
    BY <2>2, PromiseStep DEF ProxyInv
  <2> QED  BY <2>1, <2>2 DEF Next
<1> QED  BY <1>1, <1>2, TypeCorrect, ProxyCorrect, PTL DEF Spec, KeepsPromise, Promise!Spec
=============================================================================
