-------------------------- MODULE InvocationProofs --------------------------
(***************************************************************************)
(* Theorems of Invocation, for every stream the server may send, any       *)
(* failure limit and any number of links; before them those of the         *)
(* DocumentAppender it drives: an invocation only calls the appender, and  *)
(* its chain runs beside.                                                  *)
(***************************************************************************)
EXTENDS Invocation, FiniteSetTheorems, SequenceTheorems, TLAPS

-----------------------------------------------------------------------------
(* The appender alone: for every failure limit and any number of calls,    *)
(* one edit is in flight, drain() covers what was appended before it,      *)
(* losses are counted and the text keeps its order.                        *)

LEMMA LoopType ==
  ASSUME AppenderTypeOK, NEW i \in Links, NEW text \in Seq(Nat), Loop(i, text)
  PROVE  /\ pending' \in Seq(Nat)
         /\ stage' \in [Links -> {"unborn", "queued", "editing", "done"}]
         /\ chunk' \in [Links -> Seq(Nat)]
BY EmptySeq DEF Loop, AppenderTypeOK

LEMMA FlushType ==
  ASSUME AppenderTypeOK, NEW i \in Links, Flush(i)
  PROVE  AppenderTypeOK'
<1>1. chunk[i] \in Seq(Nat) /\ pending \in Seq(Nat)
  BY DEF AppenderTypeOK
<1>2. /\ chunk[i] \o pending \in Seq(Nat)
      /\ document \o chunk[i] \in Seq(Nat)
      /\ Len(chunk[i]) \in Nat
  BY <1>1, ConcatProperties, LenProperties DEF AppenderTypeOK
<1>3. CASE Start(i)
  BY <1>1, <1>3, LoopType DEF Start, AppenderTypeOK
<1>4. CASE EditApplied(i)
  BY <1>1, <1>2, <1>4, LoopType, AppenderAssumption DEF EditApplied, AppenderTypeOK
<1>5. CASE EditRejected(i)
  <2>1. failures' \in 0 .. MaxFailures - 1
    BY <1>5, AppenderAssumption DEF EditRejected, Exhausted, AppenderTypeOK
  <2> QED  BY <1>1, <1>2, <1>5, <2>1, LoopType DEF EditRejected, AppenderTypeOK
<1>6. CASE GiveUp(i)
  BY <1>1, <1>2, <1>6, LoopType, AppenderAssumption DEF GiveUp, AppenderTypeOK
<1> QED  BY <1>3, <1>4, <1>5, <1>6 DEF Flush, EditSettles

LEMMA ChainType ==
  ASSUME AppenderTypeOK, Chain
  PROVE  /\ links' \in 0 .. MaxLinks
         /\ stage' \in [Links -> {"unborn", "queued", "editing", "done"}]
BY AppenderAssumption DEF Chain, AppenderTypeOK, Links

(* The text an append adds. *)
Fresh(n) == [p \in 1 .. n |-> offered + p]

LEMMA FreshText ==
  ASSUME offered \in Nat, NEW n \in Nat
  PROVE  /\ Fresh(n) \in Seq(Nat)
         /\ Len(Fresh(n)) = n
         /\ \A p \in 1 .. n : Fresh(n)[p] = offered + p
<1>1. \A p \in 1 .. n : offered + p \in Nat
  OBVIOUS
<1>2. Fresh(n) \in Seq(Nat)
  BY <1>1, IsASeq DEF Fresh
<1> QED  BY <1>2 DEF Fresh

LEMMA AppendTextType ==
  ASSUME AppenderTypeOK, NEW n \in Nat, AppendText(n)
  PROVE  AppenderTypeOK'
<1>1. offered' = offered + n /\ pending' = pending \o Fresh(n)
  BY DEF AppendText, Fresh
<1>2. Fresh(n) \in Seq(Nat)
  BY FreshText DEF AppenderTypeOK
<1>3. pending' \in Seq(Nat)
  BY <1>1, <1>2, ConcatProperties DEF AppenderTypeOK
<1> QED  BY <1>1, <1>3, ChainType DEF AppendText, AppenderTypeOK

LEMMA AppendDeltaType ==
  ASSUME AppenderTypeOK, AppendDelta
  PROVE  AppenderTypeOK'
<1>1. PICK n \in 1 .. MaxText - offered : AppendText(n)
  BY DEF AppendDelta
<1>2. n \in Nat
  BY AppenderAssumption DEF AppenderTypeOK
<1> QED  BY <1>1, <1>2, AppendTextType

LEMMA CallsType ==
  ASSUME AppenderTypeOK, Drain \/ DrainReturns
  PROVE  AppenderTypeOK'
<1>1. CASE Drain
  <2>1. ticket' \in 0 .. MaxLinks
    BY <1>1, AppenderAssumption DEF Drain, Chain, AppenderTypeOK
  <2> QED  BY <1>1, <2>1, ChainType DEF Drain, AppenderTypeOK
<1>2. CASE DrainReturns
  BY <1>2, AppenderAssumption DEF DrainReturns, flushVars, AppenderTypeOK
<1> QED  BY <1>1, <1>2

(* Every variable of the appender keeps its type; the failure count stays  *)
(* below the limit.                                                        *)
THEOREM AppenderTypeCorrect == AppenderSpec => []AppenderTypeOK
<1>1. AppenderInit => AppenderTypeOK
  BY AppenderAssumption, EmptySeq DEF AppenderInit, AppenderTypeOK, Links
<1>2. AppenderTypeOK /\ [AppenderNext]_appenderVars => AppenderTypeOK'
  <2> SUFFICES ASSUME AppenderTypeOK, [AppenderNext]_appenderVars  PROVE AppenderTypeOK'
    OBVIOUS
  <2>1. CASE AppendDelta
    BY <2>1, AppendDeltaType
  <2>2. CASE Drain \/ DrainReturns
    BY <2>2, CallsType
  <2>4. ASSUME NEW i \in Links, Flush(i)  PROVE AppenderTypeOK'
    BY <2>4, FlushType
  <2>5. CASE UNCHANGED appenderVars
    BY <2>5 DEF appenderVars, flushVars, AppenderTypeOK
  <2> QED  BY <2>1, <2>2, <2>4, <2>5 DEF AppenderNext
<1> QED  BY <1>1, <1>2, PTL DEF AppenderSpec
-----------------------------------------------------------------------------
(* The chain: its links run one after the other. *)

LEMMA OneEditing ==
  ASSUME ChainInv, NEW i \in Links, NEW j \in Links,
         stage[i] = "editing", stage[j] = "editing"
  PROVE  i = j
BY DEF ChainInv, Links

(* Where a link ends or waits, all text in the editor's hands is its own.  *)
LEMMA InFlightIs ==
  ASSUME ChainInv, NEW i \in Links,
         \A j \in Links \ {i} : stage[j] # "editing"
  PROVE  InFlight = chunk[i]
<1>1. CASE stage[i] = "editing"
  <2>1. (CHOOSE j \in Links : stage[j] = "editing") = i
    BY <1>1
  <2> QED  BY <1>1, <2>1 DEF InFlight
<1>2. CASE stage[i] # "editing"
  BY <1>2 DEF InFlight, ChainInv
<1> QED  BY <1>1, <1>2

(* Only the first link that is not done can take a step. *)
LEMMA StepsAlone ==
  ASSUME AppenderTypeOK, ChainInv, NEW i \in Links, Flush(i)
  PROVE  /\ \A j \in Links : j < i => stage[j] = "done"
         /\ \A j \in Links : i < j => stage[j] \in {"queued", "unborn"}
         /\ \A j \in Links \ {i} : stage[j] # "editing" /\ chunk[j] = <<>>
<1>1. stage[i] \in {"queued", "editing"}
  BY DEF Flush, Start, EditSettles, EditApplied, EditRejected, GiveUp
<1>2. \A j \in Links : j < i => stage[j] = "done"
  <2> SUFFICES ASSUME NEW j \in Links, j < i  PROVE stage[j] = "done"
    OBVIOUS
  <2>1. CASE stage[i] = "editing"
    BY <2>1 DEF ChainInv
  <2>2. CASE stage[i] = "queued"
    <3>1. Ready(i)
      BY <2>2 DEF Flush, Start, EditSettles, EditApplied, EditRejected,
                  GiveUp
    <3>2. i > 1 /\ i - 1 \in Links /\ (j = i - 1 \/ j < i - 1)
      BY AppenderAssumption DEF Links
    <3> QED  BY <3>1, <3>2 DEF ChainInv, Ready
  <2> QED  BY <1>1, <2>1, <2>2
<1>3. \A j \in Links : i < j => stage[j] \in {"queued", "unborn"}
  BY <1>1 DEF ChainInv, AppenderTypeOK
<1>4. \A j \in Links \ {i} : stage[j] # "editing"
  BY <1>2, <1>3 DEF Links
<1> QED  BY <1>2, <1>3, <1>4 DEF ChainInv

(* What going around the loop does to the chain. *)
LEMMA LoopChain ==
  ASSUME AppenderTypeOK, ChainInv, NEW i \in Links, Flush(i), NEW text \in Seq(Nat),
         Loop(i, text), links' = links
  PROVE  ChainInv' /\ InFlight' = text /\ pending' = <<>>
<1>1. /\ stage'[i] = IF text = <<>> THEN "done" ELSE "editing"
      /\ chunk'[i] = text /\ pending' = <<>>
      /\ \A j \in Links \ {i} : stage'[j] = stage[j] /\ chunk'[j] = chunk[j]
  BY DEF Loop, AppenderTypeOK
<1>2. ~(stage[i] = "unborn")
  BY DEF Flush, Start, EditSettles, EditApplied, EditRejected, GiveUp
<1>3. ChainInv'
  BY <1>1, <1>2, StepsAlone DEF ChainInv, Links
<1>4. \A j \in Links \ {i} : stage'[j] # "editing"
  BY <1>1, StepsAlone
<1>5. InFlight' = chunk'[i]
  <2>1. CASE stage'[i] = "editing"
    <3>1. (CHOOSE j \in Links : stage'[j] = "editing") = i
      BY <1>4, <2>1
    <3> QED  BY <2>1, <3>1 DEF InFlight
  <2>2. CASE stage'[i] # "editing"
    BY <1>1, <1>4, <2>2 DEF InFlight
  <2> QED  BY <2>1, <2>2
<1> QED  BY <1>1, <1>3, <1>5

(* A call of append() or drain() adds a link behind the chain. *)
LEMMA ChainGrows ==
  ASSUME AppenderTypeOK, ChainInv, Chain, UNCHANGED chunk
  PROVE  ChainInv' /\ InFlight' = InFlight
<1>1. links + 1 \in Links /\ stage[links + 1] = "unborn"
  BY AppenderAssumption DEF Chain, ChainInv, AppenderTypeOK, Links
<1>2. /\ links' = links + 1 /\ stage'[links + 1] = "queued"
      /\ \A j \in Links : j # links + 1 => stage'[j] = stage[j]
  BY <1>1 DEF Chain, AppenderTypeOK
<1>3. \A j \in Links : stage'[j] = "editing" <=> stage[j] = "editing"
  BY <1>1, <1>2
<1>4. ChainInv'
  BY <1>1, <1>2, <1>3 DEF ChainInv, AppenderTypeOK, Links
<1>5. InFlight' = InFlight
  BY <1>3 DEF InFlight
<1> QED  BY <1>4, <1>5
-----------------------------------------------------------------------------
(* The text: what is held, what drain() may still owe, what is missing.    *)

Low == IF DrainDone THEN mark ELSE 0

LEMMA WithinConcat ==
  ASSUME NEW s \in Seq(Nat), NEW t \in Seq(Nat), NEW low \in Nat,
         NEW high \in Nat,
         Within(s, low, high), Within(t, low, high)
  PROVE  Within(s \o t, low, high)
<1> SUFFICES ASSUME NEW p \in DOMAIN (s \o t)
             PROVE  low < (s \o t)[p] /\ (s \o t)[p] <= high
  BY DEF Within
<1>1. /\ Len(s) \in Nat /\ DOMAIN s = 1 .. Len(s)
      /\ Len(t) \in Nat /\ DOMAIN t = 1 .. Len(t)
  BY LenProperties
<1>2. p \in 1 .. Len(s) + Len(t)
  BY ConcatProperties, LenProperties
<1>3. CASE p <= Len(s)
  BY <1>1, <1>2, <1>3, ConcatProperties DEF Within
<1>4. CASE p > Len(s)
  <2>1. p - Len(s) \in DOMAIN t
    BY <1>1, <1>2, <1>4
  <2> QED  BY <1>1, <1>2, <1>4, <2>1, ConcatProperties DEF Within
<1> QED  BY <1>1, <1>2, <1>3, <1>4

LEMMA FlushText ==
  ASSUME AppenderTypeOK, ChainInv, TextInv, NEW i \in Links, Flush(i)
  PROVE  ChainInv' /\ TextInv'
<1>1. /\ chunk[i] \in Seq(Nat) /\ pending \in Seq(Nat) /\ document \in Seq(Nat)
      /\ Len(chunk[i]) \in Nat /\ Len(pending) \in Nat /\ Len(document) \in Nat
      /\ chunk[i] \o pending \in Seq(Nat)
      /\ Len(chunk[i] \o pending) = Len(chunk[i]) + Len(pending)
      /\ Len(document \o chunk[i]) = Len(document) + Len(chunk[i])
  BY ConcatProperties, LenProperties DEF AppenderTypeOK
<1>2. InFlight = chunk[i]
  BY StepsAlone, InFlightIs
<1>3. PICK text \in {pending, chunk[i] \o pending} : Loop(i, text)
  BY DEF Flush, Start, EditSettles, EditApplied, EditRejected, GiveUp
<1>4. UNCHANGED <<offered, links, ticket, mark>>
  BY DEF Flush, Start, EditSettles, EditApplied, EditRejected, GiveUp
<1>5. ChainInv' /\ InFlight' = text /\ pending' = <<>>
  BY <1>1, <1>3, <1>4, LoopChain
<1>6. /\ chunk'[i] = text
      /\ \A j \in Links \ {i} : chunk'[j] = <<>> /\ stage'[j] = stage[j]
      /\ stage'[i] = "done" => text = <<>>
  BY <1>3, StepsAlone DEF Loop, AppenderTypeOK
<1>7. Low \in Nat /\ offered \in Nat /\ Low' \in Nat
  BY <1>4 DEF Low, AppenderTypeOK
<1>8. Within(text, Low, offered)
  BY <1>1, <1>3, <1>7, WithinConcat DEF TextInv, Low
<1>9. Within(<<>>, Low', offered')
  BY DEF Within
<1>10. Within(text, Low', offered')
  <2>1. CASE text = <<>>
    BY <1>9, <2>1
  <2>2. CASE text # <<>>
    <3>1. DrainDone' => DrainDone
      BY <1>4, <1>6, <2>2 DEF DrainDone, AppenderTypeOK, Links
    <3>2. Low' <= Low
      BY <1>4, <1>7, <3>1 DEF Low
    <3>3. \A p \in DOMAIN text : text[p] \in Nat
      BY <1>1, <1>3, ElementOfSeq, LenProperties
    <3> QED  BY <1>4, <1>7, <1>8, <3>2, <3>3 DEF Within
  <2> QED  BY <2>1, <2>2
<1>11. offered = Len(document') + dropped' + Len(text)
  <2>1. offered = Len(document) + dropped + Len(chunk[i] \o pending)
    BY <1>2 DEF TextInv, Unsettled
  <2>2. CASE Start(i)
    <3>1. chunk[i] = <<>>
      BY <2>2 DEF Start, ChainInv
    <3>2. Len(chunk[i]) = 0
      BY <3>1
    <3>3. Loop(i, pending) /\ UNCHANGED <<document, dropped>>
      BY <2>2 DEF Start
    <3>4. text = pending
      BY <1>6, <3>3 DEF Loop, AppenderTypeOK
    <3> QED  BY <1>1, <2>1, <3>2, <3>3, <3>4 DEF AppenderTypeOK
  <2>3. CASE EditApplied(i)
    <3>1. Loop(i, pending) /\ dropped' = dropped /\ document' = document \o chunk[i]
      BY <2>3 DEF EditApplied
    <3>2. text = pending
      BY <1>6, <3>1 DEF Loop, AppenderTypeOK
    <3> QED  BY <1>1, <2>1, <3>1, <3>2 DEF AppenderTypeOK
  <2>4. CASE EditRejected(i)
    <3>1. Loop(i, chunk[i] \o pending) /\ UNCHANGED <<document, dropped>>
      BY <2>4 DEF EditRejected
    <3>2. text = chunk[i] \o pending
      BY <1>6, <3>1 DEF Loop, AppenderTypeOK
    <3> QED  BY <1>1, <2>1, <3>1, <3>2 DEF AppenderTypeOK
  <2>5. CASE GiveUp(i)
    <3>1. /\ Loop(i, pending) /\ document' = document
          /\ dropped' = dropped + Len(chunk[i])
      BY <2>5 DEF GiveUp
    <3>2. text = pending
      BY <1>6, <3>1 DEF Loop, AppenderTypeOK
    <3> QED  BY <1>1, <2>1, <3>1, <3>2 DEF AppenderTypeOK
  <2> QED  BY <2>2, <2>3, <2>4, <2>5 DEF Flush, EditSettles
<1>12. Unsettled' = text
  BY <1>1, <1>3, <1>5, ConcatEmptySeq DEF Unsettled
<1>13. TextInv'
  BY <1>4, <1>5, <1>6, <1>9, <1>10, <1>11, <1>12 DEF TextInv, Low, DrainDone
<1> QED  BY <1>5, <1>13

LEMMA TextsAssociate ==
  ASSUME NEW s \in Seq(Nat), NEW t \in Seq(Nat), NEW u \in Seq(Nat)
  PROVE  (s \o t) \o u = s \o (t \o u)
BY ConcatAssociative

LEMMA AppendTextText ==
  ASSUME AppenderTypeOK, ChainInv, TextInv, NEW n \in Nat, AppendText(n)
  PROVE  /\ ChainInv' /\ TextInv'
         /\ Unsettled' = Unsettled \o [p \in 1 .. offered' - offered |-> offered + p]
<1>1. offered' = offered + n /\ pending' = pending \o Fresh(n)
  BY DEF AppendText, Fresh
<1>2. /\ offered \in Nat /\ mark \in Nat /\ offered' - offered = n
      /\ Fresh(n) \in Seq(Nat) /\ Len(Fresh(n)) = n /\ DOMAIN Fresh(n) = 1 .. n
      /\ \A p \in 1 .. n : Fresh(n)[p] = offered + p
  BY <1>1, FreshText DEF AppenderTypeOK, Fresh
<1>3. /\ Chain /\ UNCHANGED <<chunk, document, dropped, ticket, mark>>
      /\ ChainInv' /\ InFlight' = InFlight
  BY ChainGrows DEF AppendText
<1>4. InFlight \in Seq(Nat) /\ pending \in Seq(Nat)
  BY EmptySeq DEF InFlight, AppenderTypeOK
<1>5. Unsettled' = Unsettled \o Fresh(n)
  <2>1. (InFlight \o pending) \o Fresh(n) = InFlight \o (pending \o Fresh(n))
    BY <1>2, <1>4, TextsAssociate
  <2> QED  BY <1>1, <1>3, <2>1 DEF Unsettled
<1>6. Len(Unsettled') = Len(Unsettled) + n
  <2>1. Unsettled \in Seq(Nat)
    BY <1>4, ConcatProperties DEF Unsettled
  <2>2. Len(Unsettled \o Fresh(n)) = Len(Unsettled) + Len(Fresh(n))
    BY <1>2, <2>1, ConcatProperties
  <2> QED  BY <1>2, <1>5, <2>2
<1>7. DrainDone' <=> DrainDone
  BY <1>3 DEF DrainDone, Chain, ChainInv, AppenderTypeOK, Links, TextInv
<1>8. /\ Low \in Nat /\ Low' = Low /\ Low <= offered
  BY <1>2, <1>3, <1>7 DEF Low, TextInv
<1>9. Within(Fresh(n), Low, offered')
  BY <1>1, <1>2, <1>8 DEF Within
<1>10. /\ Within(pending, Low, offered')
       /\ \A i \in Links : Within(chunk[i], Low, offered')
  <2>1. /\ Within(pending, Low, offered)
        /\ \A i \in Links : Within(chunk[i], Low, offered)
    BY DEF TextInv, Low
  <2>2. /\ \A p \in DOMAIN pending : pending[p] \in Nat
        /\ \A i \in Links : \A p \in DOMAIN chunk[i] : chunk[i][p] \in Nat
    BY ElementOfSeq, LenProperties DEF AppenderTypeOK
  <2> QED  BY <1>1, <1>2, <2>1, <2>2 DEF Within
<1>11. Within(pending', Low, offered')
  BY <1>1, <1>2, <1>4, <1>8, <1>9, <1>10, WithinConcat
<1>12. TextInv'
  <2>1. ticket' <= links' /\ mark' <= offered'
    BY <1>1, <1>2, <1>3 DEF TextInv, Chain, AppenderTypeOK
  <2>2. offered' = Len(document') + dropped' + Len(Unsettled')
    BY <1>1, <1>2, <1>3, <1>4, <1>6, ConcatProperties, LenProperties
    DEF TextInv, AppenderTypeOK, Unsettled
  <2> QED  BY <1>3, <1>8, <1>10, <1>11, <2>1, <2>2 DEF TextInv, Low, DrainDone
<1> QED  BY <1>2, <1>3, <1>5, <1>12 DEF Fresh

LEMMA AppendDeltaText ==
  ASSUME AppenderTypeOK, ChainInv, TextInv, AppendDelta
  PROVE  /\ ChainInv' /\ TextInv'
         /\ Unsettled' = Unsettled \o [p \in 1 .. offered' - offered |-> offered + p]
<1>1. PICK n \in 1 .. MaxText - offered : AppendText(n)
  BY DEF AppendDelta
<1>2. n \in Nat
  BY AppenderAssumption DEF AppenderTypeOK
<1> QED  BY <1>1, <1>2, AppendTextText

LEMMA CallsText ==
  ASSUME AppenderTypeOK, ChainInv, TextInv, Drain \/ DrainReturns
  PROVE  /\ ChainInv' /\ TextInv'
         /\ UNCHANGED <<offered, document, dropped>> /\ Unsettled' = Unsettled
<1>1. Low \in Nat /\ mark \in Nat /\ offered \in Nat
  BY DEF Low, AppenderTypeOK
<1>2. /\ \A p \in DOMAIN pending : pending[p] \in Nat
      /\ \A i \in Links : \A p \in DOMAIN chunk[i] : chunk[i][p] \in Nat
  BY ElementOfSeq, LenProperties DEF AppenderTypeOK
<1>3. CASE Drain
  <2>1. /\ Chain /\ ticket' = links + 1 /\ mark' = offered
        /\ UNCHANGED <<offered, pending, chunk, failures, document, dropped>>
    BY <1>3 DEF Drain
  <2>2. ChainInv' /\ InFlight' = InFlight
    BY <2>1, ChainGrows
  <2>3. Unsettled' = Unsettled
    BY <2>1, <2>2 DEF Unsettled
  <2>4. ticket' \in Links /\ stage'[ticket'] = "queued" /\ ticket' = links'
    BY <2>1, AppenderAssumption DEF Chain, AppenderTypeOK, Links
  <2>5. ~DrainDone' /\ ~DrainDone
    BY <1>3, <2>4 DEF DrainDone, Drain
  <2> QED  BY <1>1, <2>1, <2>2, <2>3, <2>4, <2>5 DEF TextInv, Within, AppenderTypeOK
<1>4. CASE DrainReturns
  <2>1. DrainDone /\ ticket' = 0 /\ UNCHANGED <<offered, links, mark, flushVars>>
    BY <1>4 DEF DrainReturns
  <2>2. ChainInv' /\ Unsettled' = Unsettled
    BY <2>1 DEF flushVars, ChainInv, Unsettled, InFlight
  <2>3. ~DrainDone'
    BY <2>1 DEF DrainDone
  <2>4. Within(pending, 0, offered) /\ \A i \in Links : Within(chunk[i], 0, offered)
    BY <1>1, <1>2, <2>1 DEF TextInv, Within
  <2>5. 0 <= links'
    BY <2>1 DEF AppenderTypeOK
  <2> QED  BY <2>1, <2>2, <2>3, <2>4, <2>5 DEF TextInv, Within, flushVars
<1> QED  BY <1>3, <1>4

(* What a module needs that drives the appender with bounds of its own: a  *)
(* step of the chain hands the same text on, an append adds the newest.    *)
LEMMA FlushWithin ==
  ASSUME AppenderTypeOK, ChainInv, NEW i \in Links, Flush(i), NEW low \in Nat,
         NEW high \in Nat,
         Within(pending, low, high), \A j \in Links : Within(chunk[j], low, high)
  PROVE  /\ Within(pending', low, high)
         /\ \A j \in Links : Within(chunk'[j], low, high)
<1>1. PICK text \in {pending, chunk[i] \o pending} : Loop(i, text)
  BY DEF Flush, Start, EditSettles, EditApplied, EditRejected, GiveUp
<1>2. Within(text, low, high)
  BY <1>1, WithinConcat DEF AppenderTypeOK
<1>3. pending' = <<>> /\ chunk' = [chunk EXCEPT ![i] = text]
  BY <1>1 DEF Loop
<1>4. Within(<<>>, low, high)
  BY DEF Within
<1> QED  BY <1>2, <1>3, <1>4 DEF AppenderTypeOK

LEMMA AppendWithin ==
  ASSUME AppenderTypeOK, NEW n \in Nat, AppendText(n), NEW low \in Nat, low <= offered,
         Within(pending, low, offered),
         \A j \in Links : Within(chunk[j], low, offered)
  PROVE  /\ Within(pending', low, offered')
         /\ \A j \in Links : Within(chunk'[j], low, offered')
<1>1. /\ offered' = offered + n /\ pending' = pending \o Fresh(n) /\ chunk' = chunk
      /\ offered \in Nat /\ pending \in Seq(Nat)
  BY DEF AppendText, Fresh, AppenderTypeOK
<1>2. /\ Fresh(n) \in Seq(Nat) /\ Len(Fresh(n)) = n /\ DOMAIN Fresh(n) = 1 .. n
      /\ \A p \in 1 .. n : Fresh(n)[p] = offered + p
  BY <1>1, FreshText DEF Fresh
<1>3. Within(Fresh(n), low, offered + n)
  BY <1>1, <1>2 DEF Within
<1>4. /\ \A p \in DOMAIN pending : pending[p] \in Nat
      /\ \A j \in Links : \A p \in DOMAIN chunk[j] : chunk[j][p] \in Nat
  BY ElementOfSeq, LenProperties DEF AppenderTypeOK
<1>5. /\ Within(pending, low, offered + n)
      /\ \A j \in Links : Within(chunk[j], low, offered + n)
  BY <1>1, <1>4 DEF Within
<1>6. Within(pending \o Fresh(n), low, offered + n)
  BY <1>1, <1>2, <1>3, <1>5, WithinConcat
<1> QED  BY <1>1, <1>5, <1>6

(* Where nothing is left to write, the document stays as it is.            *)
LEMMA NothingHeld ==
  ASSUME AppenderTypeOK, ChainInv,
         Within(pending, offered, offered),
         \A j \in Links : Within(chunk[j], offered, offered)
  PROVE  /\ Unsettled = <<>>
         /\ \A i \in Links : Flush(i) => UNCHANGED <<document, dropped>>
<1>1. offered \in Nat /\ pending \in Seq(Nat) /\ \A j \in Links : chunk[j] \in Seq(Nat)
  BY DEF AppenderTypeOK
<1>2. ASSUME NEW s \in Seq(Nat), Within(s, offered, offered) PROVE s = <<>>
  <2>1. \A p \in DOMAIN s : s[p] \in Nat
    BY ElementOfSeq, LenProperties
  <2>2. DOMAIN s = {}
    BY <1>1, <1>2, <2>1 DEF Within
  <2> QED  BY <2>2, LenProperties, EmptySeq
<1>3. pending = <<>> /\ \A j \in Links : chunk[j] = <<>>
  BY <1>1, <1>2
<1>4. \A j \in Links : stage[j] # "editing"
  BY <1>3 DEF ChainInv
<1>5. Unsettled = <<>>
  BY <1>3, <1>4 DEF Unsettled, InFlight
<1>6. ASSUME NEW i \in Links, Flush(i) PROVE UNCHANGED <<document, dropped>>
  BY <1>4, <1>6 DEF Flush, Start, EditSettles, EditApplied, EditRejected,
                    GiveUp
<1> QED  BY <1>5, <1>6

(* The chain runs in order and no character goes missing uncounted.        *)
THEOREM AppenderCorrect == AppenderSpec => []AppenderInv
<1>1. AppenderInit => AppenderInv
  <2> SUFFICES ASSUME AppenderInit  PROVE AppenderInv
    OBVIOUS
  <2>1. \A i \in Links : i > 0 /\ stage[i] = "unborn" /\ chunk[i] = <<>>
    BY DEF AppenderInit, Links
  <2>2. InFlight = <<>> /\ Unsettled = <<>>
    BY <2>1 DEF AppenderInit, InFlight, Unsettled
  <2> QED  BY <2>1, <2>2 DEF AppenderInit, AppenderInv, ChainInv, TextInv,
                             DrainDone, Within
<1>2. AppenderTypeOK /\ AppenderInv /\ [AppenderNext]_appenderVars => AppenderInv'
  <2> SUFFICES ASSUME AppenderTypeOK, ChainInv, TextInv, [AppenderNext]_appenderVars
               PROVE  ChainInv' /\ TextInv'
    BY DEF AppenderInv
  <2>1. CASE AppendDelta
    BY <2>1, AppendDeltaText
  <2>2. CASE Drain \/ DrainReturns
    BY <2>2, CallsText
  <2>3. ASSUME NEW i \in Links, Flush(i)  PROVE ChainInv' /\ TextInv'
    BY <2>3, FlushText
  <2>4. CASE UNCHANGED appenderVars
    BY <2>4 DEF appenderVars, flushVars, ChainInv, TextInv, DrainDone, Within,
                Unsettled, InFlight
  <2> QED  BY <2>1, <2>2, <2>3, <2>4 DEF AppenderNext
<1> QED  BY <1>1, <1>2, AppenderTypeCorrect, PTL DEF AppenderSpec

(* Exactly one edit is ever in flight. *)
THEOREM OneEdit == AppenderSpec => []OneEditInFlight
<1>1. ChainInv => OneEditInFlight
  <2> SUFFICES ASSUME ChainInv  PROVE OneEditInFlight
    OBVIOUS
  <2> DEFINE editing == {i \in Links : stage[i] = "editing"}
  <2>1. CASE editing = {}
    BY <2>1, FS_EmptySet DEF OneEditInFlight
  <2>2. ASSUME NEW i \in editing  PROVE Cardinality(editing) = 1
    <3>1. editing = {i}
      BY <2>2, OneEditing
    <3> HIDE DEF editing
    <3> QED  BY <3>1, FS_Singleton
  <2> QED  BY <2>1, <2>2 DEF OneEditInFlight
<1> QED  BY <1>1, AppenderCorrect, PTL DEF AppenderInv

LEMMA UnsettledWithin ==
  ASSUME AppenderTypeOK, TextInv
  PROVE  Unsettled \in Seq(Nat) /\ Within(Unsettled, Low, offered)
<1>1. Low \in Nat /\ offered \in Nat /\ pending \in Seq(Nat)
  BY DEF Low, AppenderTypeOK
<1>2. InFlight \in Seq(Nat) /\ Within(InFlight, Low, offered)
  BY EmptySeq DEF InFlight, AppenderTypeOK, TextInv, Low, Within
<1> QED  BY <1>1, <1>2, WithinConcat, ConcatProperties DEF Unsettled, TextInv, Low

(* drain() returns only when everything appended before it is settled.     *)
THEOREM DrainWaits == AppenderSpec => []DrainCovers
<1>1. AppenderTypeOK /\ AppenderInv => DrainCovers
  BY UnsettledWithin DEF AppenderInv, DrainCovers, Within, Low
<1> QED  BY <1>1, AppenderTypeCorrect, AppenderCorrect, PTL

(* What the extension warns about after the last drain() is exact.         *)
THEOREM LossExact == AppenderSpec => []LossIsCounted
<1>1. AppenderTypeOK /\ AppenderInv => LossIsCounted
  <2> SUFFICES ASSUME AppenderTypeOK, TextInv, DrainDone, offered = mark
               PROVE  dropped = offered - Len(document)
    BY DEF AppenderInv, LossIsCounted
  <2>1. Unsettled \in Seq(Nat) /\ Within(Unsettled, mark, mark) /\ mark \in Nat
    BY UnsettledWithin DEF Low, AppenderTypeOK
  <2>2. \A p \in DOMAIN Unsettled : Unsettled[p] \in Nat
    BY <2>1, ElementOfSeq, LenProperties
  <2>3. DOMAIN Unsettled = {}
    BY <2>1, <2>2 DEF Within
  <2>4. Len(Unsettled) = 0
    BY <2>1, <2>3, LenProperties
  <2> QED  BY <2>4, LenProperties DEF TextInv, AppenderTypeOK
<1> QED  BY <1>1, AppenderTypeCorrect, AppenderCorrect, PTL

-----------------------------------------------------------------------------
(* The chain implements OrderedWriter. *)

LEMMA FrontLeaves ==
  ASSUME NEW s \in Seq(Nat), NEW t \in Seq(Nat), s # <<>>, Unsettled = s \o t
  PROVE  /\ Len(s) \in 1 .. Len(Unsettled)
         /\ SubSeq(Unsettled, 1, Len(s)) = s
         /\ SubSeq(Unsettled, Len(s) + 1, Len(Unsettled)) = t
<1>1. /\ Len(s) \in Nat \ {0} /\ Len(t) \in Nat /\ Unsettled \in Seq(Nat)
      /\ Len(Unsettled) = Len(s) + Len(t)
  BY EmptySeq, LenProperties, ConcatProperties
<1>2. SubSeq(Unsettled, 1, Len(s)) = SubSeq(s, 1, Len(s))
  BY <1>1, SubSeqOfConcat1
<1>3. SubSeq(s, 1, Len(s)) = s
  BY <1>1, SubSeqFull
<1>4. SubSeq(Unsettled, Len(s) + 1, Len(Unsettled)) = t
  <2>1. CASE t = <<>>
    BY <1>1, <2>1, SubSeqEmpty
  <2>2. CASE t # <<>>
    <3>1. Len(t) \in Nat \ {0}
      BY <1>1, <2>2, EmptySeq
    <3>2. SubSeq(Unsettled, Len(s) + 1, Len(s) + Len(t)) = SubSeq(t, 1, Len(t))
      BY <1>1, <3>1, SubSeqOfConcat2
    <3> QED  BY <1>1, <3>2, SubSeqFull
  <2> QED  BY <2>1, <2>2
<1> QED  BY <1>1, <1>2, <1>3, <1>4

LEMMA FlushWrites ==
  ASSUME AppenderTypeOK, AppenderInv, NEW i \in Links, Flush(i)
  PROVE  [Writer!Next]_(Writer!vars)
<1>1. chunk[i] \in Seq(Nat) /\ pending \in Seq(Nat) /\ chunk[i] \o pending \in Seq(Nat)
  BY ConcatProperties DEF AppenderTypeOK
<1>2. InFlight = chunk[i] /\ Unsettled = chunk[i] \o pending
  BY StepsAlone, InFlightIs DEF AppenderInv, Unsettled
<1>3. UNCHANGED <<offered, links>>
  BY DEF Flush, Start, EditSettles, EditApplied, EditRejected, GiveUp
<1>4. ASSUME NEW text \in Seq(Nat), Loop(i, text)  PROVE Unsettled' = text
  <2>1. InFlight' = text /\ pending' = <<>>
    BY <1>3, <1>4, LoopChain DEF AppenderInv
  <2> QED  BY <1>4, <2>1, ConcatEmptySeq DEF Unsettled
<1>5. CASE Start(i)
  <2>1. chunk[i] = <<>>
    BY <1>5 DEF Start, AppenderInv, ChainInv
  <2>2. Unsettled = pending
    BY <1>1, <1>2, <2>1, ConcatEmptySeq
  <2> QED  BY <1>1, <1>3, <1>4, <1>5, <2>2 DEF Start, Writer!vars
<1>6. CASE EditApplied(i)
  <2>1. chunk[i] # <<>> /\ Loop(i, pending)
    BY <1>6 DEF EditApplied, AppenderInv, ChainInv
  <2>2. Unsettled' = pending
    BY <1>1, <1>4, <2>1
  <2>3. /\ Len(chunk[i]) \in 1 .. Len(Unsettled)
        /\ SubSeq(Unsettled, 1, Len(chunk[i])) = chunk[i]
        /\ SubSeq(Unsettled, Len(chunk[i]) + 1, Len(Unsettled)) = pending
    BY <1>1, <1>2, <2>1, FrontLeaves
  <2>4. document' = document \o chunk[i] /\ dropped' = dropped
    BY <1>6 DEF EditApplied
  <2>5. Writer!Write
    BY <1>3, <2>2, <2>3, <2>4 DEF Writer!Write, Writer!Settle, Writer!Front
  <2> QED  BY <2>5 DEF Writer!Next
<1>7. CASE EditRejected(i)
  <2>1. Loop(i, chunk[i] \o pending) /\ UNCHANGED <<document, dropped>>
    BY <1>7 DEF EditRejected
  <2> QED  BY <1>1, <1>2, <1>3, <1>4, <2>1 DEF Writer!vars
<1>8. CASE GiveUp(i)
  <2>1. chunk[i] # <<>> /\ Loop(i, pending)
    BY <1>8 DEF GiveUp, AppenderInv, ChainInv
  <2>2. Unsettled' = pending
    BY <1>1, <1>4, <2>1
  <2>3. /\ Len(chunk[i]) \in 1 .. Len(Unsettled)
        /\ SubSeq(Unsettled, Len(chunk[i]) + 1, Len(Unsettled)) = pending
    BY <1>1, <1>2, <2>1, FrontLeaves
  <2>4. document' = document /\ dropped' = dropped + Len(chunk[i])
    BY <1>8 DEF GiveUp
  <2>5. Writer!GiveUp
    BY <1>3, <2>2, <2>3, <2>4 DEF Writer!GiveUp, Writer!Settle
  <2> QED  BY <2>5 DEF Writer!Next
<1> QED  BY <1>5, <1>6, <1>7, <1>8 DEF Flush, EditSettles

LEMMA WriterStarts == AppenderInit => Writer!Init
<1> SUFFICES ASSUME AppenderInit PROVE Writer!Init
  OBVIOUS
<1>1. InFlight = <<>>
  BY DEF AppenderInit, InFlight
<1> QED  BY <1>1 DEF AppenderInit, Unsettled, Writer!Init

(* The chain writes what was appended in order, once, and counts the rest. *)
THEOREM AppenderKeepsOrder == AppenderSpec => KeepsOrder
<1>1. AppenderTypeOK /\ AppenderInv /\ [AppenderNext]_appenderVars
        => [Writer!Next]_(Writer!vars)
  <2> SUFFICES ASSUME AppenderTypeOK, AppenderInv, [AppenderNext]_appenderVars
               PROVE  [Writer!Next]_(Writer!vars)
    OBVIOUS
  <2>1. CASE AppendDelta
    <3>1. Unsettled' = Unsettled \o [p \in 1 .. offered' - offered |-> offered + p]
      BY <2>1, AppendDeltaText DEF AppenderInv
    <3>2. /\ offered' \in Nat /\ offered' >= offered
          /\ UNCHANGED <<document, dropped>>
      BY <2>1, AppenderAssumption DEF AppendDelta, AppendText, AppenderTypeOK
    <3>3. Writer!Offer
      BY <3>1, <3>2 DEF Writer!Offer
    <3> QED  BY <3>3 DEF Writer!Next
  <2>2. CASE Drain \/ DrainReturns
    BY <2>2, CallsText DEF AppenderInv, Writer!vars
  <2>3. ASSUME NEW i \in Links, Flush(i)  PROVE [Writer!Next]_(Writer!vars)
    BY <2>3, FlushWrites
  <2>4. CASE UNCHANGED appenderVars
    BY <2>4 DEF appenderVars, flushVars, Writer!vars, Unsettled, InFlight
  <2> QED  BY <2>1, <2>2, <2>3, <2>4 DEF AppenderNext
<1> QED  BY <1>1, WriterStarts, AppenderTypeCorrect, AppenderCorrect, PTL
         DEF AppenderSpec, KeepsOrder, Writer!Spec

-----------------------------------------------------------------------------
(* The appender of an invocation. *)
Appender == AppenderTypeOK /\ AppenderInv

(* A step of the appender that an invocation takes.                        *)
AppenderStep == AppendText(1) \/ Drain \/ DrainReturns
              \/ \E i \in Links : Flush(i)

LEMMA AppenderKept ==
  ASSUME Appender, AppenderStep
  PROVE  Appender'
<1>1. AppenderTypeOK /\ ChainInv /\ TextInv
  BY DEF Appender, AppenderInv
<1>2. AppenderTypeOK'
  BY <1>1, AppendTextType, CallsType, FlushType DEF AppenderStep
<1>3. ChainInv' /\ TextInv'
  BY <1>1, AppendTextText, CallsText, FlushText DEF AppenderStep
<1> QED
  BY <1>2, <1>3 DEF Appender, AppenderInv

-----------------------------------------------------------------------------
(* Type correctness. *)
LEMMA ScriptIs ==
  ASSUME TypeOK
  PROVE  /\ script \in Seq(Event) /\ Len(script) \in Nat
         /\ DOMAIN script = 1 .. Len(script)
         /\ \A i \in 1 .. Len(script) : script[i] \in Event
<1>1. script \in Seq(Event)
  BY InvocationAssumption DEF TypeOK
<1> QED
  BY <1>1, LenProperties, ElementOfSeq

LEMMA CountsAre ==
  ASSUME TypeOK
  PROVE  /\ offered \in Nat /\ streamed \in Nat /\ streamed <= offered
         /\ handled \in Nat /\ received \in Nat /\ dropped \in Nat /\ mark \in Nat
BY ScriptIs DEF TypeOK, AppenderTypeOK

(* A step that leaves the appender alone.                                  *)
LEMMA AppenderRests ==
  ASSUME Appender, UNCHANGED appenderVars
  PROVE  Appender'
BY DEF appenderVars, flushVars, Appender, AppenderTypeOK, AppenderInv, ChainInv, TextInv,
       Within, DrainDone, Unsettled, InFlight

(* A link of the chain changes nothing of the callers'.                    *)
LEMMA FlushLeaves ==
  ASSUME NEW i \in Links, Flush(i)
  PROVE  UNCHANGED <<offered, links, ticket, mark>>
BY DEF Flush, Start, EditSettles, EditApplied, EditRejected, GiveUp

(* What handleFrame needs of its caller, and leaves alone.                 *)
LEMMA FrameType ==
  ASSUME TypeOK, Appender, HandleFrame, received = handled + 1
  PROVE  /\ Appender'
         /\ handled' = received
         /\ status' \in {"incomplete", "completed", "failed", "client_disconnected"}
         /\ usage' \in BOOLEAN
         /\ streamed' \in 0 .. offered'
<1> DEFINE event == script[handled + 1]
<1>1. /\ status' \in {"incomplete", "completed", "failed", "client_disconnected"}
      /\ usage' \in BOOLEAN
  BY DEF HandleFrame, Verdict, TypeOK
<1>2. CASE event = "delta"
  <2>1. AppendText(1) /\ streamed' = streamed + 1
    BY <1>2 DEF HandleFrame
  <2>2. Appender' /\ offered' = offered + 1
    BY <2>1, AppenderKept DEF AppenderStep, AppendText
  <2> QED
    BY <1>1, <2>1, <2>2, CountsAre DEF HandleFrame
<1>3. CASE event # "delta"
  <2>1. UNCHANGED <<appenderVars, streamed>>
    BY <1>3 DEF HandleFrame
  <2>2. Appender'
    BY <2>1, AppenderRests
  <2> QED
    BY <1>1, <2>1, <2>2, CountsAre DEF HandleFrame, appenderVars, flushVars
<1> QED
  BY <1>2, <1>3

LEMMA TypeStep == TypeOK /\ Appender /\ [Next]_vars => TypeOK' /\ Appender'
<1> SUFFICES ASSUME TypeOK, Appender, [Next]_vars PROVE TypeOK' /\ Appender'
  OBVIOUS
<1>0. ASSUME Appender' PROVE AppenderTypeOK'
  BY <1>0 DEF Appender
<1>1. CASE AcquireToken \/ OpenResultDocument \/ Post \/ FetchSettles \/ StreamBreaks
  <2>1. UNCHANGED <<appenderVars, streamVars, aborted>> /\ told' \subseteq Messages
    BY <1>1 DEF AcquireToken, OpenResultDocument, Post, FetchSettles, StreamBreaks, Go, End,
                TypeOK, Messages
  <2>2. pc' \in {"open", "post", "fetch", "stream", "ended"}
    BY <1>1 DEF AcquireToken, OpenResultDocument, Post, FetchSettles, StreamBreaks, Go, End
  <2> QED
    BY <1>0, <2>1, <2>2, AppenderRests DEF TypeOK, appenderVars, flushVars, streamVars
<1>2. CASE Cancel \/ StreamAborted
  BY <1>0, <1>2, AppenderRests DEF Cancel, StreamAborted, TypeOK, appenderVars, flushVars, streamVars
<1>3. CASE Receive
  BY <1>0, <1>3, AppenderRests, ScriptIs, CountsAre DEF Receive, TypeOK, appenderVars, flushVars
<1>4. CASE Dispatch
  BY <1>0, <1>4, FrameType, CountsAre DEF Dispatch, TypeOK
<1>5. CASE StreamEnds
  <2>1. CASE received = handled + 1
    BY <1>0, <1>5, <2>1, FrameType, CountsAre DEF StreamEnds, TypeOK
  <2>2. CASE received # handled + 1
    BY <1>0, <1>5, <2>2, AppenderRests DEF StreamEnds, TypeOK, appenderVars, flushVars
  <2> QED
    BY <2>1, <2>2
<1>6. CASE AppendFooter
  <2>1. Appender' /\ offered' = offered + 1
    BY <1>6, AppenderKept DEF AppendFooter, AppenderStep, AppendText
  <2> QED
    BY <1>0, <1>6, <2>1, CountsAre DEF AppendFooter, TypeOK, streamVars
<1>7. CASE DrainText \/ TextDrained \/ DrainFooter \/ Report
  <2>1. Drain \/ DrainReturns
    BY <1>7 DEF DrainText, TextDrained, DrainFooter, Report
  <2>2. Appender' /\ offered' = offered
    BY <2>1, AppenderKept DEF AppenderStep, Drain, DrainReturns
  <2>3. UNCHANGED <<streamVars, aborted>> /\ told' \subseteq Messages
    BY <1>7 DEF DrainText, TextDrained, DrainFooter, Report, TypeOK, Messages
  <2>4. pc' \in {"draining", "footer", "draining_footer", "ended"}
    BY <1>7 DEF DrainText, TextDrained, DrainFooter, Report
  <2> QED
    BY <1>0, <2>2, <2>3, <2>4 DEF TypeOK, streamVars
<1>8. ASSUME NEW i \in Links, Write(i) PROVE TypeOK' /\ Appender'
  <2>1. Appender' /\ offered' = offered
    BY <1>8, AppenderKept, FlushLeaves DEF Write, AppenderStep
  <2> QED
    BY <1>0, <1>8, <2>1 DEF Write, TypeOK, streamVars
<1>9. CASE UNCHANGED vars
  BY <1>0, <1>9, AppenderRests DEF vars, TypeOK, appenderVars, flushVars, streamVars
<1> QED
  BY <1>1, <1>2, <1>3, <1>4, <1>5, <1>6, <1>7, <1>8, <1>9 DEF Next, Client, Server, Writes

LEMMA AppenderStarts == Init => Appender
<1> SUFFICES ASSUME Init PROVE Appender
  OBVIOUS
<1>1. AppenderTypeOK
  BY AppenderAssumption, EmptySeq DEF Init, AppenderInit, AppenderTypeOK, Links
<1>2. \A i \in Links : i > 0 /\ stage[i] = "unborn" /\ chunk[i] = <<>>
  BY DEF Init, AppenderInit, Links
<1>3. InFlight = <<>> /\ Unsettled = <<>>
  BY <1>2 DEF Init, AppenderInit, InFlight, Unsettled
<1>4. ChainInv /\ TextInv
  BY <1>2, <1>3 DEF Init, AppenderInit, ChainInv, TextInv, DrainDone, Within
<1> QED
  BY <1>1, <1>4 DEF Appender, AppenderInv

(* runInvocation, the accumulator and the appender keep their types, and   *)
(* the appender, driven from here, its invariant.                          *)
THEOREM TypeCorrect == Spec => [](TypeOK /\ Appender)
<1>1. Init => TypeOK /\ Appender
  <2> SUFFICES ASSUME Init PROVE TypeOK /\ Appender
    OBVIOUS
  <2>1. script \in Scripts /\ Len(script) \in Nat
    BY InvocationAssumption, LenProperties DEF Init
  <2>2. Appender /\ AppenderTypeOK
    BY AppenderStarts DEF Appender
  <2>3. offered = 0
    BY DEF Init, AppenderInit
  <2>4. /\ received \in 0 .. Len(script) /\ handled \in 0 .. received
        /\ received <= handled + 1 /\ streamed \in 0 .. offered
    BY <2>1, <2>3 DEF Init
  <2>5. told \subseteq Messages
    BY DEF Init
  <2>6. /\ pc \in {"token", "open", "post", "fetch", "stream", "drain", "draining",
                   "footer", "drain_footer", "draining_footer", "ended"}
        /\ aborted \in BOOLEAN /\ usage \in BOOLEAN
        /\ status \in {"incomplete", "completed", "failed", "client_disconnected"}
    BY DEF Init
  <2> QED
    BY <2>1, <2>2, <2>4, <2>5, <2>6 DEF TypeOK
<1>2. QED
  BY <1>1, TypeStep, PTL DEF Spec

-----------------------------------------------------------------------------
(* The invocation's appender still implements OrderedWriter. *)
LEMMA WriterStep ==
  ASSUME Appender, AppenderStep
  PROVE  [Writer!Next]_(Writer!vars)
<1>1. AppenderTypeOK /\ AppenderInv /\ ChainInv /\ TextInv
  BY DEF Appender, AppenderInv
<1>2. CASE AppendText(1)
  <2>1. Unsettled' = Unsettled \o [p \in 1 .. offered' - offered |-> offered + p]
    BY <1>1, <1>2, AppendTextText
  <2>2. offered' \in Nat /\ offered' >= offered /\ UNCHANGED <<document, dropped>>
    BY <1>1, <1>2 DEF AppendText, AppenderTypeOK
  <2> QED  BY <2>1, <2>2 DEF Writer!Offer, Writer!Next
<1>3. CASE Drain \/ DrainReturns
  BY <1>1, <1>3, CallsText DEF Writer!vars
<1> QED  BY <1>1, <1>2, <1>3, FlushWrites DEF AppenderStep

LEMMA InvocationDrives ==
  ASSUME [Next]_vars
  PROVE  AppenderStep \/ UNCHANGED appenderVars
<1>1. CASE Dispatch \/ StreamEnds
  BY <1>1 DEF Dispatch, StreamEnds, HandleFrame, AppenderStep
<1>2. CASE AppendFooter \/ DrainText \/ TextDrained \/ DrainFooter \/ Report \/ Writes
  BY <1>2 DEF AppendFooter, DrainText, TextDrained, DrainFooter, Report, Writes, Write,
     AppenderStep
<1>3. CASE AcquireToken \/ OpenResultDocument \/ Post \/ FetchSettles \/ StreamAborted
           \/ StreamBreaks \/ Receive \/ Cancel \/ UNCHANGED vars
  BY <1>3 DEF AcquireToken, OpenResultDocument, Post, FetchSettles, StreamAborted, StreamBreaks,
     Receive, Cancel, Go, End, vars
<1> QED  BY <1>1, <1>2, <1>3 DEF Next, Client, Server

LEMMA InvocationWrites ==
  ASSUME Appender, [Next]_vars
  PROVE  [Writer!Next]_(Writer!vars)
<1>1. CASE UNCHANGED appenderVars
  BY <1>1 DEF appenderVars, flushVars, Writer!vars, Unsettled, InFlight
<1> QED  BY <1>1, InvocationDrives, WriterStep

(* Whatever the stream brings, the user cancels or the editor refuses, the *)
(* text of an invocation reaches the document in its order, once, or is    *)
(* counted as lost.                                                        *)
THEOREM InvocationKeepsOrder == Spec => KeepsOrder
<1>1. Init => Writer!Init
  BY WriterStarts DEF Init
<1>2. TypeOK /\ Appender /\ [Next]_vars => [Writer!Next]_(Writer!vars)
  BY InvocationWrites
<1> QED  BY <1>1, <1>2, TypeCorrect, PTL DEF Spec, KeepsOrder, Writer!Spec

-----------------------------------------------------------------------------
(* While nothing is given up, nothing is out of place. *)
LEMMA TextIs ==
  ASSUME NEW n \in Nat
  PROVE  /\ Text(n) \in Seq(Nat) /\ Len(Text(n)) = n
         /\ \A i \in 1 .. n : Text(n)[i] = i
<1>1. \A i \in 1 .. n : i \in Nat
  OBVIOUS
<1>2. Text(n) \in Seq(Nat)
  BY <1>1, IsASeq DEF Text
<1> QED  BY <1>2 DEF Text

LEMMA Joined ==
  ASSUME NEW s \in Seq(Nat), NEW t \in Seq(Nat), NEW u \in Seq(Nat),
         Len(u) = Len(s) + Len(t),
         \A i \in 1 .. Len(s) : u[i] = s[i],
         \A i \in 1 .. Len(t) : u[Len(s) + i] = t[i]
  PROVE  s \o t = u
<1>1. Len(s) \in Nat /\ Len(t) \in Nat
  BY LenProperties
<1>2. s \o t \in Seq(Nat) /\ Len(s \o t) = Len(u)
  BY ConcatProperties
<1>3. ASSUME NEW i \in 1 .. Len(s \o t) PROVE (s \o t)[i] = u[i]
  <2>1. i \in 1 .. Len(s) + Len(t)
    BY <1>2
  <2>2. (s \o t)[i] = IF i <= Len(s) THEN s[i] ELSE t[i - Len(s)]
    BY <2>1, ConcatProperties
  <2>3. CASE i <= Len(s)
    BY <1>1, <2>1, <2>2, <2>3
  <2>4. CASE i > Len(s)
    <3>1. PICK k \in 1 .. Len(t) : i = Len(s) + k
      <4>1. i - Len(s) \in 1 .. Len(t) /\ i = Len(s) + (i - Len(s))
        BY <1>1, <2>1, <2>4
      <4> QED  BY <4>1
    <3>2. (s \o t)[i] = t[k]
      <4>1. i - Len(s) = k /\ ~(i <= Len(s))
        BY <1>1, <3>1
      <4> QED  BY <2>2, <4>1
    <3> QED  BY <3>1, <3>2
  <2> QED  BY <1>1, <2>1, <2>3, <2>4
<1> QED  BY <1>2, <1>3, SeqEqual

LEMMA TextGrows ==
  ASSUME NEW n \in Nat, NEW m \in Nat, m >= n
  PROVE  /\ [i \in 1 .. m - n |-> n + i] \in Seq(Nat)
         /\ Text(n) \o [i \in 1 .. m - n |-> n + i] = Text(m)
<1> DEFINE more == [i \in 1 .. m - n |-> n + i]
<1>1. m - n \in Nat /\ n + (m - n) = m
  OBVIOUS
<1>2. more \in Seq(Nat) /\ Len(more) = m - n /\ \A i \in 1 .. m - n : more[i] = n + i
  <2>1. \A i \in 1 .. m - n : n + i \in Nat
    OBVIOUS
  <2>2. more \in Seq(Nat)
    BY <1>1, <2>1, IsASeq
  <2> QED  BY <1>1, <2>2
<1> HIDE DEF more
<1>3. \A i \in 1 .. n : Text(m)[i] = Text(n)[i]
  <2>1. \A i \in 1 .. n : i \in 1 .. m
    OBVIOUS
  <2> QED  BY <2>1, TextIs
<1>4. \A i \in 1 .. m - n : Text(m)[n + i] = more[i]
  <2>1. \A i \in 1 .. m - n : n + i \in 1 .. m
    OBVIOUS
  <2> QED  BY <1>2, <2>1, TextIs
<1>5. Text(n) \o more = Text(m)
  <2>1. Text(n) \in Seq(Nat) /\ Len(Text(n)) = n /\ Text(m) \in Seq(Nat) /\ Len(Text(m)) = m
    BY TextIs
  <2>2. Len(Text(m)) = Len(Text(n)) + Len(more)
    BY <1>1, <1>2, <2>1
  <2>3. \A i \in 1 .. Len(Text(n)) : Text(m)[i] = Text(n)[i]
    BY <1>3, <2>1
  <2>4. \A i \in 1 .. Len(more) : Text(m)[Len(Text(n)) + i] = more[i]
    BY <1>2, <1>4, <2>1
  <2> QED  BY <1>2, <2>1, <2>2, <2>3, <2>4, Joined
<1> QED  BY <1>2, <1>5 DEF more

LEMMA UnsettledType ==
  ASSUME AppenderTypeOK
  PROVE  Unsettled \in Seq(Nat)
<1>1. InFlight \in Seq(Nat)
  BY EmptySeq DEF InFlight, AppenderTypeOK
<1> QED  BY <1>1, ConcatProperties DEF Unsettled, AppenderTypeOK

LEMMA Divides ==
  ASSUME NEW s \in Seq(Nat), NEW n \in 1 .. Len(s)
  PROVE  /\ SubSeq(s, 1, n) \in Seq(Nat) /\ SubSeq(s, n + 1, Len(s)) \in Seq(Nat)
         /\ SubSeq(s, 1, n) \o SubSeq(s, n + 1, Len(s)) = s
<1> DEFINE front == SubSeq(s, 1, n)
           rest == SubSeq(s, n + 1, Len(s))
<1>1. Len(s) \in Nat /\ n \in Nat
  BY LenProperties
<1>2. front \in Seq(Nat) /\ Len(front) = n /\ \A i \in 1 .. n : front[i] = s[i]
  BY <1>1, SubSeqProperties
<1>3. /\ rest \in Seq(Nat) /\ Len(rest) = Len(s) - n
      /\ \A i \in 1 .. Len(s) - n : rest[i] = s[n + i]
  BY <1>1, SubSeqProperties
<1> HIDE DEF front, rest
<1>4. front \o rest = s
  <2>1. Len(s) = Len(front) + Len(rest)
    BY <1>1, <1>2, <1>3
  <2>2. \A i \in 1 .. Len(rest) : s[Len(front) + i] = rest[i]
    BY <1>2, <1>3
  <2>3. \A i \in 1 .. Len(front) : s[i] = front[i]
    BY <1>2
  <2> QED  BY <1>2, <1>3, <2>1, <2>2, <2>3, Joined
<1> QED  BY <1>2, <1>3, <1>4 DEF front, rest

LEMMA IntactStays ==
  ASSUME AppenderTypeOK, IntactInv, [Writer!Next]_(Writer!vars)
  PROVE  IntactInv'
<1>1. Unsettled \in Seq(Nat) /\ document \in Seq(Nat) /\ offered \in Nat /\ dropped \in Nat
  BY UnsettledType DEF AppenderTypeOK
<1>2. CASE Writer!Offer
  <2>0. offered' \in Nat /\ offered' >= offered
    BY <1>2 DEF Writer!Offer
  <2> DEFINE more == [i \in 1 .. offered' - offered |-> offered + i]
  <2>1. /\ Unsettled' = Unsettled \o more
        /\ document' = document /\ dropped' = dropped
    BY <1>2 DEF Writer!Offer
  <2>2. more \in Seq(Nat) /\ Text(offered) \o more = Text(offered')
    BY <1>1, <2>0, TextGrows
  <2> HIDE DEF more
  <2>4. (document \o Unsettled) \o more = document \o (Unsettled \o more)
    BY <1>1, <2>2, TextsAssociate
  <2> QED  BY <2>1, <2>2, <2>4 DEF IntactInv, Text
<1>3. CASE Writer!Write
  <2>1. PICK n \in 1 .. Len(Unsettled) :
          /\ Unsettled' = SubSeq(Unsettled, n + 1, Len(Unsettled))
          /\ document' = document \o SubSeq(Unsettled, 1, n)
          /\ UNCHANGED <<offered, dropped>>
    BY <1>3 DEF Writer!Write, Writer!Settle, Writer!Front
  <2> DEFINE front == SubSeq(Unsettled, 1, n)
             rest == SubSeq(Unsettled, n + 1, Len(Unsettled))
  <2>2. front \in Seq(Nat) /\ rest \in Seq(Nat) /\ front \o rest = Unsettled
    BY <1>1, <2>1, Divides
  <2>3. document' \o Unsettled' = document \o Unsettled
    <3> HIDE DEF front, rest
    <3>1. (document \o front) \o rest = document \o (front \o rest)
      BY <1>1, <2>2, TextsAssociate
    <3> QED  BY <2>1, <2>2, <3>1 DEF front, rest
  <2> QED  BY <2>1, <2>3 DEF IntactInv, Text
<1>4. CASE Writer!GiveUp
  <2>1. PICK n \in 1 .. Len(Unsettled) : dropped' = dropped + n
    BY <1>4 DEF Writer!GiveUp
  <2>2. Len(Unsettled) \in Nat
    BY <1>1, LenProperties
  <2>3. dropped' # 0
    BY <1>1, <2>1, <2>2
  <2> QED  BY <2>3 DEF IntactInv
<1>5. CASE UNCHANGED Writer!vars
  BY <1>5 DEF IntactInv, Writer!vars, Text
<1> QED  BY <1>2, <1>3, <1>4, <1>5 DEF Writer!Next

(* As long as nothing of an invocation's text is given up, the document    *)
(* and what is still to be written are that text, in its order.            *)
THEOREM InvocationIntact == Spec => []IntactInv
<1>1. Init => IntactInv
  <2> SUFFICES ASSUME AppenderInit PROVE IntactInv
    BY DEF Init
  <2>1. Unsettled = <<>> /\ document = <<>> /\ offered = 0
    BY WriterStarts DEF Writer!Init
  <2>2. Text(0) = <<>>
    BY TextIs, EmptySeq
  <2>3. <<>> \o <<>> = <<>>
    OBVIOUS
  <2> QED  BY <2>1, <2>2, <2>3 DEF IntactInv
<1>2. TypeOK /\ Appender /\ IntactInv /\ [Next]_vars => IntactInv'
  BY InvocationWrites, IntactStays DEF Appender
<1> QED  BY <1>1, <1>2, TypeCorrect, PTL DEF Spec

-----------------------------------------------------------------------------
(* What one more frame says. *)
LEMMA UptoGrows ==
  ASSUME NEW n \in Nat, NEW events
  PROVE  /\ Upto(n, events) \subseteq 1 .. n
         /\ script[n + 1] \in events => Upto(n + 1, events) = Upto(n, events) \cup {n + 1}
         /\ script[n + 1] \notin events => Upto(n + 1, events) = Upto(n, events)
BY DEF Upto

LEMMA UptoFinite ==
  ASSUME NEW n \in Nat, NEW events
  PROVE  /\ IsFiniteSet(Upto(n, events))
         /\ script[n + 1] \in events =>
              Cardinality(Upto(n + 1, events)) = Cardinality(Upto(n, events)) + 1
<1>1. IsFiniteSet(1 .. n)
  BY FS_Interval
<1>2. IsFiniteSet(Upto(n, events)) /\ n + 1 \notin Upto(n, events)
  BY <1>1, UptoGrows, FS_Subset
<1> QED
  BY <1>2, UptoGrows, FS_AddElement

LEMMA NewestIs ==
  ASSUME NEW n \in Nat, NEW events, script[n + 1] \in events, NEW i
  PROVE  Newest(i, Upto(n + 1, events)) <=> i = n + 1
<1>1. Upto(n + 1, events) = Upto(n, events) \cup {n + 1} /\ Upto(n, events) \subseteq 1 .. n
  BY UptoGrows
<1> QED
  BY <1>1 DEF Newest

(* A frame of the stream is heard once, for what it is.                    *)
LEMMA FrameHeard ==
  ASSUME TypeOK, DeltasAndUsage(handled), HandleFrame, handled < Len(script),
         UNCHANGED script
  PROVE  /\ DeltasAndUsage(handled)'
         /\ LastWord(handled) => LastWord(handled)'
<1>0. script[handled + 1] \in Event /\ handled \in Nat /\ streamed \in Nat
  BY ScriptIs, CountsAre
<1> DEFINE event == script[handled + 1]
<1>1. handled' = handled + 1
  BY DEF HandleFrame
<1>2. streamed' = Cardinality(Upto(handled + 1, {"delta"}))
  BY <1>0, UptoGrows, UptoFinite DEF HandleFrame, DeltasAndUsage
<1>3. usage' <=> \E i \in 1 .. handled + 1 :
                   Newest(i, Upto(handled + 1, Completion)) /\ script[i] = "completed"
  <2>1. CASE event \in Completion
    <3>1. \A i : Newest(i, Upto(handled + 1, Completion)) <=> i = handled + 1
      BY <1>0, <2>1, NewestIs
    <3>2. usage' <=> script[handled + 1] = "completed"
      BY <2>1 DEF HandleFrame, Completion
    <3>3. handled + 1 \in 1 .. handled + 1
      BY <1>0
    <3> QED
      BY <3>1, <3>2, <3>3
  <2>2. CASE event \notin Completion
    <3>1. /\ Upto(handled + 1, Completion) = Upto(handled, Completion)
          /\ Upto(handled, Completion) \subseteq 1 .. handled
      BY <1>0, <2>2, UptoGrows
    <3>2. usage' = usage
      BY <2>2 DEF HandleFrame, Completion
    <3> QED
      BY <1>0, <3>1, <3>2 DEF DeltasAndUsage, Newest
  <2> QED
    BY <2>1, <2>2
<1>4. ASSUME LastWord(handled)
      PROVE  /\ Upto(handled + 1, Final) = {} => status' = "incomplete"
             /\ \A i \in 1 .. handled + 1 :
                  Newest(i, Upto(handled + 1, Final)) => status' = Outcome(script[i])
  <2>1. CASE event \in Final
    <3>1. \A i : Newest(i, Upto(handled + 1, Final)) <=> i = handled + 1
      BY <1>0, <2>1, NewestIs
    <3>2. status' = Outcome(event)
      BY <2>1 DEF HandleFrame, Verdict, Outcome, Final, Completion
    <3>3. Upto(handled + 1, Final) # {}
      BY <1>0, <2>1, UptoGrows
    <3> QED
      BY <3>1, <3>2, <3>3
  <2>2. CASE event \notin Final
    <3>1. /\ Upto(handled + 1, Final) = Upto(handled, Final)
          /\ Upto(handled, Final) \subseteq 1 .. handled
      BY <1>0, <2>2, UptoGrows
    <3>2. status' = status
      BY <2>2 DEF HandleFrame, Verdict, Final, Completion
    <3> QED
      BY <1>0, <1>4, <3>1, <3>2 DEF LastWord, Newest
  <2> QED
    BY <2>1, <2>2
<1>5. \A events : Upto(handled, events)' = Upto(handled + 1, events)
  BY <1>1 DEF Upto
<1> QED
  BY <1>1, <1>2, <1>3, <1>4, <1>5 DEF DeltasAndUsage, LastWord, Newest

-----------------------------------------------------------------------------
(* What the appender still holds. *)
LEMMA FlushHeld ==
  ASSUME TypeOK, Appender, NEW i \in Links, Flush(i), NEW low \in Nat, Held(low)
  PROVE  Held(low)'
<1>1. AppenderTypeOK /\ ChainInv
  BY DEF Appender, AppenderInv
<1>2. offered' = offered /\ offered \in Nat
  BY FlushLeaves, CountsAre
<1>3. /\ Within(pending', low, offered)
      /\ \A j \in Links : Within(chunk'[j], low, offered)
  BY <1>1, <1>2, FlushWithin DEF Held
<1> QED
  BY <1>2, <1>3 DEF Held, Within

LEMMA AppendHeld ==
  ASSUME TypeOK, Appender, AppendText(1), NEW low \in Nat, low <= offered, Held(low)
  PROVE  Held(low)'
<1>1. /\ Within(pending', low, offered')
      /\ \A j \in Links : Within(chunk'[j], low, offered')
  BY AppendWithin DEF Appender, Held
<1> QED
  BY <1>1 DEF Held, Within

LEMMA Rests ==
  ASSUME NEW low, Held(low), UNCHANGED <<pending, chunk, offered>>
  PROVE  Held(low)'
BY DEF Held, Within

(* A drain() that has returned, and nothing appended since, leaves nothing *)
(* to write; and what is lost is then what the appender has counted.       *)
LEMMA Drained ==
  ASSUME TypeOK, Appender, DrainReturns, mark = offered
  PROVE  Held(offered)
BY DEF Appender, AppenderInv, TextInv, DrainReturns, Held

LEMMA NothingLeft ==
  ASSUME TypeOK, Appender, Held(offered)
  PROVE  /\ offered = Len(document) + dropped /\ Len(document) \in Nat
         /\ \A i \in Links : Flush(i) => UNCHANGED <<document, dropped>>
<1>1. AppenderTypeOK /\ ChainInv /\ TextInv
  BY DEF Appender, AppenderInv
<1>2. /\ Unsettled = <<>>
      /\ \A i \in Links : Flush(i) => UNCHANGED <<document, dropped>>
  BY <1>1, NothingHeld DEF Held
<1>3. offered = Len(document) + dropped + 0 /\ Len(document) \in Nat
  BY <1>1, <1>2, LenProperties DEF TextInv, AppenderTypeOK
<1> QED
  BY <1>2, <1>3, CountsAre

-----------------------------------------------------------------------------
(* The invariant holds throughout. *)
LEMMA InvocationStarts == Init => InvocationInv
<1> SUFFICES ASSUME Init PROVE InvocationInv
  OBVIOUS
<1>1. /\ pc = "token" /\ told = {} /\ offered = 0 /\ streamed = 0 /\ handled = 0
      /\ status = "incomplete" /\ usage = FALSE
  BY DEF Init, AppenderInit
<1>2. \A events : Upto(0, events) = {}
  BY DEF Upto
<1>3. StreamInv
  BY <1>1, <1>2, FS_EmptySet DEF StreamInv, DeltasAndUsage, LastWord, FooterAppended, Reported
<1>4. FooterInv /\ DrainInv /\ ToldInv
  BY <1>1 DEF FooterInv, DrainInv, ToldInv, FooterAppended, Reported
<1> QED
  BY <1>3, <1>4 DEF InvocationInv

(* Before the stream, and where the invocation fails.                      *)
LEMMA HeadStep ==
  ASSUME TypeOK, InvocationInv,
         AcquireToken \/ OpenResultDocument \/ Post \/ FetchSettles \/ StreamBreaks
  PROVE  InvocationInv'
<1>1. /\ pc \in {"token", "open", "post", "fetch", "stream"}
      /\ UNCHANGED <<appenderVars, streamVars>>
      /\ \/ pc' \in {"token", "open", "post", "fetch", "stream"} /\ told' = told
         \/ pc' = "ended" /\ \E m \in {"sign_in_cancelled", "auth_error", "gateway_error",
                                      "abort_error", "failure"} : m \in told'
  BY DEF AcquireToken, OpenResultDocument, Post, FetchSettles, StreamBreaks, Go, End
<1>2. ~FooterAppended /\ ~FooterAppended' /\ ~Reported'
  BY <1>1 DEF FooterAppended, Reported
<1>3. FooterInv' /\ DrainInv' /\ ToldInv'
  BY <1>1, <1>2 DEF InvocationInv, FooterInv, DrainInv, ToldInv, appenderVars, flushVars, streamVars
<1>4. DeltasAndUsage(handled)' /\ LastWord(handled)' /\ status' # "client_disconnected"
  BY <1>1 DEF InvocationInv, StreamInv, DeltasAndUsage, LastWord, Upto, streamVars
<1>5. StreamInv'
  BY <1>1, <1>2, <1>4 DEF StreamInv
<1> QED
  BY <1>3, <1>5 DEF InvocationInv

(* What a step leaves of the stream's record.                              *)
LEMMA HeardRests ==
  ASSUME UNCHANGED <<script, handled, usage, streamed>>
  PROVE  /\ DeltasAndUsage(handled) => DeltasAndUsage(handled)'
         /\ status' = status /\ LastWord(handled) => LastWord(handled)'
BY DEF DeltasAndUsage, LastWord, Upto

(* Steps that touch neither the appender nor what was told.                *)
LEMMA QuietStep ==
  ASSUME TypeOK, InvocationInv, Cancel \/ Receive \/ StreamAborted \/ UNCHANGED vars
  PROVE  InvocationInv'
<1>1. UNCHANGED <<appenderVars, script, handled, usage, streamed, told>>
  BY DEF Cancel, Receive, StreamAborted, vars, streamVars
<1>2. \/ UNCHANGED <<pc, status>>
      \/ pc = "stream" /\ pc' = "drain" /\ status' = "client_disconnected"
  BY DEF Cancel, Receive, StreamAborted, vars, streamVars
<1>3. /\ Held(streamed) => Held(streamed)'
      /\ Held(offered) => Held(offered)'
  BY <1>1 DEF Held, Within, appenderVars, flushVars
<1>4. /\ DeltasAndUsage(handled)'
      /\ status' # "client_disconnected" => LastWord(handled)'
  BY <1>1, <1>2, HeardRests DEF InvocationInv, StreamInv
<1>5. CASE UNCHANGED <<pc, status>>
  <2>1. (FooterAppended' <=> FooterAppended) /\ (Reported' <=> Reported)
    BY <1>1, <1>5 DEF FooterAppended, Reported
  <2>2. FooterInv' /\ DrainInv'
    BY <1>1, <1>3, <1>5, <2>1 DEF InvocationInv, FooterInv, DrainInv, appenderVars, flushVars
  <2>3. ToldInv' /\ StreamInv'
    BY <1>1, <1>4, <1>5, <2>1 DEF InvocationInv, ToldInv, StreamInv, appenderVars, flushVars
  <2> QED
    BY <2>2, <2>3 DEF InvocationInv
<1>6. CASE pc = "stream" /\ pc' = "drain" /\ status' = "client_disconnected"
  <2>1. ~FooterAppended /\ ~FooterAppended' /\ ~Reported'
    BY <1>6 DEF FooterAppended, Reported
  <2>2. FooterInv' /\ DrainInv' /\ ToldInv'
    BY <1>1, <1>6, <2>1 DEF InvocationInv, FooterInv, DrainInv, ToldInv, appenderVars, flushVars
  <2>3. StreamInv'
    BY <1>4, <1>6 DEF StreamInv
  <2> QED
    BY <2>2, <2>3 DEF InvocationInv
<1> QED
  BY <1>2, <1>5, <1>6

(* A frame is dispatched, the last one perhaps at the end of the stream.   *)
LEMMA StreamStep ==
  ASSUME TypeOK, InvocationInv, Dispatch \/ StreamEnds
  PROVE  InvocationInv'
<1>1. /\ pc = "stream" /\ pc' \in {"stream", "drain"} /\ UNCHANGED <<script, received, told>>
      /\ pc' = "drain" => received = Len(script)
      /\ IF received = handled + 1 THEN HandleFrame
         ELSE pc' = "drain" /\ UNCHANGED <<appenderVars, handled, status, usage, streamed>>
  BY DEF Dispatch, StreamEnds
<1>2. /\ ~FooterAppended /\ ~FooterAppended' /\ ~Reported'
      /\ status # "client_disconnected"
  BY <1>1 DEF FooterAppended, Reported, InvocationInv, StreamInv
<1>3. offered = streamed /\ DeltasAndUsage(handled) /\ LastWord(handled) /\ told = {}
  BY <1>1, <1>2 DEF InvocationInv, FooterInv, StreamInv, ToldInv
<1>4. /\ offered' = streamed' /\ handled' = received
      /\ DeltasAndUsage(handled)' /\ LastWord(handled)' /\ status' # "client_disconnected"
  <2>1. CASE received = handled + 1
    <3>1. HandleFrame /\ handled < Len(script)
      BY <1>1, <2>1, CountsAre, ScriptIs DEF TypeOK
    <3>2. DeltasAndUsage(handled)' /\ LastWord(handled)'
      BY <1>1, <1>3, <3>1, FrameHeard
    <3>3. offered' = streamed'
      BY <1>3, <3>1 DEF HandleFrame, AppendText, appenderVars, flushVars
    <3>4. status' # "client_disconnected" /\ handled' = received
      BY <1>2, <2>1, <3>1 DEF HandleFrame, Verdict
    <3> QED
      BY <3>2, <3>3, <3>4
  <2>2. CASE received # handled + 1
    <3>1. UNCHANGED <<appenderVars, handled, status, usage, streamed>> /\ handled = received
      BY <1>1, <2>2, CountsAre, ScriptIs DEF TypeOK
    <3> QED
      BY <1>1, <1>2, <1>3, <3>1, HeardRests DEF appenderVars, flushVars
  <2> QED
    BY <2>1, <2>2
<1>5. FooterInv' /\ DrainInv' /\ ToldInv'
  BY <1>1, <1>2, <1>3, <1>4 DEF FooterInv, DrainInv, ToldInv
<1>6. StreamInv'
  BY <1>1, <1>2, <1>4 DEF StreamInv
<1> QED
  BY <1>5, <1>6 DEF InvocationInv

(* The stream's part of the invariant, after the stream. *)
LEMMA TailKeepsStream ==
  ASSUME InvocationInv, UNCHANGED streamVars,
         pc \in {"drain", "draining", "footer"} \/ FooterAppended,
         pc' \in {"draining", "footer", "drain_footer", "draining_footer", "ended"}
  PROVE  StreamInv'
<1>1. /\ DeltasAndUsage(handled)'
      /\ status' # "client_disconnected" => LastWord(handled)'
  BY HeardRests DEF InvocationInv, StreamInv, streamVars
<1> QED
  BY <1>1 DEF InvocationInv, StreamInv, streamVars

(* The text is drained, the footer appended, and drained again.            *)
LEMMA TailStep ==
  ASSUME TypeOK, Appender, InvocationInv,
         DrainText \/ TextDrained \/ AppendFooter \/ DrainFooter \/ Report
  PROVE  InvocationInv'
<1>1. CASE DrainText
  <2>1. /\ pc = "drain" /\ pc' = "draining" /\ ticket' = links + 1 /\ mark' = offered
        /\ UNCHANGED <<offered, told, streamVars>> /\ links \in Nat
    BY <1>1, AppenderAssumption DEF DrainText, Drain, TypeOK, AppenderTypeOK
  <2>2. ~FooterAppended /\ ~FooterAppended' /\ ~Reported'
    BY <2>1 DEF FooterAppended, Reported
  <2>3. FooterInv' /\ DrainInv' /\ ToldInv'
    BY <2>1, <2>2 DEF InvocationInv, FooterInv, DrainInv, ToldInv, streamVars
  <2> QED
    BY <2>1, <2>3, TailKeepsStream DEF InvocationInv
<1>2. CASE TextDrained
  <2>1. /\ pc = "draining" /\ pc' = "footer" /\ DrainReturns
        /\ UNCHANGED <<offered, pending, chunk, told, streamVars>>
    BY <1>2 DEF TextDrained, DrainReturns, flushVars
  <2>2. ~FooterAppended /\ ~FooterAppended' /\ ~Reported'
    BY <2>1 DEF FooterAppended, Reported
  <2>3. offered = streamed /\ mark = offered
    BY <2>1, <2>2 DEF InvocationInv, FooterInv, DrainInv
  <2>4. Held(streamed)'
    BY <2>1, <2>3, Drained DEF Held, Within, streamVars
  <2>5. FooterInv' /\ DrainInv' /\ ToldInv'
    BY <2>1, <2>2, <2>3, <2>4 DEF InvocationInv, FooterInv, DrainInv, ToldInv, streamVars
  <2> QED
    BY <2>1, <2>5, TailKeepsStream DEF InvocationInv
<1>3. CASE AppendFooter
  <2>1. /\ pc = "footer" /\ pc' = "drain_footer" /\ AppendText(1)
        /\ offered' = offered + 1 /\ UNCHANGED <<told, streamVars>>
    BY <1>3 DEF AppendFooter, AppendText
  <2>2. ~FooterAppended /\ FooterAppended' /\ ~Reported'
    BY <2>1 DEF FooterAppended, Reported
  <2>3. offered = streamed /\ Held(streamed)
    BY <2>1, <2>2 DEF InvocationInv, FooterInv
  <2>4. Held(streamed)'
    <3> SUFFICES ASSUME NEW low, low = streamed PROVE Held(low)'
      BY <2>1 DEF streamVars, Held
    <3> QED
      BY <2>1, <2>3, CountsAre, AppendHeld
  <2>5. FooterInv' /\ DrainInv' /\ ToldInv'
    BY <2>1, <2>2, <2>3, <2>4 DEF InvocationInv, FooterInv, DrainInv, ToldInv, streamVars
  <2> QED
    BY <2>1, <2>5, TailKeepsStream DEF InvocationInv
<1>4. CASE DrainFooter
  <2>1. /\ pc = "drain_footer" /\ pc' = "draining_footer"
        /\ ticket' = links + 1 /\ mark' = offered /\ links \in Nat
        /\ UNCHANGED <<offered, pending, chunk, told, streamVars>>
    BY <1>4, AppenderAssumption DEF DrainFooter, Drain, TypeOK, AppenderTypeOK
  <2>2. FooterAppended /\ FooterAppended' /\ ~Reported'
    BY <2>1 DEF FooterAppended, Reported
  <2>3. Held(streamed)'
    BY <2>1, <2>2 DEF InvocationInv, FooterInv, Held, Within, streamVars
  <2>4. FooterInv' /\ DrainInv' /\ ToldInv'
    BY <2>1, <2>2, <2>3 DEF InvocationInv, FooterInv, DrainInv, ToldInv, streamVars
  <2> QED
    BY <2>1, <2>2, <2>4, TailKeepsStream DEF InvocationInv
<1>5. CASE Report
  <2>1. /\ pc = "draining_footer" /\ pc' = "ended" /\ DrainReturns
        /\ UNCHANGED <<offered, pending, chunk, dropped, streamVars>>
        /\ told' = told \cup (IF dropped > 0 THEN {"output_incomplete"} ELSE {})
                        \cup (IF status = "client_disconnected" THEN {"cancelled"} ELSE {})
    BY <1>5 DEF Report, DrainReturns, flushVars
  <2>2. told = {} /\ mark = offered /\ FooterAppended
    BY <2>1 DEF InvocationInv, ToldInv, DrainInv, FooterAppended
  <2>3. Reported' /\ FooterAppended'
    BY <2>1, <2>2 DEF Reported, FooterAppended
  <2>4. Held(streamed)' /\ Held(offered)'
    BY <2>1, <2>2, Drained DEF InvocationInv, FooterInv, Held, Within, streamVars
  <2>5. FooterInv' /\ DrainInv'
    BY <2>1, <2>2, <2>3, <2>4 DEF InvocationInv, FooterInv, DrainInv, streamVars
  <2>6. ToldInv'
    BY <2>1, <2>2 DEF ToldInv, streamVars
  <2> QED
    BY <2>1, <2>2, <2>5, <2>6, TailKeepsStream DEF InvocationInv
<1> QED
  BY <1>1, <1>2, <1>3, <1>4, <1>5

(* The chain writes on beside the invocation, and after it.                *)
LEMMA WriteStep ==
  ASSUME TypeOK, Appender, InvocationInv, NEW i \in Links, Write(i)
  PROVE  InvocationInv'
<1>1. /\ Flush(i) /\ UNCHANGED <<offered, ticket, mark, streamVars, pc, told>>
      /\ (FooterAppended' <=> FooterAppended) /\ (Reported' <=> Reported)
  BY FlushLeaves DEF Write, FooterAppended, Reported
<1>2. ASSUME Held(streamed) PROVE Held(streamed)'
  <2> SUFFICES ASSUME NEW low, low = streamed PROVE Held(low)'
    BY <1>1 DEF streamVars, Held
  <2> QED
    BY <1>1, <1>2, CountsAre, FlushHeld
<1>3. ASSUME Held(offered) PROVE Held(offered)' /\ dropped' = dropped
  <2>1. Held(offered)'
    <3> SUFFICES ASSUME NEW low, low = offered PROVE Held(low)'
      BY <1>1 DEF Held
    <3> QED
      BY <1>1, <1>3, CountsAre, FlushHeld
  <2> QED
    BY <1>1, <1>3, <2>1, NothingLeft
<1>4. FooterInv' /\ DrainInv'
  BY <1>1, <1>2, <1>3 DEF InvocationInv, FooterInv, DrainInv, streamVars
<1>5. ToldInv'
  BY <1>1, <1>3 DEF InvocationInv, DrainInv, ToldInv, streamVars
<1>6. StreamInv'
  BY <1>1, HeardRests DEF InvocationInv, StreamInv, streamVars
<1> QED
  BY <1>4, <1>5, <1>6 DEF InvocationInv

(* Where runInvocation is, what the appender holds, and what the frames    *)
(* handled so far say, agree in every reachable state.                     *)
THEOREM InvocationCorrect == Spec => []InvocationInv
<1>1. TypeOK /\ Appender /\ InvocationInv /\ [Next]_vars => InvocationInv'
  BY HeadStep, QuietStep, StreamStep, TailStep, WriteStep DEF Next, Client, Server, Writes
<1>2. QED
  BY <1>1, InvocationStarts, TypeCorrect, PTL DEF Spec

-----------------------------------------------------------------------------
(* The footer is written by edits of its own: giving up on it costs no     *)
(* character of the answer.                                                *)
THEOREM FooterIsAlone == Spec => []FooterAlone
<1>1. TypeOK /\ Appender /\ InvocationInv => FooterAlone
  <2> SUFFICES ASSUME TypeOK, Appender, InvocationInv, NEW i \in Links,
                      NEW p \in DOMAIN chunk[i], NEW q \in DOMAIN chunk[i],
                      chunk[i][p] <= streamed, chunk[i][q] > streamed
               PROVE  FALSE
    BY DEF FooterAlone
  <2>1. chunk[i][p] \in Nat /\ chunk[i][q] \in Nat /\ offered \in Nat /\ streamed \in Nat
    BY CountsAre, ElementOfSeq, LenProperties DEF TypeOK, AppenderTypeOK
  <2>2. CASE FooterAppended
    BY <2>1, <2>2 DEF InvocationInv, FooterInv, Held, Within
  <2>3. CASE ~FooterAppended
    <3>1. chunk[i][q] <= offered
      BY DEF Appender, AppenderInv, TextInv, Within
    <3> QED
      BY <2>1, <2>3, <3>1 DEF InvocationInv, FooterInv
  <2> QED
    BY <2>2, <2>3
<1>2. QED
  BY <1>1, TypeCorrect, InvocationCorrect, PTL

(* A report without the warning means that the document is the answer and  *)
(* the footer, every character in its place, whatever the editor refused;  *)
(* with it, that it is not.                                                *)
THEOREM WarningIsExact == Spec => []WarnedIffIncomplete
<1>1. TypeOK /\ Appender /\ InvocationInv /\ IntactInv => WarnedIffIncomplete
  <2> SUFFICES ASSUME TypeOK, Appender, InvocationInv, IntactInv, Reported
               PROVE  "output_incomplete" \in told <=> document # Text(offered)
    BY DEF WarnedIffIncomplete
  <2>1. /\ offered = Len(document) + dropped /\ Len(document) \in Nat
        /\ dropped \in Nat /\ document \in Seq(Nat)
    BY NothingLeft, CountsAre DEF InvocationInv, DrainInv, TypeOK, AppenderTypeOK
  <2>2. CASE dropped = 0
    <3>1. Unsettled = <<>>
      BY NothingHeld DEF InvocationInv, DrainInv, Held, Appender, AppenderInv
    <3>2. document = Text(offered)
      BY <2>1, <2>2, <3>1, ConcatEmptySeq DEF IntactInv
    <3> QED  BY <2>2, <3>2 DEF InvocationInv, ToldInv
  <2>3. CASE dropped > 0
    <3>1. Len(Text(offered)) = offered
      BY <2>1, TextIs, CountsAre
    <3>2. Len(document) # offered
      BY <2>1, <2>3
    <3> QED  BY <2>3, <3>1, <3>2 DEF InvocationInv, ToldInv
  <2> QED  BY <2>1, <2>2, <2>3
<1>2. QED
  BY <1>1, TypeCorrect, InvocationCorrect, InvocationIntact, PTL

(* Without a cancellation, deltas, usage and status are those of the whole *)
(* stream, for every stream a server may send.                             *)
THEOREM ReportsTheServer == Spec => []StatusIsServers
<1>1. InvocationInv => StatusIsServers
  <2> SUFFICES ASSUME InvocationInv, Reported, "cancelled" \notin told
               PROVE  DeltasAndUsage(Len(script)) /\ LastWord(Len(script))
    BY DEF StatusIsServers
  <2>1. status # "client_disconnected" /\ FooterAppended
    BY DEF InvocationInv, ToldInv, FooterAppended
  <2>2. handled = Len(script)
    BY <2>1 DEF InvocationInv, StreamInv
  <2> QED
    BY <2>1, <2>2 DEF InvocationInv, StreamInv
<1>2. QED
  BY <1>1, InvocationCorrect, PTL
=============================================================================
