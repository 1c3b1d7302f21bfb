------------------------- MODULE DocumentAppender -------------------------
(***************************************************************************)
(* src/vscode/src/appender.ts: one document, written by a chain of flushes *)
(* while deltas keep arriving.                                             *)
(*                                                                         *)
(* append() and drain() add a link to a promise chain; a link runs flush() *)
(* when its predecessor has settled. flush() hands what is pending to the  *)
(* editor and waits: deltas arrive during that wait only, everything       *)
(* between two waits is one step. The editor refuses an edit that overlaps *)
(* one in flight.                                                          *)
(*                                                                         *)
(* A character is its position in the text appended so far, so that what   *)
(* was reordered, repeated or lost shows in the document.                  *)
(***************************************************************************)
EXTENDS Naturals, Sequences, FiniteSets

CONSTANTS
  MaxFailures,   \* MAX_CONSECUTIVE_FAILURES
  MaxLinks,      \* bound: calls of append() and drain()
  MaxText        \* bound: characters appended

ASSUME AppenderAssumption ==
  /\ MaxFailures \in Nat \ {0}
  /\ MaxLinks \in Nat
  /\ MaxText \in Nat

Links == 1 .. MaxLinks

VARIABLES
  offered,       \* characters appended so far
  pending,       \* this.pending
  links,         \* links put on this.chain so far
  stage,         \* stage[i]: where the flush of link i is
  chunk,         \* chunk[i]: the text link i has handed to the editor
  failures,      \* this.consecutiveFailures
  document,      \* the text of the document
  dropped,       \* this.droppedCharacters
  ticket,        \* the link a caller of drain() awaits, 0 if none
  mark           \* offered when that drain() was called

flushVars == <<pending, stage, chunk, failures, document, dropped>>
appenderVars == <<offered, links, ticket, mark, flushVars>>

AppenderTypeOK ==
  /\ offered \in Nat
  /\ pending \in Seq(Nat)
  /\ links \in 0 .. MaxLinks
  /\ stage \in [Links -> {"unborn", "queued", "editing", "done"}]
  /\ chunk \in [Links -> Seq(Nat)]
  /\ failures \in 0 .. MaxFailures - 1
  /\ document \in Seq(Nat)
  /\ dropped \in Nat
  /\ ticket \in 0 .. MaxLinks
  /\ mark \in Nat

AppenderInit ==
  /\ offered = 0 /\ pending = <<>>
  /\ links = 0 /\ stage = [i \in Links |-> "unborn"]
  /\ chunk = [i \in Links |-> <<>>]
  /\ failures = 0 /\ document = <<>> /\ dropped = 0
  /\ ticket = 0 /\ mark = 0

-----------------------------------------------------------------------------
(* append(), drain(): the callers' side. *)
Chain ==
  /\ links < MaxLinks
  /\ links' = links + 1
  /\ stage' = [stage EXCEPT ![links + 1] = "queued"]

AppendText(n) ==
  /\ offered' = offered + n
  /\ pending' = pending \o [i \in 1 .. n |-> offered + i]
  /\ Chain
  /\ UNCHANGED <<chunk, failures, document, dropped, ticket, mark>>

AppendDelta == \E n \in 1 .. MaxText - offered : AppendText(n)

Drain ==
  /\ ticket = 0
  /\ Chain
  /\ ticket' = links + 1
  /\ mark' = offered
  /\ UNCHANGED <<offered, pending, chunk, failures, document, dropped>>

DrainDone == ticket # 0 /\ stage[ticket] = "done"

DrainReturns ==
  /\ DrainDone
  /\ ticket' = 0
  /\ UNCHANGED <<offered, links, mark, flushVars>>

-----------------------------------------------------------------------------
(* flush(), one link of the chain. *)

(* Mutant of Ready: flushes are fired, not chained. *)
Unchained(i) == TRUE

Ready(i) == i > 1 => stage[i - 1] = "done"

(* The loop goes around with text pending: one edit for all of it, or the  *)
(* link ends.                                                              *)
Loop(i, text) ==
  /\ stage' = [stage EXCEPT ![i] = IF text = <<>> THEN "done" ELSE "editing"]
  /\ chunk' = [chunk EXCEPT ![i] = text]
  /\ pending' = <<>>

Start(i) ==
  /\ stage[i] = "queued"
  /\ Ready(i)
  /\ Loop(i, pending)
  /\ UNCHANGED <<offered, links, failures, document, dropped, ticket, mark>>

Alone(i) == \A j \in Links \ {i} : stage[j] # "editing"

EditApplied(i) ==
  /\ stage[i] = "editing"
  /\ Alone(i)
  /\ document' = document \o chunk[i]
  /\ failures' = 0
  /\ Loop(i, pending)
  /\ UNCHANGED <<offered, links, dropped, ticket, mark>>

Exhausted == failures + 1 >= MaxFailures

(* Mutants of EditRejected: the chunk is put back behind what came since;  *)
(* the retry is a new link of the chain, as an earlier version had it.     *)
RejectedToBack(i) ==
  /\ stage[i] = "editing" /\ ~Exhausted
  /\ failures' = failures + 1
  /\ Loop(i, pending \o chunk[i])
  /\ UNCHANGED <<offered, links, document, dropped, ticket, mark>>
RejectedReschedules(i) ==
  /\ stage[i] = "editing" /\ ~Exhausted /\ links < MaxLinks
  /\ failures' = failures + 1
  /\ pending' = chunk[i] \o pending
  /\ chunk' = [chunk EXCEPT ![i] = <<>>]
  /\ links' = links + 1
  /\ stage' = [stage EXCEPT ![i] = "done", ![links + 1] = "queued"]
  /\ UNCHANGED <<offered, document, dropped, ticket, mark>>

(* The editor resolved false or threw: the chunk goes back to the front. *)
EditRejected(i) ==
  /\ stage[i] = "editing"
  /\ ~Exhausted
  /\ failures' = failures + 1
  /\ Loop(i, chunk[i] \o pending)
  /\ UNCHANGED <<offered, links, document, dropped, ticket, mark>>

(* Mutants of GiveUp: the loss is not counted; the chunk is put back after *)
(* all, for five more refusals.                                            *)
GiveUpSilently(i) ==
  /\ stage[i] = "editing" /\ Exhausted
  /\ failures' = 0
  /\ Loop(i, pending)
  /\ UNCHANGED <<offered, links, document, dropped, ticket, mark>>

GiveUpNever(i) ==
  /\ stage[i] = "editing" /\ Exhausted
  /\ failures' = 0
  /\ Loop(i, chunk[i] \o pending)
  /\ UNCHANGED <<offered, links, document, dropped, ticket, mark>>

GiveUp(i) ==
  /\ stage[i] = "editing"
  /\ Exhausted
  /\ dropped' = dropped + Len(chunk[i])
  /\ failures' = 0
  /\ Loop(i, pending)
  /\ UNCHANGED <<offered, links, document, ticket, mark>>

EditSettles(i) == EditApplied(i) \/ EditRejected(i) \/ GiveUp(i)

Flush(i) == Start(i) \/ EditSettles(i)

AppenderNext == AppendDelta \/ Drain \/ DrainReturns \/ \E i \in Links : Flush(i)

(* Promise callbacks run, and the editor settles every edit it was given.  *)
AppenderFairness == WF_appenderVars(DrainReturns) /\ \A i \in Links : WF_appenderVars(Flush(i))

AppenderSpec == AppenderInit /\ [][AppenderNext]_appenderVars /\ AppenderFairness

-----------------------------------------------------------------------------
(* Exactly one edit is ever in flight, however deltas, drains, retries and *)
(* refused edits interleave.                                               *)
OneEditInFlight == Cardinality({i \in Links : stage[i] = "editing"}) <= 1

InFlight ==
  IF \E i \in Links : stage[i] = "editing"
  THEN chunk[CHOOSE i \in Links : stage[i] = "editing"] ELSE <<>>

(* What is neither in the document nor given up, oldest first. *)
Unsettled == InFlight \o pending

(* The first n characters appended. *)
Text(n) == [i \in 1 .. n |-> i]

(* When drain() returns, all text appended before it was called has been   *)
(* written or given up, retries included.                                  *)
DrainCovers == DrainDone => \A p \in DOMAIN Unsettled : Unsettled[p] > mark

(* When drain() returns and nothing was appended since it was called,      *)
(* lostCharacters is exactly what the document lacks: the extension warns  *)
(* of an incomplete answer if and only if it is incomplete.                *)
LossIsCounted ==
  DrainDone /\ offered = mark => dropped = offered - Len(document)

(* Nobody waits in drain() for ever, whatever the editor refuses.          *)
EveryDrainReturns == ticket # 0 ~> ticket = 0

(* The chain writes what was appended in its order, once, and counts what  *)
(* it gives up.                                                            *)
Writer == INSTANCE OrderedWriter WITH queue <- Unsettled, lost <- dropped

KeepsOrder == Writer!Spec

-----------------------------------------------------------------------------
(* The inductive invariant behind these: links run one after the other,    *)
(* and only the one that is editing holds text of its own.                 *)
ChainInv ==
  \A i \in Links :
    /\ stage[i] = "unborn" <=> i > links
    /\ stage[i] \in {"editing", "done"} => \A j \in Links : j < i => stage[j] = "done"
    /\ stage[i] = "editing" <=> chunk[i] # <<>>

Within(text, low, high) == \A p \in DOMAIN text : low < text[p] /\ text[p] <= high

TextInv ==
  /\ ticket <= links /\ mark <= offered
  /\ LET low == IF DrainDone THEN mark ELSE 0 IN
     Within(pending, low, offered) /\ \A i \in Links : Within(chunk[i], low, offered)
  /\ offered = Len(document) + dropped + Len(Unsettled)

(* As long as nothing is given up, nothing is out of place.                *)
IntactInv == dropped = 0 => document \o Unsettled = Text(offered)

(* The conjunction that every step keeps: the chain runs in order, the     *)
(* text held is what drain() may still owe, and no character is missing    *)
(* from the count.                                                         *)
AppenderInv == ChainInv /\ TextInv
=============================================================================
