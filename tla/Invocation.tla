----------------------------- MODULE Invocation -----------------------------
(***************************************************************************)
(* One invocation of the VS Code extension: runInvocation of extension.ts, *)
(* streamResponse of responsesClient.ts and the SseAccumulator of sse.ts,  *)
(* driving a DocumentAppender while the user may cancel and the server may *)
(* refuse, break off or go silent.                                         *)
(*                                                                         *)
(* What the server would send is a script of events, one frame each; a     *)
(* frame is dispatched when the blank line behind it arrives, the last one *)
(* perhaps only when the stream ends.                                      *)
(***************************************************************************)
EXTENDS DocumentAppender

CONSTANT Scripts  \* event sequences the server may send

Event == {"delta", "completed", "completed_without_usage", "incomplete",
          "error", "other"}

ASSUME InvocationAssumption == Scripts \subseteq Seq(Event)

VARIABLES        \* beside the appender's
  script,        \* what the server sends on this stream
  pc,            \* where runInvocation is
  aborted,       \* the abort signal
  received,      \* frames the reader has got
  handled,       \* frames the accumulator has dispatched
  status,        \* accumulator.status
  usage,         \* accumulator.usage is set
  streamed,      \* characters of deltas given to the appender
  told           \* what the user has been shown

streamVars == <<script, received, handled, status, usage, streamed>>
vars == <<appenderVars, streamVars, pc, aborted, told>>

Messages == {"sign_in_cancelled", "auth_error", "gateway_error", "abort_error",
             "failure", "output_incomplete", "cancelled"}

TypeOK ==
  /\ AppenderTypeOK
  /\ script \in Scripts
  /\ pc \in {"token", "open", "post", "fetch", "stream", "drain", "draining",
             "footer", "drain_footer", "draining_footer", "ended"}
  /\ aborted \in BOOLEAN
  /\ received \in 0 .. Len(script) /\ handled \in 0 .. received
  /\ received <= handled + 1
  /\ status \in {"incomplete", "completed", "failed", "client_disconnected"}
  /\ usage \in BOOLEAN
  /\ streamed \in 0 .. offered
  /\ told \subseteq Messages

Init ==
  /\ AppenderInit
  /\ script \in Scripts
  /\ pc = "token" /\ aborted = FALSE
  /\ received = 0 /\ handled = 0
  /\ status = "incomplete" /\ usage = FALSE
  /\ streamed = 0 /\ told = {}

-----------------------------------------------------------------------------
(* runInvocation before the stream. *)
Go(next) == pc' = next /\ UNCHANGED <<told, appenderVars, streamVars>>

End(messages) ==
  /\ pc' = "ended"
  /\ told' = told \cup messages
  /\ UNCHANGED <<appenderVars, streamVars>>

(* acquireToken: a session, a cancelled prompt, or AuthenticationError. *)
AcquireToken ==
  /\ pc = "token"
  /\ Go("open") \/ End({"sign_in_cancelled"}) \/ End({"auth_error"})
  /\ UNCHANGED aborted

OpenResultDocument ==
  /\ pc = "open"
  /\ Go("post") \/ End({"failure"})
  /\ UNCHANGED aborted

(* The local checks of prompt size and endpoint, then the one fetch. *)
Post ==
  /\ pc = "post"
  /\ Go("fetch") \/ End({"failure"})
  /\ UNCHANGED aborted

(* The user cancels; the signal is read by fetch and reader only. *)
Cancel ==
  /\ pc \in {"fetch", "stream", "drain", "draining", "footer", "drain_footer",
             "draining_footer"}
  /\ ~aborted
  /\ aborted' = TRUE
  /\ UNCHANGED <<pc, told, appenderVars, streamVars>>

(* fetch settles: aborted, refused or without a body, unreachable, or ok. *)
FetchSettles ==
  /\ pc = "fetch"
  /\ \/ aborted /\ End({"abort_error"})
     \/ ~aborted /\ (End({"gateway_error"}) \/ End({"failure"}) \/ Go("stream"))
  /\ UNCHANGED aborted

-----------------------------------------------------------------------------
(* SseAccumulator.handleFrame, for the frame after those handled. *)
Verdict(event) ==
  CASE event \in {"completed", "completed_without_usage"} -> "completed"
    [] event = "incomplete" -> "incomplete"
    [] event = "error" -> "failed"
    [] OTHER -> status

HandleFrame ==
  LET event == script[handled + 1] IN
  /\ handled' = handled + 1
  /\ status' = Verdict(event)
  /\ usage' = IF event \in {"completed", "completed_without_usage"}
              THEN event = "completed" ELSE usage
  /\ IF event = "delta"
     THEN AppendText(1) /\ streamed' = streamed + 1
     ELSE UNCHANGED <<appenderVars, streamed>>

(* reader.read() delivers a frame, or the blank line behind it. *)
Receive ==
  /\ pc = "stream" /\ ~aborted
  /\ received = handled /\ received < Len(script)
  /\ received' = received + 1
  /\ UNCHANGED <<appenderVars, script, handled, status, usage, streamed, pc, aborted, told>>

Dispatch ==
  /\ pc = "stream" /\ ~aborted
  /\ received = handled + 1
  /\ HandleFrame
  /\ UNCHANGED <<script, received, pc, aborted, told>>

(* Mutant of StreamEnds: end() forgets the frame still in the buffer. *)
StreamEndsBare ==
  /\ pc = "stream" /\ ~aborted
  /\ received = Len(script)
  /\ Go("drain")
  /\ UNCHANGED aborted

(* The stream ends: end() dispatches the frame left in the buffer. *)
StreamEnds ==
  /\ pc = "stream" /\ ~aborted
  /\ received = Len(script)
  /\ IF received = handled + 1
     THEN HandleFrame
     ELSE UNCHANGED <<appenderVars, handled, status, usage, streamed>>
  /\ pc' = "drain"
  /\ UNCHANGED <<script, received, aborted, told>>

(* The stream breaks off: the error is thrown past the drains. *)
StreamBreaks ==
  /\ pc = "stream" /\ ~aborted
  /\ End({"failure"})
  /\ UNCHANGED aborted

StreamAborted ==
  /\ pc = "stream" /\ aborted
  /\ status' = "client_disconnected"
  /\ pc' = "drain"
  /\ UNCHANGED <<appenderVars, script, received, handled, usage, streamed, aborted, told>>

-----------------------------------------------------------------------------
(* runInvocation after the stream: drain, footer, drain, report. *)
(* Mutant of DrainText: the footer is appended without draining first. *)
DrainSkipped ==
  /\ pc = "drain"
  /\ pc' = "footer"
  /\ UNCHANGED <<appenderVars, streamVars, aborted, told>>

DrainText ==
  /\ pc = "drain"
  /\ Drain
  /\ pc' = "draining"
  /\ UNCHANGED <<streamVars, aborted, told>>

TextDrained ==
  /\ pc = "draining"
  /\ DrainReturns
  /\ pc' = "footer"
  /\ UNCHANGED <<streamVars, aborted, told>>

AppendFooter ==
  /\ pc = "footer"
  /\ AppendText(1)
  /\ pc' = "drain_footer"
  /\ UNCHANGED <<streamVars, aborted, told>>

DrainFooter ==
  /\ pc = "drain_footer"
  /\ Drain
  /\ pc' = "draining_footer"
  /\ UNCHANGED <<streamVars, aborted, told>>

Report ==
  /\ pc = "draining_footer"
  /\ DrainReturns
  /\ told' = told \cup (IF dropped > 0 THEN {"output_incomplete"} ELSE {})
                  \cup (IF status = "client_disconnected" THEN {"cancelled"} ELSE {})
  /\ pc' = "ended"
  /\ UNCHANGED <<streamVars, aborted>>

(* The appender's chain runs beside all this, and goes on after it. *)
Write(i) == Flush(i) /\ UNCHANGED <<streamVars, pc, aborted, told>>
Writes == \E i \in Links : Write(i)

Client ==
  \/ AcquireToken \/ OpenResultDocument \/ Post \/ FetchSettles
  \/ Dispatch \/ StreamAborted
  \/ DrainText \/ TextDrained \/ AppendFooter \/ DrainFooter \/ Report

Server == Receive \/ StreamEnds \/ StreamBreaks

Next == Client \/ Server \/ Cancel \/ Writes

(* Promise callbacks run and edits settle; fetch and the reader settle when *)
(* aborted. Nothing obliges the server to go on, nor the user to cancel.    *)
Fairness ==
  /\ WF_vars(StreamAborted) /\ WF_vars(FetchSettles /\ aborted)
  /\ WF_vars(DrainText \/ TextDrained \/ AppendFooter \/ DrainFooter \/ Report)
  /\ \A i \in Links : WF_vars(Write(i))

Spec == Init /\ [][Next]_vars /\ Fairness
-----------------------------------------------------------------------------
(* No edit ever carries streamed text together with the footer, so giving  *)
(* up on the footer cannot cost a character of the answer.                 *)
FooterAlone ==
  \A i \in Links :
    ~ \E p, q \in DOMAIN chunk[i] : chunk[i][p] <= streamed /\ chunk[i][q] > streamed

Reported == pc = "ended" /\ told \subseteq {"output_incomplete", "cancelled"}

(* An invocation that ends with its report warns of an incomplete output   *)
(* unless the document is the answer and the footer, every character in    *)
(* its place, and then it does not.                                        *)
WarnedIffIncomplete ==
  Reported => ("output_incomplete" \in told <=> document # Text(offered))

(* What the first n frames of the script say: every delta, the usage of    *)
(* the last completion, and the last word on the status.                   *)
Upto(n, events) == {i \in 1 .. n : script[i] \in events}
Completion == {"completed", "completed_without_usage"}
Final == Completion \cup {"incomplete", "error"}
Newest(i, frames) == i \in frames /\ \A j \in frames : j <= i

Outcome(event) == CASE event = "error" -> "failed"
                    [] event = "incomplete" -> "incomplete"
                    [] OTHER -> "completed"

DeltasAndUsage(n) ==
  /\ streamed = Cardinality(Upto(n, {"delta"}))
  /\ usage <=> \E i \in 1 .. n : Newest(i, Upto(n, Completion)) /\ script[i] = "completed"

LastWord(n) ==
  /\ Upto(n, Final) = {} => status = "incomplete"
  /\ \A i \in 1 .. n : Newest(i, Upto(n, Final)) => status = Outcome(script[i])

(* An invocation that was not cancelled reports what the server said: its  *)
(* last word on the status, the usage of its last completion, and every    *)
(* delta, the last frame included when no blank line follows it.           *)
StatusIsServers ==
  Reported /\ "cancelled" \notin told =>
    DeltasAndUsage(Len(script)) /\ LastWord(Len(script))

(* A cancelled invocation ends, even if the server has gone silent.        *)
CancelEnds == aborted ~> pc = "ended"

-----------------------------------------------------------------------------
(* The inductive invariant behind these. Where runInvocation is says what  *)
(* the footer has been appended to, and how much of the text the appender  *)
(* may still hold.                                                         *)
Held(low) ==
  /\ Within(pending, low, offered)
  /\ \A i \in Links : Within(chunk[i], low, offered)

FooterAppended == pc \in {"drain_footer", "draining_footer"} \/ Reported

FooterInv ==
  /\ offered = IF FooterAppended THEN streamed + 1 ELSE streamed
  /\ pc = "footer" \/ FooterAppended => Held(streamed)

DrainInv ==
  /\ pc \in {"draining", "draining_footer"} => ticket # 0 /\ mark = offered
  /\ Reported => Held(offered)

ToldInv ==
  /\ pc # "ended" => told = {}
  /\ Reported =>
       /\ "output_incomplete" \in told <=> dropped > 0
       /\ "cancelled" \in told <=> status = "client_disconnected"

(* The accumulator knows what the frames it has handled say; only a        *)
(* cancelled stream is left before its last one.                           *)
StreamInv ==
  /\ DeltasAndUsage(handled)
  /\ status # "client_disconnected" => LastWord(handled)
  /\ pc \in {"token", "open", "post", "fetch", "stream"} => status # "client_disconnected"
  /\ pc \in {"drain", "draining", "footer"} \/ FooterAppended =>
       handled = Len(script) \/ status = "client_disconnected"

InvocationInv == FooterInv /\ DrainInv /\ ToldInv /\ StreamInv
=============================================================================
