---------------------------- MODULE CommandPath ----------------------------
(***************************************************************************)
(* respond.py at the developer's terminal and the gateway, put together    *)
(* from PythonClient and Gateway. The developer runs the command again and *)
(* again; an earlier run's request may still be on its way, or be served,  *)
(* while the next one is made.                                             *)
(*                                                                         *)
(* The nth POST is the gateway's request n. It arrives late or never: the  *)
(* connection may break, az may have no token, Ctrl-C may come first.      *)
(***************************************************************************)
EXTENDS Naturals, Sequences, FiniteSets

CONSTANTS
  MaxEvents,                 \* of PythonClient
  Messages, Tids, Oids, Scopes, Apps, Models, Guids, None, Brokered, RequiredScope,
  AllowedApps, ApprovedModel, BackendStatuses, Nodes, Keys, Calls,
  TokensPerMinute, DailyQuota, MaxCost,    \* of Gateway
  MaxRuns                    \* bound: runs of the command, and POSTs

Runs == 1 .. MaxRuns
Requests == 1 .. MaxRuns

VARIABLES                    \* PythonClient; its pc is this:
  streaming, posts, events, printed, status, usage, exit,
  at
VARIABLES                    \* Gateway; its pc and answer are these:
  message, ctx, outgoing, calls, telemetry, admitted, burst, minute, day,
  stage, reply
VARIABLES
  run,                       \* the run of the command under way, or the last
  sent,                      \* sent[n]: the run of the nth POST, and its --stream
  arrived,                   \* the POSTs that have reached the gateway
  shown                      \* shown[k]: what run k left on the terminal

clientVars == <<streaming, posts, events, printed, status, usage, exit, at>>
gatewayVars == <<message, ctx, outgoing, calls, telemetry, admitted, burst, minute,
                 day, stage, reply>>
vars == <<clientVars, gatewayVars, run, sent, arrived, shown>>

Client == INSTANCE PythonClient WITH pc <- at
Gateway == INSTANCE Gateway WITH pc <- stage, answer <- reply

(* What a run may leave, once no longer underway: an answer, an error code *)
(* of the gateway's, the backend's own error, or a message of its own.     *)
Shown == Gateway!Code \cup {"underway", "answer", "backend", "usage", "rejected", "failed", "cancelled"}

(* The markers of what is missing and of a run underway are no outcomes.   *)
ASSUME CommandAssumption ==
  /\ MaxRuns \in Nat \ {0}
  /\ Messages \subseteq Gateway!Message
  /\ Keys = Tids \X Oids
  /\ None \notin Tids \cup Oids \cup Scopes \cup Apps \cup Shown \cup Gateway!Correlation
               \cup Gateway!Answer
  /\ Brokered \in BOOLEAN
  /\ RequiredScope \in Scopes \cup {None} /\ AllowedApps \subseteq Apps
  /\ BackendStatuses \subseteq Nat
  /\ IsFiniteSet(Nodes)
  /\ Calls \in Nat \ {0} /\ TokensPerMinute \in Nat \ {0} /\ DailyQuota \in Nat \ {0}
  /\ MaxCost \in Nat

TypeOK ==
  /\ Gateway!TypeOK
  /\ at \in {"prompt", "response", "event", "ended"}
  /\ streaming \in BOOLEAN /\ posts \in Nat
  /\ run \in Runs
  /\ sent \in Seq([run: Runs, stream: BOOLEAN]) /\ Len(sent) <= MaxRuns
  /\ arrived \subseteq DOMAIN sent
  /\ shown \in [Runs -> Shown \cup {None}]

Blank == CHOOSE m \in Messages : TRUE

Init ==
  /\ Client!Init
  /\ Gateway!Init
  /\ \A n \in Requests : message[n] = Blank
  /\ run = 1
  /\ sent = <<>>
  /\ arrived = {}
  /\ shown = [k \in Runs |-> IF k = 1 THEN "underway" ELSE None]

-----------------------------------------------------------------------------
Posted == Len(sent)        \* the POST the run under way is waiting for

Show(what) == shown' = [shown EXCEPT ![run] = what]

(* What main prints last, by the exit status. *)
Parting == CASE exit' = 2 -> "rejected" [] exit' = 130 -> "cancelled" [] OTHER -> "failed"

RefuseLocally ==
  /\ Client!RefuseLocally
  /\ Show(IF exit' = 1 THEN "usage" ELSE "rejected")
  /\ UNCHANGED <<gatewayVars, run, sent, arrived>>

Send ==
  /\ Client!Post
  /\ sent' = sent \o [i \in 1 .. posts' - posts |-> [run |-> run, stream |-> streaming]]
  /\ Len(sent') <= MaxRuns
  /\ UNCHANGED <<gatewayVars, run, arrived, shown>>

(* The POST reaches the gateway with the body of _build_request and az's   *)
(* token; the model and the size are the developer's choice.               *)
Arrive(n) ==
  /\ n \in DOMAIN sent \ arrived
  /\ arrived' = arrived \cup {n}
  /\ \E m \in Messages :
       /\ m.scheme = "https" /\ m.jsonType /\ m.text = "json" /\ m.headers = {}
       /\ m.body.store = "false" /\ m.body.tools = "absent"
       /\ m.body.stream = IF sent[n].stream THEN "true" ELSE "absent"
       /\ m.body.endUser = None
       /\ message' = [message EXCEPT ![n] = m]
       /\ outgoing' = [outgoing EXCEPT ![n] = [credential |-> "caller",
                                                headers |-> m.headers, body |-> m.body]]
  /\ UNCHANGED <<clientVars, run, sent, shown,
                 ctx, calls, telemetry, admitted, burst, minute, day, stage, reply>>

Serve(n) ==
  /\ n \in arrived
  /\ Gateway!Serve(n)
  /\ UNCHANGED <<clientVars, run, sent, arrived, shown>>

WindowRollsOver ==
  /\ Gateway!WindowRollsOver
  /\ UNCHANGED <<clientVars, run, sent, arrived, shown>>

(* The client reads what the gateway answered its last POST, as far as it  *)
(* has been relayed.                                                       *)
Replied(status200) == Posted > 0 /\ reply[Posted] # None /\ (reply[Posted].status = 200 <=> status200)
Whole == stage[Posted] = "done"

Stream ==
  /\ Replied(TRUE)
  /\ Client!Headers \/ Client!Event
  /\ UNCHANGED <<gatewayVars, run, sent, arrived, shown>>

Answered ==
  /\ Replied(TRUE) /\ Whole
  /\ Client!WholeResponse \/ Client!StreamEnds
  /\ Show("answer")
  /\ UNCHANGED <<gatewayVars, run, sent, arrived>>

Refused ==
  /\ Replied(FALSE) /\ Whole
  /\ Client!StatusError
  /\ Show(IF reply[Posted].code = None THEN "backend" ELSE reply[Posted].code)
  /\ UNCHANGED <<gatewayVars, run, sent, arrived>>

(* Whatever else is raised, Ctrl-C included. *)
Raise ==
  /\ Client!Raise
  /\ Show(Parting)
  /\ UNCHANGED <<gatewayVars, run, sent, arrived>>

(* The command is run again. *)
RunAgain ==
  /\ at = "ended" /\ run < MaxRuns
  /\ run' = run + 1
  /\ at' = "prompt" /\ streaming' \in BOOLEAN
  /\ posts' = 0 /\ events' = <<>> /\ printed' = 0
  /\ status' = "incomplete" /\ usage' = "unavailable" /\ exit' = None
  /\ shown' = [shown EXCEPT ![run'] = "underway"]
  /\ UNCHANGED <<gatewayVars, sent, arrived>>

Next ==
  \/ RefuseLocally \/ Send \/ Stream \/ Answered \/ Refused \/ Raise \/ RunAgain
  \/ WindowRollsOver
  \/ \E n \in Requests : Arrive(n) \/ Serve(n)

Spec == Init /\ [][Next]_vars

-----------------------------------------------------------------------------
(* What the developer can tell from the terminal. "Request rejected        *)
(* locally" leaves it open: a ValueError of the SDK's, or of print on a    *)
(* terminal that cannot show a character, says so of a request that ran.   *)
BackendTrouble == {"backend_unavailable", "backend_timeout", "backend_error"}

Verdict(k) ==
  IF shown[k] \in {None, "underway"} THEN "nothing"
  ELSE IF shown[k] \in {"answer", "backend"} THEN "answered"
  ELSE IF shown[k] \in {"rejected", "failed", "cancelled"} \cup BackendTrouble THEN "unknown"
  ELSE "refused"

Inferences(k) ==
  Cardinality(UNION {{n} \X DOMAIN calls[n] : n \in {i \in DOMAIN sent : sent[i].run = k}})

Promise == INSTANCE CallPromise WITH
  Requests <- Runs,
  verdict <- [k \in Runs |-> Verdict(k)],
  runs <- [k \in Runs |-> Inferences(k)]

(* A run of the command never costs more than one inference, one that      *)
(* prints an answer costs exactly one, and one that prints a refusal of    *)
(* the gateway's has cost none and will not: what a cancelled run or a     *)
(* lost connection leaves at the gateway never runs under another's name.  *)
KeepsPromise == Promise!Spec

-----------------------------------------------------------------------------
(* The inductive invariant behind this. A run posts once, and waits for    *)
(* its own POST, not for that of a run before it.                          *)
PostInv ==
  /\ \A i \in DOMAIN sent :
       /\ sent[i].run <= run
       /\ at = "prompt" => sent[i].run < run
       /\ \A j \in DOMAIN sent : j < i => sent[j].run < sent[i].run
  /\ at \in {"response", "event"} => Posted > 0 /\ sent[Posted].run = run

(* The terminal shows something of every run but those still to come.      *)
ShownInv ==
  \A k \in Runs :
    /\ shown[k] = None <=> k > run
    /\ shown[k] = "underway" <=> k = run /\ at # "ended"

(* The developer concludes something only from an answer of the gateway's. *)
ConclusionInv ==
  \A n \in DOMAIN sent : Verdict(sent[n].run) \in {"refused", "answered"} => reply[n] # None

CommandInv == PostInv /\ ShownInv /\ ConclusionInv
=============================================================================
