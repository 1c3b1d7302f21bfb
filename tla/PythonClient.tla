---------------------------- MODULE PythonClient ----------------------------
(***************************************************************************)
(* One call of examples/python/respond.py: main with ResponsesClient.stream*)
(* and invoke of map_client/responses.py, up to the exit status.           *)
(*                                                                         *)
(* The OpenAI SDK turns the response into events and raises what it cannot *)
(* turn into one; Ctrl-C raises at any point of the call. stream and invoke*)
(* catch nothing, so whatever is raised reaches the handlers of main.      *)
(***************************************************************************)
EXTENDS Naturals, Sequences

CONSTANTS
  MaxEvents,    \* bound: events of one stream
  None          \* not yet

(* The events stream looks at; "other" stands for all it passes over,      *)
(* response.failed among them.                                             *)
EventType == {"delta", "completed", "incomplete", "error", "other"}

Status == {"completed", "incomplete", "failed"}

VARIABLES
  pc,           \* what the call is waiting for
  streaming,    \* --stream
  posts,        \* requests sent
  events,       \* events the server has sent
  printed,      \* deltas on the terminal
  status,       \* status of the result
  usage,        \* its usage_source
  exit          \* the exit status of main

vars == <<pc, streaming, posts, events, printed, status, usage, exit>>

Init ==
  /\ pc = "prompt"
  /\ streaming \in BOOLEAN
  /\ posts = 0
  /\ events = <<>>
  /\ printed = 0
  /\ status = "incomplete"
  /\ usage = "unavailable"
  /\ exit = None

Exit(code) == pc' = "ended" /\ exit' = code

(* ConfigError, no prompt (SystemExit with a text), or an input over       *)
(* MAX_INPUT_BYTES.                                                        *)
RefuseLocally ==
  /\ pc = "prompt"
  /\ \E code \in {1, 2} : Exit(code)
  /\ UNCHANGED <<streaming, posts, events, printed, status, usage>>

(* Mutant of Post: max_retries is left at the SDK's default. *)
PostWithRetries ==
  /\ pc = "prompt"
  /\ posts' \in {posts + 1, posts + 2}
  /\ pc' = "response"
  /\ UNCHANGED <<streaming, events, printed, status, usage, exit>>

(* responses.with_raw_response.create, with max_retries = 0. *)
Post ==
  /\ pc = "prompt"
  /\ posts' = posts + 1
  /\ pc' = "response"
  /\ UNCHANGED <<streaming, events, printed, status, usage, exit>>

(* invoke: a whole response, whose status the server chose. *)
WholeResponse ==
  /\ pc = "response" /\ ~streaming
  /\ status' \in Status
  /\ usage' \in {"unavailable", "reported"}
  /\ Exit(0)
  /\ UNCHANGED <<streaming, posts, events, printed>>

Headers ==
  /\ pc = "response" /\ streaming
  /\ pc' = "event"
  /\ UNCHANGED <<streaming, posts, events, printed, status, usage, exit>>

(* One turn of the loop over the events. *)
Event ==
  /\ pc = "event" /\ Len(events) < MaxEvents
  /\ \E e \in EventType :
       /\ events' = Append(events, e)
       /\ printed' = IF e = "delta" THEN printed + 1 ELSE printed
       /\ status' = IF e = "completed" THEN "completed"
                    ELSE IF e = "incomplete" THEN "incomplete"
                    ELSE IF e = "error" THEN "failed" ELSE status
       /\ IF e = "completed" THEN usage' \in {"unavailable", "reported"}
          ELSE UNCHANGED usage
  /\ UNCHANGED <<pc, streaming, posts, exit>>

(* The loop is through; main prints the summary, whatever it says. *)
StreamEnds ==
  /\ pc = "event"
  /\ Exit(0)
  /\ UNCHANGED <<streaming, posts, events, printed, status, usage>>

(* Any other status than 200 is raised as an APIStatusError. *)
StatusError ==
  /\ pc = "response"
  /\ Exit(1)
  /\ UNCHANGED <<streaming, posts, events, printed, status, usage>>

(* The handlers of main: KeyboardInterrupt 130, ValueError 2 (also one of  *)
(* the SDK or of print), anything else 1.                                  *)
Raise ==
  /\ pc \in {"response", "event"}
  /\ \E code \in {1, 2, 130} : Exit(code)
  /\ UNCHANGED <<streaming, posts, events, printed, status, usage>>

Next ==
  \/ RefuseLocally
  \/ Post
  \/ WholeResponse
  \/ Headers
  \/ Event
  \/ StreamEnds
  \/ StatusError
  \/ Raise

Spec == Init /\ [][Next]_vars
=============================================================================
