----------------------------- MODULE MCGateway -----------------------------
(***************************************************************************)
(* Small instances of Gateway: one well-formed message of an entitled      *)
(* caller and its variations, each departing from it where a policy looks. *)
(***************************************************************************)
EXTENDS Gateway

CONSTANTS alice, bob, home, invoke, other, ide, rogue, gpt, shadow, guid, n1, n2

MCKeys == Tids \X Oids

User(o) == [valid |-> TRUE, tid |-> home, oid |-> o, scp |-> {invoke},
            appOnly |-> FALSE, azp |-> ide, appid |-> None]

PlainBody == [model |-> gpt, tools |-> "absent", store |-> "absent",
              stream |-> "true", endUser |-> None, conformant |-> TRUE]

Plain == [scheme |-> "https", correlation |-> None, jsonType |-> TRUE,
          text |-> "json", oversized |-> FALSE, headers |-> {},
          token |-> User(alice), body |-> PlainBody]

WithToken(t) == [Plain EXCEPT !.token = t]
WithBody(b) == [Plain EXCEPT !.body = b]

TokenVariants ==
  {WithToken(t) : t \in
     {[User(alice) EXCEPT !.valid = FALSE],
      [User(alice) EXCEPT !.scp = {other}],
      [User(alice) EXCEPT !.scp = {}, !.appOnly = TRUE],
      [User(alice) EXCEPT !.appOnly = TRUE],
      [User(alice) EXCEPT !.scp = {other, invoke}, !.oid = None],
      [User(alice) EXCEPT !.azp = rogue],
      [User(alice) EXCEPT !.azp = None, !.appid = ide]}}

BodyVariants ==
  {WithBody(b) : b \in
     {[PlainBody EXCEPT !.model = shadow],
      [PlainBody EXCEPT !.tools = "function", !.stream = "false"],
      [PlainBody EXCEPT !.tools = "hosted"],
      [PlainBody EXCEPT !.tools = "not_object"],
      [PlainBody EXCEPT !.store = "null"],
      [PlainBody EXCEPT !.store = "false", !.stream = "absent"],
      [PlainBody EXCEPT !.store = "true"],
      [PlainBody EXCEPT !.store = "string"],
      [PlainBody EXCEPT !.stream = "other"],
      [PlainBody EXCEPT !.endUser = bob],
      [PlainBody EXCEPT !.conformant = FALSE]}}

EnvelopeVariants ==
  {[Plain EXCEPT !.scheme = "http"],
   [Plain EXCEPT !.correlation = guid, !.headers = HeaderGroup],
   [Plain EXCEPT !.jsonType = FALSE],
   [Plain EXCEPT !.text = "not_utf8"],
   [Plain EXCEPT !.text = "not_json"],
   [Plain EXCEPT !.oversized = TRUE],
   \* a stranger whose request would be refused for its body as well
   [Plain EXCEPT !.token.azp = rogue, !.body.model = shadow],
   [Plain EXCEPT !.token.valid = FALSE, !.text = "not_json"]}

AllMessages == {Plain} \cup TokenVariants \cup BodyVariants \cup EnvelopeVariants

(* Entitled callers only, for the runs about the counters. *)
GoodMessages == {Plain, WithToken(User(bob))}
=============================================================================
