--------------------------- MODULE MCCommandPath ---------------------------
(***************************************************************************)
(* Two runs of the command by one developer: what the client sends, good,  *)
(* without a valid token, or refused for its size or its model.            *)
(***************************************************************************)
EXTENDS CommandPath

CONSTANTS alice, home, invoke, cli, gpt, shadow, n1

MCKeys == Tids \X Oids

Plain == [scheme |-> "https", correlation |-> None, jsonType |-> TRUE,
          text |-> "json", oversized |-> FALSE, headers |-> {},
          token |-> [valid |-> TRUE, tid |-> home, oid |-> alice, scp |-> {invoke},
                     appOnly |-> FALSE, azp |-> cli, appid |-> None],
          body |-> [model |-> gpt, tools |-> "absent", store |-> "false",
                    stream |-> "true", endUser |-> None, conformant |-> TRUE]]

Kinds == {Plain, [Plain EXCEPT !.token.valid = FALSE], [Plain EXCEPT !.oversized = TRUE],
          [Plain EXCEPT !.body.model = shadow]}

MCMessages == {[m EXCEPT !.body.stream = s] : m \in Kinds, s \in {"absent", "true"}}
=============================================================================
