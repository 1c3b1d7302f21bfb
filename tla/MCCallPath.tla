----------------------------- MODULE MCCallPath -----------------------------
(***************************************************************************)
(* Two calls through one proxy: the messages are those the proxy lets      *)
(* through, good or refused for their body; two people may be signed in.   *)
(***************************************************************************)
EXTENDS CallPath, TLC

CONSTANTS alice, bob, home, invoke, ide, gpt, n1

MCKeys == Tids \X Oids

(* The token is filled in when the POST arrives. *)
NoToken == [valid |-> FALSE, tid |-> home, oid |-> None, scp |-> {invoke},
            appOnly |-> FALSE, azp |-> ide, appid |-> None]

Plain == [scheme |-> "https", correlation |-> None, jsonType |-> TRUE,
          text |-> "json", oversized |-> FALSE, headers |-> {}, token |-> NoToken,
          body |-> [model |-> gpt, tools |-> "absent", store |-> "absent",
                    stream |-> "true", endUser |-> None, conformant |-> TRUE]]

MCMessages == {[Plain EXCEPT !.body.tools = t, !.token.valid = v, !.token.oid = o] :
                 t \in {"absent"}, v \in BOOLEAN, o \in Oids \cup {None}}

Symmetry == Permutations(Requests) \cup Permutations(Oids)
=============================================================================
