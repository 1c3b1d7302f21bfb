--------------------------- MODULE OrderedWriter ---------------------------
(***************************************************************************)
(* What src/vscode/src/appender.ts promises its caller: text offered is    *)
(* written in the order it was offered, once, in pieces of any size, and   *)
(* what cannot be written is given up from the front and counted.          *)
(*                                                                         *)
(* A character is its position in the text offered so far.                 *)
(***************************************************************************)
EXTENDS Naturals, Sequences

VARIABLES
  offered,    \* characters offered so far
  queue,      \* those not settled yet, in order
  document,   \* those written
  lost        \* how many were given up

vars == <<offered, queue, document, lost>>

Init ==
  /\ offered = 0
  /\ queue = <<>>
  /\ document = <<>>
  /\ lost = 0

Offer ==
  /\ offered' \in Nat /\ offered' >= offered
  /\ queue' = queue \o [i \in 1 .. offered' - offered |-> offered + i]
  /\ UNCHANGED <<document, lost>>

(* The first n characters of the queue leave it. *)
Front(n) == SubSeq(queue, 1, n)

Settle(n) == queue' = SubSeq(queue, n + 1, Len(queue))

Write ==
  \E n \in 1 .. Len(queue) :
    /\ Settle(n)
    /\ document' = document \o Front(n)
    /\ UNCHANGED <<offered, lost>>

GiveUp ==
  \E n \in 1 .. Len(queue) :
    /\ Settle(n)
    /\ lost' = lost + n
    /\ UNCHANGED <<offered, document>>

Next == Offer \/ Write \/ GiveUp

Spec == Init /\ [][Next]_vars
=============================================================================
