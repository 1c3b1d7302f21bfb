---------------------------- MODULE MCSseFraming ----------------------------
(* Every text of up to MaxLength symbols, cut in every way. *)
EXTENDS SseFraming
=============================================================================
