---------------------------- MODULE MCInvocation ----------------------------
(* Streams of up to three deltas with every kind of ending.                *)
EXTENDS Invocation

MCScripts ==
  {<<>>,
   <<"delta", "delta">>,
   <<"delta", "incomplete">>,
   <<"delta", "delta", "error">>,
   <<"delta", "other", "delta", "completed">>,
   <<"delta", "other", "delta", "delta", "completed">>,
   <<"completed_without_usage">>,
   <<"completed", "delta", "completed_without_usage">>}
=============================================================================
