---------------------------- MODULE MCProxyStartup ----------------------------
(* Three runs of the proxy, one after the other or at once. *)
EXTENDS ProxyStartup, TLC

Symmetry == Permutations(Procs) \cup Permutations(Ports)
=============================================================================
