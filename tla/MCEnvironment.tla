--------------------------- MODULE MCEnvironment ---------------------------
(***************************************************************************)
(* Two shells on one checkout. A shell is opened bare, with the settings   *)
(* of another day, or with one setting, usable or not; a workspace has all *)
(* the outputs, none, or those of a deployment without the API's audience. *)
(***************************************************************************)
EXTENDS Environment, TLC

Bare == [v \in Variable |-> "unset"]
Typed == [v \in Variable |-> IF v \in {"endpoint", "model", "tenant", "scope"}
                             THEN "typed" ELSE "unset"]

MCInherited ==
  {Bare, [Typed EXCEPT !["scope"] = "unset"], [Typed EXCEPT !["tenant"] = "wrong"],
   [Bare EXCEPT !["models"] = "typed"], [Bare EXCEPT !["models"] = "wrong"],
   [Bare EXCEPT !["timeout"] = "wrong"]}

MCFlagSets == {NoFlags, [NoFlags EXCEPT !["endpoint"] = "typed", !["tenant"] = "typed"]}

MCOutputSets == {Outputs, {}, {"endpoint", "model", "tenant"}}

Symmetry == Permutations(Shells)
=============================================================================
