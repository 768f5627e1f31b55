----------------------------- MODULE MCNixPatch -----------------------------
(* Instances of NixPatch: one or two patchers, one file, two contents. *)
EXTENDS NixPatch
=============================================================================
