----------------------------- MODULE MCImmHost ------------------------------
(* Instances of ImmHost for TLC; the .cfg files give the constants. *)
EXTENDS ImmHost, TLC

Symmetry == Permutations(Clients)
=============================================================================
