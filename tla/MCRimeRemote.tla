---------------------------- MODULE MCRimeRemote ----------------------------
(***************************************************************************)
(* Instances of RimeRemote for TLC: engines may be renamed.                *)
(***************************************************************************)
EXTENDS RimeRemote, TLC

EngineSymmetry == Permutations(Engines)
=============================================================================
