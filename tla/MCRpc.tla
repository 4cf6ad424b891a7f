--------------------------------- MODULE MCRpc ---------------------------------
(* The constants of Rpc for TLC. *)
EXTENDS Rpc, TLC

MCSymmetry == Permutations(Callers)
=============================================================================
