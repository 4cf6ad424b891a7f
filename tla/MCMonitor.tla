------------------------------ MODULE MCMonitor ------------------------------
(* The constants of Monitor for TLC. *)
EXTENDS Monitor

MCWindows == {0, 1}
MCSymmetry == Permutations(Accounts) \cup Permutations(TaskIds)
=============================================================================
