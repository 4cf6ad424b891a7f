------------------------------ MODULE MCNotifier ------------------------------
(* The constants of Notifier for TLC. *)
EXTENDS Notifier

MCWindows == {0, 1}
MCOneWindow == {0}
MCSymmetry == Permutations(Accounts)
=============================================================================
