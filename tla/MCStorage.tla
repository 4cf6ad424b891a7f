------------------------------ MODULE MCStorage ------------------------------
(* The bounds of Storage for TLC. *)
EXTENDS Storage

Bounds(updates, faults, kills, damages) ==
    [k \in Kinds |-> CASE k = "update" -> updates [] k = "fault" -> faults
                       [] k = "kill" -> kills     [] OTHER -> damages]
MCLimit == Bounds(3, 1, 2, 1)
MCTwoKills == Bounds(1, 0, 2, 1)
=============================================================================
