----------------------------- MODULE MCSchedules -----------------------------
(* Instances of Schedules for TLC. Schedules and devices are interchangeable *)
(* in the safety runs; the liveness runs use no symmetry.                    *)
EXTENDS Schedules, TLC

Symmetry == Permutations(Schedules) \cup Permutations(Devices)
=============================================================================
