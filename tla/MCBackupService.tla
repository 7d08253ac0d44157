--------------------------- MODULE MCBackupService ---------------------------
(* Instances of BackupService for TLC. Job ids, configurations, directories *)
(* and devices (all of them deletable, in the runs that use it) are         *)
(* interchangeable, so safety runs permute them.                            *)
EXTENDS BackupService, TLC

Symmetry ==
  Permutations(Workers) \cup Permutations(Configs) \cup Permutations(Names)
  \cup Permutations(Devices) \cup Permutations(Roots)
=============================================================================
