----------------------------- MODULE MCSettings -----------------------------
(* Small instances of Settings for TLC: param 1 is in the backup with a bad *)
(* value and becomes offroad-only with the upgrade, param 2 is offroad-only,*)
(* param 3 is blocked but in the extras of a backup (the SSH keys), param 4 *)
(* is an extra key that is offroad-only, and the one that picks the model.  *)
EXTENDS Settings

KnownKeys == [v \in Version |-> {1, 2, 3}]
GatedKeys == [v \in Version |-> IF v = 0 THEN {2} ELSE {1, 2}]
BackupFile == [k \in Key |-> IF k = 1 THEN Bad ELSE CHOOSE v \in Value : TRUE]
=============================================================================
