-------------------------- MODULE MCCommitConfirm --------------------------
(***************************************************************************)
(* CommitConfirm on one host with a good starting configuration, a good    *)
(* new one and one that cuts the host off.                                 *)
(***************************************************************************)
EXTENDS CommitConfirm
CONSTANTS old, new, bad

MCConfigs == {old, new, bad}
MCBroken == {bad}
============================================================================
