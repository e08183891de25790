---------------------------- MODULE MCLockGroups ----------------------------
(***************************************************************************)
(* The crates of LockCrates whose guards are not followed, on their own;   *)
(* those whose guards are, MCAnalysis takes through the whole analysis.    *)
(***************************************************************************)
EXTENDS LockGroups, LockCrates

CratesAnalysed == Lost
=============================================================================
