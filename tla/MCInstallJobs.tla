--------------------------- MODULE MCInstallJobs ----------------------------
(***************************************************************************)
(* An instance of InstallJobs for TLC: VS Code is 1, its extension 2.      *)
(***************************************************************************)
EXTENDS InstallJobs
=============================================================================
