---------------------------- MODULE MCUsageJobs ----------------------------
(* UsageJobs on small instances. *)
EXTENDS UsageJobs
=============================================================================
