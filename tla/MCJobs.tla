------------------------------- MODULE MCJobs -------------------------------
(* Instances of Jobs.tla small enough to check: one job and three servers    *)
(* that may touch it, or two jobs and two servers.                           *)
EXTENDS Jobs
=============================================================================
