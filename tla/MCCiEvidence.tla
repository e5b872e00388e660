----------------------------- MODULE MCCiEvidence -----------------------------
(* The jobs of a run for the run of CiEvidence.                             *)
EXTENDS CiEvidence

CONSTANTS Quality, Tests

TwoJobs == <<Quality, Tests>>
=============================================================================
