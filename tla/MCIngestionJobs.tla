--------------------------- MODULE MCIngestionJobs ---------------------------
(***************************************************************************)
(* Instances of IngestionJobs for TLC.  Workers and cities are             *)
(* interchangeable.                                                        *)
(***************************************************************************)
EXTENDS IngestionJobs, TLC

Permuted == Permutations(Workers) \cup Permutations(Cities)
=============================================================================
