-------------------------- MODULE MCDistancePipeline --------------------------
(* Instances of DistancePipeline for TLC. *)
EXTENDS DistancePipeline

=============================================================================
