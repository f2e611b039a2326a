------------------------------ MODULE MCAnalytics ------------------------------
(* Instances of Analytics and its readers for TLC. *)
EXTENDS AnalyticsReaders, TLC

\* Both sessions of one employee, or one of each: the names do not matter.
MCOwners == {<<1, 1>>, <<2, 1>>}

MCKm == [s \in Sessions |-> 3 * s]
MCSeconds == [s \in Sessions |-> 10 - s]

=============================================================================
