--------------------------- MODULE MCRepairCycle ---------------------------
(* TLC instance of RepairCycle: see repair.cfg. *)
EXTENDS RepairCycle, TLC

CONSTANTS r1, r2

\* The first column has two test types and room for an escalation, the second
\* one type.
TypesPerRun == (r1 :> 2) @@ (r2 :> 1)
IterationsPerRun == (r1 :> 3) @@ (r2 :> 1)

\* The repair column and the one behind it send failures back.
FailureColumns == <<NoColumn, 1, 2, NoColumn>>
=============================================================================
