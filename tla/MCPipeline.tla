----------------------------- MODULE MCPipeline -----------------------------
(* TLC instances of Pipeline: two board templates of the repository. *)
EXTENDS Pipeline, TLC

\* codetoreum_board_setup.py: the board Codetoreum is developed on.
BoardColumns == <<"Backlog", "Ready", "In Progress", "In Review", "Done">>
BoardTrigger == "Ready"
BoardExits == {"Done"}
BoardAgents == {"In Progress"}
BoardAutoProgress == {"In Progress"}
BoardOnFailure == [c \in Columns |-> NoColumn]

\* scenarios/stress_test: the trigger column has the agent.
DirectColumns == <<"Backlog", "In Progress", "Done">>
DirectTrigger == "In Progress"
DirectOnFailure == [c \in Columns |-> IF c = "In Progress" THEN "Backlog" ELSE NoColumn]

\* Once a hand-over is lost, NoLostWakeup has nothing more to say.
NotStranded == ~stranded

\* Bound: after a careless move at most two coroutines are busy; after a
\* restart three (the handlers of both items and the scan), of which only the
\* scan is inside a hand-over.
Busy == {p \in Procs : proc[p] # Idle}
InHandOver == {p \in Busy : proc[p].snap # <<>> \/ proc[p].next # Nobody}
FewHandOvers == \/ mishaps = {}
                \/ Cardinality(Busy) <= 2
                \/ "restart" \in mishaps /\ InHandOver \subseteq {Scan}

Symmetry == Permutations(Items)
=============================================================================
