----------------------- MODULE MCPipelineQueueService -----------------------
(* TLC instance of PipelineQueueService: the board of codetoreum_board_setup,
   cut down to the columns that matter to the queue. *)
EXTENDS PipelineQueueService, TLC

MCColumns == <<"Backlog", "Ready">>
MCTrigger == "Ready"

Symmetry == Permutations(Items) \cup Permutations(Callers)
=============================================================================
