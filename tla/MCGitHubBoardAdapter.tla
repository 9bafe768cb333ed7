----------------------- MODULE MCGitHubBoardAdapter -----------------------
(* TLC instance of GitHubBoardAdapter: see board.cfg. *)
EXTENDS GitHubBoardAdapter, TLC

CONSTANTS i1, b1, b2

\* A card on one of two boards; the other only changes the context.
HomeOfItems == i1 :> b1
=============================================================================
