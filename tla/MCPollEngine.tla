---------------------------- MODULE MCPollEngine ----------------------------
(* Two threads polling one descriptor, whose number is used again after it *)
(* is popped and closed.  Three pushes make two watchers for different     *)
(* events and one pushed between the steps of a poll.  A batch of two is   *)
(* full when the descriptor fires together with the wake-up.               *)
EXTENDS PollEngine, TLC

Symmetry == Permutations(Watchers) \cup Permutations(Pollers)
=============================================================================
