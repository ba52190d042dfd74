---------------------------- MODULE MCNodeConnect ----------------------------
(* Two resolutions and three attempts: one for each result and one that    *)
(* finds the socket of its result consumed.  Three sockets are as many as  *)
(* can be open: a reservation and those of two attempts.                   *)
EXTENDS NodeConnect, TLC

Symmetry == Permutations(Fds) \cup Permutations(Conns)
=============================================================================
