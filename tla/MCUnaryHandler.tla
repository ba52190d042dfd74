--------------------------- MODULE MCUnaryHandler ---------------------------
(* Two of the object store's methods, with room for three RPCs in flight.  *)
EXTENDS UnaryHandler, TLC

CONSTANTS h1, h2, h3, h4, h5, Write, Read

Symmetry == Permutations(Handlers)
=============================================================================
