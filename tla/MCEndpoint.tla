----------------------------- MODULE MCEndpoint -----------------------------
(* A small instance of Endpoint: a write has two slices. *)
EXTENDS Endpoint

MCPayloads == {<<<<1, 2>>, <<3>>>>}
=============================================================================
