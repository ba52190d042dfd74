--------------------------- MODULE MCMessageStream ---------------------------
(* Two known peers on two streams beside the acceptor, and a third peer    *)
(* that is named as a recipient and never seen.                            *)
EXTENDS MessageStream, TLC

CONSTANTS alice, bob, carol

Msg(s, r, v) == [sender |-> s, rcpt |-> r, valid |-> v]

(* Each peer writes to the other; alice also to the node itself, bob to    *)
(* someone without a stream; one message's signature does not verify.      *)
MCMessages == {Msg(alice, bob, TRUE), Msg(bob, alice, TRUE), Msg(bob, carol, TRUE),
               Msg(alice, Self, TRUE), Msg(alice, bob, FALSE)}

Symmetry == Permutations(Handlers)
=============================================================================
