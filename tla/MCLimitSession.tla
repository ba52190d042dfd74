--------------------------- MODULE MCLimitSession ---------------------------
(* LimitSession on two concurrent sessions beside the acceptor.  The       *)
(* messages take every branch of process_incoming_message; the append and  *)
(* the overwrite share one resource, and only the append names the other.  *)
EXTENDS LimitSession, TLC

CONSTANTS r1, r2

NoOp      == [v |-> "ResourceRequest", items |-> EmptyBill]
Append12  == [v |-> "BillAppend",      items |-> r1 :> 2 @@ r2 :> 1]
Overwrite == [v |-> "BillOverwrite",   items |-> r2 :> 3]
Finish    == [v |-> "ResourceFinish",  items |-> EmptyBill]

AllMessages  == {NoOp, Append12, Overwrite, Finish}
LiveMessages == {Append12, Finish}

Symmetry == Permutations(Handlers)
=============================================================================
