--------------------------- MODULE ResourceLedger ---------------------------
(***************************************************************************)
(* What the resource guard promises a billing client, stated without       *)
(* streams, completion queues or handlers.                                 *)
(*                                                                         *)
(* A session is closed, open or ending.  While it is open the service      *)
(* takes one message at a time: a bill message changes the session's bill  *)
(* at once, and the next message is taken only after the previous one has  *)
(* been acknowledged.  Nothing is billed to a session that is ending, and  *)
(* a session that closes forgets its bill.                                 *)
(***************************************************************************)
EXTENDS Integers

CONSTANTS
  Sessions,     \* identities a session may have
  Resources,    \* names a bill can mention
  Messages      \* what a client may send: records [v |-> kind, items |-> bill]

VARIABLES
  status,       \* session -> "closed", "open" or "ending"
  bill,         \* session -> accumulated amount per resource
  owed          \* session -> 1 iff a message is applied and not acknowledged yet

vars == <<status, bill, owed>>

EmptyBill == [r \in {} |-> 0]

(* `res_request_[k] += v` for every item: a resource the bill does not     *)
(* mention yet starts at 0.                                                *)
Charge(b, items) ==
  [r \in DOMAIN b \cup DOMAIN items |->
     (IF r \in DOMAIN b THEN b[r] ELSE 0)
       + (IF r \in DOMAIN items THEN items[r] ELSE 0)]

(* The bill after a message of each kind. *)
Billed(b, m) ==
  CASE m.v = "BillAppend"    -> Charge(b, m.items)
    [] m.v = "BillOverwrite" -> m.items
    [] OTHER                 -> b

Init ==
  /\ status = [s \in Sessions |-> "closed"]
  /\ bill   = [s \in Sessions |-> EmptyBill]
  /\ owed   = [s \in Sessions |-> 0]

Open(s) ==
  /\ status[s] = "closed"
  /\ status' = [status EXCEPT ![s] = "open"]
  /\ UNCHANGED <<bill, owed>>

Apply(s) ==
  /\ status[s] = "open" /\ owed[s] = 0
  /\ \E m \in Messages :
       /\ m.v # "ResourceFinish"
       /\ bill' = [bill EXCEPT ![s] = Billed(@, m)]
  /\ owed' = [owed EXCEPT ![s] = 1]
  /\ UNCHANGED status

Acknowledge(s) ==
  /\ status[s] = "open" /\ owed[s] = 1
  /\ owed' = [owed EXCEPT ![s] = 0]
  /\ UNCHANGED <<status, bill>>

(* The client finished, closed its side or went away: an acknowledgement   *)
(* that was still owed is never given.                                     *)
End(s) ==
  /\ status[s] = "open"
  /\ status' = [status EXCEPT ![s] = "ending"]
  /\ owed'   = [owed EXCEPT ![s] = 0]
  /\ UNCHANGED bill

Close(s) ==
  /\ status[s] = "ending"
  /\ status' = [status EXCEPT ![s] = "closed"]
  /\ bill'   = [bill EXCEPT ![s] = EmptyBill]
  /\ UNCHANGED owed

Next == \E s \in Sessions :
          Open(s) \/ Apply(s) \/ Acknowledge(s) \/ End(s) \/ Close(s)

Spec == Init /\ [][Next]_vars
=============================================================================
