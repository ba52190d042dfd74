----------------------------- MODULE AuthStore -----------------------------
(***************************************************************************)
(* The store of peers and authorities (common/peer/store.cc) and what      *)
(* authenticates messages with it (common/peer/message.cc), used by        *)
(* several threads.                                                        *)
(*                                                                         *)
(* Every access to the maps is under `lock`, but an operation is several   *)
(* accesses: push looks the authority's key up, verifies outside the lock  *)
(* and inserts; authentication asks has and then validate_message;         *)
(* sign_message asks has and then signs.                                   *)
(*                                                                         *)
(* A peer's id is the hash of its public key, so the two are one value     *)
(* here.  A certificate is [key, auth, by]: the peer's key, the authority  *)
(* it names and the key that signed it.  A message is [sender, signer].    *)
(* Nothing in the repository calls push or push_authority; they are        *)
(* modelled as the class offers them.  A peer's verifier keeps one context *)
(* of the TLS library for all its messages, and an exception ends the      *)
(* operation that met it: this program catches none of them.               *)
(***************************************************************************)
EXTENDS FiniteSets

CONSTANTS
  Peers,        \* public keys of peers, and their ids
  Authorities,  \* authority ids
  Keys,         \* keys of authorities, one object each
  Threads,
  NoKey, NoCert

ASSUME NoKeyAssumption  == NoKey \notin Keys
ASSUME NoCertAssumption == \A p \in Peers, a \in Authorities, k \in Keys :
                             NoCert # [key |-> p, auth |-> a, by |-> k]

Certs    == [key : Peers, auth : Authorities, by : Keys]
Messages == [sender : Peers, signer : Peers]

VARIABLES
  root,         \* root_authorities: authority -> its key
  freed,        \* keys whose EVP_PKEY has been freed
  ever,         \* history: authority -> the keys it has had
  peers,        \* peers: id -> the certificate it was stored with
  tainted,      \* history: ids let in by a use of a freed key
  used,         \* ids whose verifier has taken a message into its context
  thread        \* thread -> [pc, cert, key, bad, msg, res, again, to, flag]

vars == <<root, freed, ever, peers, tainted, used, thread>>

Idle == [pc |-> "idle"]

Init ==
  /\ root = [a \in Authorities |-> NoKey] /\ freed = {}
  /\ ever = [a \in Authorities |-> {}]
  /\ peers = [p \in Peers |-> NoCert] /\ tainted = {} /\ used = {}
  /\ thread = [t \in Threads |-> Idle]

At(t, pc) == thread[t].pc = pc
Go(t, to) == thread' = [thread EXCEPT ![t] = to]

Has(id) == peers[id] # NoCert

-----------------------------------------------------------------------------
(* push_authority: insert_or_assign moves the new key over the old one,    *)
(* which frees it.                                                         *)

PushAuthority(t, a, k) ==
  /\ At(t, "idle") /\ \A b \in Authorities : k \notin ever[b]
  /\ root'  = [root EXCEPT ![a] = k]
  /\ freed' = freed \cup ({root[a]} \ {NoKey})
  /\ ever'  = [ever EXCEPT ![a] = @ \cup {k}]
  /\ UNCHANGED <<peers, tainted, used, thread>>

-----------------------------------------------------------------------------
(* push                                                                    *)

(* Of an unknown authority it throws. *)
PushLookup(t, c) ==
  /\ At(t, "idle") /\ root[c.auth] # NoKey
  /\ Go(t, [pc |-> "verify", cert |-> c, key |-> root[c.auth]])
  /\ UNCHANGED <<root, freed, ever, peers, tainted, used>>

Verifies(t) == thread[t].cert.by = thread[t].key

VerifyIgnored(t) ==             \* faulty: no test of verify_res
  /\ At(t, "verify")
  /\ Go(t, [pc |-> "insert", cert |-> thread[t].cert, bad |-> thread[t].key \in freed])
  /\ UNCHANGED <<root, freed, ever, peers, tainted, used>>

(* X509_verify with the key found before.  If it was freed meanwhile the   *)
(* memory may hold anything: either result (or the process stops).  Then   *)
(* the id is computed, which may throw (crypto/sgn.cc:89).                 *)
PushVerify(t) ==
  /\ At(t, "verify")
  /\ LET bad == thread[t].key \in freed
     IN  \/ /\ bad \/ Verifies(t)
            /\ Go(t, [pc |-> "insert", cert |-> thread[t].cert, bad |-> bad])
         \/ Go(t, Idle)
  /\ UNCHANGED <<root, freed, ever, peers, tainted, used>>

(* emplace: a peer that is there keeps what it was stored with. *)
PushInsert(t) ==
  /\ At(t, "insert")
  /\ LET c == thread[t].cert
     IN  IF Has(c.key) THEN UNCHANGED <<peers, tainted>>
         ELSE /\ peers' = [peers EXCEPT ![c.key] = c]
              /\ tainted' = IF thread[t].bad THEN tainted \cup {c.key} ELSE tainted
  /\ Go(t, Idle)
  /\ UNCHANGED <<root, freed, ever, used>>

-----------------------------------------------------------------------------
(* authenticate_signed_message_data                                        *)

CheckHas(t, m) ==
  /\ At(t, "idle")
  /\ Go(t, IF Has(m.sender) THEN [pc |-> "validate", msg |-> m]
           ELSE [pc |-> "checked", msg |-> m, res |-> "UnknownSender", again |-> FALSE])
  /\ UNCHANGED <<root, freed, ever, peers, tainted, used>>

(* The key of the verifier is the stored certificate's. *)
SignedByAny(m) == Has(m.signer)     \* faulty: any known peer's verifier

SignatureFits(m) == Has(m.sender) /\ m.signer = peers[m.sender].key

(* What verify may return.  The context was initialised when the peer was  *)
(* stored and never again: a message comes on top of those before it, and  *)
(* a good signature may not fit any more.                                  *)
Verified(m) ==
  {v \in BOOLEAN : IF v THEN SignatureFits(m) ELSE ~SignatureFits(m) \/ m.sender \in used}

(* The payload of a well-signed message may still fail to parse, and the   *)
(* library may report an error that is neither: then verify throws.        *)
CheckValidate(t) ==
  /\ At(t, "validate")
  /\ LET m == thread[t].msg
     IN  /\ \/ \E v \in Verified(m) :
                 \E res \in IF v THEN {"Ok", "BadPayload"} ELSE {"BadSignature"} :
                   Go(t, [pc |-> "checked", msg |-> m, res |-> res, again |-> m.sender \in used])
            \/ Go(t, Idle)
         /\ used' = used \cup {m.sender}
  /\ UNCHANGED <<root, freed, ever, peers, tainted>>

-----------------------------------------------------------------------------
(* sign_message                                                            *)

Flag(id) == Has(id)

SignHas(t, to) ==
  /\ At(t, "idle")
  /\ Go(t, [pc |-> "sign", to |-> to, flag |-> Flag(to)])
  /\ UNCHANGED <<root, freed, ever, peers, tainted, used>>

(* It throws without a key, or when the library does not sign. *)
SignData(t) ==
  /\ At(t, "sign")
  /\ Go(t, [thread[t] EXCEPT !.pc = "signed"]) \/ Go(t, Idle)
  /\ UNCHANGED <<root, freed, ever, peers, tainted, used>>

Return(t) ==
  /\ thread[t].pc \in {"checked", "signed"}
  /\ Go(t, Idle)
  /\ UNCHANGED <<root, freed, ever, peers, tainted, used>>

Next ==
  \E t \in Threads :
    \/ \E a \in Authorities, k \in Keys : PushAuthority(t, a, k)
    \/ \E c \in Certs : PushLookup(t, c)
    \/ PushVerify(t) \/ PushInsert(t) \/ CheckValidate(t) \/ SignData(t) \/ Return(t)
    \/ \E m \in Messages : CheckHas(t, m)
    \/ \E p \in Peers : SignHas(t, p)

Spec == Init /\ [][Next]_vars

-----------------------------------------------------------------------------
(* Properties                                                              *)

(* A peer is stored under its own key's id, with a certificate that one of *)
(* the keys of the authority it names has signed.  The exception is a push *)
(* whose key was replaced, and so freed, between lookup and verification   *)
(* (store.cc:59-77).                                                       *)
AdmittedByAuthority ==
  \A p \in Peers : Has(p) =>
    /\ peers[p].key = p
    /\ peers[p].by \in ever[peers[p].auth] \/ p \in tainted

(* Between has and validate_message other threads change the store, and it *)
(* makes no difference: a message is accepted only if its sender signed    *)
(* it, and one that a known sender signed is taken for badly signed only   *)
(* by a verifier that was used before (message.cc:18-29, store.cc:97-108,  *)
(* sgn.cc:54-85).                                                          *)
AuthenticatedIsSigned ==
  \A t \in Threads : At(t, "checked") =>
    LET m == thread[t].msg
    IN  /\ thread[t].res \in {"Ok", "BadPayload"} => m.signer = m.sender /\ Has(m.sender)
        /\ thread[t].res = "BadSignature" /\ ~thread[t].again => m.signer # m.sender

(* "Shared validation for unary and stream paths: known sender, valid      *)
(* signature, parse MessageData" (peer/message.h:15): a message that its   *)
(* known sender signed passes the check of its signature.                  *)
GenuinePasses ==
  \A t \in Threads : At(t, "checked") /\ thread[t].res = "BadSignature" =>
    thread[t].msg.signer # thread[t].msg.sender

(* A signed message that says its sender has the recipient's certificate   *)
(* is right about it, then and later; one that says it has not may be out  *)
(* of date (store.cc:113-115).                                             *)
FlagIsRight ==
  \A t \in Threads :
    thread[t].pc \in {"sign", "signed"} /\ thread[t].flag => Has(thread[t].to)
=============================================================================
