-------------------------- MODULE AuthStore_proofs --------------------------
(***************************************************************************)
(* Theorems about AuthStore, for any set of peers, authorities, keys and   *)
(* threads.  The inductive invariant says of each thread what the map was  *)
(* seen to hold at its first access and still supports at its second.      *)
(***************************************************************************)
EXTENDS AuthStore, TLAPS

Results == {"Ok", "BadPayload", "BadSignature", "UnknownSender"}

ThreadStates ==
  [pc : {"idle"}]
    \cup [pc : {"verify"}, cert : Certs, key : Keys]
    \cup [pc : {"insert"}, cert : Certs, bad : BOOLEAN]
    \cup [pc : {"validate"}, msg : Messages]
    \cup [pc : {"checked"}, msg : Messages, res : Results, again : BOOLEAN]
    \cup [pc : {"sign", "signed"}, to : Peers, flag : BOOLEAN]

TypeInv ==
  /\ root   \in [Authorities -> Keys \cup {NoKey}]
  /\ ever   \in [Authorities -> SUBSET Keys]
  /\ peers  \in [Peers -> Certs \cup {NoCert}]
  /\ thread \in [Threads -> ThreadStates]

(* An authority's key is one it has had. *)
RootInv == \A a \in Authorities : root[a] # NoKey => root[a] \in ever[a]

(* What a push found out is still so when it goes on. *)
PushInv ==
  \A t \in Threads :
    /\ At(t, "verify") => thread[t].key \in ever[thread[t].cert.auth]
    /\ At(t, "insert") => \/ thread[t].cert.by \in ever[thread[t].cert.auth]
                          \/ thread[t].bad

(* So is what an authentication found out: peers are never removed. *)
CheckInv == \A t \in Threads : At(t, "validate") => Has(thread[t].msg.sender)

IInv ==
  /\ TypeInv /\ RootInv /\ PushInv /\ CheckInv
  /\ AdmittedByAuthority /\ AuthenticatedIsSigned /\ FlagIsRight

-----------------------------------------------------------------------------
(* NoCert is not a certificate. *)
LEMMA NoCertFact == NoCert \notin Certs
  BY NoCertAssumption DEF Certs

(* Initially the store is empty and every thread idle. *)
LEMMA InitInv == Init => IInv
  BY NoCertFact DEF Init, IInv, TypeInv, RootInv, PushInv, CheckInv, AdmittedByAuthority,
     AuthenticatedIsSigned, FlagIsRight, Has, At, Idle, ThreadStates

(* Replacing an authority's key loses none of the keys it has had. *)
LEMMA PushAuthorityStep ==
  ASSUME IInv, NEW t \in Threads, NEW a \in Authorities, NEW k \in Keys, PushAuthority(t, a, k)
  PROVE  IInv'
<1>1. /\ TypeInv' /\ UNCHANGED <<peers, tainted, thread>>
  BY DEF IInv, TypeInv, PushAuthority
<1>2. \A b \in Authorities : ever[b] \subseteq ever'[b]
  BY DEF IInv, TypeInv, PushAuthority
<1>3. RootInv'
  BY DEF IInv, TypeInv, RootInv, PushAuthority
<1>4. PushInv'
  <2> SUFFICES ASSUME NEW u \in Threads
               PROVE  /\ At(u, "verify") => thread[u].key \in ever'[thread[u].cert.auth]
                      /\ At(u, "insert") => \/ thread[u].cert.by \in ever'[thread[u].cert.auth]
                                            \/ thread[u].bad
    BY <1>1 DEF PushInv, At
  <2>1. thread[u] \in ThreadStates
    BY DEF IInv, TypeInv
  <2>2. At(u, "verify") \/ At(u, "insert") => thread[u].cert.auth \in Authorities
    BY <2>1 DEF ThreadStates, At, Certs
  <2> QED
    BY <1>2, <2>2 DEF IInv, PushInv
<1>5. CheckInv' /\ AuthenticatedIsSigned' /\ FlagIsRight'
  BY <1>1 DEF IInv, CheckInv, AuthenticatedIsSigned, FlagIsRight, Has, At
<1>6. AdmittedByAuthority'
  <2> SUFFICES ASSUME NEW p \in Peers, Has(p)
               PROVE  /\ peers[p].key = p
                      /\ peers[p].by \in ever'[peers[p].auth] \/ p \in tainted
    BY <1>1 DEF AdmittedByAuthority, Has
  <2>1. peers[p].auth \in Authorities
    BY DEF IInv, TypeInv, Has, Certs
  <2> QED
    BY <1>2, <2>1 DEF IInv, AdmittedByAuthority
<1> QED
  BY <1>1, <1>3, <1>4, <1>5, <1>6 DEF IInv
-----------------------------------------------------------------------------
(* What the invariant says of one thread's state. *)
StateOK(s) ==
  /\ s \in ThreadStates
  /\ s.pc = "verify" => s.key \in ever[s.cert.auth]
  /\ s.pc = "insert" => s.cert.by \in ever[s.cert.auth] \/ s.bad
  /\ s.pc = "validate" => Has(s.msg.sender)
  /\ s.pc = "checked" =>
       /\ s.res \in {"Ok", "BadPayload"} => s.msg.signer = s.msg.sender /\ Has(s.msg.sender)
       /\ s.res = "BadSignature" /\ ~s.again => s.msg.signer # s.msg.sender
  /\ s.pc \in {"sign", "signed"} /\ s.flag => Has(s.to)

LEMMA StatesOK == IInv => \A t \in Threads : StateOK(thread[t])
  BY DEF IInv, TypeInv, PushInv, CheckInv, AuthenticatedIsSigned, FlagIsRight, At, StateOK

(* A step that only moves one thread, to a state that is right. *)
LEMMA ThreadStep ==
  ASSUME IInv, NEW t \in Threads, NEW s, StateOK(s), Go(t, s),
         UNCHANGED <<root, ever, peers, tainted>>
  PROVE  IInv'
<1>1. \A u \in Threads : thread'[u] = IF u = t THEN s ELSE thread[u]
  BY DEF IInv, TypeInv, Go
<1>2. \A u \in Threads : StateOK(thread'[u])
  BY <1>1, StatesOK
<1>3. TypeInv'
  BY DEF IInv, TypeInv, Go, StateOK
<1>4. PushInv' /\ CheckInv'
  BY <1>2 DEF PushInv, CheckInv, At, StateOK, Has
<1>5. AuthenticatedIsSigned' /\ FlagIsRight'
  BY <1>2 DEF AuthenticatedIsSigned, FlagIsRight, At, StateOK, Has
<1>6. RootInv' /\ AdmittedByAuthority'
  BY DEF IInv, RootInv, AdmittedByAuthority, Has
<1> QED
  BY <1>3, <1>4, <1>5, <1>6 DEF IInv

LEMMA IdleOK == StateOK(Idle)
  BY DEF StateOK, Idle, ThreadStates

LEMMA PushLookupStep ==
  ASSUME IInv, NEW t \in Threads, NEW c \in Certs, PushLookup(t, c)
  PROVE  IInv'
<1> DEFINE s == [pc |-> "verify", cert |-> c, key |-> root[c.auth]]
<1>1. c.auth \in Authorities /\ root[c.auth] # NoKey
  BY DEF Certs, PushLookup
<1>2. s.key \in Keys /\ s.key \in ever[c.auth]
  BY <1>1 DEF IInv, TypeInv, RootInv
<1>3. StateOK(s)
  BY <1>2 DEF StateOK, ThreadStates
<1> QED
  BY <1>3, ThreadStep DEF PushLookup

(* A verification succeeds with the key that signed, or with a freed one. *)
LEMMA PushVerifyStep ==
  ASSUME IInv, NEW t \in Threads, PushVerify(t)
  PROVE  IInv'
<1> DEFINE bad == thread[t].key \in freed
           s   == [pc |-> "insert", cert |-> thread[t].cert, bad |-> bad]
<1>1. StateOK(thread[t]) /\ thread[t].pc = "verify"
  BY StatesOK DEF PushVerify, At
<1>2. thread[t].cert \in Certs /\ thread[t].key \in ever[thread[t].cert.auth]
  BY <1>1 DEF StateOK, ThreadStates
<1>3. CASE (bad \/ Verifies(t)) /\ Go(t, s)
  <2>1. s \in ThreadStates
    BY <1>2 DEF ThreadStates
  <2>2. s.cert.by \in ever[s.cert.auth] \/ s.bad
    BY <1>2, <1>3 DEF Verifies
  <2>3. StateOK(s)
    BY <2>1, <2>2 DEF StateOK
  <2> QED
    BY <1>3, <2>3, ThreadStep DEF PushVerify
<1>4. CASE Go(t, Idle)
  BY <1>4, IdleOK, ThreadStep DEF PushVerify
<1> QED
  BY <1>3, <1>4 DEF PushVerify

(* Inserting a peer takes nothing away from what other threads saw. *)
LEMMA PushInsertStep ==
  ASSUME IInv, NEW t \in Threads, PushInsert(t)
  PROVE  IInv'
<1> DEFINE c == thread[t].cert
<1>1. StateOK(thread[t]) /\ thread[t].pc = "insert"
  BY StatesOK DEF PushInsert, At
<1>2. /\ c \in Certs /\ c.key \in Peers
      /\ c.by \in ever[c.auth] \/ thread[t].bad
  BY <1>1 DEF StateOK, ThreadStates, Certs
<1>3. CASE Has(c.key)
  BY <1>3, IdleOK, ThreadStep DEF PushInsert
<1>4. CASE ~Has(c.key)
  <2>1. /\ peers' = [peers EXCEPT ![c.key] = c]
        /\ tainted' = IF thread[t].bad THEN tainted \cup {c.key} ELSE tainted
        /\ Go(t, Idle) /\ UNCHANGED <<root, ever>>
    BY <1>4 DEF PushInsert
  <2>2. \A p \in Peers : Has(p) => peers'[p] = peers[p] /\ Has(p)'
    BY <1>4, <2>1 DEF IInv, TypeInv, Has
  <2>3. \A u \in Threads : thread'[u] = IF u = t THEN Idle ELSE thread[u]
    BY <2>1 DEF IInv, TypeInv, Go
  <2>4. TypeInv' /\ RootInv'
    BY <1>2, <2>1, IdleOK DEF IInv, TypeInv, RootInv, Go, StateOK
  <2>5. AdmittedByAuthority'
    <3> SUFFICES ASSUME NEW p \in Peers, Has(p)'
                 PROVE  /\ peers'[p].key = p
                        /\ peers'[p].by \in ever[peers'[p].auth] \/ p \in tainted'
      BY <2>1 DEF AdmittedByAuthority
    <3>1. CASE p = c.key
      BY <1>2, <2>1, <3>1 DEF IInv, TypeInv
    <3>2. CASE p # c.key
      BY <2>1, <3>2 DEF IInv, TypeInv, AdmittedByAuthority, Has
    <3> QED
      BY <3>1, <3>2
  <2>6. \A u \in Threads : StateOK(thread[u])
    BY StatesOK
  <2>7. PushInv'
    BY <2>1, <2>3, <2>6 DEF PushInv, At, Idle, StateOK
  <2>8. CheckInv'
    BY <2>2, <2>3, <2>6 DEF CheckInv, At, Idle, StateOK, ThreadStates, Messages
  <2>9. AuthenticatedIsSigned'
    BY <2>2, <2>3, <2>6 DEF AuthenticatedIsSigned, At, Idle, StateOK, ThreadStates, Messages
  <2>10. FlagIsRight'
    BY <2>2, <2>3, <2>6 DEF FlagIsRight, At, Idle, StateOK, ThreadStates
  <2> QED
    BY <2>4, <2>5, <2>7, <2>8, <2>9, <2>10 DEF IInv
<1> QED
  BY <1>3, <1>4

LEMMA CheckHasStep ==
  ASSUME IInv, NEW t \in Threads, NEW m \in Messages, CheckHas(t, m)
  PROVE  IInv'
<1> DEFINE s == IF Has(m.sender) THEN [pc |-> "validate", msg |-> m]
                ELSE [pc |-> "checked", msg |-> m, res |-> "UnknownSender", again |-> FALSE]
<1>1. StateOK(s)
  <2>1. CASE Has(m.sender)
    BY <2>1 DEF StateOK, ThreadStates
  <2>2. CASE ~Has(m.sender)
    BY <2>2 DEF StateOK, ThreadStates, Results
  <2> QED
    BY <2>1, <2>2
<1> QED
  BY <1>1, ThreadStep DEF CheckHas

(* The verifier found now is of the peer that has saw: its id is its key.  *)
(* What it returns depends on the messages it has taken before.            *)
LEMMA CheckValidateStep ==
  ASSUME IInv, NEW t \in Threads, CheckValidate(t)
  PROVE  IInv'
<1> DEFINE m == thread[t].msg
<1>1. StateOK(thread[t]) /\ thread[t].pc = "validate"
  BY StatesOK DEF CheckValidate, At
<1>2. m \in Messages /\ Has(m.sender) /\ m.sender \in Peers
  BY <1>1 DEF StateOK, ThreadStates, Messages
<1>3. SignatureFits(m) <=> m.signer = m.sender
  BY <1>2 DEF SignatureFits, IInv, AdmittedByAuthority
<1>4. CASE Go(t, Idle)
  BY <1>4, IdleOK, ThreadStep DEF CheckValidate
<1>5. ASSUME NEW v \in Verified(m), NEW res \in IF v THEN {"Ok", "BadPayload"} ELSE {"BadSignature"},
             Go(t, [pc |-> "checked", msg |-> m, res |-> res, again |-> m.sender \in used])
      PROVE  IInv'
  <2> DEFINE s == [pc |-> "checked", msg |-> m, res |-> res, again |-> m.sender \in used]
  <2>1. s \in ThreadStates
    BY <1>2, <1>5 DEF ThreadStates, Results
  <2>2. /\ res \in {"Ok", "BadPayload"} => m.signer = m.sender
        /\ res = "BadSignature" /\ m.sender \notin used => m.signer # m.sender
    BY <1>3, <1>5 DEF Verified
  <2>3. StateOK(s)
    BY <1>2, <2>1, <2>2 DEF StateOK
  <2> QED
    BY <1>5, <2>3, ThreadStep DEF CheckValidate
<1> QED
  BY <1>4, <1>5 DEF CheckValidate

LEMMA SignHasStep ==
  ASSUME IInv, NEW t \in Threads, NEW to \in Peers, SignHas(t, to)
  PROVE  IInv'
<1> DEFINE s == [pc |-> "sign", to |-> to, flag |-> Flag(to)]
<1>1. StateOK(s)
  BY DEF StateOK, ThreadStates, Flag, Has
<1> QED
  BY <1>1, ThreadStep DEF SignHas

LEMMA SignDataStep ==
  ASSUME IInv, NEW t \in Threads, SignData(t)
  PROVE  IInv'
<1> DEFINE s == [thread[t] EXCEPT !.pc = "signed"]
<1>1. StateOK(thread[t]) /\ thread[t].pc = "sign"
  BY StatesOK DEF SignData, At
<1>2. thread[t] \in [pc : {"sign", "signed"}, to : Peers, flag : BOOLEAN]
  BY <1>1 DEF StateOK, ThreadStates
<1>3. s \in ThreadStates /\ s.pc = "signed" /\ s.flag = thread[t].flag /\ s.to = thread[t].to
  BY <1>2 DEF ThreadStates
<1>4. StateOK(s)
  BY <1>1, <1>3 DEF StateOK
<1>5. CASE Go(t, s)
  BY <1>4, <1>5, ThreadStep DEF SignData
<1>6. CASE Go(t, Idle)
  BY <1>6, IdleOK, ThreadStep DEF SignData
<1> QED
  BY <1>5, <1>6 DEF SignData

LEMMA ReturnStep ==
  ASSUME IInv, NEW t \in Threads, Return(t)
  PROVE  IInv'
  BY IdleOK, ThreadStep DEF Return

-----------------------------------------------------------------------------
(* Every step keeps the invariant. *)
THEOREM Invariance == Spec => []IInv
<1>1. IInv /\ [Next]_vars => IInv'
  <2> SUFFICES ASSUME IInv, [Next]_vars PROVE IInv'
    OBVIOUS
  <2>1. CASE UNCHANGED vars
    BY <2>1 DEF vars, IInv, TypeInv, RootInv, PushInv, CheckInv, AdmittedByAuthority,
       AuthenticatedIsSigned, FlagIsRight, At, Has
  <2>2. ASSUME NEW t \in Threads,
               \E a \in Authorities, k \in Keys : PushAuthority(t, a, k)
        PROVE  IInv'
    BY <2>2, PushAuthorityStep
  <2>3. ASSUME NEW t \in Threads, \E c \in Certs : PushLookup(t, c)
        PROVE  IInv'
    BY <2>3, PushLookupStep
  <2>4. ASSUME NEW t \in Threads, \E m \in Messages : CheckHas(t, m)
        PROVE  IInv'
    BY <2>4, CheckHasStep
  <2>5. ASSUME NEW t \in Threads, \E p \in Peers : SignHas(t, p)
        PROVE  IInv'
    BY <2>5, SignHasStep
  <2>6. ASSUME NEW t \in Threads,
               PushVerify(t) \/ PushInsert(t) \/ CheckValidate(t) \/ SignData(t) \/ Return(t)
        PROVE  IInv'
    BY <2>6, PushVerifyStep, PushInsertStep, CheckValidateStep, SignDataStep, ReturnStep
  <2> QED
    BY <2>1, <2>2, <2>3, <2>4, <2>5, <2>6 DEF Next
<1> QED
  BY <1>1, InitInv, PTL DEF Spec

(* No peer gets into the store but with a certificate signed by a key of   *)
(* its authority, or by a use of a freed key.                              *)
THEOREM Admission == Spec => []AdmittedByAuthority
  BY Invariance, PTL DEF IInv

(* The gap between has and validate_message is harmless, for any number of *)
(* threads: nothing but the sender's signature is accepted, and nothing    *)
(* but a verifier used before refuses it (message.cc:18-29, sgn.cc:71-85). *)
THEOREM Authentication == Spec => []AuthenticatedIsSigned
  BY Invariance, PTL DEF IInv

(* has_recipient_cert never claims what the store does not hold. *)
THEOREM HonestFlag == Spec => []FlagIsRight
  BY Invariance, PTL DEF IInv
=============================================================================
