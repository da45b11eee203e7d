---------------------------- MODULE TokenProofs ----------------------------
(***************************************************************************)
(* Theorems about the token tables, for any number of tokens, secrets,     *)
(* claims, lists, administrators and requests.                             *)
(***************************************************************************)
EXTENDS TokenProperties, TLAPS

RawOf(s) == <<session[s].id, session[s].secret>>

(* Two transactions never delete the same row of one token.                *)
DeletesAreDisjoint ==
  \A a, b \in Admins :
    a # b /\ txn[a].pc # "idle" /\ txn[b].id = txn[a].id
      => txn[a].deleted \cap txn[b].deleted = {}

(* What has happened to a replacement that no other one overlaps.          *)
AloneInv ==
  \A a \in Admins :
    txn[a].pc # "idle" /\ txn[a].alone =>
      /\ Others(a) = {}
      /\ txn[a].pc = "deleting" => txn[a].doomed = claims[txn[a].id]
      /\ txn[a].pc = "inserting" => txn[a].deleted = claims[txn[a].id]
      /\ txn[a].inserted = {txn[a].request[i] : i \in 1..(txn[a].next - 1)}
      /\ txn[a].pc # "inserting" => txn[a].next = 1

(* A request that was sent with a useless raw token has no way forward.    *)
StaleInv ==
  \A s \in Sessions :
    session[s].pc # "idle" /\ session[s].stale =>
      /\ Useless(RawOf(s))
      /\ session[s].pc = "found" => session[s].secret_hash # hash[RawOf(s)]
      /\ session[s].pc # "principal"

(* What a replacement has not deleted it, or one that overlaps it, was     *)
(* asked for.                                                              *)
AskedInv ==
  \A a \in Admins :
    txn[a].pc # "idle" =>
      /\ Range(txn[a].request) \subseteq txn[a].asked
      /\ txn[a].inserted \subseteq Range(txn[a].request)
      /\ \A b \in Others(a) : Range(txn[b].request) \subseteq txn[a].asked
      /\ txn[a].pc # "inserting" => txn[a].deleted = {}
      /\ txn[a].pc = "inserting" => txn[a].doomed = {}
      /\ txn[a].pc # "selected" =>
           claims[txn[a].id]
             \subseteq txn[a].doomed \cup txn[a].deleted \cup txn[a].asked

IInv == TypeOK /\ DeletesAreDisjoint /\ AloneInv /\ AskedInv /\ StaleInv

(* The claims of a list that a caller sends are claims.                    *)
LEMMA RequestIsList ==
  ASSUME NEW request \in Requests
  PROVE  /\ request \in Seq(Claims)
         /\ Range(request) \subseteq Claims
         /\ Len(request) \in Nat
         /\ \A i \in 1..Len(request) : request[i] \in Claims
PROOF
<1>1. request \in Seq(Claims)
  BY RequestAssumption
<1> QED
  BY <1>1 DEF Range

-----------------------------------------------------------------------------
(* What an operation on the tables does to the types.                      *)
LEMMA TokenTypes ==
  ASSUME Types, LocksAreReal, RawsAreIssued, TokenNext
  PROVE  Types'
PROOF
<1> USE DEF Types
<1>1. PICK id \in TokenIds :
        \/ \E secret \in Secrets, request \in Requests, admin \in BOOLEAN :
             Create(id, secret, request, admin)
        \/ \E secret \in Secrets : Rotate(id, secret)
        \/ Revoke(id)
        \/ Expire(id)
  BY DEF TokenNext
<1>2. CASE \E secret \in Secrets, request \in Requests, admin \in BOOLEAN :
             Create(id, secret, request, admin)
  <2>1. PICK secret \in Secrets, request \in Requests, admin \in BOOLEAN :
               Create(id, secret, request, admin)
    BY <1>2
  <2>2. Range(request) \in SUBSET Claims
    BY RequestIsList
  <2>3. <<id, secret>> \in Raw /\ hash[<<id, secret>>] \in Hashes
    BY HashAssumption DEF Raw
  <2> QED
    BY <2>1, <2>2, <2>3 DEF Create, Token
<1>3. CASE \E secret \in Secrets : Rotate(id, secret)
  <2>1. PICK secret \in Secrets : Rotate(id, secret)
    BY <1>3
  <2>2. <<id, secret>> \in Raw /\ hash[<<id, secret>>] \in Hashes
    BY HashAssumption DEF Raw
  <2> QED
    BY <2>1, <2>2 DEF Rotate, Token
<1>4. CASE Revoke(id)
  BY <1>4 DEF Revoke, Token
<1>5. CASE Expire(id)
  BY <1>5 DEF Expire, Token
<1> QED
  BY <1>1, <1>2, <1>3, <1>4, <1>5

(* A token is opened by a raw token that was generated for it.             *)
LEMMA TokenHashes ==
  ASSUME Types, HashesAreIssued, TokenNext
  PROVE  HashesAreIssued'
PROOF
<1> USE DEF Types
<1>1. PICK id \in TokenIds :
        \/ \E secret \in Secrets, request \in Requests, admin \in BOOLEAN :
             Create(id, secret, request, admin)
        \/ \E secret \in Secrets : Rotate(id, secret)
        \/ Revoke(id)
        \/ Expire(id)
  BY DEF TokenNext
<1>2. issued \subseteq issued'
  BY <1>1 DEF Create, Rotate, Revoke, Expire
<1>3. ASSUME NEW k \in TokenIds, Exists(k)',
             tokens'[k].secret_hash = tokens[k].secret_hash
      PROVE  \E raw \in issued' : raw[1] = k /\ tokens'[k].secret_hash = hash[raw]
  BY <1>2, <1>3 DEF HashesAreIssued, Exists
<1>4. ASSUME NEW secret \in Secrets, <<id, secret>> \in issued',
             tokens'[id].secret_hash = hash[<<id, secret>>],
             \A k \in TokenIds \ {id} : tokens'[k] = tokens[k]
      PROVE  HashesAreIssued'
  <2>1. <<id, secret>>[1] = id
    OBVIOUS
  <2>2. \E raw \in issued' : raw[1] = id /\ tokens'[id].secret_hash = hash[raw]
    BY <1>4, <2>1
  <2> QED
    BY <1>3, <1>4, <2>2 DEF HashesAreIssued
<1>5. ASSUME NEW secret \in Secrets, NEW request \in Requests,
             NEW admin \in BOOLEAN, Create(id, secret, request, admin)
      PROVE  HashesAreIssued'
  <2>1. /\ tokens'[id].secret_hash = hash[<<id, secret>>]
        /\ \A k \in TokenIds \ {id} : tokens'[k] = tokens[k]
        /\ <<id, secret>> \in issued'
    BY <1>5 DEF Create, Token
  <2> QED
    BY <1>4, <2>1
<1>6. ASSUME NEW secret \in Secrets, Rotate(id, secret)
      PROVE  HashesAreIssued'
  <2>1. /\ tokens'[id].secret_hash = hash[<<id, secret>>]
        /\ \A k \in TokenIds \ {id} : tokens'[k] = tokens[k]
        /\ <<id, secret>> \in issued'
    BY <1>6 DEF Rotate, Token
  <2> QED
    BY <1>4, <2>1
<1>7. CASE Revoke(id) \/ Expire(id)
  <2>1. \A k \in TokenIds : tokens'[k].secret_hash = tokens[k].secret_hash
    BY <1>7 DEF Revoke, Expire, Token
  <2> QED
    BY <1>3, <2>1 DEF HashesAreIssued
<1> QED
  BY <1>1, <1>5, <1>6, <1>7

(* Steps of a replacement keep the types.                                  *)
LEMMA ReplaceTypes ==
  ASSUME Types, LocksAreReal, NEW a \in Admins, ReplaceNext(a)
  PROVE  Types'
PROOF
<1> USE DEF Types
<1>1. txn[a] \in Txn
  OBVIOUS
<1>2. NoTxn \in Txn
  BY DEF NoTxn, Txn
<1>3. ASSUME NEW id \in TokenIds, NEW request \in Requests,
             BeginReplace(a, id, request)
      PROVE  Types'
  <2> DEFINE rivals == {b \in Admins : txn[b].id = id}
             lists == Range(request) \cup UNION {Range(txn[c].request) : c \in rivals}
  <2>1. request \in Seq(Claims) /\ Range(request) \subseteq Claims
    BY RequestIsList
  <2>2. ASSUME NEW b \in Admins
        PROVE  Range(txn[b].request) \subseteq Claims
    <3>1. txn[b].request \in Seq(Claims)
      BY DEF Txn
    <3> QED
      BY <3>1 DEF Range
  <2>3. lists \in SUBSET Claims
    BY <2>1, <2>2
  <2>4. ASSUME NEW alone \in BOOLEAN, NEW asked \in SUBSET Claims
        PROVE  [NoTxn EXCEPT !.pc = "selected", !.id = id, !.request = request,
                             !.alone = alone, !.asked = asked] \in Txn
    <3>1. ASSUME NEW t \in Txn
          PROVE  [t EXCEPT !.pc = "selected", !.id = id, !.request = request,
                           !.alone = alone, !.asked = asked] \in Txn
      BY <2>1 DEF Txn
    <3> QED
      BY <1>2, <3>1
  <2>5. ASSUME NEW b \in Admins
        PROVE  [txn[b] EXCEPT !.alone = FALSE,
                              !.asked = @ \cup Range(request)] \in Txn
    <3>1. txn[b].asked \cup Range(request) \in SUBSET Claims
      BY <2>1 DEF Txn
    <3> QED
      BY <3>1 DEF Txn
  <2> DEFINE first == rivals = {}
  <2>6. [NoTxn EXCEPT !.pc = "selected", !.id = id, !.request = request,
                      !.alone = first, !.asked = lists] \in Txn
    <3>1. first \in BOOLEAN
      OBVIOUS
    <3> HIDE DEF first, lists
    <3> QED
      BY <2>3, <2>4, <3>1
  <2>7. txn' = [b \in Admins |->
                  IF b = a THEN [NoTxn EXCEPT !.pc = "selected", !.id = id,
                                   !.request = request, !.alone = first,
                                   !.asked = lists]
                  ELSE IF b \in rivals
                       THEN [txn[b] EXCEPT !.alone = FALSE,
                                           !.asked = @ \cup Range(request)]
                  ELSE txn[b]]
    BY <1>3 DEF BeginReplace
  <2>8. txn' \in [Admins -> Txn]
    <3> HIDE DEF first, lists, rivals
    <3> QED
      BY <2>5, <2>6, <2>7
  <2> QED
    BY <1>3, <2>8 DEF BeginReplace, tokenVars
<1>4. CASE StartDelete(a)
  <2>1. txn[a].id \in TokenIds
    BY <1>4 DEF StartDelete, LocksAreReal
  <2>2. [txn[a] EXCEPT !.pc = "deleting", !.doomed = claims[txn[a].id]] \in Txn
    BY <2>1 DEF Txn
  <2> QED
    BY <1>4, <2>2 DEF StartDelete, tokenVars
<1>5. CASE FinishDelete(a)
  <2>1. [txn[a] EXCEPT !.pc = "inserting", !.deleted = txn[a].doomed,
                       !.doomed = {}] \in Txn
    BY DEF Txn
  <2> QED
    BY <1>5, <2>1 DEF FinishDelete, tokenVars
<1>6. CASE InsertClaim(a)
  <2>1. NextClaim(a) \in Claims
    BY <1>6 DEF InsertClaim, Inserting, NextClaim, Txn
  <2> DEFINE inserted == IF Conflict(a) THEN txn[a].inserted
                          ELSE txn[a].inserted \cup {NextClaim(a)}
  <2>2. inserted \in SUBSET Claims /\ txn[a].next + 1 \in Nat \ {0}
    BY <2>1 DEF Txn
  <2>3. [txn[a] EXCEPT !.next = txn[a].next + 1, !.inserted = inserted] \in Txn
    <3> HIDE DEF inserted
    <3> QED
      BY <2>2 DEF Txn
  <2> QED
    BY <1>6, <2>3 DEF InsertClaim, tokenVars
<1>7. CASE CommitReplace(a)
  <2>1. \A b \in Admins : [txn[b] EXCEPT !.doomed = @ \ txn[a].deleted] \in Txn
    BY DEF Txn
  <2>2. txn' \in [Admins -> Txn]
    BY <1>2, <1>7, <2>1 DEF CommitReplace
  <2>3. \A id \in TokenIds :
          (claims[id] \ txn[a].deleted) \cup txn[a].inserted \in SUBSET Claims
    BY <1>1 DEF Txn
  <2> QED
    BY <1>7, <2>2, <2>3 DEF CommitReplace
<1>8. CASE Rollback(a)
  BY <1>2, <1>8 DEF Rollback, tokenVars
<1> QED
  BY <1>3, <1>4, <1>5, <1>6, <1>7, <1>8
     DEF ReplaceNext, ReplaceStep, AbortReplace, BreakDeadlock

(* Steps of an authentication keep the types.                              *)
LEMMA SessionTypes ==
  ASSUME Types, RawsAreIssued, NEW s \in Sessions, SessionNext(s)
  PROVE  Types' /\ RawsAreIssued'
PROOF
<1> USE DEF Types
<1>1. session[s] \in Session /\ NoSession \in Session
  BY DEF NoSession, Session
<1>2. ASSUME NEW raw \in issued, SendRequest(s, raw)
      PROVE  Types' /\ RawsAreIssued'
  <2>1. raw[1] \in TokenIds /\ raw[2] \in Secrets /\ raw = <<raw[1], raw[2]>>
    BY DEF Raw
  <2>2. Useless(raw) \in BOOLEAN
    BY <2>1 DEF Useless, Token
  <2>3. [NoSession EXCEPT !.pc = "sent", !.id = raw[1], !.secret = raw[2],
                          !.stale = Useless(raw)] \in Session
    BY <2>1, <2>2 DEF NoSession, Session
  <2>4. session' \in [Sessions -> Session]
    BY <1>2, <2>3 DEF SendRequest
  <2>5. session'[s].id = raw[1] /\ session'[s].secret = raw[2]
    BY <1>2 DEF SendRequest, NoSession
  <2>6. \A q \in Sessions \ {s} : session'[q] = session[q]
    BY <1>2 DEF SendRequest
  <2> QED
    BY <1>2, <2>1, <2>4, <2>5, <2>6 DEF SendRequest, RawsAreIssued, tokenVars
<1>3. ASSUME Refuse(s), UNCHANGED <<tokenVars, txn>>
      PROVE  Types' /\ RawsAreIssued'
  BY <1>1, <1>3 DEF Refuse, RawsAreIssued, tokenVars, NoSession
<1>4. CASE FindToken(s) /\ Active(session[s].id)
  <2>1. session[s].id \in TokenIds
    BY <1>4 DEF FindToken, RawsAreIssued, Raw
  <2>2. [session[s] EXCEPT !.pc = "found",
           !.secret_hash = tokens[session[s].id].secret_hash,
           !.admin = tokens[session[s].id].admin] \in Session
    BY <1>1, <2>1 DEF Session, Token
  <2>3. session' = [session EXCEPT ![s] =
                     [session[s] EXCEPT !.pc = "found",
                        !.secret_hash = tokens[session[s].id].secret_hash,
                        !.admin = tokens[session[s].id].admin]]
    BY <1>4 DEF FindToken
  <2> QED
    BY <1>4, <2>2, <2>3 DEF FindToken, RawsAreIssued, tokenVars, Session
<1>5. CASE ReadClaims(s) /\ session[s].secret_hash
                              = hash[<<session[s].id, session[s].secret>>]
  <2>1. session[s].id \in TokenIds
    BY <1>5 DEF ReadClaims, RawsAreIssued, Raw
  <2>2. [session[s] EXCEPT !.pc = "principal",
                           !.claims = claims[session[s].id]] \in Session
    BY <1>1, <2>1 DEF Session
  <2>3. session' = [session EXCEPT ![s] =
                     [session[s] EXCEPT !.pc = "principal",
                                        !.claims = claims[session[s].id]]]
    BY <1>5 DEF ReadClaims
  <2> QED
    BY <1>5, <2>2, <2>3 DEF ReadClaims, RawsAreIssued, tokenVars, Session
<1> QED
  BY <1>2, <1>3, <1>4, <1>5 DEF SessionNext, FindToken, ReadClaims, EndRequest

-----------------------------------------------------------------------------
(* The open transactions and the requests see nothing of an operation on   *)
(* the table but that raw tokens become useless, which they then remain.   *)
LEMMA TokenSteps ==
  ASSUME Types, TokenNext
  PROVE  /\ UNCHANGED <<txn, session>>
         /\ issued \subseteq issued'
         /\ \A id \in TokenIds :
              Exists(id) => /\ Exists(id)' /\ claims'[id] = claims[id]
                            /\ tokens'[id].admin = tokens[id].admin
         /\ \A raw \in issued : Useless(raw) => Useless(raw)'
PROOF
<1> USE DEF Types
<1>1. PICK id \in TokenIds :
        \/ \E secret \in Secrets, request \in Requests, admin \in BOOLEAN :
             Create(id, secret, request, admin)
        \/ \E secret \in Secrets : Rotate(id, secret)
        \/ Revoke(id)
        \/ Expire(id)
  BY DEF TokenNext
<1>2. \A raw \in issued : raw[1] \in TokenIds /\ raw \in Raw
  BY DEF Raw
<1>3. ASSUME NEW secret \in Secrets, <<id, secret>> \notin issued,
             NEW raw \in issued
      PROVE  /\ hash[<<id, secret>>] \in Hashes
             /\ hash[<<id, secret>>] # None
             /\ hash[<<id, secret>>] # hash[raw]
  <2>1. <<id, secret>> \in Raw /\ raw # <<id, secret>>
    BY <1>3 DEF Raw
  <2> QED
    BY <1>2, <2>1, HashAssumption, NoneAssumption
<1>4. ASSUME NEW secret \in Secrets
      PROVE  hash[<<id, secret>>] # None
  BY HashAssumption, NoneAssumption DEF Raw
<1>5. ASSUME NEW secret \in Secrets, NEW request \in Requests,
             NEW admin \in BOOLEAN, Create(id, secret, request, admin)
      PROVE  /\ \A k \in TokenIds :
                  Exists(k) => /\ Exists(k)' /\ claims'[k] = claims[k]
                               /\ tokens'[k].admin = tokens[k].admin
             /\ \A raw \in issued : Useless(raw) => Useless(raw)'
  <2>1. \A k \in TokenIds :
          Exists(k) => /\ Exists(k)' /\ claims'[k] = claims[k]
                       /\ tokens'[k].admin = tokens[k].admin
    BY <1>5 DEF Create, Exists
  <2>2. ASSUME NEW raw \in issued, Useless(raw)
        PROVE  Useless(raw)'
    BY <1>2, <1>3, <1>5, <2>2 DEF Create, Useless, Token
  <2> QED
    BY <2>1, <2>2
<1>6. ASSUME NEW secret \in Secrets, Rotate(id, secret)
      PROVE  /\ \A k \in TokenIds :
                  Exists(k) => /\ Exists(k)' /\ claims'[k] = claims[k]
                               /\ tokens'[k].admin = tokens[k].admin
             /\ \A raw \in issued : Useless(raw) => Useless(raw)'
  <2>1. \A k \in TokenIds :
          Exists(k) => /\ Exists(k)' /\ claims'[k] = claims[k]
                       /\ tokens'[k].admin = tokens[k].admin
    BY <1>4, <1>6 DEF Rotate, Exists, Token
  <2>2. ASSUME NEW raw \in issued, Useless(raw)
        PROVE  Useless(raw)'
    BY <1>2, <1>3, <1>6, <2>2 DEF Rotate, Useless, Token
  <2> QED
    BY <2>1, <2>2
<1>7. CASE Revoke(id)
  BY <1>2, <1>7 DEF Revoke, Exists, Useless, Token
<1>8. CASE Expire(id)
  BY <1>2, <1>8 DEF Expire, Exists, Useless, Token
<1> QED
  BY <1>1, <1>5, <1>6, <1>7, <1>8 DEF Create, Rotate, Revoke, Expire

(* The steps that change tokens keep the inductive invariant.              *)
LEMMA TokenPreserves ==
  ASSUME IInv, TokenNext
  PROVE  IInv'
PROOF
<1> USE DEF IInv, TypeOK
<1>1. Types'
  BY TokenTypes
<1>2. /\ UNCHANGED <<txn, session>>
      /\ issued \subseteq issued'
      /\ \A id \in TokenIds :
           Exists(id) => Exists(id)' /\ claims'[id] = claims[id]
      /\ \A raw \in issued : Useless(raw) => Useless(raw)'
  BY TokenSteps
<1>3. \A a \in Admins : txn[a].pc # "idle" =>
        /\ txn[a].id \in TokenIds /\ Exists(txn[a].id)'
        /\ claims'[txn[a].id] = claims[txn[a].id]
  BY <1>2 DEF LocksAreReal
<1>4. LocksAreReal'
  BY <1>2, <1>3 DEF LocksAreReal
<1>5. RawsAreIssued'
  BY <1>2 DEF RawsAreIssued
<1>6. DeletesAreDisjoint'
  BY <1>2 DEF DeletesAreDisjoint
<1>7. AloneInv'
  BY <1>2, <1>3 DEF AloneInv, Others
<1>8. AskedInv'
  BY <1>2, <1>3 DEF AskedInv, Others
<1>9. StaleInv'
  BY <1>2 DEF StaleInv, RawsAreIssued, RawOf
<1>10. HashesAreIssued'
  BY TokenHashes
<1> QED
  BY <1>1, <1>4, <1>5, <1>6, <1>7, <1>8, <1>9, <1>10

-----------------------------------------------------------------------------
(* Requests change nothing but their own session.                          *)
LEMMA SessionPreserves ==
  ASSUME IInv, NEW s \in Sessions, SessionNext(s)
  PROVE  IInv'
PROOF
<1> USE DEF IInv, TypeOK
<1>1. Types' /\ RawsAreIssued'
  BY SessionTypes
<1>2. UNCHANGED <<tokens, claims, issued, txn>>
  BY DEF SessionNext, SendRequest, FindToken, ReadClaims, EndRequest, tokenVars
<1>3. /\ LocksAreReal' /\ HashesAreIssued'
      /\ DeletesAreDisjoint' /\ AloneInv' /\ AskedInv'
  BY <1>2 DEF LocksAreReal, Exists, HashesAreIssued, DeletesAreDisjoint,
              AloneInv, AskedInv, Others
<1>4. \A q \in Sessions \ {s} : session'[q] = session[q]
  BY DEF SessionNext, SendRequest, FindToken, ReadClaims, EndRequest, Refuse,
         Types
<1>5. \A raw : Useless(raw)' <=> Useless(raw)
  BY <1>2 DEF Useless
<1>6. \A q \in Sessions \ {s} :
        session'[q].pc # "idle" /\ session'[q].stale =>
          /\ Useless(RawOf(q))'
          /\ session'[q].pc = "found" =>
               session'[q].secret_hash # hash[RawOf(q)']
          /\ session'[q].pc # "principal"
  BY <1>4, <1>5 DEF StaleInv, RawOf
<1>7. ASSUME session'[s].pc # "idle", session'[s].stale
      PROVE  /\ Useless(RawOf(s)')
             /\ session'[s].pc = "found" =>
                  session'[s].secret_hash # hash[RawOf(s)']
             /\ session'[s].pc # "principal"
  <2>1. ASSUME NEW raw \in issued, SendRequest(s, raw)
        PROVE  RawOf(s)' = raw /\ Useless(raw) /\ session'[s].pc = "sent"
    BY <1>7, <2>1 DEF SendRequest, NoSession, RawOf, Raw, Types
  <2>2. ASSUME Refuse(s)
        PROVE  FALSE
    BY <1>7, <2>2 DEF Refuse, NoSession, Types
  <2>3. ASSUME FindToken(s), Active(session[s].id)
        PROVE  /\ Useless(RawOf(s)) /\ RawOf(s)' = RawOf(s)
               /\ session'[s].secret_hash # hash[RawOf(s)]
               /\ session'[s].pc = "found"
    <3>1. session'[s].stale = session[s].stale /\ session[s].pc # "idle"
      BY <2>3 DEF FindToken, Types, Session
    <3>2. Useless(RawOf(s))
      BY <1>7, <3>1 DEF StaleInv
    <3>3. tokens[session[s].id].secret_hash # hash[RawOf(s)]
      BY <2>3, <3>2 DEF Useless, Active, RawOf
    <3>4. session'[s] = [session[s] EXCEPT !.pc = "found",
                           !.secret_hash = tokens[session[s].id].secret_hash,
                           !.admin = tokens[session[s].id].admin]
      BY <2>3 DEF FindToken, Types
    <3>5. session[s] \in Session
      BY DEF Types
    <3> QED
      BY <3>2, <3>3, <3>4, <3>5 DEF RawOf, Session
  <2>4. ASSUME ReadClaims(s), session[s].secret_hash = hash[RawOf(s)]
        PROVE  FALSE
    <3>1. session'[s].stale = session[s].stale /\ session[s].pc = "found"
      BY <2>4 DEF ReadClaims, RawOf, Types, Session
    <3> QED
      BY <1>7, <2>4, <3>1 DEF StaleInv
  <2> QED
    BY <2>1, <2>2, <2>3, <2>4
       DEF SessionNext, FindToken, ReadClaims, EndRequest, RawOf
<1>8. StaleInv'
  BY <1>5, <1>6, <1>7 DEF StaleInv
<1> QED
  BY <1>1, <1>3, <1>8

-----------------------------------------------------------------------------
(* A step of a replacement, one operation at a time.                       *)
TxnInv == LocksAreReal /\ DeletesAreDisjoint /\ AloneInv

(* The first statement of a replacement keeps what is known of             *)
(* replacements.                                                           *)
LEMMA BeginPreserves ==
  ASSUME Types, TxnInv, NEW a \in Admins, NEW id \in TokenIds,
         NEW request \in Requests, BeginReplace(a, id, request)
  PROVE  TxnInv'
PROOF
<1> USE DEF Types, TxnInv
<1> DEFINE rivals == {b \in Admins : txn[b].id = id}
<1>1. /\ txn'[a].pc = "selected" /\ txn'[a].id = id
      /\ txn'[a].request = request /\ txn'[a].next = 1
      /\ txn'[a].doomed = {} /\ txn'[a].deleted = {} /\ txn'[a].inserted = {}
      /\ txn'[a].alone => rivals = {}
  BY DEF BeginReplace, NoTxn
<1>2. \A b \in Admins \ {a} :
        /\ txn'[b].pc = txn[b].pc /\ txn'[b].id = txn[b].id
        /\ txn'[b].request = txn[b].request /\ txn'[b].next = txn[b].next
        /\ txn'[b].doomed = txn[b].doomed /\ txn'[b].deleted = txn[b].deleted
        /\ txn'[b].inserted = txn[b].inserted
        /\ txn'[b].alone => txn[b].alone /\ b \notin rivals
        /\ txn[b].pc = "idle" => txn'[b] = txn[b]
  <2>1. ASSUME NEW b \in Admins \ {a}, txn[b].pc = "idle"
        PROVE  b \notin rivals
    BY <2>1, NoneAssumption DEF LocksAreReal, NoTxn
  <2> QED
    BY <2>1 DEF BeginReplace, Txn
<1>3. UNCHANGED <<tokens, claims>> /\ Exists(id)
  BY DEF BeginReplace, tokenVars
<1>4. 1 <= Len(request) + 1
  BY RequestIsList
<1>5. LocksAreReal'
  <2>1. ASSUME NEW b \in Admins, txn'[b].pc = "idle"
        PROVE  txn'[b] = NoTxn
    <3>1. b # a /\ txn[b].pc = "idle" /\ txn'[b] = txn[b]
      BY <1>1, <1>2, <2>1
    <3> QED
      BY <3>1 DEF LocksAreReal
  <2>2. ASSUME NEW b \in Admins, txn'[b].pc # "idle"
        PROVE  /\ txn'[b].id \in TokenIds /\ Exists(txn[b].id)'
               /\ txn'[b].request \in Requests
               /\ txn'[b].next <= Len(txn'[b].request) + 1
               /\ txn'[b].doomed \cup txn'[b].deleted \subseteq claims'[txn'[b].id]
    <3>1. CASE b = a
      BY <1>1, <1>3, <1>4, <3>1 DEF Exists
    <3>2. CASE b # a
      <4>1. txn[b].pc # "idle"
        BY <1>2, <2>2, <3>2
      <4> QED
        BY <1>2, <1>3, <3>2, <4>1 DEF LocksAreReal, Exists
    <3> QED
      BY <3>1, <3>2
  <2> QED
    BY <2>1, <2>2 DEF LocksAreReal
<1>6. DeletesAreDisjoint'
  BY <1>1, <1>2, NoneAssumption DEF DeletesAreDisjoint, LocksAreReal, NoTxn
<1>7. ASSUME NEW b \in Admins, txn'[b].pc # "idle", txn'[b].alone
      PROVE  /\ Others(b)' = {}
             /\ txn'[b].pc = "deleting" => txn'[b].doomed = claims'[txn'[b].id]
             /\ txn'[b].pc = "inserting" => txn'[b].deleted = claims'[txn'[b].id]
             /\ txn'[b].inserted
                  = {txn'[b].request[i] : i \in 1..(txn'[b].next - 1)}
             /\ txn'[b].pc # "inserting" => txn'[b].next = 1
  <2>1. CASE b = a
    BY <1>1, <1>2, <1>7, <2>1 DEF Others
  <2>2. CASE b # a
    BY <1>1, <1>2, <1>3, <1>7, <2>2 DEF AloneInv, Others
  <2> QED
    BY <2>1, <2>2
<1>8. AloneInv'
  BY <1>7 DEF AloneInv
<1> QED
  BY <1>5, <1>6, <1>8

(* The steps that touch nothing but their own transaction, and not whose   *)
(* token it replaces the claims of.                                        *)
LEMMA StepPreserves ==
  ASSUME Types, TxnInv, NEW a \in Admins,
         StartDelete(a) \/ FinishDelete(a) \/ InsertClaim(a)
  PROVE  TxnInv'
PROOF
<1> USE DEF Types, TxnInv
<1>1. /\ UNCHANGED <<tokens, claims>>
      /\ \A b \in Admins \ {a} : txn'[b] = txn[b]
      /\ txn[a].pc # "idle" /\ txn'[a].pc # "idle"
      /\ txn'[a].id = txn[a].id /\ txn'[a].request = txn[a].request
      /\ txn'[a].alone = txn[a].alone
  <2>1. CASE StartDelete(a)
    BY <2>1 DEF StartDelete, tokenVars, Txn
  <2>2. CASE FinishDelete(a)
    BY <2>2 DEF FinishDelete, tokenVars, Txn
  <2>3. CASE InsertClaim(a)
    BY <2>3 DEF InsertClaim, Inserting, tokenVars, Txn
  <2> QED
    BY <2>1, <2>2, <2>3
<1>2. /\ txn[a].id \in TokenIds /\ txn[a].request \in Requests
      /\ txn[a] \in Txn
  BY <1>1 DEF LocksAreReal
<1>3. /\ txn'[a].next <= Len(txn[a].request) + 1
      /\ txn'[a].doomed \cup txn'[a].deleted \subseteq claims[txn[a].id]
  <2>1. CASE StartDelete(a)
    BY <2>1 DEF StartDelete, LocksAreReal, Txn
  <2>2. CASE FinishDelete(a)
    <3>1. /\ txn'[a].next = txn[a].next /\ txn'[a].doomed = {}
          /\ txn'[a].deleted = txn[a].doomed
      BY <1>2, <2>2 DEF FinishDelete, Txn
    <3> QED
      BY <1>1, <3>1 DEF LocksAreReal
  <2>3. CASE InsertClaim(a)
    <3>1. Len(txn[a].request) \in Nat /\ txn[a].next \in Nat
      BY <1>2, RequestIsList DEF Txn
    <3>2. txn'[a].next = txn[a].next + 1 /\ txn[a].next <= Len(txn[a].request)
      BY <1>2, <2>3 DEF InsertClaim, Inserting, Txn
    <3>3. txn'[a].doomed = txn[a].doomed /\ txn'[a].deleted = txn[a].deleted
      BY <1>2, <2>3 DEF InsertClaim, Txn
    <3> QED
      BY <1>1, <3>1, <3>2, <3>3 DEF LocksAreReal
  <2> QED
    BY <2>1, <2>2, <2>3
<1>4. LocksAreReal'
  BY <1>1, <1>3 DEF LocksAreReal, Exists
<1>5. \A b \in Others(a) : txn'[a].deleted \cap txn[b].deleted = {}
  <2>1. CASE StartDelete(a)
    BY <1>1, <2>1 DEF StartDelete, DeletesAreDisjoint, Others, Txn
  <2>2. CASE FinishDelete(a)
    BY <2>2 DEF FinishDelete, DeleteBlockedBy, Others, Txn
  <2>3. CASE InsertClaim(a)
    BY <1>1, <2>3 DEF InsertClaim, DeletesAreDisjoint, Others, Txn
  <2> QED
    BY <2>1, <2>2, <2>3
<1>6. DeletesAreDisjoint'
  BY <1>1, <1>5 DEF DeletesAreDisjoint, Others
<1>7. \A b \in Admins : Others(b)' = Others(b)
  BY <1>1 DEF Others
<1>8. ASSUME txn[a].alone
      PROVE  /\ txn'[a].pc = "deleting" => txn'[a].doomed = claims[txn[a].id]
             /\ txn'[a].pc = "inserting" => txn'[a].deleted = claims[txn[a].id]
             /\ txn'[a].inserted
                  = {txn[a].request[i] : i \in 1..(txn'[a].next - 1)}
             /\ txn'[a].pc # "inserting" => txn'[a].next = 1
  <2>1. CASE StartDelete(a)
    <3>1. /\ txn[a].next = 1
          /\ txn[a].inserted
               = {txn[a].request[i] : i \in 1..(txn[a].next - 1)}
      BY <1>1, <1>8, <2>1 DEF StartDelete, AloneInv
    <3>2. /\ txn'[a].pc = "deleting" /\ txn'[a].doomed = claims[txn[a].id]
          /\ txn'[a].next = txn[a].next /\ txn'[a].inserted = txn[a].inserted
      BY <1>2, <2>1 DEF StartDelete, Txn
    <3> QED
      BY <3>1, <3>2
  <2>2. CASE FinishDelete(a)
    BY <1>1, <1>8, <2>2 DEF FinishDelete, AloneInv, Txn
  <2>3. CASE InsertClaim(a)
    <3>1. /\ txn[a].pc = "inserting" /\ txn[a].deleted = claims[txn[a].id]
          /\ txn[a].inserted
               = {txn[a].request[i] : i \in 1..(txn[a].next - 1)}
      BY <1>1, <1>8, <2>3 DEF InsertClaim, Inserting, AloneInv
    <3>2. ~Conflict(a)
      BY <3>1 DEF Conflict
    <3>3. /\ txn'[a].next = txn[a].next + 1 /\ txn'[a].pc = "inserting"
          /\ txn'[a].deleted = txn[a].deleted
          /\ txn'[a].inserted
               = txn[a].inserted \cup {txn[a].request[txn[a].next]}
      BY <2>3, <3>1, <3>2 DEF InsertClaim, NextClaim, Txn
    <3>4. txn[a].next \in Nat \ {0}
      BY <1>2 DEF Txn
    <3> QED
      BY <3>1, <3>3, <3>4
  <2> QED
    BY <2>1, <2>2, <2>3
<1>9. AloneInv'
  BY <1>1, <1>7, <1>8 DEF AloneInv
<1> QED
  BY <1>4, <1>6, <1>9

(* The end of a transaction leaves the others of its token what they hold. *)
LEMMA EndPreserves ==
  ASSUME Types, TxnInv, NEW a \in Admins, txn[a].pc # "idle",
         CommitReplace(a) \/ Rollback(a)
  PROVE  TxnInv'
PROOF
<1> USE DEF Types, TxnInv
<1>1. txn'[a] = NoTxn
  BY DEF CommitReplace, Rollback
<1>2. \A b \in Admins \ {a} :
        /\ txn'[b].pc = txn[b].pc /\ txn'[b].id = txn[b].id
        /\ txn'[b].request = txn[b].request /\ txn'[b].next = txn[b].next
        /\ txn'[b].deleted = txn[b].deleted
        /\ txn'[b].inserted = txn[b].inserted
        /\ txn'[b].alone = txn[b].alone
        /\ b \notin Others(a) => txn'[b] = txn[b]
  BY DEF CommitReplace, Rollback, Txn
<1>3. txn[a].id \in TokenIds
  BY DEF LocksAreReal
<1>4. /\ UNCHANGED tokens
      /\ \A id \in TokenIds : id # txn[a].id => claims'[id] = claims[id]
  BY DEF CommitReplace, Rollback, tokenVars
<1>5. \A b \in Others(a) : txn[b].pc # "idle"
  BY <1>3, NoneAssumption DEF Others, LocksAreReal, NoTxn
<1>6. \A b \in Others(a) :
        txn'[b].doomed \cup txn'[b].deleted \subseteq claims'[txn[a].id]
  <2>1. CASE CommitReplace(a)
    <3>1. claims'[txn[a].id]
            = (claims[txn[a].id] \ txn[a].deleted) \cup txn[a].inserted
      BY <1>3, <2>1 DEF CommitReplace
    <3>2. \A b \in Others(a) :
            txn'[b].doomed = txn[b].doomed \ txn[a].deleted
      BY <2>1 DEF CommitReplace, Others, Txn
    <3>3. \A b \in Others(a) : txn[a].deleted \cap txn[b].deleted = {}
      BY DEF DeletesAreDisjoint, Others
    <3> QED
      BY <1>2, <1>5, <3>1, <3>2, <3>3 DEF LocksAreReal, Others
  <2>2. CASE Rollback(a)
    BY <1>5, <2>2 DEF Rollback, LocksAreReal, Others, tokenVars
  <2> QED
    BY <2>1, <2>2
<1>7. \A b \in Admins \ {a} :
        b \notin Others(a) /\ txn[b].pc # "idle" =>
          txn[b].id # txn[a].id /\ claims'[txn[b].id] = claims[txn[b].id]
  BY <1>4 DEF Others, LocksAreReal
<1>8. LocksAreReal'
  <2>1. ASSUME NEW b \in Admins
        PROVE  IF txn'[b].pc = "idle" THEN txn'[b] = NoTxn
               ELSE /\ txn'[b].id \in TokenIds
                    /\ tokens'[txn'[b].id].secret_hash # None
                    /\ txn'[b].request \in Requests
                    /\ txn'[b].next <= Len(txn'[b].request) + 1
                    /\ txn'[b].doomed \cup txn'[b].deleted
                         \subseteq claims'[txn'[b].id]
    <3>1. CASE b = a
      BY <1>1, <3>1 DEF NoTxn
    <3>2. CASE b \in Others(a)
      BY <1>2, <1>4, <1>5, <1>6, <3>2 DEF LocksAreReal, Others, Exists
    <3>3. CASE b # a /\ b \notin Others(a)
      BY <1>2, <1>4, <1>7, <3>3 DEF LocksAreReal, Exists
    <3> QED
      BY <3>1, <3>2, <3>3
  <2> QED
    BY <2>1 DEF LocksAreReal, Exists
<1>9. DeletesAreDisjoint'
  BY <1>1, <1>2, NoneAssumption
     DEF DeletesAreDisjoint, LocksAreReal, NoTxn
<1>10. ASSUME NEW b \in Admins, txn'[b].pc # "idle", txn'[b].alone
       PROVE  /\ Others(b)' = {}
              /\ txn'[b].pc = "deleting" => txn'[b].doomed = claims'[txn'[b].id]
              /\ txn'[b].pc = "inserting" => txn'[b].deleted = claims'[txn'[b].id]
              /\ txn'[b].inserted
                   = {txn'[b].request[i] : i \in 1..(txn'[b].next - 1)}
              /\ txn'[b].pc # "inserting" => txn'[b].next = 1
  <2>1. b # a
    BY <1>1, <1>10 DEF NoTxn
  <2>2. Others(b) = {} /\ txn[b].pc # "idle"
    BY <1>2, <1>10, <2>1 DEF AloneInv
  <2>3. b \notin Others(a)
    BY <2>1, <2>2 DEF Others
  <2>4. txn'[b] = txn[b] /\ claims'[txn[b].id] = claims[txn[b].id]
    BY <1>2, <1>7, <2>1, <2>2, <2>3
  <2>5. txn[b].id \in TokenIds
    BY <2>2 DEF LocksAreReal
  <2>6. Others(b)' = {}
    BY <1>1, <1>2, <2>2, <2>4, <2>5, NoneAssumption DEF Others, NoTxn
  <2> QED
    BY <1>10, <2>2, <2>4, <2>6 DEF AloneInv
<1>11. AloneInv'
  BY <1>10 DEF AloneInv
<1> QED
  BY <1>8, <1>9, <1>11

(* A replacement that begins adds its list to what those it overlaps were  *)
(* asked for, and takes over theirs.                                       *)
LEMMA BeginAsked ==
  ASSUME Types, TxnInv, AskedInv, NEW a \in Admins, NEW id \in TokenIds,
         NEW request \in Requests, BeginReplace(a, id, request)
  PROVE  AskedInv'
PROOF
<1> USE DEF Types
<1> DEFINE rivals == {b \in Admins : txn[b].id = id}
<1>1. /\ txn'[a].pc = "selected" /\ txn'[a].id = id
      /\ txn'[a].request = request
      /\ txn'[a].doomed = {} /\ txn'[a].deleted = {} /\ txn'[a].inserted = {}
      /\ txn'[a].asked = Range(request) \cup
                           UNION {Range(txn[c].request) : c \in rivals}
  BY DEF BeginReplace, NoTxn
<1>2. \A b \in Admins \ {a} :
        /\ txn'[b].pc = txn[b].pc /\ txn'[b].id = txn[b].id
        /\ txn'[b].request = txn[b].request
        /\ txn'[b].doomed = txn[b].doomed /\ txn'[b].deleted = txn[b].deleted
        /\ txn'[b].inserted = txn[b].inserted
        /\ txn[b].asked \subseteq txn'[b].asked
        /\ b \in rivals => Range(request) \subseteq txn'[b].asked
  BY DEF BeginReplace, Txn
<1>3. UNCHANGED claims
  BY DEF BeginReplace, tokenVars
<1>4. ASSUME NEW c \in Others(a)'
      PROVE  Range(txn'[c].request) \subseteq txn'[a].asked
  <2>1. c \in rivals /\ txn'[c].request = txn[c].request
    BY <1>1, <1>2, <1>4 DEF Others
  <2> QED
    BY <1>1, <2>1
<1>5. ASSUME NEW b \in Admins \ {a}, txn[b].pc # "idle", NEW c \in Others(b)'
      PROVE  Range(txn'[c].request) \subseteq txn'[b].asked
  <2>1. CASE c = a
    BY <1>1, <1>2, <1>5, <2>1 DEF Others
  <2>2. CASE c # a
    BY <1>2, <1>5, <2>2 DEF Others, AskedInv
  <2> QED
    BY <2>1, <2>2
<1>6. ASSUME NEW b \in Admins, txn'[b].pc # "idle"
      PROVE  /\ Range(txn'[b].request) \subseteq txn'[b].asked
             /\ txn'[b].inserted \subseteq Range(txn'[b].request)
             /\ \A c \in Others(b)' : Range(txn'[c].request) \subseteq txn'[b].asked
             /\ txn'[b].pc # "inserting" => txn'[b].deleted = {}
             /\ txn'[b].pc = "inserting" => txn'[b].doomed = {}
             /\ txn'[b].pc # "selected" =>
                  claims'[txn'[b].id]
                    \subseteq txn'[b].doomed \cup txn'[b].deleted \cup txn'[b].asked
  <2>1. CASE b = a
    BY <1>1, <1>4, <2>1
  <2>2. CASE b # a
    <3>1. txn[b].pc # "idle"
      BY <1>2, <1>6, <2>2
    <3> QED
      BY <1>2, <1>3, <1>5, <2>2, <3>1 DEF AskedInv
  <2> QED
    BY <2>1, <2>2
<1> QED
  BY <1>6 DEF AskedInv

(* Its DELETE takes what it finds; its INSERTs are from its list.          *)
LEMMA StepAsked ==
  ASSUME Types, TxnInv, AskedInv, NEW a \in Admins,
         StartDelete(a) \/ FinishDelete(a) \/ InsertClaim(a)
  PROVE  AskedInv'
PROOF
<1> USE DEF Types
<1>1. /\ UNCHANGED claims
      /\ \A b \in Admins \ {a} : txn'[b] = txn[b]
      /\ txn[a].pc # "idle" /\ txn'[a].pc # "idle"
      /\ txn'[a].id = txn[a].id /\ txn'[a].request = txn[a].request
      /\ txn'[a].asked = txn[a].asked
  <2>1. CASE StartDelete(a)
    BY <2>1 DEF StartDelete, tokenVars, Txn
  <2>2. CASE FinishDelete(a)
    BY <2>2 DEF FinishDelete, tokenVars, Txn
  <2>3. CASE InsertClaim(a)
    BY <2>3 DEF InsertClaim, Inserting, tokenVars, Txn
  <2> QED
    BY <2>1, <2>2, <2>3
<1>2. txn[a] \in Txn /\ txn[a].request \in Requests
  BY <1>1 DEF TxnInv, LocksAreReal
<1>3. /\ txn'[a].inserted \subseteq Range(txn[a].request)
      /\ txn'[a].pc # "inserting" => txn'[a].deleted = {}
      /\ txn'[a].pc = "inserting" => txn'[a].doomed = {}
      /\ txn'[a].pc # "selected" =>
           claims[txn[a].id]
             \subseteq txn'[a].doomed \cup txn'[a].deleted \cup txn[a].asked
  <2>1. CASE StartDelete(a)
    <3>1. /\ txn[a].deleted = {}
          /\ txn[a].inserted \subseteq Range(txn[a].request)
      BY <1>1, <2>1 DEF StartDelete, AskedInv
    <3>2. /\ txn'[a].pc = "deleting" /\ txn'[a].doomed = claims[txn[a].id]
          /\ txn'[a].deleted = txn[a].deleted
          /\ txn'[a].inserted = txn[a].inserted
      BY <1>2, <2>1 DEF StartDelete, Txn
    <3> QED
      BY <3>1, <3>2
  <2>2. CASE FinishDelete(a)
    <3>1. /\ txn[a].deleted = {}
          /\ txn[a].inserted \subseteq Range(txn[a].request)
          /\ claims[txn[a].id]
               \subseteq txn[a].doomed \cup txn[a].deleted \cup txn[a].asked
      BY <1>1, <2>2 DEF FinishDelete, AskedInv
    <3>2. /\ txn'[a].pc = "inserting" /\ txn'[a].doomed = {}
          /\ txn'[a].deleted = txn[a].doomed
          /\ txn'[a].inserted = txn[a].inserted
      BY <1>2, <2>2 DEF FinishDelete, Txn
    <3> QED
      BY <3>1, <3>2
  <2>3. CASE InsertClaim(a)
    <3>1. /\ txn[a].doomed = {} /\ txn[a].pc = "inserting"
          /\ txn[a].inserted \subseteq Range(txn[a].request)
          /\ claims[txn[a].id]
               \subseteq txn[a].doomed \cup txn[a].deleted \cup txn[a].asked
      BY <1>1, <2>3 DEF InsertClaim, Inserting, AskedInv
    <3>2. NextClaim(a) \in Range(txn[a].request)
      <4>1. txn[a].next \in 1..Len(txn[a].request)
        BY <1>2, <2>3, RequestIsList DEF InsertClaim, Inserting, Txn
      <4>2. txn[a].request \in Seq(Claims)
        BY <1>2, RequestIsList
      <4> QED
        BY <4>1, <4>2 DEF NextClaim, Range
    <3>3. /\ txn'[a].pc = txn[a].pc /\ txn'[a].doomed = txn[a].doomed
          /\ txn'[a].deleted = txn[a].deleted
          /\ txn'[a].inserted \subseteq txn[a].inserted \cup {NextClaim(a)}
      BY <1>2, <2>3 DEF InsertClaim, Txn
    <3> QED
      BY <3>1, <3>2, <3>3
  <2> QED
    BY <2>1, <2>2, <2>3
<1>4. \A b \in Admins : Others(b)' = Others(b)
  BY <1>1 DEF Others
<1>5. \A b \in Admins : txn'[b].request = txn[b].request
  BY <1>1
<1>6. ASSUME NEW b \in Admins, txn[b].pc # "idle", NEW c \in Others(b)
      PROVE  Range(txn'[c].request) \subseteq txn[b].asked
  BY <1>5, <1>6 DEF AskedInv, Others
<1>7. ASSUME NEW b \in Admins, txn'[b].pc # "idle"
      PROVE  /\ Range(txn'[b].request) \subseteq txn'[b].asked
             /\ txn'[b].inserted \subseteq Range(txn'[b].request)
             /\ \A c \in Others(b)' : Range(txn'[c].request) \subseteq txn'[b].asked
             /\ txn'[b].pc # "inserting" => txn'[b].deleted = {}
             /\ txn'[b].pc = "inserting" => txn'[b].doomed = {}
             /\ txn'[b].pc # "selected" =>
                  claims'[txn'[b].id]
                    \subseteq txn'[b].doomed \cup txn'[b].deleted \cup txn'[b].asked
  <2>1. CASE b = a
    BY <1>1, <1>3, <1>4, <1>6, <2>1 DEF AskedInv
  <2>2. CASE b # a
    BY <1>1, <1>4, <1>6, <1>7, <2>2 DEF AskedInv
  <2> QED
    BY <2>1, <2>2
<1> QED
  BY <1>7 DEF AskedInv

(* What a COMMIT takes from the rows that another DELETE waits for is gone, *)
(* and what it adds is from a list that the other one knows of.            *)
LEMMA EndAsked ==
  ASSUME Types, TxnInv, AskedInv, NEW a \in Admins, txn[a].pc # "idle",
         CommitReplace(a) \/ Rollback(a)
  PROVE  AskedInv'
PROOF
<1> USE DEF Types
<1>1. txn'[a] = NoTxn
  BY DEF CommitReplace, Rollback
<1>2. \A b \in Admins \ {a} :
        /\ txn'[b].pc = txn[b].pc /\ txn'[b].id = txn[b].id
        /\ txn'[b].request = txn[b].request /\ txn'[b].asked = txn[b].asked
        /\ txn'[b].deleted = txn[b].deleted
        /\ txn'[b].inserted = txn[b].inserted
        /\ b \notin Others(a) => txn'[b] = txn[b]
  BY DEF CommitReplace, Rollback, Txn
<1>3. txn[a].id \in TokenIds
  BY DEF TxnInv, LocksAreReal
<1>4. \A b \in Admins : txn[b].pc # "idle" => txn[b].id \in TokenIds
  BY DEF TxnInv, LocksAreReal
<1>5. ASSUME NEW b \in Admins \ {a}, txn[b].pc # "idle"
      PROVE  /\ txn'[b].doomed \subseteq txn[b].doomed
             /\ txn[b].pc # "selected" =>
                  claims'[txn[b].id]
                    \subseteq txn'[b].doomed \cup txn'[b].deleted \cup txn'[b].asked
  <2>1. CASE b \notin Others(a)
    <3>1. txn[b].id # txn[a].id /\ txn'[b] = txn[b]
      BY <1>2, <1>5, <2>1 DEF Others
    <3>2. \A id \in TokenIds : id # txn[a].id => claims'[id] = claims[id]
      BY DEF CommitReplace, Rollback, tokenVars
    <3>3. claims'[txn[b].id] = claims[txn[b].id]
      BY <1>4, <1>5, <3>1, <3>2
    <3> QED
      BY <1>5, <3>1, <3>3 DEF AskedInv
  <2>2. CASE b \in Others(a) /\ CommitReplace(a)
    <3>1. txn[b].id = txn[a].id /\ a \in Others(b)
      BY <2>2 DEF Others
    <3>2. claims'[txn[b].id]
            = (claims[txn[b].id] \ txn[a].deleted) \cup txn[a].inserted
      BY <1>3, <2>2, <3>1 DEF CommitReplace
    <3>3. txn'[b].doomed = txn[b].doomed \ txn[a].deleted
      BY <2>2 DEF CommitReplace, Others, Txn
    <3>4. txn[a].inserted \subseteq txn[b].asked
      BY <1>5, <3>1 DEF AskedInv
    <3>5. txn[b].pc # "selected" =>
            claims[txn[b].id]
              \subseteq txn[b].doomed \cup txn[b].deleted \cup txn[b].asked
      BY <1>5 DEF AskedInv
    <3>6. txn'[b].deleted = txn[b].deleted /\ txn'[b].asked = txn[b].asked
      BY <1>2
    <3> QED
      BY <3>2, <3>3, <3>4, <3>5, <3>6
  <2>3. CASE Rollback(a)
    BY <1>5, <2>3 DEF Rollback, AskedInv, tokenVars
  <2> QED
    BY <2>1, <2>2, <2>3
<1>6. ASSUME NEW b \in Admins \ {a}, txn[b].pc # "idle", NEW c \in Others(b)'
      PROVE  Range(txn'[c].request) \subseteq txn'[b].asked
  <2>1. c # a
    BY <1>1, <1>2, <1>4, <1>6, NoneAssumption DEF Others, NoTxn
  <2>2. c \in Others(b)
    BY <1>2, <1>6, <2>1 DEF Others
  <2> QED
    BY <1>2, <1>6, <2>1, <2>2 DEF AskedInv, Others
<1>7. ASSUME NEW b \in Admins, txn'[b].pc # "idle"
      PROVE  /\ Range(txn'[b].request) \subseteq txn'[b].asked
             /\ txn'[b].inserted \subseteq Range(txn'[b].request)
             /\ \A c \in Others(b)' : Range(txn'[c].request) \subseteq txn'[b].asked
             /\ txn'[b].pc # "inserting" => txn'[b].deleted = {}
             /\ txn'[b].pc = "inserting" => txn'[b].doomed = {}
             /\ txn'[b].pc # "selected" =>
                  claims'[txn'[b].id]
                    \subseteq txn'[b].doomed \cup txn'[b].deleted \cup txn'[b].asked
  <2>1. b # a
    BY <1>1, <1>7 DEF NoTxn
  <2>2. txn[b].pc # "idle"
    BY <1>2, <1>7, <2>1
  <2> QED
    BY <1>2, <1>5, <1>6, <2>1, <2>2 DEF AskedInv
<1> QED
  BY <1>7 DEF AskedInv

(* Each step of a replacement keeps the inductive invariant.               *)
LEMMA ReplacePreserves ==
  ASSUME IInv, NEW a \in Admins, ReplaceNext(a)
  PROVE  IInv'
PROOF
<1> USE DEF IInv, TypeOK
<1>1. Types'
  BY ReplaceTypes
<1>2. TxnInv' /\ AskedInv'
  <2>1. CASE \E id \in TokenIds, request \in Requests :
               BeginReplace(a, id, request)
    BY <2>1, BeginPreserves, BeginAsked DEF TxnInv
  <2>2. CASE StartDelete(a) \/ FinishDelete(a) \/ InsertClaim(a)
    BY <2>2, StepPreserves, StepAsked DEF TxnInv
  <2>3. CASE CommitReplace(a)
    BY <2>3, EndPreserves, EndAsked DEF TxnInv, CommitReplace
  <2>4. CASE AbortReplace(a)
    BY <2>4, EndPreserves, EndAsked DEF TxnInv, AbortReplace
  <2>5. CASE BreakDeadlock(a)
    <3>1. txn[a].pc # "idle"
      BY <2>5 DEF BreakDeadlock, Deadlocked, WaitsFor, DeleteBlockedBy,
                  InsertBlockedBy, Inserting
    <3> QED
      BY <2>5, <3>1, EndPreserves, EndAsked DEF TxnInv, BreakDeadlock
  <2> QED
    BY <2>1, <2>2, <2>3, <2>4, <2>5 DEF ReplaceNext, ReplaceStep
<1>3. UNCHANGED <<tokens, issued, session>>
  BY DEF ReplaceNext, ReplaceStep, BeginReplace, StartDelete, FinishDelete,
         InsertClaim, CommitReplace, AbortReplace, BreakDeadlock, Rollback,
         tokenVars
<1>4. RawsAreIssued' /\ HashesAreIssued' /\ StaleInv'
  BY <1>3 DEF RawsAreIssued, HashesAreIssued, Exists, StaleInv, Useless, RawOf
<1> QED
  BY <1>1, <1>2, <1>4 DEF TxnInv

-----------------------------------------------------------------------------
(* The inductive invariant holds at first,                                 *)
LEMMA InitIInv == Init => IInv
PROOF
<1> SUFFICES ASSUME Init
             PROVE  IInv
  OBVIOUS
<1>1. Absent \in Token /\ NoTxn \in Txn /\ NoSession \in Session
  BY DEF Absent, Token, NoTxn, Txn, NoSession, Session
<1>2. Types
  BY <1>1 DEF Init, Types
<1> QED
  BY <1>2 DEF Init, IInv, TypeOK, LocksAreReal, RawsAreIssued, HashesAreIssued,
              Exists, Absent, DeletesAreDisjoint, AloneInv, AskedInv, StaleInv,
              NoTxn, NoSession

(* each step keeps it,                                                     *)
LEMMA StepIInv == IInv /\ [Next]_vars => IInv'
PROOF
<1> SUFFICES ASSUME IInv, [Next]_vars
             PROVE  IInv'
  OBVIOUS
<1>1. CASE TokenNext
  BY <1>1, TokenPreserves
<1>2. CASE \E a \in Admins : ReplaceNext(a)
  BY <1>2, ReplacePreserves
<1>3. CASE \E s \in Sessions : SessionNext(s)
  BY <1>3, SessionPreserves
<1>4. CASE UNCHANGED vars
  BY <1>4 DEF vars, IInv, TypeOK, Types, LocksAreReal, Exists, RawsAreIssued,
              HashesAreIssued, DeletesAreDisjoint, AloneInv, AskedInv, Others,
              StaleInv, Useless, RawOf
<1> QED
  BY <1>1, <1>2, <1>3, <1>4 DEF Next

(* and so it always holds.                                                 *)
LEMMA SpecIInv == Spec => []IInv
PROOF
  BY InitIInv, StepIInv, PTL DEF Spec

(* The variables have their types, locks are on rows that exist, and every *)
(* raw token that is presented, and the one that opens a token, was        *)
(* generated by create or rotate.                                          *)
THEOREM TypeCorrect == Spec => []TypeOK
PROOF
<1>1. IInv => TypeOK
  BY DEF IInv
<1> QED
  BY <1>1, SpecIInv, PTL

(* A raw token that was useless when it was sent never authenticates, for  *)
(* any number of tokens, rotations, administrators and requests.           *)
THEOREM StaleRefused == Spec => []StaleTokensAreRefused
PROOF
<1>1. IInv => StaleTokensAreRefused
  BY DEF IInv, StaleInv, StaleTokensAreRefused
<1> QED
  BY <1>1, SpecIInv, PTL

(* The COMMIT of a replacement that overlaps no other leaves what was asked *)
(* for.                                                                    *)
LEMMA AloneCommit ==
  ASSUME IInv, NEW a \in Admins, CommitReplace(a), txn[a].alone
  PROVE  claims'[txn[a].id] = Range(txn[a].request)
PROOF
<1> USE DEF IInv, TypeOK, Types
<1>1. /\ txn[a].id \in TokenIds /\ txn[a].request \in Requests
      /\ txn[a].next <= Len(txn[a].request) + 1
      /\ txn[a].next > Len(txn[a].request) /\ txn[a].next \in Nat
  BY DEF CommitReplace, LocksAreReal, Txn
<1>2. Len(txn[a].request) \in Nat /\ txn[a].request \in Seq(Claims)
  BY <1>1, RequestIsList
<1>3. txn[a].next = Len(txn[a].request) + 1
  BY <1>1, <1>2
<1>4. /\ txn[a].deleted = claims[txn[a].id]
      /\ txn[a].inserted
           = {txn[a].request[i] : i \in 1..(txn[a].next - 1)}
  BY DEF CommitReplace, AloneInv
<1>5. claims'[txn[a].id] = txn[a].inserted
  BY <1>1, <1>4 DEF CommitReplace
<1>6. txn[a].next - 1 = Len(txn[a].request)
  BY <1>2, <1>3
<1>7. txn[a].inserted = Range(txn[a].request)
  BY <1>2, <1>4, <1>6 DEF Range
<1> QED
  BY <1>5, <1>7

(* Whatever else happens meanwhile leaves the claims of its token alone.   *)
LEMMA AloneLasts ==
  ASSUME IInv, NEW a \in Admins, txn[a].pc # "idle", txn[a].alone, Next,
         ~CommitReplace(a)
  PROVE  claims'[txn[a].id] = claims[txn[a].id]
PROOF
<1> USE DEF IInv, TypeOK, Types
<1>1. Exists(txn[a].id) /\ txn[a].id \in TokenIds /\ Others(a) = {}
  BY DEF LocksAreReal, AloneInv
<1>2. CASE TokenNext
  BY <1>1, <1>2, TokenSteps
<1>3. ASSUME NEW b \in Admins, ReplaceNext(b)
      PROVE  claims'[txn[a].id] = claims[txn[a].id]
  <2>1. CASE CommitReplace(b)
    <3>1. b # a
      BY <2>1
    <3>2. txn[b].id # txn[a].id
      BY <1>1, <3>1 DEF Others
    <3> QED
      BY <1>1, <2>1, <3>2 DEF CommitReplace
  <2>2. CASE ~CommitReplace(b)
    BY <1>3, <2>2 DEF ReplaceNext, ReplaceStep, BeginReplace, StartDelete,
       FinishDelete, InsertClaim, AbortReplace, BreakDeadlock, Rollback, tokenVars
  <2> QED
    BY <2>1, <2>2
<1>4. CASE \E s \in Sessions : SessionNext(s)
  BY <1>4 DEF SessionNext, SendRequest, FindToken, ReadClaims, EndRequest, tokenVars
<1> QED
  BY <1>2, <1>3, <1>4 DEF Next

(* A replacement of claims that overlaps no other leaves what was asked    *)
(* for when it commits, and until then or if it breaks off what was there, *)
(* for lists of any length.                                                *)
THEOREM AloneReplaces == Spec => AloneReplacesAll
PROOF
<1>1. IInv /\ [Next]_vars =>
        [\A a \in Admins :
           txn[a].pc # "idle" /\ txn[a].alone =>
             claims'[txn[a].id] = IF CommitReplace(a) THEN Range(txn[a].request)
                                  ELSE claims[txn[a].id]]_vars
  BY AloneCommit, AloneLasts
<1> QED
  BY <1>1, SpecIInv, PTL DEF Spec, AloneReplacesAll

(* A replacement that commits leaves no claim but what it, or one that     *)
(* overlapped it, was asked for, for any number of callers and lists.      *)
THEOREM ReplacementsWithdraw == Spec => ReplaceWithdraws
PROOF
<1>1. ASSUME IInv, NEW a \in Admins, CommitReplace(a)
      PROVE  claims'[txn[a].id] \subseteq txn[a].asked
  <2> USE <1>1 DEF IInv, TypeOK, Types
  <2>1. txn[a].pc = "inserting" /\ txn[a].id \in TokenIds
    BY <1>1 DEF CommitReplace, LocksAreReal
  <2>2. claims'[txn[a].id]
          = (claims[txn[a].id] \ txn[a].deleted) \cup txn[a].inserted
    BY <1>1, <2>1 DEF CommitReplace
  <2>3. /\ claims[txn[a].id]
             \subseteq txn[a].doomed \cup txn[a].deleted \cup txn[a].asked
        /\ txn[a].doomed = {}
        /\ txn[a].inserted \subseteq Range(txn[a].request)
        /\ Range(txn[a].request) \subseteq txn[a].asked
    <3>1. txn[a].pc # "idle" /\ txn[a].pc # "selected"
      BY <2>1
    <3>2. /\ Range(txn[a].request) \subseteq txn[a].asked
          /\ txn[a].inserted \subseteq Range(txn[a].request)
      BY <3>1 DEF AskedInv
    <3>3. txn[a].doomed = {}
      BY <2>1, <3>1 DEF AskedInv
    <3>4. claims[txn[a].id]
            \subseteq txn[a].doomed \cup txn[a].deleted \cup txn[a].asked
      BY <3>1 DEF AskedInv
    <3> QED
      BY <3>2, <3>3, <3>4
  <2> QED
    BY <2>2, <2>3
<1>2. IInv /\ [Next]_vars =>
        [\A a \in Admins :
           CommitReplace(a) => claims'[txn[a].id] \subseteq txn[a].asked]_vars
  BY <1>1
<1> QED
  BY <1>2, SpecIInv, PTL DEF Spec, ReplaceWithdraws
=============================================================================
