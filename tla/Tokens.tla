------------------------------- MODULE Tokens -------------------------------
(***************************************************************************)
(* Bearer tokens: creation, rotation, revocation, replacement of claims,   *)
(* and the requests that authenticate meanwhile.                           *)
(*                                                                         *)
(* Postgres runs at READ COMMITTED: a statement sees what was committed    *)
(* when it started, and waits for an open transaction that deleted a row   *)
(* it wants to delete or inserted a key it wants to insert.  Operations of *)
(* one statement are one step; replace_claims, a transaction of several,   *)
(* and find_active_record, two statements without one, are not.            *)
(***************************************************************************)
EXTENDS Naturals, Sequences, Functions

CONSTANTS
  TokenIds,
  Secrets,              \* the random part of a raw token
  Claims,               \* pairs of an action and a scope
  Requests,             \* claim lists a caller may send, sequences of Claims
  Admins,               \* slots for concurrent replace_claims handlers
  Sessions,             \* slots for requests that authenticate
  Hashes,
  hash,                 \* HMAC-SHA-256 under the pepper, of raw tokens
  None

\* "mcr_{id}_{secret}"
Raw == TokenIds \X Secrets

ASSUME RequestAssumption == Requests \subseteq Seq(Claims)
\* Two raw tokens with one HMAC are beyond the model.
ASSUME HashAssumption ==
         /\ hash \in [Raw -> Hashes]
         /\ \A r, s \in Raw : hash[r] = hash[s] => r = s
ASSUME NoneAssumption == None \notin TokenIds /\ None \notin Hashes
                         /\ None \notin Secrets /\ None \notin Raw

VARIABLES
  tokens,     \* the tokens table
  claims,     \* the committed rows of token_claims, by token
  issued,     \* raw tokens generated so far; clients may present any of them
  txn,        \* the open replace_claims transactions
  session     \* requests being authenticated, and those that have been

tokenVars == <<tokens, claims, issued>>
vars == <<tokens, claims, issued, txn, session>>

-----------------------------------------------------------------------------
Token == [secret_hash : Hashes \cup {None}, admin : BOOLEAN,
          revoked : BOOLEAN, expired : BOOLEAN]

Absent == [secret_hash |-> None, admin |-> FALSE,
           revoked |-> FALSE, expired |-> FALSE]

Exists(id) == tokens[id].secret_hash # None

\* alone and asked are history: no other replacement of the token overlapped
\* this one, and what this one and those that did were asked for.
NoTxn == [pc |-> "idle", id |-> None, request |-> <<>>, next |-> 1,
          doomed |-> {}, deleted |-> {}, inserted |-> {}, alone |-> TRUE,
          asked |-> {}]

\* stale is history: the raw token was already of no use when it was sent.
NoSession == [pc |-> "idle", id |-> None, secret |-> None, secret_hash |-> None,
              admin |-> FALSE, claims |-> {}, stale |-> FALSE]

Init ==
  /\ tokens = [id \in TokenIds |-> Absent]
  /\ claims = [id \in TokenIds |-> {}]
  /\ issued = {}
  /\ txn = [a \in Admins |-> NoTxn]
  /\ session = [s \in Sessions |-> NoSession]

\* The check without revoked_at IS NULL.
ActiveUnlessExpired(id) == Exists(id) /\ ~tokens[id].expired

\* WHERE revoked_at IS NULL AND (expires_at IS NULL OR expires_at > now())
Active(id) == Exists(id) /\ ~tokens[id].revoked /\ ~tokens[id].expired

-----------------------------------------------------------------------------
\* The raw secret stored in place of its hash.
CreateUnhashed(id, secret, request, admin) ==
  /\ ~Exists(id)
  /\ <<id, secret>> \notin issued
  /\ tokens' = [tokens EXCEPT ![id] = [@ EXCEPT !.secret_hash = secret, !.admin = admin]]
  /\ claims' = [claims EXCEPT ![id] = Range(request)]
  /\ issued' = issued \cup {<<id, secret>>}
  /\ UNCHANGED <<txn, session>>

(* create: a random id and secret, and the claims, in one transaction.     *)
Create(id, secret, request, admin) ==
  /\ ~Exists(id)
  /\ <<id, secret>> \notin issued
  /\ tokens' = [tokens EXCEPT ![id] = [@ EXCEPT !.secret_hash = hash[<<id, secret>>],
                                              !.admin = admin]]
  /\ claims' = [claims EXCEPT ![id] = Range(request)]
  /\ issued' = issued \cup {<<id, secret>>}
  /\ UNCHANGED <<txn, session>>

(* rotate: one UPDATE.  It refuses a revoked token, not an expired one.    *)
Rotatable(id) == Exists(id) /\ ~tokens[id].revoked

Rotate(id, secret) ==
  /\ Rotatable(id)
  /\ <<id, secret>> \notin issued
  /\ tokens' = [tokens EXCEPT ![id].secret_hash = hash[<<id, secret>>]]
  /\ issued' = issued \cup {<<id, secret>>}
  /\ UNCHANGED <<claims, txn, session>>

\* revoked_at = COALESCE(revoked_at, now())
Revoke(id) ==
  /\ Exists(id)
  /\ tokens' = [tokens EXCEPT ![id].revoked = TRUE]
  /\ UNCHANGED <<claims, issued, txn, session>>

\* expires_at passes.
Expire(id) ==
  /\ Exists(id)
  /\ tokens' = [tokens EXCEPT ![id].expired = TRUE]
  /\ UNCHANGED <<claims, issued, txn, session>>

-----------------------------------------------------------------------------
(* replace_claims: SELECT the token, DELETE its claims, INSERT the new     *)
(* ones one by one, COMMIT.  The SELECT takes no lock.                     *)
Others(a) == {b \in Admins \ {a} : txn[b].id = txn[a].id}

BeginReplace(a, id, request) ==
  LET rivals == {b \in Admins : txn[b].id = id} IN
    /\ txn[a].pc = "idle"
    /\ Exists(id)
    /\ txn' = [b \in Admins |->
                 IF b = a THEN [NoTxn EXCEPT !.pc = "selected", !.id = id,
                                  !.request = request, !.alone = rivals = {},
                                  !.asked = Range(request) \cup
                                    UNION {Range(txn[c].request) : c \in rivals}]
                 ELSE IF b \in rivals
                      THEN [txn[b] EXCEPT !.alone = FALSE,
                                          !.asked = @ \cup Range(request)]
                 ELSE txn[b]]
    /\ UNCHANGED <<tokenVars, session>>

\* The DELETE starts: it goes for the rows that are committed now.
StartDelete(a) ==
  /\ txn[a].pc = "selected"
  /\ txn' = [txn EXCEPT ![a] = [@ EXCEPT !.pc = "deleting",
                                       !.doomed = claims[txn[a].id]]]
  /\ UNCHANGED <<tokenVars, session>>

DeleteBlockedBy(a, b) ==
  /\ txn[a].pc = "deleting"
  /\ txn[a].doomed \cap txn[b].deleted # {}

\* An insert-only replacement.
FinishDeleteOfNothing(a) ==
  /\ txn[a].pc = "deleting"
  /\ \A b \in Others(a) : ~DeleteBlockedBy(a, b)
  /\ txn' = [txn EXCEPT ![a] = [@ EXCEPT !.pc = "inserting", !.doomed = {}]]
  /\ UNCHANGED <<tokenVars, session>>

FinishDelete(a) ==
  /\ txn[a].pc = "deleting"
  /\ \A b \in Others(a) : ~DeleteBlockedBy(a, b)
  /\ txn' = [txn EXCEPT ![a] = [@ EXCEPT !.pc = "inserting",
                                       !.deleted = txn[a].doomed, !.doomed = {}]]
  /\ UNCHANGED <<tokenVars, session>>

Inserting(a) == txn[a].pc = "inserting" /\ txn[a].next <= Len(txn[a].request)

NextClaim(a) == txn[a].request[txn[a].next]

\* UNIQUE (token_id, action, scope) against a transaction that is still open.
InsertBlockedBy(a, b) ==
  /\ Inserting(a)
  /\ \/ NextClaim(a) \in txn[b].inserted
     \/ NextClaim(a) \in txn[b].deleted

\* ON CONFLICT DO NOTHING against a row the statement can see.
Conflict(a) == NextClaim(a) \in claims[txn[a].id] \ txn[a].deleted

\* A loop that goes on to the next claim only after an insert that inserted.
InsertClaimUntilDone(a) ==
  /\ Inserting(a)
  /\ \A b \in Others(a) : ~InsertBlockedBy(a, b)
  /\ ~Conflict(a)
  /\ txn' = [txn EXCEPT ![a] =
       [@ EXCEPT !.next = txn[a].next + 1,
                 !.inserted = txn[a].inserted \cup {NextClaim(a)}]]
  /\ UNCHANGED <<tokenVars, session>>

InsertClaim(a) ==
  /\ Inserting(a)
  /\ \A b \in Others(a) : ~InsertBlockedBy(a, b)
  /\ txn' = [txn EXCEPT ![a] =
       [@ EXCEPT !.next = txn[a].next + 1,
                 !.inserted = IF Conflict(a) THEN txn[a].inserted
                              ELSE txn[a].inserted \cup {NextClaim(a)}]]
  /\ UNCHANGED <<tokenVars, session>>

\* A waiting DELETE finds the rows this transaction deleted gone.  It does
\* not see the rows it inserted.
CommitReplace(a) ==
  LET t == txn[a] IN
    /\ t.pc = "inserting" /\ t.next > Len(t.request)
    /\ claims' = [claims EXCEPT ![t.id] = (@ \ t.deleted) \cup t.inserted]
    /\ txn' = [b \in Admins |->
                 IF b = a THEN NoTxn
                 ELSE IF b \in Others(a)
                      THEN [txn[b] EXCEPT !.doomed = @ \ t.deleted]
                 ELSE txn[b]]
    /\ UNCHANGED <<tokens, issued, session>>

Rollback(a) ==
  /\ txn' = [txn EXCEPT ![a] = NoTxn]
  /\ UNCHANGED <<tokenVars, session>>

\* Statements that are committed one by one.
AbortReplaceHalfDone(a) ==
  LET t == txn[a] IN
    /\ t.pc # "idle"
    /\ claims' = [claims EXCEPT ![t.id] = (@ \ t.deleted) \cup t.inserted]
    /\ txn' = [txn EXCEPT ![a] = NoTxn]
    /\ UNCHANGED <<tokens, issued, session>>

\* A database error, a client that disconnects, a crash.
AbortReplace(a) == txn[a].pc # "idle" /\ Rollback(a)

(* Two requests that list their claims in different orders may wait for    *)
(* each other; Postgres then fails one of them.                            *)
WaitsFor(a, b) ==
  b \in Others(a) /\ (DeleteBlockedBy(a, b) \/ InsertBlockedBy(a, b))

Deadlocked(a) ==
  \E S \in SUBSET Admins : a \in S /\ \A b \in S : \E c \in S : WaitsFor(b, c)

BreakDeadlock(a) == Deadlocked(a) /\ Rollback(a)

-----------------------------------------------------------------------------
(* authenticate.  A client may present any raw token it was ever given.    *)
Useless(raw) ==
  LET row == tokens[raw[1]] IN
    row.revoked \/ row.expired \/ row.secret_hash # hash[raw]

SendRequest(s, raw) ==
  /\ session[s].pc = "idle"
  /\ session' = [session EXCEPT ![s] =
                   [NoSession EXCEPT !.pc = "sent", !.id = raw[1],
                      !.secret = raw[2], !.stale = Useless(raw)]]
  /\ UNCHANGED <<tokenVars, txn>>

Refuse(s) == session' = [session EXCEPT ![s] = NoSession]

\* find_active_record, first statement.
FindToken(s) ==
  /\ session[s].pc = "sent"
  /\ IF Active(session[s].id)
     THEN session' = [session EXCEPT ![s] =
            [@ EXCEPT !.pc = "found",
                      !.secret_hash = tokens[session[s].id].secret_hash,
                      !.admin = tokens[session[s].id].admin]]
     ELSE Refuse(s)
  /\ UNCHANGED <<tokenVars, txn>>

\* Its second statement, claims_for, and then the comparison of the hashes.
ReadClaims(s) ==
  /\ session[s].pc = "found"
  /\ IF session[s].secret_hash = hash[<<session[s].id, session[s].secret>>]
     THEN session' = [session EXCEPT ![s] =
            [@ EXCEPT !.pc = "principal", !.claims = claims[session[s].id]]]
     ELSE Refuse(s)
  /\ UNCHANGED <<tokenVars, txn>>

\* The request is answered, or its client leaves.
EndRequest(s) ==
  /\ session[s].pc # "idle"
  /\ Refuse(s)
  /\ UNCHANGED <<tokenVars, txn>>

-----------------------------------------------------------------------------
ReplaceStep(a) ==
  StartDelete(a) \/ FinishDelete(a) \/ InsertClaim(a) \/ CommitReplace(a)

ReplaceNext(a) ==
  \/ \E id \in TokenIds, request \in Requests : BeginReplace(a, id, request)
  \/ ReplaceStep(a)
  \/ AbortReplace(a)
  \/ BreakDeadlock(a)

TokenNext ==
  \E id \in TokenIds :
    \/ \E secret \in Secrets, request \in Requests, admin \in BOOLEAN :
         Create(id, secret, request, admin)
    \/ \E secret \in Secrets : Rotate(id, secret)
    \/ Revoke(id)
    \/ Expire(id)

SessionNext(s) ==
  \/ \E raw \in issued : SendRequest(s, raw)
  \/ FindToken(s)
  \/ ReadClaims(s)
  \/ EndRequest(s)

Next ==
  \/ TokenNext
  \/ \E a \in Admins : ReplaceNext(a)
  \/ \E s \in Sessions : SessionNext(s)

Spec == Init /\ [][Next]_vars

(* Each await of a handler returns, a statement that waits is served in    *)
(* turn (Postgres queues waiters), and Postgres detects deadlocks after    *)
(* deadlock_timeout.                                                       *)
Fairness ==
  \A a \in Admins : SF_vars(ReplaceStep(a)) /\ WF_vars(BreakDeadlock(a))

FairSpec == Spec /\ Fairness
=============================================================================
