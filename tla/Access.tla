------------------------------- MODULE Access -------------------------------
(***************************************************************************)
(* Requests from their first byte to their answer: authentication, the     *)
(* check of the right, and the operation, while administrators change the  *)
(* tokens.  The token tables are those of Tokens.tla, whose actions are    *)
(* the steps of this module; the crates themselves are in Registry.tla.    *)
(***************************************************************************)
EXTENDS Tokens, CrateName

CONSTANTS
  Scopes,               \* scopes that a request may list, valid or not
  Crates,               \* names in paths and publish bodies
  Ops                   \* operations that callers ask for

ReadOps == {"index", "download"}
PublishOps == {"publish", "yank"}
AdminOps == {"create", "rotate", "revoke", "replace", "list"}

ASSUME OpsAssumption ==
         Ops \subseteq ReadOps \cup PublishOps \cup AdminOps
                         \cup {"whoami", "search"}

\* A slot of Tokens.tla serves one request, which has at most one transaction.
Callers == Sessions
ASSUME CallerAssumption == Admins = Callers
ASSUME NameAssumption == Scopes \subseteq Seq(Chars) /\ Crates \subseteq Seq(Chars)
ASSUME ClaimAssumption == Claims = {"read", "publish"} \X Scopes

VARIABLES
  call,       \* the request of each caller
  shown,      \* raw tokens that answers delivered
  lost,       \* raw tokens whose answer got lost
  granted     \* history: the claims that a caller's token had while its
              \* request was being authenticated

callVars == <<call, shown, lost>>
accessVars == <<vars, callVars, granted>>

NoCall == [stage |-> "idle", op |-> None, target |-> None,
           bootstrap |-> FALSE, raw |-> None]

AccessInit ==
  /\ Init
  /\ call = [c \in Callers |-> NoCall]
  /\ shown = {}
  /\ lost = {}
  /\ granted = [c \in Callers |-> {}]

-----------------------------------------------------------------------------
Targets(op) == IF op \in ReadOps \cup PublishOps THEN Crates
               ELSE IF op \in {"rotate", "revoke", "replace"} THEN TokenIds
               ELSE {None}

\* bearer_token, token_id: whoever was shown a raw token can send it.
Send(c, op, target, raw) ==
  /\ call[c].stage = "idle"
  /\ SendRequest(c, raw)
  /\ call' = [call EXCEPT ![c] = [NoCall EXCEPT !.stage = "authenticating",
                                    !.op = op, !.target = target]]
  /\ UNCHANGED <<shown, lost>>

\* BOOTSTRAP_ADMIN_TOKEN is compared first and needs no table.
SendBootstrap(c, op, target) ==
  /\ call[c].stage = "idle"
  /\ call' = [call EXCEPT ![c] = [NoCall EXCEPT !.stage = "principal",
                            !.op = op, !.target = target, !.bootstrap = TRUE]]
  /\ UNCHANGED <<vars, shown, lost>>

Stage(c, stage) == call' = [call EXCEPT ![c].stage = stage]

\* The stage that follows from how authentication went on.
Authenticated(c) ==
  /\ Stage(c, IF session'[c].pc = "idle" THEN "answering"
              ELSE IF session'[c].pc = "principal" THEN "principal"
              ELSE "authenticating")
  /\ UNCHANGED <<shown, lost>>

Authenticate(c) == (FindToken(c) \/ ReadClaims(c)) /\ Authenticated(c)

-----------------------------------------------------------------------------
Admin(c) == call[c].bootstrap \/ session[c].admin

require(c, action, name) ==
  \/ Admin(c)
  \/ \E claim \in session[c].claims :
       claim[1] = action /\ claim_matches(claim[2], name)

\* require_read, require_publish, require_admin; whoami asks for nothing.
required(c) ==
  LET op == call[c].op target == call[c].target IN
    /\ op \in ReadOps => require(c, "read", target)
    /\ op \in PublishOps => require(c, "publish", target)
    /\ op = "search" => require(c, "read", star)
    /\ op \in AdminOps => Admin(c)

\* publish reads its body between authentication and the check of the right.
ReadBody(c) ==
  /\ call[c].stage = "principal" /\ call[c].op = "publish"
  /\ Stage(c, "body")
  /\ UNCHANGED <<vars, shown, lost>>

Authorize(c) ==
  /\ call[c].stage = (IF call[c].op = "publish" THEN "body" ELSE "principal")
  /\ Stage(c, IF required(c) THEN "allowed" ELSE "answering")
  /\ UNCHANGED <<vars, shown, lost>>

-----------------------------------------------------------------------------
Allowed(c, op) == call[c].stage = "allowed" /\ call[c].op = op

\* Only the first claim of a list looked at.
validate_first_claim(request) ==
  request # <<>> => validate_claim_pattern(request[1][2])

validate_claims(request) ==
  \A claim \in Range(request) : validate_claim_pattern(claim[2])

\* The summary of the token alone.
AnswerWithout(c, raw) ==
  /\ call' = [call EXCEPT ![c].stage = "answering"]
  /\ UNCHANGED <<shown, lost>>

AnswerWith(c, raw) ==
  /\ call' = [call EXCEPT ![c] = [@ EXCEPT !.stage = "answering", !.raw = raw]]
  /\ UNCHANGED <<shown, lost>>

CreateToken(c, id, secret, request, admin) ==
  /\ Allowed(c, "create")
  /\ validate_claims(request)
  /\ Create(id, secret, request, admin)
  /\ AnswerWith(c, <<id, secret>>)

\* The UPDATE is committed; the claims for the answer are read afterwards.
RotateToken(c, secret) ==
  /\ Allowed(c, "rotate")
  /\ Rotate(call[c].target, secret)
  /\ AnswerWith(c, <<call[c].target, secret>>)

RevokeToken(c) ==
  /\ Allowed(c, "revoke")
  /\ Revoke(call[c].target)
  /\ AnswerWith(c, None)

ReplaceClaims(c, request) ==
  /\ Allowed(c, "replace")
  /\ validate_claims(request)
  /\ BeginReplace(c, call[c].target, request)
  /\ Stage(c, "replacing")
  /\ UNCHANGED <<shown, lost>>

Replace(c) ==
  /\ call[c].stage = "replacing"
  /\ ReplaceStep(c) \/ AbortReplace(c) \/ BreakDeadlock(c)
  /\ Stage(c, IF txn'[c].pc = "idle" THEN "answering" ELSE "replacing")
  /\ UNCHANGED <<shown, lost>>

\* A crate operation is done, a token is not there (404), a claim list or a
\* token name is not valid (400), a statement fails (500).
Answerable(c) ==
  /\ call[c].stage = "allowed"
  /\ Stage(c, "answering")
  /\ UNCHANGED <<vars, shown, lost>>

EndSession(c) ==
  IF session[c].pc = "idle" THEN UNCHANGED vars ELSE EndRequest(c)

\* The answer arrives: a status, or a status and a raw token.
Answer(c) ==
  /\ call[c].stage = "answering"
  /\ EndSession(c)
  /\ call' = [call EXCEPT ![c] = NoCall]
  /\ shown' = shown \cup ({call[c].raw} \ {None})
  /\ UNCHANGED lost

\* The client leaves, or a failure after the statement that changed the table
\* turns the answer into a 500.
LoseAnswer(c) ==
  /\ call[c].stage \notin {"idle", "replacing"}
  /\ EndSession(c)
  /\ call' = [call EXCEPT ![c] = NoCall]
  /\ lost' = lost \cup ({call[c].raw} \ {None})
  /\ UNCHANGED shown

ExpireToken(id) == Expire(id) /\ UNCHANGED callVars

-----------------------------------------------------------------------------
\* Not a step of the program: granted watches the tables.
Observe ==
  granted' = [c \in Callers |->
                IF session'[c].pc = "idle" THEN {}
                ELSE IF session[c].pc = "principal" THEN granted[c]
                ELSE granted[c] \cup claims'[session'[c].id]]

TokenStep(c) ==
  \/ \E id \in TokenIds, secret \in Secrets, request \in Requests,
        admin \in BOOLEAN : CreateToken(c, id, secret, request, admin)
  \/ \E secret \in Secrets : RotateToken(c, secret)
  \/ RevokeToken(c)
  \/ \E request \in Requests : ReplaceClaims(c, request)
  \/ Replace(c)

CallStep(c) ==
  \/ \E op \in Ops : \E target \in Targets(op) :
       \/ \E raw \in shown : Send(c, op, target, raw)
       \/ SendBootstrap(c, op, target)
  \/ Authenticate(c)
  \/ ReadBody(c)
  \/ Authorize(c)
  \/ Answerable(c)
  \/ Answer(c)
  \/ LoseAnswer(c)

Step ==
  \/ \E c \in Callers : TokenStep(c) \/ CallStep(c)
  \/ \E id \in TokenIds : ExpireToken(id)

AccessNext == Step /\ Observe

AccessSpec == AccessInit /\ [][AccessNext]_accessVars
=============================================================================
