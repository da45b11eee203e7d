---------------------------- MODULE AccessProofs ----------------------------
(***************************************************************************)
(* Theorems about requests and the tables, for any number of callers,      *)
(* tokens, claims and crates.                                              *)
(***************************************************************************)
EXTENDS AccessProperties, TokenProofs, SequenceTheorems

\* The stage of a call, its transaction and its session go together.
Stages ==
  \A c \in Callers :
    /\ \/ call[c].stage = "idle"
       \/ call[c].op \in Ops /\ call[c].target \in Targets(call[c].op)
    /\ call[c].stage # "answering" => call[c].raw = None
    /\ call[c].stage = "idle" => session[c].pc = "idle"
    /\ call[c].stage = "authenticating" <=> session[c].pc \in {"sent", "found"}
    /\ call[c].stage \in {"principal", "body", "allowed", "replacing"}
         => call[c].bootstrap \/ session[c].pc = "principal"
    /\ call[c].bootstrap => session[c].pc = "idle"
    /\ txn[c].pc # "idle" <=> call[c].stage = "replacing"
    /\ call[c].stage = "replacing" => call[c].op = "replace"

Known ==
  /\ shown \cup lost \subseteq issued
  /\ \A c \in Callers : call[c].raw # None => call[c].raw \in issued

Shape == call \in [Callers -> Call] /\ Stages /\ Known

ShapeInv == IInv /\ Shape

-----------------------------------------------------------------------------
(* The fields that authentication and an answer with a raw token set.      *)
LEMMA FoundFields ==
  ASSUME session \in [Sessions -> Session], NEW s \in Sessions, FindToken(s)
  PROVE  /\ session[s].pc = "sent"
         /\ \/ session'[s] = NoSession
            \/ /\ Active(session[s].id)
               /\ session'[s].pc = "found" /\ session'[s].id = session[s].id
               /\ session'[s].admin = tokens[session[s].id].admin
               /\ session'[s].claims = session[s].claims
PROOF
<1>1. CASE Active(session[s].id)
  <2>1. session'[s] = [session[s] EXCEPT !.pc = "found",
                         !.secret_hash = tokens[session[s].id].secret_hash,
                         !.admin = tokens[session[s].id].admin]
    BY <1>1 DEF FindToken
  <2>2. session[s] \in Session /\ session[s].pc = "sent"
    BY DEF FindToken
  <2> QED
    BY <1>1, <2>1, <2>2 DEF Session
<1>2. CASE ~Active(session[s].id)
  BY <1>2 DEF FindToken, Refuse
<1> QED
  BY <1>1, <1>2

(* What the second statement of find_active_record and the comparison of   *)
(* hashes leave of a session.                                              *)
LEMMA ReadFields ==
  ASSUME session \in [Sessions -> Session], NEW s \in Sessions, ReadClaims(s)
  PROVE  /\ session[s].pc = "found"
         /\ \/ session'[s] = NoSession
            \/ /\ session'[s].pc = "principal" /\ session'[s].id = session[s].id
               /\ session'[s].admin = session[s].admin
               /\ session'[s].claims = claims[session[s].id]
PROOF
<1> DEFINE good == session[s].secret_hash = hash[<<session[s].id, session[s].secret>>]
<1>1. CASE good
  <2>1. session'[s] = [session[s] EXCEPT !.pc = "principal",
                                         !.claims = claims[session[s].id]]
    BY <1>1 DEF ReadClaims
  <2>2. session[s] \in Session /\ session[s].pc = "found"
    BY DEF ReadClaims
  <2> QED
    BY <2>1, <2>2 DEF Session
<1>2. CASE ~good
  BY <1>2 DEF ReadClaims, Refuse
<1> QED
  BY <1>1, <1>2

(* What an answer, with a raw token or without, leaves of a call.          *)
LEMMA AnswerFields ==
  ASSUME call \in [Callers -> Call], NEW c \in Callers, NEW raw, AnswerWith(c, raw)
  PROVE  /\ call'[c].stage = "answering" /\ call'[c].raw = raw
         /\ call'[c].op = call[c].op /\ call'[c].target = call[c].target
         /\ call'[c].bootstrap = call[c].bootstrap
         /\ \A b \in Callers : b # c => call'[b] = call[b]
PROOF
<1>1. call'[c] = [call[c] EXCEPT !.stage = "answering", !.raw = raw]
  BY DEF AnswerWith
<1>2. call[c] \in Call
  OBVIOUS
<1>3. \A b \in Callers : b # c => call'[b] = call[b]
  BY DEF AnswerWith
<1> QED
  BY <1>1, <1>2, <1>3 DEF Call

-----------------------------------------------------------------------------
(* Every step of a request is a step of the tables, or none.               *)
LEMMA StepsRefine ==
  ASSUME ShapeInv, AccessNext
  PROVE  [Next]_vars
PROOF
<1> USE DEF ShapeInv, Shape
<1> SUFFICES Next \/ UNCHANGED vars
  OBVIOUS
<1>1. ASSUME NEW c \in Callers, TokenStep(c)
      PROVE  Next
  <2>1. call[c].op \in {"rotate", "revoke", "replace"} /\ call[c].stage # "idle"
          => call[c].target \in TokenIds
    BY DEF Stages, Targets, ReadOps, PublishOps
  <2>2. TokenNext \/ ReplaceNext(c)
    <3>1. ASSUME NEW id \in TokenIds, NEW secret \in Secrets,
                 NEW request \in Requests, NEW admin \in BOOLEAN,
                 CreateToken(c, id, secret, request, admin)
          PROVE  TokenNext
      BY <3>1 DEF CreateToken, TokenNext
    <3>2. ASSUME NEW secret \in Secrets, RotateToken(c, secret)
          PROVE  TokenNext
      BY <2>1, <3>2 DEF RotateToken, Allowed, TokenNext
    <3>3. ASSUME RevokeToken(c)
          PROVE  TokenNext
      BY <2>1, <3>3 DEF RevokeToken, Allowed, TokenNext
    <3>4. ASSUME NEW request \in Requests, ReplaceClaims(c, request)
          PROVE  ReplaceNext(c)
      BY <2>1, <3>4 DEF ReplaceClaims, Allowed, ReplaceNext
    <3>5. ASSUME Replace(c)
          PROVE  ReplaceNext(c)
      BY <3>5 DEF Replace, ReplaceNext
    <3> QED
      BY <1>1, <3>1, <3>2, <3>3, <3>4, <3>5 DEF TokenStep
  <2> QED
    BY <2>2, CallerAssumption DEF Next
<1>2. ASSUME NEW c \in Callers, CallStep(c)
      PROVE  Next \/ UNCHANGED vars
  <2>1. ASSUME NEW raw \in shown, NEW op, NEW target, Send(c, op, target, raw)
        PROVE  SessionNext(c)
    BY <2>1 DEF Send, SessionNext, Known
  <2>2. ASSUME NEW op, NEW target, SendBootstrap(c, op, target)
        PROVE  UNCHANGED vars
    BY <2>2 DEF SendBootstrap
  <2>3. ASSUME Authenticate(c)
        PROVE  SessionNext(c)
    BY <2>3 DEF Authenticate, SessionNext
  <2>4. ASSUME ReadBody(c) \/ Authorize(c) \/ Answerable(c)
        PROVE  UNCHANGED vars
    BY <2>4 DEF ReadBody, Authorize, Answerable
  <2>5. ASSUME Answer(c) \/ LoseAnswer(c)
        PROVE  SessionNext(c) \/ UNCHANGED vars
    BY <2>5 DEF Answer, LoseAnswer, EndSession, SessionNext
  <2>6. SessionNext(c) \/ UNCHANGED vars
    BY <1>2, <2>1, <2>2, <2>3, <2>4, <2>5 DEF CallStep
  <2> QED
    BY <2>6 DEF Next, Callers
<1>3. ASSUME NEW id \in TokenIds, ExpireToken(id)
      PROVE  Next
  BY <1>3 DEF ExpireToken, Next, TokenNext
<1> QED
  BY <1>1, <1>2, <1>3 DEF AccessNext, Step

-----------------------------------------------------------------------------
(* What an operation on the tables does to its call and to the others.     *)
LEMMA TokenStepFrame ==
  ASSUME ShapeInv, NEW c \in Callers, TokenStep(c)
  PROVE  /\ UNCHANGED <<session, shown, lost>>
         /\ issued \subseteq issued'
         /\ call' \in [Callers -> Call]
         /\ \A b \in Callers : b # c =>
              call'[b] = call[b] /\ (txn'[b].pc = "idle" <=> txn[b].pc = "idle")
         /\ call'[c].op = call[c].op /\ call'[c].target = call[c].target
         /\ call'[c].bootstrap = call[c].bootstrap
         /\ call[c].stage \in {"allowed", "replacing"}
         /\ call'[c].stage \in {"answering", "replacing"}
         /\ txn'[c].pc # "idle" <=> call'[c].stage = "replacing"
         /\ call'[c].stage = "replacing" => call'[c].op = "replace"
         /\ call'[c].raw # None => call'[c].raw \in issued'
         /\ call'[c].stage # "answering" => call'[c].raw = None
PROOF
<1> USE DEF ShapeInv, Shape
<1>1. c \in Admins /\ Admins = Callers
  BY CallerAssumption
<1>2. /\ txn \in [Callers -> Txn] /\ issued \subseteq Raw
      /\ txn[c].pc # "idle" <=> call[c].stage = "replacing"
      /\ call[c].raw # None => call[c].raw \in issued
      /\ call[c].stage # "answering" => call[c].raw = None
  BY <1>1 DEF IInv, TypeOK, Types, Stages, Known
<1>3. ASSUME NEW id \in TokenIds, NEW secret \in Secrets,
             AnswerWith(c, <<id, secret>>)
      PROVE  call' \in [Callers -> Call]
  <2>1. <<id, secret>> \in Raw
    BY DEF Raw
  <2>2. ASSUME NEW raw \in Raw
        PROVE  [call[c] EXCEPT !.stage = "answering", !.raw = raw] \in Call
    BY DEF Call
  <2>3. [call[c] EXCEPT !.stage = "answering", !.raw = <<id, secret>>] \in Call
    BY <2>1, <2>2
  <2>4. call' = [call EXCEPT ![c] = [call[c] EXCEPT !.stage = "answering",
                                                    !.raw = <<id, secret>>]]
    BY <1>3 DEF AnswerWith
  <2> QED
    BY <2>3, <2>4
<1>4. ASSUME NEW id \in TokenIds, NEW secret \in Secrets,
             NEW request \in Requests, NEW admin \in BOOLEAN,
             CreateToken(c, id, secret, request, admin)
      PROVE  /\ UNCHANGED <<session, txn, shown, lost>>
             /\ issued' = issued \cup {<<id, secret>>}
             /\ AnswerWith(c, <<id, secret>>)
             /\ call[c].stage = "allowed"
  BY <1>4 DEF CreateToken, Create, AnswerWith, Allowed
<1>5. ASSUME NEW secret \in Secrets, RotateToken(c, secret)
      PROVE  /\ UNCHANGED <<session, txn, shown, lost>>
             /\ call[c].target \in TokenIds
             /\ issued' = issued \cup {<<call[c].target, secret>>}
             /\ AnswerWith(c, <<call[c].target, secret>>)
             /\ call[c].stage = "allowed"
  BY <1>5 DEF RotateToken, Rotate, AnswerWith, Allowed, Stages, Targets,
              ReadOps, PublishOps
<1>6. CASE \E id \in TokenIds, secret \in Secrets, request \in Requests,
             admin \in BOOLEAN : CreateToken(c, id, secret, request, admin)
  <2>1. PICK id \in TokenIds, secret \in Secrets, request \in Requests,
             admin \in BOOLEAN : CreateToken(c, id, secret, request, admin)
    BY <1>6
  <2> QED
    <3>1. /\ UNCHANGED <<session, txn, shown, lost>>
          /\ issued' = issued \cup {<<id, secret>>}
          /\ AnswerWith(c, <<id, secret>>) /\ call[c].stage = "allowed"
      BY <1>4, <2>1
    <3>2. call' \in [Callers -> Call]
      BY <1>3, <3>1
    <3> QED
      BY <1>2, <3>1, <3>2, AnswerFields
<1>7. CASE \E secret \in Secrets : RotateToken(c, secret)
  <2>1. PICK secret \in Secrets : RotateToken(c, secret)
    BY <1>7
  <2> QED
    <3>1. /\ UNCHANGED <<session, txn, shown, lost>>
          /\ call[c].target \in TokenIds
          /\ issued' = issued \cup {<<call[c].target, secret>>}
          /\ AnswerWith(c, <<call[c].target, secret>>) /\ call[c].stage = "allowed"
      BY <1>5, <2>1
    <3>2. call' \in [Callers -> Call]
      BY <1>3, <3>1
    <3> QED
      BY <1>2, <3>1, <3>2, AnswerFields
<1>8. CASE RevokeToken(c)
  BY <1>2, <1>8 DEF RevokeToken, Revoke, AnswerWith, Allowed, Call
<1>9. CASE \E request \in Requests : ReplaceClaims(c, request)
  <2>1. PICK request \in Requests : ReplaceClaims(c, request)
    BY <1>9
  <2>2. /\ UNCHANGED <<session, issued, shown, lost>>
        /\ txn'[c].pc = "selected"
        /\ \A b \in Callers : b # c =>
             (txn'[b].pc = "idle" <=> txn[b].pc = "idle")
    BY <1>1, <1>2, <2>1 DEF ReplaceClaims, BeginReplace, NoTxn, Txn, tokenVars
  <2> QED
    BY <1>2, <2>1, <2>2 DEF ReplaceClaims, Allowed, Stage, Call
<1>10. CASE Replace(c)
  <2>1. /\ UNCHANGED <<session, issued, shown, lost>>
        /\ \A b \in Callers : b # c =>
             (txn'[b].pc = "idle" <=> txn[b].pc = "idle")
    <3>1. CASE StartDelete(c) \/ FinishDelete(c) \/ InsertClaim(c)
      BY <1>1, <1>2, <1>10, <3>1
         DEF Replace, StartDelete, FinishDelete, InsertClaim, tokenVars
    <3>2. CASE CommitReplace(c)
      BY <1>1, <1>2, <1>10, <3>2 DEF Replace, CommitReplace, Txn
    <3>3. CASE Rollback(c)
      BY <1>1, <1>2, <1>10, <3>3 DEF Replace, Rollback, tokenVars
    <3> QED
      BY <1>10, <3>1, <3>2, <3>3
         DEF Replace, ReplaceStep, AbortReplace, BreakDeadlock
  <2>2. call[c].op = "replace"
    BY <1>10 DEF Replace, Stages
  <2> QED
    BY <1>2, <1>10, <2>1, <2>2 DEF Replace, Stage, Call
<1> QED
  BY <1>6, <1>7, <1>8, <1>9, <1>10 DEF TokenStep

(* Steps of the token tables keep stages and what is known of raw tokens.  *)
LEMMA TokenStepShape ==
  ASSUME ShapeInv, NEW c \in Callers, TokenStep(c)
  PROVE  Shape'
PROOF
<1> USE DEF ShapeInv, Shape
<1>1. Stages'
  BY TokenStepFrame DEF Stages
<1>2. Known'
  BY TokenStepFrame DEF Known
<1> QED
  BY <1>1, <1>2, TokenStepFrame

-----------------------------------------------------------------------------
(* A step of a request that leaves the tables alone.                       *)
LEMMA CallStepFrame ==
  ASSUME ShapeInv, NEW c \in Callers, CallStep(c)
  PROVE  /\ UNCHANGED <<tokens, claims, issued, txn>>
         /\ \A b \in Callers : b # c =>
              call'[b] = call[b] /\ session'[b] = session[b]
PROOF
<1> USE DEF ShapeInv, Shape
<1>1. session \in [Callers -> Session]
  BY DEF IInv, TypeOK, Types, Callers
<1>2. ASSUME NEW raw, NEW op, NEW target, Send(c, op, target, raw)
      PROVE  /\ UNCHANGED <<tokens, claims, issued, txn>>
             /\ \A b \in Callers : b # c =>
                  call'[b] = call[b] /\ session'[b] = session[b]
  BY <1>1, <1>2 DEF Send, SendRequest, tokenVars
<1>3. ASSUME NEW op, NEW target, SendBootstrap(c, op, target)
      PROVE  /\ UNCHANGED <<tokens, claims, issued, txn>>
             /\ \A b \in Callers : b # c =>
                  call'[b] = call[b] /\ session'[b] = session[b]
  BY <1>3 DEF SendBootstrap, vars
<1>4. CASE Authenticate(c)
  BY <1>1, <1>4 DEF Authenticate, Authenticated, Stage, FindToken, ReadClaims,
                    Refuse, tokenVars
<1>5. CASE ReadBody(c) \/ Authorize(c) \/ Answerable(c)
  BY <1>5 DEF ReadBody, Authorize, Answerable, Stage, vars
<1>6. CASE Answer(c) \/ LoseAnswer(c)
  BY <1>1, <1>6 DEF Answer, LoseAnswer, EndSession, EndRequest, Refuse,
                    tokenVars, vars
<1> QED
  BY <1>2, <1>3, <1>4, <1>5, <1>6 DEF CallStep

(* So do the steps of a call.                                              *)
LEMMA CallStepShape ==
  ASSUME ShapeInv, NEW c \in Callers, CallStep(c)
  PROVE  Shape'
PROOF
<1> USE DEF ShapeInv, Shape
<1>1. session \in [Callers -> Session] /\ issued \subseteq Raw
  BY DEF IInv, TypeOK, Types, Callers
<1> DEFINE Own ==
      /\ call' \in [Callers -> Call]
      /\ \/ call'[c].stage = "idle"
         \/ call'[c].op \in Ops /\ call'[c].target \in Targets(call'[c].op)
      /\ call'[c].stage # "answering" => call'[c].raw = None
      /\ call'[c].stage = "idle" => session'[c].pc = "idle"
      /\ call'[c].stage = "authenticating" <=> session'[c].pc \in {"sent", "found"}
      /\ call'[c].stage \in {"principal", "body", "allowed", "replacing"}
           => call'[c].bootstrap \/ session'[c].pc = "principal"
      /\ call'[c].bootstrap => session'[c].pc = "idle"
      /\ txn[c].pc # "idle" <=> call'[c].stage = "replacing"
      /\ call'[c].stage = "replacing" => call'[c].op = "replace"
      /\ call'[c].raw # None => call'[c].raw \in issued
      /\ shown' \cup lost' \subseteq issued
<1>2. Targets(None) \subseteq Crates \cup TokenIds \cup {None}
      /\ \A op : Targets(op) \subseteq Crates \cup TokenIds \cup {None}
  BY DEF Targets
<1>3. ASSUME NEW raw \in shown, NEW op \in Ops, NEW target \in Targets(op),
             Send(c, op, target, raw)
      PROVE  Own
  <2>1. /\ call'[c] = [stage |-> "authenticating", op |-> op, target |-> target,
                      bootstrap |-> FALSE, raw |-> None]
        /\ session'[c].pc = "sent" /\ call[c].stage = "idle"
    BY <1>1, <1>3 DEF Send, SendRequest, NoCall, NoSession
  <2>2. call' \in [Callers -> Call]
    <3>1. NoCall \in Call /\ target \in Crates \cup TokenIds \cup {None}
      BY <1>2 DEF NoCall, Call
    <3>2. [NoCall EXCEPT !.stage = "authenticating", !.op = op,
                         !.target = target] \in Call
      BY <3>1 DEF Call
    <3> QED
      BY <1>3, <3>2 DEF Send
  <2> QED
    BY <1>3, <2>1, <2>2 DEF Send, Stages, Known
<1>4. ASSUME NEW op \in Ops, NEW target \in Targets(op),
             SendBootstrap(c, op, target)
      PROVE  Own
  <2>1. /\ call'[c].stage = "principal" /\ call'[c].op = op
        /\ call'[c].target = target /\ call'[c].bootstrap
        /\ call'[c].raw = None /\ call[c].stage = "idle"
        /\ UNCHANGED <<session, shown, lost>>
    BY <1>4 DEF SendBootstrap, NoCall, vars
  <2>2. [NoCall EXCEPT !.stage = "principal", !.op = op, !.target = target,
                       !.bootstrap = TRUE] \in Call
    <3>1. NoCall \in Call
      BY DEF NoCall, Call
    <3>2. target \in Crates \cup TokenIds \cup {None}
      BY <1>2
    <3> QED
      BY <3>1, <3>2 DEF Call
  <2>3. call' \in [Callers -> Call]
    BY <1>4, <2>2 DEF SendBootstrap
  <2> QED
    BY <2>1, <2>3 DEF Stages, Known
<1>5. ASSUME Authenticate(c)
      PROVE  Own
  <2>1. /\ call[c].stage = "authenticating"
        /\ session'[c].pc \in {"idle", "found", "principal"}
    BY <1>1, <1>5, FoundFields, ReadFields
       DEF Authenticate, NoSession, Stages, Callers
  <2>2. ~call[c].bootstrap /\ txn[c].pc = "idle"
    BY <2>1 DEF Stages
  <2> QED
    BY <1>5, <2>1, <2>2 DEF Authenticate, Authenticated, Stage, Stages, Known,
                            Call
<1>6. ASSUME ReadBody(c) \/ Authorize(c) \/ Answerable(c)
      PROVE  Own
  <2>1. /\ call[c].stage \in {"principal", "body", "allowed"}
        /\ call'[c] = [call[c] EXCEPT !.stage = call'[c].stage]
        /\ call'[c].stage \in {"body", "allowed", "answering"}
        /\ call' = [call EXCEPT ![c].stage = call'[c].stage]
        /\ UNCHANGED <<session, txn, shown, lost>>
    BY <1>6 DEF ReadBody, Authorize, Answerable, Stage, vars, Call
  <2> QED
    BY <2>1 DEF Stages, Known, Call
<1>7. ASSUME Answer(c) \/ LoseAnswer(c)
      PROVE  Own
  <2>1. /\ call' = [call EXCEPT ![c] = NoCall]
        /\ session'[c].pc = "idle"
        /\ call[c].stage # "replacing"
        /\ shown' \cup lost' \subseteq shown \cup lost \cup ({call[c].raw} \ {None})
    BY <1>1, <1>7 DEF Answer, LoseAnswer, EndSession, EndRequest, Refuse,
                      NoSession, vars
  <2>2. NoCall \in Call
    BY DEF NoCall, Call
  <2>3. call' \in [Callers -> Call] /\ call'[c] = NoCall
    BY <2>1, <2>2
  <2> QED
    BY <2>1, <2>3 DEF NoCall, Stages, Known
<1>8. Own
  BY <1>3, <1>4, <1>5, <1>6, <1>7 DEF CallStep
<1>9. shown \cup lost \subseteq issued
  BY DEF Known
<1>10. Stages'
  BY <1>8, CallStepFrame DEF Stages
<1>11. Known'
  BY <1>8, CallStepFrame DEF Known
<1> QED
  BY <1>8, <1>10, <1>11

-----------------------------------------------------------------------------
(* What a scope that matches a name stands for, and what it takes to match *)
(* the name that search asks about.                                        *)
LEMMA StarIsPattern == star \in Seq(Chars) /\ Len(star) = 1 /\ star[1] = "*"
PROOF
<1>1. "*" \in Chars
  BY CharAssumption
<1> QED
  BY <1>1 DEF star

(* A pattern that ends in a star is its stem and the star.                 *)
LEMMA StemProperties ==
  ASSUME NEW scope \in Seq(Chars), EndsInStar(scope)
  PROVE  /\ Len(scope) \in Nat \ {0} /\ scope[Len(scope)] = "*"
         /\ Stem(scope) \in Seq(Chars) /\ Len(Stem(scope)) = Len(scope) - 1
         /\ \A i \in 1..(Len(scope) - 1) : Stem(scope)[i] = scope[i]
PROOF
<1>1. Len(scope) \in Nat \ {0}
  BY EmptySeq DEF EndsInStar
<1>2. \A i \in 1..(Len(scope) - 1) : scope[i] \in Chars
  BY <1>1, ElementOfSeq
<1> DEFINE n == Len(scope) - 1
<1>3. n \in Int /\ n >= 0 /\ 1 \in Int /\ n - 1 + 1 = n
  BY <1>1
<1>4. /\ SubSeq(scope, 1, n) \in Seq(Chars)
      /\ Len(SubSeq(scope, 1, n)) = IF 1 <= n THEN n - 1 + 1 ELSE 0
      /\ \A i \in 1..(n - 1 + 1) : SubSeq(scope, 1, n)[i] = scope[1 + i - 1]
  <2> HIDE DEF n
  <2> QED
    BY <1>2, <1>3, SubSeqProperties DEF n
<1>5. Len(SubSeq(scope, 1, n)) = n
  BY <1>3, <1>4
<1>6. \A i \in 1..n : SubSeq(scope, 1, n)[i] = scope[i]
  BY <1>3, <1>4
<1> QED
  BY <1>1, <1>4, <1>5, <1>6 DEF EndsInStar, Stem

(* What claim_matches lets through, the scope stands for.                  *)
LEMMA MatchesDenotes ==
  ASSUME NEW scope \in Seq(Chars), NEW name \in Seq(Chars),
         claim_matches(scope, name)
  PROVE  Denotes(scope, name)
PROOF
<1>1. CASE scope = name
  BY <1>1 DEF Denotes
<1>2. ASSUME NEW n \in 0..Len(name), Len(scope) = n + 1, scope[n + 1] = "*",
             \A i \in 1..n : scope[i] = name[i]
      PROVE  Denotes(scope, name)
  <2> DEFINE glob == SubSeq(name, 1, n) \o star
  <2>1. n \in Nat /\ Len(name) \in Nat
    BY LenProperties
  <2>2. \A i \in 1..n : name[i] \in Chars
    BY <2>1, ElementOfSeq
  <2>3. /\ SubSeq(name, 1, n) \in Seq(Chars) /\ Len(SubSeq(name, 1, n)) = n
        /\ \A i \in 1..n : SubSeq(name, 1, n)[i] = name[i]
    BY <2>1, <2>2, SubSeqProperties
  <2>4. /\ glob \in Seq(Chars) /\ Len(glob) = n + 1
        /\ \A i \in 1..(n + 1) :
             glob[i] = IF i <= n THEN SubSeq(name, 1, n)[i] ELSE star[i - n]
    <3> DEFINE s == SubSeq(name, 1, n)
    <3>1. /\ s \o star \in Seq(Chars) /\ Len(s \o star) = Len(s) + Len(star)
          /\ \A i \in 1..(Len(s) + Len(star)) :
               (s \o star)[i] = IF i <= Len(s) THEN s[i] ELSE star[i - Len(s)]
      <4> HIDE DEF s
      <4> QED
        BY <2>3, StarIsPattern, ConcatProperties DEF s
    <3>2. Len(s) = n /\ Len(star) = 1
      BY <2>3, StarIsPattern
    <3> HIDE DEF s
    <3> QED
      BY <3>1, <3>2 DEF s
  <2>5. \A i \in 1..Len(scope) : scope[i] = glob[i]
    <3> HIDE DEF glob
    <3> QED
      BY <1>2, <2>1, <2>3, <2>4, StarIsPattern
  <2>6. scope = glob
    <3> HIDE DEF glob
    <3> QED
      BY <1>2, <2>4, <2>5, SeqEqual
  <2> QED
    BY <2>6 DEF Denotes
<1>3. CASE scope = star
  <2>1. 0 \in 0..Len(name)
    BY LenProperties
  <2> QED
    BY <1>2, <1>3, <2>1, StarIsPattern
<1>4. CASE EndsInStar(scope) /\ starts_with(name, Stem(scope))
  <2>1. Len(name) \in Nat
    BY LenProperties
  <2>2. Len(scope) - 1 \in 0..Len(name)
    BY <1>4, <2>1, StemProperties DEF starts_with
  <2>3. \A i \in 1..(Len(scope) - 1) : scope[i] = name[i]
    BY <1>4, <2>2, StemProperties DEF starts_with
  <2> QED
    BY <1>2, <1>4, <2>2, <2>3, StemProperties
<1> QED
  BY <1>1, <1>3, <1>4 DEF claim_matches

(* A stem and a star match what they stand for.                            *)
LEMMA DenotesMatches ==
  ASSUME NEW scope \in Seq(Chars), NEW name \in Seq(Chars),
         NEW n \in 0..Len(name), scope = SubSeq(name, 1, n) \o star
  PROVE  EndsInStar(scope) /\ starts_with(name, Stem(scope))
PROOF
<1> DEFINE s == SubSeq(name, 1, n)
<1>1. n \in Nat /\ Len(name) \in Nat /\ n <= Len(name)
  BY LenProperties
<1>2. s \in Seq(Chars) /\ Len(s) = n /\ \A i \in 1..n : s[i] = name[i]
  <2>1. \A i \in 1..n : name[i] \in Chars
    BY <1>1, ElementOfSeq
  <2> QED
    BY <1>1, <2>1, SubSeqProperties
<1> HIDE DEF s
<1>3. /\ Len(s \o star) = n + 1
      /\ \A i \in 1..(n + 1) : (s \o star)[i] = IF i <= n THEN s[i] ELSE star[i - n]
  <2>1. /\ Len(s \o star) = Len(s) + Len(star)
        /\ \A i \in 1..(Len(s) + Len(star)) :
             (s \o star)[i] = IF i <= Len(s) THEN s[i] ELSE star[i - Len(s)]
    BY <1>2, StarIsPattern, ConcatProperties
  <2> QED
    BY <1>1, <1>2, <2>1, StarIsPattern
<1>4. scope = s \o star
  BY DEF s
<1>5. Len(scope) = n + 1 /\ scope[n + 1] = "*" /\ \A i \in 1..n : scope[i] = name[i]
  BY <1>1, <1>2, <1>3, <1>4, StarIsPattern
<1>6. EndsInStar(scope)
  BY <1>1, <1>5, EmptySeq DEF EndsInStar
<1>7. Len(Stem(scope)) = n /\ \A i \in 1..n : Stem(scope)[i] = scope[i]
  <2>1. /\ Len(Stem(scope)) = Len(scope) - 1
        /\ \A i \in 1..(Len(scope) - 1) : Stem(scope)[i] = scope[i]
    BY <1>6, StemProperties
  <2>2. Len(scope) - 1 = n
    BY <1>1, <1>5
  <2> QED
    BY <2>1, <2>2
<1> QED
  BY <1>1, <1>5, <1>6, <1>7 DEF starts_with

(* claim_matches is what scopes are meant to say: it lets through each     *)
(* name that a scope stands for, and no other, for patterns and names of   *)
(* any length, stored or not.                                              *)
THEOREM MatchingIsMeaning ==
  ASSUME NEW scope \in Seq(Chars), NEW name \in Seq(Chars)
  PROVE  claim_matches(scope, name) <=> Denotes(scope, name)
PROOF
<1>1. ASSUME claim_matches(scope, name)
      PROVE  Denotes(scope, name)
  BY <1>1, MatchesDenotes
<1>2. ASSUME Denotes(scope, name)
      PROVE  claim_matches(scope, name)
  BY <1>2, DenotesMatches DEF Denotes, claim_matches
<1> QED
  BY <1>1, <1>2

(* Of the valid patterns, only "*" matches the name "*".                   *)
LEMMA StarMatchesStar ==
  ASSUME NEW scope \in Seq(Chars), validate_claim_pattern(scope),
         claim_matches(scope, star)
  PROVE  scope = star
PROOF
<1>1. "*" \notin NameChars
  BY CharAssumption DEF NameChars
<1>2. ASSUME EndsInStar(scope), Range(scope) \subseteq NameChars
      PROVE  FALSE
  <2>1. DOMAIN scope = 1..Len(scope)
    BY LenProperties
  <2> QED
    BY <1>1, <1>2, <2>1, StemProperties DEF Range
<1>3. ASSUME EndsInStar(scope), starts_with(star, Stem(scope)),
             Len(scope) > 1, Range(Stem(scope)) \subseteq NameChars
      PROVE  FALSE
  <2>1. Stem(scope) \in Seq(Chars) /\ Len(Stem(scope)) = Len(scope) - 1
        /\ Len(scope) \in Nat
    BY <1>3, StemProperties
  <2>2. Len(Stem(scope)) = 1 /\ Stem(scope)[1] = "*"
    BY <1>3, <2>1, StarIsPattern DEF starts_with
  <2>3. DOMAIN Stem(scope) = 1..1
    BY <2>1, <2>2, LenProperties
  <2> QED
    BY <1>1, <1>3, <2>2, <2>3 DEF Range
<1> QED
  BY <1>2, <1>3 DEF validate_claim_pattern, validate_crate_name, claim_matches

-----------------------------------------------------------------------------
(* Rights: a principal is what its token was granted while it was being    *)
(* authenticated, and a call is let through on nothing else.               *)
Principals ==
  \A c \in Callers :
    /\ session[c].pc \in {"found", "principal"} =>
         /\ Exists(session[c].id)
         /\ session[c].admin = tokens[session[c].id].admin
    /\ session[c].pc = "principal" => session[c].claims \subseteq granted[c]
    /\ call[c].stage \in {"allowed", "replacing"} => required(c)

(* Every claim that is stored, about to be stored or read was validated.   *)
ValidClaims(set) == \A claim \in set : validate_claim_pattern(claim[2])

Valid ==
  /\ \A id \in TokenIds : ValidClaims(claims[id])
  /\ \A c \in Callers :
       /\ ValidClaims(session[c].claims)
       /\ ValidClaims(txn[c].inserted)
       /\ txn[c].pc # "idle" => ValidClaims(Range(txn[c].request))

AccessInv ==
  /\ ShapeInv /\ Principals /\ Valid
  /\ granted \in [Callers -> SUBSET Claims]

(* The history has its type.                                               *)
LEMMA ObserveTypes ==
  ASSUME AccessInv, IInv', Observe
  PROVE  granted' \in [Callers -> SUBSET Claims]
PROOF
<1>1. ASSUME NEW c \in Callers, session'[c].pc # "idle"
      PROVE  claims'[session'[c].id] \in SUBSET Claims
  BY <1>1 DEF IInv, TypeOK, Types, RawsAreIssued, Raw, Callers
<1> QED
  BY <1>1 DEF AccessInv, Observe

(* An operation on the tables changes no principal.                        *)
LEMMA TablesPrincipals ==
  ASSUME AccessInv, UNCHANGED session, Observe, TokenNext \/ UNCHANGED tokens,
         \A c \in Callers :
           \/ call'[c] = call[c]
           \/ /\ call'[c].op = call[c].op /\ call'[c].target = call[c].target
              /\ call'[c].bootstrap = call[c].bootstrap
              /\ call[c].stage \in {"allowed", "replacing"}
  PROVE  Principals'
PROOF
<1> USE DEF AccessInv, ShapeInv
<1>1. \A id \in TokenIds :
        Exists(id) => Exists(id)' /\ tokens'[id].admin = tokens[id].admin
  <2>1. CASE TokenNext
    BY <2>1, TokenSteps DEF IInv, TypeOK
  <2>2. CASE UNCHANGED tokens
    BY <2>2 DEF Exists
  <2> QED
    BY <2>1, <2>2
<1>2. \A c \in Callers : session[c].pc # "idle" => session[c].id \in TokenIds
  BY DEF IInv, TypeOK, Types, RawsAreIssued, Raw, Callers
<1>3. \A c \in Callers : session[c].pc = "principal" => granted'[c] = granted[c]
  BY DEF Observe
<1>4. ASSUME NEW c \in Callers, call'[c].stage \in {"allowed", "replacing"}
      PROVE  required(c)'
  <2>1. required(c)
    BY <1>4 DEF Principals
  <2>2. /\ call'[c].op = call[c].op /\ call'[c].target = call[c].target
        /\ call'[c].bootstrap = call[c].bootstrap
    OBVIOUS
  <2> QED
    BY <2>1, <2>2 DEF required, require, Admin
<1> QED
  BY <1>1, <1>2, <1>3, <1>4 DEF Principals, Exists

(* Steps of the token tables keep all scopes valid.                        *)
LEMMA TablesValid ==
  ASSUME AccessInv, NEW c \in Callers, TokenStep(c)
  PROVE  Valid'
PROOF
<1> USE DEF AccessInv, ShapeInv
<1>1. /\ claims \in [TokenIds -> SUBSET Claims] /\ txn \in [Callers -> Txn]
      /\ c \in Admins /\ Admins = Callers
  BY CallerAssumption DEF IInv, TypeOK, Types
<1>2. UNCHANGED session
  BY TokenStepFrame
<1> DEFINE Rest ==
      /\ \A id \in TokenIds : ValidClaims(claims'[id])
      /\ \A b \in Callers :
           /\ ValidClaims(txn'[b].inserted)
           /\ txn'[b].pc # "idle" => ValidClaims(Range(txn'[b].request))
<1>3. ASSUME NEW id \in TokenIds, NEW secret \in Secrets,
             NEW request \in Requests, NEW admin \in BOOLEAN,
             CreateToken(c, id, secret, request, admin)
      PROVE  Rest
  BY <1>1, <1>3 DEF CreateToken, Create, validate_claims, ValidClaims, Valid
<1>4. ASSUME NEW secret \in Secrets, RotateToken(c, secret)
      PROVE  Rest
  BY <1>4 DEF RotateToken, Rotate, Valid
<1>5. ASSUME RevokeToken(c)
      PROVE  Rest
  BY <1>5 DEF RevokeToken, Revoke, Valid
<1>6. ASSUME NEW request \in Requests, ReplaceClaims(c, request)
      PROVE  Rest
  <2>1. /\ UNCHANGED claims /\ ValidClaims(Range(request))
        /\ txn'[c].request = request /\ txn'[c].inserted = {}
        /\ \A b \in Callers : b # c =>
             /\ txn'[b].request = txn[b].request /\ txn'[b].pc = txn[b].pc
             /\ txn'[b].inserted = txn[b].inserted
    BY <1>1, <1>6 DEF ReplaceClaims, BeginReplace, validate_claims, ValidClaims,
                      NoTxn, Txn, tokenVars
  <2> QED
    BY <2>1 DEF Valid, ValidClaims
<1>7. ASSUME Replace(c)
      PROVE  Rest
  <2>1. /\ txn[c].pc # "idle" /\ ValidClaims(Range(txn[c].request))
        /\ ValidClaims(txn[c].inserted) /\ txn[c] \in Txn
        /\ txn[c].request \in Requests
    BY <1>1, <1>7 DEF Replace, Shape, Stages, Valid, IInv, TypeOK, LocksAreReal
  <2>2. CASE StartDelete(c) \/ FinishDelete(c)
    <3>1. /\ UNCHANGED claims
          /\ \A b \in Callers :
               /\ txn'[b].inserted = txn[b].inserted
               /\ txn'[b].request = txn[b].request
               /\ txn'[b].pc # "idle" => txn[b].pc # "idle"
      <4>1. CASE StartDelete(c)
        BY <1>1, <2>1, <4>1 DEF StartDelete, Txn, tokenVars
      <4>2. CASE FinishDelete(c)
        BY <1>1, <2>1, <4>2 DEF FinishDelete, Txn, tokenVars
      <4> QED
        BY <2>2, <4>1, <4>2
    <3> QED
      BY <3>1 DEF Valid, ValidClaims
  <2>3. CASE InsertClaim(c)
    <3>1. NextClaim(c) \in Range(txn[c].request)
      <4>1. /\ txn[c].request \in Seq(Claims) /\ txn[c].next \in Nat \ {0}
            /\ txn[c].next <= Len(txn[c].request)
        BY <2>1, <2>3 DEF InsertClaim, Inserting, Txn
      <4>2. txn[c].next \in DOMAIN txn[c].request
        BY <4>1, LenProperties
      <4> QED
        BY <4>2 DEF NextClaim, Range
    <3>2. /\ UNCHANGED claims
          /\ txn'[c].inserted \subseteq txn[c].inserted \cup {NextClaim(c)}
          /\ txn'[c].request = txn[c].request
          /\ \A b \in Callers : b # c => txn'[b] = txn[b]
      <4> DEFINE inserted == IF Conflict(c) THEN txn[c].inserted
                             ELSE txn[c].inserted \cup {NextClaim(c)}
      <4>1. /\ txn'[c] = [txn[c] EXCEPT !.next = txn[c].next + 1,
                                         !.inserted = inserted]
            /\ UNCHANGED claims /\ \A b \in Callers : b # c => txn'[b] = txn[b]
        BY <1>1, <2>1, <2>3 DEF InsertClaim, tokenVars
      <4>2. inserted \subseteq txn[c].inserted \cup {NextClaim(c)}
        OBVIOUS
      <4> HIDE DEF inserted
      <4> QED
        BY <2>1, <4>1, <4>2 DEF Txn
    <3> QED
      BY <2>1, <3>1, <3>2 DEF Valid, ValidClaims
  <2>4. CASE CommitReplace(c)
    <3>1. \A id \in TokenIds :
            claims'[id] \subseteq claims[id] \cup txn[c].inserted
      BY <1>1, <2>4 DEF CommitReplace
    <3>2. \A b \in Callers :
            /\ txn'[b].inserted = txn[b].inserted \/ txn'[b].inserted = {}
            /\ \/ txn'[b].pc = "idle"
               \/ txn'[b].request = txn[b].request /\ txn'[b].pc = txn[b].pc
      BY <1>1, <2>4 DEF CommitReplace, NoTxn, Txn
    <3> QED
      BY <2>1, <3>1, <3>2 DEF Valid, ValidClaims
  <2>5. CASE Rollback(c)
    BY <1>1, <2>5 DEF Rollback, NoTxn, Valid, ValidClaims, tokenVars
  <2> QED
    BY <1>7, <2>2, <2>3, <2>4, <2>5
       DEF Replace, ReplaceStep, AbortReplace, BreakDeadlock
<1>8. Rest
  BY <1>3, <1>4, <1>5, <1>6, <1>7 DEF TokenStep
<1> QED
  BY <1>2, <1>8 DEF Valid, ValidClaims

(* A step of a request that leaves the tables alone.                       *)
LEMMA CallPrincipals ==
  ASSUME AccessInv, NEW c \in Callers, CallStep(c), Observe
  PROVE  Principals'
PROOF
<1> USE DEF AccessInv, ShapeInv, Shape
<1>1. /\ session \in [Callers -> Session]
      /\ \A b \in Callers : session[b].pc # "idle" => session[b].id \in TokenIds
  BY DEF IInv, TypeOK, Types, RawsAreIssued, Raw, Callers
<1>2. /\ \A b \in Callers : b # c =>
           call'[b] = call[b] /\ session'[b] = session[b]
      /\ UNCHANGED <<tokens, claims>>
  BY CallStepFrame
<1>3. \A b \in Callers : session[b].pc = "principal" =>
        session'[b].pc = "idle" \/ granted'[b] = granted[b]
  BY DEF Observe
<1> DEFINE Own ==
      /\ session'[c].pc \in {"found", "principal"} =>
           /\ Exists(session'[c].id)
           /\ session'[c].admin = tokens[session'[c].id].admin
      /\ session'[c].pc = "principal" => session'[c].claims \subseteq granted'[c]
      /\ call'[c].stage \in {"allowed", "replacing"} => required(c)'
<1>4. ASSUME NEW raw, NEW op, NEW target, Send(c, op, target, raw)
      PROVE  Own
  BY <1>1, <1>4 DEF Send, SendRequest, NoSession, NoCall
<1>5. ASSUME NEW op, NEW target, SendBootstrap(c, op, target)
      PROVE  Own
  BY <1>5 DEF SendBootstrap, NoCall, vars, Stages
<1>6. ASSUME Authenticate(c)
      PROVE  Own
  <2>1. call'[c].stage \in {"answering", "principal", "authenticating"}
    BY <1>6 DEF Authenticate, Authenticated, Stage
  <2>2. ASSUME FindToken(c)
        PROVE  Own
    <3>1. \/ session'[c].pc = "idle"
          \/ /\ session'[c].pc = "found" /\ session'[c].id = session[c].id
             /\ session'[c].admin = tokens[session[c].id].admin
             /\ Exists(session[c].id)
      BY <1>1, <2>2, FoundFields DEF NoSession, Active, Callers
    <3> QED
      BY <1>2, <2>1, <3>1
  <2>3. ASSUME ReadClaims(c)
        PROVE  Own
    <3>1. ASSUME session'[c].pc = "principal"
          PROVE  Own
      <4>1. /\ session'[c].id = session[c].id /\ session'[c].admin = session[c].admin
            /\ session'[c].claims = claims[session[c].id]
            /\ session[c].pc = "found"
        BY <1>1, <2>3, <3>1, ReadFields DEF NoSession, Callers
      <4>2. granted'[c] = granted[c] \cup claims'[session'[c].id]
        BY <3>1, <4>1 DEF Observe
      <4> QED
        BY <1>2, <2>1, <4>1, <4>2 DEF Principals
    <3>2. ASSUME session'[c].pc # "principal"
          PROVE  session'[c].pc = "idle"
      BY <1>1, <2>3, <3>2, ReadFields DEF NoSession, Callers
    <3> QED
      BY <2>1, <3>1, <3>2
  <2> QED
    BY <1>6, <2>2, <2>3 DEF Authenticate
<1>7. ASSUME ReadBody(c) \/ Authorize(c) \/ Answerable(c)
      PROVE  Own
  <2>1. UNCHANGED session /\ call' = [call EXCEPT ![c].stage = call'[c].stage]
    BY <1>7 DEF ReadBody, Authorize, Answerable, Stage, vars
  <2>2. call'[c].stage = "allowed" => required(c)
    <3>1. call'[c].stage = "allowed" => Authorize(c)
      BY <1>7 DEF ReadBody, Answerable, Stage, Call
    <3>2. Authorize(c) /\ ~required(c) => call'[c].stage = "answering"
      BY DEF Authorize, Stage
    <3> QED
      BY <3>1, <3>2
  <2>3. /\ call'[c].stage # "replacing"
        /\ call'[c].op = call[c].op /\ call'[c].target = call[c].target
        /\ call'[c].bootstrap = call[c].bootstrap
    BY <1>7 DEF ReadBody, Authorize, Answerable, Stage, Call
  <2>4. required(c) => required(c)'
    BY <2>1, <2>3 DEF required, require, Admin
  <2>5. session'[c].pc = "principal" => session'[c].claims \subseteq granted'[c]
    BY <1>3, <2>1 DEF Principals
  <2> QED
    BY <2>1, <2>2, <2>3, <2>4, <2>5 DEF Principals
<1>8. ASSUME Answer(c) \/ LoseAnswer(c)
      PROVE  Own
  <2>1. session'[c].pc = "idle" /\ call'[c].stage = "idle"
    BY <1>1, <1>8 DEF Answer, LoseAnswer, EndSession, EndRequest, Refuse,
                      NoSession, NoCall, vars
  <2> QED
    BY <2>1
<1>9. Own
  BY <1>4, <1>5, <1>6, <1>7, <1>8 DEF CallStep
<1>10. ASSUME NEW b \in Callers, b # c, call'[b].stage \in {"allowed", "replacing"}
       PROVE  required(b)'
  BY <1>2, <1>10 DEF Principals, required, require, Admin
<1>11. ASSUME NEW b \in Callers, b # c, session'[b].pc = "principal"
       PROVE  session'[b].claims \subseteq granted'[b]
  BY <1>2, <1>3, <1>11 DEF Principals
<1> QED
  BY <1>2, <1>9, <1>10, <1>11 DEF Principals, Exists

(* Steps of a call keep all scopes valid.                                  *)
LEMMA CallValid ==
  ASSUME AccessInv, NEW c \in Callers, CallStep(c)
  PROVE  Valid'
PROOF
<1> USE DEF AccessInv, ShapeInv
<1>1. /\ session \in [Callers -> Session]
      /\ \A b \in Callers : session[b].pc # "idle" => session[b].id \in TokenIds
  BY DEF IInv, TypeOK, Types, RawsAreIssued, Raw, Callers
<1>2. \/ session'[c].claims = {}
      \/ session'[c].claims = session[c].claims
      \/ session'[c].claims = claims[session[c].id] /\ session[c].pc = "found"
  <2>1. ASSUME NEW raw, NEW op, NEW target, Send(c, op, target, raw)
        PROVE  session'[c].claims = {}
    BY <1>1, <2>1 DEF Send, SendRequest, NoSession
  <2>2. ASSUME NEW op, NEW target, SendBootstrap(c, op, target)
        PROVE  session'[c] = session[c]
    BY <2>2 DEF SendBootstrap, vars
  <2>3. CASE Authenticate(c)
    <3>1. CASE FindToken(c)
      BY <1>1, <3>1, FoundFields DEF NoSession, Callers
    <3>2. CASE ReadClaims(c)
      BY <1>1, <3>2, ReadFields DEF NoSession, Callers
    <3> QED
      BY <2>3, <3>1, <3>2 DEF Authenticate
  <2>4. CASE ReadBody(c) \/ Authorize(c) \/ Answerable(c)
    BY <2>4 DEF ReadBody, Authorize, Answerable, vars
  <2>5. CASE Answer(c) \/ LoseAnswer(c)
    BY <1>1, <2>5 DEF Answer, LoseAnswer, EndSession, EndRequest, Refuse,
                      NoSession, vars
  <2> QED
    BY <2>1, <2>2, <2>3, <2>4, <2>5 DEF CallStep
<1>3. ValidClaims(session'[c].claims)
  BY <1>1, <1>2 DEF Valid, ValidClaims
<1> QED
  BY <1>3, CallStepFrame DEF Valid, ValidClaims

-----------------------------------------------------------------------------
(* The inductive invariant holds at first,                                 *)
LEMMA InitAccessInv == AccessInit => AccessInv
PROOF
<1> SUFFICES ASSUME AccessInit
             PROVE  AccessInv
  OBVIOUS
<1>1. IInv
  BY InitIInv DEF AccessInit
<1>2. \A c \in Callers : call[c] = NoCall
  BY DEF AccessInit
<1>3. NoCall \in Call /\ call \in [Callers -> Call]
  BY DEF AccessInit, NoCall, Call
<1>4. \A c \in Callers : session[c] = NoSession /\ txn[c] = NoTxn
  BY CallerAssumption DEF AccessInit, Init, Callers
<1>5. Stages /\ Known
  BY <1>2, <1>4 DEF Stages, Known, NoCall, NoSession, NoTxn, AccessInit
<1>6. Principals
  BY <1>2, <1>4 DEF Principals, NoCall, NoSession
<1>7. Valid
  <2>1. \A id \in TokenIds : claims[id] = {}
    BY DEF AccessInit, Init
  <2>2. \A c \in Callers : /\ session[c].claims = {} /\ txn[c].pc = "idle"
                           /\ txn[c].inserted = {}
    BY <1>4 DEF NoSession, NoTxn
  <2> QED
    BY <2>1, <2>2 DEF Valid, ValidClaims
<1>8. granted \in [Callers -> SUBSET Claims]
  BY DEF AccessInit
<1> QED
  BY <1>1, <1>3, <1>5, <1>6, <1>7, <1>8 DEF AccessInv, ShapeInv, Shape

(* each step keeps it,                                                     *)
LEMMA StepAccessInv == AccessInv /\ [AccessNext]_accessVars => AccessInv'
PROOF
<1> SUFFICES ASSUME AccessInv, [AccessNext]_accessVars
             PROVE  AccessInv'
  OBVIOUS
<1>1. CASE UNCHANGED accessVars
  <2>1. IInv'
    BY <1>1, StepIInv DEF AccessInv, ShapeInv, accessVars
  <2> QED
    BY <1>1, <2>1 DEF AccessInv, ShapeInv, Shape, Stages, Known, Principals,
          Valid, ValidClaims, required, require, Admin, Exists, accessVars,
          callVars, vars
<1>2. CASE AccessNext
  <2> USE DEF AccessInv, ShapeInv
  <2>1. IInv'
    BY <1>2, StepsRefine, StepIInv
  <2>2. Observe
    BY <1>2 DEF AccessNext
  <2>3. granted' \in [Callers -> SUBSET Claims]
    BY <2>1, <2>2, ObserveTypes
  <2>4. ASSUME NEW c \in Callers, TokenStep(c)
        PROVE  Shape' /\ Principals' /\ Valid'
    <3>1. TokenNext \/ UNCHANGED tokens
      <4>1. call[c].stage = "allowed" /\ call[c].op \in {"rotate", "revoke"}
              => call[c].target \in TokenIds
        BY DEF Shape, Stages, Targets, ReadOps, PublishOps
      <4> QED
        BY <2>4, <4>1 DEF TokenStep, TokenNext, CreateToken, RotateToken,
              RevokeToken, ReplaceClaims, BeginReplace, Replace, ReplaceStep,
              AbortReplace, BreakDeadlock, StartDelete, FinishDelete,
              InsertClaim, CommitReplace, Rollback, Allowed, tokenVars
    <3>2. Principals'
      BY <2>2, <2>4, <3>1, TokenStepFrame, TablesPrincipals
    <3> QED
      BY <2>4, <3>2, TokenStepShape, TablesValid
  <2>5. ASSUME NEW c \in Callers, CallStep(c)
        PROVE  Shape' /\ Principals' /\ Valid'
    BY <2>2, <2>5, CallStepShape, CallPrincipals, CallValid
  <2>6. ASSUME NEW id \in TokenIds, ExpireToken(id)
        PROVE  Shape' /\ Principals' /\ Valid'
    <3>1. TokenNext /\ UNCHANGED <<claims, issued, txn, session, callVars>>
      BY <2>6 DEF ExpireToken, Expire, TokenNext
    <3>2. Principals'
      BY <2>2, <3>1, TablesPrincipals DEF callVars
    <3>3. Shape'
      BY <3>1 DEF Shape, Stages, Known, callVars
    <3> QED
      BY <3>1, <3>2, <3>3 DEF Valid, ValidClaims
  <2> QED
    BY <1>2, <2>1, <2>3, <2>4, <2>5, <2>6 DEF AccessNext, Step
<1> QED
  BY <1>1, <1>2

(* and so it always holds.                                                 *)
LEMMA SpecAccessInv == AccessSpec => []AccessInv
PROOF
<1> QED
  BY InitAccessInv, StepAccessInv, PTL DEF AccessSpec

-----------------------------------------------------------------------------
(* Types, and the validity of whatever the tables hold (AccessTypeOK).     *)
THEOREM AccessTypeCorrect == AccessSpec => []AccessTypeOK
PROOF
<1>1. AccessInv => AccessTypeOK
  BY DEF AccessInv, ShapeInv, Shape, Stages, Known, Valid, ValidClaims,
         AccessTypeOK
<1> QED
  BY <1>1, SpecAccessInv, PTL

(* A call that is let through has a right that its token held while it was *)
(* being authenticated, with a secret that was good when it was sent.      *)
THEOREM WithinRights == AccessSpec => []ServedWithinRights
PROOF
<1>1. AccessInv => ServedWithinRights
  <2> SUFFICES ASSUME AccessInv
               PROVE  ServedWithinRights
    OBVIOUS
  <2> USE DEF AccessInv, ShapeInv
  <2>1. SUFFICES ASSUME NEW c \in Callers, ~call[c].bootstrap,
                        call[c].stage \in {"allowed", "replacing"}
                 PROVE  /\ ~session[c].stale
                        /\ \/ session[c].admin /\ tokens[session[c].id].admin
                           \/ call[c].op \in {"index", "download"}
                                /\ HasRight(granted[c], "read", call[c].target)
                           \/ call[c].op \in {"publish", "yank"}
                                /\ HasRight(granted[c], "publish", call[c].target)
                           \/ call[c].op \in {"search", "whoami"}
    BY DEF ServedWithinRights
  <2>2. /\ session[c].pc = "principal" /\ call[c].op \in Ops
        /\ call[c].target \in Targets(call[c].op)
    BY <2>1 DEF Shape, Stages
  <2>3. ~session[c].stale
    BY <2>2 DEF IInv, StaleInv, Callers
  <2>4. /\ session[c].admin = tokens[session[c].id].admin
        /\ session[c].claims \subseteq granted[c]
        /\ required(c)
    BY <2>1, <2>2 DEF Principals
  <2>5. ASSUME NEW action, NEW name \in Seq(Chars), require(c, action, name),
               ~session[c].admin
        PROVE  HasRight(granted[c], action, name)
    <3>1. PICK claim \in session[c].claims :
                 claim[1] = action /\ claim_matches(claim[2], name)
      BY <2>1, <2>5 DEF require, Admin
    <3>2. claim \in granted[c] /\ granted[c] \in SUBSET Claims
      BY <2>4, <3>1
    <3>3. claim[2] \in Seq(Chars)
      BY <3>2, ClaimAssumption, NameAssumption
    <3> QED
      BY <3>1, <3>2, <3>3, MatchesDenotes DEF HasRight
  <2>6. call[c].op \in ReadOps \cup PublishOps => call[c].target \in Seq(Chars)
    BY <2>2, NameAssumption DEF Targets
  <2>7. ~session[c].admin /\ call[c].op \in ReadOps =>
          HasRight(granted[c], "read", call[c].target)
    BY <2>4, <2>5, <2>6 DEF required, ReadOps
  <2>8. ~session[c].admin /\ call[c].op \in PublishOps =>
          HasRight(granted[c], "publish", call[c].target)
    BY <2>4, <2>5, <2>6 DEF required, ReadOps, PublishOps
  <2>9. call[c].op \in AdminOps => session[c].admin
    BY <2>1, <2>4 DEF required, Admin, ReadOps, PublishOps, AdminOps
  <2> QED
    BY <2>2, <2>3, <2>4, <2>7, <2>8, <2>9, OpsAssumption
       DEF ReadOps, PublishOps
<1> QED
  BY <1>1, SpecAccessInv, PTL

(* Search answers with crates that its caller may read, every one.         *)
THEOREM SearchReads == AccessSpec => []SearchSeesOnlyReadable
PROOF
<1>1. AccessInv => SearchSeesOnlyReadable
  <2> SUFFICES ASSUME AccessInv
               PROVE  SearchSeesOnlyReadable
    OBVIOUS
  <2> USE DEF AccessInv, ShapeInv
  <2>1. SUFFICES ASSUME NEW c \in Callers, NEW name \in Crates,
                        call[c].stage = "allowed", call[c].op = "search"
                 PROVE  require(c, "read", name)
    BY DEF SearchSeesOnlyReadable
  <2>2. require(c, "read", star)
    BY <2>1 DEF Principals, required, ReadOps, PublishOps
  <2>3. CASE Admin(c)
    BY <2>3 DEF require
  <2>4. CASE ~Admin(c)
    <3>1. PICK claim \in session[c].claims :
                 claim[1] = "read" /\ claim_matches(claim[2], star)
      BY <2>2, <2>4 DEF require
    <3>2. claim[2] \in Seq(Chars) /\ validate_claim_pattern(claim[2])
      <4>1. session[c].claims \in SUBSET Claims
        BY DEF IInv, TypeOK, Types, Session, Callers
      <4> QED
        BY <3>1, <4>1, ClaimAssumption, NameAssumption DEF Valid, ValidClaims
    <3>3. claim[2] = star
      BY <3>1, <3>2, StarMatchesStar
    <3> QED
      BY <3>1, <3>3 DEF require, claim_matches
  <2> QED
    BY <2>3, <2>4
<1> QED
  BY <1>1, SpecAccessInv, PTL

-----------------------------------------------------------------------------
(* Where the raw tokens are that were generated.  None is among them when  *)
(* some answer carries no raw token.                                       *)
Holders == shown \cup lost \cup {call[c].raw : c \in Callers}

(* Raw tokens are shown, lost or on their way, and stay so.                *)
LEMMA RawsStay ==
  ASSUME ShapeInv, AccessNext
  PROVE  Holders \ {None} \subseteq Holders'
PROOF
<1> USE DEF ShapeInv, Shape
<1>1. ASSUME NEW c \in Callers, TokenStep(c)
      PROVE  Holders \ {None} \subseteq Holders'
  <2>1. call[c].raw = None
    BY <1>1, TokenStepFrame DEF Stages
  <2> QED
    BY <1>1, <2>1, TokenStepFrame DEF Holders
<1>2. ASSUME NEW c \in Callers, CallStep(c)
      PROVE  Holders \ {None} \subseteq Holders'
  <2>1. \A b \in Callers : b # c => call'[b] = call[b]
    BY <1>2, CallStepFrame
  <2>2. /\ shown \subseteq shown' /\ lost \subseteq lost'
        /\ call[c].raw \in {None, call'[c].raw} \cup shown' \cup lost'
    <3>1. ASSUME NEW raw, NEW op, NEW target, Send(c, op, target, raw)
          PROVE  UNCHANGED <<shown, lost>> /\ call[c].raw = None
      BY <3>1 DEF Send, Stages
    <3>2. ASSUME NEW op, NEW target, SendBootstrap(c, op, target)
          PROVE  UNCHANGED <<shown, lost>> /\ call[c].raw = None
      BY <3>2 DEF SendBootstrap, Stages
    <3>3. ASSUME Authenticate(c)
          PROVE  UNCHANGED <<shown, lost>> /\ call[c].raw = call'[c].raw
      BY <3>3 DEF Authenticate, Authenticated, Stage, Call
    <3>4. ASSUME ReadBody(c) \/ Authorize(c) \/ Answerable(c)
          PROVE  UNCHANGED <<shown, lost>> /\ call[c].raw = call'[c].raw
      BY <3>4 DEF ReadBody, Authorize, Answerable, Stage, Call
    <3>5. ASSUME Answer(c) \/ LoseAnswer(c)
          PROVE  /\ shown \subseteq shown' /\ lost \subseteq lost'
                 /\ call[c].raw \in {None} \cup shown' \cup lost'
      BY <3>5 DEF Answer, LoseAnswer
    <3> QED
      BY <1>2, <3>1, <3>2, <3>3, <3>4, <3>5 DEF CallStep
  <2> QED
    BY <2>1, <2>2 DEF Holders
<1>3. ASSUME NEW id \in TokenIds, ExpireToken(id)
      PROVE  Holders \ {None} \subseteq Holders'
  BY <1>3 DEF ExpireToken, callVars, Holders
<1> QED
  BY <1>1, <1>2, <1>3 DEF AccessNext, Step

(* A hash changes only to that of a raw token that an answer carries.      *)
LEMMA NewHashes ==
  ASSUME ShapeInv, AccessNext, NEW id \in TokenIds, Active(id)'
  PROVE  \/ Active(id) /\ tokens'[id].secret_hash = tokens[id].secret_hash
         \/ \E raw \in Raw :
              raw \in Holders' /\ tokens'[id].secret_hash = hash[raw]
PROOF
<1> USE DEF ShapeInv, Shape
<1> DEFINE Same == Active(id) /\ tokens'[id].secret_hash = tokens[id].secret_hash
           New == \E raw \in Raw :
                    raw \in Holders' /\ tokens'[id].secret_hash = hash[raw]
<1>1. tokens \in [TokenIds -> Token]
  BY DEF IInv, TypeOK, Types
<1>2. ASSUME UNCHANGED tokens
      PROVE  Same
  BY <1>2 DEF Active, Exists
<1>3. ASSUME NEW c \in Callers, NEW t \in TokenIds, NEW secret \in Secrets,
             AnswerWith(c, <<t, secret>>)
      PROVE  <<t, secret>> \in Holders' /\ <<t, secret>> \in Raw
  <2>1. call'[c].raw = <<t, secret>>
    BY <1>3 DEF AnswerWith, Call
  <2> QED
    BY <2>1 DEF Holders, Raw
<1>4. ASSUME NEW c \in Callers, TokenStep(c)
      PROVE  Same \/ New
  <2>1. ASSUME NEW t \in TokenIds, NEW secret \in Secrets,
               NEW request \in Requests, NEW admin \in BOOLEAN,
               CreateToken(c, t, secret, request, admin)
        PROVE  Same \/ New
    <3>1. AnswerWith(c, <<t, secret>>)
      BY <2>1 DEF CreateToken
    <3>2. /\ t = id => tokens'[id].secret_hash = hash[<<t, secret>>]
          /\ t # id => tokens'[id] = tokens[id]
      BY <1>1, <2>1 DEF CreateToken, Create, Token
    <3>3. CASE t = id
      BY <1>3, <3>1, <3>2, <3>3
    <3>4. CASE t # id
      BY <3>2, <3>4 DEF Active, Exists
    <3> QED
      BY <3>3, <3>4
  <2>2. ASSUME NEW secret \in Secrets, RotateToken(c, secret)
        PROVE  Same \/ New
    <3>1. AnswerWith(c, <<call[c].target, secret>>) /\ call[c].target \in TokenIds
      BY <2>2 DEF RotateToken, Allowed, Stages, Targets, ReadOps, PublishOps
    <3>2. /\ call[c].target = id =>
               tokens'[id].secret_hash = hash[<<call[c].target, secret>>]
          /\ call[c].target # id => tokens'[id] = tokens[id]
      BY <1>1, <2>2 DEF RotateToken, Rotate, Token
    <3>3. CASE call[c].target = id
      BY <1>3, <3>1, <3>2, <3>3
    <3>4. CASE call[c].target # id
      BY <3>2, <3>4 DEF Active, Exists
    <3> QED
      BY <3>3, <3>4
  <2>3. ASSUME RevokeToken(c)
        PROVE  Same
    BY <1>1, <2>3 DEF RevokeToken, Revoke, Active, Exists, Token
  <2>4. ASSUME Replace(c) \/ \E request \in Requests : ReplaceClaims(c, request)
        PROVE  UNCHANGED tokens
    BY <2>4 DEF ReplaceClaims, BeginReplace, Replace, ReplaceStep, AbortReplace,
                BreakDeadlock, StartDelete, FinishDelete, InsertClaim,
                CommitReplace, Rollback, tokenVars
  <2> QED
    BY <1>2, <1>4, <2>1, <2>2, <2>3, <2>4 DEF TokenStep
<1>5. ASSUME NEW c \in Callers, CallStep(c)
      PROVE  Same
  BY <1>2, <1>5, CallStepFrame
<1>6. ASSUME NEW t \in TokenIds, ExpireToken(t)
      PROVE  Same
  BY <1>1, <1>6 DEF ExpireToken, Expire, Active, Exists, Token
<1> QED
  BY <1>4, <1>5, <1>6 DEF AccessNext, Step

(* Nobody is locked out by anything but an answer that got lost.           *)
THEOREM NoLockout == AccessSpec => []LockoutOnlyByLostAnswer
PROOF
<1>1. AccessInit => LockoutOnlyByLostAnswer
  BY DEF AccessInit, Init, Absent, LockoutOnlyByLostAnswer, Active, Exists
<1>2. ASSUME AccessInv, LockoutOnlyByLostAnswer, [AccessNext]_accessVars
      PROVE  LockoutOnlyByLostAnswer'
  <2>1. CASE AccessNext
    <3>1. SUFFICES ASSUME NEW id \in TokenIds, Active(id)'
                   PROVE  \E raw \in Holders' :
                            raw # None /\ tokens'[id].secret_hash = hash[raw]
      BY DEF LockoutOnlyByLostAnswer, Holders
    <3>2. CASE Active(id) /\ tokens'[id].secret_hash = tokens[id].secret_hash
      <4>1. PICK raw \in Holders : raw # None /\ tokens[id].secret_hash = hash[raw]
        BY <1>2, <3>2 DEF LockoutOnlyByLostAnswer, Holders
      <4>2. raw \in Holders'
        BY <1>2, <2>1, <4>1, RawsStay DEF AccessInv
      <4> QED
        BY <3>2, <4>1, <4>2
    <3>3. ASSUME NEW raw \in Raw, raw \in Holders',
                 tokens'[id].secret_hash = hash[raw]
          PROVE  raw # None
      BY <3>3, NoneAssumption
    <3> QED
      BY <1>2, <2>1, <3>1, <3>2, <3>3, NewHashes DEF AccessInv
  <2>2. CASE UNCHANGED accessVars
    BY <1>2, <2>2 DEF accessVars, callVars, vars, LockoutOnlyByLostAnswer,
                      Active, Exists
  <2> QED
    BY <1>2, <2>1, <2>2
<1> QED
  BY <1>1, <1>2, SpecAccessInv, PTL DEF AccessSpec
=============================================================================
