-------------------------- MODULE TokenProperties --------------------------
(***************************************************************************)
(* What Tokens.tla is checked for.                                         *)
(***************************************************************************)
EXTENDS Tokens

Txn == [pc : {"idle", "selected", "deleting", "inserting"},
        id : TokenIds \cup {None}, request : Seq(Claims), next : Nat \ {0},
        doomed : SUBSET Claims, deleted : SUBSET Claims,
        inserted : SUBSET Claims, alone : BOOLEAN, asked : SUBSET Claims]

Session == [pc : {"idle", "sent", "found", "principal"},
            id : TokenIds \cup {None}, secret : Secrets \cup {None},
            secret_hash : Hashes \cup {None}, admin : BOOLEAN,
            claims : SUBSET Claims, stale : BOOLEAN]

Types ==
  /\ tokens \in [TokenIds -> Token]
  /\ claims \in [TokenIds -> SUBSET Claims]
  /\ issued \in SUBSET Raw
  /\ txn \in [Admins -> Txn]
  /\ session \in [Sessions -> Session]

\* A transaction holds row locks on committed claims only, so its COMMIT finds
\* the rows it deleted still there.
LocksAreReal ==
  \A a \in Admins :
    IF txn[a].pc = "idle" THEN txn[a] = NoTxn
    ELSE /\ txn[a].id \in TokenIds /\ Exists(txn[a].id)
         /\ txn[a].request \in Requests
         /\ txn[a].next <= Len(txn[a].request) + 1
         /\ txn[a].doomed \cup txn[a].deleted \subseteq claims[txn[a].id]

RawsAreIssued ==
  \A s \in Sessions :
    session[s].pc # "idle" => <<session[s].id, session[s].secret>> \in issued

HashesAreIssued ==
  \A id \in TokenIds :
    Exists(id) => \E raw \in issued : raw[1] = id /\ tokens[id].secret_hash = hash[raw]

(* Types of every variable; open transactions lock rows that exist,        *)
(* requests present raw tokens that were generated, and a token is opened  *)
(* by one that was generated for it.                                       *)
TypeOK == Types /\ LocksAreReal /\ RawsAreIssued /\ HashesAreIssued

(* A raw token that was rotated out, revoked or expired when the request   *)
(* was sent never becomes a principal, though the row, the claims and the  *)
(* hash are looked at later and one by one: whatever makes a raw token     *)
(* useless makes it so for good (e2e/scripts/cargo-smoke.mjs:64, 70).      *)
StaleTokensAreRefused ==
  \A s \in Sessions : session[s].pc = "principal" => ~session[s].stale

(* A replacement that overlaps no other of its token leaves exactly the    *)
(* claims that were asked for, however the list is ordered or repeats      *)
(* itself, at its COMMIT and not before; one that breaks off after its     *)
(* DELETE or between two INSERTs leaves those that were there.             *)
AloneReplacesAll ==
  [][\A a \in Admins :
       txn[a].pc # "idle" /\ txn[a].alone =>
         claims'[txn[a].id] = IF CommitReplace(a) THEN Range(txn[a].request)
                              ELSE claims[txn[a].id]]_vars

(* However replacements of a token overlap, break off or wait, each that   *)
(* commits withdraws every claim that neither it nor one of those that     *)
(* overlapped it was asked for.                                            *)
ReplaceWithdraws ==
  [][\A a \in Admins :
       CommitReplace(a) => claims'[txn[a].id] \subseteq txn[a].asked]_vars

(* Replacements that wait for each other are all answered.                 *)
ReplaceIsAnswered ==
  \A a \in Admins : txn[a].pc # "idle" ~> txn[a].pc = "idle"

-----------------------------------------------------------------------------
(* Claims of the code and its messages that do not hold.                   *)

(* PATCH /api/v1/tokens/:id/claims replaces: the claims of a token are     *)
(* those one caller asked for.                                             *)
ReplaceReplaces ==
  [][\A a \in Admins :
       CommitReplace(a) =>
         claims'[txn[a].id] = Range(txn[a].request)]_vars
=============================================================================
