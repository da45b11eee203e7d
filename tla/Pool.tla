-------------------------------- MODULE Pool --------------------------------
(***************************************************************************)
(* The database pool, shared by all handlers of a process.  A handler is   *)
(* the sequence of its statements and transactions, each of which needs a  *)
(* connection from its first statement to its end, and may wait for rows   *)
(* and unique keys that other transactions have locked.                    *)
(***************************************************************************)
EXTENDS Naturals, FiniteSets, SequencesExt

CONSTANTS
  Handlers,
  Size,                 \* max_connections, 10
  Operations,           \* operations that clients ask for
  Claims,               \* claims of one token
  Lists,                \* what replacements of its claims lock, in order
  None

ASSUME SizeAssumption == Size \in Nat \ {0}
ASSUME NoneAssumption == None \notin Handlers
ASSUME ClaimAssumption ==
         /\ Claims \cap {"crate", "version", "token"} = {}
         /\ Lists \subseteq Seq(Claims)

VARIABLES
  phase,      \* of a handler: "idle", "between" its sections, "waiting" for a
              \* connection, or "running"
  work, at,   \* the sections of a handler's operation and which one it is in
  queue,      \* handlers that wait for a connection, served in turn
  connected,  \* handlers that have one
  owner       \* who has a row locked, or a unique key inserted

vars == <<phase, work, at, queue, connected, owner>>

-----------------------------------------------------------------------------
\* One crate, one version of it, one token and its claims.
Rows == {"crate", "version", "token"} \cup Claims

(* A section is one statement or one transaction, as the sequence of the   *)
(* rows it locks.  Many lock none, or rows that no other handler knows.    *)
Plain == <<>>

\* find_active_record reads twice, touch_last_used updates the token.
authenticate == <<Plain, Plain, <<"token">>>>

\* The upsert of the crate, then the insert of the version, which waits for an
\* open transaction that writes a row with its key.
begin_publish == <<"crate", "version">>

\* An UPDATE of the version, then of its crate.
finalize_publish_and_crate == <<"version", "crate">>

finalize_publish == <<"version">>

\* Two statements: the version, and the event.
mark_failed == <<<<"version">>, Plain>>

set_yanked == <<"version">>

\* put_tarball and get_tarball need no connection.  list_tokens is that of one
\* token, and token_update is rotate and revoke: a statement, and the claims for
\* the answer.
Sections ==
  [whoami |-> <<>>,
   search |-> <<Plain>>, index |-> <<Plain>>, download |-> <<Plain>>,
   publish |-> <<begin_publish, finalize_publish>>,
   failing_publish |-> <<begin_publish>> \o mark_failed,
   yank |-> <<set_yanked>>,
   create_token |-> <<Plain>>,
   list_tokens |-> <<Plain, Plain>>, get_token |-> <<Plain, Plain>>,
   token_update |-> <<<<"token">>, Plain>>]

ASSUME OperationAssumption == Operations \subseteq DOMAIN Sections

(* replace_claims: one transaction that locks the claims its DELETE finds, *)
(* then the keys it inserts, in the order of the request.  That the token  *)
(* stays, which a foreign key asks for, holds no UPDATE of it up.          *)
replace_claims(list) == authenticate \o <<list>>

Works == {authenticate \o Sections[o] : o \in Operations}
           \cup {replace_claims(list) : list \in Lists}

Section(h) == work[h][at[h]]

\* The first row of the section that its transaction does not have yet.
Wants(h, r) ==
  /\ phase[h] = "running"
  /\ owner[r] # h
  /\ \E i \in 1..Len(Section(h)) :
       Section(h)[i] = r /\ \A j \in 1..(i - 1) : owner[Section(h)[j]] = h

-----------------------------------------------------------------------------
Init ==
  /\ phase = [h \in Handlers |-> "idle"]
  /\ work = [h \in Handlers |-> <<>>]
  /\ at = [h \in Handlers |-> 0]
  /\ queue = <<>>
  /\ connected = {}
  /\ owner = [r \in Rows |-> None]

Become(h, p) == phase' = [phase EXCEPT ![h] = p]

\* The bootstrap token is compared without the database.
Start(h, w) ==
  /\ phase[h] = "idle"
  /\ Become(h, "between")
  /\ work' = [work EXCEPT ![h] = w]
  /\ \E first \in {1, Len(authenticate) + 1} :
       first <= Len(w) /\ at' = [at EXCEPT ![h] = first]
  /\ UNCHANGED <<queue, connected, owner>>

Ask(h) ==
  /\ phase[h] = "between"
  /\ Become(h, "waiting")
  /\ queue' = Append(queue, h)
  /\ UNCHANGED <<work, at, connected, owner>>

Grant ==
  /\ queue # <<>>
  /\ Cardinality(connected) < Size
  /\ Become(Head(queue), "running")
  /\ connected' = connected \cup {Head(queue)}
  /\ queue' = Tail(queue)
  /\ UNCHANGED <<work, at, owner>>

LockRow(h) ==
  /\ \E r \in Rows : /\ Wants(h, r) /\ owner[r] = None
                     /\ owner' = [owner EXCEPT ![r] = h]
  /\ UNCHANGED <<phase, work, at, queue, connected>>

Unlock(h) == owner' = [r \in Rows |-> IF owner[r] = h THEN None ELSE owner[r]]

\* The next section starts before the connection of this one goes back.
ReturnAtTheEnd(h) ==
  connected' = IF at[h] = Len(work[h]) THEN connected \ {h} ELSE connected

Return(h) == connected' = connected \ {h}

\* The request is answered, or nobody waits for the answer.
End(h) ==
  /\ Become(h, "idle")
  /\ work' = [work EXCEPT ![h] = <<>>]
  /\ at' = [at EXCEPT ![h] = 0]

GoOn(h) ==
  \/ /\ at[h] < Len(work[h])
     /\ Become(h, "between")
     /\ at' = [at EXCEPT ![h] = @ + 1]
     /\ UNCHANGED work
  \/ at[h] = Len(work[h]) /\ End(h)

\* A statement is done or a transaction commits.
Finish(h) ==
  /\ phase[h] = "running"
  /\ \A r \in Rows : ~Wants(h, r)
  /\ Return(h)
  /\ Unlock(h)
  /\ GoOn(h)
  /\ UNCHANGED queue

\* A failure of touch_last_used is logged, any other one answers the request.
Failed(h) == End(h) \/ (at[h] = Len(authenticate) /\ GoOn(h))

\* The transaction is dropped and stays open on its connection.
FailHoldingLocks(h) ==
  /\ phase[h] = "running"
  /\ Return(h)
  /\ Failed(h)
  /\ UNCHANGED <<queue, owner>>

\* A statement fails, a transaction is rolled back and answers 404 or 409, or
\* the client leaves and the handler is dropped.
Fail(h) ==
  /\ phase[h] = "running"
  /\ Return(h)
  /\ Unlock(h)
  /\ Failed(h)
  /\ UNCHANGED queue

\* connect_timeout, an answer that needs no further section, or the client
\* leaves before its handler has a connection.
GiveUp(h) ==
  /\ \/ phase[h] = "between" /\ End(h) /\ UNCHANGED queue
     \/ /\ phase[h] = "waiting" /\ Failed(h)
        /\ \E i \in DOMAIN queue : queue[i] = h /\ queue' = RemoveAt(queue, i)
  /\ UNCHANGED <<connected, owner>>

(* Postgres fails a transaction of a circle of transactions that wait for  *)
(* each other's locks.  It knows nothing of who waits for a connection.    *)
WaitsFor(h, g) == \E r \in Rows : Wants(h, r) /\ owner[r] = g

Deadlocked(h) ==
  \E S \in SUBSET connected :
    h \in S /\ \A g \in S : \E other \in S : WaitsFor(g, other)

BreakDeadlock(h) == Fail(h) /\ Deadlocked(h)

Next ==
  \/ Grant
  \/ \E h \in Handlers :
       \/ \E w \in Works : Start(h, w)
       \/ Ask(h)
       \/ LockRow(h)
       \/ Finish(h)
       \/ Fail(h)
       \/ GiveUp(h)
       \/ BreakDeadlock(h)

Spec == Init /\ [][Next]_vars

(* The pool hands connections out in turn, Postgres serves those that wait *)
(* for a row in turn and breaks deadlocks after deadlock_timeout, and      *)
(* statements and put_tarball return.  Nothing else has to fail or to give *)
(* up for others to go on.                                                 *)
Fairness ==
  /\ WF_vars(Grant)
  /\ \A h \in Handlers : SF_vars(Ask(h) \/ LockRow(h) \/ Finish(h))
  /\ WF_vars(\E h \in Handlers : BreakDeadlock(h))

FairSpec == Spec /\ Fairness

-----------------------------------------------------------------------------
(* Whoever has a row locked has a connection, so that it can go on, and    *)
(* whoever waits for one holds nothing: a full pool cannot wait for        *)
(* itself, however long publishes of one crate wait for each other.        *)
NoHoldAndWait ==
  /\ Cardinality(connected) <= Size
  /\ \A r \in Rows : owner[r] # None => owner[r] \in connected
  /\ \A h \in Handlers : h \in connected <=> phase[h] = "running"

\* A handler that does not wait for another one: it asks for a connection, or is
\* at a statement that no lock of another handler holds up.
GoesOn(h) ==
  \/ phase[h] = "between"
  \/ phase[h] = "running" /\ \A r \in Rows : Wants(h, r) => owner[r] = None

(* Whenever all handlers wait, the pool has a connection for the first of  *)
(* the queue, or Postgres sees the whole circle and breaks it: no circle   *)
(* closes over the pool's queue, where nobody would find it before         *)
(* connect_timeout fails requests that could have been served.             *)
SomebodyGoesOn ==
  (\E h \in Handlers : phase[h] # "idle") =>
    \/ \E h \in Handlers : GoesOn(h)
    \/ queue # <<>> /\ Cardinality(connected) < Size
    \/ \E h \in Handlers : Deadlocked(h)

(* Deadlocks are a matter of replace_claims alone: publishes, their        *)
(* retries, yanks, rotations and authentications wait for each other in    *)
(* lines only, because all transactions lock a crate before its version.   *)
OnlyReplacementsDeadlock ==
  \A h \in Handlers : Deadlocked(h) => Section(h) \in Lists

(* The request that a handler serves is answered, though more want a       *)
(* connection than there are and some deadlock, without the help of other  *)
(* timeouts than that of Postgres' deadlock detection.                     *)
IsAnswered(h) == phase[h] # "idle" ~> phase[h] = "idle"
=============================================================================
