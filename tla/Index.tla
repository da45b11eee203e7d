------------------------------- MODULE Index -------------------------------
(***************************************************************************)
(* The order in which a crate's versions are listed and the record of its  *)
(* yanks: transactions of one crate that overlap, and the clock of the     *)
(* database.  Which publish may finalize a row is Registry.tla's matter.   *)
(***************************************************************************)
EXTENDS Naturals, SequencesExt

CONSTANTS
  Versions,             \* versions of one crate, each a claimed row
  Yankers,              \* slots for yank and unyank handlers
  MaxClock, MaxEvents,  \* bounds
  None

ASSUME BoundAssumption == MaxClock \in Nat /\ MaxEvents \in Nat
ASSUME VersionAssumption == IsFiniteSet(Versions)
ASSUME NoneAssumption == None \notin Yankers /\ None \notin Nat

VARIABLES
  clock,      \* what now() returns to a transaction that starts
  row,        \* the rows of crate_versions
  started,    \* when the finalize transaction of a version began
  holder,     \* the yank transaction that has a row locked
  yank,       \* the open yank transactions
  events,     \* the yanked and unyanked rows of registry_events
  next_id,    \* the sequence of registry_events.id
  before      \* history: <<v, w>> if v was ready when w's finalize began

yankVars == <<holder, yank, events, next_id>>
vars == <<clock, row, started, yankVars, before>>

NoYank == [pc |-> "idle", version |-> None, yanked |-> FALSE, id |-> None]

Init ==
  /\ clock = 0
  /\ row = [v \in Versions |-> [status |-> "absent", created_at |-> None,
                                published_at |-> None, yanked |-> FALSE]]
  /\ started = [v \in Versions |-> None]
  /\ holder = [v \in Versions |-> None]
  /\ yank = [y \in Yankers |-> NoYank]
  /\ events = {}
  /\ next_id = 1
  /\ before = {}

Ready(v) == row[v].status = "ready"

\* Time passes.
Tick == clock < MaxClock /\ clock' = clock + 1
          /\ UNCHANGED <<row, started, yankVars, before>>

-----------------------------------------------------------------------------
\* begin_publish: created_at DEFAULT now()
BeginPublish(v) ==
  /\ row[v].status = "absent"
  /\ row' = [row EXCEPT ![v] = [@ EXCEPT !.status = "publishing",
                                       !.created_at = clock]]
  /\ UNCHANGED <<clock, started, yankVars, before>>

BeginFinalize(v) ==
  /\ row[v].status = "publishing" /\ started[v] = None
  /\ started' = [started EXCEPT ![v] = clock]
  /\ before' = before \cup {<<u, v>> : u \in {u \in Versions : Ready(u)}}
  /\ UNCHANGED <<clock, row, yankVars>>

\* The time of the claim kept.
published_at_created(v) == row[v].created_at

\* now() is the time at which the transaction began.
published_at(v) == started[v]

\* A transaction takes longer than now() is coarse, a microsecond.
CommitFinalize(v) ==
  /\ row[v].status = "publishing"
  /\ started[v] # None /\ started[v] < clock
  /\ row' = [row EXCEPT ![v] = [@ EXCEPT !.status = "ready",
                                       !.published_at = published_at(v)]]
  /\ UNCHANGED <<clock, started, yankVars, before>>

-----------------------------------------------------------------------------
\* Two UPDATEs of one row at a time.
LockRowTogether(y, v) == holder' = [holder EXCEPT ![v] = y]

\* An UPDATE waits for the transaction that updated its row.
LockRow(y, v) == holder[v] = None /\ holder' = [holder EXCEPT ![v] = y]

\* The UPDATE of any row that there is.
YankableOnceClaimed(v) == row[v].status # "absent"

\* WHERE cv.version = $2 AND cv.status = 'ready'
Yankable(v) == Ready(v)

UpdateYanked(y, v, yanked) ==
  /\ yank[y].pc = "idle"
  /\ Yankable(v)
  /\ LockRow(y, v)
  /\ yank' = [yank EXCEPT ![y] = [NoYank EXCEPT !.pc = "updated",
                                    !.version = v, !.yanked = yanked]]
  /\ UNCHANGED <<clock, row, started, events, next_id, before>>

\* record_event takes its id from a sequence, which no rollback turns back.
RecordEvent(y) ==
  /\ yank[y].pc = "updated"
  /\ next_id <= MaxEvents
  /\ yank' = [yank EXCEPT ![y] = [@ EXCEPT !.pc = "recorded", !.id = next_id]]
  /\ next_id' = next_id + 1
  /\ UNCHANGED <<clock, row, started, holder, events, before>>

\* The version is listed anew.
SetYankedAndTouch(y) ==
  row' = [row EXCEPT ![yank[y].version] = [@ EXCEPT !.yanked = yank[y].yanked,
                                                    !.published_at = clock]]

SetYanked(y) ==
  row' = [row EXCEPT ![yank[y].version].yanked = yank[y].yanked]

EndYank(y) ==
  /\ holder' = [holder EXCEPT ![yank[y].version] = None]
  /\ yank' = [yank EXCEPT ![y] = NoYank]
  /\ UNCHANGED <<clock, started, next_id, before>>

CommitYank(y) ==
  /\ yank[y].pc = "recorded"
  /\ SetYanked(y)
  /\ events' = events \cup {[id |-> yank[y].id, version |-> yank[y].version,
                             yanked |-> yank[y].yanked]}
  /\ EndYank(y)

\* A statement fails or the client leaves.
AbortYank(y) ==
  /\ yank[y].pc # "idle"
  /\ EndYank(y)
  /\ UNCHANGED <<row, events>>

-----------------------------------------------------------------------------
Next ==
  \/ Tick
  \/ \E v \in Versions :
       \/ BeginPublish(v)
       \/ BeginFinalize(v)
       \/ CommitFinalize(v)
       \/ \E y \in Yankers, yanked \in BOOLEAN : UpdateYanked(y, v, yanked)
  \/ \E y \in Yankers : RecordEvent(y) \/ CommitYank(y) \/ AbortYank(y)

Spec == Init /\ [][Next]_vars

-----------------------------------------------------------------------------
\* index_versions: ORDER BY published_at, where rows of one time come in any
\* order, and not always in the same.
Answers ==
  {answer \in SetToSeqs({v \in Versions : Ready(v)}) :
     \A i, j \in DOMAIN answer :
       i < j => row[answer[i]].published_at <= row[answer[j]].published_at}
=============================================================================
