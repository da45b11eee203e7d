---------------------------- MODULE IndexProofs ----------------------------
(***************************************************************************)
(* Theorems about the order of the index and the record of yanks, for any  *)
(* number of versions and handlers and for any time.                       *)
(***************************************************************************)
EXTENDS IndexProperties, FiniteSetTheorems, TLAPS

Time == Nat \cup {None}

Row == [status : {"absent", "publishing", "ready"}, created_at : Time,
        published_at : Time, yanked : BOOLEAN]

Yank == [pc : {"idle", "updated", "recorded"}, version : Versions \cup {None},
         yanked : BOOLEAN, id : Time]

Types ==
  /\ clock \in Nat /\ next_id \in Nat
  /\ row \in [Versions -> Row]
  /\ started \in [Versions -> Time]
  /\ holder \in [Versions -> Yankers \cup {None}]
  /\ yank \in [Yankers -> Yank]
  /\ events \subseteq [id : Nat, version : Versions, yanked : BOOLEAN]

\* A ready version has the time at which its finalize began, which is over.
Times ==
  \A v \in Versions :
    /\ started[v] # None => started[v] <= clock
    /\ Ready(v) => /\ started[v] # None
                   /\ row[v].published_at = started[v]
                   /\ started[v] < clock

Causes ==
  \A v, w \in Versions :
    <<v, w>> \in before => /\ Ready(v) /\ started[w] # None
                           /\ started[v] < started[w]

\* An open yank has its row locked, and nobody else has.
Locks ==
  \A y \in Yankers :
    yank[y].pc # "idle" =>
      yank[y].version \in Versions /\ holder[yank[y].version] = y

\* An id that is handed out is later than those of the events of its version.
Ids ==
  /\ \A event \in events : event.id < next_id
  /\ \A y \in Yankers :
       yank[y].pc = "recorded" =>
         /\ yank[y].id \in Nat /\ yank[y].id < next_id
         /\ \A event \in events :
              event.version = yank[y].version => event.id < yank[y].id

OrderInv == Types /\ Times /\ Causes
YankInv == Locks /\ Ids /\ LastEventIsTrue
IndexInv == OrderInv /\ YankInv

-----------------------------------------------------------------------------
(* The inductive invariant holds at first.                                 *)
LEMMA InitIndexInv == Init => IndexInv
PROOF
<1> SUFFICES ASSUME Init
             PROVE  IndexInv
  OBVIOUS
<1>1. Types
  BY DEF Init, Types, Time, Row, Yank, NoYank
<1>2. Times /\ Causes
  BY DEF Init, Times, Causes, Ready
<1>3. Locks /\ Ids /\ LastEventIsTrue
  BY DEF Init, Locks, Ids, LastEventIsTrue, NoYank
<1> QED
  BY <1>1, <1>2, <1>3 DEF IndexInv, OrderInv, YankInv

\* What the steps of a publish and of a yank leave alone.
LEMMA Frames ==
  ASSUME IndexInv, Next
  PROVE  /\ \/ UNCHANGED yankVars
            \/ UNCHANGED <<clock, started, before>>
         /\ \A v \in Versions :
              /\ Ready(v) => Ready(v)' /\ row'[v].published_at = row[v].published_at
              /\ Ready(v)' => \/ Ready(v)
                              \/ CommitFinalize(v) /\ UNCHANGED yankVars
PROOF
<1> USE DEF IndexInv, OrderInv, YankInv, Types, Ready, Row
<1>1. CASE Tick
  BY <1>1 DEF Tick
<1>2. ASSUME NEW v \in Versions, BeginPublish(v)
      PROVE  /\ UNCHANGED yankVars
             /\ \A u \in Versions :
                  /\ Ready(u) => Ready(u)' /\ row'[u].published_at = row[u].published_at
                  /\ Ready(u)' => Ready(u)
  BY <1>2 DEF BeginPublish
<1>3. ASSUME NEW v \in Versions, BeginFinalize(v)
      PROVE  UNCHANGED <<row, yankVars>>
  BY <1>3 DEF BeginFinalize
<1>4. ASSUME NEW v \in Versions, CommitFinalize(v)
      PROVE  /\ UNCHANGED yankVars
             /\ \A u \in Versions :
                  /\ Ready(u) => Ready(u)' /\ row'[u].published_at = row[u].published_at
                  /\ Ready(u)' => Ready(u) \/ u = v
  BY <1>4 DEF CommitFinalize
<1>5. ASSUME NEW v \in Versions, NEW y \in Yankers, NEW yanked \in BOOLEAN,
             UpdateYanked(y, v, yanked)
      PROVE  UNCHANGED <<clock, row, started, before>>
  BY <1>5 DEF UpdateYanked
<1>6. ASSUME NEW y \in Yankers, RecordEvent(y) \/ AbortYank(y)
      PROVE  UNCHANGED <<clock, row, started, before>>
  BY <1>6 DEF RecordEvent, AbortYank, EndYank
<1>7. ASSUME NEW y \in Yankers, CommitYank(y)
      PROVE  /\ UNCHANGED <<clock, started, before>>
             /\ \A u \in Versions :
                  /\ Ready(u) <=> Ready(u)'
                  /\ row'[u].published_at = row[u].published_at
  <2>1. yank[y].version \in Versions
    BY <1>7 DEF CommitYank, Locks
  <2> QED
    BY <1>7, <2>1 DEF CommitYank, SetYanked, EndYank
<1> QED
  BY <1>1, <1>2, <1>3, <1>4, <1>5, <1>6, <1>7 DEF Next

(* What the steps of publishes and yanks write are rows,                   *)
LEMMA RowUpdates ==
  ASSUME NEW r \in Row, NEW t \in Time
  PROVE  /\ [r EXCEPT !.status = "publishing", !.created_at = t] \in Row
         /\ [r EXCEPT !.status = "ready", !.published_at = t] \in Row
         /\ \A flag \in BOOLEAN : [r EXCEPT !.yanked = flag] \in Row
PROOF
<1> QED
  BY DEF Row

(* and what a yank remembers has its type.                                 *)
LEMMA YankUpdates ==
  ASSUME NEW y \in Yank, NEW t \in Time
  PROVE  [y EXCEPT !.pc = "recorded", !.id = t] \in Yank
PROOF
<1> QED
  BY DEF Yank

(* Each step keeps the types,                                              *)
LEMMA NextTypes ==
  ASSUME IndexInv, Next
  PROVE  Types'
PROOF
<1> USE DEF IndexInv, OrderInv, YankInv, Types, Time
<1>1. CASE Tick
  BY <1>1 DEF Tick, yankVars
<1>2. ASSUME NEW v \in Versions, BeginPublish(v)
      PROVE  Types'
  <2>1. [row[v] EXCEPT !.status = "publishing", !.created_at = clock] \in Row
    BY RowUpdates
  <2> QED
    BY <1>2, <2>1 DEF BeginPublish, yankVars
<1>3. ASSUME NEW v \in Versions, BeginFinalize(v)
      PROVE  Types'
  BY <1>3 DEF BeginFinalize, yankVars
<1>4. ASSUME NEW v \in Versions, CommitFinalize(v)
      PROVE  Types'
  <2>1. [row[v] EXCEPT !.status = "ready", !.published_at = started[v]] \in Row
    BY RowUpdates
  <2> QED
    BY <1>4, <2>1 DEF CommitFinalize, published_at, yankVars
<1>5. ASSUME NEW v \in Versions, NEW y \in Yankers, NEW yanked \in BOOLEAN,
             UpdateYanked(y, v, yanked)
      PROVE  Types'
  <2>1. ASSUME NEW flag \in BOOLEAN
        PROVE  [NoYank EXCEPT !.pc = "updated", !.version = v, !.yanked = flag]
                 \in Yank
    BY DEF NoYank, Yank
  <2> QED
    BY <1>5, <2>1 DEF UpdateYanked, LockRow
<1>6. ASSUME NEW y \in Yankers, RecordEvent(y)
      PROVE  Types'
  <2>1. [yank[y] EXCEPT !.pc = "recorded", !.id = next_id] \in Yank
    BY YankUpdates
  <2> QED
    BY <1>6, <2>1 DEF RecordEvent
<1>7. ASSUME NEW y \in Yankers, EndYank(y), yank[y].pc # "idle"
      PROVE  /\ UNCHANGED <<clock, started, next_id>>
             /\ holder' \in [Versions -> Yankers \cup {None}]
             /\ yank' \in [Yankers -> Yank]
  BY <1>7 DEF EndYank, NoYank, Yank, Locks
<1>8. ASSUME NEW y \in Yankers, CommitYank(y)
      PROVE  Types'
  <2>1. /\ yank[y].version \in Versions /\ yank[y].id \in Nat
        /\ yank[y].yanked \in BOOLEAN
    BY <1>8 DEF CommitYank, Locks, Ids, Yank
  <2>2. [id |-> yank[y].id, version |-> yank[y].version, yanked |-> yank[y].yanked]
          \in [id : Nat, version : Versions, yanked : BOOLEAN]
    BY <2>1
  <2>3. row' \in [Versions -> Row]
    <3>1. \A flag \in BOOLEAN :
            [row[yank[y].version] EXCEPT !.yanked = flag] \in Row
      BY <2>1, RowUpdates
    <3>2. [row[yank[y].version] EXCEPT !.yanked = yank[y].yanked] \in Row
      BY <2>1, <3>1
    <3> QED
      BY <1>8, <3>2 DEF CommitYank, SetYanked
  <2> QED
    BY <1>7, <1>8, <2>2, <2>3 DEF CommitYank
<1>9. ASSUME NEW y \in Yankers, AbortYank(y)
      PROVE  Types'
  BY <1>7, <1>9 DEF AbortYank
<1> QED
  BY <1>1, <1>2, <1>3, <1>4, <1>5, <1>6, <1>8, <1>9 DEF Next

(* the order of times,                                                     *)
LEMMA NextOrder ==
  ASSUME IndexInv, Next
  PROVE  Times' /\ Causes'
PROOF
<1> USE DEF IndexInv, OrderInv, Types, Time, Row
<1>1. CASE Tick
  BY <1>1 DEF Tick, Times, Causes, Ready
<1>2. ASSUME NEW v \in Versions, BeginPublish(v)
      PROVE  Times' /\ Causes'
  BY <1>2 DEF BeginPublish, Times, Causes, Ready
<1>3. ASSUME NEW v \in Versions, BeginFinalize(v)
      PROVE  Times' /\ Causes'
  <2>1. /\ UNCHANGED <<clock, row>> /\ started[v] = None
        /\ started' = [started EXCEPT ![v] = clock]
        /\ before' = before \cup {<<u, v>> : u \in {u \in Versions : Ready(u)}}
    BY <1>3 DEF BeginFinalize
  <2>2. Times'
    BY <2>1, NoneAssumption DEF Times, Ready
  <2>3. ASSUME NEW u \in Versions, NEW w \in Versions, <<u, w>> \in before'
        PROVE  Ready(u)' /\ started'[w] # None /\ started'[u] < started'[w]
    <3>1. CASE <<u, w>> \in before
      BY <2>1, <3>1 DEF Causes, Times, Ready
    <3>2. CASE Ready(u) /\ w = v
      BY <2>1, <3>2, NoneAssumption DEF Times, Ready
    <3> QED
      BY <2>1, <2>3, <3>1, <3>2
  <2> QED
    BY <2>2, <2>3 DEF Causes
<1>4. ASSUME NEW v \in Versions, CommitFinalize(v)
      PROVE  Times' /\ Causes'
  BY <1>4 DEF CommitFinalize, published_at, Times, Causes, Ready
<1>5. ASSUME NEW y \in Yankers,
             \/ \E v \in Versions, yanked \in BOOLEAN : UpdateYanked(y, v, yanked)
             \/ RecordEvent(y) \/ CommitYank(y) \/ AbortYank(y)
      PROVE  Times' /\ Causes'
  <2>1. UNCHANGED <<clock, started, before>>
    BY <1>5 DEF UpdateYanked, RecordEvent, CommitYank, AbortYank, EndYank
  <2>2. \A v \in Versions : Ready(v)' => Ready(v) /\ row'[v].published_at = row[v].published_at
    <3>1. CASE UNCHANGED row
      BY <3>1 DEF Ready
    <3>2. CASE CommitYank(y)
      <4>1. yank[y].version \in Versions
        BY <3>2 DEF CommitYank, YankInv, Locks
      <4> QED
        BY <3>2, <4>1 DEF CommitYank, SetYanked, Ready
    <3> QED
      BY <1>5, <3>1, <3>2 DEF UpdateYanked, RecordEvent, AbortYank
  <2> QED
    BY <2>1, <2>2, Frames DEF Times, Causes
<1> QED
  BY <1>1, <1>2, <1>3, <1>4, <1>5 DEF Next

-----------------------------------------------------------------------------
(* what is known of yanks under way,                                       *)
LEMMA NextYank ==
  ASSUME IndexInv, Next
  PROVE  YankInv'
PROOF
<1> USE DEF IndexInv, OrderInv, YankInv, Types, Time, Row, Yank
<1>1. ASSUME UNCHANGED yankVars, \A v \in Versions : row'[v].yanked = row[v].yanked
      PROVE  YankInv'
  BY <1>1 DEF yankVars, Locks, Ids, LastEventIsTrue
<1>2. ASSUME NEW v \in Versions, BeginPublish(v) \/ CommitFinalize(v)
      PROVE  UNCHANGED yankVars /\ \A u \in Versions : row'[u].yanked = row[u].yanked
  <2>1. CASE BeginPublish(v)
    <3>1. row' = [row EXCEPT ![v] = [row[v] EXCEPT !.status = "publishing",
                                                   !.created_at = clock]]
      BY <2>1 DEF BeginPublish
    <3> QED
      BY <2>1, <3>1 DEF BeginPublish
  <2>2. CASE CommitFinalize(v)
    <3>1. row' = [row EXCEPT ![v] = [row[v] EXCEPT !.status = "ready",
                                                   !.published_at = published_at(v)]]
      BY <2>2 DEF CommitFinalize
    <3> QED
      BY <2>2, <3>1 DEF CommitFinalize
  <2> QED
    BY <1>2, <2>1, <2>2
<1>3. ASSUME Tick \/ \E v \in Versions : BeginFinalize(v)
      PROVE  UNCHANGED <<row, yankVars>>
  BY <1>3 DEF Tick, BeginFinalize
<1>4. ASSUME NEW y \in Yankers, NEW v \in Versions, NEW yanked \in BOOLEAN,
             UpdateYanked(y, v, yanked)
      PROVE  YankInv'
  <2>1. /\ UNCHANGED <<row, events, next_id>>
        /\ holder[v] = None /\ holder' = [holder EXCEPT ![v] = y]
        /\ yank'[y].pc = "updated" /\ yank'[y].version = v
        /\ \A x \in Yankers : x # y => yank'[x] = yank[x]
    BY <1>4 DEF UpdateYanked, LockRow, NoYank
  <2>2. Locks'
    BY <2>1, NoneAssumption DEF Locks
  <2>3. Ids'
    BY <2>1 DEF Ids
  <2> QED
    BY <2>1, <2>2, <2>3 DEF LastEventIsTrue
<1>5. ASSUME NEW y \in Yankers, RecordEvent(y)
      PROVE  YankInv'
  <2>1. /\ UNCHANGED <<row, events, holder>>
        /\ yank[y].pc = "updated" /\ next_id' = next_id + 1
        /\ yank'[y].pc = "recorded" /\ yank'[y].version = yank[y].version
        /\ yank'[y].id = next_id
        /\ \A x \in Yankers : x # y => yank'[x] = yank[x]
    BY <1>5 DEF RecordEvent
  <2>2. Locks'
    BY <2>1 DEF Locks
  <2>3. Ids'
    BY <2>1 DEF Ids
  <2> QED
    BY <2>1, <2>2, <2>3 DEF LastEventIsTrue
<1>6. ASSUME NEW y \in Yankers, EndYank(y), yank[y].pc # "idle"
      PROVE  /\ Locks' /\ UNCHANGED next_id /\ yank'[y].pc = "idle"
             /\ \A x \in Yankers : x # y => yank'[x] = yank[x]
  BY <1>6 DEF EndYank, NoYank, Locks
<1>7. ASSUME NEW y \in Yankers, CommitYank(y)
      PROVE  YankInv'
  <2> DEFINE v == yank[y].version
             new == [id |-> yank[y].id, version |-> v, yanked |-> yank[y].yanked]
  <2>1. /\ v \in Versions /\ holder[v] = y /\ yank[y].id \in Nat
        /\ yank[y].id < next_id
        /\ \A event \in events : event.version = v => event.id < yank[y].id
        /\ events' = events \cup {new}
        /\ yank[y].pc = "recorded" /\ EndYank(y)
    BY <1>7 DEF CommitYank, Locks, Ids
  <2>2. /\ row'[v].yanked = yank[y].yanked
        /\ \A u \in Versions : u # v => row'[u] = row[u]
    BY <1>7, <2>1 DEF CommitYank, SetYanked
  <2>3. Locks' /\ UNCHANGED next_id /\ yank'[y].pc = "idle"
        /\ \A x \in Yankers : x # y => yank'[x] = yank[x]
    BY <1>6, <2>1
  <2>4. new.id = yank[y].id /\ new.version = v /\ new.yanked = yank[y].yanked
    OBVIOUS
  <2> HIDE DEF new
  <2>5. Ids'
    <3>1. \A event \in events' : event.id < next_id
      BY <2>1, <2>4 DEF Ids
    <3>2. ASSUME NEW x \in Yankers, yank'[x].pc = "recorded"
          PROVE  /\ yank'[x].id \in Nat /\ yank'[x].id < next_id
                 /\ \A event \in events' :
                      event.version = yank'[x].version => event.id < yank'[x].id
      <4>1. x # y /\ yank'[x] = yank[x]
        BY <2>3, <3>2
      <4>2. yank[x].version # v
        BY <2>1, <3>2, <4>1 DEF Locks
      <4> QED
        BY <2>1, <2>4, <3>2, <4>1, <4>2 DEF Ids
    <3> QED
      BY <2>3, <3>1, <3>2 DEF Ids
  <2>6. LastEventIsTrue'
    <3>1. ASSUME NEW u \in Versions, u # v
          PROVE  {event \in events' : event.version = u}
                   = {event \in events : event.version = u}
      BY <2>1, <2>4, <3>1
    <3>2. ASSUME NEW event \in events', event.version = v,
                 \A other \in events' : other.version = v => other.id <= event.id
          PROVE  event.yanked = row'[v].yanked
      <4>1. new \in events' /\ new.id <= event.id
        BY <2>1, <2>4, <3>2
      <4>2. event \notin events
        BY <2>1, <2>4, <3>2, <4>1
      <4> QED
        BY <2>1, <2>2, <2>4, <4>2
    <3>3. new \in {event \in events' : event.version = v}
      BY <2>1, <2>4
    <3> HIDE DEF v
    <3> QED
      BY <2>2, <3>1, <3>2, <3>3 DEF LastEventIsTrue
  <2> QED
    BY <2>3, <2>5, <2>6
<1>8. ASSUME NEW y \in Yankers, AbortYank(y)
      PROVE  YankInv'
  <2>1. UNCHANGED <<row, events>> /\ yank[y].pc # "idle" /\ EndYank(y)
    BY <1>8 DEF AbortYank
  <2>2. /\ Locks' /\ UNCHANGED next_id /\ yank'[y].pc = "idle"
        /\ \A x \in Yankers : x # y => yank'[x] = yank[x]
    BY <1>6, <2>1
  <2>3. Ids'
    BY <2>1, <2>2 DEF Ids
  <2> QED
    BY <2>1, <2>2, <2>3 DEF LastEventIsTrue
<1> QED
  BY <1>1, <1>2, <1>3, <1>4, <1>5, <1>7, <1>8 DEF Next

(* and so the inductive invariant,                                         *)
LEMMA StepIndexInv == IndexInv /\ [Next]_vars => IndexInv'
PROOF
<1> SUFFICES ASSUME IndexInv, [Next]_vars
             PROVE  IndexInv'
  OBVIOUS
<1>1. CASE Next
  BY <1>1, NextTypes, NextOrder, NextYank DEF IndexInv, OrderInv
<1>2. CASE UNCHANGED vars
  BY <1>2 DEF IndexInv, OrderInv, YankInv, Types, Times, Causes, Locks, Ids,
              LastEventIsTrue, Ready, vars, yankVars
<1> QED
  BY <1>1, <1>2

(* which therefore always holds.                                           *)
LEMMA SpecIndexInv == Spec => []IndexInv
PROOF
<1> QED
  BY InitIndexInv, StepIndexInv, PTL DEF Spec

-----------------------------------------------------------------------------
(* An answer lists every version that is ready once, and no other.         *)
LEMMA AnswersAreComplete ==
  ASSUME NEW answer \in Answers
  PROVE  /\ DOMAIN answer \subseteq Nat
         /\ \A i \in DOMAIN answer : answer[i] \in Versions /\ Ready(answer[i])
         /\ \A v \in Versions : Ready(v) => \E i \in DOMAIN answer : answer[i] = v
PROOF
<1> DEFINE S == {v \in Versions : Ready(v)}
           n == Cardinality(S)
<1>1. IsFiniteSet(S) /\ n \in Nat
  BY VersionAssumption, FS_Subset, FS_CardinalityType
<1>2. answer \in [1..n -> S] /\ \A i, j \in 1..n : i # j => answer[i] # answer[j]
  BY DEF Answers, SetToSeqs
<1>3. Cardinality(1..n) = n /\ IsFiniteSet(1..n)
  <2> HIDE DEF n
  <2>1. IsFiniteSet(1..n) /\ Cardinality(1..n) = IF 1 > n THEN 0 ELSE n - 1 + 1
    BY <1>1, FS_Interval
  <2> QED
    BY <1>1, <2>1
<1> HIDE DEF S
<1>4. answer \in Injection(1..n, S)
  BY <1>2 DEF Injection, IsInjective
<1>5. answer \in Surjection(1..n, S)
  BY <1>1, <1>3, <1>4, FS_Injection
<1>6. \A v \in S : \E i \in 1..n : answer[i] = v
  BY <1>5 DEF Surjection
<1>7. DOMAIN answer = 1..n /\ \A i \in 1..n : answer[i] \in S
  BY <1>2
<1> QED
  BY <1>1, <1>6, <1>7 DEF S

(* What was published earlier comes first in every answer.                 *)
LEMMA EarlierIsListedBefore ==
  ASSUME NEW answer \in Answers, NEW v \in Versions, NEW w \in Versions,
         Ready(v), Ready(w),
         row[v].published_at \in Nat, row[w].published_at \in Nat,
         row[v].published_at < row[w].published_at
  PROVE  Before(answer, v, w)
PROOF
<1>1. PICK i \in DOMAIN answer : answer[i] = v
  BY AnswersAreComplete
<1>2. PICK j \in DOMAIN answer : answer[j] = w
  BY AnswersAreComplete
<1>3. i \in Nat /\ j \in Nat
  BY AnswersAreComplete
<1>4. i < j
  <2>1. j < i => row[w].published_at <= row[v].published_at
    BY <1>1, <1>2 DEF Answers
  <2>2. i # j
    BY <1>1, <1>2
  <2> QED
    BY <1>3, <2>1, <2>2
<1> QED
  BY <1>1, <1>2, <1>4 DEF Before

(* Publishes that follow each other are listed one after the other.        *)
THEOREM PublishesAreOrdered == Spec => []OrderIsCausal
PROOF
<1>1. ASSUME IndexInv, NEW answer \in Answers, NEW v \in Versions, NEW w \in Versions,
             <<v, w>> \in before, Ready(w)
      PROVE  Before(answer, v, w)
  <2>1. /\ Ready(v) /\ row[v].published_at \in Nat /\ row[w].published_at \in Nat
        /\ row[v].published_at < row[w].published_at
    BY <1>1 DEF IndexInv, OrderInv, Types, Time, Times, Causes
  <2> QED
    BY <1>1, <2>1, EarlierIsListedBefore
<1>2. IndexInv => OrderIsCausal
  BY <1>1 DEF OrderIsCausal
<1> QED
  BY <1>2, SpecIndexInv, PTL

(* The record of yanks ends with the truth.                                *)
THEOREM YanksAreRecorded == Spec => []LastEventIsTrue
PROOF
<1>1. IndexInv => LastEventIsTrue
  BY DEF IndexInv, YankInv
<1> QED
  BY <1>1, SpecIndexInv, PTL

(* What is known of the answers of one state, in the next.                 *)
LEMMA NextAnswersAreComplete ==
  ASSUME NEW answer \in Answers'
  PROVE  /\ DOMAIN answer \subseteq Nat
         /\ \A i \in DOMAIN answer : answer[i] \in Versions /\ Ready(answer[i])'
         /\ \A v \in Versions : Ready(v)' => \E i \in DOMAIN answer : answer[i] = v
PROOF
<1> DEFINE P == \A a \in Answers :
      /\ DOMAIN a \subseteq Nat
      /\ \A i \in DOMAIN a : a[i] \in Versions /\ Ready(a[i])
      /\ \A v \in Versions : Ready(v) => \E i \in DOMAIN a : a[i] = v
<1>1. P
  BY AnswersAreComplete
<1>2. P'
  BY <1>1, PTL
<1> QED
  BY <1>2

(* Two answers, before and after a step, agree on the order of versions    *)
(* whose finalize transactions began at different times.                   *)
LEMMA AnswersAgree ==
  ASSUME IndexInv, IndexInv', Next, NEW earlier \in Answers, NEW later \in Answers'
  PROVE  /\ Range(earlier) \subseteq Range(later)
         /\ \A v, w \in Range(earlier) :
              started[v] # started[w] /\ Before(earlier, v, w) => Before(later, v, w)
PROOF
<1>1. \A v \in Range(earlier) :
        /\ v \in Versions /\ Ready(v) /\ Ready(v)'
        /\ row'[v].published_at = row[v].published_at
        /\ row[v].published_at = started[v] /\ started[v] \in Nat
  <2>1. \A v \in Range(earlier) : v \in Versions /\ Ready(v)
    BY AnswersAreComplete DEF Range
  <2>2. \A v \in Versions : Ready(v) =>
          row[v].published_at = started[v] /\ started[v] \in Nat
    BY DEF IndexInv, OrderInv, Types, Time, Times
  <2> QED
    BY <2>1, <2>2, Frames
<1>2. Range(earlier) \subseteq Range(later)
  BY <1>1, NextAnswersAreComplete DEF Range
<1>3. ASSUME NEW v \in Range(earlier), NEW w \in Range(earlier),
             started[v] # started[w], Before(earlier, v, w)
      PROVE  Before(later, v, w)
  <2>1. PICK i \in DOMAIN earlier, j \in DOMAIN earlier :
           i < j /\ earlier[i] = v /\ earlier[j] = w
    BY <1>3 DEF Before
  <2>2. row[v].published_at <= row[w].published_at
    BY <2>1 DEF Answers
  <2>3. row'[v].published_at < row'[w].published_at
    BY <1>1, <1>3, <2>2
  <2>4. PICK k \in DOMAIN later : later[k] = v
    BY <1>2 DEF Range
  <2>5. PICK l \in DOMAIN later : later[l] = w
    BY <1>2 DEF Range
  <2>6. k \in Nat /\ l \in Nat
    BY NextAnswersAreComplete
  <2>7. l < k => row'[w].published_at <= row'[v].published_at
    BY <2>4, <2>5 DEF Answers
  <2>8. k < l
    BY <1>1, <2>3, <2>4, <2>5, <2>6, <2>7
  <2> QED
    BY <2>4, <2>5, <2>8 DEF Before
<1> QED
  BY <1>2, <1>3

(* The lines of an index do not change places, but for those of one time.  *)
THEOREM OrderIsKept == Spec => ListingKeepsOrder
PROOF
<1> DEFINE Keeps ==
      \A earlier \in Answers, later \in Answers' :
        /\ Range(earlier) \subseteq Range(later)
        /\ \A v, w \in Range(earlier) :
             started[v] # started[w] /\ Before(earlier, v, w) => Before(later, v, w)
<1>1. IndexInv /\ [Next]_vars => [Keeps]_vars
  <2>1. IndexInv /\ Next => Keeps
    BY StepIndexInv, AnswersAgree
  <2> HIDE DEF Keeps
  <2> QED
    BY <2>1
<1>2. Spec => [][Keeps]_vars
  <2> HIDE DEF Keeps
  <2> QED
    BY <1>1, SpecIndexInv, PTL DEF Spec
<1> QED
  BY <1>2 DEF ListingKeepsOrder

-----------------------------------------------------------------------------
(* The refinement of Catalog                                               *)

\* A flag is set, or about to be, on a version that is visible.
YanksAreOfReady ==
  /\ \A v \in Versions : row[v].yanked => Ready(v)
  /\ \A y \in Yankers : yank[y].pc # "idle" => Ready(yank[y].version)

(* A version that is yanked was ready at the UPDATE and still is at the    *)
(* COMMIT.                                                                 *)
LEMMA StepReadyYanks ==
  ASSUME IndexInv, YanksAreOfReady, [Next]_vars
  PROVE  YanksAreOfReady'
PROOF
<1> USE DEF IndexInv, OrderInv, YankInv, Types
<1>1. CASE UNCHANGED vars
  BY <1>1 DEF vars, yankVars, YanksAreOfReady, Ready
<1>2. CASE Next
  <2>1. \A v \in Versions : Ready(v) => Ready(v)'
    BY <1>2, Frames
  <2>2. ASSUME NEW v \in Versions, row'[v].yanked
        PROVE  row[v].yanked \/ \E y \in Yankers : CommitYank(y) /\ yank[y].version = v
    <3>1. ASSUME NEW u \in Versions, BeginPublish(u) \/ CommitFinalize(u)
          PROVE  row'[v].yanked = row[v].yanked
      BY <3>1 DEF BeginPublish, CommitFinalize, Row
    <3>2. ASSUME NEW y \in Yankers, CommitYank(y)
          PROVE  row'[v] = row[v] \/ yank[y].version = v
      BY <3>2 DEF CommitYank, SetYanked
    <3>3. \/ UNCHANGED row
          \/ \E u \in Versions : BeginPublish(u) \/ CommitFinalize(u)
          \/ \E y \in Yankers : CommitYank(y)
      BY <1>2 DEF Next, Tick, BeginFinalize, UpdateYanked, RecordEvent, AbortYank, EndYank
    <3> QED
      BY <2>2, <3>1, <3>2, <3>3
  <2>3. ASSUME NEW y \in Yankers, yank'[y].pc # "idle"
        PROVE  /\ yank'[y].version \in Versions
               /\ \/ yank[y].pc # "idle" /\ yank'[y].version = yank[y].version
                  \/ Ready(yank'[y].version)
    <3>1. yank[y] \in Yank /\ (yank[y].pc # "idle" => yank[y].version \in Versions)
      BY DEF Locks
    <3>2. ASSUME NEW x \in Yankers, NEW v \in Versions, NEW yanked \in BOOLEAN,
                 UpdateYanked(x, v, yanked)
          PROVE  \/ yank'[y] = yank[y]
                 \/ yank'[y].version = v /\ Ready(v)
      BY <3>2 DEF UpdateYanked, Yankable, NoYank
    <3>3. ASSUME NEW x \in Yankers, RecordEvent(x)
          PROVE  /\ yank'[y].version = yank[y].version
                 /\ yank'[y] = yank[y] \/ yank[y].pc # "idle"
      BY <3>1, <3>3 DEF RecordEvent, Yank
    <3>4. ASSUME NEW x \in Yankers, CommitYank(x) \/ AbortYank(x)
          PROVE  yank'[y] = yank[y]
      BY <2>3, <3>4 DEF CommitYank, AbortYank, EndYank, NoYank
    <3>5. \/ UNCHANGED yank
          \/ \E x \in Yankers :
               \/ \E v \in Versions, yanked \in BOOLEAN : UpdateYanked(x, v, yanked)
               \/ RecordEvent(x) \/ CommitYank(x) \/ AbortYank(x)
      BY <1>2 DEF Next, Tick, BeginPublish, BeginFinalize, CommitFinalize, yankVars
    <3> QED
      BY <2>3, <3>1, <3>2, <3>3, <3>4, <3>5
  <2>4. \A v \in Versions : row'[v].yanked => Ready(v)'
    BY <2>1, <2>2 DEF YanksAreOfReady, CommitYank
  <2>5. \A y \in Yankers : yank'[y].pc # "idle" => row'[yank'[y].version].status = "ready"
    BY <2>1, <2>3 DEF YanksAreOfReady, Ready
  <2> QED
    BY <2>4, <2>5 DEF YanksAreOfReady, Ready
<1> QED
  BY <1>1, <1>2

\* The entry of a version in the catalog.
entry(v, yanked) ==
  [version |-> v, cksum |-> "cksum", tarball |-> "tarball", yanked |-> yanked]

\* Its key.
key(v) == <<"crate", v>>

(* Changes of one entry, in terms of its version.                          *)
LEMMA ListedAt ==
  /\ \A v \in Versions : /\ key(v) \in Cat!Ids
                         /\ listed[key(v)] = IF Ready(v) THEN entry(v, row[v].yanked)
                                                          ELSE None
  /\ \A v \in Versions : \A new :
       /\ listed'[key(v)] = new
       /\ \A u \in Versions \ {v} : listed'[key(u)] = listed[key(u)]
       => listed' = [listed EXCEPT ![key(v)] = new]
  /\ (\A v \in Versions : listed'[key(v)] = listed[key(v)]) => UNCHANGED listed
PROOF
<1> USE DEF key, Cat!Ids
<1>1. \A v \in Versions : key(v) \in Cat!Ids
  OBVIOUS
<1>2. \A id \in Cat!Ids : id[2] \in Versions /\ id = key(id[2])
  OBVIOUS
<1>3. listed = [id \in Cat!Ids |-> listed[id]] /\ listed' = [id \in Cat!Ids |-> listed'[id]]
  BY DEF listed
<1>4. \A v \in Versions :
        listed[key(v)] = IF Ready(v) THEN entry(v, row[v].yanked) ELSE None
  BY <1>1 DEF listed, entry
<1> HIDE DEF key, Cat!Ids
<1>5. ASSUME NEW v \in Versions, NEW new, listed'[key(v)] = new,
             \A u \in Versions \ {v} : listed'[key(u)] = listed[key(u)]
      PROVE  listed' = [listed EXCEPT ![key(v)] = new]
  <2>1. \A id \in Cat!Ids : listed'[id] = IF id = key(v) THEN new ELSE listed[id]
    BY <1>2, <1>5
  <2> QED
    BY <1>1, <1>3, <2>1
<1>6. ASSUME \A v \in Versions : listed'[key(v)] = listed[key(v)]
      PROVE  UNCHANGED listed
  BY <1>2, <1>3, <1>6
<1> QED
  BY <1>1, <1>4, <1>5, <1>6

(* A finalize publishes its version, a yank that commits sets the flag of  *)
(* its own, and no other step is seen.                                     *)
LEMMA CatalogStep ==
  ASSUME IndexInv, YanksAreOfReady, [Next]_vars
  PROVE  [Cat!Next]_listed
PROOF
<1> USE DEF IndexInv, OrderInv, YankInv, Types
<1>1. ASSUME NEW v \in Versions, CommitFinalize(v)
      PROVE  Cat!Publish(key(v))
  <2>1. row[v].status = "publishing" /\ row[v] \in Row
        /\ row' = [row EXCEPT ![v] = [@ EXCEPT !.status = "ready",
                                              !.published_at = published_at(v)]]
    BY <1>1 DEF CommitFinalize
  <2>2. ~Ready(v) /\ ~row[v].yanked
    BY <2>1 DEF YanksAreOfReady, Ready
  <2>3. row'[v].status = "ready" /\ row'[v].yanked = FALSE
    BY <2>1, <2>2 DEF Row
  <2>4. \A u \in Versions \ {v} : row'[u] = row[u]
    BY <2>1
  <2>5. listed'[key(v)] = entry(v, FALSE)
    BY <2>3 DEF listed, key, entry, Ready
  <2>6. \A u \in Versions \ {v} : listed'[key(u)] = listed[key(u)]
    BY <2>4 DEF listed, key, Ready
  <2>7. listed' = [listed EXCEPT ![key(v)] = entry(v, FALSE)]
    BY <2>5, <2>6, ListedAt
  <2>8. listed[key(v)] = None
    BY <2>2, ListedAt
  <2>9. [u \in Versions |-> u][v] = key(v)[2]
        /\ [t \in {"tarball"} |-> "cksum"]["tarball"] = "cksum"
    BY DEF key
  <2> QED
    BY <2>7, <2>8, <2>9 DEF Cat!Publish, entry
<1>2. ASSUME NEW y \in Yankers, CommitYank(y)
      PROVE  yank[y].version \in Versions /\ Cat!SetYanked(key(yank[y].version))
  <2> DEFINE v == yank[y].version
             flag == yank[y].yanked
  <2>1. /\ v \in Versions /\ flag \in BOOLEAN /\ Ready(v) /\ row[v] \in Row
        /\ row[v].yanked \in BOOLEAN
    BY <1>2 DEF CommitYank, Locks, Yank, Row, YanksAreOfReady
  <2>2. row' = [row EXCEPT ![v] = [@ EXCEPT !.yanked = flag]]
    BY <1>2 DEF CommitYank, SetYanked
  <2> HIDE DEF v, flag
  <2>3. /\ row'[v].status = "ready" /\ row'[v].yanked = flag
        /\ \A u \in Versions \ {v} : row'[u] = row[u]
    BY <2>1, <2>2 DEF Ready, Row
  <2>4. listed[key(v)] = entry(v, row[v].yanked)
    BY <2>1, ListedAt
  <2>5. listed'[key(v)] = [listed[key(v)] EXCEPT !.yanked = flag]
    <3>1. listed'[key(v)] = entry(v, flag)
      BY <2>1, <2>3 DEF listed, key, entry, Ready
    <3> QED
      BY <2>4, <3>1 DEF entry
  <2>6. \A u \in Versions \ {v} : listed'[key(u)] = listed[key(u)]
    BY <2>3 DEF listed, key, Ready
  <2>7. listed' = [listed EXCEPT ![key(v)] = [listed[key(v)] EXCEPT !.yanked = flag]]
    BY <2>1, <2>5, <2>6, ListedAt
  <2>8. listed[key(v)] # None
    <3>1. entry(v, row[v].yanked) \in Cat!Entry
      BY <2>1 DEF entry, Cat!Entry
    <3> QED
      BY <2>4, <3>1, EntryAssumption
  <2>9. listed' = [listed EXCEPT ![key(v)].yanked = flag]
    BY <2>7
  <2>10. Cat!SetYanked(key(v))
    BY <2>1, <2>8, <2>9 DEF Cat!SetYanked
  <2> QED
    BY <2>1, <2>10 DEF v
<1>3. ASSUME \A v \in Versions : /\ Ready(v)' <=> Ready(v)
                                 /\ row'[v].yanked = row[v].yanked
      PROVE  UNCHANGED listed
  <2>1. \A v \in Versions : listed'[key(v)] = listed[key(v)]
    BY <1>3 DEF listed, key, Ready
  <2> QED
    BY <2>1, ListedAt
<1>4. ASSUME NEW v \in Versions, BeginPublish(v)
      PROVE  UNCHANGED listed
  BY <1>3, <1>4 DEF BeginPublish, Ready, Row
<1>5. CASE UNCHANGED row
  BY <1>3, <1>5 DEF Ready
<1>6. \/ UNCHANGED row
      \/ \E v \in Versions : BeginPublish(v) \/ CommitFinalize(v)
      \/ \E y \in Yankers : CommitYank(y)
  BY DEF Next, vars, Tick, BeginFinalize, UpdateYanked, RecordEvent, AbortYank, EndYank
<1> QED
  BY <1>1, <1>2, <1>4, <1>5, <1>6, ListedAt DEF Cat!Next

(* The transactions of one crate implement Catalog.tla: that a yank is one *)
(* step of Registry.tla hides nothing from clients.                        *)
THEOREM IndexImplementsCatalog == Spec => ImplementsCatalog
PROOF
<1>1. Init => YanksAreOfReady
  BY DEF Init, YanksAreOfReady, NoYank
<1>2. Spec => []YanksAreOfReady
  BY <1>1, SpecIndexInv, StepReadyYanks, PTL DEF Spec
<1>3. Init => Cat!Init
  <2>1. ASSUME Init, NEW id \in {"crate"} \X Versions
        PROVE  ~Ready(id[2])
    <3>1. id[2] \in Versions
      OBVIOUS
    <3> QED
      BY <2>1, <3>1 DEF Init, Ready
  <2> QED
    BY <2>1 DEF Cat!Init, Cat!Ids, listed
<1> QED
  BY <1>2, <1>3, SpecIndexInv, CatalogStep, PTL DEF Spec, ImplementsCatalog, Cat!Spec
=============================================================================
