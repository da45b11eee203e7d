---------------------------- MODULE PoolProofs ------------------------------
(***************************************************************************)
(* Any number of handlers, and a pool of any size.                         *)
(***************************************************************************)
EXTENDS Pool, FiniteSetTheorems, SequenceTheorems, TLAPS

Phases == {"idle", "between", "waiting", "running"}

PoolInv ==
  /\ phase \in [Handlers -> Phases]
  /\ owner \in [Rows -> Handlers \cup {None}]
  /\ IsFiniteSet(connected)
  /\ NoHoldAndWait

-----------------------------------------------------------------------------
(* The end of a section gives back what its handler held, and only that.   *)
LEMMA GivenBack ==
  ASSUME PoolInv, NEW h \in Handlers, Return(h), Unlock(h),
         NEW p \in Phases \ {"running"}, Become(h, p)
  PROVE  PoolInv'
PROOF
<1>1. /\ IsFiniteSet(connected')
      /\ Cardinality(connected') <= Cardinality(connected)
      /\ Cardinality(connected) \in Nat /\ Cardinality(connected') \in Nat
  <2>1. IsFiniteSet(connected) /\ connected' = connected \ {h}
    BY DEF PoolInv, Return
  <2>2. /\ IsFiniteSet(connected \ {h})
        /\ Cardinality(connected \ {h}) =
             IF h \in connected THEN Cardinality(connected) - 1 ELSE Cardinality(connected)
    BY <2>1, FS_RemoveElement, Zenon
  <2>3. Cardinality(connected) \in Nat /\ Cardinality(connected \ {h}) \in Nat
    BY <2>1, <2>2, FS_CardinalityType
  <2>4. QED
    BY <2>1, <2>2, <2>3
<1>2. Cardinality(connected') <= Size
  BY <1>1, SizeAssumption DEF PoolInv, NoHoldAndWait
<1>3. phase' \in [Handlers -> Phases] /\ owner' \in [Rows -> Handlers \cup {None}]
  BY DEF PoolInv, Become, Unlock
<1>4. \A r \in Rows : owner'[r] # None => owner'[r] \in connected'
  BY NoneAssumption DEF PoolInv, NoHoldAndWait, Unlock, Return
<1>5. \A g \in Handlers : g \in connected' <=> phase'[g] = "running"
  BY DEF PoolInv, NoHoldAndWait, Return, Become, Phases
<1>6. QED
  BY <1>1, <1>2, <1>3, <1>4, <1>5 DEF PoolInv, NoHoldAndWait

(* A handler that neither had a connection nor gets one.                   *)
LEMMA StillWithout ==
  ASSUME PoolInv, NEW h \in Handlers, phase[h] # "running",
         NEW p \in Phases \ {"running"}, Become(h, p),
         UNCHANGED <<connected, owner>>
  PROVE  PoolInv'
PROOF BY DEF PoolInv, NoHoldAndWait, Become, Phases

(* A connection goes to a handler that waits for one, while there is one.  *)
LEMMA GrantKeeps ==
  ASSUME PoolInv, Grant
  PROVE  PoolInv'
PROOF
<1>1. /\ IsFiniteSet(connected')
      /\ Cardinality(connected') <= Cardinality(connected) + 1
      /\ Cardinality(connected) \in Nat /\ Cardinality(connected') \in Nat
  <2> DEFINE first == Head(queue)
  <2>1. IsFiniteSet(connected) /\ connected' = connected \cup {first}
    BY DEF PoolInv, Grant
  <2> HIDE DEF first
  <2>2. /\ IsFiniteSet(connected \cup {first})
        /\ Cardinality(connected \cup {first}) =
             IF first \in connected THEN Cardinality(connected) ELSE Cardinality(connected) + 1
    BY <2>1, FS_AddElement, Zenon
  <2>3. Cardinality(connected) \in Nat /\ Cardinality(connected \cup {first}) \in Nat
    BY <2>1, <2>2, FS_CardinalityType
  <2>4. QED
    BY <2>1, <2>2, <2>3
<1>2. Cardinality(connected') <= Size
  BY <1>1, SizeAssumption DEF Grant
<1>3. phase' \in [Handlers -> Phases]
  BY DEF PoolInv, Grant, Become, Phases
<1>4. \A r \in Rows : owner'[r] # None => owner'[r] \in connected'
  BY DEF PoolInv, NoHoldAndWait, Grant
<1>5. \A g \in Handlers : g \in connected' <=> phase'[g] = "running"
  BY DEF PoolInv, NoHoldAndWait, Grant, Become
<1>6. QED
  BY <1>1, <1>2, <1>3, <1>4, <1>5 DEF PoolInv, NoHoldAndWait, Grant

(* A handler that has done a section, or has not, ends or goes on.         *)
LEMMA Leaving ==
  ASSUME NEW h \in Handlers, Finish(h) \/ Fail(h) \/ GiveUp(h)
  PROVE  /\ phase[h] # "idle"
         /\ End(h) \/ GoOn(h)
         /\ \E p \in {"between", "idle"} : Become(h, p)
PROOF
<1>1. phase[h] # "idle"
  BY DEF Finish, Fail, GiveUp
<1>2. End(h) \/ GoOn(h)
  BY DEF Finish, Fail, GiveUp, Failed
<1>3. \E p \in {"between", "idle"} : Become(h, p)
  BY <1>2 DEF End, GoOn
<1>4. QED
  BY <1>1, <1>2, <1>3

(* At first nobody has a connection.                                       *)
LEMMA InitPool == Init => PoolInv
PROOF
<1>1. Cardinality({}) = 0 /\ IsFiniteSet({})
  BY FS_EmptySet
<1>2. QED
  BY <1>1, SizeAssumption DEF Init, PoolInv, NoHoldAndWait, Phases

(* PoolInv is inductive.                                                   *)
LEMMA StepPool ==
  ASSUME PoolInv, [Next]_vars
  PROVE  PoolInv'
PROOF
<1>1. CASE UNCHANGED vars
  BY <1>1 DEF vars, PoolInv, NoHoldAndWait
<1>2. CASE Grant
  BY <1>2, GrantKeeps
<1>3. ASSUME NEW h \in Handlers, NEW w \in Works, Start(h, w)
      PROVE  PoolInv'
  <2>1. phase[h] # "running" /\ Become(h, "between") /\ UNCHANGED <<connected, owner>>
    BY <1>3 DEF Start
  <2>2. QED
    BY <2>1, StillWithout DEF Phases
<1>4. ASSUME NEW h \in Handlers, Ask(h)
      PROVE  PoolInv'
  <2>1. phase[h] # "running" /\ Become(h, "waiting") /\ UNCHANGED <<connected, owner>>
    BY <1>4 DEF Ask
  <2>2. QED
    BY <2>1, StillWithout DEF Phases
<1>5. ASSUME NEW h \in Handlers, LockRow(h)
      PROVE  PoolInv'
  BY <1>5 DEF LockRow, PoolInv, NoHoldAndWait, Wants
<1>6. ASSUME NEW h \in Handlers, Finish(h) \/ Fail(h)
      PROVE  PoolInv'
  <2>1. PICK p \in {"between", "idle"} : Become(h, p)
    BY <1>6, Leaving
  <2>2. Return(h) /\ Unlock(h)
    BY <1>6 DEF Finish, Fail
  <2>3. p \in Phases \ {"running"}
    BY DEF Phases
  <2>4. QED
    BY <2>1, <2>2, <2>3, GivenBack
<1>7. ASSUME NEW h \in Handlers, BreakDeadlock(h)
      PROVE  PoolInv'
  BY <1>6, <1>7 DEF BreakDeadlock
<1>8. ASSUME NEW h \in Handlers, GiveUp(h)
      PROVE  PoolInv'
  <2>1. PICK p \in {"between", "idle"} : Become(h, p)
    BY <1>8, Leaving
  <2>2. phase[h] # "running" /\ UNCHANGED <<connected, owner>>
    BY <1>8 DEF GiveUp
  <2>3. p \in Phases \ {"running"}
    BY DEF Phases
  <2>4. QED
    BY <2>1, <2>2, <2>3, StillWithout
<1>9. QED
  BY <1>1, <1>2, <1>3, <1>4, <1>5, <1>6, <1>7, <1>8 DEF Next

-----------------------------------------------------------------------------
(* Who can go on                                                           *)

\* The queue is made of the handlers that wait, each once.
Queued ==
  /\ queue \in Seq(Handlers)
  /\ \A i, j \in 1..Len(queue) : queue[i] = queue[j] => i = j
  /\ \A h \in Handlers : phase[h] = "waiting" <=> \E i \in 1..Len(queue) : queue[i] = h

\* A busy handler is in one of the sections of its work.
InSection ==
  /\ work \in [Handlers -> Works \cup {<<>>}]
  /\ at \in [Handlers -> Nat]
  /\ \A h \in Handlers : phase[h] # "idle" =>
       work[h] \in Works /\ at[h] \in 1..Len(work[h])

\* A transaction has locked rows of its section only, and none without those
\* that come before it.
InOrder ==
  \A r \in Rows : owner[r] # None =>
    \E i \in 1..Len(Section(owner[r])) :
      /\ Section(owner[r])[i] = r
      /\ \A j \in 1..(i - 1) :
           Section(owner[r])[j] \in Rows /\ owner[Section(owner[r])[j]] = owner[r]

GoInv ==
  /\ connected \subseteq Handlers
  /\ Queued
  /\ InSection
  /\ InOrder

\* The sections that there are.
Kinds == {Plain, <<"token">>, <<"version">>, begin_publish} \cup Lists

(* They lock rows.                                                         *)
LEMMA KindsLockRows == Kinds \subseteq Seq(Rows)
PROOF
<1>1. "crate" \in Rows /\ "version" \in Rows /\ "token" \in Rows /\ Claims \subseteq Rows
  BY DEF Rows
<1> HIDE DEF Rows
<1>2. <<>> \in Seq(Rows) /\ \A r \in Rows : <<r>> \in Seq(Rows)
  BY EmptySeq
<1>3. <<"crate", "version">> \in Seq(Rows)
  BY <1>1
<1>4. ASSUME NEW list \in Lists
      PROVE  list \in Seq(Rows)
  <2>1. list \in Seq(Claims)
    BY ClaimAssumption
  <2> QED
    BY <1>1, <2>1
<1> QED
  BY <1>1, <1>2, <1>3, <1>4 DEF Kinds, Plain, begin_publish

(* Every work is made of these sections, those of the authentication first. *)
LEMMA WorksHaveSections ==
  \A w \in Works : /\ w \in Seq(Kinds) /\ Len(w) \in Nat \ {0}
                    /\ \A i \in 1..Len(w) : w[i] \in Kinds
PROOF
<1>1. /\ Plain \in Kinds /\ <<"token">> \in Kinds /\ <<"version">> \in Kinds
      /\ begin_publish \in Kinds /\ Lists \subseteq Kinds
  BY DEF Kinds
<1>2. finalize_publish \in Kinds /\ set_yanked \in Kinds
  BY <1>1 DEF finalize_publish, set_yanked
<1> HIDE DEF Kinds
<1>3. authenticate \in Seq(Kinds) /\ Len(authenticate) = 3
  BY <1>1 DEF authenticate
<1>4. ASSUME NEW rest \in Seq(Kinds)
      PROVE  /\ authenticate \o rest \in Seq(Kinds)
             /\ Len(authenticate \o rest) \in Nat \ {0}
             /\ \A i \in 1..Len(authenticate \o rest) :
                  (authenticate \o rest)[i] \in Kinds
  <2>1. /\ authenticate \o rest \in Seq(Kinds)
        /\ Len(authenticate \o rest) = Len(authenticate) + Len(rest)
    BY <1>3, ConcatProperties
  <2>2. Len(rest) \in Nat
    BY LenProperties
  <2>3. \A i \in 1..Len(authenticate \o rest) : (authenticate \o rest)[i] \in Kinds
    BY <2>1, ElementOfSeq
  <2> QED
    BY <1>3, <2>1, <2>2, <2>3
<1>5. <<>> \in Seq(Kinds) /\ \A k \in Kinds : <<k>> \in Seq(Kinds)
  BY EmptySeq
<1>6. \A k, l \in Kinds : <<k, l>> \in Seq(Kinds)
  OBVIOUS
<1>7. <<begin_publish>> \o mark_failed \in Seq(Kinds)
  <2>1. <<begin_publish>> \in Seq(Kinds) /\ mark_failed \in Seq(Kinds)
    BY <1>1, <1>5, <1>6 DEF mark_failed
  <2> QED
    BY <2>1, ConcatProperties
<1>8. \A o \in DOMAIN Sections : Sections[o] \in Seq(Kinds)
  <2>1. /\ <<Plain>> \in Seq(Kinds) /\ <<set_yanked>> \in Seq(Kinds)
        /\ <<begin_publish, finalize_publish>> \in Seq(Kinds)
        /\ <<Plain, Plain>> \in Seq(Kinds) /\ <<<<"token">>, Plain>> \in Seq(Kinds)
    BY <1>1, <1>2, <1>5, <1>6
  <2>2. /\ Sections.whoami \in Seq(Kinds) /\ Sections.search \in Seq(Kinds)
        /\ Sections.index \in Seq(Kinds) /\ Sections.download \in Seq(Kinds)
        /\ Sections.publish \in Seq(Kinds) /\ Sections.failing_publish \in Seq(Kinds)
        /\ Sections.yank \in Seq(Kinds) /\ Sections.create_token \in Seq(Kinds)
        /\ Sections.list_tokens \in Seq(Kinds) /\ Sections.get_token \in Seq(Kinds)
        /\ Sections.token_update \in Seq(Kinds)
    BY <1>5, <1>7, <2>1, Zenon DEF Sections
  <2>3. DOMAIN Sections = {"whoami", "search", "index", "download", "publish",
                           "failing_publish", "yank", "create_token", "list_tokens",
                           "get_token", "token_update"}
    BY Zenon DEF Sections
  <2> QED
    BY <2>2, <2>3
<1>9. \A list \in Lists : <<list>> \in Seq(Kinds)
  BY <1>1, <1>5
<1> QED
  BY <1>4, <1>8, <1>9, OperationAssumption DEF Works, replace_claims

(* What is left of a sequence without one of its elements.                 *)
LEMMA RemoveAtProperties ==
  ASSUME NEW S, NEW seq \in Seq(S), NEW i \in 1..Len(seq)
  PROVE  /\ RemoveAt(seq, i) \in Seq(S)
         /\ Len(RemoveAt(seq, i)) = Len(seq) - 1
         /\ \A j \in 1..(Len(seq) - 1) :
              RemoveAt(seq, i)[j] = IF j < i THEN seq[j] ELSE seq[j + 1]
PROOF
<1> DEFINE front == SubSeq(seq, 1, i - 1)
           back == SubSeq(seq, i + 1, Len(seq))
<1>1. Len(seq) \in Nat /\ \A j \in 1..Len(seq) : seq[j] \in S
  BY LenProperties, ElementOfSeq
<1>2. /\ front \in Seq(S) /\ Len(front) = i - 1
      /\ \A j \in 1..(i - 1) : front[j] = seq[j]
  <2>1. \A j \in 1..(i - 1) : seq[j] \in S
    BY <1>1
  <2>2. /\ front \in Seq(S)
        /\ Len(front) = IF 1 <= i - 1 THEN (i - 1) - 1 + 1 ELSE 0
        /\ \A j \in 1..((i - 1) - 1 + 1) : front[j] = seq[1 + j - 1]
    BY <2>1, SubSeqProperties
  <2> QED
    BY <2>2
<1>3. /\ back \in Seq(S) /\ Len(back) = Len(seq) - i
      /\ \A j \in 1..(Len(seq) - i) : back[j] = seq[i + j]
  <2>1. \A j \in (i + 1)..Len(seq) : seq[j] \in S
    BY <1>1
  <2>2. /\ back \in Seq(S)
        /\ Len(back) = IF i + 1 <= Len(seq) THEN Len(seq) - (i + 1) + 1 ELSE 0
        /\ \A j \in 1..(Len(seq) - (i + 1) + 1) : back[j] = seq[(i + 1) + j - 1]
    BY <1>1, <2>1, SubSeqProperties
  <2> QED
    BY <1>1, <2>2
<1>4. RemoveAt(seq, i) = front \o back
  BY DEF RemoveAt
<1> HIDE DEF front, back
<1>5. /\ front \o back \in Seq(S)
      /\ Len(front \o back) = Len(front) + Len(back)
      /\ \A j \in 1..(Len(front) + Len(back)) :
           (front \o back)[j] = IF j <= Len(front) THEN front[j] ELSE back[j - Len(front)]
  BY <1>2, <1>3, ConcatProperties
<1>6. ASSUME NEW j \in 1..(Len(seq) - 1)
      PROVE  (front \o back)[j] = IF j < i THEN seq[j] ELSE seq[j + 1]
  <2>1. CASE j < i
    <3>1. j \in 1..(i - 1) /\ j \in 1..(Len(front) + Len(back)) /\ j <= Len(front)
      BY <1>1, <1>2, <1>3, <2>1
    <3> QED
      BY <1>2, <1>5, <2>1, <3>1
  <2>2. CASE ~(j < i)
    <3>1. /\ j \in 1..(Len(front) + Len(back)) /\ ~(j <= Len(front))
          /\ j - Len(front) \in 1..(Len(seq) - i) /\ i + (j - Len(front)) = j + 1
      BY <1>1, <1>2, <1>3, <2>2
    <3> QED
      BY <1>3, <1>5, <2>2, <3>1
  <2> QED
    BY <2>1, <2>2
<1> QED
  BY <1>1, <1>2, <1>3, <1>4, <1>5, <1>6

(* A handler that neither waits for a connection nor starts to.            *)
LEMMA StillNotWaiting ==
  ASSUME PoolInv, Queued, NEW h \in Handlers, phase[h] # "waiting",
         NEW p \in Phases \ {"waiting"}, Become(h, p), UNCHANGED queue
  PROVE  Queued'
PROOF
<1>1. \A g \in Handlers : phase'[g] = "waiting" <=> phase[g] = "waiting"
  BY DEF PoolInv, Become, Phases
<1> QED
  BY <1>1 DEF Queued

(* The last of the queue is new in it.                                     *)
LEMMA AskQueues ==
  ASSUME PoolInv, Queued, NEW h \in Handlers, Ask(h)
  PROVE  Queued'
PROOF
<1>1. /\ queue' \in Seq(Handlers)
      /\ Len(queue') = Len(queue) + 1 /\ Len(queue) \in Nat
      /\ \A i \in 1..Len(queue) : queue'[i] = queue[i]
      /\ queue'[Len(queue) + 1] = h
  <2>1. queue' = Append(queue, h) /\ queue \in Seq(Handlers)
    BY DEF Ask, Queued
  <2> QED
    BY <2>1, AppendProperties, LenProperties
<1>2. \A i \in 1..Len(queue) : queue[i] # h
  BY DEF Queued, Ask
<1>3. \A g \in Handlers : phase'[g] = "waiting" <=> phase[g] = "waiting" \/ g = h
  BY DEF PoolInv, Ask, Become, Phases
<1>4. \A i, j \in 1..Len(queue') : queue'[i] = queue'[j] => i = j
  <2>1. \A i \in 1..Len(queue') : i \in 1..Len(queue) \/ i = Len(queue) + 1
    BY <1>1
  <2>2. \A i, j \in 1..Len(queue) : queue[i] = queue[j] => i = j
    BY DEF Queued
  <2> QED
    BY <1>1, <1>2, <2>1, <2>2
<1>5. ASSUME NEW g \in Handlers
      PROVE  phase'[g] = "waiting" <=> \E i \in 1..Len(queue') : queue'[i] = g
  <2>1. phase[g] = "waiting" <=> \E i \in 1..Len(queue) : queue[i] = g
    BY DEF Queued
  <2>2. \A i \in 1..Len(queue') : i \in 1..Len(queue) \/ i = Len(queue) + 1
    BY <1>1
  <2>3. /\ Len(queue) + 1 \in 1..Len(queue')
        /\ \A i \in 1..Len(queue) : i \in 1..Len(queue')
    BY <1>1
  <2> QED
    BY <1>1, <1>3, <2>1, <2>2, <2>3
<1> QED
  BY <1>1, <1>4, <1>5 DEF Queued

(* The first of the queue leaves it with a connection.                     *)
LEMMA GrantQueues ==
  ASSUME PoolInv, Queued, Grant
  PROVE  Queued' /\ Head(queue) \in Handlers /\ phase[Head(queue)] = "waiting"
PROOF
<1> DEFINE h == Head(queue)
<1>1. /\ queue' \in Seq(Handlers)
      /\ Len(queue') = Len(queue) - 1 /\ Len(queue) \in Nat \ {0}
      /\ \A i \in 1..(Len(queue) - 1) : queue'[i] = queue[i + 1]
      /\ h = queue[1] /\ h \in Handlers
  <2>1. queue' = Tail(queue) /\ queue \in Seq(Handlers) /\ queue # <<>>
    BY DEF Grant, Queued
  <2> QED
    BY <2>1, HeadTailProperties, EmptySeq
<1>2. Become(h, "running")
  BY DEF Grant
<1> HIDE DEF h
<1>3. phase[h] = "waiting"
  BY <1>1 DEF Queued
<1>4. \A g \in Handlers : phase'[g] = "waiting" <=> phase[g] = "waiting" /\ g # h
  BY <1>1, <1>2 DEF PoolInv, Become, Phases
<1>5. \A i \in 1..Len(queue') : i + 1 \in 1..Len(queue) /\ i + 1 # 1
  BY <1>1
<1>6. \A i, j \in 1..Len(queue') : queue'[i] = queue'[j] => i = j
  <2>1. \A i, j \in 1..Len(queue) : queue[i] = queue[j] => i = j
    BY DEF Queued
  <2> QED
    BY <1>1, <1>5, <2>1
<1>7. ASSUME NEW g \in Handlers
      PROVE  phase'[g] = "waiting" <=> \E i \in 1..Len(queue') : queue'[i] = g
  <2>1. ASSUME phase'[g] = "waiting"
        PROVE  \E i \in 1..Len(queue') : queue'[i] = g
    <3>1. PICK i \in 1..Len(queue) : queue[i] = g
      BY <1>4, <2>1 DEF Queued
    <3>2. i # 1
      BY <1>1, <1>4, <2>1, <3>1
    <3>3. i - 1 \in 1..Len(queue') /\ queue'[i - 1] = queue[(i - 1) + 1] /\ (i - 1) + 1 = i
      BY <1>1, <3>2
    <3> QED
      BY <3>1, <3>3
  <2>2. ASSUME NEW i \in 1..Len(queue'), queue'[i] = g
        PROVE  phase'[g] = "waiting"
    <3>1. queue[i + 1] = g /\ i + 1 \in 1..Len(queue) /\ i + 1 # 1 /\ 1 \in 1..Len(queue)
      BY <1>1, <1>5, <2>2
    <3>2. g # h
      BY <1>1, <3>1 DEF Queued
    <3> QED
      BY <1>4, <3>1, <3>2 DEF Queued
  <2> QED
    BY <2>1, <2>2
<1> QED
  BY <1>1, <1>3, <1>6, <1>7 DEF Queued, h

(* Whoever gives up leaves the queue, and the others keep their turn.      *)
LEMMA GiveUpQueues ==
  ASSUME PoolInv, Queued, NEW h \in Handlers, GiveUp(h)
  PROVE  Queued'
PROOF
<1>1. PICK p \in Phases \ {"waiting"} : Become(h, p)
  BY Leaving DEF Phases
<1>2. CASE phase[h] = "between" /\ UNCHANGED queue
  BY <1>1, <1>2, StillNotWaiting
<1>3. ASSUME NEW k \in DOMAIN queue, queue[k] = h, queue' = RemoveAt(queue, k)
      PROVE  Queued'
  <2>1. queue \in Seq(Handlers) /\ Len(queue) \in Nat /\ k \in 1..Len(queue)
    BY <1>3, LenProperties DEF Queued
  <2>2. /\ queue' \in Seq(Handlers)
        /\ Len(queue') = Len(queue) - 1
        /\ \A j \in 1..(Len(queue) - 1) :
             queue'[j] = IF j < k THEN queue[j] ELSE queue[j + 1]
    BY <1>3, <2>1, RemoveAtProperties
  <2> DEFINE from(j) == IF j < k THEN j ELSE j + 1
  <2>3. \A j \in 1..Len(queue') :
          from(j) \in 1..Len(queue) \ {k} /\ queue'[j] = queue[from(j)]
    BY <2>1, <2>2
  <2>4. \A i, j \in 1..Len(queue') : from(i) = from(j) => i = j
    BY <2>1, <2>2
  <2>5. \A i \in 1..Len(queue) \ {k} : \E j \in 1..Len(queue') : from(j) = i
    <3>1. ASSUME NEW i \in 1..Len(queue) \ {k}
          PROVE  \E j \in 1..Len(queue') : from(j) = i
      <4>1. CASE i < k
        <5>1. i \in 1..Len(queue') /\ from(i) = i
          BY <2>1, <2>2, <4>1
        <5> QED
          BY <5>1
      <4>2. CASE ~(i < k)
        <5>1. i - 1 \in 1..Len(queue') /\ from(i - 1) = i
          BY <2>1, <2>2, <4>2
        <5> QED
          BY <5>1
      <4> QED
        BY <4>1, <4>2
    <3> QED
      BY <3>1
  <2> HIDE DEF from
  <2>6. \A i, j \in 1..Len(queue) : queue[i] = queue[j] => i = j
    BY DEF Queued
  <2>7. \A i, j \in 1..Len(queue') : queue'[i] = queue'[j] => i = j
    BY <2>3, <2>4, <2>6
  <2>8. \A g \in Handlers : phase'[g] = "waiting" <=> phase[g] = "waiting" /\ g # h
    BY <1>1 DEF PoolInv, Become, Phases
  <2>9. ASSUME NEW g \in Handlers
        PROVE  phase'[g] = "waiting" <=> \E i \in 1..Len(queue') : queue'[i] = g
    <3>1. phase[g] = "waiting" <=> \E i \in 1..Len(queue) : queue[i] = g
      BY DEF Queued
    <3>2. (\E i \in 1..Len(queue') : queue'[i] = g) <=>
             \E i \in 1..Len(queue) \ {k} : queue[i] = g
      BY <2>3, <2>5
    <3>3. (\E i \in 1..Len(queue) \ {k} : queue[i] = g) <=>
             (\E i \in 1..Len(queue) : queue[i] = g) /\ g # h
      BY <1>3, <2>1, <2>6
    <3> QED
      BY <2>8, <3>1, <3>2, <3>3
  <2> QED
    BY <2>2, <2>7, <2>9 DEF Queued
<1> QED
  BY <1>2, <1>3 DEF GiveUp

(* A handler that ends is in no section, and one that goes on in its next. *)
LEMMA NextSection ==
  ASSUME InSection, phase \in [Handlers -> Phases], NEW h \in Handlers,
         phase[h] # "idle", End(h) \/ GoOn(h)
  PROVE  InSection'
PROOF
<1>1. CASE End(h)
  <2>1. /\ phase' = [phase EXCEPT ![h] = "idle"]
        /\ work' = [work EXCEPT ![h] = <<>>]
        /\ at' = [at EXCEPT ![h] = 0]
    BY <1>1 DEF End, Become
  <2>2. work' \in [Handlers -> Works \cup {<<>>}] /\ at' \in [Handlers -> Nat]
    BY <2>1 DEF InSection
  <2>3. ASSUME NEW g \in Handlers, phase'[g] # "idle"
        PROVE  work'[g] \in Works /\ at'[g] \in 1..Len(work'[g])
    <3>1. g # h /\ phase[g] # "idle" /\ work'[g] = work[g] /\ at'[g] = at[g]
      BY <2>1, <2>3 DEF InSection
    <3> QED
      BY <3>1 DEF InSection
  <2> QED
    BY <2>2, <2>3 DEF InSection
<1>2. CASE at[h] < Len(work[h]) /\ Become(h, "between")
             /\ at' = [at EXCEPT ![h] = @ + 1] /\ UNCHANGED work
  <2>1. work[h] \in Works /\ at[h] \in 1..Len(work[h])
    BY DEF InSection
  <2>2. Len(work[h]) \in Nat
    BY <2>1, WorksHaveSections
  <2>3. at[h] \in Nat /\ at[h] + 1 \in 1..Len(work[h])
    BY <1>2, <2>1, <2>2
  <2>4. /\ at' \in [Handlers -> Nat] /\ at'[h] = at[h] + 1
        /\ \A g \in Handlers : g # h => at'[g] = at[g] /\ phase'[g] = phase[g]
    BY <1>2, <2>3 DEF InSection, Become
  <2> QED
    BY <1>2, <2>1, <2>3, <2>4 DEF InSection
<1> QED
  BY <1>1, <1>2 DEF GoOn

(* Each step keeps busy handlers in sections of their works.               *)
LEMMA SectionsKept ==
  ASSUME PoolInv, GoInv, [Next]_vars
  PROVE  InSection'
PROOF
<1>1. phase \in [Handlers -> Phases] /\ InSection
  BY DEF PoolInv, GoInv
<1>2. CASE UNCHANGED vars
  BY <1>1, <1>2 DEF vars, InSection
<1>3. ASSUME NEW h \in Handlers, phase[h] # "idle", NEW p \in Phases, Become(h, p),
             UNCHANGED <<work, at>>
      PROVE  InSection'
  <2>1. \A g \in Handlers : phase'[g] # "idle" => phase[g] # "idle"
    BY <1>1, <1>3 DEF Become, Phases
  <2> QED
    BY <1>1, <1>3, <2>1 DEF InSection
<1>4. CASE Grant
  <2>1. Head(queue) \in Handlers /\ phase[Head(queue)] = "waiting"
    BY <1>4, GrantQueues DEF GoInv
  <2>2. Become(Head(queue), "running") /\ UNCHANGED <<work, at>>
    BY <1>4 DEF Grant
  <2> QED
    BY <1>3, <2>1, <2>2 DEF Phases
<1>5. ASSUME NEW h \in Handlers, NEW w \in Works, Start(h, w)
      PROVE  InSection'
  <2>1. /\ phase' = [phase EXCEPT ![h] = "between"]
        /\ work' = [work EXCEPT ![h] = w]
    BY <1>5 DEF Start, Become
  <2>2. PICK first \in {1, Len(authenticate) + 1} :
               first <= Len(w) /\ at' = [at EXCEPT ![h] = first]
    BY <1>5 DEF Start
  <2>3. Len(authenticate) = 3
    BY DEF authenticate
  <2>4. first \in Nat /\ first \in 1..Len(w)
    <3>1. Len(w) \in Nat
      BY WorksHaveSections
    <3> QED
      BY <2>2, <2>3, <3>1
  <2>5. work' \in [Handlers -> Works \cup {<<>>}] /\ at' \in [Handlers -> Nat]
    BY <1>1, <2>1, <2>2, <2>4 DEF InSection
  <2>6. ASSUME NEW g \in Handlers, phase'[g] # "idle"
        PROVE  work'[g] \in Works /\ at'[g] \in 1..Len(work'[g])
    <3>1. CASE g = h
      <4>1. work'[g] = w /\ at'[g] = first
        BY <1>1, <2>1, <2>2, <3>1 DEF InSection
      <4> QED
        BY <2>4, <4>1
    <3>2. CASE g # h
      <4>1. phase[g] # "idle" /\ work'[g] = work[g] /\ at'[g] = at[g]
        BY <1>1, <2>1, <2>2, <2>6, <3>2 DEF InSection
      <4> QED
        BY <1>1, <4>1 DEF InSection
    <3> QED
      BY <3>1, <3>2
  <2> QED
    BY <2>5, <2>6 DEF InSection
<1>6. ASSUME NEW h \in Handlers, Ask(h)
      PROVE  InSection'
  BY <1>3, <1>6 DEF Ask, Phases
<1>7. ASSUME NEW h \in Handlers, LockRow(h)
      PROVE  InSection'
  BY <1>1, <1>7 DEF LockRow, InSection
<1>8. ASSUME NEW h \in Handlers, Finish(h) \/ Fail(h) \/ GiveUp(h)
      PROVE  InSection'
  BY <1>1, <1>8, Leaving, NextSection
<1> QED
  BY <1>2, <1>4, <1>5, <1>6, <1>7, <1>8 DEF Next, BreakDeadlock

(* A running handler is in a section that locks rows.                      *)
LEMMA SectionLocksRows ==
  ASSUME GoInv, NEW h \in Handlers, phase[h] = "running"
  PROVE  Section(h) \in Kinds /\ Section(h) \in Seq(Rows)
PROOF
<1>1. work[h] \in Works /\ at[h] \in 1..Len(work[h])
  BY DEF GoInv, InSection
<1>2. Section(h) \in Kinds
  BY <1>1, WorksHaveSections DEF Section
<1>3. QED
  BY <1>2, KindsLockRows

(* The row that a transaction locks is the next of its section.            *)
LEMMA LocksNext ==
  ASSUME PoolInv, GoInv, NEW h \in Handlers, LockRow(h)
  PROVE  InOrder'
PROOF
<1>1. PICK r \in Rows : /\ Wants(h, r) /\ owner[r] = None
                        /\ owner' = [owner EXCEPT ![r] = h]
  BY DEF LockRow
<1>2. PICK k \in 1..Len(Section(h)) :
         Section(h)[k] = r /\ \A j \in 1..(k - 1) : owner[Section(h)[j]] = h
  BY <1>1 DEF Wants
<1>3. /\ owner \in [Rows -> Handlers \cup {None}] /\ h # None
      /\ \A q \in Rows : owner'[q] = IF q = r THEN h ELSE owner[q]
  <2>1. owner \in [Rows -> Handlers \cup {None}] /\ h # None
    BY NoneAssumption DEF PoolInv
  <2> QED
    BY <1>1, <2>1
<1>4. \A g : Section(g)' = Section(g)
  BY DEF LockRow, Section
<1>5. ASSUME NEW q \in Rows, owner'[q] # None
      PROVE  \E i \in 1..Len(Section(owner'[q])) :
               /\ Section(owner'[q])[i] = q
               /\ \A j \in 1..(i - 1) : /\ Section(owner'[q])[j] \in Rows
                                        /\ owner'[Section(owner'[q])[j]] = owner'[q]
  <2>1. CASE q = r
    <3>1. \A j \in 1..(k - 1) : Section(h)[j] \in Rows
      <4>1. Section(h) \in Seq(Rows)
        BY <1>1, SectionLocksRows DEF Wants
      <4>2. Len(Section(h)) \in Nat /\ \A j \in 1..(k - 1) : j \in 1..Len(Section(h))
        BY <4>1, LenProperties
      <4> QED
        BY <4>1, <4>2, ElementOfSeq
    <3> QED
      BY <1>1, <1>2, <1>3, <2>1, <3>1
  <2>2. CASE q # r
    <3>1. owner'[q] = owner[q]
      BY <1>3, <2>2
    <3>2. PICK i \in 1..Len(Section(owner[q])) :
             /\ Section(owner[q])[i] = q
             /\ \A j \in 1..(i - 1) : /\ Section(owner[q])[j] \in Rows
                                      /\ owner[Section(owner[q])[j]] = owner[q]
      BY <1>5, <3>1 DEF GoInv, InOrder
    <3> QED
      BY <1>1, <1>3, <1>5, <3>1, <3>2
  <2> QED
    BY <2>1, <2>2
<1> QED
  BY <1>4, <1>5 DEF InOrder

(* Whoever has a row locked stays in its section as long as it has.        *)
LEMMA RowsKept ==
  ASSUME PoolInv, GoInv, [Next]_vars
  PROVE  InOrder'
PROOF
<1>1. /\ phase \in [Handlers -> Phases]
      /\ work \in [Handlers -> Works \cup {<<>>}] /\ at \in [Handlers -> Nat]
      /\ owner \in [Rows -> Handlers \cup {None}]
      /\ \A r \in Rows : owner[r] # None =>
           owner[r] \in Handlers /\ phase[owner[r]] = "running"
      /\ InOrder
  BY DEF PoolInv, NoHoldAndWait, GoInv, InSection
<1>2. CASE UNCHANGED <<work, at, owner>>
  BY <1>1, <1>2 DEF InOrder, Section
<1>3. ASSUME NEW h \in Handlers,
             \A g \in Handlers : g # h => work'[g] = work[g] /\ at'[g] = at[g],
             \A r \in Rows : owner[r] # h => owner'[r] = owner[r],
             \A r \in Rows : owner'[r] # None => owner'[r] = owner[r] /\ owner[r] # h
      PROVE  InOrder'
  <2>1. ASSUME NEW r \in Rows, owner'[r] # None
        PROVE  \E i \in 1..Len(Section(owner[r])) :
                 /\ Section(owner[r])[i] = r
                 /\ \A j \in 1..(i - 1) : /\ Section(owner[r])[j] \in Rows
                                          /\ owner'[Section(owner[r])[j]] = owner[r]
    <3>1. owner[r] # None /\ owner[r] # h
      BY <1>3, <2>1
    <3>2. PICK i \in 1..Len(Section(owner[r])) :
             /\ Section(owner[r])[i] = r
             /\ \A j \in 1..(i - 1) : /\ Section(owner[r])[j] \in Rows
                                      /\ owner[Section(owner[r])[j]] = owner[r]
      BY <1>1, <3>1 DEF InOrder
    <3> QED
      BY <1>3, <3>1, <3>2
  <2>2. ASSUME NEW r \in Rows, owner'[r] # None
        PROVE  owner'[r] = owner[r] /\ Section(owner[r])' = Section(owner[r])
    <3>1. owner[r] \in Handlers /\ owner[r] # h /\ owner'[r] = owner[r]
      BY <1>1, <1>3, <2>2
    <3>2. work'[owner[r]] = work[owner[r]] /\ at'[owner[r]] = at[owner[r]]
      BY <1>3, <3>1
    <3> QED
      BY <3>1, <3>2 DEF Section
  <2>3. ASSUME NEW r \in Rows, owner'[r] # None
        PROVE  \E i \in 1..Len(Section(owner[r])') :
                 /\ Section(owner[r])'[i] = r
                 /\ \A j \in 1..(i - 1) : /\ Section(owner[r])'[j] \in Rows
                                          /\ owner'[Section(owner[r])'[j]] = owner'[r]
    BY <2>1, <2>2, <2>3
  <2>4. ASSUME NEW r \in Rows, owner'[r] # None
        PROVE  Section(owner[r])' = work'[owner'[r]][at'[owner'[r]]]
    BY <2>2, <2>4 DEF Section
  <2> QED
    BY <2>3, <2>4 DEF InOrder, Section
<1>4. ASSUME NEW h \in Handlers, NEW w \in Works, Start(h, w)
      PROVE  InOrder'
  <2>1. \A g \in Handlers : g # h => work'[g] = work[g] /\ at'[g] = at[g]
    BY <1>1, <1>4 DEF Start
  <2>2. \A r \in Rows : owner[r] # h \/ owner[r] = None
    BY <1>1, <1>4 DEF Start
  <2>3. owner' = owner
    BY <1>4 DEF Start
  <2> QED
    BY <1>3, <2>1, <2>2, <2>3
<1>5. ASSUME NEW h \in Handlers, LockRow(h)
      PROVE  InOrder'
  BY <1>1, <1>5, LocksNext
<1>6. ASSUME NEW h \in Handlers, Finish(h) \/ Fail(h) \/ GiveUp(h)
      PROVE  \A g \in Handlers : g # h => work'[g] = work[g] /\ at'[g] = at[g]
  BY <1>1, <1>6, Leaving DEF End, GoOn
<1>7. ASSUME NEW h \in Handlers, Finish(h) \/ Fail(h)
      PROVE  InOrder'
  <2>1. Unlock(h)
    BY <1>7 DEF Finish, Fail
  <2>2. \A r \in Rows : owner'[r] = IF owner[r] = h THEN None ELSE owner[r]
    BY <2>1 DEF Unlock
  <2>3. \A r \in Rows : owner'[r] # None => owner'[r] = owner[r] /\ owner[r] # h
    BY <2>2
  <2>4. \A g \in Handlers : g # h => work'[g] = work[g] /\ at'[g] = at[g]
    BY <1>6, <1>7
  <2>5. \A r \in Rows : owner[r] # h => owner'[r] = owner[r]
    BY <2>2
  <2> QED
    BY <1>3, <2>3, <2>4, <2>5
<1>8. ASSUME NEW h \in Handlers, GiveUp(h)
      PROVE  InOrder'
  <2>1. \A r \in Rows : owner[r] # h \/ owner[r] = None
    BY <1>1, <1>8 DEF GiveUp
  <2>2. \A g \in Handlers : g # h => work'[g] = work[g] /\ at'[g] = at[g]
    BY <1>6, <1>8
  <2>3. owner' = owner
    BY <1>8 DEF GiveUp
  <2> QED
    BY <1>3, <2>1, <2>2, <2>3
<1>9. Grant \/ UNCHANGED vars \/ (\E h \in Handlers : Ask(h)) => UNCHANGED <<work, at, owner>>
  BY DEF Grant, Ask, vars
<1> QED
  BY <1>2, <1>4, <1>5, <1>7, <1>8, <1>9 DEF Next, BreakDeadlock

(* GoInv is inductive, given PoolInv.                                      *)
LEMMA StepGo ==
  ASSUME PoolInv, GoInv, [Next]_vars
  PROVE  GoInv'
PROOF
<1>1. connected' \subseteq Handlers
  <2>1. CASE Grant
    BY <2>1, GrantQueues DEF GoInv, Grant
  <2>2. CASE ~Grant
    BY <2>2 DEF GoInv, Next, vars, Start, Ask, LockRow, Finish, BreakDeadlock, Fail,
                GiveUp, Return
  <2> QED
    BY <2>1, <2>2
<1>2. Queued'
  <2>1. CASE UNCHANGED <<phase, queue>>
    BY <2>1 DEF GoInv, Queued
  <2>2. CASE Grant
    BY <2>2, GrantQueues DEF GoInv
  <2>3. ASSUME NEW h \in Handlers, NEW w \in Works, Start(h, w)
        PROVE  Queued'
    BY <2>3, StillNotWaiting DEF GoInv, Start, Phases
  <2>4. ASSUME NEW h \in Handlers, Ask(h)
        PROVE  Queued'
    BY <2>4, AskQueues DEF GoInv
  <2>5. ASSUME NEW h \in Handlers, Finish(h) \/ Fail(h)
        PROVE  Queued'
    <3>1. phase[h] # "waiting" /\ UNCHANGED queue
      BY <2>5 DEF Finish, Fail
    <3>2. PICK p \in {"between", "idle"} : Become(h, p)
      BY <2>5, Leaving
    <3> QED
      BY <3>1, <3>2, StillNotWaiting DEF GoInv, Phases
  <2>6. ASSUME NEW h \in Handlers, GiveUp(h)
        PROVE  Queued'
    BY <2>6, GiveUpQueues DEF GoInv
  <2> QED
    BY <2>1, <2>2, <2>3, <2>4, <2>5, <2>6 DEF Next, vars, LockRow, BreakDeadlock
<1>3. InSection' /\ InOrder'
  BY SectionsKept, RowsKept
<1> QED
  BY <1>1, <1>2, <1>3 DEF GoInv

(* If no handler goes on and the pool has no connection to give, those that *)
(* have one wait for each other's rows.                                    *)
LEMMA WhoGoesOn ==
  ASSUME PoolInv, GoInv
  PROVE  SomebodyGoesOn
PROOF
<1> SUFFICES ASSUME NEW busy \in Handlers, phase[busy] # "idle",
                    \A h \in Handlers : ~GoesOn(h),
                    ~(queue # <<>> /\ Cardinality(connected) < Size)
             PROVE  \E h \in Handlers : Deadlocked(h)
  BY DEF SomebodyGoesOn
<1>1. \A h \in Handlers : phase[h] \in {"idle", "waiting", "running"}
  BY DEF PoolInv, GoesOn, Phases
<1>2. connected # {}
  <2>1. CASE phase[busy] = "running"
    BY <2>1 DEF PoolInv, NoHoldAndWait
  <2>2. CASE phase[busy] = "waiting"
    <3>1. PICK i \in 1..Len(queue) : queue[i] = busy
      BY <2>2 DEF GoInv, Queued
    <3>2. queue # <<>>
      BY <3>1, EmptySeq
    <3>3. ~(Cardinality(connected) < Size)
      BY <3>2
    <3>4. connected = {} => Cardinality(connected) = 0
      BY FS_EmptySet, Zenon
    <3>5. Cardinality(connected) = 0 => FALSE
      BY <3>3, SizeAssumption
    <3> QED
      BY <3>4, <3>5
  <2> QED
    BY <1>1, <2>1, <2>2
<1>3. ASSUME NEW g \in connected
      PROVE  \E other \in connected : WaitsFor(g, other)
  <2>1. g \in Handlers /\ phase[g] = "running"
    BY DEF GoInv, PoolInv, NoHoldAndWait
  <2>2. PICK r \in Rows : Wants(g, r) /\ owner[r] # None
    BY <2>1 DEF GoesOn
  <2>3. owner[r] \in connected
    BY <2>2 DEF PoolInv, NoHoldAndWait
  <2> QED
    BY <2>2, <2>3 DEF WaitsFor
<1>4. PICK h \in connected : TRUE
  BY <1>2
<1>5. h \in Handlers
  BY DEF GoInv
<1>6. Deadlocked(h)
  BY <1>3 DEF Deadlocked
<1> QED
  BY <1>5, <1>6

(* Whoever has the last row of its section waits for nobody.               *)
LEMMA HolderWantsMore ==
  ASSUME PoolInv, GoInv, NEW g, NEW other, NEW r \in Rows \ Claims,
         owner[r] = other, other \in connected, \E q \in Rows : Wants(other, q)
  PROVE  r = "crate" /\ \A q \in Rows : Wants(other, q) => q = "version"
PROOF
<1>1. /\ other \in Handlers /\ other # None
      /\ work[other] \in Works /\ at[other] \in 1..Len(work[other])
  BY NoneAssumption DEF GoInv, PoolInv, NoHoldAndWait, InSection
<1>2. Section(other) \in Kinds
  BY <1>1, WorksHaveSections DEF Section
<1>3. PICK i \in 1..Len(Section(other)) :
         /\ Section(other)[i] = r
         /\ \A j \in 1..(i - 1) : owner[Section(other)[j]] = other
  BY <1>1 DEF GoInv, InOrder
<1>4. PICK q \in Rows : Wants(other, q)
  OBVIOUS
<1>5. PICK k \in 1..Len(Section(other)) : Section(other)[k] = q /\ owner[q] # other
  BY <1>4 DEF Wants
<1>6. Section(other) \notin Lists
  <2>1. ASSUME Section(other) \in Seq(Claims)
        PROVE  Section(other)[i] \in Claims
    BY <2>1, ElementOfSeq
  <2> QED
    BY <1>3, <2>1, ClaimAssumption
<1>7. ASSUME NEW row, Section(other) = <<row>>
      PROVE  FALSE
  BY <1>3, <1>5, <1>7
<1>8. Section(other) # Plain
  BY <1>3 DEF Plain
<1>9. Section(other) = <<"crate", "version">>
  BY <1>2, <1>6, <1>7, <1>8 DEF Kinds, begin_publish
<1>10. i = 1
  <2>1. i \in {1, 2} /\ k \in {1, 2}
    BY <1>3, <1>5, <1>9
  <2>2. i # 2
    BY <1>3, <1>5, <1>9, <2>1
  <2> QED
    BY <2>1, <2>2
<1>11. r = "crate"
  BY <1>3, <1>9, <1>10
<1>12. ASSUME NEW p \in Rows, Wants(other, p)
       PROVE  p = "version"
  <2>1. PICK l \in 1..Len(Section(other)) : Section(other)[l] = p /\ owner[p] # other
    BY <1>12 DEF Wants
  <2>2. l \in {1, 2}
    BY <1>9, <2>1
  <2> QED
    BY <1>9, <1>11, <2>1, <2>2
<1> QED
  BY <1>11, <1>12

(* In a circle nobody waits for a version or a token, since who has it     *)
(* wants no more, and so nobody for a crate, since who has it could only   *)
(* wait for the version.                                                   *)
LEMMA WhoDeadlocks ==
  ASSUME PoolInv, GoInv
  PROVE  OnlyReplacementsDeadlock
PROOF
<1> SUFFICES ASSUME NEW h \in Handlers, NEW S \in SUBSET connected, h \in S,
                    \A g \in S : \E other \in S : WaitsFor(g, other)
             PROVE  Section(h) \in Lists
  BY DEF OnlyReplacementsDeadlock, Deadlocked
<1>1. ASSUME NEW g \in S, NEW r \in Rows \ Claims, Wants(g, r), owner[r] \in S
      PROVE  r = "crate" /\ \A q \in Rows : Wants(owner[r], q) => q = "version"
  <2>1. \E q \in Rows : Wants(owner[r], q)
    BY <1>1 DEF WaitsFor
  <2> QED
    BY <1>1, <2>1, HolderWantsMore
<1>2. ASSUME NEW g \in S, NEW r \in Rows, Wants(g, r), owner[r] \in S
      PROVE  r \in Claims
  <2> SUFFICES ASSUME r \notin Claims
               PROVE  FALSE
    OBVIOUS
  <2>1. \A q \in Rows : Wants(owner[r], q) => q = "version"
    BY <1>1, <1>2
  <2>2. PICK q \in Rows : Wants(owner[r], q) /\ owner[q] \in S
    BY <1>2 DEF WaitsFor
  <2>3. q = "version" /\ q \notin Claims
    BY <2>1, <2>2, ClaimAssumption
  <2>4. q = "crate"
    BY <1>1, <1>2, <2>2, <2>3
  <2> QED
    BY <2>3, <2>4
<1>3. PICK r \in Claims : Wants(h, r)
  <2>1. PICK other \in S : WaitsFor(h, other)
    OBVIOUS
  <2>2. PICK r \in Rows : Wants(h, r) /\ owner[r] = other
    BY <2>1 DEF WaitsFor
  <2> QED
    BY <1>2, <2>1, <2>2
<1>4. work[h] \in Works /\ at[h] \in 1..Len(work[h])
  BY DEF GoInv, PoolInv, NoHoldAndWait, InSection
<1>5. Section(h) \in Kinds
  BY <1>4, WorksHaveSections DEF Section
<1>6. PICK i \in 1..Len(Section(h)) : Section(h)[i] = r
  BY <1>3 DEF Wants
<1>7. r \notin {"crate", "version", "token"}
  BY ClaimAssumption
<1>8. Section(h) \notin {Plain, <<"token">>, <<"version">>, begin_publish}
  BY <1>6, <1>7 DEF Plain, begin_publish
<1> QED
  BY <1>5, <1>8 DEF Kinds

-----------------------------------------------------------------------------
(* However many handlers share however few connections: locks are held by  *)
(* handlers that can go on, and nobody waits for a connection with one in  *)
(* hand.                                                                   *)
THEOREM NobodyHoldsAndWaits == Spec => []NoHoldAndWait
PROOF
<1>1. Init => PoolInv
  BY InitPool
<1>2. PoolInv /\ [Next]_vars => PoolInv'
  BY StepPool
<1>3. PoolInv => NoHoldAndWait
  BY DEF PoolInv
<1>4. QED
  BY <1>1, <1>2, <1>3, PTL DEF Spec

(* At first no handler is in a section.                                    *)
LEMMA InitGo == Init => GoInv
PROOF
<1>1. <<>> \in Seq(Handlers) /\ Len(<<>>) = 0
  BY EmptySeq
<1> QED
  BY <1>1 DEF Init, GoInv, Queued, InSection, InOrder

(* However many operations of however many handlers: if all of them wait   *)
(* for connections and locks, then the pool or Postgres sees it.           *)
THEOREM SomebodyAlwaysGoesOn == Spec => []SomebodyGoesOn
PROOF
<1>1. Init => PoolInv /\ GoInv
  BY InitPool, InitGo
<1>2. PoolInv /\ GoInv /\ [Next]_vars => PoolInv' /\ GoInv'
  BY StepPool, StepGo
<1>3. PoolInv /\ GoInv => SomebodyGoesOn
  BY WhoGoesOn
<1>4. QED
  BY <1>1, <1>2, <1>3, PTL DEF Spec

(* However many claims in whatever order the replacements lock: all that   *)
(* deadlock are replacements.                                              *)
THEOREM ReplacementsAloneDeadlock == Spec => []OnlyReplacementsDeadlock
PROOF
<1>1. Init => PoolInv /\ GoInv
  BY InitPool, InitGo
<1>2. PoolInv /\ GoInv /\ [Next]_vars => PoolInv' /\ GoInv'
  BY StepPool, StepGo
<1>3. PoolInv /\ GoInv => OnlyReplacementsDeadlock
  BY WhoDeadlocks
<1>4. QED
  BY <1>1, <1>2, <1>3, PTL DEF Spec
=============================================================================
