--------------------------- MODULE StartupProofs ----------------------------
(***************************************************************************)
(* Any number of replicas, and any number of stops from outside.           *)
(***************************************************************************)
EXTENDS Startup, TLAPS

Phases == {"connecting", "applying", "creating", "serving", "exited"}

Objects == Applied(Len(SCHEMA))

\* A replica has seen, or made, everything before the statement it is at.
Progress(r) ==
  /\ statement[r] \in 1..Len(SCHEMA) + 1
  /\ Applied(statement[r] - 1) \subseteq catalog
  /\ pc[r] = "creating" => statement[r] <= Len(SCHEMA)
  /\ pc[r] = "serving" => statement[r] = Len(SCHEMA) + 1

\* A replica that is up and about to create nothing that has come to exist in
\* the meantime: the one that was last to create something stays one.
Sound(r) ==
  /\ pc[r] # "exited"
  /\ pc[r] = "creating" => Creatable(SCHEMA[statement[r]])

\* Nothing refers to what a later statement makes.
OrderIsSound ==
  \A i \in 1..Len(SCHEMA) : References(SCHEMA[i]) \subseteq Applied(i - 1)

StartupInv ==
  /\ pc \in [Replicas -> Phases]
  /\ statement \in [Replicas -> Nat]
  /\ catalog \subseteq Objects
  /\ crashes \in Nat
  /\ \A r \in Replicas : Progress(r)
  /\ crashes = 0 => \E r \in Replicas : Sound(r)

-----------------------------------------------------------------------------
(* schema.rs creates every table before the tables and indexes that need   *)
(* it.                                                                     *)
LEMMA SchemaInOrder ==
  /\ Len(SCHEMA) = 8
  /\ OrderIsSound
PROOF
<1>1. Len(SCHEMA) = 8
  BY DEF SCHEMA
<1>2. ASSUME NEW i \in 1..8
      PROVE  References(SCHEMA[i]) \subseteq Applied(i - 1)
  <2>1. SCHEMA[1] = "tokens" /\ SCHEMA[3] = "crates" /\ SCHEMA[2] = "token_claims"
        /\ SCHEMA[4] = "crate_versions"
    BY DEF SCHEMA
  <2>2. CASE i = 1
    BY <2>2, <2>1 DEF References
  <2>3. CASE i = 2
    <3>1. SCHEMA[1] \in Applied(i - 1)
      BY <2>3 DEF Applied
    <3>2. QED
      BY <3>1, <2>3, <2>1 DEF References
  <2>4. CASE i = 3
    BY <2>4, <2>1 DEF References
  <2>5. CASE i = 4
    <3>1. SCHEMA[3] \in Applied(i - 1)
      BY <2>5 DEF Applied
    <3>2. QED
      BY <3>1, <2>5, <2>1 DEF References
  <2>6. CASE i = 5
    <3>1. SCHEMA[5] = "registry_events"
      BY DEF SCHEMA
    <3>2. QED
      BY <3>1, <2>6 DEF References
  <2>7. CASE i = 6
    <3>1. SCHEMA[2] \in Applied(i - 1)
      BY <2>7 DEF Applied
    <3>2. SCHEMA[6] = "idx_token_claims_token_id"
      BY DEF SCHEMA
    <3>3. QED
      BY <3>1, <3>2, <2>7, <2>1 DEF References
  <2>8. CASE i \in {7, 8}
    <3>1. SCHEMA[4] \in Applied(i - 1)
      BY <2>8 DEF Applied
    <3>2. SCHEMA[7] = "idx_crate_versions_crate_id"
          /\ SCHEMA[8] = "idx_crate_versions_ready"
      BY DEF SCHEMA
    <3>3. QED
      BY <3>1, <3>2, <2>8, <2>1 DEF References
  <2>9. QED
    BY <2>2, <2>3, <2>4, <2>5, <2>6, <2>7, <2>8
<1>3. QED
  BY <1>1, <1>2 DEF OrderIsSound

(* Who has come past one more statement, has everything up to it.          *)
LEMMA AppliedNext ==
  ASSUME NEW n \in Nat \ {0}
  PROVE  Applied(n) = Applied(n - 1) \cup {SCHEMA[n]}
PROOF BY DEF Applied

(* The inductive invariant holds at first, whatever prefix of the schema   *)
(* there is,                                                               *)
LEMMA InitStartup ==
  ASSUME Init
  PROVE  StartupInv
PROOF
<1>1. ASSUME NEW r \in Replicas
      PROVE  Progress(r)
  <2>1. statement[r] = 1 /\ pc[r] = "connecting"
    BY DEF Init
  <2>2. statement[r] - 1 = 0
    BY <2>1
  <2>3. Applied(0) = {}
    BY DEF Applied
  <2>4. Applied(statement[r] - 1) = {}
    BY <2>2, <2>3
  <2>5. QED
    BY <2>1, <2>4, SchemaInOrder DEF Progress
<1>2. catalog \subseteq Objects
  BY SchemaInOrder DEF Init, Objects, Applied
<1>3. \E r \in Replicas : Sound(r)
  BY ReplicaAssumption DEF Init, Sound
<1>4. QED
  BY <1>1, <1>2, <1>3 DEF Init, StartupInv, Phases

(* Replicas that a step leaves alone keep what they have seen.             *)
LEMMA OthersProgress ==
  ASSUME NEW r \in Replicas, Progress(r), catalog \subseteq catalog',
         pc'[r] = pc[r], statement'[r] = statement[r]
  PROVE  Progress(r)'
PROOF BY DEF Progress, Applied

(* each step keeps it,                                                     *)
LEMMA StepStartup ==
  ASSUME StartupInv, [Next]_vars
  PROVE  StartupInv'
PROOF
<1> USE DEF Become
<1>1. CASE UNCHANGED vars
  BY <1>1 DEF vars, StartupInv, Progress, Sound, Creatable
<1>2. ASSUME NEW q \in Replicas, Start(q) \/ Crash(q) \/ Restart(q)
      PROVE  StartupInv'
  <2> DEFINE Own == /\ pc' \in [Replicas -> Phases]
                    /\ statement' \in [Replicas -> Nat]
                    /\ crashes' \in Nat
                    /\ catalog \subseteq catalog' /\ catalog' \subseteq Objects
                    /\ \A r \in Replicas \ {q} :
                         pc'[r] = pc[r] /\ statement'[r] = statement[r]
                    /\ Progress(q)'
                    /\ crashes' = 0 => \E r \in Replicas : Sound(r)'
  <2> USE DEF StartupInv, Phases
  <2>0. Progress(q) /\ Len(SCHEMA) = 8
    BY SchemaInOrder
  <2>1. ASSUME Connect(q)
        PROVE  Own
    BY <2>0, <2>1 DEF Connect, Progress, Sound, Creatable
  <2>2. ASSUME Skip(q)
        PROVE  Own
    <3>1. Applied(statement[q]) = Applied(statement[q] - 1) \cup {SCHEMA[statement[q]]}
      BY <2>0, AppliedNext DEF Progress
    <3>2. Progress(q)'
      BY <3>1, <2>0, <2>2 DEF Skip, Exists, Progress, Applied
    <3>3. crashes' = 0 => \E r \in Replicas : Sound(r)'
      BY <2>2 DEF Skip, Sound, Creatable
    <3>4. QED
      BY <3>2, <3>3, <2>0, <2>2 DEF Skip
  <2>3. ASSUME Begin(q)
        PROVE  Own
    <3>1. References(SCHEMA[statement[q]]) \subseteq catalog
      BY <2>0, <2>3, SchemaInOrder DEF Begin, Progress, OrderIsSound
    <3>2. Sound(q)'
      BY <3>1, <2>3 DEF Begin, Exists, Sound, Creatable
    <3>3. Progress(q)'
      BY <2>0, <2>3 DEF Begin, Progress, Applied
    <3>4. QED
      BY <3>2, <3>3, <2>3 DEF Begin
  <2>4. ASSUME Create(q)
        PROVE  Own
    <3>1. Applied(statement[q]) = Applied(statement[q] - 1) \cup {SCHEMA[statement[q]]}
      BY <2>0, AppliedNext DEF Progress
    <3>2. SCHEMA[statement[q]] \in Objects
      BY <2>0, <2>4 DEF Create, Progress, Objects, Applied
    <3>3. Progress(q)'
      BY <3>1, <2>0, <2>4 DEF Create, Progress, Applied
    <3>4. Sound(q)'
      BY <2>4 DEF Create, Sound
    <3>5. catalog' \subseteq Objects
      BY <3>2, <2>4 DEF Create, Objects, Applied
    <3>6. QED
      BY <3>3, <3>4, <3>5, <2>4 DEF Create
  <2>5. ASSUME Panic(q)
        PROVE  Own
    <3>1. ~Sound(q)
      BY <2>5 DEF Panic, Sound
    <3>2. ASSUME crashes = 0
          PROVE  \E r \in Replicas : Sound(r)'
      <4>1. PICK r \in Replicas : Sound(r)
        BY <3>2
      <4>2. r # q
        BY <4>1, <3>1
      <4>3. Sound(r)'
        BY <4>1, <4>2, <2>5 DEF Panic, Sound, Creatable
      <4>4. QED
        BY <4>3
    <3>3. Progress(q)'
      BY <2>0, <2>5 DEF Panic, Progress, Applied
    <3>4. QED
      BY <3>2, <3>3, <2>5 DEF Panic
  <2>6. ASSUME Serve(q)
        PROVE  Own
    <3>1. Progress(q)'
      BY <2>0, <2>6 DEF Serve, Progress, Applied
    <3>2. Sound(q)'
      BY <2>6 DEF Serve, Sound
    <3>3. QED
      BY <3>1, <3>2, <2>6 DEF Serve
  <2>7. ASSUME Crash(q)
        PROVE  Own
    <3>1. Progress(q)'
      BY <2>0, <2>7 DEF Crash, Progress, Applied
    <3>2. QED
      BY <3>1, <2>7 DEF Crash
  <2>8. ASSUME Restart(q)
        PROVE  Own
    <3>1. Progress(q)'
      BY <2>8, <2>0 DEF Restart, Progress, Applied
    <3>2. Sound(q)'
      BY <2>8 DEF Restart, Sound
    <3>3. QED
      BY <3>1, <3>2, <2>8 DEF Restart
  <2>9. Own
    BY <1>2, <2>1, <2>2, <2>3, <2>4, <2>5, <2>6, <2>7, <2>8 DEF Start
  <2>10. \A r \in Replicas : Progress(r)'
    BY <2>9, OthersProgress
  <2>11. QED
    BY <2>9, <2>10
<1>3. QED
  BY <1>1, <1>2 DEF Next

(* and so it always holds.                                                 *)
LEMMA StartupInvariant == Spec => []StartupInv
PROOF
<1>1. QED
  BY InitStartup, StepStartup, PTL DEF Spec

-----------------------------------------------------------------------------
(* However many replicas start, stop and panic: none serves before all     *)
(* tables and indexes are there.                                           *)
THEOREM SchemaIsFull == Spec => []ServesOnlyFullSchema
PROOF
<1>1. StartupInv => ServesOnlyFullSchema
  <2> SUFFICES ASSUME StartupInv, NEW r \in Replicas, pc[r] = "serving"
               PROVE  catalog = Applied(Len(SCHEMA))
    BY DEF ServesOnlyFullSchema
  <2>1. Progress(r) /\ catalog \subseteq Objects
    BY DEF StartupInv
  <2>2. statement[r] - 1 = Len(SCHEMA)
    BY <2>1, SchemaInOrder DEF Progress
  <2>3. Applied(statement[r] - 1) = Applied(Len(SCHEMA))
    BY <2>2
  <2>4. QED
    BY <2>1, <2>3 DEF Progress, Objects
<1>2. QED
  BY <1>1, StartupInvariant, PTL

(* Replicas cannot all make each other panic, however many start at once.  *)
THEOREM OneSurvives == Spec => []OneGetsThrough
PROOF
<1>1. StartupInv => OneGetsThrough
  BY DEF StartupInv, OneGetsThrough, Sound
<1>2. QED
  BY <1>1, StartupInvariant, PTL
=============================================================================
