------------------------------ MODULE Startup -------------------------------
(***************************************************************************)
(* Replicas start, apply the schema statement by statement, and serve.     *)
(* Nothing keeps them from doing so at the same time.                      *)
(***************************************************************************)
EXTENDS Naturals, Sequences

CONSTANTS
  Replicas,
  MaxCrashes   \* bound on stops from outside, and on failures to connect or bind

ASSUME ReplicaAssumption == Replicas # {}
ASSUME CrashAssumption == MaxCrashes \in Nat

VARIABLES
  pc,         \* "connecting", "applying", "creating", "serving" or "exited"
  statement,  \* the statement of the schema a replica is at
  catalog,    \* the tables and indexes there are
  crashes

vars == <<pc, statement, catalog, crashes>>

\* token_claims comes before the table it references.
SCHEMA_claims_first ==
  <<"token_claims", "tokens", "crates", "crate_versions", "registry_events",
    "idx_token_claims_token_id", "idx_crate_versions_crate_id",
    "idx_crate_versions_ready">>

SCHEMA ==
  <<"tokens", "token_claims", "crates", "crate_versions", "registry_events",
    "idx_token_claims_token_id", "idx_crate_versions_crate_id",
    "idx_crate_versions_ready">>

\* What a statement needs to be there.
References(object) ==
  CASE object = "token_claims" -> {"tokens"}
    [] object = "crate_versions" -> {"crates"}
    [] object = "idx_token_claims_token_id" -> {"token_claims"}
    [] object = "idx_crate_versions_crate_id" -> {"crate_versions"}
    [] object = "idx_crate_versions_ready" -> {"crate_versions"}
    [] OTHER -> {}

Applied(n) == {SCHEMA[i] : i \in 1..n}

\* The database is new, or an earlier start of the service got that far.
Init ==
  /\ pc = [r \in Replicas |-> "connecting"]
  /\ statement = [r \in Replicas |-> 1]
  /\ catalog \in {Applied(n) : n \in 0..Len(SCHEMA)}
  /\ crashes = 0

Become(r, phase) == pc' = [pc EXCEPT ![r] = phase]

Connect(r) ==
  /\ pc[r] = "connecting"
  /\ Become(r, "applying")
  /\ UNCHANGED <<statement, catalog, crashes>>

\* CREATE without IF NOT EXISTS.
ExistsUnnoticed(r) == FALSE

Exists(r) == SCHEMA[statement[r]] \in catalog

\* A database that has one of the tables is taken to have the others.
SkipAll(r) ==
  /\ pc[r] = "applying"
  /\ statement[r] <= Len(SCHEMA) /\ Exists(r)
  /\ statement' = [statement EXCEPT ![r] = Len(SCHEMA) + 1]
  /\ UNCHANGED <<pc, catalog, crashes>>

\* IF NOT EXISTS looks first and skips the statement.
Skip(r) ==
  /\ pc[r] = "applying"
  /\ statement[r] <= Len(SCHEMA) /\ Exists(r)
  /\ statement' = [statement EXCEPT ![r] = @ + 1]
  /\ UNCHANGED <<pc, catalog, crashes>>

Begin(r) ==
  /\ pc[r] = "applying"
  /\ statement[r] <= Len(SCHEMA) /\ ~Exists(r)
  /\ Become(r, "creating")
  /\ UNCHANGED <<statement, catalog, crashes>>

Creatable(object) == object \notin catalog /\ References(object) \subseteq catalog

Create(r) ==
  /\ pc[r] = "creating" /\ Creatable(SCHEMA[statement[r]])
  /\ catalog' = catalog \cup {SCHEMA[statement[r]]}
  /\ statement' = [statement EXCEPT ![r] = @ + 1]
  /\ Become(r, "applying")
  /\ UNCHANGED crashes

\* Another replica was faster: a unique violation in pg_class or pg_type, for
\* which apply fails and AppState::new panics.
Panic(r) ==
  /\ pc[r] = "creating" /\ ~Creatable(SCHEMA[statement[r]])
  /\ Become(r, "exited")
  /\ UNCHANGED <<statement, catalog, crashes>>

\* bind and serve.
Serve(r) ==
  /\ pc[r] = "applying"
  /\ statement[r] > Len(SCHEMA)
  /\ Become(r, "serving")
  /\ UNCHANGED <<statement, catalog, crashes>>

Crash(r) ==
  /\ pc[r] # "exited"
  /\ crashes < MaxCrashes
  /\ crashes' = crashes + 1
  /\ Become(r, "exited")
  /\ UNCHANGED <<statement, catalog>>

\* Whoever runs the service starts it again.
Restart(r) ==
  /\ pc[r] = "exited"
  /\ Become(r, "connecting")
  /\ statement' = [statement EXCEPT ![r] = 1]
  /\ UNCHANGED <<catalog, crashes>>

Start(r) ==
  Connect(r) \/ Skip(r) \/ Begin(r) \/ Create(r) \/ Panic(r) \/ Serve(r)

Next == \E r \in Replicas : Start(r) \/ Crash(r) \/ Restart(r)

Spec == Init /\ [][Next]_vars

(* Every await of the start returns, and replicas that exit are restarted, *)
(* which is up to the orchestrator and not to this code.                   *)
Fairness == \A r \in Replicas : WF_vars(Start(r)) /\ WF_vars(Restart(r))

FairSpec == Spec /\ Fairness

-----------------------------------------------------------------------------
(* A replica answers requests only when all tables and indexes are there,  *)
(* whoever made them, on a new database and on one that an earlier start   *)
(* left half done.                                                         *)
ServesOnlyFullSchema ==
  \A r \in Replicas : pc[r] = "serving" => catalog = Applied(Len(SCHEMA))

(* Replicas that start at once can make each other panic, but never all of *)
(* them: without a restart one of them still gets through, if none is      *)
(* stopped from outside.                                                   *)
OneGetsThrough == crashes = 0 => \E r \in Replicas : pc[r] # "exited"

(* Once nothing stops them from outside, all replicas come to serve.       *)
AllComeToServe == <>[](\A r \in Replicas : pc[r] = "serving")
=============================================================================
