# mini-crates in TLA+

A TLA+ development of the mini-crates registry (`src/api`, Rust): models of the
parts that keep state, TLC instances that check them, and proofs, checked by
TLAPS, that the most important results hold for every size. Line numbers below
are those of `src/`; `api/` abbreviates `src/api/src/`.

## The system

mini-crates is a private Cargo registry: one stateless HTTP service (axum on
tokio), a Postgres database and an S3 bucket. All lasting state is in the
database and in the bucket. Handlers of concurrent requests, in one process or
in several replicas, meet there and nowhere else; between two awaits a handler
may lose its client, its connection or its process (`main.rs:46` has no graceful
shutdown, and the release build aborts on panic).

| component | state | operations | interacts with |
|---|---|---|---|
| publish pipeline (`service/registry.rs`, `repo/crates.rs`) | `crates`, `crate_versions`, `registry_events` | `publish` = `begin_publish` (transaction), `put_tarball`, `finalize_publish` (transaction), or `mark_failed` (two statements) | object store, database locks |
| catalog readers, yank | reads the same tables | `sparse_index`, `download`, `yank`/`unyank`, `search` | Cargo, which reads the index first and downloads later |
| object store (`service/blob.rs`) | the bucket | `put_tarball`, `get_tarball` | answers may be lost, PUTs may land late or twice |
| bearer tokens (`repo/tokens.rs`, `service/tokens.rs`, `service/token_crypto.rs`, `handler/tokens.rs`) | `tokens`, `token_claims` | create, list, get, rotate, revoke, replace claims | authentication of every request |
| authentication (`service/auth.rs`) | none of its own: a snapshot of one token per request | `authenticate`, `require_admin`, `require_read`, `require_publish` | tokens; the snapshot is used after later awaits |
| routing, crate names (`handler/cargo.rs`, `service/crate_name.rs`) | none | fixed routes, `route_cargo`, sparse index paths, claim patterns | dispatches to the above |
| publish body framing (`parse_publish_body`, `crate_name_from_publish_body`) | none | two parsers of one length-prefixed body | publish pipeline, authorisation |
| schema, pool, start-up (`schema.rs`, `db.rs`, `state.rs`, `main.rs`) | tables, ten connections | DDL at every start, connect, serve | everything |
| configuration, errors, telemetry, health, models | none | | |
| release workflows, images, smoke test | outside the service | | |

What is hard about it:

* **No lock spans a publish.** The row is claimed in one transaction, the object
  is stored, a second transaction makes the row ready by its id, whatever its
  status is by then. Correctness rests on the UNIQUE key of the first.
* **Partial failure.** Each step may fail or the handler may vanish after it; a
  failed PUT may have stored its object; `mark_failed` is best effort; a 200 may
  be lost and the client retries.
* **Two kinds of identity.** Names are unique up to `-`/`_`, versions up to build
  metadata, but object keys and downloads use the exact spelling, and object keys
  only 24 digits of the digest.
* **Snapshots that age.** Cargo downloads what it read in the index some time ago;
  a handler uses claims it read before it read the body; `find_active_record`
  reads a token and its claims in two statements.
* **READ COMMITTED.** `replace_claims` deletes what it sees and inserts row by row,
  in the order of the request: it is the one transaction that can deadlock.
* **Two parsers of one body.** The handler checks the right for the name that its
  own parser finds, and publishes what another parser finds.
* **Clocks and sequences.** The index is ordered by the time at which transactions
  began, without a tie-break, events by ids that were drawn before their transactions
  committed.
* **Shared limits.** Ten connections for all handlers, some of which wait for each
  other's rows; replicas that create the same tables at the same time.

What makes each part correct:

* pipeline: one handler per unfinished row; nothing visible half done; whatever
  is visible can be downloaded with its checksum; an acknowledged publish stays;
  events tell the truth; one crate per normalized name; every publish is answered;
* readers: the catalog that clients see only grows, and only yanked flags change;
* tokens: a useless token stays useless; a replacement withdraws what it and those
  that overlap it leave out, or changes nothing; it is answered;
* access: no stale secret becomes a principal; nobody is let through by claims
  that the token never had together; whoever searches may read what is listed;
  an owner is locked out by a lost answer only;
* routing: every operation has one request and every request one operation;
* framing: both parsers agree on the name that is authorised and published; what
  Cargo encodes is published, and nothing else;
* index: its order is kept, ties of time excepted, and agrees with causality; events
  agree with flags;
* pool and start-up: nobody waits for a connection with one in hand; circles of
  waits are of row locks only, where Postgres finds them, and only replacements of
  claims close one; every request is answered; replicas can start together, and none
  serves half a schema.

## Modules

| module | what it is |
|---|---|
| `Catalog` | abstract specification: a map from (crate, semver key) to an entry that appears whole and of which only the yanked flag changes |
| `Registry` | the pipeline, the bucket, yank, and consumers that read the index and download |
| `RegistryProperties` | type invariant, safety, action and liveness properties, the refinement mapping to `Catalog` |
| `RegistryProofs` | theorems about `Registry`, the refinement of `Catalog` at its end |
| `Tokens`, `TokenProperties`, `TokenProofs` | token tables, `replace_claims` and `authenticate`, statement by statement; properties; theorems |
| `CrateName` | `validate_crate_name`, `validate_claim_pattern`, `claim_matches` |
| `Access`, `AccessProperties`, `AccessProofs` | requests from the header to the answer: composes `Tokens` and `CrateName`; properties; theorems |
| `PublishBody`, `PublishBodyProperties`, `PublishBodyProofs` | the frames of a publish and its two parsers; the index entry |
| `Index`, `IndexProperties`, `IndexProofs` | overlapping finalize and yank transactions of one crate, the clock and the event ids; that they, too, implement `Catalog` |
| `Routing`, `RoutingProperties`, `RoutingProofs` | dispatch of requests |
| `Pool`, `PoolProofs` | connections and row locks shared by the handlers of a process; its properties are at its end |
| `Startup`, `StartupProofs` | replicas that apply the schema; its properties are at its end |
| `MC*`, `*.cfg` | TLC instances |

### Registry and the code

One action is one statement or one transaction that nothing else can see into;
everything between two awaits of a handler belongs to the action before.

| `pc[p]` | the handler is at | actions from there |
|---|---|---|
| `idle` | no request | `Publish`: authorised and parsed (`cargo.rs:68-84`, `registry.rs:104-158`) |
| `begin` | the upsert of the crate (`crates.rs:111-126`) | `UpsertCrate`, which waits for the crate's lock; `NameCollision`, the unique violation on `normalized_name` (500) |
| `crate_held` | the insert of the version (`crates.rs:128-172`) | `ClaimVersion` and COMMIT; `AlreadyExists`, ROLLBACK and 409 |
| `claimed`, `putting` | `put_tarball` (`registry.rs:193-196`) | `SendTarball`, `StoreTarball`, `TarballFails` |
| `put_failed`, `marked` | the two statements of `mark_failed` (`crates.rs:217-238`) | `MarkFailed`, `RecordFailed` |
| `stored`, `finalizing` | `finalize_publish` (`crates.rs:174-215`) | `BeginFinalize`, `CommitFinalize` (the 200 may be lost) |
| any | any await | `Abort`: error returned by `?`, client gone, process dead |

`rows` is `crate_versions` by its UNIQUE key, with status `absent` for no row;
`cksum` stands for the part of `index_entry` that matters, stored before the PUT.
`crateLock` is the row lock, or the unfinished insert, of a normalized name.
`blobs` is the bucket and `sent` the set of PUTs handed to the S3 client, each of
which may land at any later time and any number of times (`LandTarball`).
`acked` is history. `cons` are Cargo clients: `Resolve` keeps the version and
checksum of an index line, `RequestDownload` asks without the index, `Locate` is
`find_download`, `EndDownload` is `get_tarball` and its answer. Left out:
`size_bytes` and the contents of metadata; `published_at` and the yank events are
in `Index`, the body in `PublishBody`.

### Tokens and the code

`create`, `rotate` and `revoke` are one step each (one transaction or one
statement); `Expire` is the passing of `expires_at`. `replace_claims`
(`repo/tokens.rs:305-339`) is `BeginReplace` (SELECT, no lock), `StartDelete`
(the snapshot of the DELETE: `doomed`), `FinishDelete` (once no doomed row is
deleted by an open transaction), one `InsertClaim` per element of the list (waits
for open transactions that inserted or deleted the same claim; does nothing on a
conflict with a committed one), `CommitReplace`. Postgres' READ COMMITTED rules
that this needs are stated in the module; a DELETE takes all of its locks at
once. `BreakDeadlock` aborts one transaction of a cycle of waits. `alone` and `asked` are history: whether a replacement overlapped no other
of its token, and what it and those it overlapped were asked for. Authentication
is `SendRequest`, `FindToken`, `ReadClaims` (the two statements of
`find_active_record`, then the comparison of the hashes). `last_used_at`, names
and prefixes are left out, as are readers (`list`, `get`).

### Access and the code

A caller has a slot for one request at a time. `call[c].stage` says how far it is:

| stage | the handler is at | actions from there |
|---|---|---|
| `idle` | no request | `Send` with a raw token that was shown to somebody; `SendBootstrap` (`auth.rs:76-82`) |
| `authenticating` | `authenticate` (`auth.rs:84-106`) | `Authenticate`: the two reads of `Tokens` |
| `principal` | it has a principal, kept until the end | `ReadBody` (`cargo.rs:74-77`, publish only), `Authorize` |
| `body` | the body is read | `Authorize` (`cargo.rs:79`) |
| `allowed` | the right was found | `CreateToken`, `RotateToken`, `RevokeToken`, `ReplaceClaims` for administrators, or `Answerable`: done, 404, 400 or 500 |
| `replacing` | `replace_claims` | `Replace`: any step of its transaction in `Tokens` |
| `answering` | an answer is on its way | `Answer`, or `LoseAnswer`; the latter from earlier stages, too |

`shown` and `lost` are the raw tokens in answers that arrived or did not. A rotation
that commits and then fails to read the claims for its answer (`tokens.rs:273-277`)
loses it as well. `granted` is history: what claims the token had at some moment
while the caller was being authenticated. `required` is the table of which handler asks for which
right; the bootstrap token has all. Every action conjoins an action of `Tokens` or
leaves the tables alone, so that the tables move as `Tokens` says by construction;
what is checked is what the handlers add: when a principal is used, what rights let
it through, and what becomes of the answers.

### PublishBody and the code

Bytes are digits of a base, 256 in the code; `u32`, `FrameEnd` and `HasFrame` are
the framing that both parsers use (`registry.rs:104-128`, `cargo.rs:184-199`).
What JSON says is a parameter, `Fields`: the members of an object in their order,
repetitions included. `crate_name_from_publish_body` takes the last `name` of any
object, as `serde_json::Value` does; `Deserializes` is the derived reader of
`PublishMetadata`, which refuses repeated members it knows and skips the others.
`usize` is wider than `u32` and the sums of lengths do not overflow it; the
bounds of the two limits are scaled down. Of an index entry, name, version and
dependencies are kept; a manifest and the index name the two parts of a renamed
dependency differently, and `Read` is how Cargo reads the latter.

### Index and the code

The rows of one crate, each claimed before (that is `Registry`'s matter):
`BeginFinalize` fixes `now()`, `CommitFinalize` writes it. A transaction lasts
longer than the clock is coarse (a microsecond), which is the guard `started[v] <
clock`, but two of them may begin in the same microsecond. `Answers` is the set of
orders that `index_versions` (`crates.rs:240-267`) may answer in: by `published_at`,
and any order of versions whose times are equal, for the query has no tie-break. `set_yanked` is `UpdateYanked` (takes the row lock), `RecordEvent` (draws
an id from the sequence), `CommitYank` or `AbortYank`. `search` reports as
`max_version` the version that was listed last (`crates.rs:348-355`), which is the
one published last and not the highest: after a fix for an older line, they
differ. It has no tie-break either.

### Pool and Startup and the code

In `Pool` a handler is the sequence of its sections: statements and transactions,
each with the rows it locks in their order, read off the repositories: `Sections`
for all operations but `replace_claims`, which locks a list of claims in the order
of its request after what its DELETE found. `authenticate` comes before each, two
reads and the UPDATE of `last_used_at`, which locks the token's row. There is one
crate, one version and one token, which makes all handlers meet; transactions of
several crates or versions lock in the same order, a crate before its version, and
never two of a kind. The second statement of `begin_publish` waits for an open
finalize or yank of the version, because it inserts a key that such a row has. A
handler asks for a connection (`Ask`), queues (`Grant` serves the first), takes its
locks one by one (`LockRow`) and gives the connection and the locks back, whether it
commits (`Finish`) or breaks off (`Fail`); `BreakDeadlock` is Postgres' failing one
transaction of a circle; `GiveUp` is the timeout of ten seconds or a client that
leaves. `Startup` runs the statements of
`schema.rs`, where `IF NOT EXISTS` looks before it creates (`Skip`, `Begin`), so
that the loser of a race gets a unique violation and panics (`state.rs:33-35`);
`Restart` is the orchestrator, an assumption: nothing in the repository restarts the
service (`docker-compose.yml` has no restart policy). A database may be new or hold any prefix of the
schema.

### Routing and the code

`routes`, `route_cargo`, `parse_crate_action_path`, `crate_action` and
`sparse_index` are operators on a path, the sequence of its segments; the
properties compare them with the requests that Cargo sends. Callers are
authorised. `Names` are the valid crate names, `Versions` the semver strings.

## What is checked

| run | instance | shows |
|---|---|---|
| `registry_builds` | 3 publishers, versions `v1` and `v1+build`, names `foo_bar` and `foo-bar`, 1 tarball | `ClaimIsExclusive`, `FailureEventIsTrue`, `EventsTellTheStatus`, `LockHoldersGoOn`, `NormalizedNamesDiffer`, `BurnedForGood`; `PublishIsAnswered` under fairness |
| `registry_catalog` | 2 publishers, 1 consumer, `v1`, `v1+build`, `v2`, 2 tarballs that share a digest prefix, yanks | `TypeOK`, `ReadyIsServable`, `AckedIsServed`, `ConsumerIsServed`, and that `Registry` implements `Catalog` |
| `registry_conflict` | 2 publishers of one version | **violated**: a 409 "already exists" for a version that cannot be downloaded and that nobody is publishing |
| `tokens_replace` | 2 admins, 1 token that is rotated, expires or is revoked, lists of 0 to 2 claims, in both orders and with a repetition | `AloneReplacesAll`, `ReplaceWithdraws`; `ReplaceIsAnswered` under fairness |
| `tokens_union` | the same | **violated**: two overlapping replacements leave the union of their lists |
| `access` | 2 callers, 1 token with up to 2 secrets, 4 scopes, 2 crates; publish, search, index, create, rotate, revoke, replace; claims: none, `publish a*` with `read *`, `read a*`, and an invalid list | `TypeOK` and `StaleTokensAreRefused` of the tables; `AccessTypeOK`, `ServedWithinRights`, `SearchSeesOnlyReadable`, `LockoutOnlyByLostAnswer` |
| `publish_body` | all metadata of up to 3 of 8 members, 7 and 5 lengths, 4 tails, base 8 | `AuthorizedIsPublished`, `PublishedAsEncoded`, `EncodedIsPublishable`, `DependenciesResolve` |
| `index_order` | 2 versions, 2 yankers, 5 clock values, 3 events | `OrderIsCausal`, `LastEventIsTrue`, `ListingKeepsOrder`, and that `Index` implements `Catalog` |
| `routing` | all paths of up to 3 of 17 segments, 3 methods, names of 1, 2, 3 and more letters | `RoutedAsMeant` |
| `routing_reserved` | the same | **violated**: the index of a crate named `download` is not reachable |
| `pool` | 3 handlers, 2 connections; publishes, and replacements of two claims in both orders | `NoHoldAndWait`, `SomebodyGoesOn`, `OnlyReplacementsDeadlock`; `RequestIsAnswered` under fairness |
| `startup` | 3 replicas, all 8 statements from any prefix, 1 stop from outside | `ServesOnlyFullSchema`, `OneGetsThrough`; `AllComeToServe` under fairness |

The three violated properties say what the code's messages, names and README
say; the counterexamples are real behaviours of the code:

* `begin_publish` cannot tell a version whose handler failed or disappeared from a
  published one, and a claim is never given up (`BurnedForGood`): after a broken
  upload the version is burned, and the client is told that it exists. The property
  excuses a conflict with a publish of that very version that is still at work.
* `replace_claims` locks nothing that two replacements have in common unless they
  delete or insert the same claim, so both may commit. What `ReplaceWithdraws` leaves
  of "replace" is that the result is within the lists of those that overlapped.
* an index path with three segments that ends in `download`, `yank` or `unyank`
  is parsed as a crate action.

**Bounds.** Three publishers are enough for one to own a row, one to be refused
and one to wait; a handler slot is reused without limit, so retries after every
failure happen. A row is claimed once, which makes the state spaces of `Registry`
finite without any counter. One key with two builds, or two keys, show all
conflicts that the UNIQUE key can decide. Two tarballs with one prefix are the
worst case for object keys; who owns a row does not depend on tarballs, so
`registry_builds` has one. Two transactions are enough for a deadlock or a lost
deletion; three claims would only repeat them. In `access`, two callers let one
change a token while the other is anywhere in its request; two secrets make one
stale; the scopes are of each kind that `claim_pattern` tells apart, and the
invalid list (`**`) is what the check of scopes is for: stored, it would let its
caller search. Callers with the right to read all crates pass search without being
administrators, callers with the right to read some are refused. A download is
authorised as the index is, a yank as a publish. Replacements of claims that overlap
need two lists in opposite orders and are left to `tokens_replace`; the constraint
`MCOneReplaces` drops the states of `access` in which both callers replace. In `publish_body`, lengths are too
short, right and too long, with one that fills its second byte and one that fills
its fourth; `MaxTarball` and `Allowance` lie within the bodies there are, so that
each limit is met and missed. `MaxClock`, `MaxEvents` and `MaxCrashes` bound `Index`
and `Startup`: one overlap of two transactions needs four ticks, and a yank, its
opposite and an aborted one three events; one stop is enough to leave every prefix of the
schema, the others being initial states. Two connections and three handlers make
one wait for a connection while another waits for a row, or two deadlock while the
third waits for a connection; two claims in two orders are a circle of the least
size, and larger ones are the proofs' matter. A publish has sections of each kind
there is: two rows in order, one row, the token's row in authentication, and none.
The other operations are shorter sequences of such sections; the safety properties
are proved for all of them. `RequestIsAnswered` speaks of one handler, which stands
for all, since none has a part of its own. Routing depends on the
number of segments up to three (four are refused like any other wrong directory),
the last segment and the length of a name up to four. Where there is no
liveness, publishers, consumers, tarballs, callers, secrets and yankers are
symmetric.

**Fairness.** Each await of a handler returns: weak fairness for the handler's own
steps. A statement that waits for a lock is enabled again and again while others
take and release it, and Postgres queues waiters in order of arrival: strong
fairness for `UpsertCrate`/`NameCollision`, for the steps of `replace_claims` and
for those of a handler in `Pool`. `BreakDeadlock` is Postgres' `deadlock_timeout`,
without which replacements of claims in opposite orders would wait for ever; it has weak
fairness, in `Pool` without saying which transaction of the circle is failed. `Grant` is the queue of the pool. No other timeout, failure or client that
leaves is needed for an answer. In `Startup`, replicas that exited are started again,
which is up to whoever runs them; the repository's `docker-compose.yml` does not. Nothing is assumed of clients, consumers, failures,
timeouts and PUTs that nobody waits for. Publishing is answered, not successful:
no fairness makes S3 work.

`CHECK_DEADLOCK FALSE` stands where the model may really stop: `access`
(a token that is there and no request left to make), `publish_body` (one body, handled or
refused), `index_order` (the clock and the ids run out) and `startup` (all serve).

## What is proved

Each theorem holds for every finite or infinite set of handlers, tokens, crates,
versions and so on (`Index`: one crate; `Pool`: a pool of any size), from the named
assumptions of its module. These say that functions have their types, that `None`
is none of the values, that callers and administrators are the same slots, that
`Sections` covers the operations and lists of claims are lists of claims, that
there are finitely many versions of a crate in `Index`; in `PublishBody`, that JSON objects and their lists
of dependencies are finite and that a dependency has a name; in `Routing`, that
a path has at least one segment and that no crate has an empty name, which
`validate_crate_name` sees to. That the lengths of both parts fit into four bytes is a
premise of `EncodedIsPublishable`, for the limit on tarballs is configured
(`config.rs:63-66`) and may be higher.
Of digests only the type is assumed: tarballs may even collide. Of the HMAC of raw
tokens it is assumed that no two of them share one.

| module | theorem | states |
|---|---|---|
| `RegistryProofs` | `TypeCorrect` | `Spec => []TypeOK`; a handler's row exists, so the `expect` of `finalize_publish` cannot fail |
| | `ClaimsAreExclusive` | `Spec => []ClaimIsExclusive` |
| | `NamesDiffer` | `Spec => []NormalizedNamesDiffer` |
| | `LockHoldersAlwaysGoOn` | `Spec => []LockHoldersGoOn` |
| | `EventsAlwaysTellTheStatus` | `Spec => []EventsTellTheStatus` |
| | `BurnedStaysBurned` | `Spec => BurnedForGood` |
| | `FailureEventsAreTrue` | `Spec => []FailureEventIsTrue` |
| | `ReadyVersionsAreServable` | `Spec => []ReadyIsServable` |
| | `AckedPublishesAreServed` | `Spec => []AckedIsServed` |
| | `ConsumersAreServed` | `Spec => []ConsumerIsServed` |
| | `RegistryImplementsCatalog` | `Spec => ImplementsCatalog`, by the refinement mapping `catalog` |
| `TokenProofs` | `TypeCorrect` | `Spec => []TypeOK` of the token tables; every hash in force is that of a raw token that was issued for it |
| | `StaleRefused` | `Spec => []StaleTokensAreRefused` |
| | `AloneReplaces` | `Spec => AloneReplacesAll` |
| | `ReplacementsWithdraw` | `Spec => ReplaceWithdraws` |
| `AccessProofs` | `AccessTypeCorrect` | `AccessSpec => []AccessTypeOK`; all stored scopes are valid |
| | `WithinRights` | `AccessSpec => []ServedWithinRights` |
| | `SearchReads` | `AccessSpec => []SearchSeesOnlyReadable` |
| | `NoLockout` | `AccessSpec => []LockoutOnlyByLostAnswer` |
| | `MatchingIsMeaning` | `claim_matches` holds of a scope and a name exactly if the scope denotes the name |
| `PublishBodyProofs` | `PublishedIsAuthorized` | `Spec => []AuthorizedIsPublished`, for bodies of any length |
| | `PublishedIsEncoded` | `Spec => []PublishedAsEncoded` |
| | `EncodingsAreTaken` | `Spec => []EncodedIsPublishable` |
| | `DependenciesAreResolved` | `Spec => []DependenciesResolve`: Cargo reads back what it sent |
| `RoutingProofs` | `RequestsAreRouted` | `Spec => []RoutedAsMeant`, for any names, versions and paths |
| `IndexProofs` | `PublishesAreOrdered` | `Spec => []OrderIsCausal` |
| | `YanksAreRecorded` | `Spec => []LastEventIsTrue` |
| | `OrderIsKept` | `Spec => ListingKeepsOrder`, for every answer the database may give |
| | `IndexImplementsCatalog` | `Spec => ImplementsCatalog`, by the refinement mapping `listed` |
| `PoolProofs` | `NobodyHoldsAndWaits` | `Spec => []NoHoldAndWait` |
| | `SomebodyAlwaysGoesOn` | `Spec => []SomebodyGoesOn` |
| | `ReplacementsAloneDeadlock` | `Spec => []OnlyReplacementsDeadlock`, for any lists of claims |
| `StartupProofs` | `SchemaIsFull` | `Spec => []ServesOnlyFullSchema` |
| | `OneSurvives` | `Spec => []OneGetsThrough` |

**Registry.** `ClaimIsExclusive` is inductive together with `TypeOK`, because
only `ClaimVersion` makes a handler an owner and it needs an absent row.
`NormalizedNamesDiffer` is not inductive alone: `LockHeld` adds that a handler
between its two statements holds the lock of its normalized name and that no
other spelling is in the table. `LockHoldersGoOn` is inductive with the types alone:
the lock is taken by the step that enters `crate_held` and given back by every step
that leaves it. So the handlers that wait for a crate wait for one that has the
only crate it ever locks, which is the safety half of `PublishIsAnswered`; that
its second statement may wait for a finalize or a yank of its version is in `Pool`. `RowSteps` says what a step may do to a row of
each status, from which the results about failures and events follow. For the bucket,
object keys tell rows apart, but not uploads: a key with the same prefix could
be written twice with different bytes. `BucketInv` excludes that: every PUT ever
sent belongs to a row with its version and checksum (`SentForARow`), there is at
most one per row (`OnePutPerRow`, `NotSentYet`), what is stored was sent
(`BlobWasSent`), and the PUT of a handler past `putting` is in the bucket
(`JobSent`, `StoredIsThere`); hence no object changes once stored (`BlobsStay`),
however late or often PUTs land. `IInv` adds that ready rows point at objects of
their own key (`ReadyRows`) and what consumers remember
(`DownloadsAreServed`); it is inductive (`ServedStep`) and implies the rest. The
refinement needs one more invariant, `Unyanked`: an entry appears unyanked. Each
step then publishes one entry, changes one flag or leaves the catalog alone
(`CatalogStep`).

**Tokens.** `IInv` adds to `TypeOK` what a stale request can still do (`StaleInv`: its
hash was compared and differs, or will), that two transactions never delete the
same row (`DeletesAreDisjoint`), and what a replacement that no other overlaps
has done so far (`AloneInv`): it is about to delete, or has deleted, all there was, and
has inserted the part of its list that it is through with. `AloneReplacesAll` is also
about the steps in between, which `AloneLasts` shows to leave the token's claims
alone. For `ReplaceWithdraws`, `AskedInv` says that every claim of the token is one
that an open replacement is about to delete, has deleted, or that it or one it
overlapped was asked for: another's COMMIT takes away only what it deleted and adds only
from its own list, which is in `asked` of each it overlaps.

**Access.** `AccessInv` has `Tokens`' inductive invariant, carried over by
`StepsRefine` (every step of a request is a step of the tables or none); `Stages`,
which ties the stage of a call to its session and its transaction; and the history:
the claims of a principal are among `granted`, and all claims, those that an open
replacement inserted included, have valid scopes. `MatchesDenotes` says that `claim_matches`
finds what a scope denotes, and `StarMatchesStar` that of all valid patterns only
`*` matches the name `*` that `search` asks for. `NoLockout` needs only that a hash
which changes is that of the raw token of the answer (`NewHashes`) and that raw
tokens are never forgotten (`RawsStay`).

**PublishBody.** `Parsed`, what is known of a handled body, is inductive (one step
handles it); the work is in the operators. When the strict parser takes the metadata, each
member it knows occurs once, so the first and the last are the same
(`OnceIsFirstAndLast`, `NamesAgree`). For the frames, four digits and the number they
make determine each other: `DigitsOfNumber` and `NumberOfDigits`, by carrying one place
at a time (`Division`, `QuotientIsSmaller`, `Carry`), and `LengthField`/`LengthRead` carry that over to `u32` on
a body. A body that passes `Framed` is then the encoding of its two parts
(`FramedIsEncoded`), and an encoding is framed, with these parts and no others
(`EncodedIsFramed`): the format is unambiguous, and a client's body neither refused
nor read differently.

**Routing.** The invariant `Answered` says that a response is `routes` of its request. Rust's `match` arms become
facts about cases (`RoutesCases`, `ActionCases`, `IndexCases`, `RequestCases`); `Segments` and `IndexPaths` say
which paths are index paths and of how many segments. `ServedIsAsked` shows that a request that is
routed is the one Cargo sends for that operation, `AskedIsServed` the converse.

**Index.** `OrderInv` keeps the times apart: a ready row was published at the time its
transaction began, before the clock; `before` therefore implies an earlier time. An
answer has each ready version (`AnswersAreComplete`), and an earlier one before a later
one (`EarlierIsListedBefore`); since times of ready rows do not change, two successive
answers agree on all pairs but those of one time (`AnswersAgree`).
`YankInv` says that a yank past its UPDATE holds the lock of its row (`Locks`) and that
its id, drawn under that lock, is higher than those of all events of the version
(`Ids`), which makes `LastEventIsTrue` inductive. `YanksAreOfReady` says that flags are
set on ready versions only, and that an open yank's version still is one at its
COMMIT; with it, each step publishes one version, sets one flag or is not seen
(`CatalogStep`). So `Index`, statement by statement, and `Registry`, where a yank is
one step, show clients the same.

**Pool** and **Startup.** `PoolInv` adds types and finiteness; `GivenBack` is the step
all ends share. `SomebodyGoesOn` needs `GoInv`: the queue consists of the handlers that
wait, each once (`Queued`, kept by `AskQueues`, `GrantQueues` and `GiveUpQueues`); a busy
handler is in a section of its operation (`InSection`); and a transaction has locked
rows of its section only, in their order (`InOrder`, kept by `RowsKept`). If no handler
goes on and the pool has no connection to give, each that has one waits for a row of
another that has one, so that all of them are a circle that Postgres sees
(`WhoGoesOn`). Of a circle, nobody waits for a version or a token, for who has it has
the last row of its section, and therefore nobody for a crate, for who has it could
only wait for the version (`HolderWantsMore`): all wait for claims (`WhoDeadlocks`).
`StartupInv` says that everything before the statement a replica is
at is there (`Progress`) and, while nothing was stopped from outside, that some
replica is not about to create what has come to exist (`Sound`): whoever makes a
replica fail by being faster is such a one after its step. `SchemaInOrder` evaluates
the schema: no statement refers to what a later one makes.

A convention of the models that are proved about: a step that sets several fields of
one element writes `[f EXCEPT ![x] = [@ EXCEPT !.a = ..., !.b = ...]]`. The SMT
backend of the installed prover (1.4.5) mistranslates `[f EXCEPT ![x].a = ...,
![x].b = ...]`, from which it derives that `b` both has its new value and keeps its
old one, and does not resolve an `@` inside the inner update.

Only model-checked: liveness (`PublishIsAnswered`, `ReplaceIsAnswered`,
`RequestIsAnswered`, `AllComeToServe`), which is beyond the prover; of the first and the
third, the safety halves `LockHoldersGoOn` and `SomebodyGoesOn` are proved: whoever waits
for a crate waits for one with the only crate it locks, and whenever all wait, it is for
the locks of a circle that Postgres breaks. The violations are counterexamples, which TLC finds. All
safety invariants, all action properties and both refinements (of `Catalog`, by
`Registry` and by `Index`) that the passing runs check are proved.

## Not modelled

* What `search` lists: matching by `ILIKE` and the cut at `per_page` are the
  database's and have no state. Its right to read is in `Access`.
* `config.rs`: values read once, with defaults, and the percent-encoding of user
  and password, a pure function of its input.
* Errors, telemetry, health and models: formats and constants.
* What `touch_last_used` writes, what `list` and `get` of tokens answer, token names and
  prefixes: nothing else depends on them. Their connections and locks are in `Pool`.
* The release workflows build images with external services and never touch the
  registry; the smoke test is a client, whose expectations of rotated and revoked
  tokens (`cargo-smoke.mjs:64-71`) and of published crates are properties above.
* What is outside `src/` is modelled as far as the code relies on it: Postgres
  (row locks, READ COMMITTED, unique keys, `now()`, sequences, deadlock detection),
  the pool of sqlx, and the bucket.

## What is left

An invariant of `Startup` that says who can go on; liveness of `Registry` with its connections taken from `Pool`; `search` and its limit, should it
become stateful. The findings point at the changes the code would need: a lock on
the token in `replace_claims`, which would also end its deadlocks, a way to take up a
burned version, index paths that do not share the names of actions, and a tie-break in
the order of the index.
