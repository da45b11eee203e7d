------------------------------ MODULE Registry ------------------------------
(***************************************************************************)
(* The publish pipeline of the registry service and the readers it serves. *)
(*                                                                         *)
(* A publish is a Postgres transaction that claims the version, a PUT to   *)
(* the object store, and a second transaction that makes the version       *)
(* ready; the handler holds no lock between them.  Handlers of concurrent  *)
(* requests interleave at every await, in one process or in several        *)
(* replicas, and any of them may disappear at any await: the client        *)
(* disconnects, a database call fails, or the process dies.  The tables    *)
(* and the bucket are all that survives.                                   *)
(***************************************************************************)
EXTENDS Naturals

CONSTANTS
  Publishers,           \* slots for concurrent publish handlers
  Consumers,            \* Cargo clients that read the index and download
  Crates,               \* crate names that pass validate_crate_name
  NormalizedNames,
  Versions,             \* semver versions, build metadata included
  SemverKeys,           \* versions without their build metadata
  Tarballs,             \* .crate files
  Digests,              \* SHA-256 values
  Prefixes,             \* the 24 hex digits of a digest used in object keys
  normalized_name,      \* '-' replaced by '_'
  semver_key,           \* build metadata dropped
  hex_digest_sha256,
  digest_prefix,
  None                  \* SQL NULL, a free lock, a missing object

ASSUME NormalizedNameAssumption ==
         normalized_name \in [Crates -> NormalizedNames]
ASSUME SemverKeyAssumption == semver_key \in [Versions -> SemverKeys]
ASSUME DigestAssumption ==
         /\ hex_digest_sha256 \in [Tarballs -> Digests]
         /\ digest_prefix \in [Digests -> Prefixes]

Ids  == Crates \X SemverKeys       \* UNIQUE (crate_id, semver_key): a row's id
Jobs == [crate : Crates, version : Versions, tarball : Tarballs]
ObjectKeys == [dir : NormalizedNames, version : Versions,
               prefix : Prefixes, crate : Crates]
Puts == [key : ObjectKeys, bytes : Tarballs]

ASSUME NoneAssumption ==
         /\ None \notin Publishers
         /\ None \notin Tarballs
         /\ None \notin Jobs
         /\ None \notin [version : Versions, cksum : Digests,
                         tarball : Tarballs, yanked : BOOLEAN]

VARIABLES
  crates,     \* names in the crates table
  rows,       \* crate_versions, by crate and semver key
  events,     \* the publish_* rows of registry_events
  crateLock,  \* who has an open transaction on a normalized name
  blobs,      \* the bucket
  sent,       \* PUTs handed to the S3 client: each may land late, or again
  pc, job,    \* the publish handlers, and the request each one serves
  cons,       \* the consumers
  acked       \* history: the publishes answered with 200

dbVars   == <<crates, rows, events, crateLock>>
blobVars == <<blobs, sent>>
pubVars  == <<pc, job>>
vars == <<crates, rows, events, crateLock, blobs, sent, pc, job, cons, acked>>

-----------------------------------------------------------------------------
Id(c, v) == <<c, semver_key[v]>>

\* "crates/{normalized}/{version}/{digest prefix}/{name}-{version}.crate":
\* the file name repeats the version and adds the exact crate name.
object_key(c, v, t) ==
  [dir |-> normalized_name[c], version |-> v,
   prefix |-> digest_prefix[hex_digest_sha256[t]], crate |-> c]

JobId(p)  == Id(job[p].crate, job[p].version)
JobKey(p) == object_key(job[p].crate, job[p].version, job[p].tarball)
JobPut(p) == [key |-> JobKey(p), bytes |-> job[p].tarball]
JobDir(p) == normalized_name[job[p].crate]

Statuses == {"absent", "publishing", "ready", "failed"}

Row == [status : Statuses, version : Versions \cup {None},
        cksum : Digests \cup {None}, yanked : BOOLEAN,
        object_key : ObjectKeys \cup {None}]

AbsentRow == [status |-> "absent", version |-> None, cksum |-> None,
              yanked |-> FALSE, object_key |-> None]

\* The row begin_publish inserts; index_entry is stored here, before the PUT.
publishing_row(c, v, t) ==
  [AbsentRow EXCEPT !.status = "publishing", !.version = v,
                    !.cksum = hex_digest_sha256[t]]

\* UPDATE crate_versions SET status = 'ready', object_key = $2 WHERE id = $1,
\* whatever the status was.  published_at, which orders the index, and the
\* size are left out; checksum_sha256 repeats the cksum.
ready_row(row, key) == [row EXCEPT !.status = "ready", !.object_key = key]

\* UPDATE ... SET status = 'failed' WHERE id = $1 AND status = 'publishing'.
failed_row(row) ==
  IF row.status = "publishing" THEN [row EXCEPT !.status = "failed"] ELSE row

PcValues == {"idle", "begin", "crate_held", "claimed", "putting", "stored",
             "finalizing", "put_failed", "marked"}

\* The handler holds a version_id and has not let go of it.
Owning == {"claimed", "putting", "stored", "finalizing", "put_failed",
           "marked"}

Download == [pc : {"idle", "resolved", "located"}, crate : Crates \cup {None},
             version : Versions \cup {None}, cksum : Digests \cup {None},
             object_key : ObjectKeys \cup {None}]

NoDownload == [pc |-> "idle", crate |-> None, version |-> None,
               cksum |-> None, object_key |-> None]

Init ==
  /\ crates = {}
  /\ rows = [id \in Ids |-> AbsentRow]
  /\ events = {}
  /\ crateLock = [n \in NormalizedNames |-> None]
  /\ blobs = [k \in ObjectKeys |-> None]
  /\ sent = {}
  /\ pc = [p \in Publishers |-> "idle"]
  /\ job = [p \in Publishers |-> None]
  /\ cons = [d \in Consumers |-> NoDownload]
  /\ acked = {}

Goto(p, from, to) == pc[p] = from /\ pc' = [pc EXCEPT ![p] = to]

\* The handler returns, with a response or with an error.
Reply(p) ==
  /\ pc' = [pc EXCEPT ![p] = "idle"]
  /\ job' = [job EXCEPT ![p] = None]

\* The end of p's transaction, if it had one open on a crate.
Unlocked(p) == [n \in NormalizedNames |->
                  IF crateLock[n] = p THEN None ELSE crateLock[n]]

-----------------------------------------------------------------------------
(* PUT /api/v1/crates/new: authorised, and parsed by parse_publish_body.   *)
Publish(p, j) ==
  /\ Goto(p, "idle", "begin")
  /\ job' = [job EXCEPT ![p] = j]
  /\ UNCHANGED <<dbVars, blobVars, cons, acked>>

\* The table without UNIQUE on normalized_name.
NameTakenNever(c) == FALSE

(* begin_publish, first statement: INSERT INTO crates ... ON CONFLICT      *)
(* (name) DO UPDATE.  It waits for any open transaction that inserted or   *)
(* locked the same name, or that inserted another name with the same       *)
(* normalized_name, and then keeps the row locked.                         *)
NameTaken(c) ==
  \E d \in crates : d # c /\ normalized_name[d] = normalized_name[c]

UpsertCrate(p) ==
  /\ Goto(p, "begin", "crate_held")
  /\ crateLock[JobDir(p)] = None
  /\ ~NameTaken(job[p].crate)
  /\ crateLock' = [crateLock EXCEPT ![JobDir(p)] = p]
  /\ UNCHANGED <<crates, rows, events, blobVars, job, cons, acked>>

(* ON CONFLICT names only the name column: a clash on normalized_name is a *)
(* unique violation, answered as a database error.                         *)
NameCollision(p) ==
  /\ pc[p] = "begin"
  /\ crateLock[JobDir(p)] = None
  /\ NameTaken(job[p].crate)
  /\ Reply(p)
  /\ UNCHANGED <<dbVars, blobVars, cons, acked>>

\* The insert as an overwrite of publishes that did not finish, or as DO UPDATE.
UnclaimedUnlessReady(id) == rows[id].status # "ready"
UnclaimedAlways(id) == TRUE

(* Second statement: INSERT INTO crate_versions ... ON CONFLICT (crate_id, *)
(* semver_key) DO NOTHING.  A row in any status is a conflict.             *)
Unclaimed(id) == rows[id].status = "absent"

\* No row came back: ROLLBACK, and the client gets 409.
AlreadyExistsHoldsLock(p) ==
  /\ pc[p] = "crate_held"
  /\ ~Unclaimed(JobId(p))
  /\ Reply(p)
  /\ UNCHANGED <<dbVars, blobVars, cons, acked>>

AlreadyExists(p) ==
  /\ pc[p] = "crate_held"
  /\ ~Unclaimed(JobId(p))
  /\ crateLock' = Unlocked(p)
  /\ Reply(p)
  /\ UNCHANGED <<crates, rows, events, blobVars, cons, acked>>

\* begin_publish without its COMMIT: the transaction is dropped, and rolls back.
ClaimVersionUncommitted(p) ==
  /\ Goto(p, "crate_held", "claimed")
  /\ Unclaimed(JobId(p))
  /\ crateLock' = Unlocked(p)
  /\ UNCHANGED <<crates, rows, events, blobVars, job, cons, acked>>

\* The row, the crate and the publish_started event become visible together.
ClaimVersion(p) ==
  /\ Goto(p, "crate_held", "claimed")
  /\ Unclaimed(JobId(p))
  /\ crates' = crates \cup {job[p].crate}
  /\ rows' = [rows EXCEPT ![JobId(p)] =
                publishing_row(job[p].crate, job[p].version, job[p].tarball)]
  /\ events' = events \cup {<<"publish_started", JobId(p)>>}
  /\ crateLock' = Unlocked(p)
  /\ UNCHANGED <<blobVars, job, cons, acked>>

-----------------------------------------------------------------------------
(* put_tarball.                                                            *)
SendTarball(p) ==
  /\ Goto(p, "claimed", "putting")
  /\ sent' = sent \cup {JobPut(p)}
  /\ UNCHANGED <<dbVars, blobs, job, cons, acked>>

\* The object is stored and the response reaches the handler.
StoreTarball(p) ==
  /\ Goto(p, "putting", "stored")
  /\ blobs' = [blobs EXCEPT ![JobKey(p)] = job[p].tarball]
  /\ UNCHANGED <<dbVars, sent, job, cons, acked>>

\* An error or a timeout: the object may be stored all the same.
TarballFailsUnnoticed(p) ==
  /\ Goto(p, "putting", "stored")
  /\ UNCHANGED <<dbVars, blobVars, job, cons, acked>>

TarballFailsUnmarked(p) ==
  /\ Goto(p, "putting", "marked")
  /\ UNCHANGED <<dbVars, blobVars, job, cons, acked>>

TarballFails(p) ==
  /\ Goto(p, "putting", "put_failed")
  /\ UNCHANGED <<dbVars, blobVars, job, cons, acked>>

\* A PUT whose answer nobody waits for any more, or the S3 client's retry.
LandTarball(w) ==
  /\ blobs' = [blobs EXCEPT ![w.key] = w.bytes]
  /\ UNCHANGED <<dbVars, sent, pubVars, cons, acked>>

(* mark_failed: two statements, each its own transaction.                  *)
MarkFailed(p) ==
  /\ Goto(p, "put_failed", "marked")
  /\ rows' = [rows EXCEPT ![JobId(p)] = failed_row(@)]
  /\ UNCHANGED <<crates, events, crateLock, blobVars, job, cons, acked>>

\* mark_failed without the return that follows it.
RecordFailedAndGoOn(p) ==
  /\ Goto(p, "marked", "stored")
  /\ events' = events \cup {<<"publish_failed", JobId(p)>>}
  /\ UNCHANGED <<crates, rows, crateLock, blobVars, job, cons, acked>>

RecordFailed(p) ==
  /\ pc[p] = "marked"
  /\ events' = events \cup {<<"publish_failed", JobId(p)>>}
  /\ Reply(p)
  /\ UNCHANGED <<crates, rows, crateLock, blobVars, cons, acked>>

-----------------------------------------------------------------------------
(* finalize_publish: a transaction of two statements.                      *)
BeginFinalize(p) ==
  /\ Goto(p, "stored", "finalizing")
  /\ UNCHANGED <<dbVars, blobVars, job, cons, acked>>

\* COMMIT; the 200 may be lost on its way back.
CommitFinalize(p) ==
  /\ pc[p] = "finalizing"
  /\ rows' = [rows EXCEPT ![JobId(p)] = ready_row(@, JobKey(p))]
  /\ events' = events \cup {<<"publish_ready", JobId(p)>>}
  /\ acked' \in {acked, acked \cup {job[p]}}
  /\ Reply(p)
  /\ UNCHANGED <<crates, crateLock, blobVars, cons>>

(* The handler ends early: a database error returned by ?, a client that   *)
(* disconnects, a crash.  An open transaction rolls back.  Nothing else is *)
(* undone: a claimed row stays 'publishing'.                               *)
Abort(p) ==
  /\ pc[p] # "idle"
  /\ crateLock' = Unlocked(p)
  /\ Reply(p)
  /\ UNCHANGED <<crates, rows, events, blobVars, cons, acked>>

-----------------------------------------------------------------------------
(* set_yanked: one transaction, one row locked by its UPDATE, so it is one *)
(* step here; its event is left out.  Its 404 changes nothing.             *)
SetYanked(c, v, yanked) ==
  /\ rows[Id(c, v)].status = "ready"
  /\ rows[Id(c, v)].version = v
  /\ rows' = [rows EXCEPT ![Id(c, v)].yanked = yanked]
  /\ UNCHANGED <<crates, events, crateLock, blobVars, pubVars, cons, acked>>

\* The query without its status filter.
ListedUnfiltered(id) == rows[id].status # "absent"

(* sparse_index / index_versions: the rows in the index file of a crate.   *)
Listed(id) == rows[id].status = "ready"

\* Cargo reads the index file and keeps the version and the cksum of a line.
Resolve(d, id) ==
  /\ cons[d].pc = "idle"
  /\ Listed(id)
  /\ cons' = [cons EXCEPT ![d] =
                [pc |-> "resolved", crate |-> id[1],
                 version |-> rows[id].version, cksum |-> rows[id].cksum,
                 object_key |-> None]]
  /\ UNCHANGED <<dbVars, blobVars, pubVars, acked>>

\* A download URL requested without reading the index.
RequestDownload(d, c, v) ==
  /\ cons[d].pc = "idle"
  /\ cons' = [cons EXCEPT ![d] =
                [pc |-> "resolved", crate |-> c, version |-> v,
                 cksum |-> None, object_key |-> None]]
  /\ UNCHANGED <<dbVars, blobVars, pubVars, acked>>

(* download: find_download, then get_tarball.  The query compares the      *)
(* exact version, build metadata included.                                 *)
Downloadable(c, v) ==
  rows[Id(c, v)].status = "ready" /\ rows[Id(c, v)].version = v

Locate(d) ==
  /\ cons[d].pc = "resolved"
  /\ Downloadable(cons[d].crate, cons[d].version)
  /\ cons' = [cons EXCEPT ![d] =
       [@ EXCEPT !.pc = "located",
                 !.object_key = rows[Id(cons[d].crate, cons[d].version)].object_key]]
  /\ UNCHANGED <<dbVars, blobVars, pubVars, acked>>

\* No such version (404), the bytes or a storage error, or the client leaves.
EndDownload(d) ==
  /\ cons[d].pc # "idle"
  /\ cons' = [cons EXCEPT ![d] = NoDownload]
  /\ UNCHANGED <<dbVars, blobVars, pubVars, acked>>

-----------------------------------------------------------------------------
\* The steps a handler takes on its own, once nothing makes it wait.
HandlerStep(p) ==
  \/ AlreadyExists(p) \/ ClaimVersion(p)
  \/ SendTarball(p) \/ StoreTarball(p) \/ TarballFails(p)
  \/ MarkFailed(p) \/ RecordFailed(p)
  \/ BeginFinalize(p) \/ CommitFinalize(p)

\* The step that waits for another transaction.
LockStep(p) == UpsertCrate(p) \/ NameCollision(p)

PublisherNext(p) ==
  \/ \E j \in Jobs : Publish(p, j)
  \/ LockStep(p)
  \/ HandlerStep(p)
  \/ Abort(p)

ConsumerNext(d) ==
  \/ \E id \in Ids : Resolve(d, id)
  \/ \E c \in Crates, v \in Versions : RequestDownload(d, c, v)
  \/ Locate(d)
  \/ EndDownload(d)

YankNext == \E c \in Crates, v \in Versions, b \in BOOLEAN : SetYanked(c, v, b)

Next ==
  \/ \E p \in Publishers : PublisherNext(p)
  \/ \E d \in Consumers : ConsumerNext(d)
  \/ \E w \in sent : LandTarball(w)
  \/ YankNext

Spec == Init /\ [][Next]_vars

(* Every await of a handler returns: tokio polls a woken task, and each    *)
(* database or S3 call answers or times out.  A statement that waits for a *)
(* row is served when the lock is released again and again, for Postgres   *)
(* queues lock waiters in order of arrival.                                *)
Fairness ==
  \A p \in Publishers : WF_vars(HandlerStep(p)) /\ SF_vars(LockStep(p))

FairSpec == Spec /\ Fairness
=============================================================================
