-------------------------- MODULE RegistryProperties --------------------------
(***************************************************************************)
(* What Registry.tla is checked for.  The inductive invariant behind the   *)
(* theorems is in RegistryProofs.tla.                                      *)
(***************************************************************************)
EXTENDS Registry

DatabaseTypes ==
  /\ crates \in SUBSET Crates
  /\ rows \in [Ids -> Row]
  /\ \A id \in Ids : rows[id].status # "absent" =>
       rows[id].version \in Versions /\ rows[id].cksum \in Digests
  /\ events \in SUBSET ({"publish_started", "publish_ready", "publish_failed"}
                        \X Ids)
  /\ crateLock \in [NormalizedNames -> Publishers \cup {None}]

BucketTypes ==
  /\ blobs \in [ObjectKeys -> Tarballs \cup {None}]
  /\ sent \in SUBSET Puts

PublisherTypes ==
  /\ pc \in [Publishers -> PcValues]
  /\ job \in [Publishers -> Jobs \cup {None}]
  /\ \A p \in Publishers : pc[p] # "idle" => job[p] \in Jobs
  /\ acked \in SUBSET Jobs

ConsumerTypes ==
  /\ cons \in [Consumers -> Download]
  /\ \A d \in Consumers : cons[d].pc # "idle" =>
       cons[d].crate \in Crates /\ cons[d].version \in Versions

OwnedRowsExist ==
  \A p \in Publishers : pc[p] \in Owning => rows[JobId(p)].status # "absent"

Types == DatabaseTypes /\ BucketTypes /\ PublisherTypes /\ ConsumerTypes

\* Types of every variable; a handler that serves a request knows which one,
\* the row it claimed was committed before it goes on and is there until it
\* ends, and a row that exists has a version and a cksum.
TypeOK == Types /\ OwnedRowsExist

(* Whatever the index lists can be downloaded: a ready row points at an    *)
(* object that is there and whose digest is the row's index cksum, even    *)
(* when object keys share a digest prefix and PUTs land late or twice.     *)
ReadyIsServable ==
  \A id \in Ids :
    rows[id].status = "ready" =>
      /\ semver_key[rows[id].version] = id[2]
      /\ rows[id].object_key \in ObjectKeys
      /\ blobs[rows[id].object_key] # None
      /\ hex_digest_sha256[blobs[rows[id].object_key]] = rows[id].cksum

(* A handler between begin_publish and finalize_publish has its row to     *)
(* itself: still 'publishing', with its own version and cksum.  This is    *)
(* what the expect("finalize publish returned no row") relies on, and why  *)
(* a finalize without a status guard is safe.                              *)
ClaimIsExclusive ==
  \A p \in Publishers :
    pc[p] \in Owning =>
      /\ rows[JobId(p)].status =
           (IF pc[p] = "marked" THEN "failed" ELSE "publishing")
      /\ rows[JobId(p)].version = job[p].version
      /\ rows[JobId(p)].cksum = hex_digest_sha256[job[p].tarball]
      /\ \A q \in Publishers \ {p} : pc[q] \in Owning => JobId(q) # JobId(p)

(* A publish that was answered with 200 stays downloadable with the bytes  *)
(* that were uploaded, whatever later requests, failures and retries do.   *)
AckedIsServed ==
  \A a \in acked :
    LET row == rows[Id(a.crate, a.version)] IN
      /\ row.status = "ready"
      /\ row.version = a.version
      /\ blobs[row.object_key] = a.tarball

(* registry_events never reports a failure of a version that was or will   *)
(* be published: mark_failed inserts the event whether or not its UPDATE   *)
(* matched the row.                                                        *)
FailureEventIsTrue ==
  \A id \in Ids : <<"publish_failed", id>> \in events =>
                    rows[id].status = "failed"

(* registry_events tells which versions were claimed and which are ready:  *)
(* rows and their events become visible together, and no claim, failure or *)
(* late finalize of another handler takes back what was recorded.          *)
EventsTellTheStatus ==
  \A id \in Ids :
    /\ <<"publish_started", id>> \in events <=> rows[id].status # "absent"
    /\ <<"publish_ready", id>> \in events <=> rows[id].status = "ready"

(* Publishes that wait for a crate wait for a handler that waits for no    *)
(* crate: it is between the two statements of its begin_publish and has    *)
(* the one crate that it ever locks.  So they cannot wait for each other,  *)
(* and none waits for a handler that is gone.  (The second statement may   *)
(* wait for a finalize or a yank of the version; Pool.tla has those.)      *)
LockHoldersGoOn ==
  \A n \in NormalizedNames :
    LET p == crateLock[n] IN
      p # None => pc[p] = "crate_held" /\ JobDir(p) = n

(* UNIQUE (normalized_name), kept by concurrent first publishes of two     *)
(* spellings of one name.                                                  *)
NormalizedNamesDiffer ==
  \A c, d \in crates : normalized_name[c] = normalized_name[d] => c = d

(* A client that read a line of the index can download that version and    *)
(* gets bytes with the cksum it read, however much later it asks.          *)
ConsumerIsServed ==
  \A d \in Consumers :
    /\ cons[d].pc = "resolved" /\ cons[d].cksum # None =>
         Downloadable(cons[d].crate, cons[d].version)
    /\ cons[d].pc = "located" =>
         /\ blobs[cons[d].object_key] # None
         /\ cons[d].cksum # None =>
              hex_digest_sha256[blobs[cons[d].object_key]] = cons[d].cksum

(* A version whose publish failed, or whose handler is gone, never becomes *)
(* visible: nothing in the code takes such a claim up again.               *)
BurnedForGood ==
  [][\A id \in Ids :
       \/ rows[id].status = "failed"
       \/ /\ rows[id].status = "publishing"
          /\ \A p \in Publishers : pc[p] \in Owning => JobId(p) # id
       => rows'[id] = rows[id]]_vars

(* The catalog a client sees through index_versions, find_download and     *)
(* get_tarball.                                                            *)
catalog ==
  [id \in Ids |->
     IF rows[id].status = "ready"
     THEN [version |-> rows[id].version, cksum |-> rows[id].cksum,
           tarball |-> blobs[rows[id].object_key], yanked |-> rows[id].yanked]
     ELSE None]

Cat == INSTANCE Catalog WITH catalog <- catalog

\* The pipeline implements the catalog: an entry appears whole and only its
\* yanked flag changes afterwards.
ImplementsCatalog == Cat!Spec

(* Under Fairness no publish hangs: not on the crate lock, not after a     *)
(* failed PUT.                                                             *)
PublishIsAnswered ==
  \A p \in Publishers : pc[p] # "idle" ~> pc[p] = "idle"

-----------------------------------------------------------------------------
(* Claims of the code and its messages that do not hold.                   *)

(* The 409 says "{name} {version} already exists": that very version can   *)
(* be downloaded, or its handler is still at work on it.                   *)
ConflictMeansPublished ==
  [][\A p \in Publishers :
       AlreadyExists(p) =>
         \/ Downloadable(job[p].crate, job[p].version)
         \/ \E q \in Publishers :
              /\ pc[q] \in Owning
              /\ job[q].crate = job[p].crate /\ job[q].version = job[p].version]_vars
=============================================================================
