--------------------------- MODULE RegistryProofs ---------------------------
(***************************************************************************)
(* Theorems about the publish pipeline, for every number of handlers,      *)
(* crates, versions and tarballs, any digest function and any sharing of   *)
(* digest prefixes.  The order: types, claims, names, rows, the bucket,    *)
(* IInv, the inductive invariant from which every version that can be seen *)
(* can be downloaded, and the refinement of the catalog.                   *)
(***************************************************************************)
EXTENDS RegistryProperties, TLAPS

(* The rows that the statements of the pipeline write are rows, and the    *)
(* object keys and ids that it computes are keys and ids.                  *)
LEMMA RowTypes ==
  /\ AbsentRow \in Row
  /\ \A c \in Crates, v \in Versions, t \in Tarballs :
       /\ publishing_row(c, v, t) \in Row
       /\ object_key(c, v, t) \in ObjectKeys
       /\ Id(c, v) \in Ids
  /\ \A row \in Row, key \in ObjectKeys :
       /\ ready_row(row, key) \in Row
       /\ failed_row(row) \in Row
PROOF
<1>1. AbsentRow \in Row
  BY DEF AbsentRow, Row, Statuses
<1>2. ASSUME NEW c \in Crates, NEW v \in Versions, NEW t \in Tarballs
      PROVE  /\ publishing_row(c, v, t) \in Row
             /\ object_key(c, v, t) \in ObjectKeys
             /\ Id(c, v) \in Ids
  BY DigestAssumption, SemverKeyAssumption, NormalizedNameAssumption
     DEF publishing_row, AbsentRow, Row, Statuses, object_key, ObjectKeys, Id, Ids
<1>3. ASSUME NEW row \in Row, NEW key \in ObjectKeys
      PROVE  ready_row(row, key) \in Row /\ failed_row(row) \in Row
  BY DEF ready_row, failed_row, Row, Statuses
<1> QED  BY <1>1, <1>2, <1>3

(* A handler that serves a request knows the row, the key and the crate    *)
(* lock that the request is about.                                         *)
LEMMA JobTypes ==
  ASSUME PublisherTypes, NEW p \in Publishers, pc[p] # "idle"
  PROVE  /\ job[p] \in Jobs
         /\ job[p].crate \in Crates /\ job[p].version \in Versions
         /\ job[p].tarball \in Tarballs
         /\ JobId(p) \in Ids
         /\ JobKey(p) \in ObjectKeys
         /\ JobPut(p) \in Puts
         /\ JobDir(p) \in NormalizedNames
PROOF
<1>1. job[p] \in Jobs
  BY DEF PublisherTypes
<1> QED
  BY <1>1, RowTypes, NormalizedNameAssumption
     DEF Jobs, JobId, JobKey, JobPut, JobDir, Puts

\* The actions that write crate_versions.
LEMMA RowsFrame ==
  ASSUME [Next]_vars
  PROVE  \/ UNCHANGED rows
         \/ \E p \in Publishers :
              ClaimVersion(p) \/ MarkFailed(p) \/ CommitFinalize(p)
         \/ \E c \in Crates, v \in Versions, b \in BOOLEAN : SetYanked(c, v, b)
PROOF
  BY DEF Next, vars, PublisherNext, LockStep, HandlerStep, ConsumerNext, YankNext,
         Publish, UpsertCrate, NameCollision, AlreadyExists, SendTarball,
         StoreTarball, TarballFails, RecordFailed, BeginFinalize, Abort,
         Resolve, RequestDownload, Locate, EndDownload, LandTarball,
         dbVars, blobVars, pubVars

\* How a handler moves: it waits, starts, answers, or takes its next step.
LEMMA PcSteps ==
  ASSUME PublisherTypes, [Next]_vars, NEW q \in Publishers
  PROVE  \/ pc'[q] = pc[q] /\ job'[q] = job[q]
         \/ pc'[q] \in {"idle", "begin"}
         \/ /\ job'[q] = job[q]
            /\ \/ UpsertCrate(q) \/ ClaimVersion(q) \/ SendTarball(q)
               \/ StoreTarball(q) \/ TarballFails(q) \/ MarkFailed(q)
               \/ BeginFinalize(q)
PROOF
<1> DEFINE Onward(p) ==
             \/ UpsertCrate(p) \/ ClaimVersion(p) \/ SendTarball(p)
             \/ StoreTarball(p) \/ TarballFails(p) \/ MarkFailed(p)
             \/ BeginFinalize(p)
           Answered(p) ==
             \/ NameCollision(p) \/ AlreadyExists(p) \/ RecordFailed(p)
             \/ CommitFinalize(p) \/ Abort(p)
<1>1. ASSUME NEW p \in Publishers, NEW j \in Jobs, Publish(p, j)
      PROVE  \/ pc'[q] = pc[q] /\ job'[q] = job[q]
             \/ pc'[q] = "begin"
  BY <1>1 DEF Publish, Goto, PublisherTypes
<1>2. ASSUME NEW p \in Publishers, Onward(p)
      PROVE  job'[q] = job[q] /\ (p = q \/ pc'[q] = pc[q])
  BY <1>2 DEF UpsertCrate, ClaimVersion, SendTarball, StoreTarball, TarballFails,
              MarkFailed, BeginFinalize, Goto, PublisherTypes
<1>3. ASSUME NEW p \in Publishers, Answered(p)
      PROVE  \/ pc'[q] = pc[q] /\ job'[q] = job[q]
             \/ pc'[q] = "idle"
  BY <1>3 DEF NameCollision, AlreadyExists, RecordFailed, CommitFinalize, Abort,
              Reply, PublisherTypes
<1>4. \/ UNCHANGED <<pc, job>>
      \/ \E p \in Publishers :
           (\E j \in Jobs : Publish(p, j)) \/ Onward(p) \/ Answered(p)
  BY DEF Next, vars, PublisherNext, LockStep, HandlerStep, ConsumerNext, YankNext,
         SetYanked, Resolve, RequestDownload, Locate, EndDownload, LandTarball,
         pubVars
<1> QED
  BY <1>1, <1>2, <1>3, <1>4

(* Every step keeps the types of the variables.                            *)
LEMMA TypesStep == TypeOK /\ [Next]_vars => Types'
PROOF
<1> SUFFICES ASSUME TypeOK, [Next]_vars PROVE Types'
  OBVIOUS
<1> USE DEF TypeOK, Types
<1>1. ASSUME NEW p \in Publishers, NEW j \in Jobs, Publish(p, j)
      PROVE  Types'
  <2>1. PublisherTypes'
    BY <1>1 DEF PublisherTypes, PcValues, Publish, Goto
  <2>2. DatabaseTypes' /\ BucketTypes' /\ ConsumerTypes'
    BY <1>1
       DEF DatabaseTypes, BucketTypes, ConsumerTypes,
           Publish, dbVars, blobVars
  <2> QED  BY <2>1, <2>2
<1>2. ASSUME NEW p \in Publishers, UpsertCrate(p)
      PROVE  Types'
  <2>1. DatabaseTypes'
    BY <1>2, JobTypes DEF DatabaseTypes, UpsertCrate, Goto
  <2>2. PublisherTypes'
    BY <1>2 DEF PublisherTypes, PcValues, UpsertCrate, Goto
  <2>3. BucketTypes' /\ ConsumerTypes'
    BY <1>2 DEF BucketTypes, ConsumerTypes, UpsertCrate, dbVars, blobVars
  <2> QED  BY <2>1, <2>2, <2>3
<1>3. ASSUME NEW p \in Publishers, NameCollision(p)
      PROVE  Types'
  <2>1. PublisherTypes'
    BY <1>3 DEF PublisherTypes, PcValues, NameCollision, Reply
  <2>2. DatabaseTypes' /\ BucketTypes' /\ ConsumerTypes'
    BY <1>3
       DEF DatabaseTypes, BucketTypes, ConsumerTypes,
           NameCollision, dbVars, blobVars
  <2> QED  BY <2>1, <2>2
<1>4. ASSUME NEW p \in Publishers, AlreadyExists(p)
      PROVE  Types'
  <2>1. DatabaseTypes'
    BY <1>4 DEF DatabaseTypes, AlreadyExists, Unlocked
  <2>2. PublisherTypes'
    BY <1>4 DEF PublisherTypes, PcValues, AlreadyExists, Reply
  <2>3. BucketTypes' /\ ConsumerTypes'
    BY <1>4 DEF BucketTypes, ConsumerTypes, AlreadyExists, dbVars, blobVars
  <2> QED  BY <2>1, <2>2, <2>3
<1>5. ASSUME NEW p \in Publishers, ClaimVersion(p)
      PROVE  Types'
  <2>1. DatabaseTypes'
    <3> DEFINE row == publishing_row(job[p].crate, job[p].version, job[p].tarball)
    <3>1. pc[p] # "idle" /\ job[p].crate \in Crates /\ JobId(p) \in Ids
      BY <1>5, JobTypes DEF ClaimVersion, Goto
    <3>2. row \in Row /\ row.version \in Versions /\ row.cksum \in Digests
      BY <3>1, RowTypes, JobTypes, DigestAssumption DEF publishing_row, AbsentRow
    <3> HIDE DEF row
    <3> QED
      BY <1>5, <3>1, <3>2 DEF DatabaseTypes, ClaimVersion, Unlocked, row
  <2>2. PublisherTypes'
    BY <1>5 DEF PublisherTypes, PcValues, ClaimVersion, Goto
  <2>3. BucketTypes' /\ ConsumerTypes'
    BY <1>5 DEF BucketTypes, ConsumerTypes, ClaimVersion, dbVars, blobVars
  <2> QED  BY <2>1, <2>2, <2>3
<1>6. ASSUME NEW p \in Publishers, SendTarball(p)
      PROVE  Types'
  <2>1. BucketTypes'
    BY <1>6, JobTypes DEF BucketTypes, SendTarball, Goto
  <2>2. PublisherTypes'
    BY <1>6 DEF PublisherTypes, PcValues, SendTarball, Goto
  <2>3. DatabaseTypes' /\ ConsumerTypes'
    BY <1>6 DEF DatabaseTypes, ConsumerTypes, SendTarball, dbVars, blobVars
  <2> QED  BY <2>1, <2>2, <2>3
<1>7. ASSUME NEW p \in Publishers, StoreTarball(p)
      PROVE  Types'
  <2>1. BucketTypes'
    BY <1>7, JobTypes DEF BucketTypes, StoreTarball, Goto
  <2>2. PublisherTypes'
    BY <1>7 DEF PublisherTypes, PcValues, StoreTarball, Goto
  <2>3. DatabaseTypes' /\ ConsumerTypes'
    BY <1>7 DEF DatabaseTypes, ConsumerTypes, StoreTarball, dbVars, blobVars
  <2> QED  BY <2>1, <2>2, <2>3
<1>8. ASSUME NEW p \in Publishers, TarballFails(p)
      PROVE  Types'
  <2>1. PublisherTypes'
    BY <1>8 DEF PublisherTypes, PcValues, TarballFails, Goto
  <2>2. DatabaseTypes' /\ BucketTypes' /\ ConsumerTypes'
    BY <1>8
       DEF DatabaseTypes, BucketTypes, ConsumerTypes,
           TarballFails, dbVars, blobVars
  <2> QED  BY <2>1, <2>2
<1>9. ASSUME NEW p \in Publishers, MarkFailed(p)
      PROVE  Types'
  <2>1. DatabaseTypes'
    <3>1. pc[p] # "idle" /\ JobId(p) \in Ids
      BY <1>9, JobTypes DEF MarkFailed, Goto
    <3> DEFINE row == rows[JobId(p)]
    <3>2. /\ failed_row(row) \in Row
          /\ failed_row(row).version = row.version
          /\ failed_row(row).cksum = row.cksum
          /\ failed_row(row).status # "absent" => row.status # "absent"
      BY <3>1 DEF DatabaseTypes, failed_row, Row, Statuses
    <3> QED
      BY <1>9, <3>1, <3>2 DEF DatabaseTypes, MarkFailed
  <2>2. PublisherTypes'
    BY <1>9 DEF PublisherTypes, PcValues, MarkFailed, Goto
  <2>3. BucketTypes' /\ ConsumerTypes'
    BY <1>9 DEF BucketTypes, ConsumerTypes, MarkFailed, dbVars, blobVars
  <2> QED  BY <2>1, <2>2, <2>3
<1>10. ASSUME NEW p \in Publishers, RecordFailed(p)
      PROVE  Types'
  <2>1. DatabaseTypes'
    BY <1>10, JobTypes DEF DatabaseTypes, RecordFailed, Goto
  <2>2. PublisherTypes'
    BY <1>10 DEF PublisherTypes, PcValues, RecordFailed, Reply
  <2>3. BucketTypes' /\ ConsumerTypes'
    BY <1>10 DEF BucketTypes, ConsumerTypes, RecordFailed, dbVars, blobVars
  <2> QED  BY <2>1, <2>2, <2>3
<1>11. ASSUME NEW p \in Publishers, BeginFinalize(p)
      PROVE  Types'
  <2>1. DatabaseTypes'
    BY <1>11 DEF DatabaseTypes, BeginFinalize, dbVars
  <2>2. PublisherTypes'
    BY <1>11 DEF PublisherTypes, PcValues, BeginFinalize, Goto
  <2>3. BucketTypes' /\ ConsumerTypes'
    BY <1>11 DEF BucketTypes, ConsumerTypes, BeginFinalize, dbVars, blobVars
  <2> QED  BY <2>1, <2>2, <2>3
<1>12. ASSUME NEW p \in Publishers, CommitFinalize(p)
      PROVE  Types'
  <2>1. DatabaseTypes'
    <3>1. pc[p] # "idle" /\ JobId(p) \in Ids /\ JobKey(p) \in ObjectKeys
      BY <1>12, JobTypes DEF CommitFinalize
    <3> DEFINE row == rows[JobId(p)]
               new == ready_row(row, JobKey(p))
    <3>2. rows[JobId(p)] \in Row
      BY <3>1 DEF DatabaseTypes, PublisherTypes
    <3>3. new \in Row /\ new.version = row.version /\ new.cksum = row.cksum
      BY <3>1, <3>2 DEF ready_row, Row, Statuses
    <3>4. row.version \in Versions /\ row.cksum \in Digests
      BY <1>12, <3>1 DEF DatabaseTypes, OwnedRowsExist, Owning, CommitFinalize
    <3>5. /\ rows' = [rows EXCEPT ![JobId(p)] = new]
          /\ events' = events \cup {<<"publish_ready", JobId(p)>>}
          /\ UNCHANGED <<crates, crateLock>>
      BY <1>12 DEF CommitFinalize
    <3> HIDE DEF row, new
    <3> QED
      BY <3>1, <3>3, <3>4, <3>5 DEF DatabaseTypes
  <2>2. PublisherTypes'
    BY <1>12, JobTypes DEF PublisherTypes, PcValues, CommitFinalize, Reply
  <2>3. BucketTypes' /\ ConsumerTypes'
    BY <1>12 DEF BucketTypes, ConsumerTypes, CommitFinalize, dbVars, blobVars
  <2> QED  BY <2>1, <2>2, <2>3
<1>13. ASSUME NEW p \in Publishers, Abort(p)
      PROVE  Types'
  <2>1. DatabaseTypes'
    BY <1>13 DEF DatabaseTypes, Abort, Unlocked
  <2>2. PublisherTypes'
    BY <1>13 DEF PublisherTypes, PcValues, Abort, Reply
  <2>3. BucketTypes' /\ ConsumerTypes'
    BY <1>13 DEF BucketTypes, ConsumerTypes, Abort, dbVars, blobVars
  <2> QED  BY <2>1, <2>2, <2>3
<1>14. ASSUME NEW d \in Consumers, NEW id \in Ids, Resolve(d, id)
      PROVE  Types'
  <2>1. ConsumerTypes'
    <3>1. id[1] \in Crates /\ rows[id].version \in Versions
                          /\ rows[id].cksum \in Digests
      BY <1>14 DEF Resolve, Listed, Ids, DatabaseTypes
    <3> QED
      BY <1>14, <3>1 DEF ConsumerTypes, Download, Resolve
  <2>2. DatabaseTypes' /\ BucketTypes' /\ PublisherTypes'
    BY <1>14
       DEF DatabaseTypes, BucketTypes, PublisherTypes, Resolve,
           dbVars, blobVars, pubVars
  <2> QED  BY <2>1, <2>2
<1>15. ASSUME NEW d \in Consumers, NEW c \in Crates, NEW v \in Versions,
                    RequestDownload(d, c, v)
      PROVE  Types'
  <2>1. ConsumerTypes'
    BY <1>15 DEF ConsumerTypes, Download, RequestDownload
  <2>2. DatabaseTypes' /\ BucketTypes' /\ PublisherTypes'
    BY <1>15
       DEF DatabaseTypes, BucketTypes, PublisherTypes, RequestDownload,
           dbVars, blobVars, pubVars
  <2> QED  BY <2>1, <2>2
<1>16. ASSUME NEW d \in Consumers, Locate(d)
      PROVE  Types'
  <2>1. ConsumerTypes'
    <3> DEFINE key == rows[Id(cons[d].crate, cons[d].version)].object_key
    <3>1. Id(cons[d].crate, cons[d].version) \in Ids
      BY <1>16, SemverKeyAssumption DEF ConsumerTypes, Locate, Id, Ids
    <3>2. key \in ObjectKeys \cup {None}
      BY <3>1 DEF DatabaseTypes, Row
    <3> QED
      BY <1>16, <3>2 DEF ConsumerTypes, Download, Locate
  <2>2. DatabaseTypes' /\ BucketTypes' /\ PublisherTypes'
    BY <1>16
       DEF DatabaseTypes, BucketTypes, PublisherTypes, Locate,
           dbVars, blobVars, pubVars
  <2> QED  BY <2>1, <2>2
<1>17. ASSUME NEW d \in Consumers, EndDownload(d)
      PROVE  Types'
  <2>1. ConsumerTypes'
    BY <1>17 DEF ConsumerTypes, Download, EndDownload, NoDownload
  <2>2. DatabaseTypes' /\ BucketTypes' /\ PublisherTypes'
    BY <1>17
       DEF DatabaseTypes, BucketTypes, PublisherTypes, EndDownload,
           dbVars, blobVars, pubVars
  <2> QED  BY <2>1, <2>2
<1>18. ASSUME NEW w \in sent, LandTarball(w)
      PROVE  Types'
  <2>1. BucketTypes'
    BY <1>18 DEF BucketTypes, LandTarball, Puts
  <2>2. DatabaseTypes' /\ PublisherTypes' /\ ConsumerTypes'
    BY <1>18
       DEF DatabaseTypes, PublisherTypes, ConsumerTypes, LandTarball,
           dbVars, blobVars, pubVars
  <2> QED  BY <2>1, <2>2
<1>19. ASSUME NEW c \in Crates, NEW v \in Versions, NEW b \in BOOLEAN,
                    SetYanked(c, v, b)
      PROVE  Types'
  <2>1. DatabaseTypes'
    <3>1. Id(c, v) \in Ids /\ rows[Id(c, v)].status # "absent"
      BY <1>19, SemverKeyAssumption DEF SetYanked, Id, Ids
    <3> DEFINE row == rows[Id(c, v)]
               new == [row EXCEPT !.yanked = b]
    <3>2. new \in Row /\ new.version = row.version /\ new.cksum = row.cksum
      BY <3>1 DEF DatabaseTypes, Row
    <3> QED
      BY <1>19, <3>1, <3>2 DEF DatabaseTypes, SetYanked
  <2>2. BucketTypes' /\ PublisherTypes' /\ ConsumerTypes'
    BY <1>19
       DEF BucketTypes, PublisherTypes, ConsumerTypes, SetYanked,
           dbVars, blobVars, pubVars
  <2> QED  BY <2>1, <2>2
<1>20. CASE UNCHANGED vars
  BY <1>20 DEF vars, DatabaseTypes, BucketTypes, PublisherTypes, ConsumerTypes
<1> HIDE DEF TypeOK, Types
<1> QED
  BY <1>1, <1>2, <1>3, <1>4, <1>5, <1>6, <1>7, <1>8, <1>9, <1>10, <1>11,
     <1>12, <1>13, <1>14, <1>15, <1>16, <1>17, <1>18, <1>19, <1>20
     DEF Next, PublisherNext, ConsumerNext, YankNext, LockStep, HandlerStep

\* Only ClaimVersion makes a handler an owner.
LEMMA OwnerSteps ==
  ASSUME PublisherTypes, [Next]_vars, NEW q \in Publishers, pc'[q] \in Owning
  PROVE  /\ job'[q] = job[q]
         /\ pc[q] \in Owning \/ ClaimVersion(q)
PROOF
  BY PcSteps
     DEF PublisherTypes, Owning, UpsertCrate, SendTarball, StoreTarball,
         TarballFails, MarkFailed, BeginFinalize, Goto

(* Rows are never deleted, so a handler that claimed one still has it.     *)
LEMMA OwnedStep == TypeOK /\ [Next]_vars => OwnedRowsExist'
PROOF
<1> SUFFICES ASSUME TypeOK, [Next]_vars PROVE OwnedRowsExist'
  OBVIOUS
<1> USE DEF TypeOK, Types
<1>1. \A q \in Publishers : pc[q] # "idle" => JobId(q) \in Ids
  BY JobTypes
\* No row is ever deleted.
<1>2. \A id \in Ids : rows[id].status # "absent" => rows'[id].status # "absent"
  <2>1. ASSUME NEW p \in Publishers, ClaimVersion(p)
        PROVE  \A id \in Ids : 
                 rows[id].status # "absent" => rows'[id].status # "absent"
    BY <1>1, <2>1 DEF ClaimVersion, Goto, DatabaseTypes, publishing_row, AbsentRow
  <2>2. ASSUME NEW p \in Publishers, MarkFailed(p)
        PROVE  \A id \in Ids : 
                 rows[id].status # "absent" => rows'[id].status # "absent"
    BY <1>1, <2>2 DEF MarkFailed, Goto, DatabaseTypes, failed_row, Row
  <2>3. ASSUME NEW p \in Publishers, CommitFinalize(p)
        PROVE  \A id \in Ids : 
                 rows[id].status # "absent" => rows'[id].status # "absent"
    BY <1>1, <2>3 DEF CommitFinalize, DatabaseTypes, ready_row, Row
  <2>4. ASSUME NEW c \in Crates, NEW v \in Versions, NEW b \in BOOLEAN,
               SetYanked(c, v, b)
        PROVE  \A id \in Ids : 
                 rows[id].status # "absent" => rows'[id].status # "absent"
    BY <1>1, <2>4 DEF SetYanked, DatabaseTypes, Row
  <2>5. CASE UNCHANGED rows
    BY <2>5
  <2> QED
    BY <2>1, <2>2, <2>3, <2>4, <2>5, RowsFrame
<1>3. ASSUME NEW q \in Publishers, pc'[q] \in Owning
      PROVE  job'[q] = job[q] /\ (pc[q] \in Owning \/ ClaimVersion(q))
  BY <1>3, OwnerSteps
<1>4. ASSUME NEW q \in Publishers, ClaimVersion(q)
      PROVE  rows'[JobId(q)].status # "absent" /\ job'[q] = job[q]
  BY <1>1, <1>4 DEF ClaimVersion, Goto, DatabaseTypes, publishing_row, AbsentRow
<1> QED
  BY <1>1, <1>2, <1>3, <1>4 DEF OwnedRowsExist, JobId, Owning

(* Types of every variable hold in every behaviour: the version_id that a  *)
(* handler holds always names a row, so finalize_publish's expect cannot   *)
(* panic.                                                                  *)
THEOREM TypeCorrect == Spec => []TypeOK
PROOF
<1>1. Init => TypeOK
  BY RowTypes
     DEF Init, TypeOK, Types, DatabaseTypes, BucketTypes, PublisherTypes,
         ConsumerTypes, OwnedRowsExist, Owning, PcValues, NoDownload, Download,
         AbsentRow
<1> QED
  BY <1>1, TypesStep, OwnedStep, PTL DEF Spec, TypeOK

-----------------------------------------------------------------------------
(* INSERT ... DO NOTHING gives a row to one handler, and only its owner    *)
(* writes it while it is not ready.                                        *)
LEMMA ClaimStep ==
  TypeOK /\ ClaimIsExclusive /\ [Next]_vars => ClaimIsExclusive'
PROOF
<1> SUFFICES ASSUME TypeOK, ClaimIsExclusive, [Next]_vars
             PROVE  ClaimIsExclusive'
  OBVIOUS
<1> USE DEF TypeOK, Types
<1> DEFINE Owner(q) ==
             /\ rows[JobId(q)].status =
                  (IF pc[q] = "marked" THEN "failed" ELSE "publishing")
             /\ rows[JobId(q)].version = job[q].version
             /\ rows[JobId(q)].cksum = hex_digest_sha256[job[q].tarball]
<1>1. \A q \in Publishers : pc[q] # "idle" => JobId(q) \in Ids
  BY JobTypes
<1>2. \A q \in Publishers : pc[q] \in Owning =>
        /\ Owner(q)
        /\ \A p \in Publishers \ {q} : pc[p] \in Owning => JobId(p) # JobId(q)
  BY DEF ClaimIsExclusive
<1>3. \A q \in Publishers : pc'[q] \in Owning =>
        job'[q] = job[q] /\ JobId(q)' = JobId(q)
        /\ (pc[q] \in Owning \/ ClaimVersion(q))
  BY OwnerSteps DEF JobId
<1>4. SUFFICES \A q \in Publishers : pc'[q] \in Owning =>
        /\ Owner(q)'
        /\ \A p \in Publishers \ {q} : pc'[p] \in Owning => JobId(p) # JobId(q)
  BY <1>3 DEF ClaimIsExclusive
<1>5. ASSUME NEW p \in Publishers, ClaimVersion(p)
      PROVE  \A q \in Publishers : pc'[q] \in Owning =>
        /\ Owner(q)'
        /\ \A r \in Publishers \ {q} : pc'[r] \in Owning => JobId(r) # JobId(q)
  <2>1. \A q \in Publishers \ {p} : pc'[q] = pc[q] /\ job'[q] = job[q]
                                     /\ JobId(q)' = JobId(q)
    BY <1>5 DEF ClaimVersion, Goto, PublisherTypes, JobId
  <2>2. pc[p] = "crate_held" /\ pc'[p] = "claimed" /\ job'[p] = job[p]
        /\ JobId(p)' = JobId(p)
    BY <1>5 DEF ClaimVersion, Goto, PublisherTypes, JobId
  <2>3. rows[JobId(p)].status = "absent"
    BY <1>5 DEF ClaimVersion, Unclaimed
  <2>4. rows' = [rows EXCEPT ![JobId(p)] = publishing_row(job[p].crate,
                                job[p].version, job[p].tarball)]
    BY <1>5 DEF ClaimVersion
  <2>5. Owner(p)'
    BY <1>1, <2>2, <2>4 DEF DatabaseTypes, publishing_row, AbsentRow
  <2>6. \A q \in Publishers \ {p} : pc[q] \in Owning =>
          JobId(q) # JobId(p) /\ rows'[JobId(q)] = rows[JobId(q)]
    BY <1>1, <2>3, <2>4 DEF DatabaseTypes, OwnedRowsExist, Owning
  <2> QED
    BY <1>2, <2>1, <2>2, <2>5, <2>6
<1>6. ASSUME NEW p \in Publishers, MarkFailed(p)
      PROVE  \A q \in Publishers : pc'[q] \in Owning =>
        /\ Owner(q)'
        /\ \A r \in Publishers \ {q} : pc'[r] \in Owning => JobId(r) # JobId(q)
  <2>1. \A q \in Publishers \ {p} : pc'[q] = pc[q] /\ job'[q] = job[q]
                                     /\ JobId(q)' = JobId(q)
    BY <1>6 DEF MarkFailed, Goto, PublisherTypes, JobId
  <2>2. pc[p] = "put_failed" /\ pc'[p] = "marked" /\ job'[p] = job[p]
        /\ JobId(p)' = JobId(p) /\ JobId(p) \in Ids
    BY <1>1, <1>6 DEF MarkFailed, Goto, PublisherTypes, JobId
  <2>3. rows' = [rows EXCEPT ![JobId(p)] = failed_row(rows[JobId(p)])]
    BY <1>6 DEF MarkFailed
  <2>4. Owner(p)'
    BY <1>2, <2>2, <2>3 DEF DatabaseTypes, failed_row, Row, Owning
  <2>5. \A q \in Publishers \ {p} : pc[q] \in Owning =>
          JobId(q) # JobId(p) /\ rows'[JobId(q)] = rows[JobId(q)]
    BY <1>1, <1>2, <2>2, <2>3 DEF DatabaseTypes, Owning
  <2>6. pc[p] \in Owning
    BY <2>2 DEF Owning
  <2> QED
    BY <1>2, <2>1, <2>2, <2>4, <2>5, <2>6
<1>7. ASSUME NEW p \in Publishers, CommitFinalize(p)
      PROVE  \A q \in Publishers : pc'[q] \in Owning =>
        /\ Owner(q)'
        /\ \A r \in Publishers \ {q} : pc'[r] \in Owning => JobId(r) # JobId(q)
  <2>1. \A q \in Publishers \ {p} : pc'[q] = pc[q] /\ job'[q] = job[q]
                                     /\ JobId(q)' = JobId(q)
    BY <1>7 DEF CommitFinalize, Reply, PublisherTypes, JobId
  <2>2. pc[p] = "finalizing" /\ pc'[p] = "idle"
    BY <1>7 DEF CommitFinalize, Reply, PublisherTypes
  <2>3. \A q \in Publishers \ {p} : pc[q] \in Owning =>
          JobId(q) # JobId(p) /\ rows'[JobId(q)] = rows[JobId(q)]
    BY <1>1, <1>2, <1>7, <2>2 DEF CommitFinalize, DatabaseTypes, Owning
  <2> QED
    BY <1>2, <2>1, <2>2, <2>3 DEF Owning
<1>8. ASSUME NEW c \in Crates, NEW v \in Versions, NEW b \in BOOLEAN,
             SetYanked(c, v, b)
      PROVE  \A q \in Publishers : pc'[q] \in Owning =>
        /\ Owner(q)'
        /\ \A r \in Publishers \ {q} : pc'[r] \in Owning => JobId(r) # JobId(q)
  <2>1. \A q \in Publishers : pc'[q] = pc[q] /\ job'[q] = job[q]
                               /\ JobId(q)' = JobId(q)
    BY <1>8 DEF SetYanked, pubVars, JobId
  <2>2. \A q \in Publishers : pc[q] \in Owning =>
          rows'[JobId(q)] = rows[JobId(q)]
    BY <1>1, <1>2, <1>8 DEF SetYanked, DatabaseTypes, Owning
  <2> QED
    BY <1>2, <2>1, <2>2
<1>9. ASSUME UNCHANGED rows,
             \A p \in Publishers :
               ~ClaimVersion(p) /\ ~MarkFailed(p) /\ ~CommitFinalize(p)
      PROVE  \A q \in Publishers : pc'[q] \in Owning =>
        /\ Owner(q)'
        /\ \A r \in Publishers \ {q} : pc'[r] \in Owning => JobId(r) # JobId(q)
  <2>1. ASSUME NEW q \in Publishers, pc'[q] \in Owning
        PROVE  pc[q] \in Owning /\ (pc'[q] = "marked" <=> pc[q] = "marked")
    BY <1>3, <1>9, <2>1, PcSteps
       DEF Owning, PublisherTypes, UpsertCrate, SendTarball, StoreTarball,
           TarballFails, BeginFinalize, Goto
  <2> QED
    BY <1>2, <1>3, <1>9, <2>1
<1> QED
  BY <1>5, <1>6, <1>7, <1>8, <1>9, RowsFrame

(* No two handlers ever work on one row, and none works on a row that is   *)
(* ready, for every number of publishers: finalize_publish needs no guard. *)
THEOREM ClaimsAreExclusive == Spec => []ClaimIsExclusive
PROOF
<1>1. Init => ClaimIsExclusive
  BY DEF Init, ClaimIsExclusive, Owning
<1> QED
  BY <1>1, ClaimStep, TypeCorrect, PTL DEF Spec

-----------------------------------------------------------------------------
(* The crate lock.                                                         *)

\* A transaction that upserted a crate has the lock of its normalized name,
\* and nobody can have inserted another spelling since it looked.
LockHeld ==
  \A p \in Publishers : pc[p] = "crate_held" =>
    crateLock[JobDir(p)] = p /\ ~NameTaken(job[p].crate)

\* The actions that write the crates table or its locks.
LEMMA CratesFrame ==
  ASSUME [Next]_vars
  PROVE  \/ UNCHANGED <<crates, crateLock>>
         \/ \E p \in Publishers : \/ UpsertCrate(p) \/ AlreadyExists(p)
                                  \/ ClaimVersion(p) \/ Abort(p)
PROOF
  BY DEF Next, vars, PublisherNext, LockStep, HandlerStep, ConsumerNext, YankNext,
         Publish, NameCollision, SendTarball, StoreTarball, TarballFails,
         MarkFailed, RecordFailed, BeginFinalize, CommitFinalize, SetYanked,
         Resolve, RequestDownload, Locate, EndDownload, LandTarball,
         dbVars, blobVars, pubVars

(* A new name enters the table only under the lock of its normalized name, *)
(* taken when no other spelling was there.                                 *)
LEMMA NamesStep ==
  /\ TypeOK /\ LockHeld /\ NormalizedNamesDiffer /\ [Next]_vars
  => LockHeld' /\ NormalizedNamesDiffer'
PROOF
<1> SUFFICES ASSUME TypeOK, LockHeld, NormalizedNamesDiffer, [Next]_vars
             PROVE  LockHeld' /\ NormalizedNamesDiffer'
  OBVIOUS
<1> USE DEF TypeOK, Types
<1>1. \A q \in Publishers : pc[q] # "idle" =>
        /\ JobDir(q) \in NormalizedNames
        /\ JobDir(q) = normalized_name[job[q].crate]
        /\ job[q].crate \in Crates
  BY JobTypes DEF JobDir
<1>2. ASSUME NEW q \in Publishers, pc'[q] = "crate_held"
      PROVE  job'[q] = job[q] /\ JobDir(q)' = JobDir(q)
             /\ (pc[q] = "crate_held" \/ UpsertCrate(q))
  BY <1>2, PcSteps
     DEF PublisherTypes, ClaimVersion, SendTarball, StoreTarball, TarballFails,
         MarkFailed, BeginFinalize, Goto, JobDir
<1>3. ASSUME NEW p \in Publishers, UpsertCrate(p)
      PROVE  LockHeld' /\ NormalizedNamesDiffer'
  <2>1. /\ pc[p] = "begin" /\ crateLock[JobDir(p)] = None
        /\ ~NameTaken(job[p].crate)
        /\ crateLock' = [crateLock EXCEPT ![JobDir(p)] = p]
        /\ crates' = crates /\ job' = job /\ pc' = [pc EXCEPT ![p] = "crate_held"]
    BY <1>3 DEF UpsertCrate, Goto
  <2>2. ASSUME NEW q \in Publishers \ {p}, pc[q] = "crate_held"
        PROVE  JobDir(q) # JobDir(p)
    BY <2>1, <2>2, NoneAssumption DEF LockHeld
  <2>3. crateLock'[JobDir(p)] = p
    BY <1>1, <2>1 DEF DatabaseTypes
  <2>4. \A q \in Publishers \ {p} : pc[q] = "crate_held" =>
          crateLock'[JobDir(q)] = q
    BY <1>1, <2>1, <2>2 DEF DatabaseTypes, LockHeld
  <2> QED
    BY <1>2, <2>1, <2>3, <2>4
       DEF LockHeld, NameTaken, NormalizedNamesDiffer, PublisherTypes, JobDir
<1>4. ASSUME NEW p \in Publishers, AlreadyExists(p) \/ Abort(p)
      PROVE  LockHeld' /\ NormalizedNamesDiffer'
  <2>1. /\ crateLock' = Unlocked(p) /\ crates' = crates
        /\ pc' = [pc EXCEPT ![p] = "idle"] /\ job' = [job EXCEPT ![p] = None]
    BY <1>4 DEF AlreadyExists, Abort, Reply
  <2>2. ASSUME NEW q \in Publishers, pc'[q] = "crate_held"
        PROVE  crateLock'[JobDir(q)'] = q /\ ~NameTaken(job'[q].crate)
    <3>1. q # p /\ pc[q] = "crate_held" /\ job'[q] = job[q]
      BY <2>1, <2>2 DEF PublisherTypes
    <3> QED
      BY <1>1, <2>1, <3>1 DEF LockHeld, Unlocked, JobDir
  <2> QED
    BY <2>1, <2>2 DEF LockHeld, NameTaken, NormalizedNamesDiffer
<1>5. ASSUME NEW p \in Publishers, ClaimVersion(p)
      PROVE  LockHeld' /\ NormalizedNamesDiffer'
  <2>1. /\ pc[p] = "crate_held" /\ crateLock' = Unlocked(p)
        /\ crates' = crates \cup {job[p].crate} /\ job' = job
        /\ pc' = [pc EXCEPT ![p] = "claimed"]
    BY <1>5 DEF ClaimVersion, Goto
  <2>2. NormalizedNamesDiffer'
    BY <2>1 DEF NormalizedNamesDiffer, NameTaken, LockHeld
  <2>3. ASSUME NEW q \in Publishers, pc'[q] = "crate_held"
        PROVE  /\ crateLock'[JobDir(q)] = q
               /\ \A d \in crates' : d # job[q].crate =>
                    normalized_name[d] # normalized_name[job[q].crate]
    <3>1. q # p /\ pc[q] = "crate_held"
      BY <2>1, <2>3 DEF PublisherTypes
    <3>2. crateLock[JobDir(q)] = q /\ crateLock[JobDir(p)] = p
          /\ ~NameTaken(job[q].crate)
      BY <2>1, <3>1 DEF LockHeld
    <3> QED
      BY <1>1, <2>1, <3>1, <3>2 DEF Unlocked, NameTaken
  <2> QED
    BY <2>1, <2>2, <2>3 DEF LockHeld, NameTaken, JobDir
<1>6. CASE /\ UNCHANGED <<crates, crateLock>>
           /\ \A p \in Publishers : ~UpsertCrate(p)
  BY <1>2, <1>6 DEF LockHeld, NameTaken, NormalizedNamesDiffer
<1> QED
  BY <1>3, <1>4, <1>5, <1>6, CratesFrame

(* Concurrent first publishes of two spellings of a name leave one crate,  *)
(* for every number of publishers.                                         *)
THEOREM NamesDiffer == Spec => []NormalizedNamesDiffer
PROOF
<1>1. Init => LockHeld /\ NormalizedNamesDiffer
  BY DEF Init, LockHeld, NormalizedNamesDiffer
<1> QED
  BY <1>1, NamesStep, TypeCorrect, PTL DEF Spec

(* A lock is taken by the step that enters "crate_held" and given back by  *)
(* each of those that leave it.                                            *)
LEMMA LockHoldersStep ==
  ASSUME TypeOK, LockHoldersGoOn, [Next]_vars
  PROVE  LockHoldersGoOn'
PROOF
<1> USE DEF TypeOK, Types
<1>1. ASSUME NEW q \in Publishers, pc[q] = "crate_held"
      PROVE  \/ pc'[q] = "crate_held" /\ job'[q] = job[q]
             \/ AlreadyExists(q) \/ ClaimVersion(q) \/ Abort(q)
  <2>1. ASSUME NEW p \in Publishers, p # q, PublisherNext(p)
        PROVE  pc'[q] = pc[q] /\ job'[q] = job[q]
    BY <2>1
       DEF PublisherTypes, PublisherNext, LockStep, HandlerStep, Publish, UpsertCrate,
           NameCollision, AlreadyExists, ClaimVersion, SendTarball, StoreTarball,
           TarballFails, MarkFailed, RecordFailed, BeginFinalize, CommitFinalize,
           Abort, Goto, Reply
  <2>2. ASSUME PublisherNext(q)
        PROVE  AlreadyExists(q) \/ ClaimVersion(q) \/ Abort(q)
    BY <1>1, <2>2
       DEF PublisherNext, LockStep, HandlerStep, Publish, UpsertCrate, NameCollision,
           SendTarball, StoreTarball, TarballFails, MarkFailed, RecordFailed,
           BeginFinalize, CommitFinalize, Goto
  <2>3. (\E p \in Publishers : PublisherNext(p)) \/ UNCHANGED <<pc, job>>
    BY DEF Next, vars, ConsumerNext, YankNext, SetYanked, Resolve, RequestDownload,
           Locate, EndDownload, LandTarball, pubVars
  <2> QED
    BY <1>1, <2>1, <2>2, <2>3
<1>2. ASSUME NEW n \in NormalizedNames, crateLock'[n] # None
      PROVE  \/ crateLock'[n] = crateLock[n]
             \/ \E p \in Publishers : UpsertCrate(p) /\ n = JobDir(p) /\ crateLock'[n] = p
  BY <1>2, CratesFrame
     DEF DatabaseTypes, UpsertCrate, AlreadyExists, ClaimVersion, Abort, Unlocked
<1>3. ASSUME NEW p \in Publishers, UpsertCrate(p)
      PROVE  pc'[p] = "crate_held" /\ JobDir(p)' = JobDir(p)
  BY <1>3 DEF UpsertCrate, Goto, PublisherTypes, JobDir
<1>4. ASSUME NEW q \in Publishers, AlreadyExists(q) \/ ClaimVersion(q) \/ Abort(q),
             NEW n \in NormalizedNames, crateLock'[n] = q
      PROVE  FALSE
  BY <1>4, NoneAssumption
     DEF AlreadyExists, ClaimVersion, Abort, Unlocked, DatabaseTypes
<1>5. ASSUME NEW n \in NormalizedNames, crateLock'[n] = crateLock[n], crateLock[n] # None
      PROVE  pc'[crateLock[n]] = "crate_held"
             /\ normalized_name[job'[crateLock[n]].crate] = n
  <2> DEFINE q == crateLock[n]
  <2>1. q \in Publishers /\ pc[q] = "crate_held" /\ JobDir(q) = n
    BY <1>5 DEF DatabaseTypes, LockHoldersGoOn
  <2>2. pc'[q] = "crate_held" /\ job'[q] = job[q]
    BY <1>1, <1>4, <1>5, <2>1
  <2> QED
    BY <2>1, <2>2 DEF JobDir
<1>6. ASSUME NEW n \in NormalizedNames, crateLock'[n] # None
      PROVE  pc'[crateLock'[n]] = "crate_held"
             /\ normalized_name[job'[crateLock'[n]].crate] = n
  BY <1>2, <1>3, <1>5, <1>6 DEF JobDir
<1> QED
  BY <1>6 DEF LockHoldersGoOn, JobDir

(* Whoever has a crate locked is on its way to give it back, so that       *)
(* publishes never wait for each other in a circle.                        *)
THEOREM LockHoldersAlwaysGoOn == Spec => []LockHoldersGoOn
PROOF
<1>1. Init => LockHoldersGoOn
  BY DEF Init, LockHoldersGoOn
<1>2. TypeOK /\ LockHoldersGoOn /\ [Next]_vars => LockHoldersGoOn'
  BY LockHoldersStep
<1> QED
  BY <1>1, <1>2, TypeCorrect, PTL DEF Spec

-----------------------------------------------------------------------------
(* What a step does to a row, by the status the row has.                   *)
LEMMA RowSteps ==
  ASSUME TypeOK, ClaimIsExclusive, [Next]_vars, NEW id \in Ids
  PROVE  /\ rows[id].status = "absent" =>
              rows'[id] = rows[id] \/ \E p \in Publishers :
                                         ClaimVersion(p) /\ JobId(p) = id
         /\ rows[id].status = "publishing" =>
              \/ rows'[id] = rows[id]
              \/ \E p \in Publishers : (MarkFailed(p) \/ CommitFinalize(p))
                                         /\ JobId(p) = id
         /\ rows[id].status = "failed" => rows'[id] = rows[id]
         /\ rows[id].status = "ready" =>
              \E b \in BOOLEAN : rows'[id] = [rows[id] EXCEPT !.yanked = b]
PROOF
<1> USE DEF TypeOK, Types
<1>0. rows[id] \in Row /\ rows[id] = [rows[id] EXCEPT !.yanked = rows[id].yanked]
      /\ rows[id].yanked \in BOOLEAN
  BY DEF DatabaseTypes, Row
<1>1. \A q \in Publishers : pc[q] # "idle" => JobId(q) \in Ids
  BY JobTypes
<1>2. ASSUME NEW p \in Publishers, ClaimVersion(p)
      PROVE  \/ rows'[id] = rows[id]
             \/ rows[id].status = "absent" /\ JobId(p) = id
  BY <1>1, <1>2 DEF ClaimVersion, Goto, Unclaimed, DatabaseTypes
<1>3. ASSUME NEW p \in Publishers, MarkFailed(p) \/ CommitFinalize(p)
      PROVE  \/ rows'[id] = rows[id]
             \/ rows[id].status = "publishing" /\ JobId(p) = id
  <2>1. pc[p] \in {"put_failed", "finalizing"}
    BY <1>3 DEF MarkFailed, CommitFinalize, Goto
  <2>2. rows[JobId(p)].status = "publishing"
    BY <2>1 DEF ClaimIsExclusive, Owning
  <2> QED
    BY <1>1, <1>3, <2>1, <2>2 DEF MarkFailed, CommitFinalize, DatabaseTypes
<1>4. ASSUME NEW c \in Crates, NEW v \in Versions, NEW b \in BOOLEAN,
             SetYanked(c, v, b)
      PROVE  \/ rows'[id] = rows[id]
             \/ /\ rows[id].status = "ready"
                /\ rows'[id] = [rows[id] EXCEPT !.yanked = b]
  BY <1>4 DEF SetYanked, DatabaseTypes
<1> QED
  BY <1>0, <1>2, <1>3, <1>4, RowsFrame

(* A failed version, or one whose handler is gone, never becomes visible:  *)
(* the row is its own tombstone, whatever the other handlers do.           *)
THEOREM BurnedStaysBurned == Spec => BurnedForGood
PROOF
<1>1. TypeOK /\ ClaimIsExclusive /\ [Next]_vars =>
        [\A id \in Ids :
           \/ rows[id].status = "failed"
           \/ /\ rows[id].status = "publishing"
              /\ \A p \in Publishers : pc[p] \in Owning => JobId(p) # id
           => rows'[id] = rows[id]]_vars
  BY RowSteps DEF MarkFailed, CommitFinalize, Goto, Owning
<1> QED
  BY <1>1, TypeCorrect, ClaimsAreExclusive, PTL DEF Spec, BurnedForGood

(* The actions that write events.                                          *)
LEMMA EventsFrame ==
  ASSUME [Next]_vars
  PROVE  \/ UNCHANGED events
         \/ \E p \in Publishers : ClaimVersion(p) \/ RecordFailed(p) \/ CommitFinalize(p)
PROOF
  BY DEF Next, vars, PublisherNext, LockStep, HandlerStep, ConsumerNext, YankNext,
         Publish, UpsertCrate, NameCollision, AlreadyExists, SendTarball,
         StoreTarball, TarballFails, MarkFailed, BeginFinalize, Abort, SetYanked,
         Resolve, RequestDownload, Locate, EndDownload, LandTarball,
         dbVars, blobVars, pubVars

(* A step that records a failure is taken by the owner of a row it marked  *)
(* failed, and a failed row stays failed.                                  *)
LEMMA FailureEventStep ==
  TypeOK /\ ClaimIsExclusive /\ FailureEventIsTrue /\ [Next]_vars
  => FailureEventIsTrue'
PROOF
<1> SUFFICES ASSUME TypeOK, ClaimIsExclusive, FailureEventIsTrue, [Next]_vars,
                    NEW id \in Ids, <<"publish_failed", id>> \in events'
             PROVE  rows'[id].status = "failed"
  BY DEF FailureEventIsTrue
<1> SUFFICES rows[id].status = "failed"
  BY RowSteps
<1>1. CASE <<"publish_failed", id>> \in events
  BY <1>1 DEF FailureEventIsTrue
<1>2. ASSUME NEW p \in Publishers, RecordFailed(p), JobId(p) = id
      PROVE  rows[id].status = "failed"
  BY <1>2 DEF RecordFailed, ClaimIsExclusive, Owning
<1>3. ASSUME NEW p \in Publishers,
             ClaimVersion(p) \/ RecordFailed(p) \/ CommitFinalize(p)
      PROVE  \/ <<"publish_failed", id>> \in events
             \/ RecordFailed(p) /\ JobId(p) = id
  BY <1>3 DEF ClaimVersion, RecordFailed, CommitFinalize
<1> QED
  BY <1>1, <1>2, <1>3, EventsFrame

(* The audit trail never calls a version failed that is or becomes ready.  *)
THEOREM FailureEventsAreTrue == Spec => []FailureEventIsTrue
PROOF
<1>1. Init => FailureEventIsTrue
  BY DEF Init, FailureEventIsTrue
<1> QED
  BY <1>1, FailureEventStep, TypeCorrect, ClaimsAreExclusive, PTL DEF Spec

(* Rows leave "absent" and come to "ready" by the steps that write the     *)
(* event, and never leave "ready".                                         *)
LEMMA EventsStep ==
  ASSUME TypeOK, ClaimIsExclusive, EventsTellTheStatus, [Next]_vars
  PROVE  EventsTellTheStatus'
PROOF
<1> SUFFICES ASSUME NEW id \in Ids
             PROVE  /\ <<"publish_started", id>> \in events' <=> rows'[id].status # "absent"
                    /\ <<"publish_ready", id>> \in events' <=> rows'[id].status = "ready"
  BY DEF EventsTellTheStatus
<1>1. /\ <<"publish_started", id>> \in events <=> rows[id].status # "absent"
      /\ <<"publish_ready", id>> \in events <=> rows[id].status = "ready"
  BY DEF EventsTellTheStatus
<1>2. rows[id] \in Row /\ rows \in [Ids -> Row]
  BY DEF TypeOK, Types, DatabaseTypes
<1>3. \A p \in Publishers : pc[p] # "idle" => JobId(p) \in Ids
  BY JobTypes DEF TypeOK, Types
<1>4. ASSUME NEW p \in Publishers, ClaimVersion(p), JobId(p) = id
      PROVE  /\ rows[id].status = "absent" /\ rows'[id].status = "publishing"
             /\ events' = events \cup {<<"publish_started", id>>}
  BY <1>2, <1>4 DEF ClaimVersion, Unclaimed, publishing_row, AbsentRow
<1>5. ASSUME NEW p \in Publishers, CommitFinalize(p), JobId(p) = id
      PROVE  /\ rows[id].status = "publishing" /\ rows'[id].status = "ready"
             /\ events' = events \cup {<<"publish_ready", id>>}
  BY <1>2, <1>5 DEF CommitFinalize, ready_row, ClaimIsExclusive, Owning, Row
<1>6. ASSUME NEW p \in Publishers, MarkFailed(p), JobId(p) = id
      PROVE  rows'[id].status = "failed" /\ rows[id].status = "publishing" /\ events' = events
  BY <1>2, <1>6 DEF MarkFailed, Goto, failed_row, ClaimIsExclusive, Owning, Row
<1>7. ASSUME \A p \in Publishers : JobId(p) = id =>
               ~ClaimVersion(p) /\ ~CommitFinalize(p) /\ ~MarkFailed(p)
      PROVE  /\ rows'[id].status = rows[id].status
             /\ <<"publish_started", id>> \in events' <=> <<"publish_started", id>> \in events
             /\ <<"publish_ready", id>> \in events' <=> <<"publish_ready", id>> \in events
  <2>1. rows'[id].status = rows[id].status
    <3>1. rows[id].status \in Statuses
      BY <1>2 DEF Row
    <3> QED
      BY <1>2, <1>7, <3>1, RowSteps DEF Row, Statuses
  <2>2. ASSUME NEW p \in Publishers,
               ClaimVersion(p) \/ RecordFailed(p) \/ CommitFinalize(p)
        PROVE  \A e \in {"publish_started", "publish_ready"} :
                 <<e, id>> \in events' <=> <<e, id>> \in events
    BY <1>7, <2>2 DEF ClaimVersion, RecordFailed, CommitFinalize
  <2> QED
    BY <2>1, <2>2, EventsFrame
<1> QED
  BY <1>1, <1>4, <1>5, <1>6, <1>7

(* The audit trail and the rows agree, for every number of publishers.     *)
THEOREM EventsAlwaysTellTheStatus == Spec => []EventsTellTheStatus
PROOF
<1>1. Init => EventsTellTheStatus
  BY DEF Init, EventsTellTheStatus, AbsentRow
<1>2. TypeOK /\ ClaimIsExclusive /\ EventsTellTheStatus /\ [Next]_vars
      => EventsTellTheStatus'
  BY EventsStep
<1> QED
  BY <1>1, <1>2, TypeCorrect, ClaimsAreExclusive, PTL DEF Spec

-----------------------------------------------------------------------------
(* The bucket.  Object keys share digest prefixes and may even share whole *)
(* digests; a PUT is remembered by its row, which one handler ever claims. *)
KeyId(key) == Id(key.crate, key.version)

\* Every PUT was sent for a row that is still there, with its version and cksum.
SentForARow ==
  \A w \in sent :
    /\ w.key = object_key(w.key.crate, w.key.version, w.bytes)
    /\ rows[KeyId(w.key)].status # "absent"
    /\ rows[KeyId(w.key)].version = w.key.version
    /\ rows[KeyId(w.key)].cksum = hex_digest_sha256[w.bytes]

OnePutPerRow == \A w, x \in sent : KeyId(w.key) = KeyId(x.key) => w = x

NotSentYet == \A p \in Publishers : pc[p] = "claimed" =>
                \A w \in sent : KeyId(w.key) # JobId(p)

JobSent == \A p \in Publishers : pc[p] \in {"putting", "stored", "finalizing"} =>
             JobPut(p) \in sent

BlobWasSent == \A k \in ObjectKeys : blobs[k] # None =>
                 [key |-> k, bytes |-> blobs[k]] \in sent

StoredIsThere == \A p \in Publishers : pc[p] \in {"stored", "finalizing"} =>
                   blobs[JobKey(p)] = job[p].tarball

BucketInv == /\ SentForARow /\ OnePutPerRow /\ NotSentYet
             /\ JobSent /\ BlobWasSent /\ StoredIsThere

(* An object key determines the row it belongs to.                         *)
LEMMA KeyIds ==
  /\ \A k \in ObjectKeys : KeyId(k) \in Ids
  /\ \A p \in Publishers : JobPut(p).key = JobKey(p)
                           /\ JobPut(p).bytes = job[p].tarball
                           /\ KeyId(JobKey(p)) = JobId(p)
  /\ \A c, v, t : KeyId(object_key(c, v, t)) = Id(c, v)
PROOF
  BY SemverKeyAssumption
     DEF KeyId, Id, Ids, ObjectKeys, JobPut, JobKey, JobId, object_key

\* A row keeps the version and the cksum it was claimed with.
LEMMA RowsKeep ==
  ASSUME TypeOK, ClaimIsExclusive, [Next]_vars, NEW id \in Ids,
         rows[id].status # "absent"
  PROVE  /\ rows'[id].status # "absent"
         /\ rows'[id].version = rows[id].version
         /\ rows'[id].cksum = rows[id].cksum
PROOF
<1>1. rows[id] \in Row
  BY DEF TypeOK, Types, DatabaseTypes
<1>2. ASSUME NEW p \in Publishers, MarkFailed(p) \/ CommitFinalize(p), JobId(p) = id
      PROVE  \/ rows'[id] = failed_row(rows[id])
             \/ rows'[id] = ready_row(rows[id], JobKey(p))
  BY <1>2 DEF MarkFailed, CommitFinalize, TypeOK, Types, DatabaseTypes
<1>3. \/ rows'[id] = rows[id]
      \/ rows'[id] = failed_row(rows[id])
      \/ \E p \in Publishers :
           rows'[id] = ready_row(rows[id], JobKey(p))
      \/ \E b \in BOOLEAN : rows'[id] = [rows[id] EXCEPT !.yanked = b]
                             /\ rows[id].status = "ready"
  BY <1>1, <1>2, RowSteps DEF Row, Statuses
<1> QED
  BY <1>1, <1>3 DEF failed_row, ready_row, Row

\* The actions that write the bucket.
LEMMA BucketFrame ==
  ASSUME [Next]_vars
  PROVE  \/ UNCHANGED blobVars
         \/ \E p \in Publishers : SendTarball(p) \/ StoreTarball(p)
         \/ \E w \in sent : LandTarball(w)
PROOF
  BY DEF Next, vars, PublisherNext, LockStep, HandlerStep, ConsumerNext, YankNext,
         Publish, UpsertCrate, NameCollision, AlreadyExists, ClaimVersion,
         TarballFails, MarkFailed, RecordFailed, BeginFinalize, CommitFinalize,
         Abort, SetYanked, Resolve, RequestDownload, Locate, EndDownload,
         dbVars, blobVars, pubVars

\* An object never changes once it is there: late and repeated PUTs rewrite
\* the same bytes.
LEMMA BlobsStay ==
  ASSUME TypeOK, BucketInv, [Next]_vars, NEW k \in ObjectKeys, blobs[k] # None
  PROVE  blobs'[k] = blobs[k]
PROOF
<1> USE DEF TypeOK, Types
<1>1. [key |-> k, bytes |-> blobs[k]] \in sent
  BY DEF BucketInv, BlobWasSent
<1>2. ASSUME NEW w \in sent, w.key = k  PROVE  w.bytes = blobs[k]
  BY <1>1, <1>2 DEF BucketInv, OnePutPerRow
<1>3. ASSUME NEW p \in Publishers, StoreTarball(p)  PROVE  blobs'[k] = blobs[k]
  <2>1. JobPut(p) \in sent
    BY <1>3 DEF StoreTarball, Goto, BucketInv, JobSent
  <2> QED
    BY <1>2, <1>3, <2>1, KeyIds DEF StoreTarball, BucketTypes
<1>4. ASSUME NEW w \in sent, LandTarball(w)  PROVE  blobs'[k] = blobs[k]
  BY <1>2, <1>4 DEF LandTarball, BucketTypes
<1>5. ASSUME NEW p \in Publishers, SendTarball(p)  PROVE  blobs'[k] = blobs[k]
  BY <1>5 DEF SendTarball
<1> QED
  BY <1>3, <1>4, <1>5, BucketFrame DEF blobVars

(* One PUT at most is ever sent for a row, with the tarball its cksum was  *)
(* computed from, so that PUTs that land late or twice change nothing.     *)
LEMMA BucketStep ==
  TypeOK /\ ClaimIsExclusive /\ BucketInv /\ [Next]_vars => BucketInv'
PROOF
<1> SUFFICES ASSUME TypeOK, ClaimIsExclusive, BucketInv, [Next]_vars
             PROVE  BucketInv'
  OBVIOUS
<1> USE DEF TypeOK, Types
<1>1. sent \subseteq sent'
  BY BucketFrame DEF SendTarball, StoreTarball, LandTarball, blobVars
<1>2. \A w \in sent : w \in Puts /\ w.key \in ObjectKeys /\ w.bytes \in Tarballs
                      /\ KeyId(w.key) \in Ids
  BY KeyIds DEF BucketTypes, Puts
<1>3. \A q \in Publishers : pc[q] # "idle" =>
        /\ JobId(q) \in Ids /\ JobPut(q) \in Puts /\ JobKey(q) \in ObjectKeys
        /\ job[q].crate \in Crates /\ job[q].version \in Versions
        /\ job[q].tarball \in Tarballs
  BY JobTypes
\* What SendTarball adds.
<1>4. ASSUME NEW w \in sent', w \notin sent
      PROVE  \E p \in Publishers :
               SendTarball(p) /\ w = JobPut(p) /\ sent' = sent \cup {w}
                              /\ UNCHANGED <<rows, job>>
  BY <1>4, BucketFrame
     DEF SendTarball, StoreTarball, LandTarball, blobVars, dbVars
<1>5. SentForARow'
  <2> SUFFICES ASSUME NEW w \in sent'
               PROVE  /\ w.key = object_key(w.key.crate, w.key.version, w.bytes)
                      /\ rows'[KeyId(w.key)].status # "absent"
                      /\ rows'[KeyId(w.key)].version = w.key.version
                      /\ rows'[KeyId(w.key)].cksum = hex_digest_sha256[w.bytes]
    BY DEF SentForARow
  <2>1. CASE w \in sent
    BY <1>2, <2>1, RowsKeep DEF BucketInv, SentForARow
  <2>2. ASSUME NEW p \in Publishers, SendTarball(p), w = JobPut(p), UNCHANGED rows
        PROVE  /\ w.key = object_key(w.key.crate, w.key.version, w.bytes)
               /\ rows[KeyId(w.key)].status # "absent"
               /\ rows[KeyId(w.key)].version = w.key.version
               /\ rows[KeyId(w.key)].cksum = hex_digest_sha256[w.bytes]
    <3>1. pc[p] = "claimed"
      BY <2>2 DEF SendTarball, Goto
    <3>2. /\ rows[JobId(p)].status = "publishing"
          /\ rows[JobId(p)].version = job[p].version
          /\ rows[JobId(p)].cksum = hex_digest_sha256[job[p].tarball]
      BY <3>1 DEF ClaimIsExclusive, Owning
    <3>3. KeyId(w.key) = JobId(p) /\ w.key = JobKey(p) /\ w.bytes = job[p].tarball
      BY <2>2, KeyIds
    <3>4. w.key.crate = job[p].crate /\ w.key.version = job[p].version
      BY <3>3 DEF JobKey, object_key
    <3> QED
      BY <3>2, <3>3, <3>4 DEF JobKey
  <2> QED
    BY <1>4, <2>1, <2>2
<1>6. OnePutPerRow'
  <2>1. ASSUME NEW w \in sent', w \notin sent, NEW x \in sent
        PROVE  KeyId(w.key) # KeyId(x.key)
    <3> PICK p \in Publishers : SendTarball(p) /\ w = JobPut(p)
      BY <1>4, <2>1
    <3> QED
      BY KeyIds DEF SendTarball, Goto, BucketInv, NotSentYet
  <2> QED
    BY <1>4, <2>1 DEF BucketInv, OnePutPerRow
<1>7. NotSentYet'
  <2> SUFFICES ASSUME NEW q \in Publishers, pc'[q] = "claimed", NEW w \in sent'
               PROVE  KeyId(w.key) # JobId(q)'
    BY DEF NotSentYet
  <2>1. job'[q] = job[q] /\ JobId(q)' = JobId(q)
        /\ (pc[q] = "claimed" \/ ClaimVersion(q))
    BY PcSteps
       DEF PublisherTypes, UpsertCrate, SendTarball, StoreTarball, TarballFails,
           MarkFailed, BeginFinalize, Goto, JobId
  <2>2. CASE ClaimVersion(q)
    <3>1. w \in sent /\ rows[JobId(q)].status = "absent"
      BY <2>2 DEF ClaimVersion, Unclaimed, blobVars
    <3> QED
      BY <2>1, <3>1 DEF BucketInv, SentForARow
  <2>3. CASE pc[q] = "claimed" /\ w \in sent
    BY <2>1, <2>3 DEF BucketInv, NotSentYet
  <2>4. ASSUME pc[q] = "claimed", NEW p \in Publishers, SendTarball(p), w = JobPut(p)
        PROVE  KeyId(w.key) # JobId(q)
    <3>1. p # q /\ pc[p] = "claimed"
      BY <2>4 DEF SendTarball, Goto, PublisherTypes
    <3>2. JobId(p) # JobId(q)
      BY <2>4, <3>1 DEF ClaimIsExclusive, Owning
    <3> QED
      BY <2>4, <3>2, KeyIds
  <2> QED
    BY <1>4, <2>1, <2>2, <2>3, <2>4
<1>8. JobSent'
  <2> SUFFICES ASSUME NEW q \in Publishers,
                      pc'[q] \in {"putting", "stored", "finalizing"}
               PROVE  JobPut(q)' \in sent'
    BY DEF JobSent
  <2>1. job'[q] = job[q] /\ JobPut(q)' = JobPut(q)
        /\ (pc[q] \in {"putting", "stored", "finalizing"} \/ SendTarball(q))
    BY PcSteps
       DEF PublisherTypes, UpsertCrate, ClaimVersion, StoreTarball, TarballFails,
           MarkFailed, BeginFinalize, Goto, JobPut, JobKey
  <2> QED
    BY <1>1, <2>1 DEF BucketInv, JobSent, SendTarball
<1>9. BlobWasSent'
  <2> SUFFICES ASSUME NEW k \in ObjectKeys, blobs'[k] # None
               PROVE  [key |-> k, bytes |-> blobs'[k]] \in sent'
    BY DEF BlobWasSent
  <2>1. CASE blobs'[k] = blobs[k]
    BY <1>1, <2>1 DEF BucketInv, BlobWasSent
  <2>2. ASSUME NEW p \in Publishers, StoreTarball(p), blobs'[k] # blobs[k]
        PROVE  [key |-> k, bytes |-> blobs'[k]] = JobPut(p) /\ JobPut(p) \in sent
    BY <1>3, <2>2
       DEF StoreTarball, Goto, BucketInv, JobSent, BucketTypes, JobPut
  <2>3. ASSUME NEW w \in sent, LandTarball(w), blobs'[k] # blobs[k]
        PROVE  [key |-> k, bytes |-> blobs'[k]] = w
    BY <1>2, <2>3 DEF LandTarball, BucketTypes, Puts
  <2> QED
    BY <1>1, <2>1, <2>2, <2>3, BucketFrame DEF SendTarball, blobVars
<1>10. StoredIsThere'
  <2> SUFFICES ASSUME NEW q \in Publishers, pc'[q] \in {"stored", "finalizing"}
               PROVE  blobs'[JobKey(q)'] = job'[q].tarball
    BY DEF StoredIsThere
  <2>1. job'[q] = job[q] /\ JobKey(q)' = JobKey(q)
        /\ (pc[q] \in {"stored", "finalizing"} \/ StoreTarball(q))
    BY PcSteps
       DEF PublisherTypes, UpsertCrate, ClaimVersion, SendTarball, TarballFails,
           MarkFailed, BeginFinalize, Goto, JobKey
  <2>2. CASE StoreTarball(q)
    BY <1>3, <2>1, <2>2 DEF StoreTarball, Goto, BucketTypes
  <2>3. CASE pc[q] \in {"stored", "finalizing"}
    <3>1. blobs[JobKey(q)] = job[q].tarball /\ blobs[JobKey(q)] # None
          /\ JobKey(q) \in ObjectKeys
      BY <1>3, <2>3, NoneAssumption DEF BucketInv, StoredIsThere
    <3> QED
      BY <2>1, <3>1, BlobsStay
  <2> QED
    BY <2>1, <2>2, <2>3
<1> QED
  BY <1>5, <1>6, <1>7, <1>8, <1>9, <1>10 DEF BucketInv

(* The bucket's invariant, in every behaviour.                             *)
LEMMA BucketCorrect == Spec => []BucketInv
PROOF
<1>1. Init => BucketInv
  BY DEF Init, BucketInv, SentForARow, OnePutPerRow, NotSentYet, JobSent,
         BlobWasSent, StoredIsThere
<1> QED
  BY <1>1, BucketStep, TypeCorrect, ClaimsAreExclusive, PTL DEF Spec

-----------------------------------------------------------------------------
(* What a client is served.                                                *)

\* A ready row points at an object of its own crate and version.
ReadyRows ==
  \A id \in Ids : rows[id].status = "ready" =>
    /\ rows[id].object_key \in ObjectKeys
    /\ rows[id].object_key.crate = id[1]
    /\ rows[id].object_key.version = rows[id].version
    /\ semver_key[rows[id].version] = id[2]
    /\ blobs[rows[id].object_key] # None

\* A client that read an index line still finds the cksum it read; one that
\* is about to fetch an object will get those bytes.
DownloadsAreServed ==
  \A d \in Consumers :
    /\ cons[d].pc = "resolved" /\ cons[d].cksum # None =>
         /\ Downloadable(cons[d].crate, cons[d].version)
         /\ rows[Id(cons[d].crate, cons[d].version)].cksum = cons[d].cksum
    /\ cons[d].pc = "located" =>
         /\ cons[d].object_key \in ObjectKeys
         /\ blobs[cons[d].object_key] # None
         /\ cons[d].cksum # None =>
              hex_digest_sha256[blobs[cons[d].object_key]] = cons[d].cksum

IInv == /\ TypeOK /\ ClaimIsExclusive /\ BucketInv
        /\ ReadyRows /\ AckedIsServed /\ DownloadsAreServed

\* A ready row keeps everything but its yanked flag.
LEMMA ReadyStays ==
  ASSUME TypeOK, ClaimIsExclusive, [Next]_vars, NEW id \in Ids,
         rows[id].status = "ready"
  PROVE  /\ rows'[id].status = "ready"
         /\ rows'[id].version = rows[id].version
         /\ rows'[id].cksum = rows[id].cksum
         /\ rows'[id].object_key = rows[id].object_key
PROOF
<1>1. rows[id] \in Row
  BY DEF TypeOK, Types, DatabaseTypes
<1>2. PICK b \in BOOLEAN : rows'[id] = [rows[id] EXCEPT !.yanked = b]
  BY RowSteps
<1> QED
  BY <1>1, <1>2 DEF Row

\* The step that makes a row ready, and what it makes of it.
LEMMA CommitMakesReady ==
  ASSUME TypeOK, ClaimIsExclusive, BucketInv, [Next]_vars,
         NEW p \in Publishers, CommitFinalize(p)
  PROVE  /\ JobId(p) \in Ids
         /\ JobId(p) = <<job[p].crate, semver_key[job[p].version]>>
         /\ rows[JobId(p)].status = "publishing"
         /\ rows'[JobId(p)].status = "ready"
         /\ rows'[JobId(p)].object_key = JobKey(p)
         /\ rows'[JobId(p)].version = job[p].version
         /\ rows'[JobId(p)].cksum = hex_digest_sha256[job[p].tarball]
         /\ rows'[JobId(p)].yanked = rows[JobId(p)].yanked
         /\ blobs[JobKey(p)] = job[p].tarball
         /\ blobs[JobKey(p)] # None
         /\ JobKey(p) \in ObjectKeys /\ job[p] \in Jobs
PROOF
<1>1. pc[p] = "finalizing"
  BY DEF CommitFinalize
<1>2. JobId(p) \in Ids /\ JobKey(p) \in ObjectKeys /\ job[p].tarball \in Tarballs
      /\ job[p] \in Jobs
  BY <1>1, JobTypes DEF TypeOK, Types
<1>3. rows[JobId(p)] \in Row
  BY <1>2 DEF TypeOK, Types, DatabaseTypes
<1>4. rows'[JobId(p)] = ready_row(rows[JobId(p)], JobKey(p))
  BY <1>2 DEF CommitFinalize, TypeOK, Types, DatabaseTypes
<1>5. /\ rows[JobId(p)].status = "publishing"
      /\ rows[JobId(p)].version = job[p].version
      /\ rows[JobId(p)].cksum = hex_digest_sha256[job[p].tarball]
  BY <1>1 DEF ClaimIsExclusive, Owning
<1>6. blobs[JobKey(p)] = job[p].tarball
  BY <1>1 DEF BucketInv, StoredIsThere
<1> QED
  BY <1>2, <1>3, <1>4, <1>5, <1>6, NoneAssumption
     DEF ready_row, Row, JobId, Id

(* A row is ready after a step if it was before or the step is a commit of *)
(* finalize_publish.                                                       *)
LEMMA ReadyIsCommitted ==
  ASSUME TypeOK, ClaimIsExclusive, [Next]_vars, NEW id \in Ids,
         rows'[id].status = "ready", rows[id].status # "ready"
  PROVE  \E p \in Publishers : CommitFinalize(p) /\ JobId(p) = id
PROOF
<1> USE DEF TypeOK, Types
<1>1. ASSUME NEW p \in Publishers, ClaimVersion(p), JobId(p) = id
      PROVE  rows'[id].status # "ready"
  BY <1>1 DEF ClaimVersion, DatabaseTypes, publishing_row, AbsentRow
<1>2. ASSUME NEW p \in Publishers, MarkFailed(p), JobId(p) = id
      PROVE  rows'[id].status # "ready"
  BY <1>2 DEF MarkFailed, DatabaseTypes, failed_row, Row
<1>3. rows[id].status \in Statuses
  BY DEF DatabaseTypes, Row
<1> QED
  BY <1>1, <1>2, <1>3, RowSteps DEF Statuses

\* What a stored object's digest is.
LEMMA ReadyCksum ==
  ASSUME TypeOK, BucketInv, ReadyRows, NEW id \in Ids, rows[id].status = "ready"
  PROVE  hex_digest_sha256[blobs[rows[id].object_key]] = rows[id].cksum
PROOF
<1> DEFINE k == rows[id].object_key
           w == [key |-> k, bytes |-> blobs[k]]
<1>1. k \in ObjectKeys /\ blobs[k] # None /\ k.crate = id[1]
      /\ semver_key[k.version] = id[2]
  BY DEF ReadyRows
<1>2. w \in sent
  BY <1>1 DEF BucketInv, BlobWasSent
<1>3. KeyId(k) = id
  BY <1>1 DEF KeyId, Id, Ids
<1> QED
  BY <1>2, <1>3 DEF BucketInv, SentForARow

(* IInv is inductive.                                                      *)
LEMMA ServedStep == IInv /\ [Next]_vars => IInv'
PROOF
<1> SUFFICES ASSUME IInv, [Next]_vars PROVE IInv'
  OBVIOUS
<1> USE DEF IInv
<1>1. TypeOK' /\ ClaimIsExclusive' /\ BucketInv'
  BY TypesStep, OwnedStep, ClaimStep, BucketStep DEF TypeOK
<1>2. ReadyRows'
  <2> SUFFICES ASSUME NEW id \in Ids, rows'[id].status = "ready"
               PROVE  /\ rows'[id].object_key \in ObjectKeys
                      /\ rows'[id].object_key.crate = id[1]
                      /\ rows'[id].object_key.version = rows'[id].version
                      /\ semver_key[rows'[id].version] = id[2]
                      /\ blobs'[rows'[id].object_key] # None
    BY DEF ReadyRows
  <2>1. CASE rows[id].status = "ready"
    <3>1. /\ rows[id].object_key \in ObjectKeys
          /\ rows[id].object_key.crate = id[1]
          /\ rows[id].object_key.version = rows[id].version
          /\ semver_key[rows[id].version] = id[2]
          /\ blobs[rows[id].object_key] # None
      BY <2>1 DEF ReadyRows
    <3> QED
      BY <2>1, <3>1, ReadyStays, BlobsStay
  <2>2. CASE rows[id].status # "ready"
    <3>1. PICK p \in Publishers : CommitFinalize(p) /\ JobId(p) = id
      BY <2>2, ReadyIsCommitted
    <3>2. JobKey(p).crate = job[p].crate /\ JobKey(p).version = job[p].version
      BY DEF JobKey, object_key
    <3>3. blobs' = blobs
      BY <3>1 DEF CommitFinalize, blobVars
    <3> QED
      BY <3>1, <3>2, <3>3, CommitMakesReady
  <2> QED
    BY <2>1, <2>2
<1>3. AckedIsServed'
  <2> SUFFICES ASSUME NEW a \in acked'
               PROVE  /\ rows'[Id(a.crate, a.version)].status = "ready"
                      /\ rows'[Id(a.crate, a.version)].version = a.version
                      /\ blobs'[rows'[Id(a.crate, a.version)].object_key] = a.tarball
    BY DEF AckedIsServed
  <2>1. CASE a \in acked
    <3>1. a \in Jobs /\ Id(a.crate, a.version) \in Ids /\ a.tarball # None
      BY <2>1, RowTypes, NoneAssumption DEF TypeOK, Types, PublisherTypes, Jobs
    <3>2. /\ rows[Id(a.crate, a.version)].status = "ready"
          /\ rows[Id(a.crate, a.version)].version = a.version
          /\ blobs[rows[Id(a.crate, a.version)].object_key] = a.tarball
      BY <2>1 DEF AckedIsServed
    <3>3. rows[Id(a.crate, a.version)].object_key \in ObjectKeys
      BY <3>1, <3>2 DEF ReadyRows
    <3> QED
      BY <3>1, <3>2, <3>3, ReadyStays, BlobsStay
  <2>2. CASE a \notin acked
    <3>1. PICK p \in Publishers : CommitFinalize(p) /\ a = job[p]
      BY <2>2 DEF Next, vars, PublisherNext, LockStep, HandlerStep, ConsumerNext,
         YankNext, Publish, UpsertCrate, NameCollision, AlreadyExists, ClaimVersion,
         SendTarball, StoreTarball, TarballFails, MarkFailed, RecordFailed,
         BeginFinalize, CommitFinalize, Abort, SetYanked,
         Resolve, RequestDownload, Locate, EndDownload, LandTarball
    <3>2. blobs' = blobs /\ JobId(p) = Id(a.crate, a.version)
      BY <3>1 DEF CommitFinalize, blobVars, JobId
    <3> QED
      BY <3>1, <3>2, CommitMakesReady
  <2> QED
    BY <2>1, <2>2
<1>4. DownloadsAreServed'
  <2> DEFINE id(x) == Id(x.crate, x.version)
             Offered(x) == /\ rows'[id(x)].status = "ready"
                           /\ rows'[id(x)].version = x.version
                           /\ rows'[id(x)].cksum = x.cksum
  <2> SUFFICES ASSUME NEW d \in Consumers
               PROVE  /\ cons'[d].pc = "resolved" /\ cons'[d].cksum # None =>
                           Offered(cons'[d])
                      /\ cons'[d].pc = "located" =>
                           /\ cons'[d].object_key \in ObjectKeys
                           /\ blobs'[cons'[d].object_key] # None
                           /\ cons'[d].cksum # None =>
                                hex_digest_sha256[blobs'[cons'[d].object_key]]
                                  = cons'[d].cksum
    BY DEF DownloadsAreServed, Downloadable
  <2>1. CASE cons'[d] = cons[d]
    <3>1. cons[d].pc # "idle" => id(cons[d]) \in Ids
      BY RowTypes, SemverKeyAssumption DEF TypeOK, Types, ConsumerTypes, Id, Ids
    <3>2. CASE cons[d].pc = "resolved" /\ cons[d].cksum # None
      BY <2>1, <3>1, <3>2, ReadyStays DEF DownloadsAreServed, Downloadable
    <3>3. CASE cons[d].pc = "located"
      BY <2>1, <3>3, BlobsStay DEF DownloadsAreServed
    <3> QED
      BY <2>1, <3>2, <3>3
  <2>2. ASSUME NEW i \in Ids, Resolve(d, i)
        PROVE  Offered(cons'[d]) /\ cons'[d].pc = "resolved"
    <3>1. cons'[d] = [pc |-> "resolved", crate |-> i[1],
                      version |-> rows[i].version, cksum |-> rows[i].cksum,
                      object_key |-> None]
      BY <2>2 DEF Resolve, TypeOK, Types, ConsumerTypes
    <3>2. rows[i].status = "ready" /\ rows' = rows
      BY <2>2 DEF Resolve, Listed, dbVars
    <3>3. Id(i[1], rows[i].version) = i
      BY <3>2 DEF ReadyRows, Id, Ids
    <3> QED
      BY <3>1, <3>2, <3>3 DEF Downloadable
  <2>3. ASSUME NEW c \in Crates, NEW v \in Versions, RequestDownload(d, c, v)
        PROVE  cons'[d].pc = "resolved" /\ cons'[d].cksum = None
    BY <2>3 DEF RequestDownload, TypeOK, Types, ConsumerTypes
  <2>4. ASSUME Locate(d)
        PROVE  /\ cons'[d].pc = "located"
               /\ cons'[d].object_key \in ObjectKeys
               /\ blobs'[cons'[d].object_key] # None
               /\ cons'[d].cksum # None =>
                    hex_digest_sha256[blobs'[cons'[d].object_key]] = cons'[d].cksum
    <3>1. /\ cons[d].pc = "resolved" /\ rows[id(cons[d])].status = "ready"
          /\ rows[id(cons[d])].version = cons[d].version
          /\ blobs' = blobs
      BY <2>4 DEF Locate, Downloadable, blobVars
    <3>2. id(cons[d]) \in Ids /\ cons[d] \in Download
      BY <3>1, SemverKeyAssumption DEF TypeOK, Types, ConsumerTypes, Id, Ids
    <3>3. cons'[d] = [cons[d] EXCEPT !.pc = "located",
                                     !.object_key = rows[id(cons[d])].object_key]
      BY <2>4 DEF Locate, TypeOK, Types, ConsumerTypes
    <3>4. cons[d].cksum # None => rows[id(cons[d])].cksum = cons[d].cksum
      BY <3>1 DEF DownloadsAreServed
    <3>5. /\ rows[id(cons[d])].object_key \in ObjectKeys
          /\ blobs[rows[id(cons[d])].object_key] # None
      BY <3>1, <3>2 DEF ReadyRows
    <3>6. hex_digest_sha256[blobs[rows[id(cons[d])].object_key]]
            = rows[id(cons[d])].cksum
      BY <3>1, <3>2, ReadyCksum
    <3>7. /\ cons'[d].pc = "located" /\ cons'[d].cksum = cons[d].cksum
          /\ cons'[d].object_key = rows[id(cons[d])].object_key
      BY <3>2, <3>3 DEF Download
    <3> HIDE DEF id
    <3> QED
      BY <3>1, <3>4, <3>5, <3>6, <3>7
  <2>5. ASSUME EndDownload(d) PROVE cons'[d].pc = "idle"
    BY <2>5 DEF EndDownload, NoDownload, TypeOK, Types, ConsumerTypes
  <2>6. \/ cons'[d] = cons[d]
        \/ \E i \in Ids : Resolve(d, i)
        \/ \E c \in Crates, v \in Versions : RequestDownload(d, c, v)
        \/ Locate(d) \/ EndDownload(d)
    <3>1. UNCHANGED cons \/ \E e \in Consumers : ConsumerNext(e)
      BY DEF Next, vars, PublisherNext, LockStep, HandlerStep, YankNext,
         Publish, UpsertCrate, NameCollision, AlreadyExists, ClaimVersion,
         SendTarball, StoreTarball, TarballFails, MarkFailed, RecordFailed,
         BeginFinalize, CommitFinalize, Abort, SetYanked, LandTarball
    <3>2. ASSUME NEW e \in Consumers, ConsumerNext(e), e # d
          PROVE  cons'[d] = cons[d]
      BY <3>2 DEF ConsumerNext, Resolve, RequestDownload, Locate, EndDownload,
                  TypeOK, Types, ConsumerTypes
    <3> QED
      BY <3>1, <3>2 DEF ConsumerNext
  <2> QED
    BY <2>1, <2>2, <2>3, <2>4, <2>5, <2>6
<1> QED
  BY <1>1, <1>2, <1>3, <1>4

(* IInv holds in every behaviour.                                          *)
LEMMA IInvCorrect == Spec => []IInv
PROOF
<1>1. Init => ReadyRows /\ AckedIsServed /\ DownloadsAreServed
  BY DEF Init, ReadyRows, AckedIsServed, DownloadsAreServed, AbsentRow, NoDownload
<1>2. Spec => Init /\ [][Next]_vars
  BY DEF Spec
<1> QED
  BY <1>1, <1>2, ServedStep, TypeCorrect, ClaimsAreExclusive, BucketCorrect, PTL
     DEF IInv

(* Every version in the index can be downloaded, with the cksum the index  *)
(* states, for every number of handlers, keys and digests.                 *)
THEOREM ReadyVersionsAreServable == Spec => []ReadyIsServable
PROOF
<1>1. IInv => ReadyIsServable
  BY ReadyCksum DEF IInv, ReadyIsServable, ReadyRows
<1> QED
  BY <1>1, IInvCorrect, PTL

(* A publish answered with 200 is served for good, with the bytes that     *)
(* were uploaded, even where two tarballs have one digest.                 *)
THEOREM AckedPublishesAreServed == Spec => []AckedIsServed
PROOF
<1>1. IInv => AckedIsServed
  BY DEF IInv
<1> QED
  BY <1>1, IInvCorrect, PTL

(* Whoever read a line of the index can download it later, unchanged.      *)
THEOREM ConsumersAreServed == Spec => []ConsumerIsServed
PROOF
<1>1. IInv => ConsumerIsServed
  BY DEF IInv, ConsumerIsServed, DownloadsAreServed
<1> QED
  BY <1>1, IInvCorrect, PTL

-----------------------------------------------------------------------------
(* The publish pipeline implements the abstract catalog, for every value   *)
(* of the constants: what clients see of it is a function of the tables    *)
(* and the bucket in which an entry appears whole and only its yanked flag *)
(* changes later.                                                          *)

\* Only a ready row can be yanked, so an entry appears unyanked.
Unyanked == \A id \in Ids : rows[id].status # "ready" => rows[id].yanked = FALSE

(* No step yanks a row that is not ready, or makes a yanked row ready.     *)
LEMMA UnyankedStep == IInv /\ Unyanked /\ [Next]_vars => Unyanked'
PROOF
<1> SUFFICES ASSUME IInv, Unyanked, [Next]_vars, NEW id \in Ids,
                    rows'[id].status # "ready"
             PROVE  rows'[id].yanked = FALSE
  BY DEF Unyanked
<1> USE DEF IInv, TypeOK, Types
<1>1. rows[id] \in Row
  BY DEF DatabaseTypes
<1>2. rows[id].status # "ready"
  BY ReadyStays
<1>3. ASSUME NEW p \in Publishers, JobId(p) = id, ClaimVersion(p)
      PROVE  rows'[id].yanked = FALSE
  BY <1>3 DEF ClaimVersion, DatabaseTypes, publishing_row, AbsentRow
<1>4. ASSUME NEW p \in Publishers, JobId(p) = id, MarkFailed(p)
      PROVE  rows'[id].yanked = rows[id].yanked
  BY <1>1, <1>4 DEF MarkFailed, DatabaseTypes, failed_row, Row
<1>5. ASSUME NEW p \in Publishers, JobId(p) = id, CommitFinalize(p)
      PROVE  FALSE
  BY <1>5, CommitMakesReady
<1> QED
  BY <1>1, <1>2, <1>3, <1>4, <1>5, RowSteps DEF Unyanked, Row, Statuses

(* No version is yanked before it is published.                            *)
LEMMA UnyankedCorrect == Spec => []Unyanked
PROOF
<1>1. Init => Unyanked
  BY DEF Init, Unyanked, AbsentRow
<1> QED
  BY <1>1, UnyankedStep, IInvCorrect, PTL DEF Spec

-----------------------------------------------------------------------------
entry(id) == [version |-> rows[id].version, cksum |-> rows[id].cksum,
              tarball |-> blobs[rows[id].object_key], yanked |-> rows[id].yanked]

(* What clients see: an entry for each ready row, and nothing else.        *)
LEMMA CatalogEntries ==
  ASSUME IInv
  PROVE  /\ catalog = [id \in Ids |-> catalog[id]]
         /\ \A id \in Ids :
              /\ rows[id].status = "ready" => catalog[id] = entry(id)
              /\ rows[id].status # "ready" => catalog[id] = None
              /\ rows[id].status = "ready" => catalog[id] # None
PROOF
<1>1. ASSUME NEW id \in Ids, rows[id].status = "ready"
      PROVE  entry(id) \in [version : Versions, cksum : Digests,
                            tarball : Tarballs, yanked : BOOLEAN]
  <2>1. /\ rows[id] \in Row /\ rows[id].version \in Versions
        /\ rows[id].cksum \in Digests
    BY <1>1 DEF IInv, TypeOK, Types, DatabaseTypes
  <2>2. blobs[rows[id].object_key] \in Tarballs
    BY <1>1 DEF IInv, ReadyRows, TypeOK, Types, BucketTypes
  <2> QED
    BY <2>1, <2>2 DEF entry, Row
<1> QED
  BY <1>1, NoneAssumption DEF catalog, entry

\* An entry that no transaction touches stays as it is.
LEMMA EntryStays ==
  ASSUME IInv, IInv', [Next]_vars, NEW id \in Ids, rows'[id] = rows[id]
  PROVE  catalog'[id] = catalog[id]
PROOF
<1>1. CASE rows[id].status = "ready"
  <2>1. blobs'[rows[id].object_key] = blobs[rows[id].object_key]
    BY <1>1, BlobsStay DEF IInv, ReadyRows
  <2> QED
    BY <1>1, <2>1 DEF catalog
<1> QED
  BY <1>1 DEF catalog

(* Every step of the pipeline publishes one entry, yanks or unyanks one,   *)
(* or shows clients nothing new.                                           *)
LEMMA CatalogStep ==
  IInv /\ IInv' /\ Unyanked /\ [Next]_vars => [Cat!Next]_catalog
PROOF
<1> SUFFICES ASSUME IInv, IInv', Unyanked, [Next]_vars
             PROVE  [Cat!Next]_catalog
  OBVIOUS
<1>1. ASSUME NEW p \in Publishers, CommitFinalize(p)
      PROVE  Cat!Publish(JobId(p)) /\ JobId(p) \in Ids
  <2> DEFINE id == JobId(p)
             new == [version |-> job[p].version,
                     cksum |-> hex_digest_sha256[job[p].tarball],
                     tarball |-> job[p].tarball, yanked |-> FALSE]
  <2>1. /\ id \in Ids /\ id = <<job[p].crate, semver_key[job[p].version]>>
        /\ rows[id].status = "publishing" /\ rows'[id].status = "ready"
        /\ rows'[id].object_key = JobKey(p)
        /\ rows'[id].version = job[p].version
        /\ rows'[id].cksum = hex_digest_sha256[job[p].tarball]
        /\ rows'[id].yanked = FALSE
        /\ blobs[JobKey(p)] = job[p].tarball /\ job[p] \in Jobs
    BY <1>1, CommitMakesReady DEF IInv, Unyanked
  <2>2. blobs' = blobs /\ \A i \in Ids \ {id} : rows'[i] = rows[i]
    BY <1>1 DEF CommitFinalize, blobVars, IInv, TypeOK, Types, DatabaseTypes
  <2>3. catalog[id] = None
    BY <2>1, CatalogEntries
  <2>4. catalog'[id] = new
    BY <2>1, <2>2 DEF catalog
  <2>5. \A i \in Ids \ {id} : catalog'[i] = catalog[i]
    BY <2>2, EntryStays
  <2> HIDE DEF new
  <2>6. catalog' = [catalog EXCEPT ![id] = new]
    <3>1. catalog = [i \in Ids |-> catalog[i]] /\ catalog' = [i \in Ids |-> catalog'[i]]
      BY DEF catalog
    <3> QED
      BY <2>1, <2>4, <2>5, <3>1
  <2>7. /\ job[p].version \in Versions /\ job[p].tarball \in Tarballs
        /\ semver_key[job[p].version] = id[2]
    BY <2>1 DEF Jobs
  <2> QED
    BY <2>1, <2>3, <2>6, <2>7 DEF Cat!Publish, new
<1>2. ASSUME NEW c \in Crates, NEW v \in Versions, NEW b \in BOOLEAN,
             SetYanked(c, v, b)
      PROVE  Cat!SetYanked(Id(c, v)) /\ Id(c, v) \in Ids
  <2> DEFINE id == Id(c, v)
  <2>1. /\ id \in Ids /\ rows[id].status = "ready" /\ rows[id] \in Row
        /\ rows'[id] = [rows[id] EXCEPT !.yanked = b]
        /\ \A i \in Ids \ {id} : rows'[i] = rows[i]
        /\ blobs' = blobs
    BY <1>2, SemverKeyAssumption
       DEF SetYanked, blobVars, Id, Ids, IInv, TypeOK, Types, DatabaseTypes
  <2>2. catalog[id] # None /\ catalog[id] = entry(id)
    BY <2>1, CatalogEntries
  <2>3. catalog'[id] = [catalog[id] EXCEPT !.yanked = b]
    BY <2>1, <2>2 DEF catalog, entry, Row
  <2>4. \A i \in Ids \ {id} : catalog'[i] = catalog[i]
    BY <2>1, EntryStays
  <2>5. catalog' = [catalog EXCEPT ![id].yanked = b]
    <3>1. catalog = [i \in Ids |-> catalog[i]] /\ catalog' = [i \in Ids |-> catalog'[i]]
      BY DEF catalog
    <3> HIDE DEF id
    <3> QED
      BY <2>1, <2>3, <2>4, <3>1
  <2> QED
    BY <2>1, <2>2, <2>5 DEF Cat!SetYanked
<1>3. ASSUME \A i \in Ids : catalog'[i] = catalog[i]
      PROVE  UNCHANGED catalog
  BY <1>3 DEF catalog
<1>4. ASSUME NEW p \in Publishers, ClaimVersion(p) \/ MarkFailed(p)
      PROVE  UNCHANGED catalog
  <2>1. JobId(p) \in Ids /\ rows[JobId(p)].status \in {"absent", "publishing"}
    BY <1>4, JobTypes
       DEF ClaimVersion, MarkFailed, Goto, Unclaimed, ClaimIsExclusive, Owning,
           IInv, TypeOK, Types
  <2>2. rows'[JobId(p)].status # "ready"
    BY <1>4, <2>1
       DEF ClaimVersion, MarkFailed, publishing_row, AbsentRow, failed_row,
           IInv, TypeOK, Types, DatabaseTypes, Row
  <2>3. \A i \in Ids \ {JobId(p)} : rows'[i] = rows[i]
    BY <1>4, <2>1
       DEF ClaimVersion, MarkFailed, IInv, TypeOK, Types, DatabaseTypes
  <2>4. catalog'[JobId(p)] = catalog[JobId(p)]
    BY <2>1, <2>2 DEF catalog
  <2> QED
    BY <1>3, <2>3, <2>4, EntryStays
<1>5. CASE UNCHANGED rows
  BY <1>3, <1>5, EntryStays
<1> QED
  BY <1>1, <1>2, <1>4, <1>5, RowsFrame DEF Cat!Next, Ids, Cat!Ids

(* The pipeline implements the catalog of Catalog.tla: no reader sees an   *)
(* entry half published, changed, or withdrawn, whatever fails and however *)
(* the handlers interleave.                                                *)
THEOREM RegistryImplementsCatalog == Spec => ImplementsCatalog
PROOF
<1>1. Init => Cat!Init
  BY DEF Init, Cat!Init, Cat!Ids, catalog, Ids, AbsentRow
<1> QED
  BY <1>1, CatalogStep, IInvCorrect, UnyankedCorrect, PTL
     DEF Spec, ImplementsCatalog, Cat!Spec
=============================================================================
