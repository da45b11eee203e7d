-------------------------- MODULE IndexProperties --------------------------
(***************************************************************************)
(* What Index.tla is checked for.                                          *)
(***************************************************************************)
EXTENDS Index

Before(answer, v, w) ==
  \E i, j \in DOMAIN answer : i < j /\ answer[i] = v /\ answer[j] = w

(* A client that reads an index file again finds the versions it knows in  *)
(* the order it knows them, whatever is yanked or published meanwhile,     *)
(* except for versions whose finalize transactions began in the same       *)
(* microsecond, which may change places, for the query has no tie-break.   *)
ListingKeepsOrder ==
  [][\A earlier \in Answers, later \in Answers' :
       /\ Range(earlier) \subseteq Range(later)
       /\ \A v, w \in Range(earlier) :
            started[v] # started[w] /\ Before(earlier, v, w) => Before(later, v, w)]_vars

(* Every answer lists a version after all those whose publish was over     *)
(* when its own last transaction began, though begin_publish of them may   *)
(* have been in any order, so search shows the version published last      *)
(* unless two publishes overlap.                                           *)
OrderIsCausal ==
  \A answer \in Answers, v, w \in Versions :
    <<v, w>> \in before /\ Ready(w) => Before(answer, v, w)

(* Whoever reads the events of a version in the order of their ids learns  *)
(* from the last one whether it is yanked, though the ids are handed out   *)
(* before the transactions commit, and some never do.                      *)
LastEventIsTrue ==
  \A v \in Versions :
    LET of == {event \in events : event.version = v} IN
      IF of = {} THEN ~row[v].yanked
      ELSE \A event \in of :
             (\A other \in of : other.id <= event.id)
               => event.yanked = row[v].yanked

\* What clients see of one crate: each version has a semver key of its own, and
\* bytes that Registry.tla is about.
listed ==
  [id \in {"crate"} \X Versions |->
     IF Ready(id[2])
     THEN [version |-> id[2], cksum |-> "cksum", tarball |-> "tarball",
           yanked |-> row[id[2]].yanked]
     ELSE None]

Cat == INSTANCE Catalog WITH
         Crates <- {"crate"}, SemverKeys <- Versions,
         Tarballs <- {"tarball"}, Digests <- {"cksum"},
         semver_key <- [v \in Versions |-> v],
         hex_digest_sha256 <- [t \in {"tarball"} |-> "cksum"],
         catalog <- listed

ASSUME EntryAssumption == None \notin Cat!Entry

(* Statement by statement, with yanks that wait, break off and overlap     *)
(* with publishes, clients see what Catalog promises: versions appear not  *)
(* yanked, and each yank takes effect at once, on a version that is there. *)
ImplementsCatalog == Cat!Spec
=============================================================================
