------------------------------ MODULE Routing ------------------------------
(***************************************************************************)
(* Which operation a request under /api/v1/crates/ reaches.  The router    *)
(* knows two fixed paths there; everything else falls through to           *)
(* route_cargo, which tells crate actions from sparse index files by the   *)
(* shape of the path alone.  A path is the sequence of its segments, a     *)
(* segment a string.  Callers are authorised for everything: which tokens  *)
(* are is the subject of Tokens.tla.                                       *)
(***************************************************************************)
EXTENDS Naturals, Sequences, SequencesExt

CONSTANTS
  Names,        \* the strings that pass validate_crate_name
  Versions,     \* the strings that parse as semver
  Paths,        \* paths that clients may send
  None

\* split('/') gives at least one segment, and a name has at least one letter.
ASSUME PathAssumption == Paths \subseteq Seq(STRING) \ {<<>>}
ASSUME NameAssumption == "" \notin Names

\* A method that no route names is treated like one that the path does not take.
Methods == {"GET", "PUT", "DELETE"}

Actions == {"download", "yank", "unyank"}

VARIABLES
  request,      \* the request being served
  answer        \* the operation it reached, or the error

vars == <<request, answer>>

-----------------------------------------------------------------------------
Reach(op, name, version) == [op |-> op, name |-> name, version |-> version]

NotFound   == Reach("not_found", None, None)
BadRequest == Reach("bad_request", None, None)
NotAllowed == Reach("method_not_allowed", None, None)

Errors == {NotFound, BadRequest, NotAllowed}

\* One directory level too few for names of three letters.
sparse_index_path_flat3(name) ==
  CASE Len(name) = 1 -> <<"1", name>>
    [] Len(name) = 2 -> <<"2", name>>
    [] Len(name) = 3 -> <<"3", name>>
    [] OTHER         -> <<SubSeq(name, 1, 2), SubSeq(name, 3, 4), name>>

sparse_index_path(name) ==
  CASE Len(name) = 1 -> <<"1", name>>
    [] Len(name) = 2 -> <<"2", name>>
    [] Len(name) = 3 -> <<"3", SubSeq(name, 1, 1), name>>
    [] OTHER         -> <<SubSeq(name, 1, 2), SubSeq(name, 3, 4), name>>

\* Any directories will do.
sparse_index_anywhere(path) ==
  IF Last(path) \in Names THEN Reach("index", Last(path), None) ELSE BadRequest

\* crate_name_from_sparse_path, then the index file of that crate.
sparse_index(path) ==
  CASE Last(path) = ""                      -> NotFound
    [] Last(path) \notin Names \cup {""}    -> BadRequest
    [] OTHER -> IF sparse_index_path(Last(path)) = path
                THEN Reach("index", Last(path), None) ELSE NotFound

parse_crate_action_path(path) == Len(path) = 3 /\ path[3] \in Actions

\* GET download, DELETE yank, PUT unyank; then the registry validates the name
\* and the version.
crate_action(method, path) ==
  CASE <<method, path[3]>> \notin {<<"GET", "download">>, <<"DELETE", "yank">>,
                                   <<"PUT", "unyank">>}        -> NotFound
    [] OTHER -> IF path[1] \in Names /\ path[2] \in Versions
                THEN Reach(path[3], path[1], path[2]) ELSE BadRequest

route_cargo(method, path) ==
  IF parse_crate_action_path(path) THEN crate_action(method, path)
  ELSE IF method # "GET" THEN NotFound
  ELSE sparse_index(path)

\* The path of the dl template in config.json, by which Cargo asks for a tarball.
dl(name, version) == <<name, version, "download">>

\* The fixed routes come before the fallback.
routes(method, path) ==
  CASE path = <<"config.json">> ->
         IF method = "GET" THEN Reach("config", None, None) ELSE NotAllowed
    [] path = <<"new">> ->
         IF method = "PUT" THEN Reach("publish", None, None) ELSE NotAllowed
    [] OTHER -> route_cargo(method, path)

-----------------------------------------------------------------------------
Init == request = None /\ answer = None

Receive(method, path) ==
  /\ request = None
  /\ request' = [method |-> method, path |-> path]
  /\ UNCHANGED answer

Serve ==
  /\ request # None /\ answer = None
  /\ answer' = routes(request.method, request.path)
  /\ UNCHANGED request

Reply ==
  /\ answer # None
  /\ request' = None
  /\ answer' = None

Next ==
  \/ \E method \in Methods, path \in Paths : Receive(method, path)
  \/ Serve
  \/ Reply

Spec == Init /\ [][Next]_vars
=============================================================================
