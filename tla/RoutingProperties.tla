------------------------- MODULE RoutingProperties -------------------------
(***************************************************************************)
(* What Routing.tla is checked for, against the requests that Cargo sends. *)
(***************************************************************************)
EXTENDS Routing

Req(method, path) == [method |-> method, path |-> path]

\* The operations that a client can ask for.
Meanings ==
  {Reach(op, None, None) : op \in {"config", "publish"}}
    \cup {Reach("index", n, None) : n \in Names}
    \cup {Reach(op, n, v) : op \in Actions, n \in Names, v \in Versions}

\* The directories of an index file, as Cargo computes them.
IndexDirs(name) ==
  CASE Len(name) = 1 -> <<"1">>
    [] Len(name) = 2 -> <<"2">>
    [] Len(name) = 3 -> <<"3", SubSeq(name, 1, 1)>>
    [] OTHER         -> <<SubSeq(name, 1, 2), SubSeq(name, 3, 4)>>

\* The request by which Cargo asks for an operation.
CargoRequest(m) ==
  CASE m.op = "config"   -> Req("GET", <<"config.json">>)
    [] m.op = "publish"  -> Req("PUT", <<"new">>)
    [] m.op = "index"    -> Req("GET", Append(IndexDirs(m.name), m.name))
    [] m.op = "download" -> Req("GET", dl(m.name, m.version))
    [] m.op = "yank"     -> Req("DELETE", <<m.name, m.version, "yank">>)
    [] m.op = "unyank"   -> Req("PUT", <<m.name, m.version, "unyank">>)

\* The index files of crates with these names look like crate actions.
Shadowed(m) == m.op = "index" /\ m.name \in Actions

(* Each operation is reached by the one request that Cargo sends for it    *)
(* and by no other, crates named after an action excepted.                 *)
RoutedAsMeant ==
  answer # None =>
    /\ answer \in Errors \/ request = CargoRequest(answer)
    /\ \A m \in Meanings : request = CargoRequest(m) =>
         Shadowed(m) \/ answer = m

-----------------------------------------------------------------------------
(* README.md:53-54 supports every name of lowercase letters, digits, '_'   *)
(* and '-', with its index file.                                           *)
EveryIndexIsReachable ==
  answer # None =>
    \A n \in Names :
      request = CargoRequest(Reach("index", n, None)) => answer.name = n
=============================================================================
