--------------------------- MODULE RoutingProofs ---------------------------
(***************************************************************************)
(* The router, for any crate names, versions and paths.                    *)
(***************************************************************************)
EXTENDS RoutingProperties, SequenceTheorems, TLAPS

(* The answer is what the routes say of the request.                       *)
Answered ==
  /\ request # None =>
       \E method \in Methods, path \in Paths : request = Req(method, path)
  /\ answer # None =>
       /\ request # None
       /\ answer = routes(request.method, request.path)

-----------------------------------------------------------------------------
(* A path of at most three segments, written out.                          *)
LEMMA Segments ==
  ASSUME NEW path \in Paths
  PROVE  /\ Len(path) \in Nat \ {0}
         /\ Len(path) = 3 => path = <<path[1], path[2], path[3]>>
PROOF
  BY PathAssumption

(* Index paths by the length of the name.                                  *)
LEMMA IndexPathCases ==
  ASSUME NEW name
  PROVE  /\ Len(name) = 1 => sparse_index_path(name) = <<"1", name>>
         /\ Len(name) = 2 => sparse_index_path(name) = <<"2", name>>
         /\ Len(name) = 3 => sparse_index_path(name) = <<"3", SubSeq(name, 1, 1), name>>
         /\ Len(name) \notin {1, 2, 3} =>
              sparse_index_path(name) = <<SubSeq(name, 1, 2), SubSeq(name, 3, 4), name>>
         /\ Len(name) = 1 => IndexDirs(name) = <<"1">>
         /\ Len(name) = 2 => IndexDirs(name) = <<"2">>
         /\ Len(name) = 3 => IndexDirs(name) = <<"3", SubSeq(name, 1, 1)>>
         /\ Len(name) \notin {1, 2, 3} =>
              IndexDirs(name) = <<SubSeq(name, 1, 2), SubSeq(name, 3, 4)>>
PROOF
<1>1. 1 # 2 /\ 1 # 3 /\ 2 # 3
  OBVIOUS
<1> QED
  BY <1>1, Zenon DEF sparse_index_path, IndexDirs

(* Append on pairs and on single segments.                                 *)
LEMMA Appended ==
  ASSUME NEW a, NEW b, NEW c
  PROVE  Append(<<a>>, b) = <<a, b>> /\ Append(<<a, b>>, c) = <<a, b, c>>
PROOF
<1> DEFINE S == {a, b, c}
           one == Append(<<a>>, b)
           two == Append(<<a, b>>, c)
           ab == <<a, b>>
           abc == <<a, b, c>>
<1>1. /\ <<a>> \in Seq(S) /\ ab \in Seq(S) /\ abc \in Seq(S) /\ b \in S /\ c \in S
      /\ Len(<<a>>) = 1 /\ Len(ab) = 2 /\ Len(abc) = 3
  OBVIOUS
<1>2. /\ one \in Seq(S) /\ Len(one) = 2 /\ one[1] = a /\ one[2] = b
      /\ two \in Seq(S) /\ Len(two) = 3 /\ two[1] = a /\ two[2] = b /\ two[3] = c
  <2>1. /\ one \in Seq(S) /\ Len(one) = 1 + 1
        /\ \A i \in 1..1 : one[i] = <<a>>[i]
        /\ one[1 + 1] = b
    BY <1>1, AppendProperties
  <2>2. /\ two \in Seq(S) /\ Len(two) = 2 + 1
        /\ \A i \in 1..2 : two[i] = ab[i]
        /\ two[2 + 1] = c
    BY <1>1, AppendProperties
  <2> QED
    BY <2>1, <2>2
<1>3. /\ ab[1] = a /\ ab[2] = b /\ abc[1] = a /\ abc[2] = b /\ abc[3] = c
  OBVIOUS
<1> HIDE DEF S, one, two, ab, abc
<1>4. one = ab
  <2>1. Len(one) = Len(ab) /\ \A i \in 1..Len(one) : one[i] = ab[i]
    BY <1>1, <1>2, <1>3
  <2> QED
    BY <1>1, <1>2, <2>1, SeqEqual
<1>5. two = abc
  <2>1. Len(two) = Len(abc) /\ \A i \in 1..Len(two) : two[i] = abc[i]
    BY <1>1, <1>2, <1>3
  <2> QED
    BY <1>1, <1>2, <2>1, SeqEqual
<1> QED
  BY <1>4, <1>5 DEF one, two, ab, abc

(* Cargo's index paths are those that the registry computes: the last      *)
(* segment is the name, and never the only one.                            *)
LEMMA IndexPaths ==
  ASSUME NEW name
  PROVE  LET path == Append(IndexDirs(name), name)
         IN  /\ path = sparse_index_path(name)
             /\ Len(path) \in {2, 3}
             /\ Last(path) = name
             /\ Len(path) = 3 => path[3] = name
PROOF
<1> DEFINE path == Append(IndexDirs(name), name)
<1>1. /\ Len(name) = 1 => path = <<"1", name>>
      /\ Len(name) = 2 => path = <<"2", name>>
      /\ Len(name) = 3 => path = <<"3", SubSeq(name, 1, 1), name>>
      /\ Len(name) \notin {1, 2, 3} =>
           path = <<SubSeq(name, 1, 2), SubSeq(name, 3, 4), name>>
  <2>1. Len(name) = 1 => IndexDirs(name) = <<"1">>
    BY IndexPathCases
  <2>2. Len(name) = 2 => IndexDirs(name) = <<"2">>
    BY IndexPathCases
  <2>3. Len(name) = 3 => IndexDirs(name) = <<"3", SubSeq(name, 1, 1)>>
    BY IndexPathCases
  <2>4. Len(name) \notin {1, 2, 3} =>
          IndexDirs(name) = <<SubSeq(name, 1, 2), SubSeq(name, 3, 4)>>
    BY IndexPathCases
  <2> QED
    BY <2>1, <2>2, <2>3, <2>4, Appended, Zenon
<1> HIDE DEF path
<1>2. path = sparse_index_path(name)
  BY <1>1, IndexPathCases
<1>3. \/ \E a : path = <<a, name>>
      \/ \E a, b : path = <<a, b, name>>
  BY <1>1
<1>4. /\ Len(path) \in {2, 3} /\ Last(path) = name
      /\ Len(path) = 3 => path[3] = name
  <2>1. CASE \E a : path = <<a, name>>
    <3>1. PICK a : path = <<a, name>>
      BY <2>1
    <3>2. Len(path) = 2 /\ Last(path) = name
      BY <3>1 DEF Last
    <3> QED
      BY <3>2
  <2>2. CASE \E a, b : path = <<a, b, name>>
    <3>1. PICK a, b : path = <<a, b, name>>
      BY <2>2
    <3>2. Len(path) = 3 /\ Last(path) = name /\ path[3] = name
      BY <3>1 DEF Last
    <3> QED
      BY <3>2
  <2> QED
    BY <1>3, <2>1, <2>2
<1> QED
  BY <1>2, <1>4 DEF path

-----------------------------------------------------------------------------
(* The cases of the router, and the requests of Cargo, one by one.         *)

(* routes: two fixed paths, and all others go to route_cargo.              *)
LEMMA RoutesCases ==
  ASSUME NEW method, NEW path
  PROVE  /\ path = <<"config.json">> =>
              routes(method, path) = IF method = "GET" THEN Reach("config", None, None)
                                     ELSE NotAllowed
         /\ path = <<"new">> =>
              routes(method, path) = IF method = "PUT" THEN Reach("publish", None, None)
                                     ELSE NotAllowed
         /\ path \notin {<<"config.json">>, <<"new">>} =>
              routes(method, path) = route_cargo(method, path)
PROOF
<1>1. <<"config.json">> # <<"new">>
  OBVIOUS
<1> QED
  BY <1>1, Zenon DEF routes

(* crate_action: the three pairs of a method and an action that it knows.  *)
LEMMA ActionCases ==
  ASSUME NEW method, NEW path
  PROVE  LET known == {<<"GET", "download">>, <<"DELETE", "yank">>, <<"PUT", "unyank">>}
         IN  /\ <<method, path[3]>> \notin known => crate_action(method, path) = NotFound
             /\ <<method, path[3]>> \in known =>
                  crate_action(method, path) =
                    IF path[1] \in Names /\ path[2] \in Versions
                    THEN Reach(path[3], path[1], path[2]) ELSE BadRequest
PROOF BY Zenon DEF crate_action

(* sparse_index: only the exact path of a valid name is answered.          *)
LEMMA IndexCases ==
  ASSUME NEW path
  PROVE  /\ Last(path) \in Names =>
              sparse_index(path) = IF sparse_index_path(Last(path)) = path
                                   THEN Reach("index", Last(path), None) ELSE NotFound
         /\ Last(path) \notin Names => sparse_index(path) \in {NotFound, BadRequest}
PROOF BY NameAssumption, Zenon DEF sparse_index

(* What Cargo sends for each operation.                                    *)
LEMMA RequestCases ==
  ASSUME NEW m
  PROVE  /\ m.op = "config" => CargoRequest(m) = Req("GET", <<"config.json">>)
         /\ m.op = "publish" => CargoRequest(m) = Req("PUT", <<"new">>)
         /\ m.op = "index" =>
              CargoRequest(m) = Req("GET", Append(IndexDirs(m.name), m.name))
         /\ m.op = "download" => CargoRequest(m) = Req("GET", dl(m.name, m.version))
         /\ m.op = "yank" =>
              CargoRequest(m) = Req("DELETE", <<m.name, m.version, "yank">>)
         /\ m.op = "unyank" =>
              CargoRequest(m) = Req("PUT", <<m.name, m.version, "unyank">>)
PROOF BY Zenon DEF CargoRequest

-----------------------------------------------------------------------------
(* Whatever is served is what the request asks for, in Cargo's words.      *)
LEMMA ServedIsAsked ==
  ASSUME NEW method \in Methods, NEW path \in Paths,
         routes(method, path) \notin Errors
  PROVE  Req(method, path) = CargoRequest(routes(method, path))
PROOF
<1> DEFINE reached == routes(method, path)
<1>1. CASE path = <<"config.json">>
  <2>1. method = "GET" /\ reached = Reach("config", None, None)
    BY <1>1, RoutesCases DEF Errors
  <2>2. reached.op = "config"
    BY <2>1 DEF Reach
  <2> QED
    BY <1>1, <2>1, <2>2, RequestCases
<1>2. CASE path = <<"new">>
  <2>1. method = "PUT" /\ reached = Reach("publish", None, None)
    BY <1>2, RoutesCases DEF Errors
  <2>2. reached.op = "publish"
    BY <2>1 DEF Reach
  <2> QED
    BY <1>2, <2>1, <2>2, RequestCases
<1>3. CASE path \notin {<<"config.json">>, <<"new">>} /\ parse_crate_action_path(path)
  <2>1. reached = crate_action(method, path)
    BY <1>3, RoutesCases DEF route_cargo
  <2>2. /\ <<method, path[3]>> \in {<<"GET", "download">>, <<"DELETE", "yank">>,
                                    <<"PUT", "unyank">>}
        /\ reached = Reach(path[3], path[1], path[2])
    BY <2>1, ActionCases DEF Errors
  <2>3. reached.op = path[3] /\ reached.name = path[1] /\ reached.version = path[2]
    BY <2>2 DEF Reach
  <2>4. path = <<path[1], path[2], path[3]>>
    BY <1>3, Segments DEF parse_crate_action_path
  <2>5. CASE method = "GET" /\ path[3] = "download"
    <3>1. path = dl(reached.name, reached.version)
      BY <2>3, <2>4, <2>5 DEF dl
    <3> QED
      BY <2>3, <2>5, <3>1, RequestCases
  <2>6. CASE method = "DELETE" /\ path[3] = "yank"
    <3>1. path = <<reached.name, reached.version, "yank">>
      BY <2>3, <2>4, <2>6
    <3> QED
      BY <2>3, <2>6, <3>1, RequestCases
  <2>7. CASE method = "PUT" /\ path[3] = "unyank"
    <3>1. path = <<reached.name, reached.version, "unyank">>
      BY <2>3, <2>4, <2>7
    <3> QED
      BY <2>3, <2>7, <3>1, RequestCases
  <2> QED
    BY <2>2, <2>5, <2>6, <2>7
<1>4. CASE path \notin {<<"config.json">>, <<"new">>} /\ ~parse_crate_action_path(path)
  <2>1. method = "GET" /\ reached = sparse_index(path)
    BY <1>4, RoutesCases DEF route_cargo, Errors
  <2>2. /\ Last(path) \in Names /\ sparse_index_path(Last(path)) = path
        /\ reached = Reach("index", Last(path), None)
    BY <2>1, IndexCases DEF Errors
  <2>3. reached.op = "index" /\ reached.name = Last(path)
    BY <2>2 DEF Reach
  <2>4. path = Append(IndexDirs(reached.name), reached.name)
    BY <2>2, <2>3, IndexPaths
  <2> QED
    BY <2>1, <2>3, <2>4, RequestCases
<1> QED
  BY <1>1, <1>2, <1>3, <1>4

(* What Cargo asks for is what it gets, but for index files of crates that *)
(* are named after an action.                                              *)
LEMMA AskedIsServed ==
  ASSUME NEW method, NEW path, NEW m \in Meanings, ~Shadowed(m),
         Req(method, path) = CargoRequest(m)
  PROVE  routes(method, path) = m
PROOF
<1>1. CASE m = Reach("config", None, None)
  <2>1. method = "GET" /\ path = <<"config.json">>
    <3>1. m.op = "config"
      BY <1>1 DEF Reach
    <3>2. Req(method, path) = Req("GET", <<"config.json">>)
      BY <3>1, RequestCases
    <3> QED
      BY <3>2 DEF Req
  <2> QED
    BY <1>1, <2>1, RoutesCases
<1>2. CASE m = Reach("publish", None, None)
  <2>1. method = "PUT" /\ path = <<"new">>
    <3>1. m.op = "publish"
      BY <1>2 DEF Reach
    <3>2. Req(method, path) = Req("PUT", <<"new">>)
      BY <3>1, RequestCases
    <3> QED
      BY <3>2 DEF Req
  <2> QED
    BY <1>2, <2>1, RoutesCases
<1>3. ASSUME NEW n \in Names, m = Reach("index", n, None)
      PROVE  routes(method, path) = m
  <2>1. m.op = "index" /\ m.name = n
    BY <1>3 DEF Reach
  <2>2. method = "GET" /\ path = Append(IndexDirs(n), n)
    <3>1. Req(method, path) = Req("GET", Append(IndexDirs(m.name), m.name))
      BY <2>1, RequestCases
    <3> QED
      BY <2>1, <3>1 DEF Req
  <2>3. /\ path = sparse_index_path(n) /\ Len(path) \in {2, 3} /\ Last(path) = n
        /\ Len(path) = 3 => path[3] = n
    BY <2>2, IndexPaths
  <2>4. n \notin Actions
    BY <2>1 DEF Shadowed
  <2>5. path \notin {<<"config.json">>, <<"new">>} /\ ~parse_crate_action_path(path)
    BY <2>3, <2>4 DEF parse_crate_action_path
  <2>6. routes(method, path) = sparse_index(path)
    BY <2>2, <2>5, RoutesCases DEF route_cargo
  <2> QED
    BY <1>3, <2>3, <2>6, IndexCases
<1>4. ASSUME NEW op \in Actions, NEW n \in Names, NEW v \in Versions,
             m = Reach(op, n, v)
      PROVE  routes(method, path) = m
  <2>1. m.op = op /\ m.name = n /\ m.version = v
    BY <1>4 DEF Reach
  <2>2. path = <<n, v, op>> /\ <<method, op>> \in {<<"GET", "download">>,
                                 <<"DELETE", "yank">>, <<"PUT", "unyank">>}
    <3>1. CASE op = "download"
      <4>1. method = "GET" /\ path = dl(n, v)
        <5>1. Req(method, path) = Req("GET", dl(m.name, m.version))
          BY <2>1, <3>1, RequestCases
        <5> QED
          BY <2>1, <5>1 DEF Req
      <4> QED
        BY <3>1, <4>1 DEF dl
    <3>2. CASE op = "yank"
      <4>1. method = "DELETE" /\ path = <<n, v, "yank">>
        <5>1. Req(method, path) = Req("DELETE", <<m.name, m.version, "yank">>)
          BY <2>1, <3>2, RequestCases
        <5> QED
          BY <2>1, <5>1 DEF Req
      <4> QED
        BY <3>2, <4>1
    <3>3. CASE op = "unyank"
      <4>1. method = "PUT" /\ path = <<n, v, "unyank">>
        <5>1. Req(method, path) = Req("PUT", <<m.name, m.version, "unyank">>)
          BY <2>1, <3>3, RequestCases
        <5> QED
          BY <2>1, <5>1 DEF Req
      <4> QED
        BY <3>3, <4>1
    <3> QED
      BY <3>1, <3>2, <3>3 DEF Actions
  <2>3. Len(path) = 3 /\ path[1] = n /\ path[2] = v /\ path[3] = op
    BY <2>2
  <2>4. path \notin {<<"config.json">>, <<"new">>} /\ parse_crate_action_path(path)
    BY <2>3 DEF parse_crate_action_path
  <2>5. routes(method, path) = crate_action(method, path)
    BY <2>4, RoutesCases DEF route_cargo
  <2> QED
    BY <1>4, <2>2, <2>3, <2>5, ActionCases
<1> QED
  BY <1>1, <1>2, <1>3, <1>4 DEF Meanings

-----------------------------------------------------------------------------
(* Answered is an invariant.                                               *)
LEMMA RequestsAreAnswered == Spec => []Answered
PROOF
<1>1. Init => Answered
  BY DEF Init, Answered
<1>2. Answered /\ [Next]_vars => Answered'
  <2> SUFFICES ASSUME Answered, [Next]_vars
               PROVE  Answered'
    OBVIOUS
  <2>1. ASSUME NEW method \in Methods, NEW path \in Paths, Receive(method, path)
        PROVE  Answered'
    <3>1. request' = Req(method, path) /\ answer' = answer /\ answer = None
      BY <2>1 DEF Receive, Req, Answered
    <3> QED
      BY <3>1 DEF Answered
  <2>2. CASE Serve
    BY <2>2 DEF Serve, Answered
  <2>3. CASE Reply
    BY <2>3 DEF Reply, Answered
  <2>4. CASE UNCHANGED vars
    BY <2>4 DEF vars, Answered
  <2> QED
    BY <2>1, <2>2, <2>3, <2>4 DEF Next
<1> QED
  BY <1>1, <1>2, PTL DEF Spec

(* Every operation has one request and every request at most one operation *)
(* whatever crates there are, those named after an action excepted.        *)
THEOREM RequestsAreRouted == Spec => []RoutedAsMeant
PROOF
<1>1. Answered => RoutedAsMeant
  <2> SUFFICES ASSUME Answered, answer # None
               PROVE  /\ answer \in Errors \/ request = CargoRequest(answer)
                      /\ \A m \in Meanings : request = CargoRequest(m) =>
                           Shadowed(m) \/ answer = m
    BY DEF RoutedAsMeant
  <2>1. PICK method \in Methods, path \in Paths : request = Req(method, path)
    BY DEF Answered
  <2>2. answer = routes(method, path)
    BY <2>1 DEF Answered, Req
  <2> QED
    BY <2>1, <2>2, ServedIsAsked, AskedIsServed
<1> QED
  BY <1>1, RequestsAreAnswered, PTL
=============================================================================
