----------------------------- MODULE MCRouting -----------------------------
(***************************************************************************)
(* Instances of the router for TLC: names of every length class, names     *)
(* that are directories of others, names that are actions or fixed routes, *)
(* and all paths of up to three segments over them.                        *)
(***************************************************************************)
EXTENDS RoutingProperties

MCNames == {"a", "se", "new", "serde", "download"}

MCVersions == {"1.0.0"}

MCSegments ==
  MCNames \cup MCVersions
    \cup {"", "1", "2", "3", "n", "rd", "do", "wn", "yank", "unyank",
          "config.json"}

MCPaths == UNION {[1..k -> MCSegments] : k \in 1..3}
=============================================================================
