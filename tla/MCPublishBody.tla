--------------------------- MODULE MCPublishBody ---------------------------
(***************************************************************************)
(* Bytes of base 8, each of which is one member of the metadata.           *)
(***************************************************************************)
EXTENDS PublishBodyProperties

member(key, type, value) == [key |-> key, type |-> type, value |-> value]

alias == [name |-> "serde", explicit_name_in_toml |-> "codec"]
otherAlias == [name |-> "serde", explicit_name_in_toml |-> "legacy"]
plain == [name |-> "log", explicit_name_in_toml |-> None]

Members ==
  <<member("name", "string", "foo"), member("name", "string", "bar"),
    member("name", "string", "-"), member("name", "null", None),
    member("vers", "string", "1.0.0"), member("vers", "string", "one"),
    member("deps", "deps", <<plain, alias, otherAlias>>), member("authors", "null", None)>>

\* Metadata of more than three members is not JSON.
MCFields(bytes) ==
  IF Len(bytes) > 3 THEN Malformed
  ELSE [i \in 1..Len(bytes) |-> Members[bytes[i] + 1]]

MCMetadata == UNION {[1..n -> 0..7] : n \in 0..3}

\* Two frames with right and wrong lengths, cut short or run over.
MCBodies ==
  LET first == {to_le_bytes(n) : n \in {0, 1, 2, 3, 4, 8, 513}}
      second == {to_le_bytes(n) : n \in {0, 1, 2, 3, 64}}
      tails == {<<>>, <<0>>, <<0, 1>>, <<0, 1, 2>>}
  IN {<<>>, <<0>>, <<0, 0, 0>>}
       \cup {l \o m : l \in first, m \in MCMetadata}
       \cup {l \o m \o k \o t : l \in first, m \in MCMetadata, k \in second,
                                t \in tails}
=============================================================================
