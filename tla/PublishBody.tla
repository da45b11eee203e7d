---------------------------- MODULE PublishBody ----------------------------
(***************************************************************************)
(* The body of a publish request and its two parsers: one finds the name   *)
(* that the caller needs a right for, the other what is published.         *)
(*                                                                         *)
(* Bytes are digits of base Base, 256 in the code.  usize is wider than    *)
(* u32, so no sum below overflows it.                                      *)
(***************************************************************************)
EXTENDS Naturals, Sequences

CONSTANTS
  Base,
  MaxTarball,           \* MAX_TARBALL_BYTES
  Allowance,            \* 1 MiB for everything but the tarball
  Bodies,               \* what clients send
  Fields(_),            \* serde_json: the members of a JSON object, in order,
                        \* or Malformed
  Malformed,
  Names,                \* strings that validate_crate_name takes
  Versions,             \* strings that are semver versions
  None

Byte == 0..(Base - 1)

ASSUME BaseAssumption == Base \in Nat \ {0, 1}
ASSUME LimitAssumption == MaxTarball \in Nat /\ Allowance \in Nat
ASSUME BodyAssumption == Bodies \subseteq Seq(Byte)
ASSUME NoneAssumption == None \notin Names

VARIABLES
  body,       \* the body that the client sends
  received,   \* whether it was read
  name,       \* the name that the right to publish was checked for
  published   \* what was published, or None

vars == <<body, received, name, published>>

-----------------------------------------------------------------------------
\* u32::from_le_bytes of the four bytes after at
u32(bytes, at) ==
  bytes[at + 1] + Base * bytes[at + 2] + Base * Base * bytes[at + 3]
    + Base * Base * Base * bytes[at + 4]

\* A length, and that many bytes, starting after at.
FrameEnd(bytes, at) == at + 4 + u32(bytes, at)
HasFrame(bytes, at) ==
  at + 4 <= Len(bytes) /\ FrameEnd(bytes, at) <= Len(bytes)
Content(bytes, at) == SubSeq(bytes, at + 5, FrameEnd(bytes, at))

\* A body that can be framed holds an object or it does not.  In a list of
\* dependencies each names the crate that it is on.
ASSUME FieldsAssumption ==
         \A bytes \in Bodies :
           LET fields == Fields(Content(bytes, 0)) IN
             HasFrame(bytes, 0) /\ fields # Malformed =>
               /\ Len(fields) \in Nat
               /\ \A i \in 1..Len(fields) : fields[i].type = "deps" =>
                    /\ Len(fields[i].value) \in Nat
                    /\ \A j \in 1..Len(fields[i].value) :
                         fields[i].value[j].name # None

Has(fields, key) == \E i \in 1..Len(fields) : fields[i].key = key
FirstOf(fields, key) ==
  fields[CHOOSE i \in 1..Len(fields) :
           /\ fields[i].key = key
           /\ \A j \in 1..(i - 1) : fields[j].key # key]
LastOf(fields, key) ==
  fields[CHOOSE i \in 1..Len(fields) :
           /\ fields[i].key = key
           /\ \A j \in (i + 1)..Len(fields) : fields[j].key # key]

-----------------------------------------------------------------------------
(* crate_name_from_publish_body reads any JSON object, of whose members of *)
(* one name the last counts.                                               *)
crate_name_from_publish_body(bytes) ==
  LET fields == Fields(Content(bytes, 0)) IN
    IF /\ HasFrame(bytes, 0)
       /\ fields # Malformed
       /\ Has(fields, "name")
       /\ LastOf(fields, "name").type = "string"
    THEN LastOf(fields, "name").value
    ELSE None

\* PublishMetadata: the members it knows, and the types they may have.
PublishMetadata ==
  [name |-> {"string"}, vers |-> {"string"}, deps |-> {"deps"},
   features |-> {"features"}, links |-> {"string", "null"},
   rust_version |-> {"string", "null"}, description |-> {"string", "null"}]

\* Of repeated members the first counts.
DeserializesLoosely(fields) ==
  /\ fields # Malformed
  /\ Has(fields, "name") /\ Has(fields, "vers")
  /\ \A i \in 1..Len(fields) :
       fields[i].key \in DOMAIN PublishMetadata
         => fields[i].type \in PublishMetadata[fields[i].key]

\* A repeated member is an error; one that is not known is skipped.
Deserializes(fields) ==
  /\ fields # Malformed
  /\ Has(fields, "name") /\ Has(fields, "vers")
  /\ \A i \in 1..Len(fields) :
       fields[i].key \in DOMAIN PublishMetadata =>
         /\ fields[i].type \in PublishMetadata[fields[i].key]
         /\ \A j \in 1..Len(fields) : fields[j].key = fields[i].key => j = i

\* The members that deserialize occur once.
Deps(fields) == IF Has(fields, "deps") THEN FirstOf(fields, "deps").value ELSE <<>>

\* Both names of a renamed dependency filled from the crate it is on.
index_dependency_renamed(dep) ==
  [name |-> dep.name,
   package |-> IF dep.explicit_name_in_toml = None THEN None ELSE dep.name]

index_dependency(dep) ==
  IF dep.explicit_name_in_toml = None
  THEN [name |-> dep.name, package |-> None]
  ELSE [name |-> dep.explicit_name_in_toml, package |-> dep.name]

build_index_entry(fields) ==
  [name |-> FirstOf(fields, "name").value, vers |-> FirstOf(fields, "vers").value,
   deps |-> [i \in 1..Len(Deps(fields)) |-> index_dependency(Deps(fields)[i])]]

\* The second frame may end before the body does.
FramedLoosely(bytes) ==
  HasFrame(bytes, 0) /\ HasFrame(bytes, FrameEnd(bytes, 0))

\* Two frames and nothing else.
Framed(bytes) ==
  /\ HasFrame(bytes, 0)
  /\ HasFrame(bytes, FrameEnd(bytes, 0))
  /\ FrameEnd(bytes, FrameEnd(bytes, 0)) = Len(bytes)

\* The limit of the tarball and the lengths, but no metadata.
FitsTarball(bytes) == Len(bytes) <= MaxTarball + 8

Fits(bytes) == Len(bytes) <= MaxTarball + Allowance

TarballFits(tarball) == Len(tarball) <= MaxTarball

parse_publish_body(bytes) ==
  LET fields == Fields(Content(bytes, 0))
      tarball == Content(bytes, FrameEnd(bytes, 0))
  IN IF /\ Fits(bytes)
        /\ Framed(bytes)
        /\ TarballFits(tarball)
        /\ Deserializes(fields)
        /\ FirstOf(fields, "name").value \in Names
        /\ FirstOf(fields, "vers").value \in Versions
     THEN [index_entry |-> build_index_entry(fields), crate_bytes |-> tarball]
     ELSE None

-----------------------------------------------------------------------------
Init ==
  /\ body \in Bodies
  /\ received = FALSE /\ name = None /\ published = None

\* to_bytes stops at the limit.
ReadBody ==
  /\ Fits(body)
  /\ received' = TRUE
  /\ UNCHANGED <<body, name, published>>

\* require_publish is asked for this name.
ReadName ==
  /\ received /\ name = None
  /\ name' = crate_name_from_publish_body(body)
  /\ name' # None
  /\ UNCHANGED <<body, received, published>>

Publish ==
  /\ name # None /\ published = None
  /\ published' = parse_publish_body(body)
  /\ published' # None
  /\ UNCHANGED <<body, received, name>>

Next == ReadBody \/ ReadName \/ Publish

Spec == Init /\ [][Next]_vars
=============================================================================
