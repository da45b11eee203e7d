----------------------- MODULE PublishBodyProperties -----------------------
(***************************************************************************)
(* What PublishBody.tla is checked for.                                    *)
(***************************************************************************)
EXTENDS PublishBody

(* The name that the caller had the right for is the name of the crate     *)
(* that is published, though two parsers with different rules read it.     *)
AuthorizedIsPublished == published # None => published.index_entry.name = name

\* u32::to_le_bytes
to_le_bytes(n) ==
  <<n % Base, (n \div Base) % Base, (n \div (Base * Base)) % Base,
    (n \div (Base * Base * Base)) % Base>>

\* What Cargo sends (parses_cargo_publish_body, registry.rs:394-422).
Encode(metadata, tarball) ==
  to_le_bytes(Len(metadata)) \o metadata \o to_le_bytes(Len(tarball)) \o tarball

(* What is published are the two parts of what Cargo encoded, byte for     *)
(* byte: no length field can move the border between them or hide a part.  *)
PublishedAsEncoded ==
  published # None =>
    /\ Len(published.crate_bytes) <= MaxTarball
    /\ body = Encode(Content(body, 0), published.crate_bytes)

(* Cargo's encoding of a crate is never refused and reads back as it was   *)
(* written: a tarball up to its limit, metadata of which the frame lengths *)
(* leave room in the allowance, and lengths that four bytes can hold.      *)
EncodedIsPublishable ==
  \A n \in 4..Len(body) :
    LET metadata == SubSeq(body, 5, n)
        tarball == SubSeq(body, n + 5, Len(body))
        fields == Fields(metadata)
    IN /\ body = Encode(metadata, tarball)
       /\ Len(metadata) < Base * Base * Base * Base
       /\ Len(tarball) < Base * Base * Base * Base
       /\ Len(tarball) <= MaxTarball
       /\ Len(metadata) + 8 <= Allowance
       /\ Deserializes(fields)
       /\ FirstOf(fields, "name").value \in Names
       /\ FirstOf(fields, "vers").value \in Versions
       => /\ Fits(body)
          /\ crate_name_from_publish_body(body) = FirstOf(fields, "name").value
          /\ parse_publish_body(body)
               = [index_entry |-> build_index_entry(fields), crate_bytes |-> tarball]

\* A dependency of the index as Cargo reads it: the crate is package when
\* there is one, and then name is what the manifest calls it.
Read(entry) ==
  [name |-> IF entry.package = None THEN entry.name ELSE entry.package,
   explicit_name_in_toml |-> IF entry.package = None THEN None ELSE entry.name]

(* What Cargo reads in the index are the dependencies it sent, in order:   *)
(* the crate that each is on, and the name that the code and the features  *)
(* of the author use for it.  The two JSON forms name these differently;   *)
(* two dependencies on one crate under two names are kept apart.           *)
DependenciesResolve ==
  published # None =>
    LET deps == Deps(Fields(Content(body, 0)))
        listed == published.index_entry.deps
    IN /\ Len(listed) = Len(deps)
       /\ \A i \in 1..Len(deps) :
            LET read == Read(listed[i]) IN
              /\ read.name = deps[i].name
              /\ read.explicit_name_in_toml = deps[i].explicit_name_in_toml
=============================================================================
