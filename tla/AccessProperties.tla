-------------------------- MODULE AccessProperties --------------------------
(***************************************************************************)
(* What Access.tla is checked for.                                         *)
(***************************************************************************)
EXTENDS Access, TokenProperties

Call == [stage : {"idle", "authenticating", "principal", "body", "allowed",
                  "replacing", "answering"},
         op : Ops \cup {None}, target : Crates \cup TokenIds \cup {None},
         bootstrap : BOOLEAN, raw : Raw \cup {None}]

(* Types; what the tables hold was validated, what answers carry was       *)
(* generated, and a handler is in a transaction iff its call replaces.     *)
AccessTypeOK ==
  /\ call \in [Callers -> Call]
  /\ shown \cup lost \subseteq issued
  /\ granted \in [Callers -> SUBSET Claims]
  /\ \A id \in TokenIds, claim \in Claims :
       claim \in claims[id] => validate_claim_pattern(claim[2])
  /\ \A c \in Callers :
       /\ txn[c].pc # "idle" <=> call[c].stage = "replacing"
       /\ call[c].stage # "answering" => call[c].raw = None
       /\ call[c].raw # None => call[c].raw \in issued

\* The crates that a scope stands for.
Denotes(scope, name) ==
  \/ scope = name
  \/ \E n \in 0..Len(name) : scope = SubSeq(name, 1, n) \o star

HasRight(rights, action, name) ==
  \E claim \in rights : claim[1] = action /\ Denotes(claim[2], name)

(* A call is let through only if its secret was good when it was sent and  *)
(* its token held the right, as the scopes of its claims are meant, at     *)
(* some moment of its authentication, though the claims are read after the *)
(* token: those that were withdrawn before, or that the scope of a claim   *)
(* only looks like, give no right.                                         *)
ServedWithinRights ==
  \A c \in Callers :
    call[c].stage \in {"allowed", "replacing"} /\ ~call[c].bootstrap =>
      /\ ~session[c].stale
      /\ \/ session[c].admin /\ tokens[session[c].id].admin
         \/ call[c].op \in {"index", "download"}
              /\ HasRight(granted[c], "read", call[c].target)
         \/ call[c].op \in {"publish", "yank"}
              /\ HasRight(granted[c], "publish", call[c].target)
         \/ call[c].op \in {"search", "whoami"}

(* Search lists every crate and asks for the right to read "*": whoever is *)
(* let through may read each crate it lists.                               *)
SearchSeesOnlyReadable ==
  \A c \in Callers :
    call[c].stage = "allowed" /\ call[c].op = "search" =>
      \A name \in Crates : require(c, "read", name)

(* The secret that opens a token was shown to its owner, is on its way, or *)
(* its answer was lost after the table was changed, and a rotation or the  *)
(* bootstrap token is needed: nothing else locks an owner out.             *)
LockoutOnlyByLostAnswer ==
  \A id \in TokenIds :
    Active(id) =>
      \E raw \in shown \cup lost \cup {call[c].raw : c \in Callers} :
        raw # None /\ tokens[id].secret_hash = hash[raw]
=============================================================================
