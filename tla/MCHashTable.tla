---------------------------- MODULE MCHashTable ----------------------------
(***************************************************************************)
(* Three connections to one server.  The packets of all clients hash into  *)
(* one bucket and those of the server into the other.                      *)
(***************************************************************************)
EXTENDS HashTable, TLC

Clients == {<<c, "www">> : c \in {"a", "b", "c"}}
MCSockets == Clients \cup {Reverse(s) : s \in Clients}
MCHash == [s \in MCSockets |-> IF s \in Clients THEN 0 ELSE 1]

\* No definition tells one address from another.
Addresses == Permutations(Flows)
=============================================================================
