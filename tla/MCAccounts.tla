----------------------------- MODULE MCAccounts -----------------------------
(* Accounts for TLC: a fresh installation, and one with two superusers,   *)
(* one of which came from a proxy and has two passkeys.                    *)
EXTENDS Accounts, TLC

User(n, w, h) == [name |-> n, pass |-> w, perm |-> "superuser", handle |-> h]
MCKey == [owner |-> 2, handle |-> 2]

MCDatabases == {
  [users |-> <<>>, keys |-> <<>>],
  [users |-> <<User("ann", "hash", 0), User("bob", "*", 2)>>, keys |-> <<MCKey, MCKey>>] }

Symmetry == Permutations(Clients)
=============================================================================
