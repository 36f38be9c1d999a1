---------------------------- MODULE MCStateApply ----------------------------
(* StateApply for TLC: four state files, an empty database and one in use. *)
EXTENDS StateApply

User(n, p) == [name |-> n, perm |-> p]
Fav(n, d)  == [number |-> n, data |-> d]
Node(n, d, fs) == [number |-> n, data |-> d, favs |-> fs]
Purge(b)   == [users |-> b, nodes |-> b, favs |-> b]

MCFiles == {
  [purge |-> Purge(TRUE),
   users |-> <<User("ann", "superuser")>>,
   nodes |-> <<Node(1, "x", <<Fav(2, "x"), Fav(1, "x")>>)>>],
  [purge |-> Purge(TRUE),
   users |-> <<User("cat", "readonly")>>, nodes |-> <<>>],
  [purge |-> Purge(FALSE),
   users |-> <<User("bob", "superuser"), User("ann", "readonly")>>,
   nodes |-> <<Node(2, "x", <<>>), Node(1, "y", <<Fav(1, "x")>>)>>],
  [purge |-> Purge(TRUE),
   users |-> <<User("ann", "readonly"), User("ann", "superuser")>>,
   nodes |-> <<Node(1, "x", <<Fav(2, "x"), Fav(2, "y")>>)>>] }

MCStarts == {
  [users |-> <<>>, nodes |-> <<>>, favs |-> <<>>, next |-> 10],
  [users |-> <<User("ann", "superuser"), User("bob", "superuser")>>,
   nodes |-> <<[number |-> 1, data |-> "y"], [number |-> 2, data |-> "y"]>>,
   favs  |-> <<[node |-> 1, number |-> 2, data |-> "y"],
               [node |-> 2, number |-> 1, data |-> "y"],
               [node |-> 2, number |-> 1, data |-> "x"]>>, next |-> 10] }
=============================================================================
