-------------------------- MODULE StateApplyProofs --------------------------
(***************************************************************************)
(* What StateApply keeps for any files, databases before, names, numbers   *)
(* and rows, and any number of runs of apply and of changes by the server. *)
(***************************************************************************)
EXTENDS StateApply, SequenceTheorems, FiniteSetTheorems,
        WellFoundedInduction, TLAPS

NodeRow == [number : Numbers, data : Data]

UserSteps == {"users", "createUser", "updateUser"}
NodeSteps == {"nodes", "createNode", "updateNode", "favs", "createFav", "updateFav",
              "purgeFavs"}
FavSteps  == {"favs", "createFav", "updateFav", "purgeFavs"}
Steps     == UserSteps \cup NodeSteps \cup
             {"idle", "purgeUsers", "deleteUser", "purgeNodes", "done", "failed"}

(* Apply is at a statement, with entries of the file still to look at. *)
WorkInv ==
  /\ pc \in Steps /\ file \in StateFile
  /\ pc \in UserSteps => todo \in Seq(UserSpec)
  /\ pc \in NodeSteps => todo \in Seq(NodeSpec)
  /\ pc \in (UserSteps \cup NodeSteps) \ {"users", "nodes"} => todo # <<>>
  /\ favTodo \in Seq(FavSpec)
  /\ pc \in {"createFav", "updateFav"} => favTodo # <<>>

(* The row of a user that is about to be updated, if there still is one,   *)
(* has the name of the entry: no id is given out again.                    *)
FoundInv ==
  pc = "updateUser" =>
    found \in 1 .. serial - 1 /\
    (found \in DOMAIN users => users[found].name = Head(todo).name)

Copies  == [dst : Nat, seen : SUBSET Numbers, had : SUBSET Numbers, was : SUBSET Nat]
Imports == [dst : Nat, seen : SUBSET Numbers, had : SUBSET Numbers, was : SUBSET Nat,
            rest : SUBSET Numbers, data : Data]

(* What is left of an import is none of what was listed or created since. *)
HeldInv ==
  /\ copy = NoCopy \/ copy \in Copies
  /\ import = NoImport \/ import \in Imports
  /\ import.rest \cap import.seen = {}

TablesInv == Consistent(users, nodes, favs, serial)
CountInv  == /\ report \in Nat /\ told \in Nat /\ passed \in Nat /\ foregone \in Nat
             /\ IsFiniteSet(spared)
TypeInv   == TablesInv /\ WorkInv /\ FoundInv /\ HeldInv /\ CountInv

-----------------------------------------------------------------------------
(* The statements that keep the tables consistent *)

(* The table t with a row under the next id. *)
Grown(t, next, row) == [x \in DOMAIN t \cup {next} |-> IF x = next THEN row ELSE t[x]]

(* A user with a new name may be added under the next id. *)
LEMMA AddUser ==
  ASSUME NEW us, NEW ns, NEW fs, NEW next, Consistent(us, ns, fs, next),
         NEW row \in UserSpec, \A u \in DOMAIN us : us[u].name # row.name
  PROVE  Consistent(Grown(us, next, row),
                    ns, fs, next + 1)
<1> DEFINE t == Grown(us, next, row)
<1> USE DEF Grown
<1>1. DOMAIN t = DOMAIN us \cup {next} /\ next \notin DOMAIN us
      /\ \A x \in DOMAIN us : x # next /\ t[x] = us[x]
  BY DEF Consistent
<1>2. t[next] = row
  OBVIOUS
<1>3. next + 1 \in Nat \ {0} /\ DOMAIN t \cup DOMAIN ns \cup DOMAIN fs \subseteq 1 .. (next + 1) - 1
  BY <1>1 DEF Consistent
<1>4. t \in [DOMAIN t -> UserSpec]
  BY <1>1, <1>2 DEF Consistent, IsTable
<1>5. \A u, v \in DOMAIN t : t[u].name = t[v].name => u = v
  BY <1>1, <1>2 DEF Consistent
<1> QED
  BY <1>3, <1>4, <1>5 DEF Consistent, IsTable

(* A user's row may be replaced by one with the same name. *)
LEMMA SetUser ==
  ASSUME NEW us, NEW ns, NEW fs, NEW next, Consistent(us, ns, fs, next),
         NEW u \in DOMAIN us, NEW row \in UserSpec, row.name = us[u].name
  PROVE  Consistent([us EXCEPT ![u] = row], ns, fs, next)
<1> DEFINE t == [us EXCEPT ![u] = row]
<1>1. us \in [DOMAIN us -> UserSpec]
  BY DEF Consistent, IsTable
<1>2. DOMAIN t = DOMAIN us /\ t \in [DOMAIN us -> UserSpec]
  BY <1>1
<1>3. \A x \in DOMAIN us : t[x].name = us[x].name
  BY <1>1
<1> QED
  BY <1>2, <1>3 DEF Consistent, IsTable

(* Users may be deleted. *)
LEMMA DropUsers ==
  ASSUME NEW us, NEW ns, NEW fs, NEW next, Consistent(us, ns, fs, next), NEW D
  PROVE  Consistent(Without(us, D), ns, fs, next)
BY DEF Consistent, IsTable, Without

(* A node may be added under the next id. *)
LEMMA AddNode ==
  ASSUME NEW us, NEW ns, NEW fs, NEW next, Consistent(us, ns, fs, next),
         NEW row \in NodeRow
  PROVE  Consistent(us, Grown(ns, next, row),
                    fs, next + 1)
<1> DEFINE t == Grown(ns, next, row)
<1> USE DEF Grown
<1>1. DOMAIN t = DOMAIN ns \cup {next}
  OBVIOUS
<1>2. next + 1 \in Nat \ {0} /\ DOMAIN us \cup DOMAIN t \cup DOMAIN fs \subseteq 1 .. (next + 1) - 1
  BY <1>1 DEF Consistent
<1>3. t \in [DOMAIN t -> NodeRow]
  BY <1>1 DEF Consistent, IsTable, NodeRow
<1>4. fs \in [DOMAIN fs -> [node : DOMAIN t, number : Numbers, data : Data]]
  BY <1>1 DEF Consistent, IsTable
<1> QED
  BY <1>2, <1>3, <1>4 DEF Consistent, IsTable, NodeRow

(* A node's row may be replaced. *)
LEMMA SetNode ==
  ASSUME NEW us, NEW ns, NEW fs, NEW next, Consistent(us, ns, fs, next),
         NEW x \in DOMAIN ns, NEW row \in NodeRow
  PROVE  Consistent(us, [ns EXCEPT ![x] = row], fs, next)
<1> DEFINE t == [ns EXCEPT ![x] = row]
<1>1. ns \in [DOMAIN ns -> NodeRow]
  BY DEF Consistent, IsTable, NodeRow
<1>2. DOMAIN t = DOMAIN ns /\ t \in [DOMAIN ns -> NodeRow]
  BY <1>1
<1> QED
  BY <1>2 DEF Consistent, IsTable, NodeRow

(* A node may be deleted with its favorites. *)
LEMMA DropNode ==
  ASSUME NEW us, NEW ns, NEW fs, NEW next, Consistent(us, ns, fs, next), NEW x,
         NEW D, \A f \in DOMAIN fs : fs[f].node = x => f \in D
  PROVE  Consistent(us, Without(ns, {x}), Without(fs, D), next)
<1> DEFINE s == Without(ns, {x})
           t == Without(fs, D)
<1> USE DEF Without
<1>1. DOMAIN s = DOMAIN ns \ {x} /\ DOMAIN t = DOMAIN fs \ D
  OBVIOUS
<1>2. s \in [DOMAIN s -> [number : Numbers, data : Data]]
  BY DEF Consistent, IsTable
<1>3. t \in [DOMAIN t -> [node : DOMAIN s, number : Numbers, data : Data]]
  <2> SUFFICES ASSUME NEW f \in DOMAIN t
               PROVE  t[f] \in [node : DOMAIN s, number : Numbers, data : Data]
    OBVIOUS
  <2>1. fs[f] \in [node : DOMAIN ns, number : Numbers, data : Data] /\ fs[f].node # x
    BY <1>1 DEF Consistent, IsTable
  <2> QED
    BY <1>1, <2>1
<1> QED
  BY <1>1, <1>2, <1>3 DEF Consistent, IsTable

(* A favorite of an existing node may be added under the next id. *)
LEMMA AddFavorite ==
  ASSUME NEW us, NEW ns, NEW fs, NEW next, Consistent(us, ns, fs, next),
         NEW row \in [node : DOMAIN ns, number : Numbers, data : Data]
  PROVE  Consistent(us, ns, Grown(fs, next, row),
                    next + 1)
<1> DEFINE t == Grown(fs, next, row)
<1> USE DEF Grown
<1>1. DOMAIN t = DOMAIN fs \cup {next}
  OBVIOUS
<1>2. next + 1 \in Nat \ {0} /\ DOMAIN us \cup DOMAIN ns \cup DOMAIN t \subseteq 1 .. (next + 1) - 1
  BY <1>1 DEF Consistent
<1>3. t \in [DOMAIN t -> [node : DOMAIN ns, number : Numbers, data : Data]]
  BY <1>1 DEF Consistent, IsTable
<1> QED
  BY <1>2, <1>3 DEF Consistent, IsTable

(* A favorite's number and data may be replaced. *)
LEMMA SetFavorite ==
  ASSUME NEW us, NEW ns, NEW fs, NEW next, Consistent(us, ns, fs, next),
         NEW f \in DOMAIN fs, NEW n \in Numbers, NEW d \in Data
  PROVE  Consistent(us, ns, [fs EXCEPT ![f].number = n, ![f].data = d], next)
<1> DEFINE t == [fs EXCEPT ![f].number = n, ![f].data = d]
           Row == [node : DOMAIN ns, number : Numbers, data : Data]
<1>1. fs \in [DOMAIN fs -> Row]
  BY DEF Consistent, IsTable
<1>2. DOMAIN t = DOMAIN fs /\ t \in [DOMAIN fs -> Row]
  BY <1>1
<1> QED
  BY <1>2 DEF Consistent, IsTable

(* Favorites may be deleted. *)
LEMMA DropFavorites ==
  ASSUME NEW us, NEW ns, NEW fs, NEW next, Consistent(us, ns, fs, next), NEW D
  PROVE  Consistent(us, ns, Without(fs, D), next)
BY DEF Consistent, IsTable, Without

-----------------------------------------------------------------------------
(* What the operators give *)

(* The lowest of some natural numbers is one of them, and none is below it. *)
LEMMA LowestIs ==
  ASSUME NEW S \in SUBSET Nat, S # {}
  PROVE  Lowest(S) \in S /\ \A x \in S : Lowest(S) <= x
<1>1. PICK x \in S : \A y \in S : ~(<<y, x>> \in OpToRel(<, Nat))
  BY NatLessThanWellFounded, WFMin, Zenon
<1>2. \A y \in S : ~(y < x)
  BY <1>1, Zenon DEF OpToRel
<1>3. \A y \in S : x <= y
  BY <1>2
<1> QED
  BY <1>3 DEF Lowest

(* A row is added under the next id. *)
LEMMA WithIs ==
  \A t, row : With(t, row) = Grown(t, serial, row)
BY DEF With, Grown

(* Ids are natural numbers below the next one. *)
LEMMA IdsAre ==
  ASSUME TablesInv
  PROVE  /\ serial \in Nat \ {0}
         /\ DOMAIN users \subseteq 1 .. serial - 1 /\ DOMAIN users \subseteq Nat
         /\ DOMAIN nodes \subseteq 1 .. serial - 1 /\ DOMAIN nodes \subseteq Nat
         /\ DOMAIN favs \subseteq 1 .. serial - 1 /\ DOMAIN favs \subseteq Nat
         /\ serial \notin DOMAIN users /\ serial \notin DOMAIN nodes
         /\ serial \notin DOMAIN favs
BY DEF TablesInv, Consistent

(* Rows have their types. *)
LEMMA RowsAre ==
  ASSUME TablesInv
  PROVE  /\ \A u \in DOMAIN users : users[u] \in UserSpec
         /\ \A x \in DOMAIN nodes : nodes[x] \in NodeRow
         /\ \A f \in DOMAIN favs :
              favs[f] \in [node : DOMAIN nodes, number : Numbers, data : Data]
BY DEF TablesInv, Consistent, IsTable, NodeRow

(* The entry at hand is of the file's kind. *)
LEMMA EntryAtHand ==
  ASSUME WorkInv
  PROVE  /\ pc \in UserSteps \ {"users"} => Head(todo) \in UserSpec
         /\ pc \in NodeSteps \ {"nodes"} => Head(todo) \in NodeSpec
         /\ pc \in {"createFav", "updateFav"} => Head(favTodo) \in FavSpec
BY HeadTailProperties DEF WorkInv, UserSteps, NodeSteps

(* The ids CopyFavorites gives: the next ones, in the order of the rows. *)
IdsFor(new) == [f \in new |-> serial + Cardinality({g \in new : g < f})]

(* Each row that is copied gets an id of its own, from the next one on. *)
LEMMA CopiedIds ==
  ASSUME TablesInv, NEW ids \in SUBSET DOMAIN favs, NEW seen,
         NEW new, new = Copied(ids, seen),
         NEW at, at = IdsFor(new)
  PROVE  /\ new \subseteq ids /\ IsFiniteSet(new) /\ Cardinality(new) \in Nat
         /\ \A f \in new : at[f] \in serial .. serial + Cardinality(new) - 1
         /\ \A f, g \in new : at[f] = at[g] => f = g
<1> DEFINE Below(f) == {g \in new : g < f}
<1>1. new \subseteq ids /\ new \subseteq 1 .. serial - 1 /\ serial \in Nat
  BY IdsAre DEF Copied
<1>2. IsFiniteSet(new) /\ Cardinality(new) \in Nat
  <2>1. IsFiniteSet(1 .. serial - 1)
    BY <1>1, FS_Interval
  <2> QED
    BY <1>1, <2>1, FS_Subset, FS_CardinalityType
<1>3. \A f \in new : IsFiniteSet(Below(f)) /\ Cardinality(Below(f)) \in Nat
                     /\ Cardinality(Below(f)) < Cardinality(new)
  <2> SUFFICES ASSUME NEW f \in new
               PROVE  IsFiniteSet(Below(f)) /\ Cardinality(Below(f)) \in Nat
                      /\ Cardinality(Below(f)) < Cardinality(new)
    OBVIOUS
  <2>1. Below(f) \subseteq new /\ f \notin Below(f)
    BY <1>1
  <2>2. IsFiniteSet(Below(f)) /\ Cardinality(Below(f)) \in Nat
    BY <1>2, <2>1, FS_Subset, FS_CardinalityType
  <2>3. Cardinality(Below(f)) <= Cardinality(new)
        /\ (Cardinality(Below(f)) = Cardinality(new) => Below(f) = new)
    BY <1>2, <2>1, FS_Subset
  <2> HIDE DEF Below
  <2> QED
    BY <1>2, <2>1, <2>2, <2>3
<1>4. ASSUME NEW f \in new, NEW g \in new, f < g
      PROVE  Cardinality(Below(f)) < Cardinality(Below(g))
  <2>1. Below(f) \subseteq Below(g) /\ f \in Below(g) /\ f \notin Below(f)
    BY <1>1, <1>4
  <2>2. Cardinality(Below(f)) <= Cardinality(Below(g))
        /\ (Cardinality(Below(f)) = Cardinality(Below(g)) => Below(f) = Below(g))
    BY <1>3, <2>1, FS_Subset
  <2> HIDE DEF Below
  <2> QED
    BY <1>3, <2>1, <2>2
<1>5. \A f \in new : at[f] = serial + Cardinality(Below(f))
  BY DEF IdsFor
<1> HIDE DEF Below
<1>6. \A f \in new : at[f] \in serial .. serial + Cardinality(new) - 1
  BY <1>1, <1>2, <1>3, <1>5
<1>7. ASSUME NEW f \in new, NEW g \in new, at[f] = at[g] PROVE f = g
  <2>1. Cardinality(Below(f)) = Cardinality(Below(g))
    BY <1>1, <1>3, <1>5, <1>7
  <2>2. ~(f < g) /\ ~(g < f)
    BY <1>3, <1>4, <2>1
  <2> QED
    BY <1>1, <2>2
<1> QED
  BY <1>1, <1>2, <1>6, <1>7

(* The favorites with the copies of new at the node dst. *)
CopiedTo(new, at, dst) ==
  [i \in DOMAIN favs \cup {at[f] : f \in new} |->
     IF i \in DOMAIN favs THEN favs[i]
     ELSE [favs[CHOOSE f \in new : at[f] = i] EXCEPT !.node = dst]]

(* The table t is that of the favorites, with each of new at dst as well. *)
RowsCopied(t, new, at, dst) ==
  /\ t = [i \in DOMAIN t |-> t[i]]
  /\ DOMAIN t = DOMAIN favs \cup {at[f] : f \in new}
  /\ \A i \in DOMAIN favs : t[i] = favs[i]
  /\ \A f \in new : at[f] \notin DOMAIN favs /\ t[at[f]] = [favs[f] EXCEPT !.node = dst]

(* Copies under ids of their own leave the other favorites alone. *)
LEMMA CopiedRows ==
  ASSUME TablesInv, NEW new, NEW at, NEW dst,
         \A f \in new : at[f] \in Nat /\ at[f] >= serial,
         \A f, g \in new : at[f] = at[g] => f = g
  PROVE  RowsCopied(CopiedTo(new, at, dst), new, at, dst)
<1> DEFINE t == CopiedTo(new, at, dst)
<1>1. DOMAIN t = DOMAIN favs \cup {at[f] : f \in new} /\ t = [i \in DOMAIN t |-> t[i]]
  BY DEF CopiedTo
<1>2. \A i \in DOMAIN favs : t[i] = favs[i]
  BY DEF CopiedTo
<1>3. ASSUME NEW f \in new
      PROVE  at[f] \notin DOMAIN favs /\ t[at[f]] = [favs[f] EXCEPT !.node = dst]
  <2>1. at[f] \notin DOMAIN favs
    BY IdsAre
  <2>2. (CHOOSE g \in new : at[g] = at[f]) = f
    OBVIOUS
  <2> QED
    BY <2>1, <2>2 DEF CopiedTo
<1> QED
  BY <1>1, <1>2, <1>3, Zenon DEF RowsCopied

(* What CopyFavorites does, unless it fails: of the favorites of a node,   *)
(* one of each number not seen goes to the destination, under a new id.    *)
LEMMA CopyStep ==
  ASSUME TablesInv, CopyFavorites, ~ UNCHANGED <<favs, serial>>
  PROVE  \E new, at :
           /\ new \subseteq DOMAIN favs
           /\ copy.dst \in DOMAIN nodes
           /\ RowsCopied(favs', new, at, copy.dst)
           /\ Cardinality(new) \in Nat /\ serial' = serial + Cardinality(new)
           /\ \A f \in new : at[f] \in serial .. serial + Cardinality(new) - 1
           /\ \A f \in new : favs[f].number \notin copy.seen
           /\ \A f, g \in new : favs[f].number = favs[g].number => f = g
<1>0. PICK x \in DOMAIN nodes : \E ids \in SUBSET FavsOf(x) :
        /\ copy.dst \in DOMAIN nodes
        /\ favs' = CopiedTo(Copied(ids, copy.seen), IdsFor(Copied(ids, copy.seen)), copy.dst)
        /\ serial' = serial + Cardinality(Copied(ids, copy.seen))
  BY Zenon DEF CopyFavorites, IdsFor, CopiedTo
<1>1. PICK ids \in SUBSET FavsOf(x) :
        /\ copy.dst \in DOMAIN nodes
        /\ favs' = CopiedTo(Copied(ids, copy.seen), IdsFor(Copied(ids, copy.seen)), copy.dst)
        /\ serial' = serial + Cardinality(Copied(ids, copy.seen))
  BY <1>0
<1> DEFINE new == Copied(ids, copy.seen)
           at  == IdsFor(new)
<1>2. ids \in SUBSET DOMAIN favs /\ ids \in SUBSET Nat /\ serial \in Nat
  BY IdsAre DEF FavsOf
<1>3. /\ new \subseteq ids /\ Cardinality(new) \in Nat
      /\ \A f \in new : at[f] \in serial .. serial + Cardinality(new) - 1
      /\ \A f, g \in new : at[f] = at[g] => f = g
  BY <1>2, CopiedIds
<1>4. \A f \in new : favs[f].number \notin copy.seen
  BY DEF Copied
<1>5. \A f, g \in new : favs[f].number = favs[g].number => f = g
  <2> SUFFICES ASSUME NEW f \in new, NEW g \in new, favs[f].number = favs[g].number
               PROVE  f = g
    OBVIOUS
  <2>1. f <= g /\ g <= f /\ f \in Nat /\ g \in Nat
    BY <1>2 DEF Copied
  <2> QED
    BY <2>1
<1> HIDE DEF new, at
<1>6. \A f \in new : at[f] \in Nat /\ at[f] >= serial
  BY <1>2, <1>3
<1>7. RowsCopied(CopiedTo(new, at, copy.dst), new, at, copy.dst)
  BY <1>3, <1>6, CopiedRows
<1>8. favs' = CopiedTo(new, at, copy.dst) /\ serial' = serial + Cardinality(new)
  BY <1>1 DEF new, at
<1>9. RowsCopied(favs', new, at, copy.dst)
  BY <1>7, <1>8, Zenon
<1> QED
  BY <1>1, <1>2, <1>3, <1>4, <1>5, <1>8, <1>9

-----------------------------------------------------------------------------
(* Types *)

(* Every step keeps the tables consistent. *)
LEMMA TablesStep ==
  TypeInv /\ [Next]_vars => TablesInv'
<1> SUFFICES ASSUME TypeInv, [Next]_vars PROVE TablesInv'
  OBVIOUS
<1> USE DEF TypeInv, tables, place, hist
<1>1. CASE UNCHANGED <<users, nodes, favs, serial>>
  BY <1>1 DEF TablesInv, Consistent, IsTable
<1>2. CASE ApplyCreateUser
  <2>1. CASE Named(Head(todo).name) = {} /\ serial' = serial + 1 /\ UNCHANGED <<nodes, favs>>
             /\ users' = With(users, [name |-> Head(todo).name, perm |-> Head(todo).perm])
    <3>1. [name |-> Head(todo).name, perm |-> Head(todo).perm] \in UserSpec
      BY <1>2, EntryAtHand DEF ApplyCreateUser, UserSteps, UserSpec
    <3>2. \A u \in DOMAIN users : users[u].name # Head(todo).name
      BY <2>1 DEF Named
    <3> QED
      BY <2>1, <3>1, <3>2, AddUser, WithIs DEF TablesInv
  <2> QED
    BY <1>1, <1>2, <2>1 DEF ApplyCreateUser, Fail
<1>3. CASE ApplyUpdateUser
  <2>1. CASE found \in DOMAIN users
    <3>1. [name |-> Head(todo).name, perm |-> Head(todo).perm] \in UserSpec
      BY <1>3, EntryAtHand DEF ApplyUpdateUser, UserSteps, UserSpec
    <3>2. users[found].name = Head(todo).name
      BY <1>3, <2>1 DEF ApplyUpdateUser, FoundInv
    <3>3. users' = [users EXCEPT ![found] = [name |-> Head(todo).name, perm |-> Head(todo).perm]]
          /\ UNCHANGED <<nodes, favs, serial>>
      BY <1>3, <2>1 DEF ApplyUpdateUser, Put
    <3> QED
      BY <2>1, <3>1, <3>2, <3>3, SetUser DEF TablesInv
  <2> QED
    BY <1>1, <1>3, <2>1 DEF ApplyUpdateUser, Put
<1>4. CASE ApplyDeleteUser
  BY <1>4, DropUsers DEF ApplyDeleteUser, TablesInv
<1>5. CASE ApplyCreateNode
  <2>1. [number |-> Head(todo).number, data |-> Head(todo).data] \in NodeRow
    BY <1>5, EntryAtHand DEF ApplyCreateNode, NodeSteps, NodeSpec, NodeRow
  <2> QED
    BY <1>5, <2>1, AddNode, WithIs DEF ApplyCreateNode, TablesInv
<1>6. CASE ApplyUpdateNode
  <2>1. [number |-> Head(todo).number, data |-> Head(todo).data] \in NodeRow
    BY <1>6, EntryAtHand DEF ApplyUpdateNode, NodeSteps, NodeSpec, NodeRow
  <2> QED
    BY <1>1, <1>6, <2>1, SetNode DEF ApplyUpdateNode, Put, TablesInv
<1>7. CASE ApplyCreateFavorite
  <2>1. CASE nid \in DOMAIN nodes
             /\ InsertFavorite([node |-> nid, number |-> Head(favTodo).number,
                                data |-> Head(favTodo).data])
    <3>1. [node |-> nid, number |-> Head(favTodo).number, data |-> Head(favTodo).data]
            \in [node : DOMAIN nodes, number : Numbers, data : Data]
      BY <1>7, <2>1, EntryAtHand DEF ApplyCreateFavorite, FavSpec
    <3> QED
      BY <1>7, <2>1, <3>1, AddFavorite, WithIs DEF ApplyCreateFavorite, InsertFavorite, TablesInv
  <2> QED
    BY <1>1, <1>7, <2>1 DEF ApplyCreateFavorite, Fail
<1>8. CASE ApplyUpdateFavorite
  <2>1. Head(favTodo).number \in Numbers /\ Head(favTodo).data \in Data
    BY <1>8, EntryAtHand DEF ApplyUpdateFavorite, FavSpec
  <2> QED
    BY <1>1, <1>8, <2>1, SetFavorite DEF ApplyUpdateFavorite, TablesInv
<1>9. CASE ApplyDeleteFavorite
  BY <1>1, <1>9, DropFavorites DEF ApplyDeleteFavorite, TablesInv
<1>10. ASSUME NEW x, DeleteNode(x), UNCHANGED <<users, serial>> PROVE TablesInv'
  <2>1. \A f \in DOMAIN favs : favs[f].node = x => f \in Cascade(x)
    BY DEF Cascade, FavsOf
  <2> QED
    BY <1>10, <2>1, DropNode DEF DeleteNode, TablesInv
<1>11. CASE ApplyDeleteNode
  BY <1>1, <1>10, <1>11 DEF ApplyDeleteNode
<1>12. CASE CreateFavorite
  BY <1>12, AddFavorite, WithIs DEF CreateFavorite, InsertFavorite, TablesInv
<1>13. CASE UpdateFavorite
  <2>1. PICK f \in DOMAIN favs, n \in Numbers, d \in Data :
          favs' = [favs EXCEPT ![f].number = n, ![f].data = d]
    BY <1>13 DEF UpdateFavorite
  <2>2. Consistent(users, nodes, [favs EXCEPT ![f].number = n, ![f].data = d], serial)
    BY SetFavorite DEF TablesInv
  <2> QED
    BY <1>13, <2>1, <2>2 DEF UpdateFavorite, TablesInv
<1>14. CASE DeleteFavorite
  BY <1>14, DropFavorites DEF DeleteFavorite, TablesInv
<1>15. CASE CopyFavorites
  <2>1. UNCHANGED <<users, nodes>>
    BY <1>15 DEF CopyFavorites
  <2>2. ASSUME ~ UNCHANGED <<favs, serial>> PROVE TablesInv'
    <3> DEFINE Row == [node : DOMAIN nodes, number : Numbers, data : Data]
    <3>1. PICK new, at :
            /\ new \subseteq DOMAIN favs
            /\ copy.dst \in DOMAIN nodes
            /\ RowsCopied(favs', new, at, copy.dst)
            /\ Cardinality(new) \in Nat /\ serial' = serial + Cardinality(new)
            /\ \A f \in new : at[f] \in serial .. serial + Cardinality(new) - 1
      BY <1>15, <2>2, CopyStep
    <3>2. \A i \in DOMAIN favs : favs'[i] \in Row
      BY <3>1, RowsAre DEF RowsCopied
    <3>3. ASSUME NEW f \in new PROVE favs'[at[f]] \in Row
      <4>1. favs[f] \in Row
        BY <3>1, RowsAre
      <4>2. favs'[at[f]] = [favs[f] EXCEPT !.node = copy.dst]
        BY <3>1 DEF RowsCopied
      <4> QED
        BY <3>1, <4>1, <4>2
    <3>4. \A i \in DOMAIN favs' : favs'[i] \in Row
      BY <3>1, <3>2, <3>3 DEF RowsCopied
    <3>5. IsTable(favs', Row)
      BY <3>1, <3>4 DEF RowsCopied, IsTable
    <3>6. \A i \in DOMAIN favs \cup DOMAIN users \cup DOMAIN nodes : i \in 1 .. serial' - 1
      BY <3>1, IdsAre
    <3>7. \A f \in new : at[f] \in 1 .. serial' - 1
      BY <3>1, IdsAre
    <3>8. serial' \in Nat \ {0}
          /\ DOMAIN users \cup DOMAIN nodes \cup DOMAIN favs' \subseteq 1 .. serial' - 1
      BY <3>1, <3>6, <3>7, IdsAre DEF RowsCopied
    <3> QED
      BY <2>1, <3>5, <3>8 DEF TablesInv, Consistent
  <2> QED
    BY <1>1, <2>1, <2>2
<1>16. CASE ImportFavorite
  <2>1. ASSUME NEW n \in import.rest, import.dst \in DOMAIN nodes,
               InsertFavorite([node |-> import.dst, number |-> n, data |-> import.data])
        PROVE  TablesInv'
    <3>1. n \in Numbers /\ import.data \in Data
      <4>1. import \in Imports
        <5>1. NoImport.rest = {}
          BY DEF NoImport
        <5> QED
          BY <2>1, <5>1 DEF HeldInv
      <4> QED
        BY <2>1, <4>1 DEF Imports
    <3> QED
      BY <1>16, <2>1, <3>1, AddFavorite, WithIs DEF ImportFavorite, InsertFavorite, TablesInv
  <2> QED
    BY <1>1, <1>16, <2>1 DEF ImportFavorite
<1>17. CASE CreateNode
  BY <1>17, AddNode, WithIs DEF CreateNode, TablesInv, NodeRow
<1>18. CASE UpdateNode
  <2>1. PICK x \in DOMAIN nodes, d \in Data : nodes' = [nodes EXCEPT ![x].data = d]
    BY <1>18 DEF UpdateNode
  <2>2. nodes[x] \in NodeRow
    BY RowsAre
  <2>3. [nodes[x] EXCEPT !.data = d] \in NodeRow
    BY <2>2 DEF NodeRow
  <2>4. nodes' = [nodes EXCEPT ![x] = [nodes[x] EXCEPT !.data = d]]
    BY <2>1
  <2> QED
    BY <1>18, <2>3, <2>4, SetNode DEF UpdateNode, TablesInv
<1>19. CASE RemoveNode
  BY <1>10, <1>19 DEF RemoveNode
<1>20. CASE ChangeUsers
  <2>1. UNCHANGED <<nodes, favs>>
    BY <1>20 DEF ChangeUsers
  <2>2. ASSUME NEW n \in Names, NEW p \in Perms, Named(n) = {}, serial' = serial + 1,
               users' = With(users, [name |-> n, perm |-> p])
        PROVE  TablesInv'
    <3>1. [name |-> n, perm |-> p] \in UserSpec /\ \A u \in DOMAIN users : users[u].name # n
      BY <2>2 DEF UserSpec, Named
    <3> QED
      BY <2>1, <2>2, <3>1, AddUser, WithIs DEF TablesInv
  <2>3. ASSUME NEW u \in DOMAIN users, users' = Without(users, {u}), UNCHANGED serial
        PROVE  TablesInv'
    BY <2>1, <2>3, DropUsers DEF TablesInv
  <2>4. ASSUME NEW u \in DOMAIN users, NEW p \in Perms, users' = [users EXCEPT ![u].perm = p],
               UNCHANGED serial
        PROVE  TablesInv'
    <3>1. users[u] \in UserSpec
      BY RowsAre
    <3>2. [users[u] EXCEPT !.perm = p] \in UserSpec
          /\ [users[u] EXCEPT !.perm = p].name = users[u].name
      BY <3>1 DEF UserSpec
    <3>3. users' = [users EXCEPT ![u] = [users[u] EXCEPT !.perm = p]]
      BY <2>4
    <3>4. Consistent([users EXCEPT ![u] = [users[u] EXCEPT !.perm = p]], nodes, favs, serial)
      BY <3>2, SetUser DEF TablesInv
    <3> QED
      BY <2>1, <2>4, <3>3, <3>4 DEF TablesInv
  <2> QED
    BY <1>20, <2>2, <2>3, <2>4 DEF ChangeUsers
<1>21. CASE Start \/ LookUser \/ ListUsers \/ CountSuperusers \/ ToNodes \/ LookNode
            \/ LookFavorite \/ ListFavorites \/ NextNode \/ ListNodes
  BY <1>1, <1>21 DEF Start, LookUser, ListUsers, CountSuperusers, ToNodes, LookNode,
     LookFavorite, ListFavorites, NextNode, ListNodes
<1>22. CASE Report \/ Exit \/ Abandon \/ CopyList \/ ImportList
  BY <1>1, <1>22 DEF Report, Exit, Abandon, Ended, CopyList, ImportList
<1>23. CASE UNCHANGED vars
  BY <1>1, <1>23 DEF vars
<1> QED
  BY <1>2, <1>3, <1>4, <1>5, <1>6, <1>7, <1>8, <1>9, <1>11, <1>12, <1>13, <1>14, <1>15,
     <1>16, <1>17, <1>18, <1>19, <1>20, <1>21, <1>22, <1>23 DEF Next

ServerStep ==
  \/ CreateFavorite \/ UpdateFavorite \/ DeleteFavorite \/ CopyList \/ CopyFavorites
  \/ ImportList \/ ImportFavorite \/ CreateNode \/ UpdateNode \/ RemoveNode \/ ChangeUsers

(* The server leaves the place apply is at alone. *)
LEMMA ServerTouches ==
  ServerStep => /\ UNCHANGED <<pc, place, file, dry, report, spared, passed, super>>
                /\ quiet' = FALSE /\ last' = "none"
                /\ told' = 0 /\ plain' = FALSE /\ foregone' = 0
BY DEF ServerStep, CreateFavorite, UpdateFavorite, DeleteFavorite, CopyList, CopyFavorites,
   ImportList, ImportFavorite, CreateNode, UpdateNode, RemoveNode, ChangeUsers, Edit, Disturb, place

(* Every step keeps the place apply is at in order. *)
LEMMA WorkStep ==
  TypeInv /\ [Next]_vars => WorkInv'
<1> SUFFICES ASSUME TypeInv, [Next]_vars PROVE WorkInv'
  OBVIOUS
<1> USE DEF TypeInv, place, hist, Goto, UserSteps, NodeSteps, Steps
<1>0. \A S : <<>> \in Seq(S)
  OBVIOUS
<1>1. CASE UNCHANGED <<pc, file, todo, favTodo>>
  BY <1>1 DEF WorkInv
<1>2. CASE Start
  BY <1>2 DEF Start, WorkInv, StateFile
<1>3. CASE LookUser
  <2>1. Tail(todo) \in Seq(UserSpec)
    BY <1>3, HeadTailProperties DEF LookUser, WorkInv
  <2> QED
    BY <1>3, <2>1 DEF LookUser, WorkInv
<1>4. CASE ApplyCreateUser \/ ApplyUpdateUser
  <2>1. Tail(todo) \in Seq(UserSpec)
    BY <1>4, HeadTailProperties DEF ApplyCreateUser, ApplyUpdateUser, WorkInv
  <2> QED
    BY <1>4, <2>1 DEF ApplyCreateUser, ApplyUpdateUser, Fail, WorkInv
<1>5. CASE ListUsers \/ CountSuperusers \/ ApplyDeleteUser
  BY <1>5 DEF ListUsers, CountSuperusers, ApplyDeleteUser, WorkInv
<1>6. CASE ToNodes
  BY <1>6 DEF ToNodes, WorkInv, StateFile
<1>7. CASE LookNode
  <2>1. Tail(todo) \in Seq(NodeSpec) /\ Head(todo) \in NodeSpec
    BY <1>7, HeadTailProperties DEF LookNode, WorkInv
  <2>2. Head(todo).favs \in Seq(FavSpec)
    BY <2>1 DEF NodeSpec
  <2> QED
    BY <1>7, <2>1, <2>2 DEF LookNode, WorkInv
<1>8. CASE ApplyCreateNode
  <2>1. Head(todo).favs \in Seq(FavSpec)
    BY <1>8, EntryAtHand DEF ApplyCreateNode, NodeSpec
  <2> QED
    BY <1>8, <2>1 DEF ApplyCreateNode, WorkInv
<1>9. CASE ApplyUpdateNode
  BY <1>9 DEF ApplyUpdateNode, WorkInv
<1>10. CASE LookFavorite
  <2>1. Tail(favTodo) \in Seq(FavSpec)
    BY <1>10, HeadTailProperties DEF LookFavorite, WorkInv
  <2> QED
    BY <1>10, <2>1 DEF LookFavorite, WorkInv
<1>11. CASE ApplyCreateFavorite \/ ApplyUpdateFavorite
  <2>1. Tail(favTodo) \in Seq(FavSpec)
    BY <1>11, HeadTailProperties DEF ApplyCreateFavorite, ApplyUpdateFavorite, WorkInv
  <2> QED
    BY <1>11, <2>1 DEF ApplyCreateFavorite, ApplyUpdateFavorite, Fail, WorkInv
<1>12. CASE ListFavorites \/ ApplyDeleteFavorite \/ ListNodes \/ ApplyDeleteNode
  BY <1>12 DEF ListFavorites, ApplyDeleteFavorite, ListNodes, ApplyDeleteNode, WorkInv
<1>13. CASE NextNode
  <2>1. Tail(todo) \in Seq(NodeSpec)
    BY <1>13, HeadTailProperties DEF NextNode, WorkInv
  <2> QED
    BY <1>13, <2>1 DEF NextNode, WorkInv
<1>14. CASE Report \/ Exit \/ Abandon
  BY <1>0, <1>14 DEF Report, Exit, Abandon, Ended, WorkInv
<1>15. CASE ServerStep
  BY <1>1, <1>15, ServerTouches
<1>16. CASE UNCHANGED vars
  BY <1>1, <1>16 DEF vars
<1> QED
  BY <1>2, <1>3, <1>4, <1>5, <1>6, <1>7, <1>8, <1>9, <1>10, <1>11, <1>12, <1>13, <1>14,
     <1>15, <1>16 DEF Next, ServerStep

(* Ids grow, and a user's row keeps its name under its id. *)
LEMMA NamesStay ==
  ASSUME TypeInv, [Next]_vars
  PROVE  /\ serial \in Nat /\ serial' \in Nat /\ serial <= serial'
         /\ \A u \in DOMAIN users' : u < serial => u \in DOMAIN users /\ users'[u].name = users[u].name
<1> USE DEF TypeInv, tables, place, hist
<1>0. serial \in Nat /\ serial' \in Nat /\ TablesInv /\ TablesInv'
  BY TablesStep DEF TablesInv, Consistent
<1> DEFINE Stay == \A u \in DOMAIN users' :
                     u < serial => u \in DOMAIN users /\ users'[u].name = users[u].name
<1>1. CASE UNCHANGED users /\ serial' >= serial
  BY <1>0, <1>1
<1>2. CASE UNCHANGED <<users, serial>>
  BY <1>0, <1>2
<1>3. ASSUME NEW row, users' = With(users, row), serial' = serial + 1 PROVE Stay
  <2>1. DOMAIN users' = DOMAIN users \cup {serial}
    BY <1>3 DEF With
  <2>2. \A u \in DOMAIN users : u # serial => users'[u] = users[u]
    BY <1>3 DEF With
  <2> QED
    BY <1>0, <2>1, <2>2
<1>4. ASSUME NEW D, users' = Without(users, D) PROVE Stay
  BY <1>4 DEF Without
<1>5. CASE ApplyCreateUser
  BY <1>0, <1>2, <1>3, <1>5 DEF ApplyCreateUser, Fail
<1>6. CASE ApplyUpdateUser
  BY <1>0, <1>6 DEF ApplyUpdateUser, Put, FoundInv
<1>7. CASE ApplyDeleteUser
  BY <1>0, <1>4, <1>7 DEF ApplyDeleteUser
<1>8. CASE ChangeUsers
  <2>1. CASE UNCHANGED serial
    <3>1. CASE \E u \in DOMAIN users : users' = Without(users, {u})
      BY <1>0, <1>4, <2>1, <3>1
    <3>2. ASSUME NEW u \in DOMAIN users, NEW p \in Perms, users' = [users EXCEPT ![u].perm = p]
          PROVE  Stay
      <4>1. users[u] \in UserSpec
        BY RowsAre
      <4>2. DOMAIN users' = DOMAIN users /\ users'[u] = [users[u] EXCEPT !.perm = p]
            /\ \A v \in DOMAIN users : v # u => users'[v] = users[v]
        BY <3>2
      <4>3. users'[u].name = users[u].name
        BY <4>1, <4>2 DEF UserSpec
      <4> QED
        BY <4>2, <4>3
    <3>3. Stay
      BY <1>0, <1>3, <1>8, <2>1, <3>1, <3>2 DEF ChangeUsers
    <3> QED
      BY <1>0, <2>1, <3>3
  <2>2. CASE serial' = serial + 1 /\ \E n \in Names, p \in Perms :
                                      users' = With(users, [name |-> n, perm |-> p])
    <3>1. Stay
      BY <1>3, <2>2
    <3> QED
      BY <1>0, <2>2, <3>1
  <2> QED
    BY <1>8, <2>1, <2>2 DEF ChangeUsers
<1>9. CASE CopyFavorites
  <2>1. serial' >= serial
    <3>1. CASE UNCHANGED <<favs, serial>>
      BY <1>0, <3>1
    <3>2. CASE ~ UNCHANGED <<favs, serial>>
      BY <1>0, <1>9, <3>2, CopyStep
    <3> QED
      BY <3>1, <3>2
  <2> QED
    BY <1>1, <1>9, <2>1 DEF CopyFavorites
<1>10. CASE ApplyCreateNode \/ ApplyCreateFavorite \/ CreateFavorite \/ ImportFavorite \/ CreateNode
  <2>1. UNCHANGED users
    BY <1>10 DEF ApplyCreateNode, ApplyCreateFavorite, CreateFavorite, ImportFavorite, CreateNode
  <2>2. serial' = serial \/ serial' = serial + 1
    BY <1>10 DEF ApplyCreateNode, ApplyCreateFavorite, CreateFavorite, ImportFavorite,
       CreateNode, InsertFavorite, Fail
  <2> QED
    BY <1>0, <1>1, <2>1, <2>2
<1>11. CASE Start \/ LookUser \/ ListUsers \/ CountSuperusers \/ ToNodes \/ LookNode
            \/ LookFavorite \/ ListFavorites \/ NextNode \/ ListNodes
  BY <1>2, <1>11 DEF Start, LookUser, ListUsers, CountSuperusers, ToNodes, LookNode,
     LookFavorite, ListFavorites, NextNode, ListNodes
<1>12. CASE ApplyUpdateNode \/ ApplyUpdateFavorite \/ ApplyDeleteFavorite \/ ApplyDeleteNode
            \/ Report \/ Exit \/ Abandon
  BY <1>2, <1>12 DEF ApplyUpdateNode, ApplyUpdateFavorite, ApplyDeleteFavorite,
     ApplyDeleteNode, Report, Exit, Abandon, Ended
<1>13. CASE UpdateFavorite \/ DeleteFavorite \/ CopyList \/ ImportList \/ UpdateNode \/ RemoveNode
  BY <1>2, <1>13 DEF UpdateFavorite, DeleteFavorite, CopyList, ImportList, UpdateNode, RemoveNode
<1>14. CASE UNCHANGED vars
  BY <1>2, <1>14 DEF vars
<1> QED
  BY <1>5, <1>6, <1>7, <1>8, <1>9, <1>10, <1>11, <1>12, <1>13, <1>14 DEF Next

(* Every step keeps the name of the row about to be updated. *)
LEMMA FoundStep ==
  TypeInv /\ [Next]_vars => FoundInv'
<1> SUFFICES ASSUME TypeInv, [Next]_vars, pc' = "updateUser"
             PROVE  /\ found' \in 1 .. serial' - 1
                    /\ found' \in DOMAIN users' => users'[found'].name = Head(todo').name
  BY DEF FoundInv
<1>1. CASE pc = "updateUser" /\ UNCHANGED <<found, todo>>
  <2>1. found \in 1 .. serial - 1
        /\ (found \in DOMAIN users => users[found].name = Head(todo).name)
    BY <1>1 DEF TypeInv, FoundInv
  <2> QED
    BY <1>1, <2>1, NamesStay
<1>2. CASE LookUser
  <2> DEFINE rows == Named(Head(todo).name)
  <2>1. rows # {} /\ found' = Lowest(rows) /\ UNCHANGED <<todo, users, serial>>
    BY <1>2 DEF LookUser, Goto, tables
  <2>2. rows \in SUBSET Nat
    BY IdsAre DEF Named, TypeInv
  <2>3. Lowest(rows) \in rows
    BY <2>1, <2>2, LowestIs
  <2>4. Lowest(rows) \in DOMAIN users /\ users[Lowest(rows)].name = Head(todo).name
    BY <2>3 DEF Named
  <2> QED
    BY <2>1, <2>4, IdsAre DEF TypeInv
<1>3. CASE ServerStep \/ UNCHANGED vars
  <2>1. UNCHANGED <<pc, place>>
    BY <1>3, ServerTouches DEF vars
  <2> QED
    BY <1>1, <2>1 DEF place
<1>4. ASSUME ~ LookUser, ~ ServerStep, Next PROVE FALSE
  <2>1. CASE Start \/ ApplyCreateUser \/ ApplyUpdateUser \/ ListUsers \/ CountSuperusers
             \/ ApplyDeleteUser \/ ToNodes
    BY <2>1 DEF Start, ApplyCreateUser, ApplyUpdateUser, ListUsers, CountSuperusers,
       ApplyDeleteUser, ToNodes, Goto, Fail
  <2>2. CASE LookNode \/ ApplyCreateNode \/ ApplyUpdateNode \/ LookFavorite
             \/ ApplyCreateFavorite \/ ApplyUpdateFavorite \/ ListFavorites
             \/ ApplyDeleteFavorite
    BY <2>2 DEF LookNode, ApplyCreateNode, ApplyUpdateNode, LookFavorite,
       ApplyCreateFavorite, ApplyUpdateFavorite, ListFavorites, ApplyDeleteFavorite, Goto, Fail
  <2>3. CASE NextNode \/ ListNodes \/ ApplyDeleteNode \/ Report \/ Exit \/ Abandon
    BY <2>3 DEF NextNode, ListNodes, ApplyDeleteNode, Report, Exit, Abandon, Ended, Goto
  <2> QED
    BY <1>4, <2>1, <2>2, <2>3 DEF Next, ServerStep
<1> QED
  BY <1>2, <1>3, <1>4

(* Every step keeps a copy and an import under way in order. *)
LEMMA HeldStep ==
  TypeInv /\ [Next]_vars => HeldInv'
<1> SUFFICES ASSUME TypeInv, [Next]_vars PROVE HeldInv'
  OBVIOUS
<1> USE DEF TypeInv, tables, place, hist
<1>0. NoImport.rest = {}
  BY DEF NoImport
<1>1. CASE UNCHANGED <<copy, import>>
  BY <1>1 DEF HeldInv
<1>2. CASE CopyList
  <2>0. PICK x \in DOMAIN nodes : \E seen \in SeenOf(x) :
          copy' = [dst |-> x, seen |-> seen, had |-> NumbersOf(x), was |-> FavsOf(x)]
    BY <1>2 DEF CopyList
  <2>1. PICK seen \in SeenOf(x) :
          copy' = [dst |-> x, seen |-> seen, had |-> NumbersOf(x), was |-> FavsOf(x)]
    BY <2>0
  <2>2. NumbersOf(x) \subseteq Numbers /\ FavsOf(x) \subseteq Nat /\ x \in Nat
        /\ seen \subseteq Numbers
    BY IdsAre, RowsAre DEF NumbersOf, FavsOf, SeenOf
  <2>3. copy' \in Copies
    BY <2>1, <2>2 DEF Copies
  <2> QED
    BY <1>2, <2>3 DEF CopyList, HeldInv
<1>3. CASE CopyFavorites
  BY <1>3 DEF CopyFavorites, HeldInv
<1>4. CASE ImportList
  <2>0. PICK x \in DOMAIN nodes, wanted \in ParseINI, d \in Data :
          \E seen \in SeenOf(x) :
            import' = [dst |-> x, seen |-> seen, had |-> NumbersOf(x), was |-> FavsOf(x),
                       rest |-> wanted \ seen, data |-> d]
    BY <1>4 DEF ImportList
  <2>1. PICK seen \in SeenOf(x) :
          import' = [dst |-> x, seen |-> seen, had |-> NumbersOf(x), was |-> FavsOf(x),
                     rest |-> wanted \ seen, data |-> d]
    BY <2>0
  <2>2. NumbersOf(x) \subseteq Numbers /\ FavsOf(x) \subseteq Nat /\ x \in Nat
        /\ wanted \subseteq Numbers /\ seen \subseteq Numbers
    BY IdsAre, RowsAre DEF NumbersOf, FavsOf, ParseINI, SeenOf
  <2>3. import' \in Imports /\ import'.rest \cap import'.seen = {}
    BY <2>1, <2>2 DEF Imports
  <2> QED
    BY <1>4, <2>3 DEF ImportList, HeldInv
<1>5. CASE ImportFavorite
  <2>1. import \in Imports
    BY <1>0, <1>5 DEF ImportFavorite, HeldInv
  <2> DEFINE Rest(n)    == [import EXCEPT !.rest = @ \ {n}]
             Created(n) == [Rest(n) EXCEPT !.seen = @ \cup {n}, !.had = @ \cup {n},
                                           !.was = @ \cup {serial}]
  <2>2. ASSUME NEW n \in import.rest
        PROVE  /\ Rest(n) \in Imports /\ Created(n) \in Imports
               /\ Rest(n).rest = import.rest \ {n} /\ Rest(n).seen = import.seen
               /\ Created(n).rest = import.rest \ {n}
               /\ Created(n).seen = import.seen \cup {n}
    <3>1. serial \in Nat /\ n \in Numbers
      BY <2>1, IdsAre DEF Imports
    <3> QED
      BY <2>1, <3>1 DEF Imports
  <2>3. PICK n \in import.rest : import' = NoImport \/ import' = Rest(n) \/ import' = Created(n)
    BY <1>5, Zenon DEF ImportFavorite
  <2> HIDE DEF Rest, Created
  <2>4. import.rest \cap import.seen = {}
    BY DEF HeldInv
  <2>5. copy' = copy
    BY <1>5 DEF ImportFavorite
  <2>6. (import' = NoImport \/ import' \in Imports) /\ import'.rest \cap import'.seen = {}
    BY <1>0, <2>2, <2>3, <2>4
  <2> QED
    BY <2>5, <2>6 DEF HeldInv
<1>6. CASE Start \/ LookUser \/ ApplyCreateUser \/ ApplyUpdateUser \/ ListUsers
           \/ CountSuperusers \/ ApplyDeleteUser \/ ToNodes \/ LookNode \/ ApplyCreateNode
           \/ ApplyUpdateNode
  BY <1>1, <1>6 DEF Start, LookUser, ApplyCreateUser, ApplyUpdateUser, ListUsers,
     CountSuperusers, ApplyDeleteUser, ToNodes, LookNode, ApplyCreateNode, ApplyUpdateNode
<1>7. CASE LookFavorite \/ ApplyCreateFavorite \/ ApplyUpdateFavorite \/ ListFavorites
           \/ ApplyDeleteFavorite \/ NextNode \/ ListNodes \/ ApplyDeleteNode \/ Report
           \/ Exit \/ Abandon
  BY <1>1, <1>7 DEF LookFavorite, ApplyCreateFavorite, ApplyUpdateFavorite, ListFavorites,
     ApplyDeleteFavorite, NextNode, ListNodes, ApplyDeleteNode, Report, Exit, Abandon, Ended
<1>8. CASE CreateFavorite \/ UpdateFavorite \/ DeleteFavorite \/ CreateNode \/ UpdateNode
           \/ RemoveNode \/ ChangeUsers
  BY <1>1, <1>8 DEF CreateFavorite, UpdateFavorite, DeleteFavorite, CreateNode, UpdateNode,
     RemoveNode, ChangeUsers
<1>9. CASE UNCHANGED vars
  BY <1>1, <1>9 DEF vars
<1> QED
  BY <1>2, <1>3, <1>4, <1>5, <1>6, <1>7, <1>8, <1>9 DEF Next

(* Every step keeps the totals natural numbers. *)
LEMMA CountStep ==
  TypeInv /\ [Next]_vars => CountInv'
<1> SUFFICES ASSUME TypeInv, [Next]_vars PROVE CountInv'
  OBVIOUS
<1> USE DEF TypeInv, CountInv, place, hist, Count, Pass
<1>0. IsFiniteSet({}) /\ \A u : IsFiniteSet(spared \cup {u})
  BY FS_EmptySet, FS_AddElement
<1>1. CASE ServerStep
  BY <1>1, ServerTouches
<1>10. CASE Start
  BY <1>0, <1>10 DEF Start
<1>2. CASE LookUser \/ ApplyCreateUser \/ ApplyUpdateUser \/ ListUsers
  BY <1>2 DEF LookUser, ApplyCreateUser, ApplyUpdateUser, ListUsers, Fail
<1>7. CASE CountSuperusers
  <2>1. spared' = spared \/ \E u : spared' = spared \cup {u}
    BY <1>7 DEF CountSuperusers
  <2>2. IsFiniteSet(spared')
    BY <1>0, <2>1
  <2>3. report' \in Nat /\ passed' \in Nat /\ UNCHANGED <<told, foregone>>
    BY <1>7 DEF CountSuperusers
  <2> QED
    BY <2>2, <2>3
<1>3. CASE ApplyDeleteUser \/ ToNodes \/ ApplyCreateNode \/ ApplyUpdateNode
  BY <1>3 DEF ApplyDeleteUser, ToNodes, ApplyCreateNode, ApplyUpdateNode
<1>8. CASE LookNode
  <2>1. Head(todo) \in NodeSpec
    BY <1>8, HeadTailProperties DEF LookNode, WorkInv, NodeSteps
  <2>2. Len(Head(todo).favs) \in Nat
    BY <2>1 DEF NodeSpec
  <2> QED
    BY <1>8, <2>2 DEF LookNode
<1>4. CASE LookFavorite \/ ApplyCreateFavorite \/ ApplyUpdateFavorite \/ ListFavorites
           \/ ApplyDeleteFavorite \/ NextNode
  BY <1>4 DEF LookFavorite, ApplyCreateFavorite, ApplyUpdateFavorite, ListFavorites,
     ApplyDeleteFavorite, NextNode, Fail
<1>5. CASE ListNodes \/ ApplyDeleteNode \/ Report
  BY <1>5 DEF ListNodes, ApplyDeleteNode, Report
<1>9. CASE Exit \/ Abandon
  <2>1. Cardinality(spared) \in Nat
    BY FS_CardinalityType
  <2> QED
    BY <1>0, <1>9, <2>1 DEF Exit, Abandon, Ended
<1>6. CASE UNCHANGED vars
  BY <1>6 DEF vars
<1> QED
  BY <1>1, <1>2, <1>3, <1>4, <1>5, <1>6, <1>7, <1>8, <1>9, <1>10 DEF Next, ServerStep

(* The types hold before the first run of apply and are kept. *)
LEMMA TypeHolds ==
  Spec => []TypeInv
<1>1. Init => TypeInv
  <2> SUFFICES ASSUME Init PROVE TypeInv
    OBVIOUS
  <2>1. TablesInv
    BY ApplyAssumption DEF ApplyAssumption, Init, TablesInv
  <2>2. WorkInv /\ FoundInv
    <3>1. <<>> \in Seq(FavSpec)
      OBVIOUS
    <3> QED
      BY <3>1, ApplyAssumption DEF ApplyAssumption, Init, WorkInv, FoundInv, Steps, UserSteps,
         NodeSteps
  <2>3. HeldInv /\ CountInv
    BY FS_EmptySet DEF Init, HeldInv, CountInv, NoImport
  <2> QED
    BY <2>1, <2>2, <2>3 DEF TypeInv
<1>2. TypeInv /\ [Next]_vars => TypeInv'
  BY TablesStep, WorkStep, FoundStep, HeldStep, CountStep DEF TypeInv
<1> QED
  BY <1>1, <1>2, PTL DEF Spec

(* Whatever apply and the server do at once, the tables stay consistent:   *)
(* every row has its type, a user's name is its own and no favorite        *)
(* outlives its node (db.go's schema, state/apply.go, db/nodes.go).        *)
THEOREM TypeCorrect ==
  Spec => []TypeOK
<1>1. TypeInv => TypeOK
  BY DEF TypeInv, TablesInv, CountInv, TypeOK
<1> QED
  BY <1>1, TypeHolds, PTL

-----------------------------------------------------------------------------
(* Copies and imports of favorites *)

(* What CopyFavorites gives the destination has numbers that it was not    *)
(* seen to have when it was listed, each once.                             *)
LEMMA CopyAdds ==
  ASSUME TypeInv, CopyFavorites, NEW x \in DOMAIN nodes, Unmoved(x, copy)
  PROVE  AddsNew(x, copy)
<1>1. CASE UNCHANGED <<favs, serial>>
  BY <1>1 DEF AddsNew, FavsOf
<1>2. ASSUME ~ UNCHANGED <<favs, serial>> PROVE AddsNew(x, copy)
  <2>1. PICK new, at :
          /\ new \subseteq DOMAIN favs
          /\ copy.dst \in DOMAIN nodes
          /\ RowsCopied(favs', new, at, copy.dst)
          /\ \A f \in new : favs[f].number \notin copy.seen
          /\ \A f, g \in new : favs[f].number = favs[g].number => f = g
    BY <1>2, CopyStep DEF TypeInv
  <2>2. \A f \in new : favs'[at[f]].number = favs[f].number
    <3> SUFFICES ASSUME NEW f \in new PROVE favs'[at[f]].number = favs[f].number
      OBVIOUS
    <3>1. favs'[at[f]] = [favs[f] EXCEPT !.node = copy.dst]
      BY <2>1 DEF RowsCopied
    <3>2. favs[f] \in [node : DOMAIN nodes, number : Numbers, data : Data]
      BY <2>1, RowsAre DEF TypeInv
    <3> QED
      BY <3>1, <3>2
  <2>3. \A g \in FavsOf(x)' \ FavsOf(x) : \E f \in new : g = at[f]
    BY <2>1 DEF RowsCopied, FavsOf
  <2>4. \A h \in FavsOf(x)' : \/ \E f \in new : h = at[f]
                              \/ h \in FavsOf(x) /\ favs'[h].number = favs[h].number
    BY <2>1 DEF RowsCopied, FavsOf
  <2> SUFFICES ASSUME NEW g \in FavsOf(x)' \ FavsOf(x), NEW h \in FavsOf(x)',
                      g # h, favs'[g].number = favs'[h].number
               PROVE  h \in FavsOf(x) /\ favs'[h].number \notin copy.seen
    BY DEF AddsNew
  <2>6. PICK f \in new : g = at[f]
    BY <2>3
  <2>7. CASE \E e \in new : h = at[e]
    <3>1. PICK e \in new : h = at[e]
      BY <2>7
    <3>2. favs[e].number = favs[f].number
      BY <2>2, <2>6, <3>1
    <3> QED
      BY <2>1, <2>6, <3>1, <3>2
  <2>8. CASE h \in FavsOf(x) /\ favs'[h].number = favs[h].number
    BY <2>1, <2>2, <2>6, <2>8
  <2> QED
    BY <2>4, <2>7, <2>8
<1> QED
  BY <1>1, <1>2

(* An import adds a number that the node was not seen to have when it was  *)
(* listed and that the import has not added since.                         *)
LEMMA ImportAdds ==
  ASSUME TypeInv, ImportFavorite, NEW x \in DOMAIN nodes, Unmoved(x, import)
  PROVE  AddsNew(x, import)
<1>1. CASE UNCHANGED favs
  BY <1>1 DEF AddsNew, FavsOf
<1>2. ASSUME favs' # favs PROVE AddsNew(x, import)
  <2>1. PICK n \in import.rest :
          favs' = With(favs, [node |-> import.dst, number |-> n, data |-> import.data])
    BY <1>2 DEF ImportFavorite, InsertFavorite
  <2>2. /\ DOMAIN favs' = DOMAIN favs \cup {serial}
        /\ favs'[serial] = [node |-> import.dst, number |-> n, data |-> import.data]
        /\ \A f \in DOMAIN favs : f # serial /\ favs'[f] = favs[f]
    BY <2>1, IdsAre DEF With, TypeInv
  <2>3. \A h \in FavsOf(x)' : h # serial => h \in FavsOf(x)
    BY <2>2 DEF FavsOf
  <2>5. n \notin import.seen
    BY <2>1 DEF TypeInv, HeldInv
  <2>6. favs'[serial].number = n
    BY <2>2
  <2> QED
    BY <2>3, <2>5, <2>6, IdsAre DEF AddsNew, TypeInv, FavsOf
<1> QED
  BY <1>1, <1>2

(* A step that takes up or goes on with a copy or an import is one of its  *)
(* own, and the lists add nothing.                                         *)
LEMMA CopySteps ==
  ASSUME Next
  PROVE  /\ copy' # copy => CopyFavorites \/ UNCHANGED favs
         /\ import' # import => ImportFavorite \/ UNCHANGED favs
<1> USE DEF tables
<1>1. CASE Start \/ LookUser \/ ApplyCreateUser \/ ApplyUpdateUser \/ ListUsers
           \/ CountSuperusers \/ ApplyDeleteUser \/ ToNodes \/ LookNode \/ ApplyCreateNode
           \/ ApplyUpdateNode
  BY <1>1 DEF Start, LookUser, ApplyCreateUser, ApplyUpdateUser, ListUsers,
     CountSuperusers, ApplyDeleteUser, ToNodes, LookNode, ApplyCreateNode, ApplyUpdateNode
<1>2. CASE LookFavorite \/ ApplyCreateFavorite \/ ApplyUpdateFavorite \/ ListFavorites
           \/ ApplyDeleteFavorite \/ NextNode \/ ListNodes \/ ApplyDeleteNode \/ Report
           \/ Exit \/ Abandon
  BY <1>2 DEF LookFavorite, ApplyCreateFavorite, ApplyUpdateFavorite, ListFavorites,
     ApplyDeleteFavorite, NextNode, ListNodes, ApplyDeleteNode, Report, Exit, Abandon, Ended
<1>3. CASE CreateFavorite \/ UpdateFavorite \/ DeleteFavorite \/ CreateNode \/ UpdateNode
           \/ RemoveNode \/ ChangeUsers
  BY <1>3 DEF CreateFavorite, UpdateFavorite, DeleteFavorite, CreateNode, UpdateNode,
     RemoveNode, ChangeUsers
<1>4. CASE CopyList \/ CopyFavorites \/ ImportList \/ ImportFavorite
  BY <1>4 DEF CopyList, CopyFavorites, ImportList, ImportFavorite
<1> QED
  BY <1>1, <1>2, <1>3, <1>4 DEF Next

(* Neither a copy nor an import gives a node a number they saw it has, or  *)
(* one number twice, unless its favorites were changed after they were     *)
(* listed, whatever part of the list an error cut off (db/favorites.go     *)
(* CopyFavorites, server/backup.go handleAPIFavoritesImport).              *)
THEOREM CopiesAddNew ==
  Spec => CopyAddsNew
<1> DEFINE Adds ==
      \A x \in DOMAIN nodes :
        /\ copy' # copy /\ Unmoved(x, copy) => AddsNew(x, copy)
        /\ import' # import /\ Unmoved(x, import) => AddsNew(x, import)
<1>1. TypeInv /\ [Next]_vars => [Adds]_vars
  <2> SUFFICES ASSUME TypeInv, Next, NEW x \in DOMAIN nodes
               PROVE  /\ copy' # copy /\ Unmoved(x, copy) => AddsNew(x, copy)
                      /\ import' # import /\ Unmoved(x, import) => AddsNew(x, import)
    OBVIOUS
  <2>1. CASE UNCHANGED favs
    BY <2>1 DEF AddsNew, FavsOf
  <2> QED
    BY <2>1, CopySteps, CopyAdds, ImportAdds
<1>2. Spec => [][Adds]_vars
  BY <1>1, TypeHolds, PTL DEF Spec
<1> QED
  BY <1>2 DEF CopyAddsNew

=============================================================================
