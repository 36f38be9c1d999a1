-------------------------- MODULE ApplyRunsProofs ---------------------------
(***************************************************************************)
(* What a run of apply leaves behind when the server changes nothing       *)
(* meanwhile: what the file describes, for any file and any tables before. *)
(* And what a dry run tells of the run after it: what the two count, each  *)
(* with what it passes over, is the same.                                  *)
(***************************************************************************)
EXTENDS StateApplyProofs

Rest(s, k) == SubSeq(s, k + 1, Len(s))

(* How many entries of the list apply has gone through. *)
Through(list) == Len(list) - Len(todo)
ThroughFavs   == Len(Head(todo).favs) - Len(favTodo)

(* What is still to look at is the rest of the file's list. *)
PlaceUsers == pc \in UserSteps => Len(todo) <= Len(file.users)
                                  /\ todo = Rest(file.users, Through(file.users))
PlaceNodes == pc \in NodeSteps => Len(todo) <= Len(file.nodes)
                                  /\ todo = Rest(file.nodes, Through(file.nodes))
PlaceFavs  == pc \in {"updateNode"} \cup FavSteps => Len(favTodo) <= Len(Head(todo).favs)
                                  /\ favTodo = Rest(Head(todo).favs, ThroughFavs)
PlaceInv   == PlaceUsers /\ PlaceNodes /\ PlaceFavs /\ (pc = "purgeFavs" => favTodo = <<>>)

(* The first k entries of the file's users are in the table, but for those *)
(* that the first l name again.                                            *)
UserDone(s) == \E u \in Named(s.name) : users[u].perm = s.perm
UsersDone(k, l) ==
  \A i \in 1 .. k :
    (\A j \in i + 1 .. l : file.users[j].name # file.users[i].name) => UserDone(file.users[i])

FavDone(x, f) == FavsAt(x, f.number) # {} /\ favs[Lowest(FavsAt(x, f.number))].data = f.data
FavsDone(x, fs, k, l) ==
  \A i \in 1 .. k : (\A j \in i + 1 .. l : fs[j].number # fs[i].number) => FavDone(x, fs[i])

TheNode(s) == Lowest(NodesOf(s.number))
NodeDone(s) ==
  /\ NodesOf(s.number) # {}
  /\ nodes[TheNode(s)].data = s.data
  /\ FavsDone(TheNode(s), s.favs, Len(s.favs), Len(s.favs))
  /\ file.purge.favs => \A g \in FavsOf(TheNode(s)) : favs[g].number \in Numbers_(s.favs)
NodesDone(k, l) ==
  \A i \in 1 .. k :
    (\A j \in i + 1 .. l : file.nodes[j].number # file.nodes[i].number)
    => NodeDone(file.nodes[i])

UsersKept == file.purge.users =>
  Unwanted \subseteq spared \/ (Unwanted = Supers /\ Cardinality(Supers) = 1)
NodesKept == file.purge.nodes => \A x \in DOMAIN nodes : nodes[x].number \in Numbers_(file.nodes)
SuperKept == file.purge.users /\ super => Supers # {}

Listed == {[id |-> u, perm |-> users[u].perm] : u \in Unwanted}

UsersMatch ==
  /\ pc \in UserSteps => UsersDone(Through(file.users), Through(file.users))
  /\ pc = "updateUser" => found \in Named(Head(todo).name)
  /\ pc \in NodeSteps \cup {"purgeUsers", "deleteUser", "purgeNodes", "done"} =>
       UsersDone(Len(file.users), Len(file.users)) /\ SuperKept
  /\ pc \in NodeSteps \cup {"purgeNodes", "done"} => UsersKept

PurgeMatch ==
  /\ pc \in UserSteps => spared = {}
  /\ pc \in {"purgeUsers", "deleteUser"} =>
       /\ left \subseteq Listed
       /\ \A u \in spared : /\ u \in Supers /\ [id |-> u, perm |-> users[u].perm] \notin left
                            /\ pc = "deleteUser" => u # found
       /\ file.purge.users => \A u \in Unwanted :
            \/ Supers = {u} \/ [id |-> u, perm |-> users[u].perm] \in left
            \/ pc = "deleteUser" /\ found = u
            \/ u \in spared
  /\ pc = "deleteUser" =>
       /\ found \in Unwanted /\ [id |-> found, perm |-> users[found].perm] \notin left
       /\ found \in Supers => Cardinality(Supers) > 1

NodesMatch ==
  LET k == Through(file.nodes)
      s == Head(todo)
  IN /\ pc = "nodes" => NodesDone(k, k)
     /\ pc \in NodeSteps \ {"nodes"} => NodesDone(k, k + 1)
     /\ pc = "createNode" => NodesOf(s.number) = {}
     /\ pc \in {"updateNode"} \cup FavSteps => NodesOf(s.number) # {} /\ nid = TheNode(s)
     /\ pc = "updateNode" => favTodo = s.favs
     /\ pc \in FavSteps => /\ nodes[nid].data = s.data
                           /\ FavsDone(nid, s.favs, ThroughFavs, ThroughFavs)
     /\ pc = "createFav" => FavsAt(nid, Head(favTodo).number) = {}
     /\ pc = "updateFav" => FavsAt(nid, Head(favTodo).number) # {}
                            /\ found = Lowest(FavsAt(nid, Head(favTodo).number))
     /\ pc = "purgeFavs" =>
          /\ left \subseteq {f \in FavsOf(nid) : favs[f].number \notin Numbers_(s.favs)}
          /\ file.purge.favs => \A f \in FavsOf(nid) : favs[f].number \in Numbers_(s.favs)
                                                       \/ f \in left

DoneMatch ==
  pc \in {"purgeNodes", "done"} =>
    /\ NodesDone(Len(file.nodes), Len(file.nodes))
    /\ left \subseteq {x \in DOMAIN nodes : nodes[x].number \notin Numbers_(file.nodes)}
    /\ file.purge.nodes => \A x \in DOMAIN nodes : nodes[x].number \in Numbers_(file.nodes)
                                                   \/ x \in left
    /\ pc = "done" => left = {}

(* A run of apply that the server leaves alone has done what it is past. *)
MatchInv == quiet /\ ~dry => UsersMatch /\ PurgeMatch /\ NodesMatch /\ DoneMatch

-----------------------------------------------------------------------------
(* The rest of a list *)

(* The whole list is its rest at the start. *)
LEMMA RestOfAll ==
  ASSUME NEW S, NEW L \in Seq(S)
  PROVE  Rest(L, Len(L) - Len(L)) = L
<1>1. Len(L) \in Nat /\ Len(L) - Len(L) = 0
  BY LenProperties
<1>2. SubSeq(L, 1, Len(L)) = L
  BY SubSeqProperties
<1> QED
  BY <1>1, <1>2 DEF Rest

(* Nothing is left at the end. *)
LEMMA RestOfNone ==
  ASSUME NEW S, NEW L \in Seq(S)
  PROVE  Rest(L, Len(L) - Len(<<>>)) = <<>>
<1>1. Len(L) \in Nat /\ Len(<<>>) = 0
  BY LenProperties
<1>2. SubSeq(L, Len(L) + 1, Len(L)) = <<>>
  BY <1>1, SubSeqProperties, EmptySeq
<1> QED
  BY <1>1, <1>2 DEF Rest

(* The first entry of the rest is the next of the list. *)
LEMMA RestGoesOn ==
  ASSUME NEW S, NEW L \in Seq(S), NEW t \in Seq(S), t # <<>>,
         Len(t) <= Len(L), t = Rest(L, Len(L) - Len(t))
  PROVE  /\ Len(L) - Len(t) \in 0 .. Len(L) - 1 /\ Len(L) \in Nat /\ Len(t) \in Nat
         /\ Head(t) = L[Len(L) - Len(t) + 1]
         /\ Len(Tail(t)) = Len(t) - 1
         /\ Tail(t) = Rest(L, Len(L) - Len(Tail(t)))
<1> DEFINE k == Len(L) - Len(t)
<1>1. Len(L) \in Nat /\ Len(t) \in Nat /\ Len(t) > 0
  BY LenProperties, EmptySeq
<1>2. k \in 0 .. Len(L) - 1
  BY <1>1
<1>3. Len(Tail(t)) = Len(t) - 1 /\ Head(t) = t[1] /\ Tail(t) \in Seq(S)
      /\ \A i \in 1 .. Len(Tail(t)) : Tail(t)[i] = t[i + 1]
  BY <1>1, HeadTailProperties
<1>4. k + 1 \in 1 .. Len(L) /\ Len(L) \in k + 1 .. Len(L)
  BY <1>1, <1>2
<1>5. Head(t) = L[k + 1]
  BY <1>4, HeadTailOfSubSeq DEF Rest
<1>6. Tail(t) = SubSeq(L, (k + 1) + 1, Len(L))
  BY <1>4, HeadTailOfSubSeq DEF Rest
<1>7. Len(L) - Len(Tail(t)) = k + 1
  BY <1>1, <1>3
<1>8. Tail(t) = Rest(L, Len(L) - Len(Tail(t)))
  BY <1>6, <1>7 DEF Rest
<1> HIDE DEF k
<1> QED
  BY <1>1, <1>2, <1>3, <1>5, <1>8 DEF k

(* The lists of a file. *)
LEMMA FileIs ==
  ASSUME TypeInv
  PROVE  /\ file.users \in Seq(UserSpec) /\ file.nodes \in Seq(NodeSpec)
         /\ Len(file.users) \in Nat /\ Len(file.nodes) \in Nat
         /\ pc \in NodeSteps \ {"nodes"} => Head(todo).favs \in Seq(FavSpec)
BY EntryAtHand, LenProperties DEF TypeInv, WorkInv, StateFile, NodeSpec

(* The user at hand is the next of the file. *)
LEMMA UserAtHand ==
  ASSUME TypeInv, PlaceUsers, pc \in UserSteps, todo # <<>>
  PROVE  /\ Through(file.users) \in 0 .. Len(file.users) - 1
         /\ Head(todo) = file.users[Through(file.users) + 1]
         /\ Tail(todo) \in Seq(UserSpec) /\ Len(Tail(todo)) <= Len(file.users)
         /\ Len(file.users) - Len(Tail(todo)) = Through(file.users) + 1
         /\ Tail(todo) = Rest(file.users, Len(file.users) - Len(Tail(todo)))
<1>1. todo \in Seq(UserSpec) /\ file.users \in Seq(UserSpec)
  BY FileIs DEF TypeInv, WorkInv
<1>2. Len(todo) <= Len(file.users) /\ todo = Rest(file.users, Len(file.users) - Len(todo))
  BY DEF PlaceUsers, Through
<1>3. Tail(todo) \in Seq(UserSpec)
  BY <1>1, HeadTailProperties
<1> QED
  BY <1>1, <1>2, <1>3, RestGoesOn DEF Through

(* The node at hand is the next of the file. *)
LEMMA NodeAtHand ==
  ASSUME TypeInv, PlaceNodes, pc \in NodeSteps, todo # <<>>
  PROVE  /\ Through(file.nodes) \in 0 .. Len(file.nodes) - 1
         /\ Head(todo) = file.nodes[Through(file.nodes) + 1]
         /\ Head(todo) \in NodeSpec /\ Head(todo).favs \in Seq(FavSpec)
         /\ Tail(todo) \in Seq(NodeSpec) /\ Len(Tail(todo)) <= Len(file.nodes)
         /\ Len(file.nodes) - Len(Tail(todo)) = Through(file.nodes) + 1
         /\ Tail(todo) = Rest(file.nodes, Len(file.nodes) - Len(Tail(todo)))
<1>1. todo \in Seq(NodeSpec) /\ file.nodes \in Seq(NodeSpec)
  BY FileIs DEF TypeInv, WorkInv
<1>2. Len(todo) <= Len(file.nodes) /\ todo = Rest(file.nodes, Len(file.nodes) - Len(todo))
  BY DEF PlaceNodes, Through
<1>3. Tail(todo) \in Seq(NodeSpec) /\ Head(todo) \in NodeSpec
  BY <1>1, HeadTailProperties
<1>4. Head(todo).favs \in Seq(FavSpec)
  BY <1>3 DEF NodeSpec
<1> QED
  BY <1>1, <1>2, <1>3, <1>4, RestGoesOn DEF Through

(* The favorite at hand is the next of the node. *)
LEMMA FavoriteAtHand ==
  ASSUME TypeInv, PlaceFavs, pc \in FavSteps, favTodo # <<>>
  PROVE  /\ ThroughFavs \in 0 .. Len(Head(todo).favs) - 1
         /\ Head(favTodo) = Head(todo).favs[ThroughFavs + 1]
         /\ Tail(favTodo) \in Seq(FavSpec) /\ Len(Tail(favTodo)) <= Len(Head(todo).favs)
         /\ Len(Head(todo).favs) - Len(Tail(favTodo)) = ThroughFavs + 1
         /\ Tail(favTodo) = Rest(Head(todo).favs, Len(Head(todo).favs) - Len(Tail(favTodo)))
<1>1. favTodo \in Seq(FavSpec) /\ Head(todo).favs \in Seq(FavSpec)
  BY FileIs DEF TypeInv, WorkInv, FavSteps, NodeSteps
<1>2. /\ Len(favTodo) <= Len(Head(todo).favs)
      /\ favTodo = Rest(Head(todo).favs, Len(Head(todo).favs) - Len(favTodo))
  BY DEF PlaceFavs, ThroughFavs
<1>3. Tail(favTodo) \in Seq(FavSpec)
  BY <1>1, HeadTailProperties
<1> QED
  BY <1>1, <1>2, <1>3, RestGoesOn DEF ThroughFavs

(* A list is over when all of it has been gone through. *)
LEMMA AllThrough ==
  ASSUME TypeInv
  PROVE  /\ todo = <<>> => Through(file.users) = Len(file.users)
                           /\ Through(file.nodes) = Len(file.nodes)
         /\ pc \in FavSteps /\ favTodo = <<>> => ThroughFavs = Len(Head(todo).favs)
<1>1. Len(<<>>) = 0 /\ Len(file.users) \in Nat /\ Len(file.nodes) \in Nat
  BY FileIs
<1>2. pc \in FavSteps => Len(Head(todo).favs) \in Nat
  BY FileIs, LenProperties DEF FavSteps, NodeSteps
<1> QED
  BY <1>1, <1>2 DEF Through, ThroughFavs

(* The file stays as it is. *)
LEMMA FileStays ==
  [Next]_vars => file' = file
<1> SUFFICES ASSUME [Next]_vars PROVE file' = file
  OBVIOUS
<1>1. CASE Start \/ LookUser \/ ApplyCreateUser \/ ApplyUpdateUser \/ ListUsers
           \/ CountSuperusers \/ ApplyDeleteUser \/ ToNodes \/ LookNode \/ ApplyCreateNode
           \/ ApplyUpdateNode
  BY <1>1 DEF Start, LookUser, ApplyCreateUser, ApplyUpdateUser, ListUsers,
     CountSuperusers, ApplyDeleteUser, ToNodes, LookNode, ApplyCreateNode, ApplyUpdateNode
<1>2. CASE LookFavorite \/ ApplyCreateFavorite \/ ApplyUpdateFavorite \/ ListFavorites
           \/ ApplyDeleteFavorite \/ NextNode \/ ListNodes \/ ApplyDeleteNode \/ Report
           \/ Exit \/ Abandon
  BY <1>2 DEF LookFavorite, ApplyCreateFavorite, ApplyUpdateFavorite, ListFavorites,
     ApplyDeleteFavorite, NextNode, ListNodes, ApplyDeleteNode, Report, Exit, Abandon, Ended
<1>3. CASE ServerStep \/ UNCHANGED vars
  BY <1>3, ServerTouches DEF vars
<1> QED
  BY <1>1, <1>2, <1>3 DEF Next, ServerStep

(* Every step keeps the place in the lists. *)
LEMMA PlaceStep ==
  TypeInv /\ PlaceInv /\ [Next]_vars => PlaceInv'
<1> SUFFICES ASSUME TypeInv, PlaceInv, [Next]_vars PROVE PlaceInv'
  OBVIOUS
<1>0. /\ file' = file /\ PlaceUsers /\ PlaceNodes /\ PlaceFavs
      /\ file.users \in Seq(UserSpec) /\ file.nodes \in Seq(NodeSpec)
      /\ Len(file.users) \in Nat /\ Len(file.nodes) \in Nat
  BY FileIs, FileStays DEF PlaceInv
<1> USE DEF place, hist, Goto
<1> DEFINE Inside == pc' \in UserSteps \cup NodeSteps
<1>1. CASE ~ Inside
  BY <1>1 DEF PlaceInv, PlaceUsers, PlaceNodes, PlaceFavs, UserSteps, NodeSteps, FavSteps
<1>2. CASE UNCHANGED <<pc, todo, favTodo>>
  BY <1>0, <1>2 DEF PlaceInv, PlaceUsers, PlaceNodes, PlaceFavs, Through, ThroughFavs
<1>3. CASE Start
  <2>1. pc' = "users" /\ todo' = file.users
    BY <1>3 DEF Start
  <2>2. PlaceUsers'
    BY <1>0, <2>1, RestOfAll DEF PlaceUsers, Through
  <2> QED
    BY <2>1, <2>2 DEF PlaceInv, PlaceNodes, PlaceFavs, NodeSteps, FavSteps
<1>4. CASE LookUser \/ ApplyCreateUser \/ ApplyUpdateUser
  <2>1. pc \in UserSteps /\ todo # <<>>
    BY <1>4 DEF LookUser, ApplyCreateUser, ApplyUpdateUser, UserSteps, TypeInv, WorkInv
  <2>2. pc' \in UserSteps \cup {"failed"} /\ (todo' = todo \/ todo' = Tail(todo))
    BY <1>4, <2>1 DEF LookUser, ApplyCreateUser, ApplyUpdateUser, UserSteps, Fail
  <2>3. PlaceUsers'
    BY <1>0, <2>1, <2>2, UserAtHand DEF PlaceUsers, Through
  <2> QED
    BY <2>2, <2>3 DEF PlaceInv, PlaceNodes, PlaceFavs, NodeSteps, FavSteps, UserSteps
<1>5. CASE ToNodes
  <2>1. pc' = "nodes" /\ todo' = file.nodes
    BY <1>5 DEF ToNodes
  <2>2. PlaceNodes'
    BY <1>0, <2>1, RestOfAll DEF PlaceNodes, Through
  <2> QED
    BY <2>1, <2>2 DEF PlaceInv, PlaceUsers, PlaceFavs, UserSteps, FavSteps
<1>6. CASE LookNode \/ ApplyCreateNode
  <2>1. pc \in NodeSteps /\ todo # <<>>
    BY <1>6 DEF LookNode, ApplyCreateNode, NodeSteps, UserSteps, TypeInv, WorkInv
  <2>2. /\ \/ pc' \in {"nodes", "createNode"}
           \/ pc' \in {"updateNode", "favs"} /\ todo' = todo /\ favTodo' = Head(todo).favs
        /\ todo' = todo \/ todo' = Tail(todo)
    BY <1>6 DEF LookNode, ApplyCreateNode
  <2>3. PlaceNodes'
    BY <1>0, <2>1, <2>2, NodeAtHand DEF PlaceNodes, Through
  <2>4. PlaceFavs'
    <3>1. CASE pc' \in {"nodes", "createNode"}
      BY <3>1 DEF PlaceFavs, FavSteps
    <3>2. ASSUME todo' = todo, favTodo' = Head(todo).favs PROVE PlaceFavs'
      <4>1. Head(todo).favs \in Seq(FavSpec)
        BY <1>0, <2>1, NodeAtHand
      <4>2. Len(Head(todo).favs) \in Nat
        BY <4>1, LenProperties
      <4> QED
        BY <3>2, <4>1, <4>2, RestOfAll DEF PlaceFavs, ThroughFavs
    <3> QED
      BY <2>2, <3>1, <3>2
  <2> QED
    BY <2>2, <2>3, <2>4 DEF PlaceInv, PlaceUsers, UserSteps
<1>7. CASE ApplyUpdateNode
  BY <1>0, <1>7 DEF ApplyUpdateNode, PlaceInv, PlaceUsers, PlaceNodes, PlaceFavs, Through,
     ThroughFavs, UserSteps, NodeSteps, FavSteps
<1>8. CASE LookFavorite \/ ApplyCreateFavorite \/ ApplyUpdateFavorite
  <2>1. pc \in FavSteps /\ favTodo # <<>>
    BY <1>8 DEF LookFavorite, ApplyCreateFavorite, ApplyUpdateFavorite, FavSteps, TypeInv, WorkInv
  <2>2. /\ pc' \in {"favs", "createFav", "updateFav", "failed"} /\ todo' = todo
        /\ favTodo' = favTodo \/ favTodo' = Tail(favTodo)
    BY <1>8 DEF LookFavorite, ApplyCreateFavorite, ApplyUpdateFavorite, Fail
  <2>3. PlaceFavs'
    BY <1>0, <2>1, <2>2, FavoriteAtHand DEF PlaceFavs, ThroughFavs
  <2>4. PlaceNodes'
    BY <1>0, <2>1, <2>2 DEF PlaceNodes, Through, FavSteps, NodeSteps
  <2> QED
    BY <2>2, <2>3, <2>4 DEF PlaceInv, PlaceUsers, UserSteps
<1>9. CASE ListFavorites
  BY <1>0, <1>9 DEF ListFavorites, PlaceInv, PlaceUsers, PlaceNodes, PlaceFavs, Through,
     ThroughFavs, UserSteps, NodeSteps, FavSteps
<1>10. CASE NextNode
  <2>1. pc \in NodeSteps /\ todo # <<>> /\ pc' = "nodes" /\ todo' = Tail(todo)
    BY <1>10 DEF NextNode, NodeSteps, UserSteps, TypeInv, WorkInv
  <2>2. PlaceNodes'
    BY <1>0, <2>1, NodeAtHand DEF PlaceNodes, Through
  <2> QED
    BY <2>1, <2>2 DEF PlaceInv, PlaceUsers, PlaceFavs, UserSteps, FavSteps
<1>11. CASE ListUsers \/ CountSuperusers \/ ApplyDeleteUser \/ ListNodes \/ Report \/ Exit \/ Abandon
  BY <1>1, <1>11 DEF ListUsers, CountSuperusers, ApplyDeleteUser, ListNodes, Report, Exit,
     Abandon, Ended, UserSteps, NodeSteps
<1>12. CASE ApplyDeleteFavorite \/ ApplyDeleteNode
  BY <1>2, <1>12 DEF ApplyDeleteFavorite, ApplyDeleteNode
<1>13. CASE ServerStep \/ UNCHANGED vars
  BY <1>2, <1>13, ServerTouches DEF vars
<1> QED
  BY <1>3, <1>4, <1>5, <1>6, <1>7, <1>8, <1>9, <1>10, <1>11, <1>12, <1>13 DEF Next, ServerStep

-----------------------------------------------------------------------------
(* The users *)

(* One more entry of the file's users is in the table. *)
LEMMA OneMoreUser ==
  ASSUME file' = file, NEW k \in Nat, UsersDone(k, k), UserDone(file.users[k + 1])',
         \A i \in 1 .. k : file.users[i].name # file.users[k + 1].name
                           /\ UserDone(file.users[i]) => UserDone(file.users[i])'
  PROVE  UsersDone(k + 1, k + 1)'
<1> SUFFICES ASSUME NEW i \in 1 .. k + 1,
                    \A j \in i + 1 .. k + 1 : file.users[j].name # file.users[i].name
             PROVE  UserDone(file.users[i])'
  BY DEF UsersDone
<1>1. CASE i = k + 1
  BY <1>1
<1>2. CASE i \in 1 .. k
  <2>1. k + 1 \in i + 1 .. k + 1 /\ \A j \in i + 1 .. k : j \in i + 1 .. k + 1
    BY <1>2
  <2>2. UserDone(file.users[i])
    BY <1>2, <2>1 DEF UsersDone
  <2> QED
    BY <1>2, <2>1, <2>2
<1> QED
  BY <1>1, <1>2

(* applyUsers gets the entry at hand into the table. *)
LEMMA UsersGoOn ==
  ASSUME TypeInv, PlaceInv, UsersMatch, ~dry,
         LookUser \/ ApplyCreateUser \/ ApplyUpdateUser, [Next]_vars
  PROVE  UsersMatch' /\ pc' \in UserSteps \cup {"failed"}
<1>01. PICK spec : spec = Head(todo)
  OBVIOUS
<1> DEFINE Done == UserDone(spec)' /\ \A s : s.name # spec.name /\ UserDone(s) => UserDone(s)'
<1> USE DEF Goto
<1>0. pc \in UserSteps /\ todo # <<>> /\ PlaceUsers /\ file' = file
      /\ Named(spec.name) \in SUBSET Nat
  <2>1. pc \in UserSteps /\ todo # <<>>
    BY DEF LookUser, ApplyCreateUser, ApplyUpdateUser, UserSteps, TypeInv, WorkInv
  <2> QED
    BY <2>1, FileStays, IdsAre DEF PlaceInv, TypeInv, Named
<1>1. ASSUME Done, todo' = Tail(todo), pc' = "users" PROVE UsersMatch'
  <2>1. PICK k \in Nat : k = Through(file.users)
    BY <1>0, UserAtHand, FileIs
  <2>2. UsersDone(k, k) /\ spec = file.users[k + 1] /\ Len(file.users) - Len(Tail(todo)) = k + 1
    BY <1>0, <1>01, <2>1, UserAtHand DEF UsersMatch
  <2>3. UserDone(file.users[k + 1])'
    <3>1. spec = file'.users[k + 1]
      BY <1>0, <2>2
    <3> QED
      BY <1>1, <3>1 DEF UserDone, Named
  <2>4. \A i \in 1 .. k : file.users[i].name # file.users[k + 1].name
                          /\ UserDone(file.users[i]) => UserDone(file.users[i])'
    BY <1>0, <1>1, <2>2 DEF UserDone, Named
  <2>5. UsersDone(k + 1, k + 1)'
    BY <1>0, <2>2, <2>3, <2>4, OneMoreUser
  <2>6. Through(file.users)' = k + 1
    BY <1>0, <1>1, <2>2 DEF Through
  <2> QED
    BY <1>1, <2>5, <2>6 DEF UsersMatch, UserSteps, NodeSteps
<1>2. CASE LookUser
  <2>1. CASE pc' = "users"
    <3>1. UNCHANGED users /\ todo' = Tail(todo)
      BY <1>2, <2>1, <1>0 DEF LookUser, tables
    <3>2. Named(spec.name) # {} /\ users[Lowest(Named(spec.name))].perm = spec.perm
      BY <1>2, <1>01, <2>1 DEF LookUser
    <3>3. Lowest(Named(spec.name)) \in Named(spec.name)
      BY <1>0, <3>2, LowestIs
    <3>4. Done
      BY <3>1, <3>2, <3>3 DEF UserDone, Named
    <3> QED
      BY <1>1, <2>1, <3>1, <3>4 DEF UserSteps
  <2>2. CASE pc' \in {"createUser", "updateUser"}
    <3>1. UNCHANGED <<users, todo>>
      BY <1>2, <2>2 DEF LookUser, tables
    <3>2. UsersDone(Through(file.users), Through(file.users))'
      BY <1>0, <3>1 DEF UsersMatch, UsersDone, UserDone, Named, Through
    <3>3. pc' = "updateUser" => found' \in Named(Head(todo).name)
      BY <1>0, <1>01, <1>2, <2>2, LowestIs DEF LookUser
    <3> QED
      BY <2>2, <3>1, <3>2, <3>3 DEF UsersMatch, UserSteps, NodeSteps, Named
  <2> QED
    BY <1>2, <2>1, <2>2 DEF LookUser
<1>3. CASE ApplyCreateUser
  <2>1. CASE pc' = "failed"
    BY <2>1 DEF UsersMatch, UserSteps, NodeSteps
  <2>2. CASE users' = With(users, [name |-> spec.name, perm |-> spec.perm])
             /\ todo' = Tail(todo) /\ pc' = "users"
    <3>1. /\ DOMAIN users' = DOMAIN users \cup {serial} /\ serial \notin DOMAIN users
          /\ users'[serial] = [name |-> spec.name, perm |-> spec.perm]
          /\ \A u \in DOMAIN users : users'[u] = users[u]
      BY <2>2, IdsAre DEF With, TypeInv
    <3>2. Done
      BY <3>1 DEF UserDone, Named
    <3> QED
      BY <1>1, <2>2, <3>2 DEF UserSteps
  <2> QED
    BY <1>01, <1>3, <2>1, <2>2 DEF ApplyCreateUser, Fail
<1>4. CASE ApplyUpdateUser
  <2>1. found \in Named(spec.name) /\ found \in DOMAIN users /\ users[found].name = spec.name
    BY <1>01, <1>4 DEF ApplyUpdateUser, UsersMatch, Named
  <2>2. /\ DOMAIN users' = DOMAIN users
        /\ users'[found] = [name |-> spec.name, perm |-> spec.perm]
        /\ \A u \in DOMAIN users : u # found => users'[u] = users[u]
    BY <1>01, <1>4, <2>1 DEF ApplyUpdateUser, Put
  <2>3. Done
    BY <2>1, <2>2 DEF UserDone, Named
  <2> QED
    BY <1>1, <1>4, <2>3 DEF ApplyUpdateUser, UserSteps
<1> QED
  BY <1>2, <1>3, <1>4

(* There are finitely many superusers; one of at most one is the only one. *)
LEMMA FewSupers ==
  ASSUME TablesInv
  PROVE  /\ IsFiniteSet(Supers) /\ Cardinality(Supers) \in Nat
         /\ \A u \in Supers : Cardinality(Supers) <= 1 => Supers = {u}
         /\ \A u : Supers = {u} => Cardinality(Supers) = 1
<1>1. IsFiniteSet(Supers)
  <2>1. IsFiniteSet(1 .. serial - 1) /\ Supers \subseteq 1 .. serial - 1
    <3>1. serial - 1 \in Int
      BY IdsAre
    <3> QED
      BY <3>1, FS_Interval, IdsAre DEF Supers
  <2> QED
    BY <2>1, FS_Subset
<1>2. Cardinality(Supers) \in Nat
  BY <1>1, FS_CardinalityType
<1>3. ASSUME NEW u \in Supers, Cardinality(Supers) <= 1 PROVE Supers = {u}
  <2>1. IsFiniteSet({u}) /\ Cardinality({u}) = 1
    BY FS_Singleton
  <2>2. Cardinality({u}) <= Cardinality(Supers)
        /\ (Cardinality({u}) = Cardinality(Supers) => {u} = Supers)
    BY <1>1, FS_Subset
  <2> QED
    BY <1>2, <1>3, <2>1, <2>2
<1>4. \A u : Supers = {u} => Cardinality(Supers) = 1
  BY FS_Singleton
<1> QED
  BY <1>1, <1>2, <1>3, <1>4

(* What is said of the users depends on their table and the file only. *)
LEMMA UsersFrame ==
  ASSUME UNCHANGED <<users, file>>
  PROVE  /\ \A k, l : UsersDone(k, l)' <=> UsersDone(k, l)
         /\ Unwanted' = Unwanted /\ Supers' = Supers /\ Listed' = Listed
         /\ spared' = spared => (UsersKept' <=> UsersKept)
         /\ \A n : Named(n)' = Named(n)
BY DEF UsersDone, UserDone, Named, Unwanted, Supers, Listed, UsersKept

(* The purge begins with all that is not wanted. *)
LEMMA PurgeBegins ==
  ASSUME TypeInv, PlaceInv, UsersMatch, PurgeMatch, ListUsers, file' = file
  PROVE  UsersMatch' /\ PurgeMatch'
<1>1. UNCHANGED <<users, file>> /\ pc = "users" /\ todo = <<>> /\ pc' = "purgeUsers"
      /\ super' = (Supers # {}) /\ left' = IF file.purge.users THEN Listed ELSE {}
  BY DEF ListUsers, tables, Goto, Listed
<1>2. UsersDone(Len(file.users), Len(file.users))
  BY <1>1, AllThrough DEF UsersMatch, UserSteps
<1>3. UsersDone(Len(file.users), Len(file.users))'
  BY <1>1, <1>2 DEF UsersDone, UserDone, Named
<1>4. SuperKept'
  BY <1>1, UsersFrame DEF SuperKept
<1>5. UsersMatch'
  BY <1>1, <1>3, <1>4 DEF UsersMatch, UserSteps, NodeSteps
<1>6. PurgeMatch'
  <2>1. left' \subseteq Listed'
    BY <1>1, UsersFrame
  <2>2. file'.purge.users => \A u \in Unwanted' : [id |-> u, perm |-> users'[u].perm] \in left'
    BY <1>1, UsersFrame DEF Listed
  <2>3. spared' = {}
    BY <1>1 DEF ListUsers, hist, PurgeMatch, UserSteps
  <2> QED
    BY <1>1, <2>1, <2>2, <2>3 DEF PurgeMatch, UserSteps
<1> QED
  BY <1>5, <1>6

(* A superuser is left out of the purge only if there is no other or the   *)
(* count failed.                                                           *)
LEMMA PurgeGoesOn ==
  ASSUME TypeInv, UsersMatch, PurgeMatch, ~dry, CountSuperusers, file' = file
  PROVE  UsersMatch' /\ PurgeMatch'
<1>1. UNCHANGED <<users, file, super>> /\ pc = "purgeUsers" /\ pc' \in {"purgeUsers", "deleteUser"}
  BY DEF CountSuperusers, tables, Goto
<1>2. UsersDone(Len(file.users), Len(file.users))' /\ SuperKept'
  BY <1>1, UsersFrame DEF UsersMatch, UsersDone, UserDone, Named, SuperKept
<1>3. UsersMatch'
  BY <1>1, <1>2 DEF UsersMatch, UserSteps, NodeSteps
<1>4. PICK r \in left, failed \in BOOLEAN :
        LET super_ == r.perm = "superuser"
            skip   == super_ /\ (failed \/ Superusers <= 1)
        IN found' = r.id /\ left' = left \ {r}
           /\ pc' = (IF skip \/ dry THEN "purgeUsers" ELSE "deleteUser")
           /\ spared' = spared \cup (IF super_ /\ failed THEN {r.id} ELSE {})
  BY Zenon DEF CountSuperusers, Goto
<1>5. PICK u \in Unwanted : r = [id |-> u, perm |-> users[u].perm]
  BY <1>1, <1>4 DEF PurgeMatch, Listed
<1>6. u \in DOMAIN users /\ found' = u /\ r.perm = users[u].perm
      /\ spared \subseteq spared'
  BY <1>4, <1>5 DEF Unwanted
<1>7. left' \subseteq Listed'
  BY <1>1, <1>4, UsersFrame DEF PurgeMatch
<1>10. ASSUME NEW v \in spared'
       PROVE  v \in Supers /\ [id |-> v, perm |-> users[v].perm] \notin left' /\ (v \in spared => v # u)
  <2>1. v \in spared => v \in Supers /\ [id |-> v, perm |-> users[v].perm] \notin left
    BY <1>1 DEF PurgeMatch
  <2>2. v \in spared \/ (v = u /\ r.perm = "superuser")
    BY <1>4, <1>6, <1>10
  <2> QED
    BY <1>4, <1>5, <1>6, <2>1, <2>2 DEF Supers
<1>8. CASE r.perm = "superuser" /\ (failed \/ Cardinality(Supers) <= 1)
  <2>1. pc' = "purgeUsers"
    BY <1>4, <1>8 DEF Superusers
  <2>2. Supers = {u} \/ u \in spared'
    <3>1. CASE failed
      BY <1>4, <1>5, <1>8, <3>1
    <3>2. CASE Cardinality(Supers) <= 1
      BY <1>6, <1>8, <3>2, FewSupers DEF Supers, TypeInv
    <3> QED
      BY <1>8, <3>1, <3>2
  <2>3. ASSUME file.purge.users, NEW v \in Unwanted
        PROVE  Supers = {v} \/ [id |-> v, perm |-> users[v].perm] \in left' \/ v \in spared'
    BY <1>1, <1>4, <1>5, <1>6, <2>2, <2>3 DEF PurgeMatch
  <2> QED
    BY <1>1, <1>3, <1>7, <1>10, <2>1, <2>3, UsersFrame DEF PurgeMatch, UserSteps
<1>9. CASE ~ (r.perm = "superuser" /\ (failed \/ Cardinality(Supers) <= 1))
  <2>1. pc' = "deleteUser"
    BY <1>4, <1>9 DEF Superusers
  <2>2. u \in Supers => Cardinality(Supers) > 1
    BY <1>6, <1>9, FewSupers DEF Supers, TypeInv
  <2>3. ASSUME file.purge.users, NEW v \in Unwanted
        PROVE  Supers = {v} \/ [id |-> v, perm |-> users[v].perm] \in left' \/ v = u
               \/ v \in spared'
    BY <1>1, <1>4, <1>5, <1>6, <2>3 DEF PurgeMatch
  <2>4. [id |-> u, perm |-> users[u].perm] \notin left'
    BY <1>4, <1>5
  <2>5. spared' = spared
    BY <1>4, <1>9
  <2>6. \A v \in spared' : /\ v \in Supers /\ [id |-> v, perm |-> users[v].perm] \notin left'
                            /\ v # u
    BY <1>10, <2>5
  <2> QED
    BY <1>1, <1>3, <1>5, <1>6, <1>7, <2>1, <2>2, <2>3, <2>4, <2>6, UsersFrame
    DEF PurgeMatch, UserSteps
<1> QED
  BY <1>8, <1>9

(* Deleting a user who is not wanted keeps those that are, and a superuser. *)
LEMMA PurgeDeletes ==
  ASSUME TypeInv, UsersMatch, PurgeMatch, ApplyDeleteUser, file' = file
  PROVE  UsersMatch' /\ PurgeMatch'
<1>1. /\ pc = "deleteUser" /\ pc' = "purgeUsers" /\ UNCHANGED <<left, super>>
      /\ users' = Without(users, {found})
  BY DEF ApplyDeleteUser, Goto, place
<1>0. spared' = spared
  BY DEF ApplyDeleteUser, hist
<1>2. DOMAIN users' = DOMAIN users \ {found} /\ \A u \in DOMAIN users' : users'[u] = users[u]
  BY <1>1 DEF Without
<1>3. found \in Unwanted /\ found \in DOMAIN users
      /\ users[found].name \notin Names_(file.users)
  BY <1>1 DEF PurgeMatch, Unwanted
<1>4. Unwanted' = Unwanted \ {found} /\ Supers' = Supers \ {found}
  <2>1. \A u : u \in Unwanted' <=> u \in Unwanted \ {found}
    BY <1>2 DEF Unwanted
  <2>2. \A u : u \in Supers' <=> u \in Supers \ {found}
    BY <1>2 DEF Supers
  <2> QED
    BY <2>1, <2>2
<1>5. UsersDone(Len(file.users), Len(file.users))'
  <2>1. \A i \in 1 .. Len(file.users) : file.users[i].name \in Names_(file.users)
    BY FileIs, LenProperties DEF Names_
  <2>2. \A i \in 1 .. Len(file.users) : UserDone(file.users[i]) => UserDone(file.users[i])'
    BY <1>2, <1>3, <2>1 DEF UserDone, Named
  <2> QED
    BY <1>1, <2>2 DEF UsersDone, UsersMatch
<1>6. SuperKept'
  <2>1. CASE found \in Supers
    <3>1. Cardinality(Supers) > 1 /\ Cardinality(Supers) # 1
      BY <1>1, <2>1, FewSupers DEF PurgeMatch, TypeInv
    <3>2. Supers # {found}
      BY <3>1, FewSupers DEF TypeInv
    <3> QED
      BY <1>4, <2>1, <3>2 DEF SuperKept
  <2>2. CASE found \notin Supers
    BY <1>1, <1>4, <2>2 DEF SuperKept, UsersMatch
  <2> QED
    BY <2>1, <2>2
<1>7. UsersMatch'
  BY <1>1, <1>5, <1>6 DEF UsersMatch, UserSteps, NodeSteps
<1>8. left \subseteq Listed'
  <2> SUFFICES ASSUME NEW r \in left PROVE r \in Listed'
    OBVIOUS
  <2>1. PICK u \in Unwanted : r = [id |-> u, perm |-> users[u].perm]
    BY <1>1 DEF PurgeMatch, Listed
  <2>2. u # found
    BY <1>1, <2>1 DEF PurgeMatch
  <2>3. u \in Unwanted' /\ u \in DOMAIN users'
    BY <1>2, <1>4, <2>1, <2>2 DEF Unwanted
  <2> QED
    BY <1>2, <2>1, <2>3 DEF Listed
<1>9. ASSUME file.purge.users, NEW u \in Unwanted'
      PROVE  Supers' = {u} \/ [id |-> u, perm |-> users'[u].perm] \in left \/ u \in spared
  <2>1. u \in Unwanted /\ u # found /\ users'[u] = users[u]
    BY <1>2, <1>4 DEF Unwanted
  <2>2. Supers = {u} \/ [id |-> u, perm |-> users[u].perm] \in left \/ u \in spared
    BY <1>1, <1>9, <2>1 DEF PurgeMatch
  <2> QED
    BY <1>4, <2>1, <2>2
<1>11. \A u \in spared : u \in Supers' /\ [id |-> u, perm |-> users'[u].perm] \notin left
  <2>1. \A u \in spared : /\ u \in Supers /\ [id |-> u, perm |-> users[u].perm] \notin left
                           /\ u # found
    BY <1>1 DEF PurgeMatch
  <2>2. Supers \subseteq DOMAIN users
    BY DEF Supers
  <2> QED
    BY <1>2, <1>4, <2>1, <2>2
<1>10. PurgeMatch'
  BY <1>0, <1>1, <1>8, <1>9, <1>11 DEF PurgeMatch, UserSteps
<1> QED
  BY <1>7, <1>10

(* When the purge is over the users are what the file says. *)
LEMMA PurgeEnds ==
  ASSUME TypeInv, UsersMatch, PurgeMatch, pc = "purgeUsers", left = {}
  PROVE  UsersKept
<1> SUFFICES ASSUME file.purge.users, NEW u \in Unwanted, u \notin spared
             PROVE  Unwanted \subseteq spared \/ (Unwanted = Supers /\ Cardinality(Supers) = 1)
  BY DEF UsersKept
<1>1. (\A v \in Unwanted : Supers = {v} \/ v \in spared) /\ spared \subseteq Supers
  BY DEF PurgeMatch
<1>2. Supers = {u}
  BY <1>1
<1>3. Unwanted = {u}
  BY <1>1, <1>2
<1> QED
  BY <1>2, <1>3, FewSupers DEF TypeInv

(* What the run has done to the users stays while it looks at the nodes. *)
LEMMA UsersStay ==
  ASSUME UsersMatch, UNCHANGED <<users, file, super, spared>>, pc \in NodeSteps \cup {"purgeNodes"},
         pc' \in NodeSteps \cup {"purgeNodes", "done", "failed"}
  PROVE  UsersMatch' /\ PurgeMatch'
<1>1. UsersDone(Len(file.users), Len(file.users)) /\ SuperKept /\ UsersKept
  BY DEF UsersMatch
<1>2. UsersDone(Len(file.users), Len(file.users))' /\ SuperKept' /\ UsersKept'
  BY <1>1 DEF UsersDone, UserDone, Named, SuperKept, Supers, UsersKept, Unwanted
<1> QED
  BY <1>2 DEF UsersMatch, PurgeMatch, UserSteps, NodeSteps

-----------------------------------------------------------------------------
(* The nodes *)

(* What is said of the nodes depends on their tables and the file only. *)
LEMMA NodesFrame ==
  ASSUME UNCHANGED <<nodes, favs, file>>
  PROVE  /\ \A k, l : NodesDone(k, l)' <=> NodesDone(k, l)
         /\ \A s : (NodeDone(s)' <=> NodeDone(s)) /\ TheNode(s)' = TheNode(s)
         /\ \A n : NodesOf(n)' = NodesOf(n)
         /\ \A x : FavsOf(x)' = FavsOf(x) /\ \A n : FavsAt(x, n)' = FavsAt(x, n)
         /\ \A x, fs, k, l : FavsDone(x, fs, k, l)' <=> FavsDone(x, fs, k, l)
BY DEF NodesDone, NodeDone, TheNode, NodesOf, FavsOf, FavsAt, FavsDone, FavDone

(* One more entry of the file's nodes is in the tables. *)
LEMMA OneMoreNode ==
  ASSUME NEW k \in Nat, NodesDone(k, k + 1), NodeDone(file.nodes[k + 1])
  PROVE  NodesDone(k + 1, k + 1)
<1> SUFFICES ASSUME NEW i \in 1 .. k + 1,
                    \A j \in i + 1 .. k + 1 : file.nodes[j].number # file.nodes[i].number
             PROVE  NodeDone(file.nodes[i])
  BY DEF NodesDone
<1>1. CASE i = k + 1
  BY <1>1
<1>2. CASE i \in 1 .. k
  BY <1>2 DEF NodesDone
<1> QED
  BY <1>1, <1>2

(* What is looked at next may be what was looked at before. *)
LEMMA NextMayRepeat ==
  ASSUME NEW k \in Nat, NodesDone(k, k)
  PROVE  NodesDone(k, k + 1)
BY DEF NodesDone

(* A step that leaves the nodes of a number and their favorites alone. *)
Spares(n) ==
  /\ NodesOf(n)' = NodesOf(n)
  /\ \A x \in NodesOf(n) : nodes'[x] = nodes[x] /\ FavsOf(x)' = FavsOf(x)
  /\ \A x \in NodesOf(n) : \A f \in FavsOf(x) : favs'[f] = favs[f]

(* Such a step keeps what was done for an entry of that number. *)
LEMMA SparedStays ==
  ASSUME TablesInv, file' = file, NEW s, NodeDone(s), Spares(s.number)
  PROVE  NodeDone(s)'
<1>1. PICK x : x = TheNode(s)
  OBVIOUS
<1>2. x \in NodesOf(s.number) /\ TheNode(s)' = x
  BY <1>1, IdsAre, LowestIs DEF TheNode, NodesOf, NodeDone, Spares
<1>3. nodes'[x] = nodes[x] /\ FavsOf(x)' = FavsOf(x) /\ \A f \in FavsOf(x) : favs'[f] = favs[f]
  BY <1>2 DEF Spares
<1>4. \A n : FavsAt(x, n) \in SUBSET Nat /\ FavsAt(x, n) \subseteq FavsOf(x)
  BY IdsAre DEF FavsAt, FavsOf
<1>5. \A n : FavsAt(x, n)' = FavsAt(x, n)
  BY <1>3 DEF FavsAt
<1>6. \A f : FavDone(x, f) => FavDone(x, f)'
  <2> SUFFICES ASSUME NEW f, FavDone(x, f) PROVE FavDone(x, f)'
    OBVIOUS
  <2>1. Lowest(FavsAt(x, f.number)) \in FavsOf(x)
    BY <1>4, LowestIs DEF FavDone
  <2> QED
    BY <1>3, <1>5, <2>1 DEF FavDone
<1>7. FavsDone(x, s.favs, Len(s.favs), Len(s.favs))'
  BY <1>1, <1>6 DEF NodeDone, FavsDone
<1>8. file'.purge.favs => \A g \in FavsOf(x)' : favs'[g].number \in Numbers_(s.favs)
  BY <1>1, <1>3 DEF NodeDone
<1>9. NodesOf(s.number)' # {} /\ nodes'[x].data = s.data
  BY <1>1, <1>3 DEF NodeDone, Spares
<1> QED
  BY <1>2, <1>7, <1>8, <1>9 DEF NodeDone

(* A step for the node at hand keeps what was done for the others. *)
LEMMA OthersStay ==
  ASSUME TablesInv, file' = file, NEW k \in Nat, NodesDone(k, k + 1),
         \A n : n # file.nodes[k + 1].number => Spares(n)
  PROVE  NodesDone(k, k + 1)'
<1> SUFFICES ASSUME NEW i \in 1 .. k,
                    \A j \in i + 1 .. k + 1 : file.nodes[j].number # file.nodes[i].number
             PROVE  NodeDone(file.nodes[i])'
  BY DEF NodesDone
<1>1. NodeDone(file.nodes[i])
  BY DEF NodesDone
<1>2. Spares(file.nodes[i].number)
  OBVIOUS
<1>3. PICK s : s = file.nodes[i]
  OBVIOUS
<1>4. NodeDone(s)'
  BY <1>1, <1>2, <1>3, SparedStays
<1>5. s = file'.nodes[i]
  BY <1>3
<1> QED
  BY <1>4, <1>5 DEF NodeDone, TheNode

(* The nodes come after the users. *)
LEMMA NodesBegin ==
  ASSUME TypeInv, UsersMatch, PurgeMatch, ToNodes, file' = file
  PROVE  UsersMatch' /\ PurgeMatch' /\ NodesMatch' /\ DoneMatch'
<1>1. /\ pc = "purgeUsers" /\ left = {} /\ pc' = "nodes" /\ todo' = file.nodes
      /\ UNCHANGED <<users, super, spared>>
  BY DEF ToNodes, Goto, tables, hist
<1>2. UsersDone(Len(file.users), Len(file.users)) /\ SuperKept /\ UsersKept
  BY <1>1, PurgeEnds DEF UsersMatch
<1>3. UsersDone(Len(file.users), Len(file.users))' /\ SuperKept' /\ UsersKept'
  BY <1>1, <1>2 DEF UsersDone, UserDone, Named, SuperKept, Supers, UsersKept, Unwanted
<1>4. UsersMatch' /\ PurgeMatch' /\ DoneMatch'
  BY <1>1, <1>3 DEF UsersMatch, PurgeMatch, DoneMatch, UserSteps, NodeSteps
<1>5. Through(file.nodes)' = 0
  BY <1>1, FileIs DEF Through
<1>6. NodesDone(0, 0)'
  BY DEF NodesDone
<1>7. NodesMatch'
  BY <1>1, <1>5, <1>6 DEF NodesMatch, NodeSteps, FavSteps
<1> QED
  BY <1>4, <1>7

(* The entry at hand, and its place. *)
LEMMA AtEntry ==
  ASSUME TypeInv, PlaceInv, pc \in NodeSteps, todo # <<>>
  PROVE  \E k \in Nat : \E s \in NodeSpec :
           /\ k = Through(file.nodes) /\ s = Head(todo) /\ s = file.nodes[k + 1]
           /\ s.favs \in Seq(FavSpec) /\ Len(s.favs) \in Nat /\ DOMAIN s.favs = 1 .. Len(s.favs)
           /\ Tail(todo) \in Seq(NodeSpec)
           /\ Len(file.nodes) - Len(Tail(todo)) = k + 1
<1>1. PlaceNodes
  BY DEF PlaceInv
<1>2. Head(todo).favs \in Seq(FavSpec)
  BY <1>1, NodeAtHand
<1>3. Len(Head(todo).favs) \in Nat /\ DOMAIN Head(todo).favs = 1 .. Len(Head(todo).favs)
  BY <1>2, LenProperties
<1>4. Through(file.nodes) \in Nat
  BY <1>1, NodeAtHand, FileIs
<1> QED
  BY <1>1, <1>2, <1>3, <1>4, NodeAtHand

(* What is known while the node at hand is brought into the tables. *)
AtNode(k, s) ==
  pc \in NodeSteps \ {"nodes"} /\ k = Through(file.nodes) /\ s = Head(todo) /\ NodesDone(k, k + 1)

(* LookNode compares the entry with the lowest node of its number. *)
LEMMA NodeLooked ==
  ASSUME TypeInv, PlaceInv, NodesMatch, ~dry, LookNode, file' = file
  PROVE  NodesMatch' /\ DoneMatch'
<1>1. pc = "nodes" /\ todo # <<>> /\ UNCHANGED <<nodes, favs, file, todo>>
      /\ pc' \in {"createNode", "updateNode", "favs"}
  BY DEF LookNode, Goto, tables
<1>2. PICK k \in Nat, s \in NodeSpec :
        /\ k = Through(file.nodes) /\ s = Head(todo) /\ Len(s.favs) \in Nat
  BY <1>1, AtEntry DEF NodeSteps
<1>3. NodesDone(k, k + 1)
  BY <1>1, <1>2, NextMayRepeat DEF NodesMatch
<1>4. AtNode(k, s)'
  BY <1>1, <1>2, <1>3, NodesFrame DEF AtNode, NodeSteps, Through
<1>5. CASE NodesOf(s.number) = {}
  <2>1. pc' = "createNode" /\ NodesOf(s.number)' = {}
    BY <1>1, <1>2, <1>5, NodesFrame DEF LookNode, Goto
  <2> QED
    BY <1>4, <2>1 DEF NodesMatch, DoneMatch, AtNode, NodeSteps, FavSteps
<1>6. CASE NodesOf(s.number) # {}
  <2>1. /\ nid' = TheNode(s) /\ favTodo' = s.favs
        /\ pc' = "updateNode" \/ (pc' = "favs" /\ nodes[TheNode(s)].data = s.data)
    BY <1>2, <1>6 DEF LookNode, Goto, TheNode, NodeChanged
  <2>2. NodesOf(s.number)' # {} /\ nid' = TheNode(s)'
    BY <1>1, <1>6, <2>1, NodesFrame
  <2>3. pc' = "favs" => nodes'[nid'].data = s.data
    BY <1>1, <2>1
  <2>4. ThroughFavs' = 0
    BY <1>1, <1>2, <2>1 DEF ThroughFavs
  <2>5. \A x : FavsDone(x, s.favs, 0, 0)'
    BY DEF FavsDone
  <2>6. PICK x : x = nid'
    OBVIOUS
  <2>7. FavsDone(nid, s.favs, ThroughFavs, ThroughFavs)'
    BY <2>4, <2>5, <2>6 DEF FavsDone, FavDone
  <2> QED
    BY <1>1, <1>4, <2>1, <2>2, <2>3, <2>7 DEF NodesMatch, DoneMatch, AtNode, NodeSteps, FavSteps
<1> QED
  BY <1>5, <1>6

(* ApplyCreateNode makes the only node of the number. *)
LEMMA NodeCreated ==
  ASSUME TypeInv, PlaceInv, NodesMatch, ApplyCreateNode, file' = file
  PROVE  NodesMatch' /\ DoneMatch'
<1>1. /\ pc = "createNode" /\ todo # <<>> /\ UNCHANGED <<favs, file, todo>> /\ pc' = "favs"
      /\ favTodo' = Head(todo).favs /\ nid' = serial
      /\ nodes' = With(nodes, [number |-> Head(todo).number, data |-> Head(todo).data])
  BY DEF ApplyCreateNode, Goto, TypeInv, WorkInv, NodeSteps, UserSteps
<1>2. PICK k \in Nat, s \in NodeSpec :
        k = Through(file.nodes) /\ s = Head(todo) /\ s = file.nodes[k + 1] /\ Len(s.favs) \in Nat
  BY <1>1, AtEntry DEF NodeSteps
<1>3. /\ DOMAIN nodes' = DOMAIN nodes \cup {serial} /\ serial \notin DOMAIN nodes
      /\ nodes'[serial] = [number |-> s.number, data |-> s.data]
      /\ \A x \in DOMAIN nodes : nodes'[x] = nodes[x]
  BY <1>1, <1>2, IdsAre DEF With, TypeInv
<1>4. NodesDone(k, k + 1) /\ NodesOf(s.number) = {}
  BY <1>1, <1>2 DEF NodesMatch, NodeSteps
<1>5. \A n : n # file.nodes[k + 1].number => Spares(n)
  BY <1>1, <1>2, <1>3 DEF Spares, NodesOf, FavsOf
<1>6. NodesDone(k, k + 1)'
  BY <1>4, <1>5, OthersStay DEF TypeInv
<1>7. NodesOf(s.number)' = {serial}
  BY <1>3, <1>4 DEF NodesOf
<1>8. TheNode(s)' = serial
  BY <1>7, IdsAre DEF TheNode, Lowest, TypeInv
<1>9. ThroughFavs' = 0
  BY <1>1, <1>2 DEF ThroughFavs
<1>10. FavsDone(nid, s.favs, ThroughFavs, ThroughFavs)'
  BY <1>9 DEF FavsDone
<1>11. AtNode(k, s)'
  BY <1>1, <1>2, <1>6 DEF AtNode, NodeSteps, Through
<1>12. NodesOf(s.number)' # {} /\ nid' = TheNode(s)' /\ nodes'[nid'].data = s.data
  BY <1>1, <1>3, <1>7, <1>8
<1> QED
  BY <1>1, <1>10, <1>11, <1>12 DEF NodesMatch, DoneMatch, AtNode, NodeSteps, FavSteps

(* ApplyUpdateNode sets the data of the lowest node of the number. *)
LEMMA NodeUpdated ==
  ASSUME TypeInv, PlaceInv, NodesMatch, ApplyUpdateNode, file' = file
  PROVE  NodesMatch' /\ DoneMatch'
<1>1. /\ pc = "updateNode" /\ todo # <<>> /\ UNCHANGED <<favs, file, todo, favTodo, nid>>
      /\ pc' = "favs"
      /\ nodes' = Put(nodes, nid, [number |-> Head(todo).number, data |-> Head(todo).data])
  BY DEF ApplyUpdateNode, Goto, TypeInv, WorkInv, NodeSteps, UserSteps, place
<1>2. PICK k \in Nat, s \in NodeSpec :
        k = Through(file.nodes) /\ s = Head(todo) /\ s = file.nodes[k + 1] /\ Len(s.favs) \in Nat
  BY <1>1, AtEntry DEF NodeSteps
<1>3. NodesDone(k, k + 1) /\ NodesOf(s.number) # {} /\ nid = TheNode(s) /\ favTodo = s.favs
  BY <1>1, <1>2 DEF NodesMatch, NodeSteps
<1>4. nid \in NodesOf(s.number) /\ nid \in DOMAIN nodes /\ nodes[nid].number = s.number
  BY <1>3, IdsAre, LowestIs DEF TheNode, NodesOf, TypeInv
<1>5. /\ DOMAIN nodes' = DOMAIN nodes /\ nodes'[nid] = [number |-> s.number, data |-> s.data]
      /\ \A x \in DOMAIN nodes : x # nid => nodes'[x] = nodes[x]
  BY <1>1, <1>2, <1>4 DEF Put
<1>6. \A n : NodesOf(n)' = NodesOf(n)
  BY <1>4, <1>5 DEF NodesOf
<1>7. \A n : n # file.nodes[k + 1].number => Spares(n)
  BY <1>1, <1>2, <1>4, <1>5, <1>6 DEF Spares, NodesOf, FavsOf
<1>8. NodesDone(k, k + 1)'
  BY <1>3, <1>7, OthersStay DEF TypeInv
<1>9. TheNode(s)' = TheNode(s)
  BY <1>6 DEF TheNode
<1>10. ThroughFavs' = 0
  BY <1>1, <1>2, <1>3 DEF ThroughFavs
<1>11. FavsDone(nid, s.favs, ThroughFavs, ThroughFavs)'
  BY <1>10 DEF FavsDone
<1>12. AtNode(k, s)'
  BY <1>1, <1>2, <1>8 DEF AtNode, NodeSteps, Through
<1>13. NodesOf(s.number)' # {} /\ nid' = TheNode(s)' /\ nodes'[nid'].data = s.data
  BY <1>1, <1>3, <1>5, <1>6, <1>9
<1> QED
  BY <1>1, <1>11, <1>12, <1>13 DEF NodesMatch, DoneMatch, AtNode, NodeSteps, FavSteps

-----------------------------------------------------------------------------
(* The favorites of the node at hand *)

(* One more entry of the node's favorites is in the table. *)
LEMMA OneMoreFavorite ==
  ASSUME NEW x, NEW fs, NEW m \in Nat, FavsDone(x, fs, m, m), FavDone(x, fs[m + 1])',
         \A f : f.number # fs[m + 1].number /\ FavDone(x, f) => FavDone(x, f)'
  PROVE  FavsDone(x, fs, m + 1, m + 1)'
<1> SUFFICES ASSUME NEW i \in 1 .. m + 1,
                    \A j \in i + 1 .. m + 1 : fs[j].number # fs[i].number
             PROVE  FavDone(x, fs[i])'
  BY DEF FavsDone
<1>1. CASE i = m + 1
  BY <1>1
<1>2. CASE i \in 1 .. m
  <2>1. m + 1 \in i + 1 .. m + 1 /\ \A j \in i + 1 .. m : j \in i + 1 .. m + 1
    BY <1>2
  <2>2. FavDone(x, fs[i])
    BY <1>2, <2>1 DEF FavsDone
  <2> QED
    BY <1>2, <2>1, <2>2
<1> QED
  BY <1>1, <1>2

(* The favorite at hand, and its place. *)
LEMMA AtFavorite ==
  ASSUME TypeInv, PlaceInv, pc \in FavSteps, favTodo # <<>>, NEW s, s = Head(todo)
  PROVE  \E m \in Nat : \E f \in FavSpec :
           /\ m = ThroughFavs /\ f = Head(favTodo) /\ f = s.favs[m + 1]
           /\ Len(s.favs) - Len(Tail(favTodo)) = m + 1
<1>1. PlaceFavs /\ Len(Head(todo).favs) \in Nat
  BY FileIs, LenProperties DEF PlaceInv, FavSteps, NodeSteps
<1>2. ThroughFavs \in Nat /\ Head(favTodo) = Head(todo).favs[ThroughFavs + 1]
      /\ Len(Head(todo).favs) - Len(Tail(favTodo)) = ThroughFavs + 1
  BY <1>1, FavoriteAtHand
<1>3. Head(favTodo) \in FavSpec
  BY HeadTailProperties DEF TypeInv, WorkInv
<1> QED
  BY <1>2, <1>3

(* The ids of the favorites at a node are natural numbers. *)
LEMMA FavsAtAre ==
  ASSUME TablesInv
  PROVE  \A x, n : FavsAt(x, n) \in SUBSET Nat /\ FavsAt(x, n) \subseteq FavsOf(x)
                   /\ FavsOf(x) \subseteq DOMAIN favs
BY IdsAre DEF FavsAt, FavsOf

(* What holds at the node while its favorites are brought in. *)
AtFavs(k, s) ==
  /\ AtNode(k, s) /\ NodesOf(s.number) # {} /\ nid = TheNode(s) /\ nodes[nid].data = s.data

(* A step at the node's favorites keeps the rest.                          *)
LEMMA FavsStep ==
  ASSUME TypeInv, file' = file, NEW k \in Nat, NEW s, s = file.nodes[k + 1], AtFavs(k, s),
         UNCHANGED <<nodes, todo, nid>>, pc' \in FavSteps,
         \A x \in DOMAIN nodes : x # nid =>
           FavsOf(x)' = FavsOf(x) /\ \A f \in FavsOf(x) : favs'[f] = favs[f]
  PROVE  AtFavs(k, s)'
<1>1. \A n : NodesOf(n)' = NodesOf(n)
  BY DEF NodesOf
<1>2. TheNode(s)' = TheNode(s)
  BY <1>1 DEF TheNode
<1>3. nid \in NodesOf(s.number)
  BY IdsAre, LowestIs DEF AtFavs, TheNode, NodesOf, TypeInv
<1>4. \A n : n # file.nodes[k + 1].number => Spares(n)
  <2> SUFFICES ASSUME NEW n, n # file.nodes[k + 1].number PROVE Spares(n)
    OBVIOUS
  <2>1. \A x \in NodesOf(n) : x \in DOMAIN nodes /\ x # nid
    BY <1>3 DEF NodesOf
  <2> QED
    BY <1>1, <2>1 DEF Spares
<1>5. NodesDone(k, k + 1)'
  BY <1>4, OthersStay DEF AtFavs, AtNode, TypeInv
<1>6. AtNode(k, s)'
  BY <1>5 DEF AtFavs, AtNode, FavSteps, NodeSteps, Through
<1> QED
  BY <1>1, <1>2, <1>6 DEF AtFavs

(* LookFavorite compares the entry with the lowest favorite of its number. *)
LEMMA FavoriteLooked ==
  ASSUME TypeInv, PlaceInv, NodesMatch, ~dry, LookFavorite, file' = file
  PROVE  NodesMatch' /\ DoneMatch'
<1>1. /\ pc = "favs" /\ favTodo # <<>> /\ todo # <<>> /\ UNCHANGED <<nodes, favs, file, todo, nid>>
      /\ pc' \in {"favs", "createFav", "updateFav"}
  BY DEF LookFavorite, Goto, tables, TypeInv, WorkInv, NodeSteps, UserSteps
<1>2. PICK k \in Nat, s \in NodeSpec :
        k = Through(file.nodes) /\ s = Head(todo) /\ s = file.nodes[k + 1] /\ Len(s.favs) \in Nat
  BY <1>1, AtEntry DEF NodeSteps
<1>3. PICK m \in Nat, f \in FavSpec :
        /\ m = ThroughFavs /\ f = Head(favTodo) /\ f = s.favs[m + 1]
        /\ Len(s.favs) - Len(Tail(favTodo)) = m + 1
  BY <1>1, <1>2, AtFavorite DEF FavSteps
<1>4. AtFavs(k, s) /\ FavsDone(nid, s.favs, m, m)
  BY <1>1, <1>2, <1>3 DEF NodesMatch, AtFavs, AtNode, NodeSteps, FavSteps
<1>5. AtFavs(k, s)'
  <2>1. \A x : FavsOf(x)' = FavsOf(x)
    BY <1>1 DEF FavsOf
  <2> QED
    BY <1>1, <1>2, <1>4, <2>1, FavsStep DEF FavSteps
<1>6. PICK x : x = nid
  OBVIOUS
<1>7. x = nid' /\ \A n : FavsAt(x, n)' = FavsAt(x, n)
  BY <1>1, <1>6, NodesFrame
<1>8. CASE pc' = "favs"
  <2>1. favTodo' = Tail(favTodo) /\ FavsAt(x, f.number) # {}
        /\ favs[Lowest(FavsAt(x, f.number))].data = f.data
    BY <1>3, <1>6, <1>8 DEF LookFavorite, Goto, GetFavorite
  <2>2. \A g : FavDone(x, g)' <=> FavDone(x, g)
    BY <1>1, <1>7 DEF FavDone
  <2>3. FavDone(x, s.favs[m + 1])'
    BY <1>3, <2>1, <2>2 DEF FavDone
  <2>4. FavsDone(x, s.favs, m + 1, m + 1)'
    BY <1>4, <1>6, <2>2, <2>3, OneMoreFavorite
  <2>5. ThroughFavs' = m + 1
    BY <1>1, <1>2, <1>3, <2>1 DEF ThroughFavs
  <2>6. FavsDone(nid, s.favs, ThroughFavs, ThroughFavs)'
    BY <1>7, <2>4, <2>5 DEF FavsDone, FavDone
  <2> QED
    BY <1>5, <1>8, <2>6 DEF NodesMatch, DoneMatch, AtFavs, AtNode, NodeSteps, FavSteps
<1>9. CASE pc' \in {"createFav", "updateFav"}
  <2>1. /\ UNCHANGED favTodo
        /\ pc' = "createFav" => FavsAt(x, f.number) = {}
        /\ pc' = "updateFav" => FavsAt(x, f.number) # {} /\ found' = Lowest(FavsAt(x, f.number))
    BY <1>3, <1>6, <1>9 DEF LookFavorite, Goto, GetFavorite
  <2>2. ThroughFavs' = m
    BY <1>1, <1>3, <2>1 DEF ThroughFavs
  <2>3. FavsDone(nid, s.favs, ThroughFavs, ThroughFavs)'
    BY <1>1, <1>4, <1>6, <1>7, <2>2 DEF FavsDone, FavDone
  <2>4. FavsAt(nid, Head(favTodo).number)' = FavsAt(x, f.number)
    BY <1>3, <1>7, <2>1 DEF FavsAt, FavsOf
  <2>5. /\ pc' = "createFav" => FavsAt(nid, Head(favTodo).number)' = {}
        /\ pc' = "updateFav" => FavsAt(nid, Head(favTodo).number)' # {}
                                /\ found' = Lowest(FavsAt(nid, Head(favTodo).number)')
    BY <2>1, <2>4
  <2> QED
    BY <1>5, <1>9, <2>3, <2>5 DEF NodesMatch, DoneMatch, AtFavs, AtNode, NodeSteps, FavSteps
<1> QED
  BY <1>1, <1>8, <1>9

(* An entry that has been brought in counts as gone through. *)
LEMMA FavoriteDone ==
  ASSUME NEW k, NEW s, NEW m \in Nat, AtFavs(k, s)', NEW x, x = nid',
         FavsDone(x, s.favs, m, m), FavDone(x, s.favs[m + 1])',
         \A g : g.number # s.favs[m + 1].number /\ FavDone(x, g) => FavDone(x, g)',
         pc' = "favs", Len(s.favs) - Len(favTodo') = m + 1
  PROVE  NodesMatch' /\ DoneMatch'
<1>1. FavsDone(x, s.favs, m + 1, m + 1)'
  BY OneMoreFavorite
<1>2. ThroughFavs' = m + 1
  BY DEF ThroughFavs, AtFavs, AtNode
<1>3. FavsDone(nid, s.favs, ThroughFavs, ThroughFavs)'
  BY <1>1, <1>2 DEF FavsDone, FavDone
<1> QED
  BY <1>3 DEF NodesMatch, DoneMatch, AtFavs, AtNode, NodeSteps, FavSteps

(* What is known when a favorite is about to be written. *)
LEMMA AboutToWrite ==
  ASSUME TypeInv, PlaceInv, NodesMatch, pc \in {"createFav", "updateFav"}
  PROVE  \E k \in Nat, m \in Nat : \E s \in NodeSpec : \E f \in FavSpec :
           /\ s = file.nodes[k + 1] /\ AtFavs(k, s) /\ FavsDone(nid, s.favs, m, m)
           /\ f = Head(favTodo) /\ f = s.favs[m + 1]
           /\ Len(s.favs) - Len(Tail(favTodo)) = m + 1
           /\ pc = "createFav" => FavsAt(nid, f.number) = {}
           /\ pc = "updateFav" => FavsAt(nid, f.number) # {} /\ found = Lowest(FavsAt(nid, f.number))
<1>1. pc \in FavSteps /\ pc \in NodeSteps /\ favTodo # <<>> /\ todo # <<>>
  BY DEF TypeInv, WorkInv, NodeSteps, UserSteps, FavSteps
<1>2. PICK k \in Nat, s \in NodeSpec :
        k = Through(file.nodes) /\ s = Head(todo) /\ s = file.nodes[k + 1]
  BY <1>1, AtEntry
<1>3. PICK m \in Nat, f \in FavSpec :
        /\ m = ThroughFavs /\ f = Head(favTodo) /\ f = s.favs[m + 1]
        /\ Len(s.favs) - Len(Tail(favTodo)) = m + 1
  BY <1>1, <1>2, AtFavorite
<1>4. AtFavs(k, s) /\ FavsDone(nid, s.favs, m, m)
  BY <1>1, <1>2, <1>3 DEF NodesMatch, AtFavs, AtNode, NodeSteps, FavSteps
<1>5. /\ pc = "createFav" => FavsAt(nid, f.number) = {}
      /\ pc = "updateFav" => FavsAt(nid, f.number) # {} /\ found = Lowest(FavsAt(nid, f.number))
  BY <1>3 DEF NodesMatch
<1> QED
  BY <1>2, <1>3, <1>4, <1>5

(* ApplyCreateFavorite makes the only favorite of the number at the node. *)
LEMMA FavoriteCreated ==
  ASSUME TypeInv, PlaceInv, NodesMatch, ApplyCreateFavorite, file' = file
  PROVE  NodesMatch' /\ DoneMatch'
<1>1. CASE pc' = "failed"
  BY <1>1 DEF NodesMatch, DoneMatch, NodeSteps, FavSteps
<1>2. ASSUME pc' # "failed" PROVE NodesMatch' /\ DoneMatch'
  <2>1. /\ pc = "createFav" /\ pc' = "favs" /\ UNCHANGED <<nodes, todo, nid>>
        /\ favTodo' = Tail(favTodo)
        /\ favs' = With(favs, [node |-> nid, number |-> Head(favTodo).number,
                               data |-> Head(favTodo).data])
    BY <1>2 DEF ApplyCreateFavorite, Goto, Fail, InsertFavorite
  <2>2. PICK k \in Nat, m \in Nat, s \in NodeSpec, f \in FavSpec :
          /\ s = file.nodes[k + 1] /\ AtFavs(k, s) /\ FavsDone(nid, s.favs, m, m)
          /\ f = Head(favTodo) /\ f = s.favs[m + 1]
          /\ Len(s.favs) - Len(Tail(favTodo)) = m + 1 /\ FavsAt(nid, f.number) = {}
    BY <2>1, AboutToWrite
  <2>3. PICK x : x = nid
    OBVIOUS
  <2>4. /\ DOMAIN favs' = DOMAIN favs \cup {serial} /\ serial \notin DOMAIN favs
        /\ favs'[serial] = [node |-> x, number |-> f.number, data |-> f.data]
        /\ \A g \in DOMAIN favs : favs'[g] = favs[g]
    BY <2>1, <2>2, <2>3, IdsAre DEF With, TypeInv
  <2>5. \A y : y # x => FavsOf(y)' = FavsOf(y) /\ \A g \in FavsOf(y) : favs'[g] = favs[g]
    BY <2>4 DEF FavsOf
  <2>6. AtFavs(k, s)'
    BY <2>1, <2>2, <2>3, <2>5, FavsStep DEF FavSteps
  <2>7. FavsAt(x, f.number)' = {serial}
    BY <2>2, <2>3, <2>4 DEF FavsAt, FavsOf
  <2>8. FavDone(x, s.favs[m + 1])'
    <3>1. Lowest({serial}) = serial
      BY IdsAre DEF Lowest, TypeInv
    <3> QED
      BY <2>2, <2>4, <2>7, <3>1 DEF FavDone
  <2>9. ASSUME NEW g, g.number # s.favs[m + 1].number, FavDone(x, g) PROVE FavDone(x, g)'
    <3>1. FavsAt(x, g.number)' = FavsAt(x, g.number)
      BY <2>2, <2>4, <2>9 DEF FavsAt, FavsOf
    <3>2. Lowest(FavsAt(x, g.number)) \in DOMAIN favs
      BY <2>9, FavsAtAre, LowestIs DEF FavDone, TypeInv
    <3> QED
      BY <2>4, <2>9, <3>1, <3>2 DEF FavDone
  <2>10. x = nid' /\ Len(s.favs) - Len(favTodo') = m + 1 /\ FavsDone(x, s.favs, m, m)
    BY <2>1, <2>2, <2>3
  <2> QED
    BY <2>1, <2>2, <2>6, <2>8, <2>9, <2>10, FavoriteDone
<1> QED
  BY <1>1, <1>2

(* ApplyUpdateFavorite sets the lowest favorite of the number at the node. *)
LEMMA FavoriteUpdated ==
  ASSUME TypeInv, PlaceInv, NodesMatch, ApplyUpdateFavorite, file' = file
  PROVE  NodesMatch' /\ DoneMatch'
<1>1. /\ pc = "updateFav" /\ pc' = "favs" /\ UNCHANGED <<nodes, todo, nid>>
      /\ favTodo' = Tail(favTodo)
      /\ favs' = IF found \in DOMAIN favs
                 THEN [favs EXCEPT ![found].number = Head(favTodo).number,
                                   ![found].data = Head(favTodo).data] ELSE favs
  BY DEF ApplyUpdateFavorite, Goto
<1>2. PICK k \in Nat, m \in Nat, s \in NodeSpec, f \in FavSpec :
        /\ s = file.nodes[k + 1] /\ AtFavs(k, s) /\ FavsDone(nid, s.favs, m, m)
        /\ f = Head(favTodo) /\ f = s.favs[m + 1]
        /\ Len(s.favs) - Len(Tail(favTodo)) = m + 1
        /\ FavsAt(nid, f.number) # {} /\ found = Lowest(FavsAt(nid, f.number))
  BY <1>1, AboutToWrite
<1>3. PICK x : x = nid
  OBVIOUS
<1>4. found \in FavsAt(x, f.number)
  BY <1>2, <1>3, FavsAtAre, LowestIs DEF TypeInv
<1>5. found \in DOMAIN favs /\ favs[found].node = x /\ favs[found].number = f.number
      /\ favs[found] \in [node : DOMAIN nodes, number : Numbers, data : Data]
  BY <1>4, RowsAre DEF FavsAt, FavsOf, TypeInv
<1>6. /\ DOMAIN favs' = DOMAIN favs
      /\ favs'[found] = [favs[found] EXCEPT !.number = f.number, !.data = f.data]
      /\ \A g \in DOMAIN favs : g # found => favs'[g] = favs[g]
  BY <1>1, <1>2, <1>5
<1>7. favs'[found].node = x /\ favs'[found].number = f.number /\ favs'[found].data = f.data
  BY <1>5, <1>6
<1>8. \A y : FavsOf(y)' = FavsOf(y)
  BY <1>5, <1>6, <1>7 DEF FavsOf
<1>9. \A y : y # x => \A g \in FavsOf(y) : favs'[g] = favs[g]
  BY <1>5, <1>6 DEF FavsOf
<1>10. \A y, n : FavsAt(y, n)' = FavsAt(y, n)
  <2>1. \A g \in DOMAIN favs : favs'[g].number = favs[g].number
    BY <1>5, <1>6, <1>7
  <2>2. \A y : \A g \in FavsOf(y) : favs'[g].number = favs[g].number
    BY <2>1 DEF FavsOf
  <2> QED
    BY <1>8, <2>2 DEF FavsAt
<1>11. AtFavs(k, s)'
  <2>1. \A y \in DOMAIN nodes : y # nid =>
          FavsOf(y)' = FavsOf(y) /\ \A g \in FavsOf(y) : favs'[g] = favs[g]
    BY <1>3, <1>8, <1>9
  <2>2. UNCHANGED <<nodes, todo, nid>> /\ pc' \in FavSteps
    BY <1>1 DEF FavSteps
  <2> QED
    BY <1>2, <2>1, <2>2, FavsStep
<1>12. FavDone(x, s.favs[m + 1])'
  BY <1>2, <1>3, <1>7, <1>10 DEF FavDone
<1>13. ASSUME NEW g, g.number # s.favs[m + 1].number, FavDone(x, g) PROVE FavDone(x, g)'
  <2>1. Lowest(FavsAt(x, g.number)) \in FavsAt(x, g.number)
    BY <1>13, FavsAtAre, LowestIs DEF FavDone, TypeInv
  <2>2. Lowest(FavsAt(x, g.number)) \in DOMAIN favs /\ Lowest(FavsAt(x, g.number)) # found
    BY <1>2, <1>5, <1>13, <2>1 DEF FavsAt, FavsOf
  <2> QED
    BY <1>6, <1>10, <1>13, <2>2 DEF FavDone
<1>14. x = nid' /\ Len(s.favs) - Len(favTodo') = m + 1 /\ FavsDone(x, s.favs, m, m)
  BY <1>1, <1>2, <1>3
<1> QED
  BY <1>1, <1>2, <1>11, <1>12, <1>13, <1>14, FavoriteDone

(* What is not wanted at the node is listed for the purge. *)
LEMMA FavoritesListed ==
  ASSUME TypeInv, PlaceInv, NodesMatch, ListFavorites, file' = file
  PROVE  NodesMatch' /\ DoneMatch'
<1>1. /\ pc = "favs" /\ pc' = "purgeFavs" /\ favTodo = <<>> /\ todo # <<>>
      /\ UNCHANGED <<nodes, favs, file, todo, nid, favTodo>>
      /\ left' = IF file.purge.favs
                 THEN {f \in FavsOf(nid) : favs[f].number \notin Numbers_(Head(todo).favs)} ELSE {}
  BY DEF ListFavorites, Goto, tables, TypeInv, WorkInv, NodeSteps, UserSteps
<1>2. PICK k \in Nat, s \in NodeSpec :
        k = Through(file.nodes) /\ s = Head(todo) /\ s = file.nodes[k + 1]
  BY <1>1, AtEntry DEF NodeSteps
<1>3. PICK x : x = nid
  OBVIOUS
<1>4. AtFavs(k, s) /\ FavsDone(x, s.favs, ThroughFavs, ThroughFavs)
  BY <1>1, <1>2, <1>3 DEF NodesMatch, AtFavs, AtNode, NodeSteps, FavSteps
<1>5. \A y : FavsOf(y)' = FavsOf(y)
  BY <1>1 DEF FavsOf
<1>6. AtFavs(k, s)'
  BY <1>1, <1>2, <1>4, <1>5, FavsStep DEF FavSteps
<1>7. FavsDone(nid, s.favs, ThroughFavs, ThroughFavs)'
  BY <1>1, <1>3, <1>4 DEF FavsDone, FavDone, FavsAt, FavsOf, ThroughFavs
<1>8. /\ left' \subseteq {f \in FavsOf(nid)' : favs'[f].number \notin Numbers_(s.favs)}
      /\ file'.purge.favs => \A f \in FavsOf(nid)' : favs'[f].number \in Numbers_(s.favs)
                                                     \/ f \in left'
  BY <1>1, <1>2 DEF FavsOf
<1> QED
  BY <1>1, <1>6, <1>7, <1>8 DEF NodesMatch, DoneMatch, AtFavs, AtNode, NodeSteps, FavSteps

(* What is known while the node's favorites are purged. *)
LEMMA AtPurge ==
  ASSUME TypeInv, PlaceInv, NodesMatch, pc = "purgeFavs"
  PROVE  \E k \in Nat : \E s \in NodeSpec :
           /\ s = file.nodes[k + 1] /\ AtFavs(k, s)
           /\ FavsDone(nid, s.favs, Len(s.favs), Len(s.favs)) /\ ThroughFavs = Len(s.favs)
           /\ DOMAIN s.favs = 1 .. Len(s.favs)
           /\ Tail(todo) \in Seq(NodeSpec) /\ Len(file.nodes) - Len(Tail(todo)) = k + 1
           /\ left \subseteq {f \in FavsOf(nid) : favs[f].number \notin Numbers_(s.favs)}
           /\ file.purge.favs => \A f \in FavsOf(nid) : favs[f].number \in Numbers_(s.favs)
                                                        \/ f \in left
<1>1. pc \in FavSteps /\ pc \in NodeSteps /\ todo # <<>> /\ favTodo = <<>>
  BY DEF TypeInv, WorkInv, NodeSteps, UserSteps, FavSteps, PlaceInv
<1>2. PICK k \in Nat, s \in NodeSpec :
        /\ k = Through(file.nodes) /\ s = Head(todo) /\ s = file.nodes[k + 1]
        /\ DOMAIN s.favs = 1 .. Len(s.favs)
        /\ Tail(todo) \in Seq(NodeSpec) /\ Len(file.nodes) - Len(Tail(todo)) = k + 1
  BY <1>1, AtEntry
<1>3. ThroughFavs = Len(s.favs)
  BY <1>1, <1>2, AllThrough
<1>4. AtFavs(k, s) /\ FavsDone(nid, s.favs, Len(s.favs), Len(s.favs))
  BY <1>1, <1>2, <1>3 DEF NodesMatch, AtFavs, AtNode, NodeSteps, FavSteps
<1>5. /\ left \subseteq {f \in FavsOf(nid) : favs[f].number \notin Numbers_(s.favs)}
      /\ file.purge.favs => \A f \in FavsOf(nid) : favs[f].number \in Numbers_(s.favs)
                                                   \/ f \in left
  BY <1>2 DEF NodesMatch
<1> QED
  BY <1>2, <1>3, <1>4, <1>5

(* Deleting a favorite that is not wanted keeps those that are. *)
LEMMA FavoriteDeleted ==
  ASSUME TypeInv, PlaceInv, NodesMatch, ~dry, ApplyDeleteFavorite, file' = file
  PROVE  NodesMatch' /\ DoneMatch'
<1>1. pc = "purgeFavs" /\ pc' = "purgeFavs" /\ UNCHANGED <<nodes, todo, nid, favTodo>>
  BY DEF ApplyDeleteFavorite
<1>2. PICK d \in left : favs' = Without(favs, {d}) /\ left' = left \ {d}
  BY DEF ApplyDeleteFavorite
<1>3. PICK k \in Nat, s \in NodeSpec :
        /\ s = file.nodes[k + 1] /\ AtFavs(k, s)
        /\ FavsDone(nid, s.favs, Len(s.favs), Len(s.favs)) /\ ThroughFavs = Len(s.favs)
        /\ DOMAIN s.favs = 1 .. Len(s.favs)
        /\ left \subseteq {f \in FavsOf(nid) : favs[f].number \notin Numbers_(s.favs)}
        /\ file.purge.favs => \A f \in FavsOf(nid) : favs[f].number \in Numbers_(s.favs)
                                                     \/ f \in left
  BY <1>1, AtPurge
<1>4. PICK x : x = nid
  OBVIOUS
<1>5. d \in DOMAIN favs /\ favs[d].node = x /\ favs[d].number \notin Numbers_(s.favs)
  BY <1>2, <1>3, <1>4 DEF FavsOf
<1>6. DOMAIN favs' = DOMAIN favs \ {d} /\ \A g \in DOMAIN favs' : favs'[g] = favs[g]
  BY <1>2 DEF Without
<1>7. \A y : y # x => FavsOf(y)' = FavsOf(y) /\ \A g \in FavsOf(y) : favs'[g] = favs[g]
  BY <1>5, <1>6 DEF FavsOf
<1>8. AtFavs(k, s)'
  BY <1>1, <1>3, <1>4, <1>7, FavsStep DEF FavSteps
<1>9. \A i \in 1 .. Len(s.favs) : s.favs[i].number \in Numbers_(s.favs)
  BY <1>3 DEF Numbers_
<1>10. ASSUME NEW f, f.number \in Numbers_(s.favs), FavDone(x, f) PROVE FavDone(x, f)'
  <2>1. FavsAt(x, f.number)' = FavsAt(x, f.number)
    BY <1>5, <1>6, <1>10 DEF FavsAt, FavsOf
  <2>2. Lowest(FavsAt(x, f.number)) \in FavsAt(x, f.number)'
    BY <1>10, <2>1, FavsAtAre, LowestIs DEF FavDone, TypeInv
  <2>3. Lowest(FavsAt(x, f.number)) \in DOMAIN favs'
    BY <2>2 DEF FavsAt, FavsOf
  <2> QED
    BY <1>6, <1>10, <2>1, <2>3 DEF FavDone
<1>11. FavsDone(x, s.favs, Len(s.favs), Len(s.favs))'
  BY <1>3, <1>4, <1>9, <1>10 DEF FavsDone
<1>12. ThroughFavs' = Len(s.favs)
  BY <1>1, <1>3 DEF ThroughFavs
<1>13. FavsDone(nid, s.favs, ThroughFavs, ThroughFavs)'
  BY <1>1, <1>4, <1>11, <1>12 DEF FavsDone, FavDone
<1>14. FavsOf(nid)' = FavsOf(nid) \ {d}
  BY <1>1, <1>4, <1>5, <1>6 DEF FavsOf
<1>15. \A f \in FavsOf(nid)' : favs'[f] = favs[f]
  BY <1>6 DEF FavsOf
<1>16. /\ left' \subseteq {f \in FavsOf(nid)' : favs'[f].number \notin Numbers_(s.favs)}
       /\ file'.purge.favs => \A f \in FavsOf(nid)' : favs'[f].number \in Numbers_(s.favs)
                                                      \/ f \in left'
  BY <1>2, <1>3, <1>14, <1>15
<1> QED
  BY <1>1, <1>8, <1>13, <1>16 DEF NodesMatch, DoneMatch, AtFavs, AtNode, NodeSteps, FavSteps

(* When its favorites are purged the entry has been brought in. *)
LEMMA NodeFinished ==
  ASSUME TypeInv, PlaceInv, NodesMatch, NextNode, file' = file
  PROVE  NodesMatch' /\ DoneMatch'
<1>1. /\ pc = "purgeFavs" /\ pc' = "nodes" /\ UNCHANGED <<nodes, favs>>
      /\ todo' = Tail(todo) /\ left = {}
  BY DEF NextNode, Goto, tables
<1>2. PICK k \in Nat, s \in NodeSpec :
        /\ s = file.nodes[k + 1] /\ AtFavs(k, s)
        /\ FavsDone(nid, s.favs, Len(s.favs), Len(s.favs))
        /\ Len(file.nodes) - Len(Tail(todo)) = k + 1
        /\ file.purge.favs => \A f \in FavsOf(nid) : favs[f].number \in Numbers_(s.favs)
                                                     \/ f \in left
  BY <1>1, AtPurge
<1>3. NodeDone(s)
  BY <1>1, <1>2 DEF NodeDone, AtFavs
<1>4. NodesDone(k + 1, k + 1)
  BY <1>2, <1>3, OneMoreNode DEF AtFavs, AtNode
<1>5. NodesDone(k + 1, k + 1)'
  BY <1>1, <1>4, NodesFrame
<1>6. Through(file.nodes)' = k + 1
  BY <1>1, <1>2 DEF Through
<1>7. NodesDone(Through(file.nodes), Through(file.nodes))'
  BY <1>5, <1>6 DEF NodesDone, NodeDone
<1> QED
  BY <1>1, <1>7 DEF NodesMatch, DoneMatch, NodeSteps, FavSteps

-----------------------------------------------------------------------------
(* The purge of nodes *)

(* The nodes that are not wanted are listed for the purge. *)
LEMMA NodesListed ==
  ASSUME TypeInv, PlaceInv, NodesMatch, ListNodes, file' = file
  PROVE  NodesMatch' /\ DoneMatch'
<1>1. /\ pc = "nodes" /\ pc' = "purgeNodes" /\ todo = <<>> /\ UNCHANGED <<nodes, favs>>
      /\ left' = IF file.purge.nodes
                 THEN {x \in DOMAIN nodes : nodes[x].number \notin Numbers_(file.nodes)} ELSE {}
  BY DEF ListNodes, Goto, tables
<1>2. NodesDone(Len(file.nodes), Len(file.nodes))
  BY <1>1, AllThrough DEF NodesMatch
<1>3. NodesDone(Len(file.nodes), Len(file.nodes))'
  <2>1. PICK n : n = Len(file.nodes)
    OBVIOUS
  <2>2. NodesDone(n, n)'
    BY <1>1, <1>2, <2>1, NodesFrame
  <2>3. n = Len(file.nodes)'
    BY <2>1
  <2> QED
    BY <2>2, <2>3 DEF NodesDone, NodeDone
<1> QED
  BY <1>1, <1>3 DEF NodesMatch, DoneMatch, NodeSteps, FavSteps

(* Deleting a node that is not wanted keeps those that are. *)
LEMMA NodeDeleted ==
  ASSUME TypeInv, DoneMatch, ~dry, ApplyDeleteNode, file' = file
  PROVE  NodesMatch' /\ DoneMatch'
<1>1. pc = "purgeNodes" /\ pc' = "purgeNodes"
  BY DEF ApplyDeleteNode
<1>2. PICK d \in left : DeleteNode(d) /\ left' = left \ {d}
  BY DEF ApplyDeleteNode
<1>3. d \in DOMAIN nodes /\ nodes[d].number \notin Numbers_(file.nodes)
  BY <1>1, <1>2 DEF DoneMatch
<1>4. /\ DOMAIN nodes' = DOMAIN nodes \ {d} /\ \A x \in DOMAIN nodes' : nodes'[x] = nodes[x]
      /\ DOMAIN favs' = DOMAIN favs \ FavsOf(d) /\ \A f \in DOMAIN favs' : favs'[f] = favs[f]
  BY <1>2 DEF DeleteNode, Without, Cascade
<1>5. \A n \in Numbers_(file.nodes) : Spares(n)
  <2> SUFFICES ASSUME NEW n \in Numbers_(file.nodes) PROVE Spares(n)
    OBVIOUS
  <2>1. NodesOf(n)' = NodesOf(n) /\ d \notin NodesOf(n)
    BY <1>3, <1>4 DEF NodesOf
  <2>2. \A x \in NodesOf(n) : nodes'[x] = nodes[x]
    BY <1>4, <2>1 DEF NodesOf
  <2>3. \A x : x # d => FavsOf(x)' = FavsOf(x) /\ \A f \in FavsOf(x) : favs'[f] = favs[f]
    BY <1>4 DEF FavsOf
  <2> QED
    BY <2>1, <2>2, <2>3 DEF Spares
<1>6. \A i \in 1 .. Len(file.nodes) : file.nodes[i].number \in Numbers_(file.nodes)
  BY FileIs, LenProperties DEF Numbers_
<1>7. ASSUME NEW i \in 1 .. Len(file.nodes), NodeDone(file.nodes[i])
      PROVE  NodeDone(file.nodes[i])'
  <2>1. PICK s : s = file.nodes[i]
    OBVIOUS
  <2>2. NodeDone(s)'
    BY <1>5, <1>6, <1>7, <2>1, SparedStays DEF TypeInv
  <2>3. s = file'.nodes[i]
    BY <2>1
  <2> QED
    BY <2>2, <2>3 DEF NodeDone, TheNode
<1>8. NodesDone(Len(file.nodes), Len(file.nodes))'
  BY <1>1, <1>7 DEF NodesDone, DoneMatch
<1>9. /\ left' \subseteq {x \in DOMAIN nodes' : nodes'[x].number \notin Numbers_(file'.nodes)}
      /\ file'.purge.nodes => \A x \in DOMAIN nodes' : nodes'[x].number \in Numbers_(file'.nodes)
                                                       \/ x \in left'
  BY <1>1, <1>2, <1>4 DEF DoneMatch
<1> QED
  BY <1>1, <1>8, <1>9 DEF NodesMatch, DoneMatch, NodeSteps, FavSteps

(* The run is over when nothing is left to purge. *)
LEMMA RunReported ==
  ASSUME TypeInv, DoneMatch, Report, file' = file
  PROVE  NodesMatch' /\ DoneMatch'
<1>1. pc = "purgeNodes" /\ pc' = "done" /\ left = {} /\ UNCHANGED <<nodes, favs, left>>
  BY DEF Report, Goto, tables, place
<1>2. NodesDone(Len(file.nodes), Len(file.nodes))'
  <2>1. PICK n : n = Len(file.nodes)
    OBVIOUS
  <2>2. NodesDone(n, n)
    BY <1>1, <2>1 DEF DoneMatch
  <2>3. NodesDone(n, n)'
    BY <1>1, <2>2, NodesFrame
  <2>4. n = Len(file.nodes)'
    BY <2>1
  <2> QED
    BY <2>3, <2>4 DEF NodesDone, NodeDone
<1> QED
  BY <1>1, <1>2 DEF NodesMatch, DoneMatch, NodeSteps, FavSteps

-----------------------------------------------------------------------------
(* The run *)

AllMatch == UsersMatch /\ PurgeMatch /\ NodesMatch /\ DoneMatch

(* A run that begins has nothing to have done yet. *)
LEMMA RunBegins ==
  ASSUME TypeInv, Start, file' = file
  PROVE  AllMatch'
<1>1. pc' = "users" /\ todo' = file.users /\ spared' = {}
  BY DEF Start, Goto
<1>2. Through(file.users)' = 0
  BY <1>1, FileIs DEF Through
<1>3. UsersDone(Through(file.users), Through(file.users))'
  BY <1>2 DEF UsersDone
<1> QED
  BY <1>1, <1>3 DEF AllMatch, UsersMatch, PurgeMatch, NodesMatch, DoneMatch, UserSteps,
     NodeSteps, FavSteps

(* Steps of apply itself keep what it is past. *)
LEMMA RunGoesOn ==
  ASSUME TypeInv, PlaceInv, AllMatch, ~dry, Next, ~ Start, ~ ServerStep
  PROVE  AllMatch'
<1> USE DEF AllMatch
<1>0. file' = file
  BY FileStays
<1>1. CASE LookUser \/ ApplyCreateUser \/ ApplyUpdateUser
  <2>1. UsersMatch' /\ pc' \in UserSteps \cup {"failed"}
    BY <1>1, UsersGoOn
  <2>2. pc \in UserSteps /\ spared' = spared
    BY <1>1 DEF LookUser, ApplyCreateUser, ApplyUpdateUser, hist, UserSteps
  <2> QED
    BY <2>1, <2>2 DEF PurgeMatch, NodesMatch, DoneMatch, UserSteps, NodeSteps, FavSteps
<1>2. CASE ListUsers \/ CountSuperusers \/ ApplyDeleteUser
  <2>1. UsersMatch' /\ PurgeMatch'
    BY <1>0, <1>2, PurgeBegins, PurgeGoesOn, PurgeDeletes
  <2>2. pc' \in {"purgeUsers", "deleteUser"}
    BY <1>2 DEF ListUsers, CountSuperusers, ApplyDeleteUser, Goto
  <2> QED
    BY <2>1, <2>2 DEF NodesMatch, DoneMatch, NodeSteps, FavSteps
<1>3. CASE ToNodes
  BY <1>0, <1>3, NodesBegin
<1>4. CASE LookNode \/ ApplyCreateNode \/ ApplyUpdateNode \/ LookFavorite
           \/ ApplyCreateFavorite \/ ApplyUpdateFavorite
  <2>1. NodesMatch' /\ DoneMatch'
    BY <1>0, <1>4, NodeLooked, NodeCreated, NodeUpdated, FavoriteLooked, FavoriteCreated,
       FavoriteUpdated
  <2>2. /\ UNCHANGED <<users, super, spared>> /\ pc \in NodeSteps \cup {"purgeNodes"}
        /\ pc' \in NodeSteps \cup {"purgeNodes", "done", "failed"}
    BY <1>4 DEF LookNode, ApplyCreateNode, ApplyUpdateNode, LookFavorite, ApplyCreateFavorite,
       ApplyUpdateFavorite, Goto, Fail, tables, hist, NodeSteps
  <2> QED
    BY <1>0, <2>1, <2>2, UsersStay
<1>5. CASE ListFavorites \/ ApplyDeleteFavorite \/ NextNode \/ ListNodes \/ ApplyDeleteNode
           \/ Report
  <2>1. NodesMatch' /\ DoneMatch'
    BY <1>0, <1>5, FavoritesListed, FavoriteDeleted, NodeFinished, NodesListed, NodeDeleted,
       RunReported
  <2>2. /\ UNCHANGED <<users, super, spared>> /\ pc \in NodeSteps \cup {"purgeNodes"}
        /\ pc' \in NodeSteps \cup {"purgeNodes", "done", "failed"}
    BY <1>5 DEF ListFavorites, ApplyDeleteFavorite, NextNode, ListNodes, ApplyDeleteNode, Report,
       Goto, tables, hist, NodeSteps
  <2> QED
    BY <1>0, <2>1, <2>2, UsersStay
<1>6. CASE Exit \/ Abandon
  <2>1. pc' = "idle"
    BY <1>6 DEF Exit, Abandon, Ended, Goto
  <2> QED
    BY <2>1 DEF UsersMatch, PurgeMatch, NodesMatch, DoneMatch, UserSteps, NodeSteps, FavSteps
<1> QED
  BY <1>1, <1>2, <1>3, <1>4, <1>5, <1>6 DEF Next, ServerStep

(* A step of apply keeps whether the server has changed anything. *)
LEMMA QuietStays ==
  ASSUME Next, ~ Start, ~ ServerStep
  PROVE  quiet' = quiet /\ dry' = dry
<1>1. CASE LookUser \/ ApplyCreateUser \/ ApplyUpdateUser \/ ListUsers
           \/ CountSuperusers \/ ApplyDeleteUser \/ ToNodes \/ LookNode \/ ApplyCreateNode
           \/ ApplyUpdateNode
  BY <1>1 DEF LookUser, ApplyCreateUser, ApplyUpdateUser, ListUsers,
     CountSuperusers, ApplyDeleteUser, ToNodes, LookNode, ApplyCreateNode, ApplyUpdateNode
<1>2. CASE LookFavorite \/ ApplyCreateFavorite \/ ApplyUpdateFavorite \/ ListFavorites
           \/ ApplyDeleteFavorite \/ NextNode \/ ListNodes \/ ApplyDeleteNode \/ Report
           \/ Exit \/ Abandon
  BY <1>2 DEF LookFavorite, ApplyCreateFavorite, ApplyUpdateFavorite, ListFavorites,
     ApplyDeleteFavorite, NextNode, ListNodes, ApplyDeleteNode, Report, Exit, Abandon, Ended
<1> QED
  BY <1>1, <1>2 DEF Next, ServerStep

(* Nothing that is said of a run changes while nothing else does. *)
LEMMA RunStutters ==
  ASSUME AllMatch, UNCHANGED vars
  PROVE  AllMatch'
<1> USE DEF vars, tables, place, hist
<1>1. UsersMatch'
  BY DEF AllMatch, UsersMatch, UsersDone, UserDone, Named, Through, SuperKept, UsersKept,
     Unwanted, Supers
<1>2. PurgeMatch'
  BY DEF AllMatch, PurgeMatch, Listed, Unwanted, Supers
<1>3. PICK k, s, m, g, x, n :
        k = Through(file.nodes) /\ s = Head(todo) /\ m = ThroughFavs /\ g = Head(favTodo)
        /\ x = nid /\ n = Len(file.nodes)
  OBVIOUS
<1>4. k = Through(file.nodes)' /\ s = Head(todo)' /\ m = ThroughFavs' /\ g = Head(favTodo)'
      /\ x = nid' /\ n = Len(file.nodes)'
  BY <1>3 DEF Through, ThroughFavs
<1>5. /\ NodesDone(Through(file.nodes), Through(file.nodes))' <=> NodesDone(k, k)
      /\ NodesDone(Through(file.nodes), Through(file.nodes) + 1)' <=> NodesDone(k, k + 1)
      /\ NodesDone(Len(file.nodes), Len(file.nodes))' <=> NodesDone(n, n)
  <2>1. /\ NodesDone(Through(file.nodes), Through(file.nodes))' <=> NodesDone(k, k)'
        /\ NodesDone(Through(file.nodes), Through(file.nodes) + 1)' <=> NodesDone(k, k + 1)'
        /\ NodesDone(Len(file.nodes), Len(file.nodes))' <=> NodesDone(n, n)'
    BY <1>4 DEF NodesDone, NodeDone
  <2> QED
    BY <2>1, NodesFrame
<1>6. NodesOf(Head(todo).number)' = NodesOf(s.number) /\ TheNode(Head(todo))' = TheNode(s)
  BY <1>4 DEF NodesOf, TheNode
<1>7. FavsAt(nid, Head(favTodo).number)' = FavsAt(x, g.number) /\ FavsOf(nid)' = FavsOf(x)
  BY <1>4 DEF FavsAt, FavsOf
<1>8. FavsDone(nid, Head(todo).favs, ThroughFavs, ThroughFavs)' <=> FavsDone(x, s.favs, m, m)
  BY <1>4 DEF FavsDone, FavDone, FavsAt, FavsOf
<1>9. NodesMatch'
  BY <1>3, <1>4, <1>5, <1>6, <1>7, <1>8 DEF AllMatch, NodesMatch
<1>10. DoneMatch'
  BY <1>3, <1>5 DEF AllMatch, DoneMatch
<1> QED
  BY <1>1, <1>2, <1>9, <1>10 DEF AllMatch

(* Every step keeps that a run left alone has done what it is past. *)
LEMMA MatchStep ==
  TypeInv /\ PlaceInv /\ MatchInv /\ [Next]_vars => MatchInv'
<1> SUFFICES ASSUME TypeInv, PlaceInv, MatchInv, [Next]_vars, quiet', ~dry' PROVE AllMatch'
  BY DEF MatchInv, AllMatch
<1>1. CASE Start
  BY <1>1, RunBegins, FileStays
<1>2. CASE ServerStep
  BY <1>2, ServerTouches
<1>3. CASE Next /\ ~ Start /\ ~ ServerStep
  <2>0. quiet' = quiet /\ dry' = dry
    BY <1>3, QuietStays
  <2>1. quiet /\ ~dry
    BY <2>0, Zenon
  <2>2. AllMatch
    BY <2>1 DEF MatchInv, AllMatch
  <2> QED
    BY <1>3, <2>1, <2>2, RunGoesOn
<1>4. CASE UNCHANGED vars
  <2>1. quiet /\ ~dry
    BY <1>4 DEF vars
  <2>2. AllMatch
    BY <2>1 DEF MatchInv, AllMatch
  <2> QED
    BY <1>4, <2>2, RunStutters
<1> QED
  BY <1>1, <1>2, <1>3, <1>4

(* At the end the tables are what the file describes. *)
LEMMA DoneIsDescribed ==
  ASSUME TypeInv, AllMatch, pc = "done"
  PROVE  Described
<1>1. /\ UsersDone(Len(file.users), Len(file.users)) /\ SuperKept /\ UsersKept
      /\ NodesDone(Len(file.nodes), Len(file.nodes)) /\ left = {}
      /\ file.purge.nodes => \A x \in DOMAIN nodes : nodes[x].number \in Numbers_(file.nodes)
  BY DEF AllMatch, UsersMatch, DoneMatch
<1>2. /\ DOMAIN file.users = 1 .. Len(file.users) /\ DOMAIN file.nodes = 1 .. Len(file.nodes)
      /\ \A i \in DOMAIN file.nodes : DOMAIN file.nodes[i].favs = 1 .. Len(file.nodes[i].favs)
  <2>1. \A i \in DOMAIN file.nodes : file.nodes[i] \in NodeSpec
    BY FileIs, LenProperties, ElementOfSeq
  <2>2. \A i \in DOMAIN file.nodes : file.nodes[i].favs \in Seq(FavSpec)
    BY <2>1 DEF NodeSpec
  <2> QED
    BY <2>2, FileIs, LenProperties
<1>3. ASSUME NEW i \in DOMAIN file.users,
             \A j \in i + 1 .. Len(file.users) : file.users[j].name # file.users[i].name
      PROVE  \E u \in Named(file.users[i].name) : users[u].perm = file.users[i].perm
  BY <1>1, <1>2, <1>3 DEF UsersDone, UserDone
<1>4. ASSUME NEW i \in DOMAIN file.nodes,
             \A j \in i + 1 .. Len(file.nodes) : file.nodes[j].number # file.nodes[i].number
      PROVE  NodeDone(file.nodes[i])
  BY <1>1, <1>2, <1>4 DEF NodesDone
<1>5. ASSUME NEW i \in DOMAIN file.nodes, NodeDone(file.nodes[i])
      PROVE  LET s == file.nodes[i]
                 x == Lowest(NodesOf(s.number))
             IN /\ NodesOf(s.number) # {}
                /\ nodes[x].data = s.data
                /\ \A k \in DOMAIN s.favs :
                     (\A j \in k + 1 .. Len(s.favs) : s.favs[j].number # s.favs[k].number) =>
                       /\ FavsAt(x, s.favs[k].number) # {}
                       /\ favs[Lowest(FavsAt(x, s.favs[k].number))].data = s.favs[k].data
                /\ file.purge.favs =>
                     \A g \in FavsOf(x) : favs[g].number \in Numbers_(s.favs)
  BY <1>2, <1>5 DEF NodeDone, TheNode, FavsDone, FavDone
<1> QED
  BY <1>1, <1>3, <1>4, <1>5 
  DEF Described, DescribedRows, UsersAsListed, NodesAsListed, DescribedUsers, UsersKept,
      SuperKept

(* The invariants hold before the first run and are kept. *)
LEMMA MatchHolds ==
  Spec => [](TypeInv /\ PlaceInv /\ MatchInv)
<1>1. Init => PlaceInv /\ MatchInv
  BY DEF Init, PlaceInv, PlaceUsers, PlaceNodes, PlaceFavs, MatchInv, UsersMatch, PurgeMatch,
     NodesMatch, DoneMatch, UserSteps, NodeSteps, FavSteps
<1>2. TypeInv /\ PlaceInv /\ MatchInv /\ [Next]_vars => PlaceInv' /\ MatchInv'
  BY PlaceStep, MatchStep
<1> QED
  BY <1>1, <1>2, TypeHolds, PTL DEF Spec

(* A run of apply that the server leaves alone leaves the tables as the    *)
(* file describes them, whatever they held before, also what an abandoned  *)
(* run left behind; a purge leaves a superuser if there is one by then,    *)
(* and of the users not listed only those whose count of superusers failed *)
(* (state/apply.go Apply).                                                 *)
THEOREM AppliedAsDescribed ==
  Spec => []AppliedMatches
<1>1. TypeInv /\ MatchInv => AppliedMatches
  BY DoneIsDescribed DEF MatchInv, AllMatch, AppliedMatches
<1> QED
  BY <1>1, MatchHolds, PTL

-----------------------------------------------------------------------------
(* A run after one that did all the file says *)

(* As many values as places: no two places have the same. *)
LEMMA AllDifferent ==
  ASSUME NEW n \in Nat, NEW g, Cardinality({g[i] : i \in 1 .. n}) = n
  PROVE  \A i, j \in 1 .. n : g[i] = g[j] => i = j
<1> DEFINE T == {g[i] : i \in 1 .. n}
           f == [i \in 1 .. n |-> g[i]]
<1>1. f \in Surjection(1 .. n, T)
  BY DEF Surjection
<1>2. IsFiniteSet(1 .. n) /\ Cardinality(1 .. n) = n
  BY FS_Interval
<1>3. f \in Injection(1 .. n, T)
  <2> HIDE DEF f
  <2> QED
    BY <1>1, <1>2, FS_SurjSameCardinalityImpliesInj
<1>4. \A i, j \in 1 .. n : f[i] = f[j] => i = j
  BY <1>3 DEF Injection, IsInjective
<1> QED
  BY <1>4

(* A list with as many names as entries has each name once. *)
LEMMA NamesOnce ==
  ASSUME NEW S, NEW s \in Seq(S), Cardinality(Names_(s)) = Len(s)
  PROVE  \A i, j \in 1 .. Len(s) : s[i].name = s[j].name => i = j
<1> DEFINE g == [i \in 1 .. Len(s) |-> s[i].name]
<1>1. Len(s) \in Nat /\ DOMAIN s = 1 .. Len(s)
  BY LenProperties
<1>2. Names_(s) = {g[i] : i \in 1 .. Len(s)}
  BY <1>1 DEF Names_
<1>3. \A i, j \in 1 .. Len(s) : g[i] = g[j] => i = j
  <2> HIDE DEF g
  <2> QED
    BY <1>1, <1>2, AllDifferent
<1> QED
  BY <1>3

(* The same for numbers. *)
LEMMA NumbersOnce ==
  ASSUME NEW S, NEW s \in Seq(S), Cardinality(Numbers_(s)) = Len(s)
  PROVE  \A i, j \in 1 .. Len(s) : s[i].number = s[j].number => i = j
<1> DEFINE g == [i \in 1 .. Len(s) |-> s[i].number]
<1>1. Len(s) \in Nat /\ DOMAIN s = 1 .. Len(s)
  BY LenProperties
<1>2. Numbers_(s) = {g[i] : i \in 1 .. Len(s)}
  BY <1>1 DEF Numbers_
<1>3. \A i, j \in 1 .. Len(s) : g[i] = g[j] => i = j
  <2> HIDE DEF g
  <2> QED
    BY <1>1, <1>2, AllDifferent
<1> QED
  BY <1>3

(* The user at hand is in the table as listed. *)
LEMMA UserThere ==
  ASSUME TypeInv, PlaceInv, DescribedRows, NoDuplicates, pc = "users", todo # <<>>
  PROVE  LET s == Head(todo)
         IN Named(s.name) # {} /\ users[Lowest(Named(s.name))].perm = s.perm
<1>1. PICK i : i = Through(file.users) + 1
  OBVIOUS
<1>2. i \in 1 .. Len(file.users) /\ Head(todo) = file.users[i]
  BY <1>1, UserAtHand, FileIs DEF PlaceInv, UserSteps
<1>3. DOMAIN file.users = 1 .. Len(file.users) /\ Len(file.users) \in Nat
  BY FileIs, LenProperties
<1>4. \A j \in i + 1 .. Len(file.users) : file.users[j].name # file.users[i].name
  <2>1. \A j, k \in 1 .. Len(file.users) : file.users[j].name = file.users[k].name => j = k
    BY FileIs, NamesOnce DEF NoDuplicates
  <2> QED
    BY <1>2, <1>3, <2>1
<1>5. PICK u \in Named(file.users[i].name) : users[u].perm = file.users[i].perm
  BY <1>2, <1>3, <1>4 DEF DescribedRows, UsersAsListed, NodesAsListed
<1>6. Named(file.users[i].name) = {u}
  BY <1>5 DEF TypeInv, TablesInv, Consistent, Named
<1>7. Lowest({u}) = u
  <2>1. u \in Nat
    BY <1>5, IdsAre DEF TypeInv, Named
  <2> QED
    BY <2>1, LowestIs
<1> QED
  BY <1>2, <1>5, <1>6, <1>7

(* The node at hand is in the table as listed, with its favorites. *)
LEMMA NodeThere ==
  ASSUME TypeInv, PlaceInv, DescribedRows, NoDuplicates, pc \in NodeSteps, todo # <<>>
  PROVE  LET s == Head(todo)
         IN /\ NodesOf(s.number) # {} /\ nodes[TheNode(s)].data = s.data
            /\ \A k \in 1 .. Len(s.favs) : FavDone(TheNode(s), s.favs[k])
            /\ file.purge.favs =>
                 \A g \in FavsOf(TheNode(s)) : favs[g].number \in Numbers_(s.favs)
<1>1. PICK i : i = Through(file.nodes) + 1
  OBVIOUS
<1>2. i \in 1 .. Len(file.nodes) /\ Head(todo) = file.nodes[i]
  BY <1>1, NodeAtHand, FileIs DEF PlaceInv
<1>3. DOMAIN file.nodes = 1 .. Len(file.nodes) /\ Len(file.nodes) \in Nat
  BY FileIs, LenProperties
<1>4. \A j \in i + 1 .. Len(file.nodes) : file.nodes[j].number # file.nodes[i].number
  <2>1. \A j, k \in 1 .. Len(file.nodes) :
          file.nodes[j].number = file.nodes[k].number => j = k
    BY FileIs, NumbersOnce DEF NoDuplicates
  <2> QED
    BY <1>2, <1>3, <2>1
<1>5. PICK s : s = file.nodes[i]
  OBVIOUS
<1>6. /\ s.favs \in Seq(FavSpec) /\ Len(s.favs) \in Nat /\ DOMAIN s.favs = 1 .. Len(s.favs)
      /\ Cardinality(Numbers_(s.favs)) = Len(s.favs)
  <2>1. s.favs \in Seq(FavSpec)
    BY <1>2, <1>5, NodeAtHand DEF PlaceInv
  <2> QED
    BY <1>2, <1>3, <1>5, <2>1, LenProperties DEF NoDuplicates
<1>7. \A j, k \in 1 .. Len(s.favs) : s.favs[j].number = s.favs[k].number => j = k
  BY <1>6, NumbersOnce
<1>8. /\ NodesOf(s.number) # {} /\ nodes[TheNode(s)].data = s.data
      /\ \A k \in 1 .. Len(s.favs) :
           (\A j \in k + 1 .. Len(s.favs) : s.favs[j].number # s.favs[k].number)
           => FavDone(TheNode(s), s.favs[k])
      /\ file.purge.favs =>
           \A g \in FavsOf(TheNode(s)) : favs[g].number \in Numbers_(s.favs)
  <2>1. i \in DOMAIN file.nodes /\ \A j \in i + 1 .. Len(file.nodes) :
                                   file.nodes[j].number # s.number
    BY <1>2, <1>3, <1>4, <1>5
  <2>2. /\ NodesOf(s.number) # {}
        /\ LET x == Lowest(NodesOf(s.number))
           IN /\ nodes[x].data = s.data
              /\ \A k \in DOMAIN s.favs : LET f == s.favs[k] IN
                   (\A j \in k + 1 .. Len(s.favs) : s.favs[j].number # f.number) =>
                     /\ FavsAt(x, f.number) # {}
                     /\ favs[Lowest(FavsAt(x, f.number))].data = f.data
              /\ file.purge.favs =>
                   \A g \in FavsOf(x) : favs[g].number \in Numbers_(s.favs)
    BY <1>5, <2>1 DEF DescribedRows, UsersAsListed, NodesAsListed
  <2> QED
    BY <1>6, <2>2 DEF TheNode, FavDone
<1>9. \A k \in 1 .. Len(s.favs) : FavDone(TheNode(s), s.favs[k])
  <2> SUFFICES ASSUME NEW k \in 1 .. Len(s.favs) PROVE FavDone(TheNode(s), s.favs[k])
    OBVIOUS
  <2>1. \A j \in k + 1 .. Len(s.favs) : s.favs[j].number # s.favs[k].number
    BY <1>6, <1>7
  <2> QED
    BY <1>8, <2>1
<1> QED
  BY <1>2, <1>5, <1>8, <1>9

(* The favorite at hand is in the table as listed. *)
LEMMA FavoriteThere ==
  ASSUME TypeInv, PlaceInv, DescribedRows, NoDuplicates, pc \in FavSteps, todo # <<>>,
         favTodo # <<>>, nid = TheNode(Head(todo))
  PROVE  FavDone(nid, Head(favTodo))
<1>1. ThroughFavs + 1 \in 1 .. Len(Head(todo).favs)
      /\ Head(favTodo) = Head(todo).favs[ThroughFavs + 1]
  <2>1. Len(Head(todo).favs) \in Nat
    BY FileIs, LenProperties DEF FavSteps, NodeSteps
  <2> QED
    BY <2>1, FavoriteAtHand DEF PlaceInv
<1>2. pc \in NodeSteps
  BY DEF FavSteps, NodeSteps
<1> QED
  BY <1>1, <1>2, NodeThere

(* What the rows are to be depends on the tables and the file only. *)
LEMMA DescribedStays ==
  ASSUME DescribedRows, UNCHANGED <<tables, file>>
  PROVE  DescribedRows'
<1>1. /\ users' = users /\ nodes' = nodes /\ favs' = favs /\ file' = file
  BY DEF tables
<1>2. (\A n : Named(n)' = Named(n) /\ NodesOf(n)' = NodesOf(n))
      /\ \A x, n : FavsOf(x)' = FavsOf(x) /\ FavsAt(x, n)' = FavsAt(x, n)
  BY <1>1 DEF Named, NodesOf, FavsOf, FavsAt
<1> QED
  BY <1>1, <1>2 DEF DescribedRows, UsersAsListed, NodesAsListed

(* The users that are listed for a purge, or are going to be. *)
BeforeNodes == UserSteps \cup {"idle", "purgeUsers", "deleteUser"}
UsersOut == {u \in Unwanted : file.purge.users}
UsersDue == IF pc \in {"purgeUsers", "deleteUser"}
            THEN {r.id : r \in left} \cup {u \in {found} : pc = "deleteUser"}
            ELSE {u \in UsersOut : pc \in BeforeNodes}

(* They are as they were listed. *)
DueListed ==
  /\ pc \in {"purgeUsers", "deleteUser"} => left \subseteq Listed
  /\ pc = "deleteUser" =>
       found \in Unwanted /\ [id |-> found, perm |-> users[found].perm] \notin left

(* What a run changes and is still to change are users that the run before *)
(* left because their count failed; or there is one superuser, who stays.  *)
CatchesUp ==
  \/ report + Cardinality(UsersDue) <= foregone
  \/ report = 0 /\ pc # "deleteUser" /\ Unwanted = Supers /\ Cardinality(Supers) = 1

(* Before a step of the run nothing else was found that is to be changed. *)
FindsListed ==
  /\ DescribedRows /\ DueListed /\ CatchesUp
  /\ pc \in {"idle", "users", "purgeUsers", "deleteUser", "nodes", "favs", "purgeFavs",
             "purgeNodes", "done"}
  /\ pc \in FavSteps => todo # <<>> /\ nid = TheNode(Head(todo))
  /\ pc \in {"purgeFavs", "purgeNodes"} => left = {}

AgainInv == last = "real" /\ NoDuplicates => FindsListed

(* The users due are finitely many. *)
LEMMA FewDue ==
  ASSUME TypeInv, DueListed
  PROVE  IsFiniteSet(UsersDue) /\ Cardinality(UsersDue) \in Nat
<1>1. UsersDue \subseteq DOMAIN users
  <2>1. CASE pc \in {"purgeUsers", "deleteUser"}
    <3>1. \A r \in left : r.id \in Unwanted
      BY <2>1 DEF DueListed, Listed
    <3> QED
      BY <2>1, <3>1 DEF UsersDue, DueListed, Unwanted
  <2>2. CASE pc \notin {"purgeUsers", "deleteUser"}
    BY <2>2 DEF UsersDue, UsersOut, Unwanted
  <2> QED
    BY <2>1, <2>2
<1>2. IsFiniteSet(1 .. serial - 1)
  <2>1. serial - 1 \in Int
    BY IdsAre DEF TypeInv
  <2> QED
    BY <2>1, FS_Interval
<1>3. UsersDue \subseteq 1 .. serial - 1
  BY <1>1, IdsAre DEF TypeInv
<1>4. IsFiniteSet(UsersDue)
  BY <1>2, <1>3, FS_Subset
<1> QED
  BY <1>4, FS_CardinalityType

(* A step that counts nothing and takes up no other users goes on. *)
LEMMA CatchesOn ==
  ASSUME TypeInv, CatchesUp, UNCHANGED <<users, file, foregone>>, report' \in {0, report},
         DueListed, UsersDue' = UsersDue, pc' # "deleteUser"
  PROVE  CatchesUp'
<1>1. Unwanted' = Unwanted /\ Supers' = Supers
  BY DEF Unwanted, Supers
<1>2. report \in Nat /\ Cardinality(UsersDue) \in Nat
  BY FewDue DEF TypeInv, CountInv
<1>3. PICK n : n = Cardinality(UsersDue)
  OBVIOUS
<1>4. Cardinality(UsersDue)' = n
  BY <1>3
<1>5. foregone \in Nat
  BY DEF TypeInv, CountInv
<1>6. CASE report + n <= foregone
  BY <1>2, <1>3, <1>4, <1>5, <1>6 DEF CatchesUp
<1>7. CASE ~ (report + n <= foregone)
  BY <1>1, <1>3, <1>7 DEF CatchesUp
<1> QED
  BY <1>6, <1>7

(* LookUser finds the user as listed. *)
LEMMA AgainUser ==
  ASSUME TypeInv, PlaceInv, NoDuplicates, FindsListed, LookUser
  PROVE  FindsListed'
<1>1. LET s == Head(todo)
      IN Named(s.name) # {} /\ users[Lowest(Named(s.name))].perm = s.perm
  BY UserThere DEF LookUser, FindsListed
<1>2. pc' = "users" /\ pc = "users" /\ report' = report + 0
      /\ UNCHANGED <<users, tables, file, foregone>>
  BY <1>1 DEF LookUser, Count, hist, tables
<1>3. DescribedRows'
  BY <1>2, DescribedStays DEF FindsListed
<1>4. UsersDue' = UsersDue /\ report' = report
  BY <1>2 DEF UsersDue, UsersOut, Unwanted, BeforeNodes, UserSteps, TypeInv, CountInv
<1>5. CatchesUp'
  BY <1>2, <1>4, CatchesOn DEF FindsListed
<1> QED
  BY <1>2, <1>3, <1>5 DEF FindsListed, FavSteps, DueListed

(* The list for the purge has the users that are not wanted. *)
LEMMA ListedForPurge ==
  ASSUME ListUsers
  PROVE  left' \subseteq Listed /\ {r.id : r \in left'} = UsersOut
<1>1. left' = IF file.purge.users THEN {[id |-> u, perm |-> users[u].perm] : u \in Unwanted}
              ELSE {}
  BY DEF ListUsers
<1>2. PICK L : L = left'
  OBVIOUS
<1>3. CASE file.purge.users
  <2>1. L = {[id |-> u, perm |-> users[u].perm] : u \in Unwanted}
    BY <1>1, <1>2, <1>3
  <2>2. ASSUME NEW u \in Unwanted PROVE \E r \in L : r.id = u
    <3>1. PICK r : r = [id |-> u, perm |-> users[u].perm]
      OBVIOUS
    <3>2. r \in L /\ r.id = u
      BY <2>1, <3>1
    <3> QED
      BY <3>2
  <2>3. ASSUME NEW r \in L PROVE r.id \in Unwanted
    BY <2>1
  <2>4. {r.id : r \in L} = Unwanted
    BY <2>2, <2>3
  <2> QED
    BY <1>2, <1>3, <2>1, <2>4 DEF UsersOut, Listed
<1>4. CASE ~ file.purge.users
  BY <1>1, <1>4 DEF UsersOut
<1> QED
  BY <1>3, <1>4

(* What is taken from the list is one user, and no other is listed as it. *)
LEMMA TakenFromList ==
  ASSUME left \subseteq Listed, NEW r \in left
  PROVE  /\ {q.id : q \in left \ {r}} = {q.id : q \in left} \ {r.id}
         /\ r.id \in Unwanted /\ r.perm = users[r.id].perm
         /\ r = [id |-> r.id, perm |-> users[r.id].perm]
<1>1. \A q \in left : /\ q.id \in Unwanted /\ q.perm = users[q.id].perm
                      /\ q = [id |-> q.id, perm |-> users[q.id].perm]
  BY DEF Listed
<1>2. \A q \in left : q.id = r.id => q = r
  BY <1>1
<1> QED
  BY <1>1, <1>2

(* CountSuperusers counts one that the run before left, or passes one over. *)
LEMMA AgainCounts ==
  ASSUME TypeInv, FindsListed, CountSuperusers
  PROVE  FindsListed'
<1>1. /\ pc = "purgeUsers" /\ UNCHANGED <<users, tables, file, dry, foregone>>
      /\ left \subseteq Listed /\ report \in Nat /\ foregone \in Nat
  BY DEF CountSuperusers, tables, FindsListed, DueListed, TypeInv, CountInv
<1>2. PICK r \in left, failed \in BOOLEAN :
        LET skip == r.perm = "superuser" /\ (failed \/ Superusers <= 1)
        IN /\ found' = r.id /\ left' = left \ {r}
           /\ pc' = (IF skip \/ dry THEN "purgeUsers" ELSE "deleteUser")
           /\ report' = report + (IF dry /\ ~skip THEN 1 ELSE 0)
  BY DEF CountSuperusers, Count, Goto
<1>3. /\ {q.id : q \in left \ {r}} = {q.id : q \in left} \ {r.id}
      /\ r.id \in Unwanted /\ r.perm = users[r.id].perm
      /\ r = [id |-> r.id, perm |-> users[r.id].perm]
  BY <1>1, TakenFromList
<1>4. DescribedRows'
  BY <1>1, DescribedStays DEF FindsListed
<1>5. Listed' = Listed /\ Unwanted' = Unwanted /\ Supers' = Supers
  BY <1>1 DEF Listed, Unwanted, Supers
<1>6. DueListed'
  BY <1>1, <1>2, <1>3, <1>5 DEF DueListed
<1>7. CatchesUp'
  <2>1. CASE report = 0 /\ Unwanted = Supers /\ Cardinality(Supers) = 1
    <3>1. r.perm = "superuser" /\ Superusers <= 1
      BY <1>3, <2>1 DEF Supers, Superusers
    <3>2. pc' = "purgeUsers" /\ report' = 0
      BY <1>2, <2>1, <3>1
    <3> QED
      BY <1>5, <2>1, <3>2 DEF CatchesUp
  <2>2. CASE report + Cardinality(UsersDue) <= foregone
    <3>1. UsersDue = {q.id : q \in left} /\ r.id \in UsersDue
      BY <1>1 DEF UsersDue
    <3>2. PICK B, C : B = UsersDue /\ C = UsersDue'
      OBVIOUS
    <3>3. IsFiniteSet(B) /\ Cardinality(B) \in Nat
      BY <3>2, FewDue DEF FindsListed
    <3>4. Cardinality(B \ {r.id}) = Cardinality(B) - 1
      BY <3>1, <3>2, <3>3, FS_RemoveElement
    <3>5. CASE pc' = "purgeUsers"
      <4>1. C = B \ {r.id}
        BY <1>2, <1>3, <3>1, <3>2, <3>5 DEF UsersDue
      <4>2. report' \in Nat /\ report' <= report + 1
        BY <1>1, <1>2
      <4> QED
        BY <1>1, <2>2, <3>2, <3>3, <3>4, <4>1, <4>2 DEF CatchesUp
    <3>6. CASE pc' # "purgeUsers"
      <4>1. pc' = "deleteUser" /\ report' = report
        BY <1>1, <1>2, <3>6
      <4>2. C = (B \ {r.id}) \cup {r.id}
        BY <1>2, <1>3, <3>1, <3>2, <4>1 DEF UsersDue
      <4>3. C = B
        BY <3>1, <3>2, <4>2
      <4> QED
        BY <1>1, <2>2, <3>2, <4>1, <4>3 DEF CatchesUp
    <3> QED
      BY <3>5, <3>6
  <2> QED
    BY <2>1, <2>2 DEF FindsListed, CatchesUp
<1> QED
  BY <1>1, <1>2, <1>4, <1>6, <1>7 DEF FindsListed, FavSteps

(* ApplyDeleteUser deletes one that the run before left. *)
LEMMA AgainDeletes ==
  ASSUME TypeInv, FindsListed, ApplyDeleteUser
  PROVE  FindsListed'
<1>1. /\ pc = "deleteUser" /\ pc' = "purgeUsers" /\ UNCHANGED <<nodes, favs, file, left, foregone>>
      /\ users' = Without(users, {found}) /\ report' = report + 1
      /\ report \in Nat /\ foregone \in Nat
      /\ found \in Unwanted /\ [id |-> found, perm |-> users[found].perm] \notin left
      /\ left \subseteq Listed
  BY DEF ApplyDeleteUser, place, hist, Goto, Count, FindsListed, DueListed, TypeInv, CountInv
<1>2. DOMAIN users' = DOMAIN users \ {found} /\ \A u \in DOMAIN users' : users'[u] = users[u]
  BY <1>1 DEF Without
<1>3. /\ \A n : NodesOf(n)' = NodesOf(n)
      /\ \A x, n : FavsOf(x)' = FavsOf(x) /\ FavsAt(x, n)' = FavsAt(x, n)
  BY <1>1 DEF NodesOf, FavsOf, FavsAt
<1>4. ASSUME NEW i \in DOMAIN file.users, NEW u \in Named(file.users[i].name)
      PROVE  u \in Named(file.users[i].name)' /\ users'[u] = users[u]
  <2>1. u # found
    BY <1>1 DEF Unwanted, Named, Names_
  <2> QED
    BY <1>1, <1>2, <2>1 DEF Named
<1>5. DescribedRows'
  <2>1. ASSUME NEW i \in DOMAIN file.users, \E u \in Named(file.users[i].name) :
                                              users[u].perm = file.users[i].perm
        PROVE  \E u \in Named(file.users[i].name)' : users'[u].perm = file.users[i].perm
    BY <1>4, <2>1
  <2>2. UsersAsListed'
    BY <1>1, <2>1 DEF UsersAsListed, FindsListed, DescribedRows
  <2>3. NodesAsListed'
    BY <1>1, <1>3 DEF NodesAsListed, FindsListed, DescribedRows
  <2> QED
    BY <2>2, <2>3 DEF DescribedRows
<1>6. \A q \in left : q.id # found /\ q.id \in Unwanted /\ q.perm = users[q.id].perm
                      /\ q = [id |-> q.id, perm |-> users[q.id].perm]
  BY <1>1 DEF Listed
<1>7. left \subseteq Listed'
  <2> SUFFICES ASSUME NEW q \in left PROVE q \in Listed'
    OBVIOUS
  <2>1. q.id \in DOMAIN users' /\ users'[q.id] = users[q.id] /\ q.id \in Unwanted'
    BY <1>1, <1>2, <1>6 DEF Unwanted
  <2>2. q = [id |-> q.id, perm |-> users'[q.id].perm]
    BY <1>6, <2>1
  <2> QED
    BY <2>1, <2>2 DEF Listed
<1>8. DueListed'
  BY <1>1, <1>7 DEF DueListed
<1>9. CatchesUp'
  <2>1. PICK B, C : B = UsersDue /\ C = UsersDue'
    OBVIOUS
  <2>2. B = {q.id : q \in left} \cup {found} /\ C = {q.id : q \in left}
    BY <1>1, <2>1 DEF UsersDue
  <2>3. C = B \ {found} /\ found \in B
    BY <1>6, <2>2
  <2>4. IsFiniteSet(B) /\ Cardinality(B) \in Nat
    BY <2>1, FewDue DEF FindsListed
  <2>5. Cardinality(B \ {found}) = Cardinality(B) - 1
    BY <2>3, <2>4, FS_RemoveElement
  <2>6. report + Cardinality(B) <= foregone
    BY <1>1, <2>1 DEF FindsListed, CatchesUp
  <2> QED
    BY <1>1, <2>1, <2>3, <2>4, <2>5, <2>6 DEF CatchesUp
<1> QED
  BY <1>1, <1>5, <1>8, <1>9 DEF FindsListed, FavSteps

(* LookNode finds the node as listed. *)
LEMMA AgainNode ==
  ASSUME TypeInv, PlaceInv, NoDuplicates, FindsListed, LookNode
  PROVE  FindsListed'
<1>1. PICK s : s = Head(todo)
  OBVIOUS
<1>2. pc = "nodes" /\ todo # <<>> /\ UNCHANGED <<users, tables, file, foregone>>
  BY DEF LookNode, tables
<1>3. NodesOf(s.number) # {} /\ nodes[TheNode(s)].data = s.data
  BY <1>1, <1>2, NodeThere DEF FindsListed, NodeSteps
<1>4. pc' = "favs" /\ nid' = TheNode(s) /\ report' = report + 0 /\ UNCHANGED todo
  BY <1>1, <1>3 DEF LookNode, Goto, Count, NodeChanged, TheNode
<1>5. TheNode(s)' = TheNode(s)
  BY <1>2 DEF TheNode, NodesOf, tables
<1>6. DescribedRows'
  BY <1>2, DescribedStays DEF FindsListed
<1>7. TheNode(Head(todo))' = TheNode(s)'
  BY <1>1, <1>4 DEF TheNode, NodesOf
<1>8. UsersDue' = UsersDue /\ report' = report
  BY <1>2, <1>4 DEF UsersDue, BeforeNodes, UserSteps, TypeInv, CountInv
<1>9. CatchesUp'
  BY <1>2, <1>4, <1>8, CatchesOn DEF FindsListed
<1> QED
  BY <1>2, <1>4, <1>5, <1>6, <1>7, <1>9 DEF FindsListed, DueListed

(* LookFavorite finds the favorite as listed, and none is to be purged. *)
LEMMA AgainFavorite ==
  ASSUME TypeInv, PlaceInv, NoDuplicates, FindsListed,
         LookFavorite \/ ListFavorites
  PROVE  FindsListed'
<1>1. PICK s, x : s = Head(todo) /\ x = nid
  OBVIOUS
<1>2. /\ pc = "favs" /\ todo # <<>> /\ x = TheNode(s) /\ pc \in NodeSteps
      /\ UNCHANGED <<users, tables, file, foregone, todo, nid>>
  BY <1>1 DEF LookFavorite, ListFavorites, FindsListed, FavSteps, NodeSteps, tables, hist
<1>3. \/ pc' = "favs" /\ report' = report + 0
      \/ pc' = "purgeFavs" /\ report' = report /\ left' = {}
  <2>1. CASE LookFavorite
    <3>1. favTodo # <<>> /\ FavDone(nid, Head(favTodo))
      BY <1>1, <1>2, <2>1, FavoriteThere DEF LookFavorite, FindsListed, FavSteps
    <3> QED
      BY <2>1, <3>1 DEF LookFavorite, FavDone, GetFavorite, Count
  <2>2. CASE ListFavorites
    <3>1. file.purge.favs => \A g \in FavsOf(x) : favs[g].number \in Numbers_(s.favs)
      BY <1>1, <1>2, NodeThere DEF FindsListed
    <3>2. left' = {}
      BY <1>1, <2>2, <3>1 DEF ListFavorites
    <3> QED
      BY <2>2, <3>2 DEF ListFavorites, Goto
  <2> QED
    BY <2>1, <2>2
<1>4. TheNode(s)' = TheNode(s) /\ TheNode(Head(todo))' = TheNode(s)'
  BY <1>1, <1>2 DEF TheNode, NodesOf, tables
<1>5. DescribedRows'
  BY <1>2, DescribedStays DEF FindsListed
<1>6. todo' # <<>> /\ nid' = TheNode(Head(todo))'
  <2>1. todo' = todo /\ nid' = x
    BY <1>1, <1>2
  <2>2. nid' = TheNode(Head(todo))'
    BY <1>2, <1>4, <2>1, Zenon
  <2> QED
    BY <1>2, <2>1, <2>2
<1>7. pc' \in {"favs", "purgeFavs"} /\ (pc' = "purgeFavs" => left' = {})
  BY <1>3
<1>8. UsersDue' = UsersDue /\ report' = report
  BY <1>2, <1>3 DEF UsersDue, BeforeNodes, UserSteps, TypeInv, CountInv
<1>9. CatchesUp'
  BY <1>2, <1>7, <1>8, CatchesOn DEF FindsListed
<1> QED
  BY <1>5, <1>6, <1>7, <1>9 DEF FindsListed, DueListed

(* The other steps of the run only go on, for none is to be purged. *)
LEMMA AgainGoesOn ==
  ASSUME TypeInv, FindsListed,
         Start \/ ListUsers \/ ToNodes \/ ApplyDeleteFavorite \/ NextNode \/ ListNodes
         \/ ApplyDeleteNode \/ Report
  PROVE  FindsListed'
<1>1. /\ UNCHANGED <<users, tables, file, foregone>> /\ report' \in {0, report}
      /\ pc' \in {"users", "purgeUsers", "nodes", "purgeNodes", "done"}
      /\ pc' = "purgeNodes" => left' = {}
      /\ pc' = "purgeUsers" => ListUsers
  <2>1. CASE Start \/ ListUsers \/ ToNodes \/ NextNode \/ Report
    BY <2>1 DEF Start, ListUsers, ToNodes, NextNode, Report, Goto, tables, hist
  <2>2. CASE ListNodes
    <3>1. left' = {}
      BY <2>2 DEF ListNodes, FindsListed, DescribedRows, UsersAsListed, NodesAsListed
    <3> QED
      BY <2>2, <3>1 DEF ListNodes, Goto, tables, hist
  <2>3. CASE ApplyDeleteFavorite \/ ApplyDeleteNode
    BY <2>3 DEF ApplyDeleteFavorite, ApplyDeleteNode, FindsListed
  <2> QED
    BY <2>1, <2>2, <2>3
<1>2. DescribedRows'
  BY <1>1, DescribedStays DEF FindsListed
<1>3. Listed' = Listed /\ UsersOut' = UsersOut
  BY <1>1 DEF Listed, Unwanted, UsersOut
<1>4. DueListed'
  BY <1>1, <1>3, ListedForPurge DEF DueListed
<1>5. UsersDue' = UsersDue
  <2>1. CASE ListUsers
    <3>1. UsersDue = UsersOut
      BY <2>1 DEF ListUsers, UsersDue, UsersOut, BeforeNodes, UserSteps
    <3>2. pc' = "purgeUsers"
      BY <2>1 DEF ListUsers, Goto
    <3>3. UsersDue' = {r.id : r \in left'}
      BY <3>2 DEF UsersDue
    <3> QED
      BY <2>1, <3>1, <3>3, ListedForPurge
  <2>2. CASE Start
    <3>1. UsersDue = UsersOut
      BY <2>2 DEF Start, UsersDue, UsersOut, BeforeNodes
    <3>2. pc' = "users"
      BY <2>2 DEF Start, Goto
    <3>3. UsersDue' = UsersOut'
      BY <3>2 DEF UsersDue, UsersOut, BeforeNodes, UserSteps
    <3> QED
      BY <1>3, <3>1, <3>3
  <2>3. CASE ToNodes
    BY <2>3 DEF ToNodes, Goto, UsersDue, BeforeNodes, UserSteps
  <2>4. CASE ApplyDeleteFavorite \/ NextNode \/ ListNodes \/ ApplyDeleteNode \/ Report
    BY <2>4 DEF ApplyDeleteFavorite, NextNode, ListNodes, ApplyDeleteNode, Report, Goto,
       UsersDue, BeforeNodes, UserSteps
  <2> QED
    BY <2>1, <2>2, <2>3, <2>4
<1>6. CatchesUp'
  BY <1>1, <1>5, CatchesOn DEF FindsListed
<1> QED
  BY <1>1, <1>2, <1>4, <1>6 DEF FindsListed, FavSteps

(* Nothing that was found changes while nothing else does. *)
LEMMA AgainStutters ==
  ASSUME TypeInv, FindsListed, UNCHANGED vars
  PROVE  FindsListed'
<1>1. UNCHANGED <<users, tables, file, foregone, pc, todo, nid, left, found, report>>
  BY DEF vars, place, hist, tables
<1>2. DescribedRows'
  BY <1>1, DescribedStays DEF FindsListed
<1>3. /\ Listed' = Listed /\ TheNode(Head(todo))' = TheNode(Head(todo))
      /\ Unwanted' = Unwanted /\ Supers' = Supers /\ UsersDue' = UsersDue
  BY <1>1 DEF Listed, Unwanted, Supers, TheNode, NodesOf, UsersDue, UsersOut, tables
<1>4. CatchesUp'
  BY <1>1, <1>3 DEF FindsListed, CatchesUp
<1> QED
  BY <1>1, <1>2, <1>3, <1>4 DEF FindsListed, DueListed

(* A run that has done all ends, and the next one finds to do what a count *)
(* that failed has left.                                                   *)
LEMMA AgainBegins ==
  ASSUME TypeInv, Described, ~dry, quiet, Exit
  PROVE  FindsListed'
<1>1. UNCHANGED <<users, tables, file>> /\ report' = 0 /\ pc' = "idle"
      /\ foregone' = Cardinality(spared)
  BY DEF Exit, Ended, Goto, tables
<1>2. DescribedRows'
  BY <1>1, DescribedStays DEF Described
<1>3. /\ Unwanted' = Unwanted /\ Supers' = Supers
      /\ UsersDue' = UsersOut /\ DueListed'
  BY <1>1 DEF UsersDue, UsersOut, Unwanted, Supers, BeforeNodes, DueListed
<1>4. CASE UsersOut \subseteq spared
  <2>1. IsFiniteSet(spared) /\ Cardinality(spared) \in Nat
    BY FS_CardinalityType DEF TypeInv, CountInv
  <2>2. Cardinality(UsersOut) \in Nat /\ Cardinality(UsersOut) <= Cardinality(spared)
    BY <1>4, <2>1, FS_Subset, FS_CardinalityType
  <2>3. CatchesUp'
    BY <1>1, <1>3, <2>1, <2>2 DEF CatchesUp
  <2> QED
    BY <1>1, <1>2, <1>3, <2>3 DEF FindsListed, FavSteps
<1>5. CASE ~ (UsersOut \subseteq spared)
  <2>1. Unwanted = Supers /\ Cardinality(Supers) = 1
    BY <1>5 DEF Described, DescribedUsers, UsersOut
  <2>2. CatchesUp'
    BY <1>1, <1>3, <2>1 DEF CatchesUp
  <2> QED
    BY <1>1, <1>2, <1>3, <2>2 DEF FindsListed, FavSteps
<1> QED
  BY <1>4, <1>5

(* Every step keeps that a run after a complete one finds no more to do. *)
LEMMA AgainStep ==
  TypeInv /\ PlaceInv /\ MatchInv /\ AgainInv /\ [Next]_vars => AgainInv'
<1> SUFFICES ASSUME TypeInv, PlaceInv, MatchInv, AgainInv, [Next]_vars,
                    last' = "real", NoDuplicates'
             PROVE  FindsListed'
  BY DEF AgainInv
<1>1. NoDuplicates
  BY FileStays DEF NoDuplicates
<1>2. CASE Exit
  <2>1. quiet /\ ~dry
    BY <1>2 DEF Exit, Ended
  <2>2. Described
    BY <1>2, <2>1, DoneIsDescribed DEF MatchInv, AllMatch, Exit
  <2> QED
    BY <1>2, <2>1, <2>2, AgainBegins
<1>3. CASE ~ Exit
  <2>1. ~ Abandon /\ ~ ServerStep
    BY ServerTouches DEF Abandon, Ended
  <2>2. last = "real"
    <3>1. CASE Start \/ LookUser \/ ApplyCreateUser \/ ApplyUpdateUser \/ ListUsers
               \/ CountSuperusers \/ ApplyDeleteUser \/ ToNodes \/ LookNode
               \/ ApplyCreateNode \/ ApplyUpdateNode
      BY <3>1 DEF Start, LookUser, ApplyCreateUser, ApplyUpdateUser, ListUsers,
         CountSuperusers, ApplyDeleteUser, ToNodes, LookNode, ApplyCreateNode,
         ApplyUpdateNode, hist
    <3>2. CASE LookFavorite \/ ApplyCreateFavorite \/ ApplyUpdateFavorite \/ ListFavorites
               \/ ApplyDeleteFavorite \/ NextNode \/ ListNodes \/ ApplyDeleteNode \/ Report
               \/ UNCHANGED vars
      BY <3>2 DEF LookFavorite, ApplyCreateFavorite, ApplyUpdateFavorite, ListFavorites,
         ApplyDeleteFavorite, NextNode, ListNodes, ApplyDeleteNode, Report, vars, hist
    <3> QED
      BY <1>3, <2>1, <3>1, <3>2 DEF Next, ServerStep
  <2>3. FindsListed
    BY <1>1, <2>2 DEF AgainInv
  <2>4. ~ (ApplyCreateUser \/ ApplyUpdateUser \/ ApplyCreateNode
           \/ ApplyUpdateNode \/ ApplyCreateFavorite \/ ApplyUpdateFavorite)
    BY <2>3 DEF FindsListed, ApplyCreateUser, ApplyUpdateUser,
       ApplyCreateNode, ApplyUpdateNode, ApplyCreateFavorite, ApplyUpdateFavorite
  <2>5. CASE LookUser
    BY <1>1, <2>3, <2>5, AgainUser
  <2>6. CASE CountSuperusers \/ ApplyDeleteUser
    BY <2>3, <2>6, AgainCounts, AgainDeletes
  <2>7. CASE LookNode
    BY <1>1, <2>3, <2>7, AgainNode
  <2>8. CASE LookFavorite \/ ListFavorites
    BY <1>1, <2>3, <2>8, AgainFavorite
  <2>9. CASE Start \/ ListUsers \/ ToNodes \/ ApplyDeleteFavorite \/ NextNode \/ ListNodes
             \/ ApplyDeleteNode \/ Report
    BY <2>3, <2>9, AgainGoesOn
  <2>10. CASE UNCHANGED vars
    BY <2>3, <2>10, AgainStutters
  <2> QED
    BY <1>3, <2>1, <2>4, <2>5, <2>6, <2>7, <2>8, <2>9, <2>10 DEF Next, ServerStep
<1> QED
  BY <1>2, <1>3

(* Applied again after a run that nothing interfered with, a file with one *)
(* entry for each name and number changes nothing, for real or in          *)
(* appearance, but superusers whose count failed in the run before         *)
(* (declarative-state.md; state/apply.go).                                 *)
THEOREM AppliedAgainIsIdle ==
  Spec => []AppliedTwice
<1>1. Init => AgainInv
  BY DEF Init, AgainInv
<1>2. TypeInv /\ PlaceInv /\ MatchInv /\ AgainInv /\ [Next]_vars => AgainInv'
  BY AgainStep
<1>3. TypeInv /\ AgainInv => AppliedTwice
  <2> SUFFICES ASSUME TypeInv, CatchesUp, pc = "done" PROVE report <= foregone
    BY DEF AgainInv, FindsListed, AppliedTwice
  <2>1. UsersDue = {} /\ report \in Nat /\ foregone \in Nat
    BY DEF UsersDue, BeforeNodes, UserSteps, TypeInv, CountInv
  <2>2. Cardinality(UsersDue) = 0
    BY <2>1, FS_EmptySet
  <2> QED
    BY <2>1, <2>2 DEF CatchesUp
<1> QED
  BY <1>1, <1>2, <1>3, MatchHolds, PTL DEF Spec

-----------------------------------------------------------------------------
(* What of the file and of the tables has still to be compared: positions  *)
(* in the file's lists, and favorites as pairs of positions.               *)
AtFavorites == {"favs", "createFav", "updateFav"}
FavPlaces   == UNION {{i} \X DOMAIN file.nodes[i].favs : i \in DOMAIN file.nodes}

UsersAhead ==
  {i \in DOMAIN file.users : pc = "idle" \/ (pc \in UserSteps /\ i > Through(file.users))}
NodesAhead ==
  {i \in DOMAIN file.nodes :
     \/ pc \in BeforeNodes
     \/ pc \in {"nodes", "createNode", "updateNode"} /\ i > Through(file.nodes)
     \/ pc \in FavSteps /\ i > Through(file.nodes) + 1}
ListsAhead ==
  {i \in DOMAIN file.nodes :
     i \in NodesAhead \/ (pc \in AtFavorites /\ i = Through(file.nodes) + 1)}
FavsAhead ==
  {p \in FavPlaces :
     \/ p[1] \in NodesAhead
     \/ pc \in AtFavorites /\ p[1] = Through(file.nodes) + 1 /\ p[2] > ThroughFavs}

(* What differs there from the file, and the rows the file does not want.  *)
UserDiffers(s) == Named(s.name) = {} \/ users[Lowest(Named(s.name))].perm # s.perm
NodeDiffers(s) == NodesOf(s.number) = {} \/ nodes[TheNode(s)].data # s.data
Stray(g, s) == /\ NodesOf(s.number) # {} /\ favs[g].node = TheNode(s)
               /\ favs[g].number \notin Numbers_(s.favs)

UserGaps(A) == {i \in A : UserDiffers(file.users[i])}
NodeGaps(A) == {i \in A : NodeDiffers(file.nodes[i])}
FavThere(s, f) == NodesOf(s.number) # {} /\ FavDone(TheNode(s), f)
FavGaps(P)  == {p \in P : ~FavThere(file.nodes[p[1]], file.nodes[p[1]].favs[p[2]])}
Strays(A)   == {g \in DOMAIN favs : file.purge.favs /\ \E i \in A : Stray(g, file.nodes[i])}
NodesOut    == {x \in DOMAIN nodes :
                  file.purge.nodes /\ nodes[x].number \notin Numbers_(file.nodes)}

(* The rows that are listed for a purge, or are going to be. *)
StraysDue == Strays(ListsAhead) \cup {g \in left : pc = "purgeFavs"}
NodesDue == IF pc \in {"purgeNodes", "done"} THEN left ELSE NodesOut

(* How many changes a run would make, and how many it has still to make. *)
All == Cardinality(UserGaps(DOMAIN file.users)) + Cardinality(UsersOut)
       + Cardinality(NodeGaps(DOMAIN file.nodes)) + Cardinality(FavGaps(FavPlaces))
       + Cardinality(Strays(DOMAIN file.nodes)) + Cardinality(NodesOut)
Due == Cardinality(UserGaps(UsersAhead)) + Cardinality(UsersDue)
       + Cardinality(NodeGaps(NodesAhead)) + Cardinality(FavGaps(FavsAhead))
       + Cardinality(StraysDue) + Cardinality(NodesDue)

(* At a statement, what it is about is as it was read. *)
UsersHere ==
  /\ pc = "createUser" => Named(Head(todo).name) = {}
  /\ pc = "updateUser" =>
       found \in Named(Head(todo).name) /\ users[found].perm # Head(todo).perm
  /\ DueListed
NodesHere ==
  LET s == Head(todo)
  IN /\ pc = "createNode" => NodesOf(s.number) = {}
     /\ pc \in {"updateNode"} \cup FavSteps => NodesOf(s.number) # {} /\ nid = TheNode(s)
     /\ pc = "updateNode" => favTodo = s.favs /\ nodes[nid].data # s.data
     /\ pc = "createFav" => FavsAt(nid, Head(favTodo).number) = {}
     /\ pc = "updateFav" => /\ FavsAt(nid, Head(favTodo).number) # {}
                            /\ found = Lowest(FavsAt(nid, Head(favTodo).number))
                            /\ favs[found].data # Head(favTodo).data
     /\ pc = "purgeFavs" =>
          left \subseteq {g \in FavsOf(nid) : favs[g].number \notin Numbers_(s.favs)}
     /\ pc \in {"purgeNodes", "done"} =>
          left \subseteq {x \in DOMAIN nodes : nodes[x].number \notin Numbers_(file.nodes)}
     /\ pc = "done" => left = {}
Differs ==
  /\ pc = "createUser" => Named(Head(todo).name) = {}
  /\ pc = "updateUser" => users[found].perm # Head(todo).perm
  /\ pc = "updateNode" => nodes[nid].data # Head(todo).data
  /\ pc = "updateFav" => favs[found].data # Head(favTodo).data
Writes == {"createUser", "updateUser", "deleteUser", "createNode", "updateNode", "createFav",
           "updateFav"}
HereInv == quiet => UsersHere /\ NodesHere /\ (dry => pc \notin Writes)

(* Between runs nothing is counted, and the run before counts only while   *)
(* the server leaves the tables alone.                                     *)
RestInv == (pc = "idle" => report = 0 /\ passed = 0) /\ (last # "none" => quiet)

(* While a dry run lasts, what it has counted, what it has passed over and *)
(* what it has still to compare are together what is due; once it is over, *)
(* what it told and what it passed over is what the next run has counted,  *)
(* passed over and still to compare.                                       *)
InDry   == dry /\ pc # "idle"
Telling == NoDuplicates /\ pc # "failed" /\ quiet /\ (last = "dry" \/ InDry)
Owed    == IF InDry THEN All ELSE told + foregone
DueInv  == Telling => report + passed + Due = Owed

(* That a dry run could tell stays so, whatever the run and the next one   *)
(* do; then neither of them passes anything over.                          *)
PlainInv == Telling /\ plain => Foreseen /\ passed = 0 /\ (InDry \/ foregone = 0)

-----------------------------------------------------------------------------
(* Counting what is due *)

(* A set stays as it is, or loses one of its elements, or some of them. *)
Loses(S, T, n) == \/ n = 0 /\ T = S
                  \/ n = 1 /\ \E x \in S : T = S \ {x}
                  \/ \E X \in SUBSET S : T = S \ X /\ n = Cardinality(X)

(* Its cardinality goes down with it. *)
LEMMA LosesCount ==
  ASSUME NEW S, NEW T, NEW n, IsFiniteSet(S), Loses(S, T, n)
  PROVE  n \in Nat /\ Cardinality(S) \in Nat /\ Cardinality(T) = Cardinality(S) - n
<1>1. Cardinality(S) \in Nat
  BY FS_CardinalityType
<1>2. ASSUME NEW x \in S PROVE Cardinality(S \ {x}) = Cardinality(S) - 1
  BY FS_RemoveElement
<1>3. ASSUME NEW X \in SUBSET S
      PROVE  Cardinality(X) \in Nat /\ Cardinality(S \ X) = Cardinality(S) - Cardinality(X)
  <2>1. IsFiniteSet(X)
    BY FS_Subset
  <2>2. S \cap X = X
    OBVIOUS
  <2> QED
    BY <2>1, <2>2, FS_CardinalityType, FS_Difference
<1> QED
  BY <1>1, <1>2, <1>3 DEF Loses

(* It is so when one element is taken that may have been in it. *)
LEMMA OneTaken ==
  ASSUME NEW S, NEW T, NEW x, T = S \ {x}, NEW n, n = IF x \in S THEN 1 ELSE 0
  PROVE  Loses(S, T, n)
<1>1. CASE x \in S
  BY <1>1 DEF Loses
<1>2. CASE x \notin S
  <2>1. T = S
    BY <1>2
  <2> QED
    BY <1>2, <2>1 DEF Loses
<1> QED
  BY <1>1, <1>2

(* The first n positions are finitely many. *)
LEMMA PositionsFinite ==
  ASSUME NEW n \in Int
  PROVE  IsFiniteSet(1 .. n)
BY FS_Interval

(* The positions in the lists of favorites are finitely many. *)
LEMMA PlacesFinite ==
  ASSUME TypeInv
  PROVE  IsFiniteSet(FavPlaces)
<1> DEFINE R(i) == {i} \X DOMAIN file.nodes[i].favs
           g == [i \in DOMAIN file.nodes |-> R(i)]
           T == {g[i] : i \in DOMAIN file.nodes}
<1>1. DOMAIN file.nodes = 1 .. Len(file.nodes) /\ Len(file.nodes) \in Nat
  BY FileIs, LenProperties
<1>2. IsFiniteSet(DOMAIN file.nodes)
  BY <1>1, PositionsFinite
<1>3. ASSUME NEW i \in DOMAIN file.nodes PROVE IsFiniteSet(R(i))
  <2>1. file.nodes[i].favs \in Seq(FavSpec)
    <3>1. file.nodes[i] \in NodeSpec
      BY <1>1, FileIs, ElementOfSeq
    <3> QED
      BY <3>1 DEF NodeSpec
  <2>2. DOMAIN file.nodes[i].favs = 1 .. Len(file.nodes[i].favs)
        /\ Len(file.nodes[i].favs) \in Nat
    BY <2>1, LenProperties
  <2>3. IsFiniteSet(DOMAIN file.nodes[i].favs) /\ IsFiniteSet({i})
    <3>1. IsFiniteSet(1 .. Len(file.nodes[i].favs))
      BY <2>2, PositionsFinite
    <3> QED
      BY <2>2, <3>1, FS_Singleton
  <2> QED
    BY <2>3, FS_Product
<1>4. g \in Surjection(DOMAIN file.nodes, T)
  BY DEF Surjection
<1>5. IsFiniteSet(T)
  <2> HIDE DEF g, T
  <2> QED
    BY <1>2, <1>4, FS_Surjection
<1>6. \A r \in T : IsFiniteSet(r)
  BY <1>3
<1>7. FavPlaces = UNION T
  BY DEF FavPlaces
<1> QED
  <2> HIDE DEF T
  <2> QED
    BY <1>5, <1>6, <1>7, FS_UNION

(* What is due is finite, in each of its parts. *)
LEMMA DueFinite ==
  ASSUME TypeInv, UsersHere, NodesHere
  PROVE  /\ IsFiniteSet(UserGaps(UsersAhead)) /\ IsFiniteSet(UsersDue)
         /\ IsFiniteSet(NodeGaps(NodesAhead)) /\ IsFiniteSet(FavGaps(FavsAhead))
         /\ IsFiniteSet(StraysDue) /\ IsFiniteSet(NodesDue)
<1>1. IsFiniteSet(1 .. serial - 1) /\ IsFiniteSet(1 .. Len(file.users))
      /\ IsFiniteSet(1 .. Len(file.nodes))
  <2>1. serial - 1 \in Int
    BY IdsAre DEF TypeInv
  <2>2. Len(file.users) \in Int /\ Len(file.nodes) \in Int
    BY FileIs
  <2> QED
    BY <2>1, <2>2, PositionsFinite
<1>2. /\ UserGaps(UsersAhead) \subseteq 1 .. Len(file.users)
      /\ NodeGaps(NodesAhead) \subseteq 1 .. Len(file.nodes)
      /\ FavGaps(FavsAhead) \subseteq FavPlaces
  BY FileIs, LenProperties DEF UserGaps, UsersAhead, NodeGaps, NodesAhead, FavGaps, FavsAhead
<1>3. IsFiniteSet(UsersDue)
  BY FewDue DEF UsersHere
<1>4. StraysDue \subseteq DOMAIN favs
  BY DEF StraysDue, Strays, NodesHere, FavsOf
<1>5. NodesDue \subseteq DOMAIN nodes
  BY DEF NodesDue, NodesHere, NodesOut
<1>6. StraysDue \subseteq 1 .. serial - 1 /\ NodesDue \subseteq 1 .. serial - 1
  BY <1>4, <1>5, IdsAre DEF TypeInv
<1> QED
  BY <1>1, <1>2, <1>3, <1>6, PlacesFinite, FS_Subset

(* What a step takes from each part of what is due. *)
UserMoves(a, b) == /\ Loses(UserGaps(UsersAhead), UserGaps(UsersAhead)', a)
                   /\ Loses(UsersDue, UsersDue', b)
NodeMoves(c, f) == /\ Loses(NodeGaps(NodesAhead), NodeGaps(NodesAhead)', c)
                   /\ Loses(NodesDue, NodesDue', f)
FavMoves(d, e)  == /\ Loses(FavGaps(FavsAhead), FavGaps(FavsAhead)', d)
                   /\ Loses(StraysDue, StraysDue', e)
SumKept         == report' + passed' + Due' = report + passed + Due

(* A step that counts what it takes from what is due, or passes it over,   *)
(* keeps their sum.                                                        *)
LEMMA CountedIsTaken ==
  ASSUME TypeInv, UsersHere, NodesHere, NEW a, NEW b, NEW c, NEW d, NEW e, NEW f,
         UserMoves(a, b), NodeMoves(c, f), FavMoves(d, e),
         report' \in Nat, passed' \in Nat,
         report' + passed' = report + passed + (a + b + c + d + e + f)
  PROVE  SumKept
<1>1. PICK A, B, C, D, E, F :
        /\ A = UserGaps(UsersAhead) /\ B = UsersDue /\ C = NodeGaps(NodesAhead)
        /\ D = FavGaps(FavsAhead) /\ E = StraysDue /\ F = NodesDue
  OBVIOUS
<1>2. PICK A1, B1, C1, D1, E1, F1 :
        /\ A1 = UserGaps(UsersAhead)' /\ B1 = UsersDue' /\ C1 = NodeGaps(NodesAhead)'
        /\ D1 = FavGaps(FavsAhead)' /\ E1 = StraysDue' /\ F1 = NodesDue'
  OBVIOUS
<1>3. /\ IsFiniteSet(A) /\ IsFiniteSet(B) /\ IsFiniteSet(C)
      /\ IsFiniteSet(D) /\ IsFiniteSet(E) /\ IsFiniteSet(F)
  BY <1>1, DueFinite
<1>4. /\ Loses(A, A1, a) /\ Loses(B, B1, b) /\ Loses(C, C1, c)
      /\ Loses(D, D1, d) /\ Loses(E, E1, e) /\ Loses(F, F1, f)
  BY <1>1, <1>2 DEF UserMoves, NodeMoves, FavMoves
<1>5. /\ a \in Nat /\ Cardinality(A) \in Nat /\ Cardinality(A1) = Cardinality(A) - a
      /\ b \in Nat /\ Cardinality(B) \in Nat /\ Cardinality(B1) = Cardinality(B) - b
      /\ c \in Nat /\ Cardinality(C) \in Nat /\ Cardinality(C1) = Cardinality(C) - c
  BY <1>3, <1>4, LosesCount
<1>6. /\ d \in Nat /\ Cardinality(D) \in Nat /\ Cardinality(D1) = Cardinality(D) - d
      /\ e \in Nat /\ Cardinality(E) \in Nat /\ Cardinality(E1) = Cardinality(E) - e
      /\ f \in Nat /\ Cardinality(F) \in Nat /\ Cardinality(F1) = Cardinality(F) - f
  BY <1>3, <1>4, LosesCount
<1>7. /\ Due = Cardinality(A) + Cardinality(B) + Cardinality(C)
               + Cardinality(D) + Cardinality(E) + Cardinality(F)
      /\ Due' = Cardinality(A1) + Cardinality(B1) + Cardinality(C1)
                + Cardinality(D1) + Cardinality(E1) + Cardinality(F1)
  BY <1>1, <1>2 DEF Due
<1>8. report \in Nat /\ passed \in Nat
  BY DEF TypeInv, CountInv
<1>9. Due \in Nat /\ Due' = Due - (a + b + c + d + e + f)
  <2>1. PICK u, v \in Nat : /\ u = Cardinality(A) + Cardinality(B) + Cardinality(C)
                             /\ v = Cardinality(D) + Cardinality(E) + Cardinality(F)
    BY <1>5, <1>6
  <2>2. Cardinality(A1) + Cardinality(B1) + Cardinality(C1) = u - (a + b + c)
    BY <1>5, <2>1
  <2>3. Cardinality(D1) + Cardinality(E1) + Cardinality(F1) = v - (d + e + f)
    BY <1>6, <2>1
  <2>4. Due = u + v
    BY <1>5, <1>6, <1>7, <2>1
  <2>5. Due' = (u - (a + b + c)) + (v - (d + e + f))
    BY <1>5, <1>6, <1>7, <2>2, <2>3
  <2> QED
    BY <1>5, <1>6, <2>1, <2>4, <2>5
<1>10. a \in Nat /\ b \in Nat /\ c \in Nat /\ d \in Nat /\ e \in Nat /\ f \in Nat
  BY <1>5, <1>6
<1>11. PICK n \in Nat : n = a + b + c + d + e + f
  BY <1>10
<1>12. Due' = Due - n /\ report' + passed' = report + passed + n
  BY <1>9, <1>11
<1> QED
  BY <1>8, <1>9, <1>11, <1>12 DEF SumKept

(* No name and no number is listed twice. *)
LEMMA ListedOnce ==
  ASSUME TypeInv, NoDuplicates
  PROVE  /\ \A i, j \in DOMAIN file.users :
              file.users[i].name = file.users[j].name => i = j
         /\ \A i, j \in DOMAIN file.nodes :
              file.nodes[i].number = file.nodes[j].number => i = j
         /\ \A k \in DOMAIN file.nodes : \A i, j \in DOMAIN file.nodes[k].favs :
              file.nodes[k].favs[i].number = file.nodes[k].favs[j].number => i = j
<1>1. file.users \in Seq(UserSpec) /\ file.nodes \in Seq(NodeSpec)
      /\ DOMAIN file.users = 1 .. Len(file.users) /\ DOMAIN file.nodes = 1 .. Len(file.nodes)
  BY FileIs, LenProperties
<1>2. \A i, j \in DOMAIN file.users : file.users[i].name = file.users[j].name => i = j
  BY <1>1, NamesOnce DEF NoDuplicates
<1>3. \A i, j \in DOMAIN file.nodes : file.nodes[i].number = file.nodes[j].number => i = j
  BY <1>1, NumbersOnce DEF NoDuplicates
<1>4. ASSUME NEW k \in DOMAIN file.nodes
      PROVE  \A i, j \in DOMAIN file.nodes[k].favs :
               file.nodes[k].favs[i].number = file.nodes[k].favs[j].number => i = j
  <2>1. file.nodes[k].favs \in Seq(FavSpec)
    <3>1. file.nodes[k] \in NodeSpec
      BY <1>1, ElementOfSeq
    <3> QED
      BY <3>1 DEF NodeSpec
  <2>2. Cardinality(Numbers_(file.nodes[k].favs)) = Len(file.nodes[k].favs)
        /\ DOMAIN file.nodes[k].favs = 1 .. Len(file.nodes[k].favs)
    BY <2>1, LenProperties DEF NoDuplicates
  <2> QED
    BY <2>1, <2>2, NumbersOnce
<1> QED
  BY <1>2, <1>3, <1>4

-----------------------------------------------------------------------------
(* The users that are due *)

(* Comparing or writing one entry leaves what the others differ in.        *)
LEMMA UserTaken ==
  ASSUME file' = file, NEW A, A = UsersAhead, NEW i \in A, UsersAhead' = A \ {i},
         \A j \in A \ {i} : UserDiffers(file.users[j])' <=> UserDiffers(file.users[j]),
         NEW n, n = IF UserDiffers(file.users[i]) THEN 1 ELSE 0
  PROVE  Loses(UserGaps(UsersAhead), UserGaps(UsersAhead)', n)
<1>1. UserGaps(UsersAhead) = {j \in A : UserDiffers(file.users[j])}
  BY DEF UserGaps
<1>2. UserGaps(UsersAhead)' = {j \in A \ {i} : UserDiffers(file.users[j])'}
  BY DEF UserGaps
<1>3. UserGaps(UsersAhead)' = {j \in A \ {i} : UserDiffers(file.users[j])}
  <2>1. \A j \in A \ {i} : UserDiffers(file.users[j])' <=> UserDiffers(file.users[j])
    OBVIOUS
  <2> QED
    BY <1>2, <2>1
<1>4. UserGaps(UsersAhead)' = UserGaps(UsersAhead) \ {i}
  BY <1>1, <1>3
<1>5. n = IF i \in UserGaps(UsersAhead) THEN 1 ELSE 0
  BY <1>1
<1> QED
  BY <1>4, <1>5, OneTaken

(* The users that are due after an entry has been dealt with.              *)
LEMMA UserCounted ==
  ASSUME TypeInv, PlaceInv, NoDuplicates, file' = file, pc \in UserSteps, todo # <<>>,
         pc' = "users", todo' = Tail(todo), Unwanted' = Unwanted, NEW spec, spec = Head(todo),
         \A s : s.name # spec.name => (UserDiffers(s)' <=> UserDiffers(s)),
         NEW n, n = IF UserDiffers(spec) THEN 1 ELSE 0
  PROVE  UserMoves(n, 0)
<1>1. PICK k \in Nat : k = Through(file.users)
  BY UserAtHand DEF PlaceInv
<1>2. /\ k + 1 \in DOMAIN file.users /\ spec = file.users[k + 1]
      /\ Len(file.users) - Len(Tail(todo)) = k + 1 /\ DOMAIN file.users = 1 .. Len(file.users)
  BY <1>1, UserAtHand, FileIs, LenProperties DEF PlaceInv
<1>3. Through(file.users)' = k + 1
  BY <1>2 DEF Through
<1>4. PICK A : A = UsersAhead
  OBVIOUS
<1>5. A = {i \in DOMAIN file.users : i > k}
  BY <1>1, <1>4 DEF UsersAhead, UserSteps
<1>6. UsersAhead' = {i \in DOMAIN file.users : i > k + 1}
  BY <1>3 DEF UsersAhead, UserSteps
<1>7. k + 1 \in A /\ UsersAhead' = A \ {k + 1}
  BY <1>2, <1>5, <1>6
<1>8. ASSUME NEW j \in A \ {k + 1}
      PROVE  UserDiffers(file.users[j])' <=> UserDiffers(file.users[j])
  <2>1. file.users[j].name # spec.name
    BY <1>2, <1>5, ListedOnce
  <2> QED
    BY <2>1
<1>9. Loses(UserGaps(UsersAhead), UserGaps(UsersAhead)', n)
  <2>1. n = IF UserDiffers(file.users[k + 1]) THEN 1 ELSE 0
    BY <1>2
  <2>2. A = UsersAhead /\ k + 1 \in A /\ UsersAhead' = A \ {k + 1} /\ file' = file
    BY <1>4, <1>7
  <2> QED
    BY <1>8, <2>1, <2>2, UserTaken
<1>10. UsersDue = UsersOut /\ UsersDue' = UsersOut' /\ UsersOut' = UsersOut
  BY DEF UsersDue, UsersOut, BeforeNodes, UserSteps
<1> QED
  BY <1>9, <1>10 DEF UserMoves, Loses

(* Nothing of the users is taken while they stay and the same are due.     *)
LEMMA UsersNotTaken ==
  ASSUME UNCHANGED <<users, file>>, UsersAhead' = UsersAhead, UsersDue' = UsersDue
  PROVE  UserMoves(0, 0)
<1>1. UserGaps(UsersAhead)' = UserGaps(UsersAhead)
  BY DEF UserGaps, UserDiffers, Named
<1> QED
  BY <1>1 DEF UserMoves, Loses

(* Nothing of the users is due once they have been dealt with.             *)
LEMMA UsersOver ==
  ASSUME pc \in NodeSteps \cup {"purgeNodes", "done"}, pc' \in NodeSteps \cup {"purgeNodes", "done"}
  PROVE  UserMoves(0, 0)
<1>1. UsersAhead = {} /\ UsersAhead' = {}
  BY DEF UsersAhead, UserSteps, NodeSteps
<1>2. UserGaps(UsersAhead) = {} /\ UserGaps(UsersAhead)' = {}
  BY <1>1 DEF UserGaps
<1>3. UsersDue = {} /\ UsersDue' = {}
  BY DEF UsersDue, UserSteps, NodeSteps, BeforeNodes
<1> QED
  BY <1>2, <1>3 DEF UserMoves, Loses

(* What differs at the nodes is the same while nodes and favorites stay.   *)
LEMMA GapsFrame ==
  ASSUME UNCHANGED <<nodes, favs, file>>
  PROVE  /\ \A A : NodeGaps(A)' = NodeGaps(A) /\ Strays(A)' = Strays(A)
         /\ \A P : FavGaps(P)' = FavGaps(P)
         /\ NodesOut' = NodesOut
<1>1. \A n : NodesOf(n)' = NodesOf(n)
  BY NodesFrame
<1>2. \A s : TheNode(s)' = TheNode(s)
  BY NodesFrame
<1>3. \A x, n : FavsAt(x, n)' = FavsAt(x, n)
  BY NodesFrame
<1>4. \A s : NodeDiffers(s)' <=> NodeDiffers(s)
  BY <1>1, <1>2 DEF NodeDiffers
<1>5. \A x, f : FavDone(x, f)' <=> FavDone(x, f)
  BY <1>3 DEF FavDone
<1>6. \A g, s : Stray(g, s)' <=> Stray(g, s)
  BY <1>1, <1>2 DEF Stray
<1>7. \A A : NodeGaps(A)' = NodeGaps(A)
  BY <1>4 DEF NodeGaps
<1>8. \A A : Strays(A)' = Strays(A)
  BY <1>6 DEF Strays
<1>9. \A P : FavGaps(P)' = FavGaps(P)
  <2> SUFFICES ASSUME NEW P, NEW p \in P
               PROVE  FavThere(file.nodes[p[1]], file.nodes[p[1]].favs[p[2]])'
                      <=> FavThere(file.nodes[p[1]], file.nodes[p[1]].favs[p[2]])
    BY DEF FavGaps
  <2>1. PICK s, f, x : s = file.nodes[p[1]] /\ f = s.favs[p[2]] /\ x = TheNode(s)
    OBVIOUS
  <2>2. TheNode(file.nodes[p[1]])' = x /\ NodesOf(file.nodes[p[1]].number)' = NodesOf(s.number)
    BY <1>1, <1>2, <2>1 DEF TheNode
  <2>3. FavDone(TheNode(file.nodes[p[1]]), file.nodes[p[1]].favs[p[2]])' <=> FavDone(x, f)'
    BY <2>1, <2>2
  <2> QED
    BY <1>5, <2>1, <2>2, <2>3 DEF FavThere
<1>10. NodesOut' = NodesOut
  BY DEF NodesOut
<1> QED
  BY <1>7, <1>8, <1>9, <1>10

(* Nothing of the nodes is taken while they stay and the same are due.     *)
LEMMA NodesNotTaken ==
  ASSUME UNCHANGED <<nodes, favs, file>>, NodesAhead' = NodesAhead, FavsAhead' = FavsAhead,
         StraysDue' = StraysDue, NodesDue' = NodesDue
  PROVE  NodeMoves(0, 0) /\ FavMoves(0, 0)
<1>1. PICK A, P : A = NodesAhead /\ P = FavsAhead
  OBVIOUS
<1>2. NodeGaps(NodesAhead)' = NodeGaps(A)'
  BY <1>1 DEF NodeGaps
<1>3. FavGaps(FavsAhead)' = FavGaps(P)'
  BY <1>1 DEF FavGaps
<1> QED
  BY <1>1, <1>2, <1>3, GapsFrame DEF NodeMoves, FavMoves, Loses

(* Nothing of the nodes is taken while users are dealt with.               *)
LEMMA NodesWait ==
  ASSUME UNCHANGED <<nodes, favs, file>>, pc \in BeforeNodes, pc' \in BeforeNodes
  PROVE  NodeMoves(0, 0) /\ FavMoves(0, 0)
<1>1. NodesAhead = DOMAIN file.nodes /\ NodesAhead' = DOMAIN file.nodes
  BY DEF NodesAhead
<1>2. /\ FavsAhead = {p \in FavPlaces : p[1] \in DOMAIN file.nodes}
      /\ FavsAhead' = {p \in FavPlaces : p[1] \in DOMAIN file.nodes}
  BY <1>1 DEF FavsAhead, FavPlaces, BeforeNodes, UserSteps, AtFavorites
<1>3. ListsAhead = DOMAIN file.nodes /\ ListsAhead' = DOMAIN file.nodes
  BY <1>1 DEF ListsAhead
<1>4. PICK A : A = DOMAIN file.nodes
  OBVIOUS
<1>5. StraysDue = Strays(A) /\ StraysDue' = Strays(A)'
  BY <1>3, <1>4 DEF StraysDue, Strays, BeforeNodes, UserSteps
<1>6. NodesDue = NodesOut /\ NodesDue' = NodesOut'
  BY DEF NodesDue, BeforeNodes, UserSteps
<1> QED
  BY <1>1, <1>2, <1>5, <1>6, GapsFrame, NodesNotTaken

(* While the tables stay, what a run can tell does too.                    *)
LEMMA ForeseenStays ==
  ASSUME UNCHANGED <<users, file>>,
         \A n \in Numbers_(file.nodes) : NodesOf(n) # {} => NodesOf(n)' # {}
  PROVE  Foreseen => Foreseen'
BY DEF Foreseen, Supers, Unwanted, Named, Numbers_

(* Nothing is passed over but by a count of superusers, and at a node that *)
(* there is not.                                                           *)
LEMMA PassedStays ==
  ASSUME \/ LookUser \/ ApplyCreateUser \/ ApplyUpdateUser \/ ListUsers \/ ApplyDeleteUser
         \/ ToNodes \/ ApplyCreateNode \/ ApplyUpdateNode \/ LookFavorite
         \/ ApplyCreateFavorite \/ ApplyUpdateFavorite \/ ListFavorites
         \/ ApplyDeleteFavorite \/ NextNode \/ ListNodes \/ ApplyDeleteNode \/ Report
  PROVE  passed' = passed
<1>1. CASE LookUser \/ ApplyCreateUser \/ ApplyUpdateUser \/ ListUsers \/ ApplyDeleteUser
           \/ ToNodes \/ ApplyCreateNode \/ ApplyUpdateNode
  BY <1>1 DEF LookUser, ApplyCreateUser, ApplyUpdateUser, ListUsers, ApplyDeleteUser,
     ToNodes, ApplyCreateNode, ApplyUpdateNode, hist
<1>2. CASE LookFavorite \/ ApplyCreateFavorite \/ ApplyUpdateFavorite \/ ListFavorites
           \/ ApplyDeleteFavorite
  BY <1>2 DEF LookFavorite, ApplyCreateFavorite, ApplyUpdateFavorite, ListFavorites,
     ApplyDeleteFavorite, hist
<1>3. CASE NextNode \/ ListNodes \/ ApplyDeleteNode \/ Report
  BY <1>3 DEF NextNode, ListNodes, ApplyDeleteNode, Report, hist
<1> QED
  BY <1>1, <1>2, <1>3

(* A step among the users that counts what it takes, and passes nothing    *)
(* over, keeps the sum.                                                    *)
LEMMA UserTakenAlone ==
  ASSUME TypeInv, UsersHere, NodesHere, UNCHANGED <<nodes, favs, file>>,
         pc \in BeforeNodes, pc' \in BeforeNodes, passed' = passed,
         NEW a \in {0, 1}, NEW b \in {0, 1}, UserMoves(a, b), report' = report + a + b
  PROVE  SumKept
<1>1. /\ report' + passed' = report + passed + (a + b + 0 + 0 + 0 + 0)
      /\ report' \in Nat /\ passed' \in Nat
  BY DEF TypeInv, CountInv
<1>2. NodeMoves(0, 0) /\ FavMoves(0, 0)
  BY NodesWait
<1> QED
  BY <1>1, <1>2, CountedIsTaken

(* LookUser counts, in a dry run, an entry that differs.                   *)
LEMMA LookUserCounts ==
  ASSUME TypeInv, PlaceInv, UsersHere, NodesHere, NoDuplicates, LookUser
  PROVE  SumKept /\ (Foreseen => Foreseen')
<1>1. PICK spec : spec = Head(todo)
  OBVIOUS
<1>2. /\ pc = "users" /\ todo # <<>> /\ UNCHANGED <<users, nodes, favs, file, left>>
      /\ pc \in UserSteps /\ report \in Nat
  BY DEF LookUser, tables, UserSteps, TypeInv, CountInv
<1>3. Foreseen => Foreseen'
  BY <1>2, NodesFrame, ForeseenStays
<1>4. CASE pc' = "users"
  <2>1. todo' = Tail(todo) /\ report' = report + (IF UserDiffers(spec) THEN 1 ELSE 0)
    BY <1>1, <1>4 DEF LookUser, Count, Goto, UserDiffers
  <2>2. Unwanted' = Unwanted /\ \A s : UserDiffers(s)' <=> UserDiffers(s)
    BY <1>2 DEF Unwanted, UserDiffers, Named
  <2>3. PICK n \in {0, 1} : n = IF UserDiffers(spec) THEN 1 ELSE 0
    OBVIOUS
  <2>4. UserMoves(n, 0)
    BY <1>1, <1>2, <1>4, <2>1, <2>2, <2>3, UserCounted
  <2>5. report' = report + n + 0
    BY <1>2, <2>1, <2>3
  <2> QED
    BY <1>2, <1>3, <1>4, <2>3, <2>4, <2>5, PassedStays, UserTakenAlone DEF BeforeNodes, UserSteps
<1>5. CASE pc' \in {"createUser", "updateUser"}
  <2>1. UNCHANGED <<todo, report>>
    BY <1>5 DEF LookUser, Goto
  <2>2. UsersAhead' = UsersAhead /\ UsersDue' = UsersDue
    BY <1>2, <1>5, <2>1
       DEF UsersAhead, UsersDue, UsersOut, Unwanted, BeforeNodes, UserSteps, Through
  <2>3. UserMoves(0, 0)
    BY <1>2, <2>2, UsersNotTaken
  <2> QED
    BY <1>2, <1>3, <1>5, <2>1, <2>3, PassedStays, UserTakenAlone DEF BeforeNodes, UserSteps
<1> QED
  BY <1>2, <1>4, <1>5 DEF LookUser, Goto

(* ApplyCreateUser adds a user that is listed. *)
LEMMA CreateUserCounts ==
  ASSUME TypeInv, PlaceInv, UsersHere, NodesHere, NoDuplicates, ApplyCreateUser
  PROVE  SumKept /\ (Foreseen => Foreseen')
<1>1. PICK spec : spec = Head(todo)
  OBVIOUS
<1>2. /\ pc = "createUser" /\ UNCHANGED <<nodes, favs, file, left>> /\ Named(spec.name) = {}
      /\ users' = With(users, [name |-> spec.name, perm |-> spec.perm])
      /\ pc' = "users" /\ todo' = Tail(todo) /\ report' = report + 1
  BY <1>1 DEF ApplyCreateUser, UsersHere, Count, Goto
<1>3. /\ pc \in UserSteps /\ todo # <<>> /\ report \in Nat /\ PlaceUsers
      /\ pc \in BeforeNodes /\ pc' \in BeforeNodes
  BY <1>2 DEF TypeInv, WorkInv, CountInv, PlaceInv, UserSteps, BeforeNodes
<1>4. /\ DOMAIN users' = DOMAIN users \cup {serial} /\ serial \notin DOMAIN users
      /\ users'[serial] = [name |-> spec.name, perm |-> spec.perm]
      /\ \A u \in DOMAIN users : users'[u] = users[u]
  BY <1>2, IdsAre DEF With, TypeInv
<1>5. spec.name \in Names_(file.users)
  <2>1. \E i \in DOMAIN file.users : spec = file.users[i]
    BY <1>1, <1>3, UserAtHand, FileIs, LenProperties
  <2> QED
    BY <2>1 DEF Names_
<1>6. Unwanted' = Unwanted
  BY <1>2, <1>4, <1>5 DEF Unwanted
<1>7. ASSUME NEW s, s.name # spec.name PROVE UserDiffers(s)' <=> UserDiffers(s)
  <2>1. Named(s.name)' = Named(s.name) /\ Named(s.name) \in SUBSET DOMAIN users
    BY <1>4, <1>7 DEF Named
  <2>2. CASE Named(s.name) = {}
    BY <2>1, <2>2 DEF UserDiffers
  <2>3. CASE Named(s.name) # {}
    <3>1. Lowest(Named(s.name)) \in DOMAIN users
      BY <2>1, <2>3, IdsAre, LowestIs DEF TypeInv
    <3> QED
      BY <1>4, <2>1, <3>1 DEF UserDiffers
  <2> QED
    BY <2>2, <2>3
<1>8. UserMoves(1, 0)
  <2>1. UserDiffers(spec)
    BY <1>2 DEF UserDiffers
  <2> QED
    BY <1>1, <1>2, <1>3, <1>6, <1>7, <2>1, UserCounted
<1>9. SumKept
  <2>1. report' = report + 1 + 0
    BY <1>2, <1>3
  <2> QED
    BY <1>2, <1>3, <1>8, <2>1, PassedStays, UserTakenAlone
<1>10. ASSUME Foreseen PROVE Foreseen'
  <2>1. \A n : NodesOf(n)' = NodesOf(n)
    BY <1>2, NodesFrame
  <2>2. Supers \cap Unwanted = {} => Supers' \cap Unwanted' = {}
    BY <1>4, <1>5, <1>6 DEF Supers, Unwanted
  <2>3. \A n : \A u \in Named(n) : u \in Named(n)' /\ users'[u] = users[u]
    BY <1>4 DEF Named
  <2> QED
    BY <1>2, <1>10, <2>1, <2>2, <2>3 DEF Foreseen
<1> QED
  BY <1>9, <1>10

(* ApplyUpdateUser sets the permission of a user that is listed. *)
LEMMA UpdateUserCounts ==
  ASSUME TypeInv, PlaceInv, UsersHere, NodesHere, NoDuplicates, ApplyUpdateUser
  PROVE  SumKept /\ (Foreseen => Foreseen')
<1>1. PICK spec : spec = Head(todo)
  OBVIOUS
<1>2. /\ pc = "updateUser" /\ UNCHANGED <<nodes, favs, file, left>>
      /\ users' = Put(users, found, [name |-> spec.name, perm |-> spec.perm])
      /\ pc' = "users" /\ todo' = Tail(todo) /\ report' = report + 1
      /\ found \in Named(spec.name) /\ users[found].perm # spec.perm
  BY <1>1 DEF ApplyUpdateUser, UsersHere, Count, Goto
<1>3. /\ pc \in UserSteps /\ todo # <<>> /\ report \in Nat /\ PlaceUsers
      /\ pc \in BeforeNodes /\ pc' \in BeforeNodes
  BY <1>2 DEF TypeInv, WorkInv, CountInv, PlaceInv, UserSteps, BeforeNodes
<1>4. /\ DOMAIN users' = DOMAIN users /\ found \in DOMAIN users /\ users[found].name = spec.name
      /\ users'[found] = [name |-> spec.name, perm |-> spec.perm]
      /\ \A u \in DOMAIN users : u # found => users'[u] = users[u]
  BY <1>2 DEF Put, Named
<1>5. PICK i \in DOMAIN file.users : spec = file.users[i]
  BY <1>1, <1>3, UserAtHand, FileIs, LenProperties
<1>6. spec.name \in Names_(file.users)
  BY <1>5 DEF Names_
<1>7. Unwanted' = Unwanted
  BY <1>2, <1>4, <1>6 DEF Unwanted
<1>8. \A n : Named(n)' = Named(n)
  BY <1>4 DEF Named
<1>9. ASSUME NEW s, s.name # spec.name PROVE UserDiffers(s)' <=> UserDiffers(s)
  <2>1. Named(s.name) \in SUBSET DOMAIN users
    BY DEF Named
  <2>2. CASE Named(s.name) = {}
    BY <1>8, <2>2 DEF UserDiffers
  <2>3. CASE Named(s.name) # {}
    <3>1. Lowest(Named(s.name)) \in Named(s.name)
      BY <2>1, <2>3, IdsAre, LowestIs DEF TypeInv
    <3>2. Lowest(Named(s.name)) \in DOMAIN users /\ Lowest(Named(s.name)) # found
      BY <1>4, <1>9, <3>1 DEF Named
    <3> QED
      BY <1>4, <1>8, <3>2 DEF UserDiffers
  <2> QED
    BY <2>2, <2>3
<1>10. UserDiffers(spec)
  <2>1. \A u \in Named(spec.name) : u = found
    BY <1>4 DEF TypeInv, TablesInv, Consistent, Named
  <2>2. Lowest(Named(spec.name)) = found
    <3>1. Named(spec.name) \in SUBSET Nat /\ Named(spec.name) # {}
      BY <1>2, IdsAre DEF Named, TypeInv
    <3> QED
      BY <2>1, <3>1, LowestIs
  <2> QED
    BY <1>2, <2>2 DEF UserDiffers
<1>11. UserMoves(1, 0)
  BY <1>1, <1>2, <1>3, <1>7, <1>9, <1>10, UserCounted
<1>12. SumKept
  <2>1. report' = report + 1 + 0
    BY <1>2, <1>3
  <2> QED
    BY <1>2, <1>3, <1>11, <2>1, PassedStays, UserTakenAlone
<1>13. ASSUME Foreseen PROVE Foreseen'
  <2>1. \A n : NodesOf(n)' = NodesOf(n)
    BY <1>2, NodesFrame
  <2>2. Supers \cap Unwanted = {} => Supers' \cap Unwanted' = {}
    <3>1. found \notin Unwanted
      BY <1>4, <1>6 DEF Unwanted
    <3> QED
      BY <1>4, <1>7, <3>1 DEF Supers, Unwanted
  <2>3. ASSUME NEW j \in DOMAIN file.users, file.users[j].perm = "superuser",
               NEW u \in Named(file.users[j].name), users[u].perm = "superuser"
        PROVE  u \in Named(file.users[j].name)' /\ users'[u].perm = "superuser"
    <3>1. CASE u = found
      <4>1. file.users[j].name = spec.name
        BY <1>4, <2>3, <3>1 DEF Named
      <4>2. spec.perm = "superuser"
        BY <1>5, <2>3, <4>1, ListedOnce
      <4> QED
        BY <1>2, <1>4, <1>8, <3>1, <4>2
    <3>2. CASE u # found
      BY <1>2, <1>4, <1>8, <2>3, <3>2 DEF Named
    <3> QED
      BY <3>1, <3>2
  <2>4. (\E j \in DOMAIN file.users : file.users[j].perm = "superuser" /\
           \E u \in Named(file.users[j].name) : users[u].perm = "superuser")
        => \E j \in DOMAIN file.users : file.users[j].perm = "superuser" /\
             \E u \in Named(file.users[j].name)' : users'[u].perm = "superuser"
    BY <2>3
  <2> QED
    BY <1>2, <1>13, <2>1, <2>2, <2>4 DEF Foreseen
<1> QED
  BY <1>12, <1>13

(* ListUsers lists the users that were due. *)
LEMMA ListUsersCounts ==
  ASSUME TypeInv, UsersHere, NodesHere, ListUsers
  PROVE  SumKept /\ (Foreseen => Foreseen')
<1>1. /\ pc = "users" /\ todo = <<>> /\ pc' = "purgeUsers"
      /\ UNCHANGED <<users, nodes, favs, file, todo, report>>
      /\ left' = IF file.purge.users THEN {[id |-> u, perm |-> users[u].perm] : u \in Unwanted}
                 ELSE {}
  BY DEF ListUsers, Goto, tables
<1>2. UsersAhead = {} /\ UsersAhead' = {}
  <2>1. Through(file.users) = Len(file.users) /\ DOMAIN file.users = 1 .. Len(file.users)
        /\ Len(file.users) \in Nat
    BY <1>1, AllThrough, FileIs, LenProperties
  <2> QED
    BY <1>1, <2>1 DEF UsersAhead, UserSteps
<1>3. {r.id : r \in left'} = UsersOut
  BY ListedForPurge
<1>4. UsersDue = UsersOut
  BY <1>1 DEF UsersDue, UsersOut, BeforeNodes, UserSteps
<1>5. UsersDue' = {r.id : r \in left'}
  BY <1>1 DEF UsersDue
<1>6. UserMoves(0, 0)
  BY <1>1, <1>2, <1>3, <1>4, <1>5, UsersNotTaken
<1>7. report' = report + 0 + 0
  BY <1>1 DEF TypeInv, CountInv
<1>8. SumKept
  BY <1>1, <1>6, <1>7, PassedStays, UserTakenAlone DEF BeforeNodes, UserSteps
<1> QED
  BY <1>1, <1>8, NodesFrame, ForeseenStays

(* No superuser is passed over if that could be foreseen: none is purged,  *)
(* or one that is listed stays.                                            *)
LEMMA NoneSkipped ==
  ASSUME TypeInv, Foreseen, NEW r \in Listed
  PROVE  ~(r.perm = "superuser" /\ Superusers <= 1)
<1> SUFFICES ASSUME r.perm = "superuser", Superusers <= 1 PROVE FALSE
  OBVIOUS
<1>1. r.id \in Unwanted /\ users[r.id].perm = "superuser"
  BY DEF Listed
<1>2. r.id \in Supers \cap Unwanted
  BY <1>1 DEF Supers, Unwanted
<1>3. Supers = {r.id}
  BY <1>2, FewSupers DEF Superusers, TypeInv
<1>4. PICK i \in DOMAIN file.users :
        \E u \in Named(file.users[i].name) : users[u].perm = "superuser"
  BY <1>2 DEF Foreseen
<1>5. PICK u \in Named(file.users[i].name) : users[u].perm = "superuser"
  BY <1>4
<1>6. u \in Supers /\ u \notin Unwanted
  BY <1>5 DEF Supers, Unwanted, Named, Names_
<1> QED
  BY <1>1, <1>3, <1>6

(* CountSuperusers counts a user in a dry run, and goes on to delete it in *)
(* another, or passes it over.                                             *)
LEMMA PurgeCounts ==
  ASSUME TypeInv, UsersHere, NodesHere, CountSuperusers
  PROVE  SumKept /\ (Foreseen => Foreseen')
<1>1. /\ pc = "purgeUsers" /\ UNCHANGED <<users, nodes, favs, file, todo, dry>>
      /\ left \subseteq Listed /\ report \in Nat /\ passed \in Nat
  BY DEF CountSuperusers, tables, UsersHere, DueListed, TypeInv, CountInv
<1>2. PICK r \in left, failed \in BOOLEAN :
        LET skip == r.perm = "superuser" /\ (failed \/ Superusers <= 1)
        IN /\ found' = r.id /\ left' = left \ {r}
           /\ pc' = (IF skip \/ dry THEN "purgeUsers" ELSE "deleteUser")
           /\ report' = report + (IF dry /\ ~skip THEN 1 ELSE 0)
           /\ passed' = passed + (IF skip THEN 1 ELSE 0)
  BY DEF CountSuperusers, Count, Goto, Pass
<1>3. {q.id : q \in left \ {r}} = {q.id : q \in left} \ {r.id}
  BY <1>1, TakenFromList
<1>4. UserGaps(UsersAhead) = {} /\ UserGaps(UsersAhead)' = {}
  BY <1>1, <1>2 DEF UserGaps, UsersAhead, UserSteps
<1>5. UsersDue = {q.id : q \in left}
  BY <1>1 DEF UsersDue
<1>6. PICK n \in {0, 1} : n = IF pc' = "purgeUsers" THEN 1 ELSE 0
  OBVIOUS
<1>7. report' + passed' = report + passed + (0 + n + 0 + 0 + 0 + 0)
      /\ report' \in Nat /\ passed' \in Nat
  BY <1>1, <1>2, <1>6
<1>8. UserMoves(0, n)
  <2>1. CASE pc' = "purgeUsers"
    <3>1. UsersDue' = {q.id : q \in left} \ {r.id}
      BY <1>2, <1>3, <2>1 DEF UsersDue
    <3> QED
      BY <1>4, <1>5, <1>6, <2>1, <3>1 DEF UserMoves, Loses
  <2>2. CASE pc' # "purgeUsers"
    <3>1. UsersDue' = ({q.id : q \in left} \ {r.id}) \cup {r.id}
      BY <1>2, <1>3, <2>2 DEF UsersDue
    <3>2. UsersDue' = UsersDue
      BY <1>2, <1>5, <3>1
    <3> QED
      BY <1>4, <1>6, <2>2, <3>2 DEF UserMoves, Loses
  <2> QED
    BY <2>1, <2>2
<1>9. NodeMoves(0, 0) /\ FavMoves(0, 0)
  BY <1>1, <1>2, NodesWait DEF BeforeNodes
<1>10. SumKept
  BY <1>7, <1>8, <1>9, CountedIsTaken
<1> QED
  BY <1>1, <1>10, NodesFrame, ForeseenStays

(* ApplyDeleteUser deletes one that was listed. *)
LEMMA DeleteUserCounts ==
  ASSUME TypeInv, UsersHere, NodesHere, ApplyDeleteUser
  PROVE  SumKept /\ (Foreseen => Foreseen')
<1>1. /\ pc = "deleteUser" /\ pc' = "purgeUsers" /\ UNCHANGED <<nodes, favs, file, todo, left>>
      /\ users' = Without(users, {found}) /\ report' = report + 1 /\ report \in Nat
      /\ found \in Unwanted /\ [id |-> found, perm |-> users[found].perm] \notin left
      /\ left \subseteq Listed
  BY DEF ApplyDeleteUser, place, Goto, Count, UsersHere, DueListed, TypeInv, CountInv
<1>2. UserGaps(UsersAhead) = {} /\ UserGaps(UsersAhead)' = {}
  BY <1>1 DEF UsersAhead, UserSteps, UserGaps
<1>3. UsersDue = {r.id : r \in left} \cup {found} /\ UsersDue' = {r.id : r \in left}
  BY <1>1 DEF UsersDue
<1>4. found \notin {r.id : r \in left}
  BY <1>1 DEF Listed
<1>5. UserMoves(0, 1)
  BY <1>2, <1>3, <1>4 DEF UserMoves, Loses
<1>6. report' = report + 0 + 1
  BY <1>1
<1>7. SumKept
  BY <1>1, <1>5, <1>6, PassedStays, UserTakenAlone DEF BeforeNodes
<1>8. ASSUME Foreseen PROVE Foreseen'
  <2>1. \A n : NodesOf(n)' = NodesOf(n)
    BY <1>1, NodesFrame
  <2>2. DOMAIN users' = DOMAIN users \ {found} /\ \A u \in DOMAIN users' : users'[u] = users[u]
    BY <1>1 DEF Without
  <2>3. Supers \cap Unwanted = {} => Supers' \cap Unwanted' = {}
    BY <1>1, <2>2 DEF Supers, Unwanted
  <2>4. ASSUME NEW j \in DOMAIN file.users, NEW u \in Named(file.users[j].name)
        PROVE  u \in Named(file.users[j].name)' /\ users'[u] = users[u]
    <3>1. u # found
      BY <1>1 DEF Unwanted, Named, Names_
    <3> QED
      BY <1>1, <2>2, <3>1 DEF Named
  <2>5. (\E j \in DOMAIN file.users : file.users[j].perm = "superuser" /\
           \E u \in Named(file.users[j].name) : users[u].perm = "superuser")
        => \E j \in DOMAIN file.users : file.users[j].perm = "superuser" /\
             \E u \in Named(file.users[j].name)' : users'[u].perm = "superuser"
    BY <2>4
  <2> QED
    BY <1>1, <1>8, <2>1, <2>3, <2>5 DEF Foreseen
<1> QED
  BY <1>7, <1>8

(* ToNodes finds no user due. *)
LEMMA ToNodesCounts ==
  ASSUME TypeInv, UsersHere, NodesHere, ToNodes
  PROVE  SumKept /\ (Foreseen => Foreseen')
<1>1. /\ pc = "purgeUsers" /\ left = {} /\ pc' = "nodes" /\ todo' = file.nodes
      /\ UNCHANGED <<users, nodes, favs, file, report>>
  BY DEF ToNodes, Goto, tables
<1>2. Through(file.nodes)' = 0 /\ DOMAIN file.nodes = 1 .. Len(file.nodes)
  BY <1>1, FileIs, LenProperties DEF Through
<1>3. UserMoves(0, 0)
  <2>1. UserGaps(UsersAhead) = {} /\ UserGaps(UsersAhead)' = {}
    BY <1>1 DEF UsersAhead, UserSteps, UserGaps
  <2>2. UsersDue = {} /\ UsersDue' = {}
    BY <1>1 DEF UsersDue, BeforeNodes, UserSteps
  <2> QED
    BY <2>1, <2>2 DEF UserMoves, Loses
<1>4. NodesAhead = DOMAIN file.nodes /\ NodesAhead' = DOMAIN file.nodes
  BY <1>1, <1>2 DEF NodesAhead, BeforeNodes
<1>5. /\ FavsAhead = {p \in FavPlaces : p[1] \in DOMAIN file.nodes}
      /\ FavsAhead' = {p \in FavPlaces : p[1] \in DOMAIN file.nodes}
  BY <1>1, <1>4 DEF FavsAhead, FavPlaces, AtFavorites
<1>6. ListsAhead = DOMAIN file.nodes /\ ListsAhead' = DOMAIN file.nodes
  BY <1>1, <1>4 DEF ListsAhead, AtFavorites
<1>7. PICK A : A = DOMAIN file.nodes
  OBVIOUS
<1>8. StraysDue = Strays(A) /\ StraysDue' = Strays(A)'
  BY <1>1, <1>6, <1>7 DEF StraysDue, Strays
<1>9. NodesDue = NodesOut /\ NodesDue' = NodesOut'
  BY <1>1 DEF NodesDue
<1>10. NodeMoves(0, 0) /\ FavMoves(0, 0)
  BY <1>1, <1>4, <1>5, <1>8, <1>9, GapsFrame, NodesNotTaken
<1>11. /\ report' + passed' = report + passed + (0 + 0 + 0 + 0 + 0 + 0)
       /\ report' \in Nat /\ passed' \in Nat
  BY <1>1, PassedStays DEF TypeInv, CountInv
<1>12. SumKept
  BY <1>3, <1>10, <1>11, CountedIsTaken
<1> QED
  BY <1>1, <1>12, NodesFrame, ForeseenStays

-----------------------------------------------------------------------------
(* The nodes and favorites that are due *)

(* Comparing or writing one node leaves what the others differ in.         *)
LEMMA NodeTaken ==
  ASSUME file' = file, NEW A, A = NodesAhead, NEW i \in A, NodesAhead' = A \ {i},
         \A j \in A \ {i} : NodeDiffers(file.nodes[j])' <=> NodeDiffers(file.nodes[j]),
         NEW n, n = IF NodeDiffers(file.nodes[i]) THEN 1 ELSE 0
  PROVE  Loses(NodeGaps(NodesAhead), NodeGaps(NodesAhead)', n)
<1>1. NodeGaps(NodesAhead) = {j \in A : NodeDiffers(file.nodes[j])}
  BY DEF NodeGaps
<1>2. NodeGaps(NodesAhead)' = {j \in A \ {i} : NodeDiffers(file.nodes[j])'}
  BY DEF NodeGaps
<1>3. NodeGaps(NodesAhead)' = {j \in A \ {i} : NodeDiffers(file.nodes[j])}
  BY <1>2
<1>4. NodeGaps(NodesAhead)' = NodeGaps(NodesAhead) \ {i}
  BY <1>1, <1>3
<1>5. n = IF i \in NodeGaps(NodesAhead) THEN 1 ELSE 0
  BY <1>1
<1> QED
  BY <1>4, <1>5, OneTaken

(* A favorite in the file, at one of the places ahead.                     *)
FavDiffers(p) == ~FavThere(file.nodes[p[1]], file.nodes[p[1]].favs[p[2]])

(* The same of one favorite.                                               *)
LEMMA FavTaken ==
  ASSUME NEW P, P = FavsAhead, NEW q \in P, FavsAhead' = P \ {q},
         \A p \in P \ {q} : FavDiffers(p)' <=> FavDiffers(p),
         NEW n, n = IF FavDiffers(q) THEN 1 ELSE 0
  PROVE  Loses(FavGaps(FavsAhead), FavGaps(FavsAhead)', n)
<1>1. FavGaps(FavsAhead) = {p \in P : FavDiffers(p)}
  BY DEF FavGaps, FavDiffers
<1>2. FavGaps(FavsAhead)' = {p \in P \ {q} : FavDiffers(p)'}
  BY DEF FavGaps, FavDiffers
<1>3. FavGaps(FavsAhead)' = {p \in P \ {q} : FavDiffers(p)}
  BY <1>2
<1>4. FavGaps(FavsAhead)' = FavGaps(FavsAhead) \ {q}
  BY <1>1, <1>3
<1>5. n = IF q \in FavGaps(FavsAhead) THEN 1 ELSE 0
  BY <1>1
<1> QED
  BY <1>4, <1>5, OneTaken

(* No favorite is taken while those ahead stay as they differ.             *)
LEMMA NoFavTaken ==
  ASSUME NEW P, P = FavsAhead, FavsAhead' = P,
         \A p \in P : FavDiffers(p)' <=> FavDiffers(p)
  PROVE  Loses(FavGaps(FavsAhead), FavGaps(FavsAhead)', 0)
<1>1. FavGaps(FavsAhead) = {p \in P : FavDiffers(p)}
  BY DEF FavGaps, FavDiffers
<1>2. FavGaps(FavsAhead)' = {p \in P : FavDiffers(p)'}
  BY DEF FavGaps, FavDiffers
<1> QED
  BY <1>1, <1>2 DEF Loses

(* What is ahead when apply is at the node with position k + 1.            *)
AheadIs(k) ==
  /\ pc \in {"nodes", "createNode", "updateNode"} =>
       /\ NodesAhead = {i \in DOMAIN file.nodes : i > k} /\ ListsAhead = NodesAhead
       /\ FavsAhead = {p \in FavPlaces : p[1] > k} /\ StraysDue = Strays(ListsAhead)
  /\ pc \in FavSteps => NodesAhead = {i \in DOMAIN file.nodes : i > k + 1}
  /\ pc \in AtFavorites =>
       /\ ListsAhead = {i \in DOMAIN file.nodes : i > k + 1 \/ i = k + 1}
       /\ FavsAhead = {p \in FavPlaces :
                         p[1] > k + 1 \/ (p[1] = k + 1 /\ p[2] > ThroughFavs)}
       /\ StraysDue = Strays(ListsAhead)
  /\ pc = "purgeFavs" =>
       /\ ListsAhead = NodesAhead /\ StraysDue = Strays(ListsAhead) \cup left
       /\ FavsAhead = {p \in FavPlaces : p[1] > k + 1}
  /\ pc \in NodeSteps => NodesDue = NodesOut
AheadKnown == \A k : k = Through(file.nodes) => AheadIs(k)

(* It follows from where apply is. *)
LEMMA AheadNow == AheadKnown
<1> SUFFICES ASSUME NEW k, k = Through(file.nodes) PROVE AheadIs(k)
  BY DEF AheadKnown
<1>1. \A p \in FavPlaces : p[1] \in DOMAIN file.nodes
  BY DEF FavPlaces
<1>2. ASSUME pc \in {"nodes", "createNode", "updateNode"}
      PROVE  NodesAhead = {i \in DOMAIN file.nodes : i > k} /\ ListsAhead = NodesAhead
             /\ FavsAhead = {p \in FavPlaces : p[1] > k} /\ StraysDue = Strays(ListsAhead)
  <2>1. NodesAhead = {i \in DOMAIN file.nodes : i > k}
    BY <1>2 DEF NodesAhead, BeforeNodes, UserSteps, FavSteps
  <2>2. ListsAhead = NodesAhead
    BY <1>2 DEF ListsAhead, AtFavorites, NodesAhead
  <2>3. FavsAhead = {p \in FavPlaces : p[1] > k}
    BY <1>1, <1>2, <2>1 DEF FavsAhead, AtFavorites
  <2> QED
    BY <1>2, <2>1, <2>2, <2>3 DEF StraysDue
<1>3. ASSUME pc \in FavSteps
      PROVE  NodesAhead = {i \in DOMAIN file.nodes : i > k + 1}
  BY <1>3 DEF NodesAhead, BeforeNodes, UserSteps, FavSteps
<1>4. ASSUME pc \in AtFavorites
      PROVE  /\ ListsAhead = {i \in DOMAIN file.nodes : i > k + 1 \/ i = k + 1}
             /\ FavsAhead = {p \in FavPlaces :
                                p[1] > k + 1 \/ (p[1] = k + 1 /\ p[2] > ThroughFavs)}
             /\ StraysDue = Strays(ListsAhead)
  <2>1. NodesAhead = {i \in DOMAIN file.nodes : i > k + 1}
    BY <1>3, <1>4 DEF AtFavorites, FavSteps
  <2>2. ListsAhead = {i \in DOMAIN file.nodes : i > k + 1 \/ i = k + 1}
    BY <1>4, <2>1 DEF ListsAhead
  <2>3. FavsAhead = {p \in FavPlaces : p[1] > k + 1 \/ (p[1] = k + 1 /\ p[2] > ThroughFavs)}
    BY <1>1, <1>4, <2>1 DEF FavsAhead
  <2> QED
    BY <1>4, <2>2, <2>3 DEF StraysDue, AtFavorites
<1>5. ASSUME pc = "purgeFavs"
      PROVE  /\ ListsAhead = NodesAhead /\ StraysDue = Strays(ListsAhead) \cup left
             /\ FavsAhead = {p \in FavPlaces : p[1] > k + 1}
  <2>1. NodesAhead = {i \in DOMAIN file.nodes : i > k + 1}
    BY <1>3, <1>5 DEF FavSteps
  <2>2. ListsAhead = NodesAhead
    BY <1>5 DEF ListsAhead, AtFavorites, NodesAhead
  <2>3. FavsAhead = {p \in FavPlaces : p[1] > k + 1}
    BY <1>1, <1>5, <2>1 DEF FavsAhead, AtFavorites
  <2> QED
    BY <1>5, <2>1, <2>2, <2>3 DEF StraysDue
<1>6. pc \in NodeSteps => NodesDue = NodesOut
  BY DEF NodesDue, NodeSteps
<1> QED
  BY <1>2, <1>3, <1>4, <1>5, <1>6 DEF AheadIs

(* So it does after a step. *)
LEMMA AheadNext == AheadKnown'
BY AheadNow, PTL

(* A step changes nothing about an entry of the file.                      *)
StraysOf(t) == {g \in DOMAIN favs : Stray(g, t)}
EntrySame(t) ==
  /\ NodeDiffers(t)' <=> NodeDiffers(t)
  /\ StraysOf(t)' = StraysOf(t)
  /\ \A j \in DOMAIN t.favs : FavThere(t, t.favs[j])' <=> FavThere(t, t.favs[j])
OthersSame(k) == \A i \in DOMAIN file.nodes : \A t : i # k + 1 /\ t = file.nodes[i] => EntrySame(t)

(* Nothing changes about any while the tables stay.                        *)
LEMMA StillSame ==
  ASSUME UNCHANGED <<nodes, favs, file>>
  PROVE  \A t : EntrySame(t)
<1> SUFFICES ASSUME NEW t PROVE EntrySame(t)
  OBVIOUS
<1>1. NodesOf(t.number)' = NodesOf(t.number) /\ TheNode(t)' = TheNode(t)
  BY NodesFrame
<1>2. NodeDiffers(t)' <=> NodeDiffers(t)
  BY <1>1 DEF NodeDiffers
<1>3. StraysOf(t)' = StraysOf(t)
  BY <1>1 DEF StraysOf, Stray
<1>4. \A x, f : FavDone(x, f)' <=> FavDone(x, f)
  <2>1. \A x, n : FavsAt(x, n)' = FavsAt(x, n)
    BY NodesFrame
  <2> QED
    BY <2>1 DEF FavDone
<1>5. ASSUME NEW f PROVE FavThere(t, f)' <=> FavThere(t, f)
  <2>1. PICK x : x = TheNode(t)
    OBVIOUS
  <2>2. FavDone(TheNode(t), f)' <=> FavDone(x, f)'
    BY <1>1, <2>1
  <2> QED
    BY <1>1, <1>4, <2>1, <2>2 DEF FavThere
<1> QED
  BY <1>2, <1>3, <1>5 DEF EntrySame

(* Nor about one whose nodes and favorites are left alone.                 *)
LEMMA SparedSame ==
  ASSUME TablesInv, NEW t, Spares(t.number)
  PROVE  EntrySame(t)
<1>1. NodesOf(t.number)' = NodesOf(t.number) /\ TheNode(t)' = TheNode(t)
  BY DEF Spares, TheNode
<1>2. CASE NodesOf(t.number) = {}
  <2>1. NodeDiffers(t)' <=> NodeDiffers(t)
    BY <1>1, <1>2 DEF NodeDiffers
  <2>2. StraysOf(t)' = StraysOf(t)
    BY <1>1, <1>2 DEF StraysOf, Stray
  <2>3. \A f : ~FavThere(t, f) /\ ~FavThere(t, f)'
    BY <1>1, <1>2 DEF FavThere
  <2> QED
    BY <2>1, <2>2, <2>3 DEF EntrySame
<1>3. CASE NodesOf(t.number) # {}
  <2>1. PICK x : x = TheNode(t)
    OBVIOUS
  <2>2. x \in NodesOf(t.number) /\ x \in DOMAIN nodes
    BY <1>3, <2>1, IdsAre, LowestIs DEF TheNode, NodesOf
  <2>3. nodes'[x] = nodes[x] /\ FavsOf(x)' = FavsOf(x) /\ \A f \in FavsOf(x) : favs'[f] = favs[f]
    BY <2>2 DEF Spares
  <2>4. NodeDiffers(t)' <=> NodeDiffers(t)
    BY <1>1, <1>3, <2>1, <2>3 DEF NodeDiffers
  <2>5. StraysOf(t)' = StraysOf(t)
    <3>1. StraysOf(t) = {g \in FavsOf(x) : favs[g].number \notin Numbers_(t.favs)}
      BY <1>3, <2>1 DEF StraysOf, Stray, FavsOf
    <3>2. StraysOf(t)' = {g \in FavsOf(x)' : favs'[g].number \notin Numbers_(t.favs)}
      BY <1>1, <1>3, <2>1 DEF StraysOf, Stray, FavsOf
    <3> QED
      BY <2>3, <3>1, <3>2
  <2>6. ASSUME NEW f PROVE FavDone(x, f)' <=> FavDone(x, f)
    <3>1. FavsAt(x, f.number)' = FavsAt(x, f.number) /\ FavsAt(x, f.number) \subseteq FavsOf(x)
      BY <2>3 DEF FavsAt
    <3>2. FavsAt(x, f.number) # {} => Lowest(FavsAt(x, f.number)) \in FavsAt(x, f.number)
      BY FavsAtAre, LowestIs
    <3> QED
      BY <2>3, <3>1, <3>2 DEF FavDone
  <2>7. ASSUME NEW f PROVE FavThere(t, f)' <=> FavThere(t, f)
    <3>1. FavDone(TheNode(t), f)' <=> FavDone(x, f)'
      BY <1>1, <2>1
    <3> QED
      BY <1>1, <2>1, <2>6, <3>1 DEF FavThere
  <2> QED
    BY <2>4, <2>5, <2>7 DEF EntrySame
<1> QED
  BY <1>2, <1>3

(* A place in the lists of favorites.                                      *)
LEMMA PlaceIs ==
  /\ \A p \in FavPlaces : p = <<p[1], p[2]>> /\ p[1] \in DOMAIN file.nodes
                          /\ p[2] \in DOMAIN file.nodes[p[1]].favs
  /\ \A i \in DOMAIN file.nodes : \A j \in DOMAIN file.nodes[i].favs : <<i, j>> \in FavPlaces
BY DEF FavPlaces

(* What a step leaves of entries about which nothing changes.              *)
LEMMA SameGaps ==
  ASSUME file' = file, NEW k, OthersSame(k)
  PROVE  /\ \A i \in DOMAIN file.nodes : i # k + 1 =>
              (NodeDiffers(file.nodes[i])' <=> NodeDiffers(file.nodes[i]))
         /\ \A p \in FavPlaces : p[1] # k + 1 => (FavDiffers(p)' <=> FavDiffers(p))
         /\ \A A \in SUBSET DOMAIN file.nodes :
              (\A i \in A : i = k + 1 => StraysOf(file.nodes[i])' = StraysOf(file.nodes[i]))
              => Strays(A)' = Strays(A)
<1>1. ASSUME NEW i \in DOMAIN file.nodes, i # k + 1
      PROVE  /\ NodeDiffers(file.nodes[i])' <=> NodeDiffers(file.nodes[i])
             /\ StraysOf(file.nodes[i])' = StraysOf(file.nodes[i])
             /\ \A j \in DOMAIN file.nodes[i].favs :
                  FavDiffers(<<i, j>>)' <=> FavDiffers(<<i, j>>)
  <2>1. PICK t : t = file.nodes[i]
    OBVIOUS
  <2>2. EntrySame(t) /\ t = file'.nodes[i]
    BY <1>1, <2>1 DEF OthersSame
  <2>3. NodeDiffers(file.nodes[i])' <=> NodeDiffers(file.nodes[i])
    BY <2>1, <2>2 DEF EntrySame
  <2>4. StraysOf(file.nodes[i])' = StraysOf(file.nodes[i])
    BY <2>1, <2>2 DEF EntrySame
  <2>5. ASSUME NEW j \in DOMAIN t.favs
        PROVE  FavDiffers(<<i, j>>)' <=> FavDiffers(<<i, j>>)
    <3>1. FavDiffers(<<i, j>>) <=> ~FavThere(t, t.favs[j])
      BY <2>1 DEF FavDiffers
    <3>2. FavDiffers(<<i, j>>)' <=> ~FavThere(t, t.favs[j])'
      BY <2>2 DEF FavDiffers
    <3> QED
      BY <2>2, <3>1, <3>2 DEF EntrySame
  <2> QED
    BY <2>1, <2>3, <2>4, <2>5
<1>2. ASSUME NEW p \in FavPlaces, p[1] # k + 1 PROVE FavDiffers(p)' <=> FavDiffers(p)
  <2>1. PICK i, j : p = <<i, j>> /\ i \in DOMAIN file.nodes /\ j \in DOMAIN file.nodes[i].favs
    BY PlaceIs
  <2>2. i # k + 1
    BY <1>2, <2>1
  <2> QED
    BY <1>1, <2>1, <2>2
<1>3. ASSUME NEW A \in SUBSET DOMAIN file.nodes,
             \A i \in A : i = k + 1 => StraysOf(file.nodes[i])' = StraysOf(file.nodes[i])
      PROVE  Strays(A)' = Strays(A)
  <2>1. Strays(A) = {g \in UNION {StraysOf(file.nodes[i]) : i \in A} : file.purge.favs}
    BY DEF Strays, StraysOf
  <2>2. Strays(A)' = {g \in UNION {StraysOf(file.nodes[i])' : i \in A} : file.purge.favs}
    BY DEF Strays, StraysOf
  <2>3. \A i \in A : StraysOf(file.nodes[i])' = StraysOf(file.nodes[i])
    BY <1>1, <1>3
  <2> QED
    BY <2>1, <2>2, <2>3
<1> QED
  BY <1>1, <1>2, <1>3

(* Where apply is in the list of nodes.                                    *)
LEMMA EntryHere ==
  ASSUME TypeInv, PlaceInv, pc \in NodeSteps, todo # <<>>
  PROVE  \E k \in Nat : \E s \in NodeSpec :
           /\ k = Through(file.nodes) /\ s = Head(todo) /\ s = file.nodes[k + 1]
           /\ k + 1 \in DOMAIN file.nodes /\ Len(file.nodes) - Len(Tail(todo)) = k + 1
           /\ DOMAIN file.nodes = 1 .. Len(file.nodes) /\ Len(file.nodes) \in Nat
           /\ s.favs \in Seq(FavSpec) /\ DOMAIN s.favs = 1 .. Len(s.favs) /\ Len(s.favs) \in Nat
<1>1. Through(file.nodes) + 1 \in DOMAIN file.nodes
      /\ DOMAIN file.nodes = 1 .. Len(file.nodes) /\ Len(file.nodes) \in Nat
  BY NodeAtHand, FileIs, LenProperties DEF PlaceInv
<1> QED
  BY <1>1, AtEntry

(* Nothing changes about the other entries while the nodes of other        *)
(* numbers and their favorites are left alone.                             *)
LEMMA OthersLeft ==
  ASSUME TypeInv, NoDuplicates, NEW k \in Nat, k + 1 \in DOMAIN file.nodes,
         \A n : n # file.nodes[k + 1].number => Spares(n)
  PROVE  OthersSame(k)
<1> SUFFICES ASSUME NEW i \in DOMAIN file.nodes, NEW t, i # k + 1, t = file.nodes[i]
             PROVE  EntrySame(t)
  BY DEF OthersSame
<1>1. t.number # file.nodes[k + 1].number
  BY ListedOnce
<1> QED
  BY <1>1, SparedSame DEF TypeInv

(* A step among the nodes that counts what it takes, and passes nothing    *)
(* over, keeps the sum.                                                    *)
LEMMA NodeTakenAlone ==
  ASSUME TypeInv, UsersHere, NodesHere,
         pc \in NodeSteps \cup {"purgeNodes"}, pc' \in NodeSteps \cup {"purgeNodes", "done"},
         passed' = passed,
         NEW c \in {0, 1}, NEW d \in {0, 1}, NEW e \in {0, 1}, NEW f \in {0, 1},
         NodeMoves(c, f), FavMoves(d, e), report' = report + c + d + e + f
  PROVE  SumKept
<1>1. /\ report' + passed' = report + passed + (0 + 0 + c + d + e + f)
      /\ report' \in Nat /\ passed' \in Nat
  BY DEF TypeInv, CountInv
<1>2. UserMoves(0, 0)
  BY UsersOver
<1> QED
  BY <1>1, <1>2, CountedIsTaken

(* Nothing of the nodes is taken while apply stays at the same entry.      *)
LEMMA NodesSame ==
  ASSUME UNCHANGED <<nodes, favs, file, todo>>,
         pc \in {"nodes", "createNode", "updateNode"},
         pc' \in {"nodes", "createNode", "updateNode"}
  PROVE  NodeMoves(0, 0) /\ FavMoves(0, 0)
<1>1. PICK k, A, P : k = Through(file.nodes) /\ A = NodesAhead /\ P = FavsAhead
  OBVIOUS
<1>2. k = Through(file.nodes)'
  BY <1>1 DEF Through
<1>3. AheadIs(k) /\ AheadIs(k)'
  BY <1>1, <1>2, AheadNow, AheadNext DEF AheadKnown
<1>4. FavPlaces' = FavPlaces
  BY DEF FavPlaces
<1>5. /\ A = {i \in DOMAIN file.nodes : i > k} /\ NodesAhead' = A
      /\ P = {p \in FavPlaces : p[1] > k} /\ FavsAhead' = P
      /\ ListsAhead = A /\ ListsAhead' = A
      /\ StraysDue = Strays(ListsAhead) /\ StraysDue' = Strays(ListsAhead)'
      /\ NodesDue = NodesOut /\ NodesDue' = NodesOut'
  BY <1>1, <1>3, <1>4 DEF AheadIs, NodeSteps
<1>6. StraysDue = Strays(A) /\ StraysDue' = Strays(A)'
  BY <1>5 DEF Strays
<1> QED
  BY <1>1, <1>5, <1>6, GapsFrame, NodesNotTaken

(* LookNode counts, in a dry run, a node that differs, and passes over the *)
(* favorites of one that there is not.                                     *)
LEMMA LookNodeCounts ==
  ASSUME TypeInv, PlaceInv, UsersHere, NodesHere, NoDuplicates, LookNode
  PROVE  SumKept /\ (Foreseen => Foreseen')
<1>1. /\ pc = "nodes" /\ todo # <<>> /\ UNCHANGED <<users, nodes, favs, file, left, dry>>
      /\ pc \in NodeSteps /\ report \in Nat /\ passed \in Nat
  BY DEF LookNode, tables, NodeSteps, TypeInv, CountInv
<1>2. PICK k \in Nat, s \in NodeSpec :
           /\ k = Through(file.nodes) /\ s = Head(todo) /\ s = file.nodes[k + 1]
           /\ k + 1 \in DOMAIN file.nodes /\ Len(file.nodes) - Len(Tail(todo)) = k + 1
           /\ DOMAIN file.nodes = 1 .. Len(file.nodes) /\ Len(file.nodes) \in Nat
           /\ s.favs \in Seq(FavSpec) /\ DOMAIN s.favs = 1 .. Len(s.favs) /\ Len(s.favs) \in Nat
  BY <1>1, EntryHere
<1>3. Foreseen => Foreseen'
  BY <1>1, NodesFrame, ForeseenStays
<1>4. AheadIs(k)
  BY <1>2, AheadNow DEF AheadKnown
<1>5. PICK A, P : A = NodesAhead /\ P = FavsAhead
  OBVIOUS
<1>6. /\ A = {i \in DOMAIN file.nodes : i > k} /\ P = {p \in FavPlaces : p[1] > k}
      /\ ListsAhead = A /\ StraysDue = Strays(A) /\ NodesDue = NodesOut
  BY <1>1, <1>4, <1>5 DEF AheadIs
<1>7. FavPlaces' = FavPlaces /\ NodesOut' = NodesOut
  BY <1>1, GapsFrame DEF FavPlaces
<1>8. /\ \A i \in A : NodeDiffers(file.nodes[i])' <=> NodeDiffers(file.nodes[i])
      /\ \A p \in P : FavDiffers(p)' <=> FavDiffers(p)
  <2>1. \A t : EntrySame(t)
    BY <1>1, StillSame
  <2>2. A \subseteq DOMAIN file.nodes /\ P \subseteq FavPlaces
    BY <1>6
  <2>3. OthersSame(k) /\ OthersSame(k + 1)
    BY <2>1 DEF OthersSame
  <2>4. /\ \A i \in DOMAIN file.nodes :
             (NodeDiffers(file.nodes[i])' <=> NodeDiffers(file.nodes[i]))
        /\ \A p \in FavPlaces : FavDiffers(p)' <=> FavDiffers(p)
    <3>1. \A i : i # k + 1 \/ i # (k + 1) + 1
      OBVIOUS
    <3> QED
      BY <1>1, <2>3, <3>1, SameGaps
  <2> QED
    BY <2>2, <2>4
<1>9. k + 1 \in A /\ A \ {k + 1} = {i \in DOMAIN file.nodes : i > k + 1}
  BY <1>2, <1>6
<1>10. CASE NodesOf(s.number) = {} /\ dry
  <2>1. /\ todo' = Tail(todo) /\ pc' = "nodes"
        /\ report' = report + 1 /\ passed' = passed + Len(s.favs)
    BY <1>1, <1>2, <1>10 DEF LookNode, Count, Pass
  <2>2. k + 1 = Through(file.nodes)'
    BY <1>1, <1>2, <2>1 DEF Through
  <2>3. AheadIs(k + 1)'
    BY <2>2, AheadNext DEF AheadKnown
  <2>4. /\ NodesAhead' = A \ {k + 1} /\ FavsAhead' = {p \in FavPlaces : p[1] > k + 1}
        /\ ListsAhead' = A \ {k + 1} /\ StraysDue' = Strays(ListsAhead)' /\ NodesDue' = NodesOut'
    BY <1>1, <1>7, <1>9, <2>1, <2>3 DEF AheadIs, NodeSteps
  <2>5. PICK Q : Q = {p \in FavPlaces : p[1] = k + 1}
    OBVIOUS
  <2>6. FavsAhead' = P \ Q
    <3>1. \A p \in FavPlaces : p[1] \in Nat
      BY <1>2, PlaceIs
    <3> QED
      BY <1>2, <1>6, <2>4, <2>5, <3>1
  <2>7. NodeMoves(1, 0)
    <3>1. NodeDiffers(file.nodes[k + 1])
      BY <1>2, <1>10 DEF NodeDiffers
    <3>2. Loses(NodeGaps(NodesAhead), NodeGaps(NodesAhead)', 1)
      BY <1>1, <1>5, <1>8, <1>9, <2>4, <3>1, NodeTaken
    <3> QED
      BY <1>6, <1>7, <2>4, <3>2 DEF NodeMoves, Loses
  <2>8. Strays(A \ {k + 1}) = Strays(A)
    <3>1. \A g : ~ Stray(g, file.nodes[k + 1])
      BY <1>2, <1>10 DEF Stray
    <3> QED
      BY <3>1 DEF Strays
  <2>9. Cardinality(Q) = Len(s.favs)
    <3> DEFINE g == [j \in 1 .. Len(s.favs) |-> <<k + 1, j>>]
    <3>1. \A p \in Q : \E j \in 1 .. Len(s.favs) : p = <<k + 1, j>>
      BY <1>2, <2>5, PlaceIs
    <3>2. \A j \in 1 .. Len(s.favs) : <<k + 1, j>> \in Q
      BY <1>2, <2>5, PlaceIs
    <3>3. g \in Bijection(1 .. Len(s.favs), Q)
      <4>1. g \in [1 .. Len(s.favs) -> Q]
        BY <3>2
      <4>2. \A i, j \in 1 .. Len(s.favs) : g[i] = g[j] => i = j
        OBVIOUS
      <4>3. ASSUME NEW p \in Q PROVE \E j \in 1 .. Len(s.favs) : g[j] = p
        <5>1. PICK j \in 1 .. Len(s.favs) : p = <<k + 1, j>>
          BY <3>1
        <5>2. g[j] = p
          BY <5>1
        <5> QED
          BY <5>2
      <4> HIDE DEF g
      <4>4. g \in Injection(1 .. Len(s.favs), Q)
        BY <4>1, <4>2 DEF Injection, IsInjective
      <4>5. g \in Surjection(1 .. Len(s.favs), Q)
        BY <4>1, <4>3 DEF Surjection
      <4> QED
        BY <4>4, <4>5 DEF Bijection
    <3>4. ExistsBijection(1 .. Len(s.favs), Q)
      BY <3>3 DEF ExistsBijection
    <3> QED
      BY <1>2, <3>4, FS_CountingElements
  <2>10. FavMoves(Len(s.favs), 0)
    <3>1. Q \subseteq P /\ \A p \in Q : FavDiffers(p)
      BY <1>2, <1>6, <1>10, <2>5 DEF FavDiffers, FavThere
    <3>2. FavGaps(FavsAhead) = {p \in P : FavDiffers(p)}
      BY <1>5 DEF FavGaps, FavDiffers
    <3>3. FavGaps(FavsAhead)' = {p \in P \ Q : FavDiffers(p)'}
      BY <2>6 DEF FavGaps, FavDiffers
    <3>4. FavGaps(FavsAhead)' = FavGaps(FavsAhead) \ Q /\ Q \subseteq FavGaps(FavsAhead)
      BY <1>8, <3>1, <3>2, <3>3
    <3>5. Loses(FavGaps(FavsAhead), FavGaps(FavsAhead)', Len(s.favs))
      BY <2>9, <3>4 DEF Loses
    <3>6. StraysDue' = Strays(A \ {k + 1})'
      BY <2>4 DEF Strays
    <3> QED
      BY <1>1, <1>6, <2>8, <3>5, <3>6, GapsFrame DEF FavMoves, Loses
  <2>11. UserMoves(0, 0)
    BY <1>1, <2>1, UsersOver
  <2>12. PICK n \in Nat : n = Len(s.favs)
    BY <1>2
  <2>13. /\ report' + passed' = report + passed + (0 + 0 + 1 + n + 0 + 0)
         /\ report' \in Nat /\ passed' \in Nat
    <3>1. report' = report + 1 /\ passed' = passed + n
      BY <2>1, <2>12
    <3>2. n \in Nat /\ report \in Nat /\ passed \in Nat
      BY <1>1
    <3>3. 0 + 0 + 1 + n + 0 + 0 = 1 + n
      BY <3>2
    <3>4. report' + passed' = report + passed + (1 + n)
      BY <3>1, <3>2
    <3> QED
      BY <3>1, <3>2, <3>3, <3>4
  <2>14. FavMoves(n, 0)
    BY <2>10, <2>12
  <2>15. SumKept
    BY <2>7, <2>11, <2>13, <2>14, CountedIsTaken
  <2> QED
    BY <1>3, <2>15
<1>11. CASE pc' \in {"createNode", "updateNode"}
  <2>1. UNCHANGED <<todo, report, passed>>
    BY <1>1, <1>11 DEF LookNode, Goto, Count
  <2>2. NodeMoves(0, 0) /\ FavMoves(0, 0)
    BY <1>1, <1>11, <2>1, NodesSame
  <2>3. report' = report + 0 + 0 + 0 + 0
    BY <1>1, <2>1
  <2> QED
    BY <1>1, <1>3, <1>11, <2>1, <2>2, <2>3, NodeTakenAlone DEF NodeSteps
<1>12. CASE pc' = "favs"
  <2>1. /\ UNCHANGED <<todo, passed>> /\ favTodo' = s.favs /\ NodesOf(s.number) # {}
        /\ NodeChanged(Lowest(NodesOf(s.number)), s) => dry
        /\ report' = report + (IF NodeChanged(Lowest(NodesOf(s.number)), s) /\ dry THEN 1 ELSE 0)
    BY <1>1, <1>2, <1>12 DEF LookNode, Goto, Count
  <2>2. report' = report + (IF NodeDiffers(s) THEN 1 ELSE 0)
    BY <2>1 DEF NodeDiffers, NodeChanged, TheNode
  <2>3. k = Through(file.nodes)' /\ ThroughFavs' = 0
    BY <1>1, <1>2, <2>1 DEF Through, ThroughFavs
  <2>4. AheadIs(k)'
    BY <2>3, AheadNext DEF AheadKnown
  <2>5. /\ NodesAhead' = A \ {k + 1} /\ NodesDue' = NodesOut'
        /\ FavsAhead' = {p \in FavPlaces : p[1] > k + 1 \/ (p[1] = k + 1 /\ p[2] > 0)}
        /\ ListsAhead' = {i \in DOMAIN file.nodes : i > k + 1 \/ i = k + 1}
        /\ StraysDue' = Strays(ListsAhead)'
    BY <1>1, <1>7, <1>9, <1>12, <2>3, <2>4 DEF AheadIs, FavSteps, AtFavorites, NodeSteps
  <2>6. ListsAhead' = A
    BY <1>2, <1>6, <2>5
  <2>7. FavsAhead' = P
    <3>1. \A p \in FavPlaces : p[1] \in DOMAIN file.nodes /\ (p[1] = k + 1 => p[2] > 0)
      BY <1>2, PlaceIs
    <3> QED
      BY <1>2, <1>6, <2>5, <3>1
  <2>8. PICK n \in {0, 1} : n = IF NodeDiffers(s) THEN 1 ELSE 0
    OBVIOUS
  <2>9. NodeMoves(n, 0)
    <3>1. A = NodesAhead /\ k + 1 \in A /\ NodesAhead' = A \ {k + 1} /\ file' = file
      BY <1>1, <1>5, <1>9, <2>5
    <3>2. \A j \in A \ {k + 1} : NodeDiffers(file.nodes[j])' <=> NodeDiffers(file.nodes[j])
      BY <1>8
    <3>3. n = IF NodeDiffers(file.nodes[k + 1]) THEN 1 ELSE 0
      BY <1>2, <2>8
    <3>4. Loses(NodeGaps(NodesAhead), NodeGaps(NodesAhead)', n)
      BY <3>1, <3>2, <3>3, NodeTaken
    <3> QED
      BY <1>6, <1>7, <2>5, <3>4 DEF NodeMoves, Loses
  <2>10. FavMoves(0, 0)
    <3>1. Loses(FavGaps(FavsAhead), FavGaps(FavsAhead)', 0)
      BY <1>5, <1>8, <2>7, NoFavTaken
    <3>2. StraysDue' = Strays(A)'
      BY <2>5, <2>6 DEF Strays
    <3> QED
      BY <1>1, <1>6, <3>1, <3>2, GapsFrame DEF FavMoves, Loses
  <2>11. report' = report + n + 0 + 0 + 0
    BY <1>1, <2>2, <2>8
  <2> QED
    BY <1>1, <1>3, <1>12, <2>1, <2>8, <2>9, <2>10, <2>11, NodeTakenAlone DEF NodeSteps
<1> QED
  BY <1>2, <1>10, <1>11, <1>12 DEF LookNode, Goto

(* ApplyCreateNode adds a node that is listed; the favorites listed with   *)
(* it are still to be created.                                             *)
LEMMA CreateNodeCounts ==
  ASSUME TypeInv, PlaceInv, UsersHere, NodesHere, NoDuplicates, ApplyCreateNode
  PROVE  SumKept /\ (Foreseen => Foreseen')
<1>1. /\ pc = "createNode" /\ todo # <<>> /\ UNCHANGED <<users, favs, file, todo>> /\ pc' = "favs"
      /\ favTodo' = Head(todo).favs /\ pc \in NodeSteps /\ report' = report + 1 /\ report \in Nat
      /\ nodes' = With(nodes, [number |-> Head(todo).number, data |-> Head(todo).data])
  BY DEF ApplyCreateNode, Goto, Count, TypeInv, WorkInv, CountInv, NodeSteps, UserSteps
<1>2. PICK k \in Nat, s \in NodeSpec :
           /\ k = Through(file.nodes) /\ s = Head(todo) /\ s = file.nodes[k + 1]
           /\ k + 1 \in DOMAIN file.nodes /\ Len(file.nodes) - Len(Tail(todo)) = k + 1
           /\ DOMAIN file.nodes = 1 .. Len(file.nodes) /\ Len(file.nodes) \in Nat
           /\ s.favs \in Seq(FavSpec) /\ DOMAIN s.favs = 1 .. Len(s.favs) /\ Len(s.favs) \in Nat
  BY <1>1, EntryHere
<1>3. /\ DOMAIN nodes' = DOMAIN nodes \cup {serial} /\ serial \notin DOMAIN nodes
      /\ nodes'[serial] = [number |-> s.number, data |-> s.data]
      /\ \A x \in DOMAIN nodes : nodes'[x] = nodes[x]
  BY <1>1, <1>2, IdsAre DEF With, TypeInv
<1>4. NodesOf(s.number) = {}
  BY <1>1, <1>2 DEF NodesHere
<1>5. OthersSame(k)
  <2>1. \A n : n # file.nodes[k + 1].number => Spares(n)
    BY <1>1, <1>2, <1>3 DEF Spares, NodesOf, FavsOf
  <2> QED
    BY <1>2, <2>1, OthersLeft
<1>6. Foreseen => Foreseen'
  <2>1. \A n : NodesOf(n) # {} => NodesOf(n)' # {}
    BY <1>3 DEF NodesOf
  <2> QED
    BY <1>1, <2>1, ForeseenStays
<1>7. k = Through(file.nodes)' /\ ThroughFavs' = 0
  BY <1>1, <1>2 DEF Through, ThroughFavs
<1>8. AheadIs(k) /\ AheadIs(k)'
  BY <1>2, <1>7, AheadNow, AheadNext DEF AheadKnown
<1>9. PICK A, P : A = NodesAhead /\ P = FavsAhead
  OBVIOUS
<1>10. /\ A = {i \in DOMAIN file.nodes : i > k} /\ P = {p \in FavPlaces : p[1] > k}
       /\ ListsAhead = A /\ StraysDue = Strays(A) /\ NodesDue = NodesOut
  BY <1>1, <1>8, <1>9 DEF AheadIs
<1>11. FavPlaces' = FavPlaces
  BY <1>1 DEF FavPlaces
<1>12. /\ NodesAhead' = {i \in DOMAIN file.nodes : i > k + 1} /\ NodesDue' = NodesOut'
       /\ FavsAhead' = {p \in FavPlaces : p[1] > k + 1 \/ (p[1] = k + 1 /\ p[2] > 0)}
       /\ ListsAhead' = {i \in DOMAIN file.nodes : i > k + 1 \/ i = k + 1}
       /\ StraysDue' = Strays(ListsAhead)'
  BY <1>1, <1>7, <1>8, <1>11 DEF AheadIs, FavSteps, AtFavorites, NodeSteps
<1>13. /\ k + 1 \in A /\ NodesAhead' = A \ {k + 1} /\ ListsAhead' = A
  BY <1>2, <1>10, <1>12
<1>14. \A g \in DOMAIN favs : favs[g].node # serial
  BY <1>3, RowsAre DEF TypeInv
<1>15. FavsAhead' = P
  <2>1. \A p \in FavPlaces : p[1] \in DOMAIN file.nodes /\ (p[1] = k + 1 => p[2] > 0)
    BY <1>2, PlaceIs
  <2> QED
    BY <1>2, <1>10, <1>12, <2>1
<1>16. NodeMoves(1, 0)
  <2>1. NodeDiffers(file.nodes[k + 1])
    BY <1>2, <1>4 DEF NodeDiffers
  <2>2. \A j \in A \ {k + 1} : NodeDiffers(file.nodes[j])' <=> NodeDiffers(file.nodes[j])
    BY <1>1, <1>5, <1>10, SameGaps
  <2>3. Loses(NodeGaps(NodesAhead), NodeGaps(NodesAhead)', 1)
    BY <1>1, <1>9, <1>13, <2>1, <2>2, NodeTaken
  <2>4. NodesOut' = NodesOut
    <3>1. s.number \in Numbers_(file.nodes)
      BY <1>2 DEF Numbers_
    <3> QED
      BY <1>1, <1>3, <3>1 DEF NodesOut
  <2> QED
    BY <1>10, <1>12, <2>3, <2>4 DEF NodeMoves, Loses
<1>17. NodesOf(s.number)' = {serial} /\ TheNode(s)' = serial
  <2>1. NodesOf(s.number)' = {serial}
    BY <1>3, <1>4 DEF NodesOf
  <2> QED
    BY <2>1, IdsAre DEF TheNode, Lowest, TypeInv
<1>18. FavMoves(0, 0)
  <2>1. ASSUME NEW p \in P PROVE FavDiffers(p)' <=> FavDiffers(p)
    <3>1. CASE p[1] # k + 1
      BY <1>1, <1>5, <1>10, <3>1, SameGaps
    <3>2. CASE p[1] = k + 1
      <4>1. FavDiffers(p)
        BY <1>2, <1>4, <3>2 DEF FavDiffers, FavThere
      <4>2. PICK f : f = s.favs[p[2]]
        OBVIOUS
      <4>3. ~FavDone(TheNode(s), f)'
        BY <1>1, <1>14, <1>17 DEF FavDone, FavsAt, FavsOf
      <4>4. s = file'.nodes[p[1]]
        BY <1>1, <1>2, <3>2
      <4>5. FavDiffers(p)'
        BY <4>2, <4>3, <4>4 DEF FavDiffers, FavThere
      <4> QED
        BY <4>1, <4>5
    <3> QED
      BY <3>1, <3>2
  <2>2. Loses(FavGaps(FavsAhead), FavGaps(FavsAhead)', 0)
    BY <1>9, <1>15, <2>1, NoFavTaken
  <2>3. StraysOf(s) = {}
    BY <1>4 DEF StraysOf, Stray
  <2>4. StraysOf(s)' = {}
    BY <1>1, <1>14, <1>17 DEF StraysOf, Stray
  <2>5. StraysOf(file.nodes[k + 1])' = StraysOf(file.nodes[k + 1])
    <3>1. s = file'.nodes[k + 1]
      BY <1>1, <1>2
    <3>2. StraysOf(file.nodes[k + 1])' = StraysOf(s)'
      BY <3>1 DEF StraysOf
    <3> QED
      BY <1>2, <2>3, <2>4, <3>2
  <2>6. Strays(A)' = Strays(A)
    BY <1>1, <1>5, <1>10, <2>5, SameGaps
  <2>7. StraysDue' = Strays(A)'
    BY <1>12, <1>13 DEF Strays
  <2> QED
    BY <1>10, <2>2, <2>6, <2>7 DEF FavMoves, Loses
<1>19. report' = report + 1 + 0 + 0 + 0
  BY <1>1
<1>20. SumKept
  BY <1>1, <1>16, <1>18, <1>19, PassedStays, NodeTakenAlone DEF NodeSteps
<1> QED
  BY <1>6, <1>20

(* The favorites differ in what they did while they and the nodes' numbers *)
(* stay.                                                                   *)
LEMMA FavsUntouched ==
  ASSUME UNCHANGED <<favs, file>>, \A n : NodesOf(n)' = NodesOf(n)
  PROVE  (\A p : FavDiffers(p)' <=> FavDiffers(p)) /\ (\A A : Strays(A)' = Strays(A))
<1>1. \A s : TheNode(s)' = TheNode(s)
  BY DEF TheNode
<1>2. \A x, f : FavDone(x, f)' <=> FavDone(x, f)
  BY DEF FavDone, FavsAt, FavsOf
<1>3. ASSUME NEW p PROVE FavDiffers(p)' <=> FavDiffers(p)
  <2>1. PICK t, f, x : t = file.nodes[p[1]] /\ f = t.favs[p[2]] /\ x = TheNode(t)
    OBVIOUS
  <2>2. FavDiffers(p) <=> ~(NodesOf(t.number) # {} /\ FavDone(x, f))
    BY <2>1 DEF FavDiffers, FavThere
  <2>3. TheNode(file.nodes[p[1]])' = x /\ NodesOf(file.nodes[p[1]].number)' = NodesOf(t.number)
    BY <1>1, <2>1 DEF TheNode
  <2>4. FavDiffers(p)' <=> ~(NodesOf(t.number) # {} /\ FavDone(x, f)')
    BY <2>1, <2>3 DEF FavDiffers, FavThere
  <2> QED
    BY <1>2, <2>2, <2>4
<1>4. \A g, s : Stray(g, s)' <=> Stray(g, s)
  BY <1>1 DEF Stray
<1>5. \A A : Strays(A)' = Strays(A)
  BY <1>4 DEF Strays
<1> QED
  BY <1>3, <1>5

(* ApplyUpdateNode sets the data of a node that is listed. *)
LEMMA UpdateNodeCounts ==
  ASSUME TypeInv, PlaceInv, UsersHere, NodesHere, NoDuplicates, ApplyUpdateNode
  PROVE  SumKept /\ (Foreseen => Foreseen')
<1>1. /\ pc = "updateNode" /\ todo # <<>> /\ UNCHANGED <<users, favs, file, todo, favTodo, nid>>
      /\ pc' = "favs" /\ pc \in NodeSteps /\ report' = report + 1 /\ report \in Nat
      /\ nodes' = Put(nodes, nid, [number |-> Head(todo).number, data |-> Head(todo).data])
  BY DEF ApplyUpdateNode, Goto, Count, place, TypeInv, WorkInv, CountInv, NodeSteps, UserSteps
<1>2. PICK k \in Nat, s \in NodeSpec :
           /\ k = Through(file.nodes) /\ s = Head(todo) /\ s = file.nodes[k + 1]
           /\ k + 1 \in DOMAIN file.nodes /\ Len(file.nodes) - Len(Tail(todo)) = k + 1
           /\ DOMAIN file.nodes = 1 .. Len(file.nodes) /\ Len(file.nodes) \in Nat
           /\ s.favs \in Seq(FavSpec) /\ DOMAIN s.favs = 1 .. Len(s.favs) /\ Len(s.favs) \in Nat
  BY <1>1, EntryHere
<1>3. /\ NodesOf(s.number) # {} /\ nid = TheNode(s) /\ favTodo = s.favs
      /\ nodes[nid].data # s.data
  BY <1>1, <1>2 DEF NodesHere
<1>4. nid \in NodesOf(s.number) /\ nid \in DOMAIN nodes /\ nodes[nid].number = s.number
  BY <1>3, IdsAre, LowestIs DEF TheNode, NodesOf, TypeInv
<1>5. /\ DOMAIN nodes' = DOMAIN nodes /\ nodes'[nid] = [number |-> s.number, data |-> s.data]
      /\ \A x \in DOMAIN nodes : x # nid => nodes'[x] = nodes[x]
  BY <1>1, <1>2, <1>4 DEF Put
<1>6. \A n : NodesOf(n)' = NodesOf(n)
  BY <1>4, <1>5 DEF NodesOf
<1>7. OthersSame(k)
  <2>1. \A n : n # file.nodes[k + 1].number => Spares(n)
    BY <1>1, <1>2, <1>4, <1>5, <1>6 DEF Spares, NodesOf, FavsOf
  <2> QED
    BY <1>2, <2>1, OthersLeft
<1>8. k = Through(file.nodes)' /\ ThroughFavs' = 0
  BY <1>1, <1>2, <1>3 DEF Through, ThroughFavs
<1>9. AheadIs(k) /\ AheadIs(k)'
  BY <1>2, <1>8, AheadNow, AheadNext DEF AheadKnown
<1>10. PICK A, P : A = NodesAhead /\ P = FavsAhead
  OBVIOUS
<1>11. /\ A = {i \in DOMAIN file.nodes : i > k} /\ P = {p \in FavPlaces : p[1] > k}
       /\ ListsAhead = A /\ StraysDue = Strays(A) /\ NodesDue = NodesOut
  BY <1>1, <1>9, <1>10 DEF AheadIs
<1>12. FavPlaces' = FavPlaces
  BY <1>1 DEF FavPlaces
<1>13. /\ NodesAhead' = {i \in DOMAIN file.nodes : i > k + 1} /\ NodesDue' = NodesOut'
       /\ FavsAhead' = {p \in FavPlaces : p[1] > k + 1 \/ (p[1] = k + 1 /\ p[2] > 0)}
       /\ ListsAhead' = {i \in DOMAIN file.nodes : i > k + 1 \/ i = k + 1}
       /\ StraysDue' = Strays(ListsAhead)'
  BY <1>1, <1>8, <1>9, <1>12 DEF AheadIs, FavSteps, AtFavorites, NodeSteps
<1>14. k + 1 \in A /\ NodesAhead' = A \ {k + 1} /\ ListsAhead' = A
  BY <1>2, <1>11, <1>13
<1>15. FavsAhead' = P
  <2>1. \A p \in FavPlaces : p[1] \in DOMAIN file.nodes /\ (p[1] = k + 1 => p[2] > 0)
    BY <1>2, PlaceIs
  <2> QED
    BY <1>2, <1>11, <1>13, <2>1
<1>16. NodeMoves(1, 0)
  <2>1. NodeDiffers(file.nodes[k + 1])
    BY <1>2, <1>3 DEF NodeDiffers
  <2>2. \A j \in A \ {k + 1} : NodeDiffers(file.nodes[j])' <=> NodeDiffers(file.nodes[j])
    BY <1>1, <1>7, <1>11, SameGaps
  <2>3. Loses(NodeGaps(NodesAhead), NodeGaps(NodesAhead)', 1)
    BY <1>1, <1>10, <1>14, <2>1, <2>2, NodeTaken
  <2>4. NodesOut' = NodesOut
    BY <1>1, <1>4, <1>5 DEF NodesOut
  <2> QED
    BY <1>11, <1>13, <2>3, <2>4 DEF NodeMoves, Loses
<1>17. FavMoves(0, 0)
  <2>1. Loses(FavGaps(FavsAhead), FavGaps(FavsAhead)', 0)
    BY <1>1, <1>6, <1>10, <1>15, FavsUntouched, NoFavTaken
  <2>2. StraysDue' = Strays(A)'
    BY <1>13, <1>14 DEF Strays
  <2> QED
    BY <1>1, <1>6, <1>11, <2>1, <2>2, FavsUntouched DEF FavMoves, Loses
<1>18. report' = report + 1 + 0 + 0 + 0
  BY <1>1
<1>19. SumKept
  BY <1>1, <1>16, <1>17, <1>18, PassedStays, NodeTakenAlone DEF NodeSteps
<1>20. Foreseen => Foreseen'
  BY <1>1, <1>6, ForeseenStays
<1> QED
  BY <1>19, <1>20

(* The favorite apply is at.                                               *)
LEMMA FavoriteHere ==
  ASSUME TypeInv, PlaceInv, pc \in FavSteps, favTodo # <<>>, NEW s, s = Head(todo)
  PROVE  \E m \in Nat : \E f \in FavSpec :
           /\ m = ThroughFavs /\ f = Head(favTodo) /\ f = s.favs[m + 1]
           /\ m + 1 \in 1 .. Len(s.favs) /\ Len(s.favs) - Len(Tail(favTodo)) = m + 1
<1>1. ThroughFavs + 1 \in 1 .. Len(s.favs)
  <2>1. Len(Head(todo).favs) \in Nat
    BY FileIs, LenProperties DEF FavSteps, NodeSteps
  <2>2. ThroughFavs \in 0 .. Len(s.favs) - 1
    BY FavoriteAtHand DEF PlaceInv
  <2> QED
    BY <2>1, <2>2
<1> QED
  BY <1>1, AtFavorite

(* What is ahead, with the favorite at hand dealt with.                    *)
LEMMA FavCounted ==
  ASSUME TypeInv, UsersHere, NodesHere, NEW k \in Nat, NEW s, NEW m \in Nat,
         k = Through(file.nodes), s = Head(todo), s = file.nodes[k + 1],
         k + 1 \in DOMAIN file.nodes, DOMAIN s.favs = 1 .. Len(s.favs), Len(s.favs) \in Nat,
         m = ThroughFavs, m + 1 \in 1 .. Len(s.favs), Len(s.favs) - Len(Tail(favTodo)) = m + 1,
         pc \in AtFavorites, pc' = "favs", favTodo' = Tail(favTodo),
         UNCHANGED <<nodes, file, todo, passed>>,
         \A p \in FavPlaces : p # <<k + 1, m + 1>> => (FavDiffers(p)' <=> FavDiffers(p)),
         \A A \in SUBSET DOMAIN file.nodes : Strays(A)' = Strays(A),
         NEW n \in {0, 1}, n = IF FavDiffers(<<k + 1, m + 1>>) THEN 1 ELSE 0,
         report' = report + n
  PROVE  SumKept
<1>1. k = Through(file.nodes)' /\ m + 1 = ThroughFavs'
  BY DEF Through, ThroughFavs
<1>2. AheadIs(k) /\ AheadIs(k)'
  BY <1>1, AheadNow, AheadNext DEF AheadKnown
<1>3. PICK A, L, P : A = NodesAhead /\ L = ListsAhead /\ P = FavsAhead
  OBVIOUS
<1>4. FavPlaces' = FavPlaces
  BY DEF FavPlaces
<1>5. pc \in FavSteps /\ pc \in NodeSteps
  BY DEF AtFavorites, FavSteps, NodeSteps
<1>6. /\ A = {i \in DOMAIN file.nodes : i > k + 1} /\ NodesDue = NodesOut
      /\ P = {p \in FavPlaces : p[1] > k + 1 \/ (p[1] = k + 1 /\ p[2] > m)}
      /\ L = {i \in DOMAIN file.nodes : i > k + 1 \/ i = k + 1}
      /\ StraysDue = Strays(ListsAhead)
  BY <1>2, <1>3, <1>5 DEF AheadIs
<1>7. /\ NodesAhead' = A /\ NodesDue' = NodesOut' /\ ListsAhead' = L
      /\ FavsAhead' = {p \in FavPlaces : p[1] > k + 1 \/ (p[1] = k + 1 /\ p[2] > m + 1)}
      /\ StraysDue' = Strays(ListsAhead)'
  BY <1>1, <1>2, <1>4, <1>6 DEF AheadIs, FavSteps, AtFavorites, NodeSteps
<1>8. <<k + 1, m + 1>> \in P /\ FavsAhead' = P \ {<<k + 1, m + 1>>}
  <2>1. <<k + 1, m + 1>> \in FavPlaces
    BY PlaceIs
  <2>2. \A p \in FavPlaces : /\ p = <<p[1], p[2]>> /\ p[1] \in Int
                             /\ p[1] = k + 1 => p[2] \in Int
    <3>1. DOMAIN file.nodes = 1 .. Len(file.nodes) /\ Len(file.nodes) \in Nat
      BY FileIs, LenProperties
    <3> QED
      BY <3>1, PlaceIs
  <2>3. \A p \in P : p # <<k + 1, m + 1>> => p \in FavsAhead'
    BY <1>6, <1>7, <2>2
  <2>4. \A p \in FavsAhead' : p \in P /\ p # <<k + 1, m + 1>>
    BY <1>6, <1>7, <2>2
  <2> QED
    BY <1>6, <2>1, <2>3, <2>4
<1>9. NodeMoves(0, 0)
  <2>1. NodeGaps(NodesAhead)' = NodeGaps(NodesAhead) /\ NodesOut' = NodesOut
    BY <1>3, <1>7 DEF NodeGaps, NodeDiffers, NodesOf, TheNode, NodesOut
  <2> QED
    BY <1>6, <1>7, <2>1 DEF NodeMoves, Loses
<1>10. FavMoves(n, 0)
  <2>1. Loses(FavGaps(FavsAhead), FavGaps(FavsAhead)', n)
    <3>1. \A p \in P \ {<<k + 1, m + 1>>} : FavDiffers(p)' <=> FavDiffers(p)
      BY <1>6
    <3> QED
      BY <1>3, <1>8, <3>1, FavTaken
  <2>2. StraysDue' = Strays(L)'
    BY <1>7 DEF Strays
  <2>3. Strays(L)' = Strays(L)
    BY <1>6
  <2> QED
    BY <1>3, <1>6, <2>1, <2>2, <2>3 DEF FavMoves, Loses
<1>11. report' = report + 0 + n + 0 + 0
  BY DEF TypeInv, CountInv
<1> QED
  BY <1>5, <1>9, <1>10, <1>11, NodeTakenAlone DEF NodeSteps

(* Nothing is taken while apply stays at the same favorite.                *)
LEMMA FavsSame ==
  ASSUME UNCHANGED <<nodes, favs, file, todo, favTodo>>,
         pc \in AtFavorites, pc' \in AtFavorites
  PROVE  NodeMoves(0, 0) /\ FavMoves(0, 0)
<1>1. PICK k, m, A, L, P : /\ k = Through(file.nodes) /\ m = ThroughFavs
                           /\ A = NodesAhead /\ L = ListsAhead /\ P = FavsAhead
  OBVIOUS
<1>2. k = Through(file.nodes)' /\ m = ThroughFavs'
  BY <1>1 DEF Through, ThroughFavs
<1>3. AheadIs(k) /\ AheadIs(k)'
  BY <1>1, <1>2, AheadNow, AheadNext DEF AheadKnown
<1>4. FavPlaces' = FavPlaces
  BY DEF FavPlaces
<1>5. pc \in FavSteps /\ pc \in NodeSteps /\ pc' \in FavSteps /\ pc' \in NodeSteps
  BY DEF AtFavorites, FavSteps, NodeSteps
<1>6. /\ NodesAhead' = A /\ FavsAhead' = P /\ ListsAhead' = L
      /\ StraysDue = Strays(ListsAhead) /\ StraysDue' = Strays(ListsAhead)'
      /\ NodesDue = NodesOut /\ NodesDue' = NodesOut'
  <2>1. /\ A = {i \in DOMAIN file.nodes : i > k + 1}
        /\ P = {p \in FavPlaces : p[1] > k + 1 \/ (p[1] = k + 1 /\ p[2] > m)}
        /\ L = {i \in DOMAIN file.nodes : i > k + 1 \/ i = k + 1}
        /\ StraysDue = Strays(ListsAhead) /\ NodesDue = NodesOut
    BY <1>1, <1>3, <1>5 DEF AheadIs
  <2>2. /\ NodesAhead' = {i \in DOMAIN file.nodes : i > k + 1}
        /\ FavsAhead' = {p \in FavPlaces : p[1] > k + 1 \/ (p[1] = k + 1 /\ p[2] > m)}
        /\ ListsAhead' = {i \in DOMAIN file.nodes : i > k + 1 \/ i = k + 1}
        /\ StraysDue' = Strays(ListsAhead)' /\ NodesDue' = NodesOut'
    BY <1>2, <1>3, <1>4, <1>5 DEF AheadIs
  <2> QED
    BY <2>1, <2>2
<1>7. StraysDue = Strays(L) /\ StraysDue' = Strays(L)'
  BY <1>1, <1>6 DEF Strays
<1> QED
  BY <1>1, <1>6, <1>7, GapsFrame, NodesNotTaken

(* LookFavorite counts, in a dry run, a favorite that differs. *)
LEMMA LookFavoriteCounts ==
  ASSUME TypeInv, PlaceInv, UsersHere, NodesHere, LookFavorite
  PROVE  SumKept /\ (Foreseen => Foreseen')
<1>1. /\ pc = "favs" /\ favTodo # <<>> /\ UNCHANGED <<users, nodes, favs, file, todo, nid>>
      /\ pc \in NodeSteps /\ pc \in FavSteps /\ todo # <<>> /\ report \in Nat
  BY DEF LookFavorite, tables, NodeSteps, FavSteps, UserSteps, TypeInv, WorkInv, CountInv
<1>2. PICK k \in Nat, s \in NodeSpec :
           /\ k = Through(file.nodes) /\ s = Head(todo) /\ s = file.nodes[k + 1]
           /\ k + 1 \in DOMAIN file.nodes /\ Len(file.nodes) - Len(Tail(todo)) = k + 1
           /\ DOMAIN file.nodes = 1 .. Len(file.nodes) /\ Len(file.nodes) \in Nat
           /\ s.favs \in Seq(FavSpec) /\ DOMAIN s.favs = 1 .. Len(s.favs) /\ Len(s.favs) \in Nat
  BY <1>1, EntryHere
<1>3. PICK m \in Nat, f \in FavSpec :
           /\ m = ThroughFavs /\ f = Head(favTodo) /\ f = s.favs[m + 1]
           /\ m + 1 \in 1 .. Len(s.favs) /\ Len(s.favs) - Len(Tail(favTodo)) = m + 1
  BY <1>1, <1>2, FavoriteHere
<1>4. Foreseen => Foreseen'
  BY <1>1, NodesFrame, ForeseenStays
<1>5. NodesOf(s.number) # {} /\ nid = TheNode(s)
  BY <1>1, <1>2 DEF NodesHere
<1>6. FavDiffers(<<k + 1, m + 1>>) <=> ~FavDone(nid, f)
  BY <1>2, <1>3, <1>5 DEF FavDiffers, FavThere
<1>7. CASE pc' = "favs"
  <2>1. favTodo' = Tail(favTodo) /\ report' = report + (IF ~FavDone(nid, f) THEN 1 ELSE 0)
    BY <1>3, <1>7 DEF LookFavorite, Goto, Count, GetFavorite, FavDone
  <2>2. PICK n \in {0, 1} : n = IF FavDiffers(<<k + 1, m + 1>>) THEN 1 ELSE 0
    OBVIOUS
  <2>3. report' = report + n
    BY <1>6, <2>1, <2>2
  <2>4. (\A p : FavDiffers(p)' <=> FavDiffers(p)) /\ (\A A : Strays(A)' = Strays(A))
    BY <1>1, NodesFrame, FavsUntouched
  <2> QED
    BY <1>1, <1>2, <1>3, <1>4, <1>7, <2>1, <2>2, <2>3, <2>4, PassedStays, FavCounted DEF AtFavorites
<1>8. CASE pc' \in {"createFav", "updateFav"}
  <2>1. UNCHANGED <<favTodo, report>>
    BY <1>8 DEF LookFavorite, Goto
  <2>2. NodeMoves(0, 0) /\ FavMoves(0, 0)
    BY <1>1, <1>8, <2>1, FavsSame DEF AtFavorites
  <2>3. report' = report + 0 + 0 + 0 + 0
    BY <1>1, <2>1
  <2> QED
    BY <1>1, <1>4, <1>8, <2>2, <2>3, PassedStays, NodeTakenAlone DEF NodeSteps
<1> QED
  BY <1>1, <1>7, <1>8 DEF LookFavorite, Goto

(* A step at the favorites of one node leaves those of the others.         *)
LEMMA OthersFavorites ==
  ASSUME TypeInv, NoDuplicates, NEW k \in Nat, k + 1 \in DOMAIN file.nodes,
         UNCHANGED nodes, NEW x \in NodesOf(file.nodes[k + 1].number),
         \A y \in DOMAIN nodes : y # x =>
           FavsOf(y)' = FavsOf(y) /\ \A g \in FavsOf(y) : favs'[g] = favs[g]
  PROVE  OthersSame(k)
<1> SUFFICES ASSUME NEW n, n # file.nodes[k + 1].number PROVE Spares(n)
  BY OthersLeft
<1>1. \A y \in NodesOf(n) : y \in DOMAIN nodes /\ y # x
  BY DEF NodesOf
<1>2. NodesOf(n)' = NodesOf(n)
  BY DEF NodesOf
<1> QED
  BY <1>1, <1>2 DEF Spares

(* What differs, but for the favorite at hand, does after it was written.  *)
LEMMA FavWritten ==
  ASSUME TypeInv, NoDuplicates, file' = file, UNCHANGED nodes,
         NEW k \in Nat, NEW s, NEW m \in Nat, s = file.nodes[k + 1],
         k + 1 \in DOMAIN file.nodes, m + 1 \in DOMAIN s.favs, OthersSame(k),
         \A g : g.number # s.favs[m + 1].number =>
           (FavDone(TheNode(s), g)' <=> FavDone(TheNode(s), g)),
         StraysOf(s)' = StraysOf(s)
  PROVE  /\ \A p \in FavPlaces : p # <<k + 1, m + 1>> => (FavDiffers(p)' <=> FavDiffers(p))
         /\ \A A \in SUBSET DOMAIN file.nodes : Strays(A)' = Strays(A)
<1>1. ASSUME NEW p \in FavPlaces, p # <<k + 1, m + 1>> PROVE FavDiffers(p)' <=> FavDiffers(p)
  <2>1. CASE p[1] # k + 1
    BY <2>1, SameGaps
  <2>2. CASE p[1] = k + 1
    <3>1. PICK j : p = <<k + 1, j>> /\ j \in DOMAIN s.favs /\ j # m + 1
      BY <1>1, <2>2, PlaceIs
    <3>2. s.favs[j].number # s.favs[m + 1].number
      BY <3>1, ListedOnce
    <3>3. FavDiffers(p) <=> ~(NodesOf(s.number) # {} /\ FavDone(TheNode(s), s.favs[j]))
      BY <3>1 DEF FavDiffers, FavThere
    <3>4. FavDiffers(p)' <=> ~(NodesOf(s.number)' # {} /\ FavDone(TheNode(s), s.favs[j])')
      <4>1. s = file'.nodes[k + 1]
        OBVIOUS
      <4> QED
        BY <3>1, <4>1 DEF FavDiffers, FavThere
    <3>5. NodesOf(s.number)' = NodesOf(s.number)
      BY DEF NodesOf
    <3> QED
      BY <3>2, <3>3, <3>4, <3>5
  <2> QED
    BY <2>1, <2>2
<1>2. StraysOf(file.nodes[k + 1])' = StraysOf(file.nodes[k + 1])
  <2>1. s = file'.nodes[k + 1]
    OBVIOUS
  <2>2. StraysOf(file.nodes[k + 1])' = StraysOf(s)'
    BY <2>1 DEF StraysOf
  <2> QED
    BY <2>2
<1> QED
  BY <1>1, <1>2, SameGaps

(* ApplyCreateFavorite adds a favorite that is listed. *)
LEMMA CreateFavoriteCounts ==
  ASSUME TypeInv, PlaceInv, UsersHere, NodesHere, NoDuplicates, ApplyCreateFavorite
  PROVE  SumKept /\ (Foreseen => Foreseen')
<1>1. /\ pc = "createFav" /\ favTodo # <<>> /\ pc \in NodeSteps /\ pc \in FavSteps /\ todo # <<>>
  BY DEF ApplyCreateFavorite, NodeSteps, FavSteps, UserSteps, TypeInv, WorkInv
<1>2. PICK k \in Nat, s \in NodeSpec :
           /\ k = Through(file.nodes) /\ s = Head(todo) /\ s = file.nodes[k + 1]
           /\ k + 1 \in DOMAIN file.nodes /\ Len(file.nodes) - Len(Tail(todo)) = k + 1
           /\ DOMAIN file.nodes = 1 .. Len(file.nodes) /\ Len(file.nodes) \in Nat
           /\ s.favs \in Seq(FavSpec) /\ DOMAIN s.favs = 1 .. Len(s.favs) /\ Len(s.favs) \in Nat
  BY <1>1, EntryHere
<1>3. PICK m \in Nat, f \in FavSpec :
           /\ m = ThroughFavs /\ f = Head(favTodo) /\ f = s.favs[m + 1]
           /\ m + 1 \in 1 .. Len(s.favs) /\ Len(s.favs) - Len(Tail(favTodo)) = m + 1
  BY <1>1, <1>2, FavoriteHere
<1>4. /\ NodesOf(s.number) # {} /\ nid = TheNode(s) /\ FavsAt(nid, f.number) = {}
  BY <1>1, <1>2, <1>3 DEF NodesHere, FavSteps
<1>5. nid \in NodesOf(s.number) /\ nid \in DOMAIN nodes
  BY <1>4, IdsAre, LowestIs DEF TheNode, NodesOf, TypeInv
<1>6. /\ favs' = With(favs, [node |-> nid, number |-> f.number, data |-> f.data])
      /\ pc' = "favs" /\ favTodo' = Tail(favTodo) /\ report' = report + 1
      /\ UNCHANGED <<users, nodes, file, todo, nid>>
  BY <1>3, <1>5 DEF ApplyCreateFavorite, InsertFavorite, Goto, Count
<1>7. /\ DOMAIN favs' = DOMAIN favs \cup {serial} /\ serial \notin DOMAIN favs /\ serial \in Nat
      /\ favs'[serial] = [node |-> nid, number |-> f.number, data |-> f.data]
      /\ \A g \in DOMAIN favs : favs'[g] = favs[g]
  BY <1>6, IdsAre DEF With, TypeInv
<1>8. OthersSame(k)
  <2>1. \A y \in DOMAIN nodes : y # nid =>
          FavsOf(y)' = FavsOf(y) /\ \A g \in FavsOf(y) : favs'[g] = favs[g]
    BY <1>7 DEF FavsOf
  <2> QED
    BY <1>2, <1>5, <1>6, <2>1, OthersFavorites
<1>9. PICK x : x = TheNode(s)
  OBVIOUS
<1>10. TheNode(s)' = x
  BY <1>6, <1>9 DEF TheNode, NodesOf
<1>11. ASSUME NEW g, g.number # s.favs[m + 1].number
       PROVE  FavDone(TheNode(s), g)' <=> FavDone(TheNode(s), g)
  <2>1. FavsAt(x, g.number)' = FavsAt(x, g.number)
    BY <1>3, <1>7, <1>11 DEF FavsAt, FavsOf
  <2>2. FavsAt(x, g.number) # {} => Lowest(FavsAt(x, g.number)) \in DOMAIN favs
    BY FavsAtAre, LowestIs DEF TypeInv
  <2>3. FavDone(x, g)' <=> FavDone(x, g)
    BY <1>7, <2>1, <2>2 DEF FavDone
  <2>4. FavDone(TheNode(s), g)' <=> FavDone(x, g)'
    BY <1>10
  <2> QED
    BY <1>9, <2>3, <2>4
<1>12. StraysOf(s)' = StraysOf(s)
  <2>1. f.number \in Numbers_(s.favs)
    BY <1>2, <1>3 DEF Numbers_
  <2>2. NodesOf(s.number)' = NodesOf(s.number)
    BY <1>6 DEF NodesOf
  <2>3. \A g \in DOMAIN favs : Stray(g, s)' <=> Stray(g, s)
    BY <1>7, <1>9, <1>10, <2>2 DEF Stray
  <2>4. PICK h : h = serial
    OBVIOUS
  <2>5. ~ Stray(h, s)'
    BY <1>7, <2>1, <2>4 DEF Stray
  <2>6. DOMAIN favs' = DOMAIN favs \cup {h}
    BY <1>7, <2>4
  <2> QED
    BY <2>3, <2>5, <2>6 DEF StraysOf
<1>13. /\ \A p \in FavPlaces : p # <<k + 1, m + 1>> => (FavDiffers(p)' <=> FavDiffers(p))
       /\ \A A \in SUBSET DOMAIN file.nodes : Strays(A)' = Strays(A)
  BY <1>2, <1>3, <1>6, <1>8, <1>11, <1>12, FavWritten
<1>14. FavDiffers(<<k + 1, m + 1>>)
  BY <1>2, <1>3, <1>4 DEF FavDiffers, FavThere, FavDone
<1>15. SumKept
  <2>1. PICK n \in {0, 1} : n = 1
    OBVIOUS
  <2>2. n = (IF FavDiffers(<<k + 1, m + 1>>) THEN 1 ELSE 0) /\ report' = report + n
    BY <1>6, <1>14, <2>1
  <2> QED
    BY <1>1, <1>2, <1>3, <1>6, <1>13, <2>2, PassedStays, FavCounted DEF AtFavorites
<1>16. Foreseen => Foreseen'
  BY <1>6, ForeseenStays DEF NodesOf
<1> QED
  BY <1>15, <1>16

(* ApplyUpdateFavorite sets the data of a favorite that is listed. *)
LEMMA UpdateFavoriteCounts ==
  ASSUME TypeInv, PlaceInv, UsersHere, NodesHere, NoDuplicates, ApplyUpdateFavorite
  PROVE  SumKept /\ (Foreseen => Foreseen')
<1>1. /\ pc = "updateFav" /\ favTodo # <<>> /\ pc \in NodeSteps /\ pc \in FavSteps /\ todo # <<>>
  BY DEF ApplyUpdateFavorite, NodeSteps, FavSteps, UserSteps, TypeInv, WorkInv
<1>2. PICK k \in Nat, s \in NodeSpec :
           /\ k = Through(file.nodes) /\ s = Head(todo) /\ s = file.nodes[k + 1]
           /\ k + 1 \in DOMAIN file.nodes /\ Len(file.nodes) - Len(Tail(todo)) = k + 1
           /\ DOMAIN file.nodes = 1 .. Len(file.nodes) /\ Len(file.nodes) \in Nat
           /\ s.favs \in Seq(FavSpec) /\ DOMAIN s.favs = 1 .. Len(s.favs) /\ Len(s.favs) \in Nat
  BY <1>1, EntryHere
<1>3. PICK m \in Nat, f \in FavSpec :
           /\ m = ThroughFavs /\ f = Head(favTodo) /\ f = s.favs[m + 1]
           /\ m + 1 \in 1 .. Len(s.favs) /\ Len(s.favs) - Len(Tail(favTodo)) = m + 1
  BY <1>1, <1>2, FavoriteHere
<1>4. /\ NodesOf(s.number) # {} /\ nid = TheNode(s) /\ FavsAt(nid, f.number) # {}
      /\ found = Lowest(FavsAt(nid, f.number)) /\ favs[found].data # f.data
  BY <1>1, <1>2, <1>3 DEF NodesHere, FavSteps
<1>5. nid \in NodesOf(s.number) /\ nid \in DOMAIN nodes
  BY <1>4, IdsAre, LowestIs DEF TheNode, NodesOf, TypeInv
<1>6. found \in FavsAt(nid, f.number)
  BY <1>4, FavsAtAre, LowestIs DEF TypeInv
<1>7. /\ found \in DOMAIN favs /\ favs[found].node = nid /\ favs[found].number = f.number
      /\ favs[found] \in [node : DOMAIN nodes, number : Numbers, data : Data]
  BY <1>6, RowsAre DEF FavsAt, FavsOf, TypeInv
<1>8. /\ favs' = [favs EXCEPT ![found].number = f.number, ![found].data = f.data]
      /\ pc' = "favs" /\ favTodo' = Tail(favTodo) /\ report' = report + 1
      /\ UNCHANGED <<users, nodes, file, todo, nid>>
  BY <1>3, <1>7 DEF ApplyUpdateFavorite, Goto, Count
<1>9. /\ DOMAIN favs' = DOMAIN favs
      /\ \A g \in DOMAIN favs : favs'[g].node = favs[g].node /\ favs'[g].number = favs[g].number
      /\ \A g \in DOMAIN favs : g # found => favs'[g] = favs[g]
  BY <1>7, <1>8
<1>10. OthersSame(k)
  <2>1. \A y \in DOMAIN nodes : y # nid =>
          FavsOf(y)' = FavsOf(y) /\ \A g \in FavsOf(y) : favs'[g] = favs[g]
    BY <1>7, <1>9 DEF FavsOf
  <2> QED
    BY <1>2, <1>5, <1>8, <2>1, OthersFavorites
<1>11. PICK x : x = TheNode(s)
  OBVIOUS
<1>12. TheNode(s)' = x /\ NodesOf(s.number)' = NodesOf(s.number)
  BY <1>8, <1>11 DEF TheNode, NodesOf
<1>13. ASSUME NEW g, g.number # s.favs[m + 1].number
       PROVE  FavDone(TheNode(s), g)' <=> FavDone(TheNode(s), g)
  <2>1. FavsAt(x, g.number)' = FavsAt(x, g.number)
    BY <1>9 DEF FavsAt, FavsOf
  <2>2. FavsAt(x, g.number) # {} => Lowest(FavsAt(x, g.number)) \in FavsAt(x, g.number)
    BY FavsAtAre, LowestIs DEF TypeInv
  <2>3. FavsAt(x, g.number) # {} =>
          Lowest(FavsAt(x, g.number)) \in DOMAIN favs /\ Lowest(FavsAt(x, g.number)) # found
    BY <1>3, <1>7, <1>13, <2>2 DEF FavsAt, FavsOf
  <2>4. FavDone(x, g)' <=> FavDone(x, g)
    BY <1>9, <2>1, <2>3 DEF FavDone
  <2>5. FavDone(TheNode(s), g)' <=> FavDone(x, g)'
    BY <1>12
  <2> QED
    BY <1>11, <2>4, <2>5
<1>14. StraysOf(s)' = StraysOf(s)
  BY <1>9, <1>11, <1>12 DEF StraysOf, Stray
<1>15. /\ \A p \in FavPlaces : p # <<k + 1, m + 1>> => (FavDiffers(p)' <=> FavDiffers(p))
       /\ \A A \in SUBSET DOMAIN file.nodes : Strays(A)' = Strays(A)
  BY <1>2, <1>3, <1>8, <1>10, <1>13, <1>14, FavWritten
<1>16. FavDiffers(<<k + 1, m + 1>>)
  BY <1>2, <1>3, <1>4 DEF FavDiffers, FavThere, FavDone
<1>17. SumKept
  <2>1. PICK n \in {0, 1} : n = 1
    OBVIOUS
  <2>2. n = (IF FavDiffers(<<k + 1, m + 1>>) THEN 1 ELSE 0) /\ report' = report + n
    BY <1>8, <1>16, <2>1
  <2> QED
    BY <1>1, <1>2, <1>3, <1>8, <1>15, <2>2, PassedStays, FavCounted DEF AtFavorites
<1>18. Foreseen => Foreseen'
  BY <1>8, ForeseenStays DEF NodesOf
<1> QED
  BY <1>17, <1>18

(* ListFavorites lists the favorites of the node that were due. *)
LEMMA ListFavoritesCounts ==
  ASSUME TypeInv, PlaceInv, UsersHere, NodesHere, ListFavorites
  PROVE  SumKept /\ (Foreseen => Foreseen')
<1>1. /\ pc = "favs" /\ favTodo = <<>> /\ todo # <<>> /\ pc' = "purgeFavs"
      /\ UNCHANGED <<users, nodes, favs, file, todo, favTodo, nid, report>>
      /\ left' = IF file.purge.favs
                 THEN {f \in FavsOf(nid) : favs[f].number \notin Numbers_(Head(todo).favs)} ELSE {}
      /\ pc \in NodeSteps /\ pc \in FavSteps /\ report \in Nat
  BY DEF ListFavorites, Goto, tables, NodeSteps, FavSteps, UserSteps, TypeInv, WorkInv, CountInv
<1>2. PICK k \in Nat, s \in NodeSpec :
           /\ k = Through(file.nodes) /\ s = Head(todo) /\ s = file.nodes[k + 1]
           /\ k + 1 \in DOMAIN file.nodes /\ Len(file.nodes) - Len(Tail(todo)) = k + 1
           /\ DOMAIN file.nodes = 1 .. Len(file.nodes) /\ Len(file.nodes) \in Nat
           /\ s.favs \in Seq(FavSpec) /\ DOMAIN s.favs = 1 .. Len(s.favs) /\ Len(s.favs) \in Nat
  BY <1>1, EntryHere
<1>3. k = Through(file.nodes)' /\ ThroughFavs = Len(s.favs)
  BY <1>1, <1>2, AllThrough DEF Through
<1>4. AheadIs(k) /\ AheadIs(k)'
  BY <1>2, <1>3, AheadNow, AheadNext DEF AheadKnown
<1>5. PICK A, L, P : A = NodesAhead /\ L = ListsAhead /\ P = FavsAhead
  OBVIOUS
<1>6. FavPlaces' = FavPlaces
  BY <1>1 DEF FavPlaces
<1>7. /\ A = {i \in DOMAIN file.nodes : i > k + 1} /\ NodesDue = NodesOut
      /\ P = {p \in FavPlaces : p[1] > k + 1 \/ (p[1] = k + 1 /\ p[2] > Len(s.favs))}
      /\ L = {i \in DOMAIN file.nodes : i > k + 1 \/ i = k + 1}
      /\ StraysDue = Strays(L)
  BY <1>1, <1>3, <1>4, <1>5 DEF AheadIs, AtFavorites
<1>8. /\ NodesAhead' = {i \in DOMAIN file.nodes : i > k + 1} /\ NodesDue' = NodesOut'
      /\ FavsAhead' = {p \in FavPlaces : p[1] > k + 1}
      /\ ListsAhead' = NodesAhead' /\ StraysDue' = Strays(ListsAhead)' \cup left'
  BY <1>1, <1>4, <1>6 DEF AheadIs, FavSteps, NodeSteps
<1>9. NodesAhead' = A /\ FavsAhead' = P
  <2>1. \A p \in FavPlaces : p[1] = k + 1 => ~(p[2] > Len(s.favs))
    BY <1>2, PlaceIs
  <2> QED
    BY <1>7, <1>8, <2>1
<1>10. Strays(L) = Strays(A) \cup left'
  <2>1. L = A \cup {k + 1}
    BY <1>2, <1>7
  <2>2. Strays(L) = Strays(A) \cup {g \in StraysOf(s) : file.purge.favs}
    BY <1>2, <2>1 DEF Strays, StraysOf
  <2>3. NodesOf(s.number) # {} /\ nid = TheNode(s)
    BY <1>1, <1>2 DEF NodesHere
  <2>4. StraysOf(s) = {f \in FavsOf(nid) : favs[f].number \notin Numbers_(s.favs)}
    BY <2>3 DEF StraysOf, Stray, FavsOf
  <2>5. left' = {g \in StraysOf(s) : file.purge.favs}
    BY <1>1, <1>2, <2>4
  <2> QED
    BY <2>2, <2>5
<1>11. StraysDue' = StraysDue
  <2>1. StraysDue' = Strays(A)' \cup left'
    BY <1>8, <1>9 DEF Strays
  <2>2. Strays(A)' = Strays(A)
    BY <1>1, GapsFrame
  <2> QED
    BY <1>7, <1>10, <2>1, <2>2
<1>12. NodeMoves(0, 0) /\ FavMoves(0, 0)
  BY <1>1, <1>5, <1>7, <1>8, <1>9, <1>11, GapsFrame, NodesNotTaken
<1>13. report' = report + 0 + 0 + 0 + 0
  BY <1>1
<1>14. SumKept
  BY <1>1, <1>12, <1>13, PassedStays, NodeTakenAlone DEF NodeSteps
<1> QED
  BY <1>1, <1>14, NodesFrame, ForeseenStays

(* ApplyDeleteFavorite deletes one that was listed, or counts it. *)
LEMMA DeleteFavoriteCounts ==
  ASSUME TypeInv, PlaceInv, UsersHere, NodesHere, NoDuplicates, ApplyDeleteFavorite
  PROVE  SumKept /\ (Foreseen => Foreseen')
<1>1. /\ pc = "purgeFavs" /\ todo # <<>> /\ pc' = pc /\ report' = report + 1
      /\ UNCHANGED <<users, nodes, file, todo, nid>>
      /\ pc \in NodeSteps /\ pc \in FavSteps /\ report \in Nat
  BY DEF ApplyDeleteFavorite, Count, NodeSteps, FavSteps, UserSteps, TypeInv, WorkInv, CountInv
<1>2. PICK k \in Nat, s \in NodeSpec :
           /\ k = Through(file.nodes) /\ s = Head(todo) /\ s = file.nodes[k + 1]
           /\ k + 1 \in DOMAIN file.nodes /\ Len(file.nodes) - Len(Tail(todo)) = k + 1
           /\ DOMAIN file.nodes = 1 .. Len(file.nodes) /\ Len(file.nodes) \in Nat
           /\ s.favs \in Seq(FavSpec) /\ DOMAIN s.favs = 1 .. Len(s.favs) /\ Len(s.favs) \in Nat
  BY <1>1, EntryHere
<1>3. PICK g \in left : left' = left \ {g} /\ favs' = IF dry THEN favs ELSE Without(favs, {g})
  BY DEF ApplyDeleteFavorite
<1>4. /\ NodesOf(s.number) # {} /\ nid = TheNode(s)
      /\ g \in FavsOf(nid) /\ favs[g].number \notin Numbers_(s.favs)
  BY <1>1, <1>2, <1>3 DEF NodesHere, FavSteps
<1>5. nid \in NodesOf(s.number) /\ nid \in DOMAIN nodes
  BY <1>4, IdsAre, LowestIs DEF TheNode, NodesOf, TypeInv
<1>6. OthersSame(k)
  <2>1. \A y \in DOMAIN nodes : y # nid =>
          FavsOf(y)' = FavsOf(y) /\ \A h \in FavsOf(y) : favs'[h] = favs[h]
    BY <1>3, <1>4 DEF FavsOf, Without
  <2> QED
    BY <1>1, <1>2, <1>5, <2>1, OthersFavorites
<1>7. k = Through(file.nodes)'
  BY <1>1, <1>2 DEF Through
<1>8. AheadIs(k) /\ AheadIs(k)'
  BY <1>2, <1>7, AheadNow, AheadNext DEF AheadKnown
<1>9. PICK A, P : A = NodesAhead /\ P = FavsAhead
  OBVIOUS
<1>10. FavPlaces' = FavPlaces
  BY <1>1 DEF FavPlaces
<1>11. /\ A = {i \in DOMAIN file.nodes : i > k + 1} /\ NodesDue = NodesOut
       /\ P = {p \in FavPlaces : p[1] > k + 1} /\ StraysDue = Strays(A) \cup left
  BY <1>1, <1>8, <1>9 DEF AheadIs
<1>12. /\ NodesAhead' = A /\ NodesDue' = NodesOut' /\ FavsAhead' = P
       /\ ListsAhead' = NodesAhead' /\ StraysDue' = Strays(ListsAhead)' \cup left'
  BY <1>1, <1>8, <1>10, <1>11 DEF AheadIs
<1>13. k + 1 \notin A /\ A \subseteq DOMAIN file.nodes /\ \A p \in P : p \in FavPlaces /\ p[1] # k + 1
  BY <1>2, <1>11
<1>14. NodeMoves(0, 0)
  <2>1. NodeGaps(NodesAhead)' = NodeGaps(NodesAhead) /\ NodesOut' = NodesOut
    BY <1>1, <1>9, <1>12 DEF NodeGaps, NodeDiffers, NodesOf, TheNode, NodesOut
  <2> QED
    BY <1>11, <1>12, <2>1 DEF NodeMoves, Loses
<1>15. g \notin Strays(A)
  <2> SUFFICES ASSUME NEW i \in A, Stray(g, file.nodes[i]) PROVE FALSE
    BY DEF Strays
  <2>1. PICK t : t = file.nodes[i]
    OBVIOUS
  <2>2. NodesOf(t.number) # {} /\ nid = TheNode(t)
    BY <1>4, <2>1 DEF Stray, FavsOf
  <2>3. nid \in NodesOf(t.number)
    BY <2>2, IdsAre, LowestIs DEF TheNode, NodesOf, TypeInv
  <2>4. t.number = s.number
    BY <1>5, <2>3 DEF NodesOf
  <2> QED
    BY <1>2, <1>13, <2>1, <2>4, ListedOnce
<1>16. FavMoves(0, 1)
  <2>1. Loses(FavGaps(FavsAhead), FavGaps(FavsAhead)', 0)
    BY <1>1, <1>6, <1>9, <1>12, <1>13, SameGaps, NoFavTaken
  <2>2. Strays(A)' = Strays(A)
    BY <1>1, <1>6, <1>13, SameGaps
  <2>3. StraysDue' = Strays(A)' \cup left'
    BY <1>12 DEF Strays
  <2>4. StraysDue' = StraysDue \ {g}
    BY <1>3, <1>11, <1>15, <2>2, <2>3
  <2>5. g \in StraysDue
    BY <1>3, <1>11
  <2> QED
    BY <2>1, <2>4, <2>5 DEF FavMoves, Loses
<1>17. report' = report + 0 + 0 + 1 + 0
  BY <1>1
<1>18. SumKept
  BY <1>1, <1>14, <1>16, <1>17, PassedStays, NodeTakenAlone DEF NodeSteps
<1>19. Foreseen => Foreseen'
  BY <1>1, ForeseenStays DEF NodesOf
<1> QED
  BY <1>18, <1>19

(* NextNode leaves nothing due of the node. *)
LEMMA NextNodeCounts ==
  ASSUME TypeInv, PlaceInv, UsersHere, NodesHere, NextNode
  PROVE  SumKept /\ (Foreseen => Foreseen')
<1>1. /\ pc = "purgeFavs" /\ left = {} /\ todo # <<>> /\ pc' = "nodes" /\ todo' = Tail(todo)
      /\ UNCHANGED <<users, nodes, favs, file, left, report>> /\ report \in Nat
      /\ pc \in NodeSteps /\ pc \in FavSteps
  BY DEF NextNode, Goto, tables, NodeSteps, FavSteps, UserSteps, TypeInv, WorkInv, CountInv
<1>2. PICK k \in Nat, s \in NodeSpec :
           /\ k = Through(file.nodes) /\ s = Head(todo) /\ s = file.nodes[k + 1]
           /\ k + 1 \in DOMAIN file.nodes /\ Len(file.nodes) - Len(Tail(todo)) = k + 1
           /\ DOMAIN file.nodes = 1 .. Len(file.nodes) /\ Len(file.nodes) \in Nat
           /\ s.favs \in Seq(FavSpec) /\ DOMAIN s.favs = 1 .. Len(s.favs) /\ Len(s.favs) \in Nat
  BY <1>1, EntryHere
<1>3. k + 1 = Through(file.nodes)'
  BY <1>1, <1>2 DEF Through
<1>4. AheadIs(k) /\ AheadIs(k + 1)'
  BY <1>2, <1>3, AheadNow, AheadNext DEF AheadKnown
<1>5. PICK A, P : A = NodesAhead /\ P = FavsAhead
  OBVIOUS
<1>6. FavPlaces' = FavPlaces
  BY <1>1 DEF FavPlaces
<1>7. /\ A = {i \in DOMAIN file.nodes : i > k + 1} /\ NodesDue = NodesOut
      /\ P = {p \in FavPlaces : p[1] > k + 1} /\ StraysDue = Strays(A) \cup left
  BY <1>1, <1>4, <1>5 DEF AheadIs
<1>8. /\ NodesAhead' = A /\ NodesDue' = NodesOut' /\ FavsAhead' = P
      /\ ListsAhead' = NodesAhead' /\ StraysDue' = Strays(ListsAhead)'
  BY <1>1, <1>4, <1>6, <1>7 DEF AheadIs, NodeSteps
<1>9. StraysDue' = StraysDue
  <2>1. StraysDue' = Strays(A)'
    BY <1>8 DEF Strays
  <2> QED
    BY <1>1, <1>7, <2>1, GapsFrame
<1>10. NodeMoves(0, 0) /\ FavMoves(0, 0)
  BY <1>1, <1>5, <1>7, <1>8, <1>9, GapsFrame, NodesNotTaken
<1>11. report' = report + 0 + 0 + 0 + 0
  BY <1>1
<1>12. SumKept
  BY <1>1, <1>10, <1>11, PassedStays, NodeTakenAlone DEF NodeSteps
<1> QED
  BY <1>1, <1>12, NodesFrame, ForeseenStays

(* Once the file's nodes are dealt with, only nodes may be due. *)
NothingAhead == NodesAhead = {} /\ FavsAhead = {} /\ ListsAhead = {} /\ StraysDue = {}

(* So it is while nodes are purged. *)
LEMMA NoneAhead ==
  pc \in {"purgeNodes", "done"} => NothingAhead
BY DEF NothingAhead, NodesAhead, FavsAhead, ListsAhead, StraysDue, Strays, BeforeNodes, UserSteps,
   FavSteps, AtFavorites

(* ListNodes lists the nodes that were due. *)
LEMMA ListNodesCounts ==
  ASSUME TypeInv, PlaceInv, UsersHere, NodesHere, ListNodes
  PROVE  SumKept /\ (Foreseen => Foreseen')
<1>1. /\ pc = "nodes" /\ todo = <<>> /\ pc' = "purgeNodes" /\ report \in Nat
      /\ UNCHANGED <<users, nodes, favs, file, todo, report>> /\ pc \in NodeSteps
      /\ left' = IF file.purge.nodes
                 THEN {x \in DOMAIN nodes : nodes[x].number \notin Numbers_(file.nodes)}
                 ELSE {}
  BY DEF ListNodes, Goto, tables, NodeSteps, TypeInv, CountInv
<1>2. PICK k : k = Through(file.nodes)
  OBVIOUS
<1>3. k = Len(file.nodes) /\ k \in Nat /\ DOMAIN file.nodes = 1 .. Len(file.nodes)
  BY <1>1, <1>2, AllThrough, FileIs, LenProperties
<1>4. AheadIs(k)
  BY <1>2, AheadNow DEF AheadKnown
<1>5. NothingAhead
  <2>1. /\ NodesAhead = {i \in DOMAIN file.nodes : i > k} /\ ListsAhead = NodesAhead
        /\ FavsAhead = {p \in FavPlaces : p[1] > k} /\ StraysDue = Strays(ListsAhead)
    BY <1>1, <1>4 DEF AheadIs
  <2>2. NodesAhead = {} /\ FavsAhead = {}
    BY <1>3, <2>1, PlaceIs
  <2>3. Strays({}) = {}
    BY DEF Strays
  <2> QED
    BY <2>1, <2>2, <2>3 DEF NothingAhead
<1>6. NothingAhead'
  BY <1>1 DEF NothingAhead, NodesAhead, FavsAhead, ListsAhead, StraysDue, Strays, BeforeNodes,
     UserSteps, FavSteps, AtFavorites
<1>7. NodesDue = NodesOut /\ NodesDue' = NodesOut
  BY <1>1 DEF NodesDue, NodesOut
<1>8. NodeMoves(0, 0) /\ FavMoves(0, 0)
  BY <1>1, <1>5, <1>6, <1>7, NodesNotTaken DEF NothingAhead
<1>9. report' = report + 0 + 0 + 0 + 0
  BY <1>1
<1>10. SumKept
  BY <1>1, <1>8, <1>9, PassedStays, NodeTakenAlone
<1> QED
  BY <1>1, <1>10, NodesFrame, ForeseenStays

(* ApplyDeleteNode deletes one that was listed, or counts it. *)
LEMMA DeleteNodeCounts ==
  ASSUME TypeInv, UsersHere, NodesHere, ApplyDeleteNode
  PROVE  SumKept /\ (Foreseen => Foreseen')
<1>1. pc = "purgeNodes" /\ pc' = pc /\ report' = report + 1 /\ UNCHANGED <<users, file>>
      /\ report \in Nat
  BY DEF ApplyDeleteNode, Count, TypeInv, CountInv
<1>2. PICK x \in left :
        left' = left \ {x} /\ (IF dry THEN UNCHANGED <<nodes, favs>> ELSE DeleteNode(x))
  BY DEF ApplyDeleteNode
<1>3. NothingAhead /\ NothingAhead'
  BY <1>1 DEF NothingAhead, NodesAhead, FavsAhead, ListsAhead, StraysDue, Strays, BeforeNodes,
     UserSteps, FavSteps, AtFavorites
<1>4. NodesDue = left /\ NodesDue' = left'
  BY <1>1 DEF NodesDue
<1>5. NodeMoves(0, 1)
  BY <1>2, <1>3, <1>4 DEF NodeMoves, Loses, NodeGaps, NothingAhead
<1>6. FavMoves(0, 0)
  BY <1>3 DEF FavMoves, Loses, FavGaps, NothingAhead
<1>7. report' = report + 0 + 0 + 0 + 1
  BY <1>1
<1>8. SumKept
  BY <1>1, <1>5, <1>6, <1>7, PassedStays, NodeTakenAlone
<1>9. \A n \in Numbers_(file.nodes) : NodesOf(n) # {} => NodesOf(n)' # {}
  <2> SUFFICES ASSUME NEW n \in Numbers_(file.nodes), NEW y \in NodesOf(n)
               PROVE  y \in NodesOf(n)'
    OBVIOUS
  <2>1. y # x
    BY <1>1, <1>2 DEF NodesHere, NodesOf
  <2> QED
    BY <1>2, <2>1 DEF NodesOf, DeleteNode, Without
<1> QED
  BY <1>1, <1>8, <1>9, ForeseenStays

(* Report changes nothing that is due. *)
LEMMA ReportCounts ==
  ASSUME TypeInv, UsersHere, NodesHere, Report
  PROVE  SumKept /\ (Foreseen => Foreseen')
<1>1. pc = "purgeNodes" /\ pc' = "done" /\ UNCHANGED <<users, nodes, favs, file, left, report>>
      /\ report \in Nat
  BY DEF Report, Goto, tables, place, TypeInv, CountInv
<1>2. NothingAhead /\ NothingAhead'
  BY <1>1 DEF NothingAhead, NodesAhead, FavsAhead, ListsAhead, StraysDue, Strays, BeforeNodes,
     UserSteps, FavSteps, AtFavorites
<1>3. NodesDue' = NodesDue
  BY <1>1 DEF NodesDue
<1>4. NodeMoves(0, 0) /\ FavMoves(0, 0)
  BY <1>1, <1>2, <1>3, NodesNotTaken DEF NothingAhead
<1>5. report' = report + 0 + 0 + 0 + 0
  BY <1>1
<1>6. SumKept
  BY <1>1, <1>4, <1>5, PassedStays, NodeTakenAlone
<1> QED
  BY <1>1, <1>6, NodesFrame, ForeseenStays

(* A step of a run that does not fail counts what it takes from what is    *)
(* due.                                                                    *)
LEMMA RunCounts ==
  ASSUME TypeInv, PlaceInv, UsersHere, NodesHere, NoDuplicates,
         Next, ~ Start, ~ ServerStep, pc' # "idle"
  PROVE  SumKept /\ (Foreseen => Foreseen')
<1>1. CASE LookUser \/ ApplyCreateUser \/ ApplyUpdateUser \/ ListUsers \/ CountSuperusers
           \/ ApplyDeleteUser \/ ToNodes
  BY <1>1, LookUserCounts, CreateUserCounts, UpdateUserCounts, ListUsersCounts, PurgeCounts,
     DeleteUserCounts, ToNodesCounts
<1>2. CASE LookNode \/ ApplyCreateNode \/ ApplyUpdateNode \/ LookFavorite
           \/ ApplyCreateFavorite \/ ApplyUpdateFavorite
  BY <1>2, LookNodeCounts, CreateNodeCounts, UpdateNodeCounts, LookFavoriteCounts,
     CreateFavoriteCounts, UpdateFavoriteCounts
<1>3. CASE ListFavorites \/ ApplyDeleteFavorite \/ NextNode \/ ListNodes \/ ApplyDeleteNode
           \/ Report
  BY <1>3, ListFavoritesCounts, DeleteFavoriteCounts, NextNodeCounts, ListNodesCounts,
     DeleteNodeCounts, ReportCounts
<1>4. CASE Exit \/ Abandon
  BY <1>4 DEF Exit, Abandon, Ended, Goto
<1> QED
  BY <1>1, <1>2, <1>3, <1>4 DEF Next, ServerStep

-----------------------------------------------------------------------------
(* Where a run is *)

(* A statement that changes a row is one that finds it different.          *)
LEMMA DiffersNext ==
  ASSUME Next, ~ ServerStep
  PROVE  Differs'
<1> USE DEF Differs, Goto, tables, place
<1>1. CASE LookUser
  <2>1. PICK t, r : t = Head(todo) /\ r = Named(t.name)
    OBVIOUS
  <2>2. \/ UNCHANGED <<users, todo>> /\ pc' \in {"createUser", "updateUser"}
        \/ pc' = "users"
    BY <1>1 DEF LookUser
  <2>3. CASE pc' = "createUser"
    <3>1. r = {}
      BY <1>1, <2>1, <2>3 DEF LookUser
    <3>2. Named(Head(todo).name)' = r
      BY <2>1, <2>2, <2>3 DEF Named
    <3> QED
      BY <2>3, <3>1, <3>2
  <2>4. CASE pc' = "updateUser"
    <3>1. users[Lowest(r)].perm # t.perm /\ found' = Lowest(r)
      BY <1>1, <2>1, <2>4 DEF LookUser
    <3> QED
      BY <2>1, <2>2, <2>4, <3>1
  <2> QED
    BY <2>2, <2>3, <2>4
<1>2. CASE LookNode
  BY <1>2 DEF LookNode, NodeChanged
<1>3. CASE LookFavorite
  BY <1>3 DEF LookFavorite
<1>4. CASE ~ LookUser /\ ~ LookNode /\ ~ LookFavorite
  <2>1. CASE Start \/ ApplyCreateUser \/ ApplyUpdateUser \/ ListUsers \/ CountSuperusers
             \/ ApplyDeleteUser \/ ToNodes \/ ApplyCreateNode \/ ApplyUpdateNode
    BY <2>1 DEF Start, ApplyCreateUser, ApplyUpdateUser, ListUsers, CountSuperusers,
       ApplyDeleteUser, ToNodes, ApplyCreateNode, ApplyUpdateNode, Fail
  <2>2. CASE ApplyCreateFavorite \/ ApplyUpdateFavorite \/ ListFavorites
             \/ ApplyDeleteFavorite \/ NextNode \/ ListNodes \/ ApplyDeleteNode \/ Report
             \/ Exit \/ Abandon
    BY <2>2 DEF ApplyCreateFavorite, ApplyUpdateFavorite, ListFavorites,
       ApplyDeleteFavorite, NextNode, ListNodes, ApplyDeleteNode, Report, Exit, Abandon, Ended,
       Fail
  <2> QED
    BY <1>4, <2>1, <2>2 DEF Next, ServerStep
<1> QED
  BY <1>1, <1>2, <1>3, <1>4

(* What a run that writes is about is as it was read.                      *)
LEMMA RealIsHere ==
  AllMatch /\ Differs => UsersHere /\ NodesHere
BY DEF AllMatch, UsersMatch, PurgeMatch, NodesMatch, DoneMatch, Differs, UsersHere, DueListed, NodesHere,
   UserSteps, NodeSteps, FavSteps

(* So it is after the step. *)
LEMMA RealIsHereNext == AllMatch' /\ Differs' => UsersHere' /\ NodesHere'
BY RealIsHere, PTL

(* A dry run leaves the tables and the file. *)
LEMMA DryKeeps ==
  ASSUME dry, pc \notin Writes, Next, ~ Start, ~ ServerStep
  PROVE  UNCHANGED <<users, nodes, favs, file>>
<1> USE DEF tables
<1>1. CASE LookUser \/ ListUsers \/ CountSuperusers \/ ToNodes \/ LookNode \/ LookFavorite
           \/ ListFavorites \/ NextNode \/ ListNodes \/ Report \/ Exit \/ Abandon
  BY <1>1 DEF LookUser, ListUsers, CountSuperusers, ToNodes, LookNode, LookFavorite,
     ListFavorites, NextNode, ListNodes, Report, Exit, Abandon, Ended
<1>2. CASE ApplyDeleteFavorite \/ ApplyDeleteNode
  BY <1>2 DEF ApplyDeleteFavorite, ApplyDeleteNode
<1>3. ~ (ApplyCreateUser \/ ApplyUpdateUser \/ ApplyDeleteUser \/ ApplyCreateNode
         \/ ApplyUpdateNode \/ ApplyCreateFavorite \/ ApplyUpdateFavorite)
  BY DEF ApplyCreateUser, ApplyUpdateUser, ApplyDeleteUser, ApplyCreateNode,
     ApplyUpdateNode, ApplyCreateFavorite, ApplyUpdateFavorite, Writes
<1> QED
  BY <1>1, <1>2, <1>3 DEF Next, ServerStep

(* What a dry run is about is as it was read. *)
LEMMA DryIsHere ==
  ASSUME dry, UsersHere, NodesHere, pc \notin Writes, Next, ~ Start, ~ ServerStep
  PROVE  UsersHere' /\ NodesHere' /\ pc' \notin Writes
<1>0. UNCHANGED <<users, nodes, favs, file>>
  BY DryKeeps
<1>1. Unwanted' = Unwanted /\ Listed' = Listed
  BY <1>0, UsersFrame
<1> DEFINE Elsewhere == pc' \in {"users", "nodes", "idle", "failed"}
<1> USE DEF Goto
<1>2. CASE Elsewhere
  BY <1>2 DEF UsersHere, DueListed, NodesHere, FavSteps, Writes
<1>3. CASE ListUsers \/ CountSuperusers
  <2>1. pc' = "purgeUsers" /\ left' \subseteq Listed
    BY <1>3 DEF ListUsers, CountSuperusers, UsersHere, DueListed, Listed
  <2> QED
    BY <1>1, <2>1 DEF UsersHere, DueListed, NodesHere, FavSteps, Writes
<1>4. CASE LookNode /\ pc' = "favs"
  <2>1. PICK s : s = Head(todo)
    OBVIOUS
  <2>2. NodesOf(s.number) # {} /\ nid' = TheNode(s) /\ s = Head(todo)'
    BY <1>4, <2>1 DEF LookNode, TheNode
  <2>3. NodesOf(s.number)' = NodesOf(s.number) /\ TheNode(s)' = TheNode(s)
    BY <1>0, NodesFrame
  <2> QED
    BY <1>4, <2>1, <2>2, <2>3 DEF UsersHere, DueListed, NodesHere, FavSteps, Writes, TheNode
<1>5. CASE LookFavorite \/ ListFavorites \/ ApplyDeleteFavorite
  <2>1. PICK s, x : s = Head(todo) /\ x = nid
    OBVIOUS
  <2>2. pc \in {"favs", "purgeFavs"} /\ UNCHANGED <<todo, nid>> /\ pc' \in {"favs", "purgeFavs"}
    BY <1>5 DEF LookFavorite, ListFavorites, ApplyDeleteFavorite
  <2>3. NodesOf(s.number) # {} /\ x = TheNode(s) /\ s = Head(todo)' /\ x = nid'
    BY <2>1, <2>2 DEF NodesHere, FavSteps
  <2>4. NodesOf(s.number)' = NodesOf(s.number) /\ TheNode(s)' = TheNode(s)
        /\ FavsOf(x)' = FavsOf(x)
    BY <1>0, NodesFrame
  <2>5. pc' = "purgeFavs" =>
          left' \subseteq {g \in FavsOf(x) : favs[g].number \notin Numbers_(s.favs)}
    BY <1>5, <2>1, <2>2 DEF LookFavorite, ListFavorites, ApplyDeleteFavorite, NodesHere
  <2>6. pc' = "purgeFavs" =>
          (left \subseteq {g \in FavsOf(nid) : favs[g].number \notin Numbers_(Head(todo).favs)})'
    BY <1>0, <2>3, <2>4, <2>5
  <2>7. NodesOf(Head(todo).number)' # {} /\ nid' = TheNode(Head(todo))'
    BY <2>3, <2>4 DEF TheNode
  <2> QED
    BY <2>2, <2>6, <2>7 DEF UsersHere, DueListed, NodesHere, FavSteps, Writes
<1>6. CASE ListNodes \/ ApplyDeleteNode \/ Report
  <2>1. pc' \in {"purgeNodes", "done"} /\ (pc' = "done" => left' = {})
        /\ left' \subseteq {x \in DOMAIN nodes : nodes[x].number \notin Numbers_(file.nodes)}
    BY <1>6 DEF ListNodes, ApplyDeleteNode, Report, NodesHere, place
  <2> QED
    BY <1>0, <2>1 DEF UsersHere, DueListed, NodesHere, FavSteps, Writes
<1>7. CASE LookUser \/ ToNodes \/ LookNode \/ NextNode \/ Exit \/ Abandon
  BY <1>2, <1>4, <1>7 DEF LookUser, ToNodes, LookNode, NextNode, Exit, Abandon, Ended
<1>8. ~ (ApplyCreateUser \/ ApplyUpdateUser \/ ApplyDeleteUser \/ ApplyCreateNode
         \/ ApplyUpdateNode \/ ApplyCreateFavorite \/ ApplyUpdateFavorite)
  BY DEF ApplyCreateUser, ApplyUpdateUser, ApplyDeleteUser, ApplyCreateNode,
     ApplyUpdateNode, ApplyCreateFavorite, ApplyUpdateFavorite, Writes
<1> QED
  BY <1>3, <1>5, <1>6, <1>7, <1>8 DEF Next, ServerStep

(* Every step of a run that is left alone keeps that what it is about is   *)
(* as it was read.                                                         *)
LEMMA HereStep ==
  TypeInv /\ PlaceInv /\ MatchInv /\ HereInv /\ [Next]_vars => HereInv'
<1> SUFFICES ASSUME TypeInv, PlaceInv, MatchInv, HereInv, [Next]_vars, quiet'
             PROVE  UsersHere' /\ NodesHere' /\ (dry' => pc' \notin Writes)
  BY DEF HereInv
<1>1. CASE Start
  BY <1>1 DEF Start, Goto, UsersHere, DueListed, NodesHere, FavSteps, Writes
<1>2. CASE ServerStep
  BY <1>2, ServerTouches
<1>3. CASE UNCHANGED vars
  <2>1. UNCHANGED <<users, nodes, favs, file, todo, favTodo, nid, found, left, pc, dry, quiet>>
    BY <1>3 DEF vars, tables, place
  <2>2. UsersHere /\ NodesHere /\ (dry => pc \notin Writes)
    BY <2>1 DEF HereInv
  <2>3. PICK u, s, g, x : /\ u = Head(todo) /\ s = Head(todo) /\ g = Head(favTodo) /\ x = nid
    OBVIOUS
  <2>4. u = Head(todo)' /\ s = Head(todo)' /\ g = Head(favTodo)' /\ x = nid'
    BY <2>1, <2>3
  <2>5. Named(Head(todo).name)' = Named(u.name) /\ Listed' = Listed /\ Unwanted' = Unwanted
    BY <2>1, <2>4, UsersFrame DEF Named
  <2>6. UsersHere'
    BY <2>1, <2>2, <2>3, <2>5 DEF UsersHere, DueListed
  <2>7. /\ NodesOf(Head(todo).number)' = NodesOf(s.number)
        /\ TheNode(Head(todo))' = TheNode(s)
        /\ FavsAt(nid, Head(favTodo).number)' = FavsAt(x, g.number)
        /\ FavsOf(nid)' = FavsOf(x)
    BY <2>1, <2>4 DEF NodesOf, TheNode, FavsAt, FavsOf
  <2>8. NodesHere'
    BY <2>1, <2>2, <2>3, <2>4, <2>7 DEF NodesHere
  <2> QED
    BY <2>1, <2>2, <2>6, <2>8
<1>4. CASE Next /\ ~ Start /\ ~ ServerStep
  <2>1. quiet' = quiet /\ dry' = dry
    BY <1>4, QuietStays
  <2>2. quiet
    BY <2>1, Zenon
  <2>3. UsersHere /\ NodesHere /\ (dry => pc \notin Writes)
    BY <2>2 DEF HereInv
  <2>4. CASE dry
    BY <1>4, <2>3, <2>4, DryIsHere
  <2>5. CASE ~ dry
    <3>1. ~ dry'
      BY <2>1, <2>5, Zenon
    <3>2. AllMatch'
      BY <3>1, MatchStep DEF MatchInv, AllMatch
    <3> QED
      BY <1>4, <3>1, <3>2, DiffersNext, RealIsHereNext
  <2> QED
    BY <2>4, <2>5
<1> QED
  BY <1>1, <1>2, <1>3, <1>4

(* Only the end of a run, and the server, change what is known of the run  *)
(* before, but for a count that fails; the steps in between belong to a    *)
(* run that has not failed.                                                *)
LEMMA LastStays ==
  ASSUME Next, ~ Start, ~ Exit, ~ Abandon, ~ ServerStep
  PROVE  /\ UNCHANGED <<last, told, foregone>>
         /\ plain' => plain
         /\ pc \notin {"idle", "failed"} /\ pc' # "idle"
<1> DEFINE Same == UNCHANGED <<last, told, foregone>>
           On   == pc \notin {"idle", "failed"} /\ pc' # "idle"
<1> USE DEF hist, Goto
<1>1. CASE LookUser \/ ApplyCreateUser \/ ApplyUpdateUser \/ ListUsers
           \/ ApplyDeleteUser \/ ToNodes \/ ApplyCreateNode \/ ApplyUpdateNode
  <2>1. Same /\ plain' = plain /\ On
    BY <1>1 DEF LookUser, ApplyCreateUser, ApplyUpdateUser, ListUsers,
       ApplyDeleteUser, ToNodes, ApplyCreateNode, ApplyUpdateNode, Fail
  <2> QED
    BY <2>1, Zenon
<1>2. CASE LookFavorite \/ ApplyCreateFavorite \/ ApplyUpdateFavorite \/ ListFavorites
           \/ ApplyDeleteFavorite \/ NextNode \/ ListNodes \/ ApplyDeleteNode \/ Report
  <2>1. Same /\ plain' = plain /\ On
    BY <1>2 DEF LookFavorite, ApplyCreateFavorite, ApplyUpdateFavorite, ListFavorites,
       ApplyDeleteFavorite, NextNode, ListNodes, ApplyDeleteNode, Report, Fail
  <2> QED
    BY <2>1, Zenon
<1>3. CASE CountSuperusers
  <2>1. Same /\ On
    BY <1>3 DEF CountSuperusers
  <2>2. plain' => plain
    BY <1>3, Zenon DEF CountSuperusers
  <2> QED
    BY <2>1, <2>2, Zenon
<1>4. CASE LookNode
  <2>1. Same /\ plain' = plain /\ On
    BY <1>4 DEF LookNode
  <2> QED
    BY <2>1, Zenon
<1> QED
  BY <1>1, <1>2, <1>3, <1>4, Zenon DEF Next, ServerStep

(* Every step keeps that nothing is counted between runs, and that the run *)
(* before is forgotten when the server changes something.                  *)
LEMMA RestStep ==
  RestInv /\ [Next]_vars => RestInv'
<1> SUFFICES ASSUME RestInv, [Next]_vars PROVE RestInv'
  OBVIOUS
<1>1. CASE Start
  BY <1>1 DEF Start, Goto, RestInv
<1>2. CASE ServerStep
  BY <1>2, ServerTouches DEF RestInv
<1>3. CASE Exit \/ Abandon
  <2>1. report' = 0 /\ passed' = 0 /\ quiet' = quiet
    BY <1>3 DEF Exit, Abandon, Ended
  <2>2. last' # "none" => quiet
    BY <1>3 DEF Exit, Abandon, Ended
  <2>3. last' # "none" => quiet'
    BY <2>1, <2>2, Zenon
  <2> QED
    BY <2>1, <2>3 DEF RestInv
<1>4. CASE UNCHANGED vars
  BY <1>4 DEF vars, hist, RestInv
<1>5. CASE Next /\ ~ Start /\ ~ Exit /\ ~ Abandon /\ ~ ServerStep
  <2>1. last' = last /\ pc' # "idle"
    BY <1>5, LastStays
  <2>2. quiet' = quiet
    BY <1>5, QuietStays
  <2>3. last # "none" => quiet
    BY DEF RestInv
  <2>4. last' # "none" => quiet'
    BY <2>1, <2>2, <2>3, Zenon
  <2> QED
    BY <2>1, <2>4 DEF RestInv
<1> QED
  BY <1>1, <1>2, <1>3, <1>4, <1>5

-----------------------------------------------------------------------------
(* What is due at the beginning and at the end of a run *)

(* Before a run, and when it begins, all is due. *)
AllDue == TypeInv /\ (pc = "idle" \/ (pc = "users" /\ todo = file.users)) => Due = All

(* It is so in every state of the right type. *)
LEMMA AllDueNow == AllDue
<1> SUFFICES ASSUME TypeInv, pc = "idle" \/ (pc = "users" /\ todo = file.users)
             PROVE  Due = All
  BY DEF AllDue
<1>1. UsersAhead = DOMAIN file.users
  <2>1. DOMAIN file.users = 1 .. Len(file.users) /\ Len(file.users) \in Nat
    BY FileIs, LenProperties
  <2>2. pc = "users" => Through(file.users) = 0
    BY <2>1 DEF Through
  <2> QED
    BY <2>1, <2>2 DEF UsersAhead, UserSteps
<1>2. UsersDue = UsersOut
  BY DEF UsersDue, BeforeNodes, UserSteps, UsersOut
<1>3. NodesAhead = DOMAIN file.nodes /\ ListsAhead = DOMAIN file.nodes
  BY DEF NodesAhead, ListsAhead, BeforeNodes, UserSteps
<1>4. FavsAhead = FavPlaces
  BY <1>3, PlaceIs DEF FavsAhead
<1>5. StraysDue = Strays(DOMAIN file.nodes)
  BY <1>3 DEF StraysDue
<1>6. NodesDue = NodesOut
  BY DEF NodesDue
<1> QED
  BY <1>1, <1>2, <1>3, <1>4, <1>5, <1>6 DEF Due, All

(* So it is after the step that begins or ends one. *)
LEMMA AllDueNext == AllDue'
BY AllDueNow, PTL

(* How much is due is a number. *)
CountsDue == TypeInv /\ UsersHere /\ NodesHere => Due \in Nat

(* The parts of what is due are finite. *)
LEMMA DueCounts == CountsDue
<1> SUFFICES ASSUME TypeInv, UsersHere, NodesHere PROVE Due \in Nat
  BY DEF CountsDue
<1>1. /\ Cardinality(UserGaps(UsersAhead)) \in Nat /\ Cardinality(UsersDue) \in Nat
      /\ Cardinality(NodeGaps(NodesAhead)) \in Nat /\ Cardinality(FavGaps(FavsAhead)) \in Nat
      /\ Cardinality(StraysDue) \in Nat /\ Cardinality(NodesDue) \in Nat
  BY DueFinite, FS_CardinalityType
<1> QED
  BY <1>1 DEF Due

(* It is one after a step, too. *)
LEMMA DueCountsNext == CountsDue'
BY DueCounts, PTL

(* What a run would change is the same while the tables are. *)
LEMMA AllStays ==
  ASSUME UNCHANGED <<users, nodes, favs, file>>
  PROVE  All' = All
<1>1. PICK A, B, P : A = DOMAIN file.users /\ B = DOMAIN file.nodes /\ P = FavPlaces
  OBVIOUS
<1>2. A = DOMAIN file.users' /\ B = DOMAIN file.nodes' /\ P = FavPlaces'
  BY <1>1 DEF FavPlaces
<1>3. UserGaps(DOMAIN file.users)' = UserGaps(DOMAIN file.users)
  BY DEF UserGaps, UserDiffers, Named
<1>4. UsersOut' = UsersOut
  BY DEF UsersOut, Unwanted
<1>5. NodeGaps(B)' = NodeGaps(B) /\ FavGaps(P)' = FavGaps(P) /\ Strays(B)' = Strays(B)
      /\ NodesOut' = NodesOut
  BY GapsFrame
<1>6. /\ NodeGaps(DOMAIN file.nodes)' = NodeGaps(DOMAIN file.nodes)
      /\ FavGaps(FavPlaces)' = FavGaps(FavPlaces)
      /\ Strays(DOMAIN file.nodes)' = Strays(DOMAIN file.nodes)
  <2>1. /\ NodeGaps(DOMAIN file.nodes)' = NodeGaps(B)'
        /\ FavGaps(FavPlaces)' = FavGaps(P)'
        /\ Strays(DOMAIN file.nodes)' = Strays(B)'
    BY <1>2 DEF NodeGaps, FavGaps, Strays
  <2> QED
    BY <1>1, <1>5, <2>1
<1> QED
  BY <1>3, <1>4, <1>5, <1>6 DEF All

(* Nothing is due when a run is over. *)
LEMMA NothingDue ==
  ASSUME NodesHere, pc = "done"
  PROVE  Due = 0
<1>1. NothingAhead
  BY NoneAhead
<1>2. UsersAhead = {} /\ UsersDue = {} /\ NodesDue = {}
  BY DEF UsersAhead, UserSteps, UsersDue, BeforeNodes, NodesDue, NodesHere
<1>3. UserGaps(UsersAhead) = {} /\ NodeGaps(NodesAhead) = {} /\ FavGaps(FavsAhead) = {}
  BY <1>1, <1>2 DEF UserGaps, NodeGaps, FavGaps, NothingAhead
<1>4. Cardinality({}) = 0
  BY FS_EmptySet
<1> QED
  BY <1>1, <1>2, <1>3, <1>4 DEF Due, NothingAhead

(* What could be told can be told while the tables are the same. *)
LEMMA ForeseenKept ==
  ASSUME UNCHANGED <<users, nodes, favs, file>>, Foreseen
  PROVE  Foreseen'
BY NodesFrame, ForeseenStays

(* What is due does not change while nothing else does. *)
LEMMA DueStutters ==
  ASSUME TypeInv, UsersHere, NodesHere, UNCHANGED vars
  PROVE  SumKept
<1>1. UNCHANGED <<users, nodes, favs, file, todo, favTodo, left, found, pc, report, passed>>
      /\ report \in Nat /\ passed \in Nat
  BY DEF vars, tables, place, hist, TypeInv, CountInv
<1>2. UsersAhead' = UsersAhead /\ UsersDue' = UsersDue
  BY <1>1 DEF UsersAhead, Through, UsersDue, UsersOut, Unwanted
<1>3. NodesAhead' = NodesAhead
  BY <1>1 DEF NodesAhead, Through
<1>4. ListsAhead' = ListsAhead
  BY <1>1, <1>3 DEF ListsAhead, Through
<1>5. FavsAhead' = FavsAhead
  BY <1>1, <1>3 DEF FavsAhead, FavPlaces, Through, ThroughFavs
<1>6. StraysDue' = StraysDue
  <2>1. PICK A : A = ListsAhead
    OBVIOUS
  <2>2. Strays(ListsAhead)' = Strays(A)'
    BY <1>4, <2>1 DEF Strays
  <2>3. Strays(A)' = Strays(A)
    BY <1>1, GapsFrame
  <2> QED
    BY <1>1, <2>1, <2>2, <2>3 DEF StraysDue
<1>7. NodesDue' = NodesDue
  BY <1>1 DEF NodesDue, NodesOut
<1>8. UserMoves(0, 0) /\ NodeMoves(0, 0) /\ FavMoves(0, 0)
  BY <1>1, <1>2, <1>3, <1>5, <1>6, <1>7, UsersNotTaken, NodesNotTaken
<1>9. /\ report' + passed' = report + passed + (0 + 0 + 0 + 0 + 0 + 0)
      /\ report' \in Nat /\ passed' \in Nat
  BY <1>1
<1> QED
  BY <1>8, <1>9, CountedIsTaken

(* When a run begins, all is due: of a dry run, as much as it would change;*)
(* of the run after a dry one, as much as that one told and passed over.   *)
LEMMA DueBegins ==
  ASSUME TypeInv, TypeInv', HereInv', RestInv, DueInv, Start, Telling'
  PROVE  report' + passed' + Due' = Owed'
<1>1. /\ pc = "idle" /\ pc' = "users" /\ todo' = file.users /\ report' = 0 /\ passed' = 0
      /\ quiet' /\ UNCHANGED <<users, nodes, favs, file, last, told, foregone>>
  BY DEF Start, Goto, tables
<1>2. Due' = All' /\ All' = All /\ Due = All
  <2>1. Due' = All'
    BY <1>1, AllDueNext DEF AllDue
  <2>2. Due = All
    BY <1>1, AllDueNow DEF AllDue
  <2> QED
    BY <1>1, <2>1, <2>2, AllStays
<1>3. Due' \in Nat
  <2>1. UsersHere' /\ NodesHere'
    BY <1>1 DEF HereInv
  <2> QED
    BY <2>1, DueCountsNext DEF CountsDue
<1>4. CASE dry'
  <2>1. Owed' = All'
    BY <1>1, <1>4 DEF Owed, InDry
  <2> QED
    BY <1>1, <1>2, <1>3, <2>1
<1>5. CASE ~ dry'
  <2>1. NoDuplicates
    BY <1>1 DEF Telling, NoDuplicates
  <2>2. last = "dry"
    BY <1>1, <1>5 DEF Telling, InDry
  <2>3. quiet /\ report = 0 /\ passed = 0
    BY <1>1, <2>2 DEF RestInv
  <2>4. report + passed + Due = Owed
    BY <1>1, <2>1, <2>2, <2>3 DEF DueInv, Telling
  <2>5. Owed = told + foregone /\ Owed' = told' + foregone'
    BY <1>1, <1>5 DEF Owed, InDry
  <2> QED
    BY <1>1, <1>2, <1>3, <2>3, <2>4, <2>5
<1> QED
  BY <1>4, <1>5

(* What a dry run that is over leaves behind. *)
LEMMA DryRunOver ==
  ASSUME TypeInv, Exit, Telling'
  PROVE  /\ pc = "done" /\ pc' = "idle" /\ report' = 0 /\ passed' = 0
         /\ quiet /\ dry /\ last' = "dry" /\ told' = report /\ foregone' = passed
         /\ report \in Nat /\ passed \in Nat /\ NoDuplicates
         /\ UNCHANGED <<users, nodes, favs, file>>
         /\ plain' => plain
<1>1. /\ pc = "done" /\ pc' = "idle" /\ report' = 0 /\ passed' = 0
      /\ report \in Nat /\ passed \in Nat /\ UNCHANGED <<users, nodes, favs, file>>
      /\ plain' => plain
  BY DEF Exit, Ended, Goto, tables, TypeInv, CountInv
<1>2. last' = "dry"
  BY <1>1 DEF Telling, InDry
<1>3. last' = IF quiet THEN IF dry THEN "dry" ELSE "real" ELSE "none"
  BY DEF Exit, Ended
<1>4. quiet /\ dry
  BY <1>2, <1>3
<1>5. told' = report /\ foregone' = passed
  BY <1>4 DEF Exit, Ended
<1>6. NoDuplicates
  BY <1>1 DEF Telling, NoDuplicates
<1> QED
  BY <1>1, <1>2, <1>4, <1>5, <1>6

(* When a dry run ends, it has told what the next run would change, but    *)
(* for what it passed over.                                                *)
LEMMA DueEnds ==
  ASSUME TypeInv, TypeInv', HereInv, DueInv, Exit, Telling'
  PROVE  report' + passed' + Due' = Owed'
<1>1. /\ pc = "done" /\ pc' = "idle" /\ report' = 0 /\ passed' = 0
      /\ quiet /\ dry /\ told' = report /\ foregone' = passed
      /\ report \in Nat /\ passed \in Nat /\ NoDuplicates
      /\ UNCHANGED <<users, nodes, favs, file>>
  BY DryRunOver
<1>2. report + passed + Due = Owed /\ Owed = All
  BY <1>1 DEF DueInv, Telling, Owed, InDry
<1>3. Due = 0
  BY <1>1, NothingDue DEF HereInv
<1>4. Due' = All' /\ All' = All
  BY <1>1, AllDueNext, AllStays DEF AllDue
<1>5. Owed' = told' + foregone'
  BY <1>1 DEF Owed, InDry
<1> QED
  BY <1>1, <1>2, <1>3, <1>4, <1>5

(* In between the run was being told, or told, before the step.            *)
LEMMA ToldBefore ==
  ASSUME Telling', Next, ~ Start, ~ Exit, ~ Abandon, ~ ServerStep
  PROVE  Telling
<1>1. UNCHANGED last /\ pc \notin {"idle", "failed"} /\ pc' # "idle"
  BY LastStays
<1>2. quiet' = quiet /\ dry' = dry
  BY QuietStays
<1>3. quiet
  BY <1>2, Zenon DEF Telling
<1>4. last = "dry" \/ dry
  <2>1. last' = "dry" \/ dry'
    BY DEF Telling, InDry
  <2>2. CASE last' = "dry"
    BY <1>1, <2>2
  <2>3. CASE dry'
    BY <1>2, <2>3, Zenon
  <2> QED
    BY <2>1, <2>2, <2>3
<1>5. NoDuplicates
  BY FileStays DEF Telling, NoDuplicates
<1> QED
  BY <1>1, <1>3, <1>4, <1>5 DEF Telling, InDry

(* Then what has been counted, passed over and is due remain together what *)
(* they were.                                                              *)
LEMMA DueGoesOn ==
  ASSUME TypeInv, PlaceInv, HereInv, DueInv, Telling',
         Next, ~ Start, ~ Exit, ~ Abandon, ~ ServerStep
  PROVE  report' + passed' + Due' = Owed'
<1>1. UNCHANGED <<told, foregone>> /\ pc \notin {"idle", "failed"} /\ pc' # "idle"
  BY LastStays
<1>2. Telling /\ dry' = dry
  BY ToldBefore, QuietStays
<1>3. report + passed + Due = Owed /\ NoDuplicates
  BY <1>2 DEF DueInv, Telling
<1>4. UsersHere /\ NodesHere /\ (dry => pc \notin Writes)
  BY <1>2 DEF HereInv, Telling
<1>5. SumKept
  BY <1>1, <1>3, <1>4, RunCounts
<1>6. Owed' = Owed
  <2>1. CASE dry
    <3>1. UNCHANGED <<users, nodes, favs, file>>
      BY <1>4, <2>1, DryKeeps
    <3>2. dry'
      BY <1>2, <2>1, Zenon
    <3> QED
      BY <1>1, <2>1, <3>1, <3>2, AllStays DEF Owed, InDry
  <2>2. CASE ~ dry
    <3>1. ~ dry'
      BY <1>2, <2>2, Zenon
    <3> QED
      BY <1>1, <2>2, <3>1 DEF Owed, InDry
  <2> QED
    BY <2>1, <2>2
<1> QED
  BY <1>3, <1>5, <1>6 DEF SumKept

(* So they do when nothing happens. *)
LEMMA DueRests ==
  ASSUME TypeInv, HereInv, DueInv, Telling', UNCHANGED vars
  PROVE  /\ report' + passed' + Due' = Owed' /\ Telling
         /\ plain' => plain
         /\ UNCHANGED <<users, nodes, favs, file, pc, passed, foregone>> /\ dry' = dry
<1>1. UNCHANGED <<users, nodes, favs, file, pc, last, told, passed, foregone>>
  BY DEF vars, tables, hist
<1>2. UNCHANGED <<plain, quiet, dry>>
  BY DEF vars, hist
<1>3. quiet /\ (plain' => plain) /\ dry' = dry
  BY <1>2, Zenon DEF Telling
<1>4. NoDuplicates /\ pc # "failed"
  BY <1>1 DEF Telling, NoDuplicates
<1>5. last = "dry" \/ InDry
  BY <1>1, <1>2 DEF Telling, InDry
<1>6. Telling /\ report + passed + Due = Owed
  BY <1>3, <1>4, <1>5 DEF DueInv, Telling
<1>7. SumKept
  BY <1>3, DueStutters DEF HereInv
<1>8. Owed' = Owed
  BY <1>1, <1>2, AllStays DEF Owed, InDry
<1> QED
  BY <1>1, <1>3, <1>6, <1>7, <1>8 DEF SumKept

(* Every step keeps what is counted, passed over and due in balance. *)
LEMMA DueStep ==
  TypeInv /\ TypeInv' /\ PlaceInv /\ HereInv /\ HereInv' /\ RestInv /\ DueInv /\ [Next]_vars
  => DueInv'
<1> SUFFICES ASSUME TypeInv, TypeInv', PlaceInv, HereInv, HereInv', RestInv, DueInv,
                    [Next]_vars, Telling'
             PROVE  report' + passed' + Due' = Owed'
  BY DEF DueInv, Telling
<1>1. CASE Start
  BY <1>1, DueBegins
<1>2. CASE Exit
  BY <1>2, DueEnds
<1>3. CASE Abandon
  BY <1>3 DEF Abandon, Ended, Goto, Telling, InDry
<1>4. CASE ServerStep
  <2>1. ~ quiet'
    BY <1>4, ServerTouches
  <2> QED
    BY <2>1 DEF Telling
<1>5. CASE UNCHANGED vars
  BY <1>5, DueRests
<1>6. CASE Next /\ ~ Start /\ ~ Exit /\ ~ Abandon /\ ~ ServerStep
  BY <1>6, DueGoesOn
<1> QED
  BY <1>1, <1>2, <1>3, <1>4, <1>5, <1>6

-----------------------------------------------------------------------------
(* A dry run that can tell *)

(* Nothing is passed over when no count fails and all could be told. *)
LEMMA NonePassed ==
  ASSUME TypeInv, PlaceInv, UsersHere, Foreseen, plain',
         Next, ~ Start, ~ Exit, ~ Abandon, ~ ServerStep
  PROVE  passed' = passed
<1>1. passed \in Nat
  BY DEF TypeInv, CountInv
<1>2. CASE CountSuperusers
  <2>1. pc = "purgeUsers" /\ left \subseteq Listed
    BY <1>2 DEF CountSuperusers, UsersHere, DueListed
  <2>2. PICK r \in left, failed \in BOOLEAN :
          LET super_ == r.perm = "superuser"
              skip   == super_ /\ (failed \/ Superusers <= 1)
          IN /\ passed' = passed + (IF skip THEN 1 ELSE 0)
             /\ plain' = (plain /\ ~(super_ /\ failed))
    BY <1>2 DEF CountSuperusers, Pass
  <2>3. ~(r.perm = "superuser" /\ failed)
    BY <2>2, Zenon
  <2>4. ~(r.perm = "superuser" /\ Superusers <= 1)
    BY <2>1, NoneSkipped
  <2> QED
    BY <1>1, <2>2, <2>3, <2>4
<1>3. CASE LookNode
  <2>1. pc = "nodes" /\ todo # <<>>
    BY <1>3 DEF LookNode
  <2>2. \E k \in Nat : \E s \in NodeSpec :
          s = Head(todo) /\ s = file.nodes[k + 1] /\ k + 1 \in DOMAIN file.nodes
    BY <2>1, EntryHere DEF NodeSteps
  <2>3. NodesOf(Head(todo).number) # {} \/ Head(todo).favs = <<>>
    BY <2>2 DEF Foreseen
  <2>4. Head(todo).favs = <<>> => Len(Head(todo).favs) = 0
    OBVIOUS
  <2> QED
    BY <1>1, <1>3, <2>3, <2>4 DEF LookNode, Pass
<1>4. CASE ~ CountSuperusers /\ ~ LookNode
  BY <1>4, PassedStays DEF Next, ServerStep
<1> QED
  BY <1>2, <1>3, <1>4

(* Every step keeps that a run that can be told passes nothing over. *)
LEMMA PlainStep ==
  TypeInv /\ PlaceInv /\ HereInv /\ RestInv /\ DueInv /\ PlainInv /\ [Next]_vars => PlainInv'
<1> SUFFICES ASSUME TypeInv, PlaceInv, HereInv, RestInv, DueInv, PlainInv, [Next]_vars,
                    Telling', plain'
             PROVE  Foreseen' /\ passed' = 0 /\ (InDry' \/ foregone' = 0)
  BY DEF PlainInv
<1>1. CASE Start
  <2>1. /\ pc = "idle" /\ pc' = "users" /\ passed' = 0
        /\ UNCHANGED <<users, nodes, favs, file, last, foregone>>
        /\ plain' = (IF dry' THEN Foreseen ELSE plain)
    BY <1>1 DEF Start, Goto, tables
  <2>2. CASE dry'
    <3>1. Foreseen
      BY <2>1, <2>2
    <3> QED
      BY <2>1, <2>2, <3>1, ForeseenKept DEF InDry
  <2>3. CASE ~ dry'
    <3>1. plain
      BY <2>1, <2>3, Zenon
    <3>2. NoDuplicates /\ last = "dry"
      BY <2>1, <2>3 DEF Telling, NoDuplicates, InDry
    <3>3. Telling /\ ~ InDry
      BY <2>1, <3>2 DEF Telling, RestInv, InDry
    <3>4. Foreseen /\ foregone = 0
      BY <3>1, <3>3 DEF PlainInv
    <3> QED
      BY <2>1, <3>4, ForeseenKept
  <2> QED
    BY <2>2, <2>3
<1>2. CASE Exit
  <2>1. /\ pc = "done" /\ quiet /\ dry /\ passed' = 0 /\ foregone' = passed /\ NoDuplicates
        /\ UNCHANGED <<users, nodes, favs, file>> /\ plain
    BY <1>2, DryRunOver
  <2>2. Telling
    BY <2>1 DEF Telling, InDry
  <2>3. Foreseen /\ passed = 0
    BY <2>1, <2>2 DEF PlainInv
  <2> QED
    BY <2>1, <2>3, ForeseenKept
<1>3. CASE Abandon
  BY <1>3 DEF Abandon, Ended, Goto, Telling, InDry
<1>4. CASE ServerStep
  BY <1>4, ServerTouches
<1>5. CASE UNCHANGED vars
  <2>1. /\ Telling /\ plain /\ dry' = dry
        /\ UNCHANGED <<users, nodes, favs, file, pc, passed, foregone>>
    BY <1>5, DueRests
  <2>2. Foreseen /\ passed = 0 /\ (InDry \/ foregone = 0)
    BY <2>1 DEF PlainInv
  <2>3. InDry => InDry'
    BY <2>1 DEF InDry
  <2> QED
    BY <2>1, <2>2, <2>3, ForeseenKept
<1>6. CASE Next /\ ~ Start /\ ~ Exit /\ ~ Abandon /\ ~ ServerStep
  <2>1. foregone' = foregone /\ plain /\ pc # "idle" /\ pc' # "idle"
    BY <1>6, LastStays
  <2>2. Telling /\ dry' = dry
    BY <1>6, ToldBefore, QuietStays
  <2>3. Foreseen /\ passed = 0 /\ (InDry \/ foregone = 0)
    BY <2>1, <2>2 DEF PlainInv
  <2>4. UsersHere /\ NodesHere /\ NoDuplicates
    BY <2>2 DEF HereInv, Telling
  <2>5. Foreseen'
    BY <1>6, <2>1, <2>3, <2>4, RunCounts
  <2>6. passed' = 0
    BY <1>6, <2>3, <2>4, NonePassed
  <2>7. InDry => InDry'
    BY <2>1, <2>2 DEF InDry
  <2> QED
    BY <2>1, <2>3, <2>5, <2>6, <2>7
<1> QED
  BY <1>1, <1>2, <1>3, <1>4, <1>5, <1>6

(* A dry run tells what the next run changes: for any file with one entry  *)
(* for each name and number, and any tables before, both count the same    *)
(* but for what each passes over while the server changes nothing, and     *)
(* when the dry run could tell and no count failed the totals are the same *)
(* (state/apply.go DryRun).                                                *)
THEOREM DryRunForetells ==
  Spec => []DryRunTells
<1>1. Init => HereInv /\ RestInv /\ DueInv /\ PlainInv
  BY DEF Init, HereInv, UsersHere, DueListed, NodesHere, FavSteps, Writes, RestInv, DueInv,
     PlainInv, Telling, InDry
<1>2. TypeInv /\ PlaceInv /\ MatchInv /\ HereInv /\ [Next]_vars => HereInv'
  BY HereStep
<1>3. RestInv /\ [Next]_vars => RestInv'
  BY RestStep
<1>4. TypeInv /\ TypeInv' /\ PlaceInv /\ HereInv /\ HereInv' /\ RestInv /\ DueInv /\ [Next]_vars
      => DueInv'
  BY DueStep
<1>5. TypeInv /\ PlaceInv /\ HereInv /\ RestInv /\ DueInv /\ PlainInv /\ [Next]_vars => PlainInv'
  BY PlainStep
<1>6. TypeInv /\ HereInv /\ DueInv /\ PlainInv => DryRunTells
  <2> SUFFICES ASSUME TypeInv, HereInv, DueInv, PlainInv, pc = "done", quiet, ~dry,
                      last = "dry", NoDuplicates
               PROVE  report + passed = told + foregone /\ (plain => report = told)
    BY DEF DryRunTells
  <2>1. Telling /\ ~ InDry
    BY DEF Telling, InDry
  <2>2. report + passed + Due = told + foregone
    BY <2>1 DEF DueInv, Owed
  <2>3. Due = 0
    BY NothingDue DEF HereInv
  <2>4. report \in Nat /\ passed \in Nat /\ told \in Nat /\ foregone \in Nat
    BY DEF TypeInv, CountInv
  <2>5. plain => passed = 0 /\ foregone = 0
    BY <2>1 DEF PlainInv
  <2> QED
    BY <2>2, <2>3, <2>4, <2>5
<1> QED
  BY <1>1, <1>2, <1>3, <1>4, <1>5, <1>6, MatchHolds, PTL DEF Spec

=============================================================================
