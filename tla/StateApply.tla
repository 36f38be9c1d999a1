----------------------------- MODULE StateApply -----------------------------
(***************************************************************************)
(* yaamon apply: a state file is brought into the database, statement by   *)
(* statement and without a transaction, by a process of its own            *)
(* (internal/state/apply.go, cmd/yaamon/cli.go), while the server's        *)
(* handlers change the same tables (internal/server/favorites.go and       *)
(* users.go, nodes.go; internal/db/nodes.go, favorites.go).                *)
(*                                                                         *)
(* Of a node or favorite only its number and one value for its other       *)
(* columns are kept. Passwords (--reset-passwords) are left out.           *)
(***************************************************************************)
EXTENDS Naturals, FiniteSets, Sequences

CONSTANTS
  Names, Numbers, Data,   \* user names, node numbers, contents of a row
  Files,                  \* state files: what they list, what they purge
  Starts,                 \* databases before: the tables and the next id
  MaxRuns, MaxEdits       \* bounds: runs of apply, changes by the server

Perms     == {"superuser", "readonly"}
UserSpec  == [name : Names, perm : Perms]
FavSpec   == [number : Numbers, data : Data]
NodeSpec  == [number : Numbers, data : Data, favs : Seq(FavSpec)]
StateFile == [purge : [users : BOOLEAN, nodes : BOOLEAN, favs : BOOLEAN],
              users : Seq(UserSpec), nodes : Seq(NodeSpec)]

IsTable(t, Row) == t \in [DOMAIN t -> Row]

(* What the schema keeps: a user's name is its own, a favorite's node      *)
(* exists, and an id is not given out twice.                               *)
Consistent(us, ns, fs, next) ==
  /\ next \in Nat \ {0}
  /\ DOMAIN us \cup DOMAIN ns \cup DOMAIN fs \subseteq 1 .. next - 1
  /\ IsTable(us, UserSpec)
  /\ \A u, v \in DOMAIN us : us[u].name = us[v].name => u = v
  /\ IsTable(ns, [number : Numbers, data : Data])
  /\ IsTable(fs, [node : DOMAIN ns, number : Numbers, data : Data])

ASSUME ApplyAssumption ==
  /\ MaxRuns \in Nat /\ MaxEdits \in Nat /\ Files \subseteq StateFile
  /\ \A d \in Starts : Consistent(d.users, d.nodes, d.favs, d.next)

VARIABLES
  users, nodes, favs,  \* the tables: id to row
  serial,              \* the next id
  file, dry,           \* what is applied, and whether only in appearance
  pc,                  \* the statement apply is at
  todo, favTodo,       \* entries still to be looked at
  nid, found, left,    \* node being applied, row found, rows to purge
  report,              \* ChangeReport.Total
  copy,                \* CopyFavorites between its two statements
  import,              \* an import of favorites between its statements
  runs, edits,         \* bounds
  quiet,               \* history: the server changed nothing in this run
  last, told, plain,   \* history: the run before, its total, Foreseen
  spared,              \* history: superusers left because their count failed
  passed, foregone,    \* history: changes found and not made; of the run before
  super                \* history: there was a superuser to purge around

tables == <<users, nodes, favs>>
place  == <<todo, favTodo, nid, found, left>>
hist   == <<last, told, plain, spared, passed, foregone>>
vars   == <<tables, serial, file, dry, pc, place, report, copy, import, runs,
            edits, quiet, hist, super>>

NoCopy   == [dst |-> 0, seen |-> {}, had |-> {}, was |-> {}]
NoImport == [dst |-> 0, seen |-> {}, had |-> {}, was |-> {}, rest |-> {}, data |-> ""]
Lowest(S) == CHOOSE x \in S : \A y \in S : x <= y
Names_(s) == {s[i].name : i \in DOMAIN s}
Numbers_(s) == {s[i].number : i \in DOMAIN s}

Named(n)      == {u \in DOMAIN users : users[u].name = n}
NodesOf(n)    == {x \in DOMAIN nodes : nodes[x].number = n}
FavsOf(x)     == {f \in DOMAIN favs : favs[f].node = x}
FavsAt(x, n)  == {f \in FavsOf(x) : favs[f].number = n}
NumbersOf(x)  == {favs[f].number : f \in FavsOf(x)}
Supers        == {u \in DOMAIN users : users[u].perm = "superuser"}
Without(t, D) == [x \in DOMAIN t \ D |-> t[x]]
With(t, row)  == [x \in DOMAIN t \cup {serial} |-> IF x = serial THEN row ELSE t[x]]
Put(t, x, row) == IF x \in DOMAIN t THEN [t EXCEPT ![x] = row] ELSE t

Init ==
  /\ \E d \in Starts :
       users = d.users /\ nodes = d.nodes /\ favs = d.favs /\ serial = d.next
  /\ file \in Files /\ dry = FALSE
  /\ pc = "idle" /\ todo = <<>> /\ favTodo = <<>>
  /\ nid = 0 /\ found = 0 /\ left = {}
  /\ report = 0 /\ copy = NoCopy /\ import = NoImport /\ runs = 0 /\ edits = 0
  /\ quiet = TRUE /\ last = "none" /\ told = 0 /\ plain = FALSE /\ super = FALSE
  /\ spared = {} /\ passed = 0 /\ foregone = 0

-----------------------------------------------------------------------------
(* Faulty variants of definitions below; none is part of the specification. *)

(* Mistake: a favorite is found by its number alone. *)
GetFavoriteAny(x, n) == {f \in DOMAIN favs : favs[f].number = n}

(* Mistake: a node counts as changed whenever it is listed. *)
NodeChangedAlways(x, spec) == TRUE

(* Mistake: a dry run counts the superusers it says it would leave. *)
SuperusersLeft == Cardinality(Supers) - (IF dry THEN report ELSE 0)

(* Mistake: what was copied is not added to what exists. *)
CopiedAll(ids, seen) == {f \in ids : favs[f].number \notin seen}

(* Mistake: the node's favorites stay when it is deleted. *)
CascadeNone(x) == {}

-----------------------------------------------------------------------------
Goto(l)  == pc' = l
Count(n) == report' = report + n

NoDuplicates ==
  /\ Cardinality(Names_(file.users)) = Len(file.users)
  /\ Cardinality(Numbers_(file.nodes)) = Len(file.nodes)
  /\ \A i \in DOMAIN file.nodes :
       LET fs == file.nodes[i].favs IN Cardinality(Numbers_(fs)) = Len(fs)

Unwanted == {u \in DOMAIN users : users[u].name \notin Names_(file.users)}

(* What a dry run can tell: it looks for the favorites of nodes that exist *)
(* and counts superusers as they are before the changes it leaves out.     *)
Foreseen ==
  /\ \A i \in DOMAIN file.nodes :
       NodesOf(file.nodes[i].number) # {} \/ file.nodes[i].favs = <<>>
  /\ \/ Supers \cap Unwanted = {}
     \/ \E i \in DOMAIN file.users : file.users[i].perm = "superuser" /\
          \E u \in Named(file.users[i].name) : users[u].perm = "superuser"

Start ==
  /\ pc = "idle" /\ runs < MaxRuns
  /\ runs' = runs + 1
  /\ dry' \in BOOLEAN
  /\ Goto("users") /\ todo' = file.users
  /\ report' = 0 /\ quiet' = TRUE /\ plain' = (IF dry' THEN Foreseen ELSE plain)
  /\ spared' = {} /\ passed' = 0
  /\ UNCHANGED <<tables, serial, file, favTodo, nid, found, left, copy,
                 import, edits, last, told, foregone, super>>

-----------------------------------------------------------------------------
(* applyUsers *)

LookUser ==
  LET spec == Head(todo)
      rows == Named(spec.name)
      changed == rows = {} \/ users[Lowest(rows)].perm # spec.perm
  IN /\ pc = "users" /\ todo # <<>>
     /\ IF changed /\ ~dry
        THEN /\ Goto(IF rows = {} THEN "createUser" ELSE "updateUser")
             /\ found' = IF rows = {} THEN 0 ELSE Lowest(rows)
             /\ UNCHANGED <<todo, report>>
        ELSE /\ todo' = Tail(todo) /\ Count(IF changed THEN 1 ELSE 0)
             /\ UNCHANGED <<pc, found>>
     /\ UNCHANGED <<tables, serial, file, dry, favTodo, nid, left, copy,
                    import, runs, edits, quiet, hist, super>>

Fail == Goto("failed") /\ UNCHANGED <<serial, todo, favTodo, nid, report>>

ApplyCreateUser ==
  LET spec == Head(todo)
  IN /\ pc = "createUser"
     /\ \/ /\ Named(spec.name) = {}
           /\ users' = With(users, [name |-> spec.name, perm |-> spec.perm])
           /\ serial' = serial + 1
           /\ Goto("users") /\ todo' = Tail(todo) /\ Count(1)
           /\ UNCHANGED <<favTodo, nid>>
        \/ Named(spec.name) # {} /\ Fail /\ UNCHANGED users
     /\ UNCHANGED <<nodes, favs, file, dry, found, left, copy, import, runs,
                    edits, quiet, hist, super>>

ApplyUpdateUser ==
  LET spec == Head(todo)
  IN /\ pc = "updateUser"
     /\ users' = Put(users, found, [name |-> spec.name, perm |-> spec.perm])
     /\ Goto("users") /\ todo' = Tail(todo) /\ Count(1)
     /\ UNCHANGED <<nodes, favs, serial, file, dry, favTodo, nid, found,
                    left, copy, import, runs, edits, quiet, hist, super>>

ListUsers ==
  /\ pc = "users" /\ todo = <<>>
  /\ Goto("purgeUsers")
  /\ left' = IF file.purge.users THEN {[id |-> u, perm |-> users[u].perm] : u \in Unwanted}
             ELSE {}
  /\ super' = (Supers # {})
  /\ UNCHANGED <<tables, serial, file, dry, todo, favTodo, nid, found,
                 report, copy, import, runs, edits, quiet, hist>>

Superusers == Cardinality(Supers)

Pass(n) == passed' = passed + n

(* The permission is the one listed; only superusers are counted. A count  *)
(* that fails is taken for 0: the run goes on and the superuser stays.     *)
CountSuperusers ==
  /\ pc = "purgeUsers"
  /\ \E r \in left, failed \in BOOLEAN :
       LET super_ == r.perm = "superuser"
           skip   == super_ /\ (failed \/ Superusers <= 1)
       IN /\ found' = r.id
          /\ left' = left \ {r}
          /\ Goto(IF skip \/ dry THEN "purgeUsers" ELSE "deleteUser")
          /\ Count(IF dry /\ ~skip THEN 1 ELSE 0)
          /\ Pass(IF skip THEN 1 ELSE 0)
          /\ spared' = spared \cup (IF super_ /\ failed THEN {r.id} ELSE {})
          /\ plain' = (plain /\ ~(super_ /\ failed))
  /\ UNCHANGED <<tables, serial, file, dry, todo, favTodo, nid, copy, import,
                 runs, edits, quiet, last, told, foregone, super>>

ApplyDeleteUser ==
  /\ pc = "deleteUser"
  /\ users' = Without(users, {found})
  /\ Goto("purgeUsers") /\ Count(1)
  /\ UNCHANGED <<nodes, favs, serial, file, dry, place, copy, import, runs,
                 edits, quiet, hist, super>>

-----------------------------------------------------------------------------
(* applyNodes *)

ToNodes ==
  /\ pc = "purgeUsers" /\ left = {}
  /\ Goto("nodes") /\ todo' = file.nodes
  /\ UNCHANGED <<tables, serial, file, dry, favTodo, nid, found, left,
                 report, copy, import, runs, edits, quiet, hist, super>>

NodeChanged(x, spec) == nodes[x].data # spec.data

(* A dry run leaves out the favorites of a node it would create. *)
LookNode ==
  LET spec == Head(todo)
      rows == NodesOf(spec.number)
      x    == Lowest(rows)
  IN /\ pc = "nodes" /\ todo # <<>>
     /\ \/ /\ rows = {} /\ dry
           /\ todo' = Tail(todo) /\ Count(1) /\ Pass(Len(spec.favs))
           /\ UNCHANGED <<pc, favTodo, nid>>
        \/ /\ rows = {} /\ ~dry
           /\ Goto("createNode")
           /\ UNCHANGED <<todo, favTodo, nid, report, passed>>
        \/ /\ rows # {}
           /\ nid' = x /\ favTodo' = spec.favs
           /\ Goto(IF NodeChanged(x, spec) /\ ~dry THEN "updateNode" ELSE "favs")
           /\ Count(IF NodeChanged(x, spec) /\ dry THEN 1 ELSE 0)
           /\ UNCHANGED <<todo, passed>>
     /\ UNCHANGED <<tables, serial, file, dry, found, left, copy, import,
                    runs, edits, quiet, last, told, plain, spared, foregone, super>>

ApplyCreateNode ==
  LET spec == Head(todo)
  IN /\ pc = "createNode"
     /\ nodes' = With(nodes, [number |-> spec.number, data |-> spec.data])
     /\ serial' = serial + 1 /\ nid' = serial /\ favTodo' = spec.favs
     /\ Goto("favs") /\ Count(1)
     /\ UNCHANGED <<users, favs, file, dry, todo, found, left, copy, import,
                    runs, edits, quiet, hist, super>>

ApplyUpdateNode ==
  LET spec == Head(todo)
  IN /\ pc = "updateNode"
     /\ nodes' = Put(nodes, nid, [number |-> spec.number, data |-> spec.data])
     /\ Goto("favs") /\ Count(1)
     /\ UNCHANGED <<users, favs, serial, file, dry, place, copy, import,
                    runs, edits, quiet, hist, super>>

GetFavorite(x, n) == FavsAt(x, n)

InsertFavorite(row) == favs' = With(favs, row) /\ serial' = serial + 1

(* applyFavorites *)
LookFavorite ==
  LET spec == Head(favTodo)
      rows == GetFavorite(nid, spec.number)
      changed == rows = {} \/ favs[Lowest(rows)].data # spec.data
  IN /\ pc = "favs" /\ favTodo # <<>>
     /\ IF changed /\ ~dry
        THEN /\ Goto(IF rows = {} THEN "createFav" ELSE "updateFav")
             /\ found' = IF rows = {} THEN 0 ELSE Lowest(rows)
             /\ UNCHANGED <<favTodo, report>>
        ELSE /\ favTodo' = Tail(favTodo) /\ Count(IF changed THEN 1 ELSE 0)
             /\ UNCHANGED <<pc, found>>
     /\ UNCHANGED <<tables, serial, file, dry, todo, nid, left, copy, import,
                    runs, edits, quiet, hist, super>>

ApplyCreateFavorite ==
  LET spec == Head(favTodo)
  IN /\ pc = "createFav"
     /\ \/ /\ nid \in DOMAIN nodes
           /\ InsertFavorite([node |-> nid, number |-> spec.number, data |-> spec.data])
           /\ Goto("favs") /\ favTodo' = Tail(favTodo) /\ Count(1)
           /\ UNCHANGED <<todo, nid>>
        \/ nid \notin DOMAIN nodes /\ Fail /\ UNCHANGED favs
     /\ UNCHANGED <<users, nodes, file, dry, found, left, copy, import, runs,
                    edits, quiet, hist, super>>

ApplyUpdateFavorite ==
  LET spec == Head(favTodo)
  IN /\ pc = "updateFav"
     /\ favs' = IF found \in DOMAIN favs
                THEN [favs EXCEPT ![found].number = spec.number,
                                  ![found].data = spec.data] ELSE favs
     /\ Goto("favs") /\ favTodo' = Tail(favTodo) /\ Count(1)
     /\ UNCHANGED <<users, nodes, serial, file, dry, todo, nid, found, left,
                    copy, import, runs, edits, quiet, hist, super>>

ListFavorites ==
  LET wanted == Numbers_(Head(todo).favs)
  IN /\ pc = "favs" /\ favTodo = <<>>
     /\ left' = IF file.purge.favs
                THEN {f \in FavsOf(nid) : favs[f].number \notin wanted} ELSE {}
     /\ Goto("purgeFavs")
     /\ UNCHANGED <<tables, serial, file, dry, todo, favTodo, nid, found,
                    report, copy, import, runs, edits, quiet, hist, super>>

ApplyDeleteFavorite ==
  /\ pc = "purgeFavs"
  /\ \E f \in left :
       /\ favs' = IF dry THEN favs ELSE Without(favs, {f})
       /\ left' = left \ {f}
  /\ Count(1)
  /\ UNCHANGED <<users, nodes, serial, file, dry, pc, todo, favTodo, nid,
                 found, copy, import, runs, edits, quiet, hist, super>>

NextNode ==
  /\ pc = "purgeFavs" /\ left = {}
  /\ Goto("nodes") /\ todo' = Tail(todo)
  /\ UNCHANGED <<tables, serial, file, dry, favTodo, nid, found, left,
                 report, copy, import, runs, edits, quiet, hist, super>>

ListNodes ==
  /\ pc = "nodes" /\ todo = <<>>
  /\ left' = IF file.purge.nodes
             THEN {x \in DOMAIN nodes : nodes[x].number \notin Numbers_(file.nodes)}
             ELSE {}
  /\ Goto("purgeNodes")
  /\ UNCHANGED <<tables, serial, file, dry, todo, favTodo, nid, found,
                 report, copy, import, runs, edits, quiet, hist, super>>

Cascade(x) == FavsOf(x)

DeleteNode(x) == nodes' = Without(nodes, {x}) /\ favs' = Without(favs, Cascade(x))

ApplyDeleteNode ==
  /\ pc = "purgeNodes"
  /\ \E x \in left :
       /\ IF dry THEN UNCHANGED <<nodes, favs>> ELSE DeleteNode(x)
       /\ left' = left \ {x}
  /\ Count(1)
  /\ UNCHANGED <<users, serial, file, dry, pc, todo, favTodo, nid, found,
                 copy, import, runs, edits, quiet, hist, super>>

-----------------------------------------------------------------------------
(* The run is over; the next one starts from what the tables are then. *)
Ended(how) ==
  /\ Goto("idle") /\ last' = how /\ told' = IF how = "none" THEN 0 ELSE report
  /\ report' = 0 /\ todo' = <<>> /\ favTodo' = <<>>
  /\ nid' = 0 /\ found' = 0 /\ left' = {}
  /\ spared' = {} /\ passed' = 0
  /\ foregone' = IF how = "none" THEN 0 ELSE IF dry THEN passed ELSE Cardinality(spared)
  /\ plain' = (plain /\ how = "dry")
  /\ UNCHANGED <<tables, serial, file, dry, copy, import, runs, edits, quiet, super>>

Report ==
  /\ pc = "purgeNodes" /\ left = {}
  /\ Goto("done")
  /\ UNCHANGED <<tables, serial, file, dry, place, report, copy, import,
                 runs, edits, quiet, hist, super>>

Exit    == pc = "done" /\ Ended(IF quiet THEN IF dry THEN "dry" ELSE "real" ELSE "none")
(* An error, or the process is killed: what was done stays done. *)
Abandon == pc \notin {"idle", "done"} /\ Ended("none")

-----------------------------------------------------------------------------
(* What the server does to the same tables *)

Disturb ==
  /\ quiet' = FALSE /\ last' = "none"
  /\ told' = 0 /\ plain' = FALSE /\ foregone' = 0
  /\ UNCHANGED <<file, dry, pc, place, report, runs, spared, passed, super>>

Edit == edits < MaxEdits /\ edits' = edits + 1 /\ Disturb

(* Nothing stops two favorites with one number. *)
CreateFavorite ==
  /\ \E x \in DOMAIN nodes, n \in Numbers, d \in Data :
       InsertFavorite([node |-> x, number |-> n, data |-> d])
  /\ Edit /\ UNCHANGED <<users, nodes, copy, import>>

UpdateFavorite ==
  /\ \E f \in DOMAIN favs, n \in Numbers, d \in Data :
       favs' = [favs EXCEPT ![f].number = n, ![f].data = d]
  /\ Edit /\ UNCHANGED <<users, nodes, serial, copy, import>>

DeleteFavorite ==
  /\ \E f \in DOMAIN favs : favs' = Without(favs, {f})
  /\ Edit /\ UNCHANGED <<users, nodes, serial, copy, import>>

(* A list of the favorites of a node that breaks off with an error goes    *)
(* for the whole list: any part of it may be seen.                         *)
SeenOf(x) == {{favs[f].number : f \in got} : got \in SUBSET FavsOf(x)}

(* CopyFavorites reads the numbers the destination has, then copies the    *)
(* others in a transaction; the first of several with one number goes.     *)
CopyList ==
  /\ copy = NoCopy
  /\ \E x \in DOMAIN nodes : \E seen \in SeenOf(x) :
       copy' = [dst |-> x, seen |-> seen, had |-> NumbersOf(x), was |-> FavsOf(x)]
  /\ Edit /\ UNCHANGED <<tables, serial, import>>

Copied(ids, seen) ==
  {f \in ids : favs[f].number \notin seen /\
                 \A g \in ids : favs[g].number = favs[f].number => f <= g}

CopyFavorites ==
  /\ copy # NoCopy
  /\ \/ \E x \in DOMAIN nodes : \E ids \in SUBSET FavsOf(x) :
          LET new == Copied(ids, copy.seen)
              at  == [f \in new |-> serial + Cardinality({g \in new : g < f})]
          IN /\ copy.dst \in DOMAIN nodes
             /\ favs' = [i \in DOMAIN favs \cup {at[f] : f \in new} |->
                           IF i \in DOMAIN favs THEN favs[i]
                           ELSE [favs[CHOOSE f \in new : at[f] = i] EXCEPT !.node = copy.dst]]
             /\ serial' = serial + Cardinality(new)
     \/ UNCHANGED <<favs, serial>>
  /\ copy' = NoCopy
  /\ Disturb /\ UNCHANGED <<users, nodes, import, edits>>

(* A favorites.ini file lists numbers, each of them once. *)
ParseINI == SUBSET Numbers

(* The import lists what the node has and creates the others one by one; *)
(* one that cannot be created is logged and passed over.                 *)
ImportList ==
  /\ import = NoImport
  /\ \E x \in DOMAIN nodes, wanted \in ParseINI, d \in Data : \E seen \in SeenOf(x) :
       /\ wanted \ seen # {}
       /\ import' = [dst |-> x, seen |-> seen, had |-> NumbersOf(x), was |-> FavsOf(x),
                     rest |-> wanted \ seen, data |-> d]
  /\ Edit /\ UNCHANGED <<tables, serial, copy>>

ImportFavorite ==
  /\ \E n \in import.rest :
       LET rest == [import EXCEPT !.rest = @ \ {n}]
           After(r) == IF r.rest = {} THEN NoImport ELSE r
       IN \/ /\ import.dst \in DOMAIN nodes
             /\ InsertFavorite([node |-> import.dst, number |-> n, data |-> import.data])
             /\ import' = After([rest EXCEPT !.seen = @ \cup {n}, !.had = @ \cup {n},
                                             !.was = @ \cup {serial}])
          \/ /\ import' = After(rest)
             /\ UNCHANGED <<favs, serial>>
  /\ Disturb /\ UNCHANGED <<users, nodes, copy, edits>>

CreateNode ==
  /\ \E n \in Numbers, d \in Data : nodes' = With(nodes, [number |-> n, data |-> d])
  /\ serial' = serial + 1
  /\ Edit /\ UNCHANGED <<users, favs, copy, import>>

UpdateNode ==
  /\ \E x \in DOMAIN nodes, d \in Data : nodes' = [nodes EXCEPT ![x].data = d]
  /\ Edit /\ UNCHANGED <<users, favs, serial, copy, import>>

RemoveNode ==
  /\ \E x \in DOMAIN nodes : DeleteNode(x)
  /\ Edit /\ UNCHANGED <<users, serial, copy, import>>

ChangeUsers ==
  /\ \/ /\ \E n \in Names, p \in Perms :
             Named(n) = {} /\ users' = With(users, [name |-> n, perm |-> p])
        /\ serial' = serial + 1
     \/ /\ \E u \in DOMAIN users : \/ users' = Without(users, {u})
                                   \/ \E p \in Perms : users' = [users EXCEPT ![u].perm = p]
        /\ UNCHANGED serial
  /\ Edit /\ UNCHANGED <<nodes, favs, copy, import>>

Next ==
  \/ Start \/ LookUser \/ ApplyCreateUser \/ ApplyUpdateUser
  \/ ListUsers \/ CountSuperusers \/ ApplyDeleteUser
  \/ ToNodes \/ LookNode \/ ApplyCreateNode \/ ApplyUpdateNode
  \/ LookFavorite \/ ApplyCreateFavorite \/ ApplyUpdateFavorite
  \/ ListFavorites \/ ApplyDeleteFavorite \/ NextNode
  \/ ListNodes \/ ApplyDeleteNode \/ Report \/ Exit \/ Abandon
  \/ CreateFavorite \/ UpdateFavorite \/ DeleteFavorite \/ CopyList \/ CopyFavorites
  \/ ImportList \/ ImportFavorite
  \/ CreateNode \/ UpdateNode \/ RemoveNode \/ ChangeUsers

Spec == Init /\ [][Next]_vars

-----------------------------------------------------------------------------
(* Whatever apply and the server do at once, a user's name is its own, no  *)
(* favorite outlives its node, and every row has its type (db.go's schema, *)
(* state/apply.go, db/nodes.go DeleteNode).                                *)
TypeOK == Consistent(users, nodes, favs, serial) /\ report \in Nat /\ told \in Nat

(* What the tables are to be: the last entry for a name or number counts,  *)
(* and what is not listed goes where the file says so.                     *)
UsersAsListed ==
  \A i \in DOMAIN file.users : LET s == file.users[i] IN
    (\A j \in i + 1 .. Len(file.users) : file.users[j].name # s.name) =>
      \E u \in Named(s.name) : users[u].perm = s.perm

NodesAsListed ==
  /\ \A i \in DOMAIN file.nodes : LET s == file.nodes[i] IN
       (\A j \in i + 1 .. Len(file.nodes) : file.nodes[j].number # s.number) =>
         /\ NodesOf(s.number) # {}
         /\ LET x == Lowest(NodesOf(s.number))
            IN /\ nodes[x].data = s.data
               /\ \A k \in DOMAIN s.favs : LET f == s.favs[k] IN
                    (\A j \in k + 1 .. Len(s.favs) : s.favs[j].number # f.number) =>
                      /\ FavsAt(x, f.number) # {}
                      /\ favs[Lowest(FavsAt(x, f.number))].data = f.data
               /\ file.purge.favs =>
                    \A g \in FavsOf(x) : favs[g].number \in Numbers_(s.favs)
  /\ file.purge.nodes => \A x \in DOMAIN nodes : nodes[x].number \in Numbers_(file.nodes)

(* What a purge of users leaves: the superusers whose count failed, or the *)
(* last one there is, and a superuser if there was one.                    *)
DescribedUsers ==
  /\ file.purge.users =>
       Unwanted \subseteq spared \/ (Unwanted = Supers /\ Cardinality(Supers) = 1)
  /\ file.purge.users /\ super => Supers # {}

DescribedRows == UsersAsListed /\ NodesAsListed
Described     == DescribedRows /\ DescribedUsers

(* A run nobody interfered with leaves the tables as the file describes    *)
(* them, also when it goes over what an abandoned run left behind; a purge *)
(* leaves a superuser if there is one by then, and of the users not listed *)
(* only those whose count of superusers failed (state/apply.go Apply).     *)
AppliedMatches == pc = "done" /\ quiet /\ ~dry => Described

(* Applied again, a file with one entry for each name and number makes no  *)
(* change but to catch up on superusers the run before left because their  *)
(* count failed (state/apply.go applyUsers; declarative-state.md: running  *)
(* it on every start is safe).                                             *)
AppliedTwice == pc = "done" /\ quiet /\ last = "real" /\ NoDuplicates => report <= foregone

(* A dry run and the run after it count the same changes, except that each *)
(* may pass some over: superusers its own count keeps, and in a dry run    *)
(* the favorites of nodes it would create. If the dry run could tell and   *)
(* no count failed, the two totals agree (state/apply.go: DryRun).         *)
DryRunTells ==
  pc = "done" /\ quiet /\ ~dry /\ last = "dry" /\ NoDuplicates =>
    /\ report + passed = told + foregone
    /\ plain => report = told

Unmoved(x, by) == by.dst = x /\ FavsOf(x) = by.was /\ NumbersOf(x) = by.had

(* A row added to node x has no other row's number, unless it is a number  *)
(* the listing missed.                                                     *)
AddsNew(x, by) ==
  \A g \in FavsOf(x)' \ FavsOf(x), h \in FavsOf(x)' :
    g # h /\ favs'[g].number = favs'[h].number =>
      h \in FavsOf(x) /\ favs'[h].number \notin by.seen

(* Neither a copy nor an import gives a node a number they saw it has, nor *)
(* one number twice, unless its favorites were changed after they were     *)
(* listed (db/favorites.go CopyFavorites and server/backup.go              *)
(* handleAPIFavoritesImport skip what exists; neither notices a list that  *)
(* broke off).                                                             *)
CopyAddsNew ==
  [][\A x \in DOMAIN nodes :
       /\ copy' # copy /\ Unmoved(x, copy) => AddsNew(x, copy)
       /\ import' # import /\ Unmoved(x, import) => AddsNew(x, import)]_vars
=============================================================================
