--------------------------- MODULE NodeLifecycle ---------------------------
(***************************************************************************)
(* Node administration: the nodes table (db/nodes.go), the AMI manager's   *)
(* map of clients (ami/manager.go), the HTTP handlers that change first    *)
(* the one and then the other (server/nodes.go, server/backup.go), the     *)
(* command line, which changes the table only (cmd/yaamon/node.go), and    *)
(* the start, shutdown and death of the server (server/server.go).         *)
(*                                                                         *)
(* A statement of the database is one step, and so is an operation of the  *)
(* manager, which holds its lock from beginning to end. Nothing spans two  *)
(* of them. Of a client, which AmiClient specifies, this module knows      *)
(* whether it was told to stop and whether it was started under a context  *)
(* that was still alive; either way out is AmiClient!StopTerminates.       *)
(***************************************************************************)
EXTENDS Naturals, Sequences, FiniteSets

CONSTANTS
  Handlers,    \* HTTP goroutines
  Admins,      \* runs of the command line
  Confs,       \* connection settings a node may have
  MayFail,     \* whether a request may be refused or a statement may fail
  MaxNode,     \* bound: the largest node ID
  MaxStored,   \* bound: nodes in the table at the first start
  MaxOps,      \* bound: requests and commands begun
  MaxClients,  \* bound: clients made by one run of the server
  MaxBoots     \* bound: starts of the server

ASSUME LifecycleAssumption ==
  /\ Confs # {}
  /\ Handlers \cap Admins = {}
  /\ MayFail \in BOOLEAN
  /\ MaxNode \in Nat /\ MaxStored \in 0 .. MaxNode
  /\ MaxOps \in Nat /\ MaxClients \in Nat /\ MaxBoots \in Nat

Procs == Handlers \cup Admins
Ids   == 1 .. MaxNode
Row   == [conf : Confs, enabled : BOOLEAN]
Field == {"conf", "enabled"}

VARIABLES
  nodes,      \* the table: a row for each node ID in its domain
  lastId,     \* the last ID given out (AUTOINCREMENT)
  clients,    \* Manager.clients: the number of each node's client
  made,       \* the Client objects made by this run of the server
  phase,      \* the server: "down", "loading", "serving", "cancelled", ...
  listing,    \* the rows initAMI has listed and not yet loaded
  boots,      \* starts so far
  pc,         \* each request or command: its next step, or "idle"
  id,         \* the node it is about
  row,        \* the settings asked for; after the read, those to be written
  given,      \* the fields it names
  todo,       \* the rows a creation or an import has yet to insert
  ops,        \* requests and commands begun
  alone,      \* no other request on the node has overlapped this one
  disturbed   \* nodes whose last changes overlapped, failed half way, or
              \* were made behind the running server's back

table   == <<nodes, lastId>>
manager == <<clients, made>>
server  == <<phase, listing, boots>>
reqVars == <<id, row, given, todo>>
ghosts  == <<alone, disturbed>>
vars    == <<table, manager, server, pc, reqVars, ops, ghosts>>

EmptyMap == [i \in {} |-> i]
Put(f, i, v) == [j \in DOMAIN f \cup {i} |-> IF j = i THEN v ELSE f[j]]
Drop(f, i)   == [j \in DOMAIN f \ {i} |-> f[j]]

Blank == CHOOSE r \in Row : TRUE

Init ==
  /\ lastId \in 0 .. MaxStored
  /\ nodes \in [1 .. lastId -> Row]
  /\ clients = EmptyMap /\ made = <<>>
  /\ phase = "down" /\ listing = EmptyMap /\ boots = 0
  /\ pc = [p \in Procs |-> "idle"]
  /\ id = [p \in Procs |-> 0]
  /\ row = [p \in Procs |-> Blank]
  /\ given = [p \in Procs |-> {}]
  /\ todo = [p \in Procs |-> <<>>]
  /\ ops = 0
  /\ alone = [p \in Procs |-> FALSE]
  /\ disturbed = {}

-----------------------------------------------------------------------------
(* Faulty variants of definitions below; none is part of the specification. *)

(* Mistake: the client that is replaced is not stopped. *)
StoppedNot(i) == made

(* Mistake: a disabled node gets an entry as well. *)
AfterAddAlways(i, r) == Put(clients, i, Len(made) + 1)

(* Mistake: a disabled node keeps the client it had. *)
AfterAddKeeping(i, r) ==
  IF r.enabled THEN Put(clients, i, Len(made) + 1) ELSE clients

(* Mistake: an update of a row that has gone inserts it again. *)
UpdatedUpsert(i, r) == Put(nodes, i, r)

(* Mistake: each client runs under a context of its own. *)
StartsLiveAlways == TRUE

-----------------------------------------------------------------------------
(* The manager. Each operation runs under its lock and is one step.        *)

CtxDone == phase \in {"cancelled", "stopped", "closing"}

(* Client.Stop on the client node i has, if any.                           *)
Stopped(i) ==
  [k \in DOMAIN made |-> IF i \in DOMAIN clients /\ clients[i] = k
                         THEN [made[k] EXCEPT !.quit = TRUE] ELSE made[k]]

AfterAdd(i, r) ==
  IF r.enabled THEN Put(clients, i, Len(made) + 1) ELSE Drop(clients, i)

(* Client.Start is given the manager's context. *)
StartsLive == ~CtxDone

(* Manager.Add: stop and forget the client there is; an enabled node gets  *)
(* another, started under the manager's context.                           *)
AddClient(i, r) ==
  /\ Len(made) < MaxClients
  /\ clients' = AfterAdd(i, r)
  /\ made' = IF r.enabled
             THEN Append(Stopped(i), [node |-> i, row |-> r, quit |-> FALSE, live |-> StartsLive])
             ELSE Stopped(i)

(* Manager.Remove. *)
RemoveClient(i) ==
  /\ made' = Stopped(i)
  /\ clients' = Drop(clients, i)

AllStopped ==
  [k \in DOMAIN made |-> IF \E i \in DOMAIN clients : clients[i] = k
                         THEN [made[k] EXCEPT !.quit = TRUE] ELSE made[k]]

-----------------------------------------------------------------------------
(* Requests and commands. *)

(* Requests under way that concern node i. *)
Active(i) == {h \in Handlers : pc[h] \notin {"idle", "insert"} /\ id[h] = i}

(* The request p takes up node i, and so overlaps those under way there.   *)
Enter(p, i) ==
  alone' = [q \in Procs |-> IF q = p THEN p \in Handlers /\ Active(i) = {}
                            ELSE alone[q] /\ q \notin Active(i)]

Begin(p) ==
  /\ pc[p] = "idle"
  /\ ops < MaxOps /\ ops' = ops + 1
  /\ p \in Handlers => phase \in {"serving", "cancelled", "stopped"}

(* An HTTP update always carries "enabled"; a command names one field.     *)
Given(p) == IF p \in Handlers THEN {{"enabled"}, Field} ELSE {{"conf"}, {"enabled"}}

(* One row, or the two enabled ones of an Allmon3 import. *)
Wanted(p) ==
  {<<r>> : r \in Row} \cup
  IF p \in Handlers THEN {<<r, r>> : r \in {r \in Row : r.enabled}} ELSE {}

BeginInsert(p) ==
  /\ Begin(p)
  /\ \E q \in Wanted(p) : todo' = [todo EXCEPT ![p] = q]
  /\ pc' = [pc EXCEPT ![p] = "insert"]
  /\ UNCHANGED <<table, manager, server, id, row, given, ghosts>>

BeginUpdate(p, i) ==
  /\ Begin(p)
  /\ \E r \in Row, g \in Given(p) :
       /\ \A f \in Field \ g : r[f] = Blank[f]
       /\ row' = [row EXCEPT ![p] = r] /\ given' = [given EXCEPT ![p] = g]
  /\ id' = [id EXCEPT ![p] = i]
  /\ pc' = [pc EXCEPT ![p] = "read"]
  /\ Enter(p, i)
  /\ UNCHANGED <<table, manager, server, todo, disturbed>>

(* The handler removes the client first, the command looks up the row.     *)
BeginDelete(p, i) ==
  /\ Begin(p)
  /\ id' = [id EXCEPT ![p] = i]
  /\ pc' = [pc EXCEPT ![p] = IF p \in Handlers THEN "remove" ELSE "find"]
  /\ Enter(p, i)
  /\ UNCHANGED <<table, manager, server, row, given, todo, disturbed>>

(* p is done with its row: an import goes on to the next.                  *)
Done(p, rest) ==
  /\ pc' = [pc EXCEPT ![p] = IF rest = <<>> THEN "idle" ELSE "insert"]
  /\ id' = [id EXCEPT ![p] = 0]
  /\ row' = [row EXCEPT ![p] = Blank]
  /\ given' = [given EXCEPT ![p] = {}]
  /\ todo' = [todo EXCEPT ![p] = rest]

Forget(p) == alone' = [alone EXCEPT ![p] = FALSE]

(* p has changed node i in the table behind the manager's back.            *)
Behind(i) ==
  /\ disturbed' = IF phase = "down" THEN disturbed ELSE disturbed \cup {i}
  /\ alone' = [q \in Procs |-> alone[q] /\ q \notin Active(i)]

NewId == lastId + 1

(* CreateNode. *)
Insert(p) ==
  /\ pc[p] = "insert" /\ NewId <= MaxNode
  /\ nodes' = Put(nodes, NewId, Head(todo[p]))
  /\ lastId' = NewId
  /\ IF p \in Handlers
     THEN /\ pc' = [pc EXCEPT ![p] = "add"]
          /\ id' = [id EXCEPT ![p] = NewId]
          /\ row' = [row EXCEPT ![p] = Head(todo[p])]
          /\ todo' = [todo EXCEPT ![p] = Tail(@)]
          /\ Enter(p, NewId)
          /\ UNCHANGED <<given, disturbed>>
     ELSE Done(p, <<>>) /\ Behind(NewId)
  /\ UNCHANGED <<manager, server, ops>>

(* GetNodeByID, and the fields not given taken from what it returned.      *)
Read(p) ==
  /\ pc[p] = "read"
  /\ IF id[p] \in DOMAIN nodes
     THEN /\ pc' = [pc EXCEPT ![p] = "write"]
          /\ row' = [row EXCEPT ![p] =
               [conf    |-> IF "conf" \in given[p] THEN @.conf ELSE nodes[id[p]].conf,
                enabled |-> IF "enabled" \in given[p] THEN @.enabled ELSE nodes[id[p]].enabled]]
          /\ UNCHANGED <<id, given, todo, alone>>
     ELSE Done(p, <<>>) /\ Forget(p)
  /\ UNCHANGED <<table, manager, server, ops, disturbed>>

(* UPDATE ... WHERE id=?: no row there is no error. *)
Updated(i, r) == [j \in DOMAIN nodes |-> IF j = i THEN r ELSE nodes[j]]

Write(p) ==
  /\ pc[p] = "write"
  /\ nodes' = Updated(id[p], row[p])
  /\ IF p \in Handlers
     THEN pc' = [pc EXCEPT ![p] = "add"] /\ UNCHANGED <<reqVars, ghosts>>
     ELSE Done(p, <<>>) /\ Behind(id[p])
  /\ UNCHANGED <<lastId, manager, server, ops>>

(* Manager.Add at the end of a creation or update. *)
Add(p) ==
  /\ pc[p] = "add"
  /\ AddClient(id[p], row[p])
  /\ disturbed' = IF alone[p] THEN disturbed \ {id[p]} ELSE disturbed \cup {id[p]}
  /\ Done(p, todo[p]) /\ Forget(p)
  /\ UNCHANGED <<table, server, ops>>

(* Manager.Remove at the beginning of a deletion. *)
Remove(p) ==
  /\ pc[p] = "remove"
  /\ RemoveClient(id[p])
  /\ pc' = [pc EXCEPT ![p] = "erase"]
  /\ UNCHANGED <<table, server, reqVars, ops, ghosts>>

Find(p) ==
  /\ pc[p] = "find"
  /\ IF id[p] \in DOMAIN nodes
     THEN pc' = [pc EXCEPT ![p] = "erase"] /\ UNCHANGED reqVars
     ELSE Done(p, <<>>)
  /\ UNCHANGED <<table, manager, server, ops, ghosts>>

(* DeleteNode. *)
Erase(p) ==
  /\ pc[p] = "erase"
  /\ nodes' = Drop(nodes, id[p])
  /\ IF p \in Admins THEN Behind(id[p])
     ELSE /\ disturbed' = IF alone[p] THEN disturbed \ {id[p]} ELSE disturbed \cup {id[p]}
          /\ Forget(p)
  /\ Done(p, <<>>)
  /\ UNCHANGED <<lastId, manager, server, ops>>

(* A refused input, a failed statement or a request given up by its        *)
(* browser: the handler answers with an error and leaves what it has done. *)
(* An import goes on with the next row.                                    *)
Fail(p) ==
  /\ MayFail
  /\ pc[p] \in {"insert", "read", "write", "find", "erase"}
  /\ disturbed' = IF pc[p] = "erase" /\ p \in Handlers THEN disturbed \cup {id[p]} ELSE disturbed
  /\ Done(p, IF pc[p] = "insert" THEN Tail(todo[p]) ELSE <<>>) /\ Forget(p)
  /\ UNCHANGED <<table, manager, server, ops>>

-----------------------------------------------------------------------------
(* The server. *)

(* initAMI lists the nodes ... *)
Boot ==
  /\ phase = "down" /\ boots < MaxBoots
  /\ phase' = "loading" /\ boots' = boots + 1
  /\ listing' = nodes
  /\ disturbed' = {}
  /\ UNCHANGED <<table, manager, pc, reqVars, ops, alone>>

(* ... LoadNodes adds those that are enabled ... *)
LoadNode(i) ==
  /\ phase = "loading" /\ i \in DOMAIN listing
  /\ listing' = Drop(listing, i)
  /\ IF listing[i].enabled THEN AddClient(i, listing[i]) ELSE UNCHANGED manager
  /\ UNCHANGED <<table, phase, boots, pc, reqVars, ops, ghosts>>

(* ... and then requests are accepted. *)
Listen ==
  /\ phase = "loading" /\ DOMAIN listing = {}
  /\ phase' = "serving"
  /\ UNCHANGED <<table, manager, listing, boots, pc, reqVars, ops, ghosts>>

(* Manager.Shutdown: first the context, without the lock ... *)
Cancel ==
  /\ phase = "serving" /\ phase' = "cancelled"
  /\ UNCHANGED <<table, manager, listing, boots, pc, reqVars, ops, ghosts>>

(* ... then, under it, every client. Requests are still accepted.          *)
StopAll ==
  /\ phase = "cancelled" /\ phase' = "stopped"
  /\ made' = AllStopped
  /\ clients' = EmptyMap
  /\ UNCHANGED <<table, listing, boots, pc, reqVars, ops, ghosts>>

(* mainServer.Shutdown: no new request; those under way may go on.         *)
CloseListener ==
  /\ phase = "stopped" /\ phase' = "closing"
  /\ UNCHANGED <<table, manager, listing, boots, pc, reqVars, ops, ghosts>>

(* The process ends, after a shutdown or at any other moment. *)
Die ==
  /\ phase # "down" /\ phase' = "down"
  /\ clients' = EmptyMap /\ made' = <<>> /\ listing' = EmptyMap
  /\ pc' = [p \in Procs |-> IF p \in Handlers THEN "idle" ELSE pc[p]]
  /\ id' = [p \in Procs |-> IF p \in Handlers THEN 0 ELSE id[p]]
  /\ row' = [p \in Procs |-> IF p \in Handlers THEN Blank ELSE row[p]]
  /\ given' = [p \in Procs |-> IF p \in Handlers THEN {} ELSE given[p]]
  /\ todo' = [p \in Procs |-> IF p \in Handlers THEN <<>> ELSE todo[p]]
  /\ alone' = [p \in Procs |-> FALSE]
  /\ UNCHANGED <<table, boots, ops, disturbed>>

-----------------------------------------------------------------------------
(* A request names a node that has been created at some time. *)
Request(p) ==
  \/ BeginInsert(p) \/ \E i \in 1 .. lastId : BeginUpdate(p, i) \/ BeginDelete(p, i)
  \/ Insert(p) \/ Read(p) \/ Write(p) \/ Add(p)
  \/ Remove(p) \/ Find(p) \/ Erase(p) \/ Fail(p)

Server ==
  \/ Boot \/ (\E i \in Ids : LoadNode(i)) \/ Listen
  \/ Cancel \/ StopAll \/ CloseListener \/ Die

Next ==
  \/ \E p \in Procs : Request(p)
  \/ Server

Spec == Init /\ [][Next]_vars

-----------------------------------------------------------------------------
Client == [node : Ids, row : Row, quit : BOOLEAN, live : BOOLEAN]

IsTable(f, S) == DOMAIN f \subseteq Ids /\ f \in [DOMAIN f -> S]

(* Every variable keeps its type: ids are of rows once inserted, and a     *)
(* client in the map has been made (db/nodes.go:10-21, manager.go:19-26).  *)
TypeOK ==
  /\ lastId \in 0 .. MaxNode
  /\ IsTable(nodes, Row) /\ DOMAIN nodes \subseteq 1 .. lastId
  /\ made \in Seq(Client)
  /\ IsTable(clients, 1 .. Len(made))
  /\ phase \in {"down", "loading", "serving", "cancelled", "stopped", "closing"}
  /\ IsTable(listing, Row)
  /\ boots \in 0 .. MaxBoots /\ ops \in 0 .. MaxOps
  /\ pc \in [Procs -> {"idle", "insert", "read", "write", "add", "remove", "find", "erase"}]
  /\ id \in [Procs -> 0 .. MaxNode]
  /\ row \in [Procs -> Row] /\ given \in [Procs -> SUBSET Field] /\ todo \in [Procs -> Seq(Row)]
  /\ alone \in [Procs -> BOOLEAN] /\ disturbed \subseteq Ids

(* Whatever handlers, deletions, restarts and the shutdown do, a client    *)
(* that has not been told to stop is the one the manager has for its node: *)
(* no session outlives its entry, and a node never has two of them         *)
(* (manager.go:49-83, 86-93, 150-158).                                     *)
OnlyMappedRun ==
  \A k \in DOMAIN made : ~made[k].quit =>
    made[k].node \in DOMAIN clients /\ clients[made[k].node] = k

Agrees(i) ==
  /\ i \in DOMAIN clients <=> i \in DOMAIN nodes /\ nodes[i].enabled
  /\ i \in DOMAIN clients => made[clients[i]].row = nodes[i] /\ ~made[clients[i]].quit

(* A node whose last change overlapped no other, failed not half way and   *)
(* was not made from the command line has a client exactly if it is        *)
(* enabled, with the settings in the table: one undisturbed update repairs *)
(* what an earlier race or failure has left, and so does a restart         *)
(* (nodes.go:96-112, 162-179, 207-213, manager.go:39-45, server.go:151).   *)
SettledAgrees ==
  phase = "serving" => \A i \in Ids \ disturbed : Active(i) = {} => Agrees(i)

(* An update that overlaps a deletion does not bring the row back, and the *)
(* ID of a deleted node never names another (db/nodes.go:95-111, db.go:143).*)
DeletedStaysDeleted ==
  [][\A i \in 1 .. lastId : i \notin DOMAIN nodes => i \notin DOMAIN nodes']_vars

(* Once Shutdown has stopped the clients none is left running, and none    *)
(* that a handler under way, or accepted after it, still starts can run:   *)
(* its context is cancelled already (manager.go:72, 150-158).              *)
ShutdownIsFinal ==
  phase \in {"stopped", "closing"} =>
    \A k \in DOMAIN made : made[k].quit \/ ~made[k].live

(* The manager owns one client per enabled node (ami.md:10, manager.go:18):*)
(* at rest, and with only the server's own handlers at work, the clients   *)
(* are those of the enabled nodes.                                         *)
OneClientPerEnabledNode ==
  phase = "serving" /\ (\A h \in Handlers : pc[h] = "idle") =>
    DOMAIN clients = {i \in DOMAIN nodes : nodes[i].enabled}

=============================================================================
