------------------------ MODULE NodeLifecycleProofs ------------------------
(***************************************************************************)
(* What TLAPS proves of NodeLifecycle for any handlers, commands, settings *)
(* and bounds: TypeCorrect, OnlyMappedClientsRun, ShutdownStaysFinal,      *)
(* DeletedNodesStayDeleted, SettledNodesAgree.                             *)
(***************************************************************************)
EXTENDS NodeLifecycle, SequenceTheorems, TLAPS

(* Frames, which every step needs. *)
USE DEF vars, table, manager, server, reqVars, ghosts, Procs, Ids

-----------------------------------------------------------------------------
(* The types fall into four parts that hardly depend on each other. A      *)
(* request under way has a node, and one about to insert has a row: without *)
(* this the types are not inductive.                                       *)
TableOK ==
  /\ lastId \in 0 .. MaxNode
  /\ IsTable(nodes, Row) /\ DOMAIN nodes \subseteq 1 .. lastId

ManagerOK == made \in Seq(Client) /\ IsTable(clients, 1 .. Len(made))

ServerOK ==
  /\ phase \in {"down", "loading", "serving", "cancelled", "stopped", "closing"}
  /\ IsTable(listing, Row)
  /\ boots \in 0 .. MaxBoots /\ ops \in 0 .. MaxOps

RequestsOK ==
  /\ pc \in [Procs -> {"idle", "insert", "read", "write", "add", "remove", "find", "erase"}]
  /\ id \in [Procs -> 0 .. MaxNode]
  /\ row \in [Procs -> Row] /\ given \in [Procs -> SUBSET Field]
  /\ todo \in [Procs -> Seq(Row)]
  /\ \A p \in Procs : pc[p] \notin {"idle", "insert"} => id[p] \in Ids
  /\ \A p \in Procs : pc[p] = "insert" => todo[p] # <<>>

GhostsOK == alone \in [Procs -> BOOLEAN] /\ disturbed \subseteq Ids

TypeInv == TableOK /\ ManagerOK /\ ServerOK /\ RequestsOK /\ GhostsOK

(* The parts together are the types. *)
LEMMA TypeInvTypes == TypeInv => TypeOK
  BY DEF TypeInv, TypeOK, TableOK, ManagerOK, ServerOK, RequestsOK, GhostsOK

(* There are settings, and so a blank row. *)
LEMMA BlankRow == Blank \in Row
<1>1. PICK c : c \in Confs
  BY LifecycleAssumption DEF LifecycleAssumption
<1>2. [conf |-> c, enabled |-> TRUE] \in Row
  BY <1>1 DEF Row
<1>3. QED
  BY <1>2 DEF Blank

-----------------------------------------------------------------------------
(* Tables and sequences. *)

(* Put and Drop make tables from tables. *)
LEMMA PutTable ==
  ASSUME NEW S, NEW f, IsTable(f, S), NEW i \in Ids, NEW v \in S
  PROVE  /\ IsTable(Put(f, i, v), S) /\ DOMAIN Put(f, i, v) = DOMAIN f \cup {i}
         /\ \A j \in DOMAIN f \cup {i} : Put(f, i, v)[j] = IF j = i THEN v ELSE f[j]
  BY DEF IsTable, Put

(* The rows that are not dropped stay. *)
LEMMA DropTable ==
  ASSUME NEW S, NEW f, IsTable(f, S), NEW i
  PROVE  /\ IsTable(Drop(f, i), S) /\ DOMAIN Drop(f, i) = DOMAIN f \ {i}
         /\ \A j \in DOMAIN f \ {i} : Drop(f, i)[j] = f[j]
  BY DEF IsTable, Drop

(* A table keeps its type when its values may be more. *)
LEMMA WiderTable ==
  ASSUME NEW S, NEW T, S \subseteq T, NEW f, IsTable(f, S)
  PROVE  IsTable(f, T)
  BY DEF IsTable

(* The empty map is a table. *)
LEMMA EmptyTable == \A S : IsTable(EmptyMap, S) /\ DOMAIN EmptyMap = {}
  BY DEF IsTable, EmptyMap

(* A function on 1 .. n is a sequence of length n. *)
LEMMA FunctionSeq ==
  ASSUME NEW S, NEW n \in Nat, NEW f \in [1 .. n -> S]
  PROVE  f \in Seq(S) /\ Len(f) = n
<1>1. f \in Seq(S)
  BY SeqDef
<1>2. DOMAIN f = 1 .. n /\ DOMAIN f = 1 .. Len(f) /\ Len(f) \in Nat
  BY <1>1, LenProperties
<1>3. QED
  BY <1>1, <1>2

(* Stopping clients changes their quit flag only (client.go:69-78). *)
LEMMA QuitClient ==
  ASSUME NEW c \in Client
  PROVE  LET d == [c EXCEPT !.quit = TRUE]
         IN d \in Client /\ d.quit /\ d.node = c.node /\ d.live = c.live
  BY DEF Client

(* Stopping a node's client leaves the others as they are (manager.go:86-93). *)
LEMMA StoppedClients ==
  ASSUME ManagerOK, NEW i
  PROVE  /\ Stopped(i) \in Seq(Client) /\ Len(Stopped(i)) = Len(made)
         /\ \A k \in 1 .. Len(made) :
              /\ Stopped(i)[k].node = made[k].node /\ Stopped(i)[k].live = made[k].live
              /\ ~Stopped(i)[k].quit =>
                   ~made[k].quit /\ ~(i \in DOMAIN clients /\ clients[i] = k)
<1>1. made \in Seq(Client) /\ Len(made) \in Nat /\ DOMAIN made = 1 .. Len(made)
  BY LenProperties DEF ManagerOK
<1>2. \A k \in 1 .. Len(made) : made[k] \in Client
  BY <1>1, ElementOfSeq
<1>3. \A k \in 1 .. Len(made) :
        Stopped(i)[k] = IF i \in DOMAIN clients /\ clients[i] = k
                        THEN [made[k] EXCEPT !.quit = TRUE] ELSE made[k]
  BY <1>1 DEF Stopped
<1>4. Stopped(i) \in [1 .. Len(made) -> Client]
  BY <1>1, <1>2, <1>3, QuitClient DEF Stopped
<1>5. Stopped(i) \in Seq(Client) /\ Len(Stopped(i)) = Len(made)
  BY <1>1, <1>4, FunctionSeq
<1>6. ASSUME NEW k \in 1 .. Len(made)
      PROVE  /\ Stopped(i)[k].node = made[k].node /\ Stopped(i)[k].live = made[k].live
             /\ ~Stopped(i)[k].quit =>
                  ~made[k].quit /\ ~(i \in DOMAIN clients /\ clients[i] = k)
  <2>1. made[k] \in Client
    BY <1>2
  <2>2. CASE i \in DOMAIN clients /\ clients[i] = k
    <3>1. Stopped(i)[k] = [made[k] EXCEPT !.quit = TRUE]
      BY <1>3, <2>2
    <3>2. QED
      BY <2>1, <3>1, QuitClient
  <2>3. CASE ~(i \in DOMAIN clients /\ clients[i] = k)
    BY <1>3, <2>3
  <2>4. QED
    BY <2>2, <2>3
<1>7. QED
  BY <1>5, <1>6

(* StopAll stops every client in the map (manager.go:150-158). *)
LEMMA AllStoppedClients ==
  ASSUME ManagerOK
  PROVE  /\ AllStopped \in Seq(Client) /\ Len(AllStopped) = Len(made)
         /\ \A k \in 1 .. Len(made) :
              ~AllStopped[k].quit =>
                 ~made[k].quit /\ ~(\E i \in DOMAIN clients : clients[i] = k)
<1>1. made \in Seq(Client) /\ Len(made) \in Nat /\ DOMAIN made = 1 .. Len(made)
  BY LenProperties DEF ManagerOK
<1>2. \A k \in 1 .. Len(made) : made[k] \in Client
  BY <1>1, ElementOfSeq
<1>3. \A k \in 1 .. Len(made) :
        AllStopped[k] = IF \E i \in DOMAIN clients : clients[i] = k
                        THEN [made[k] EXCEPT !.quit = TRUE] ELSE made[k]
  BY <1>1 DEF AllStopped
<1>4. AllStopped \in [1 .. Len(made) -> Client]
  BY <1>1, <1>2, <1>3, QuitClient DEF AllStopped
<1>5. AllStopped \in Seq(Client) /\ Len(AllStopped) = Len(made)
  BY <1>1, <1>4, FunctionSeq
<1>6. ASSUME NEW k \in 1 .. Len(made)
      PROVE  ~AllStopped[k].quit =>
                ~made[k].quit /\ ~(\E i \in DOMAIN clients : clients[i] = k)
  <2>1. made[k] \in Client
    BY <1>2
  <2>2. CASE \E i \in DOMAIN clients : clients[i] = k
    <3>1. AllStopped[k] = [made[k] EXCEPT !.quit = TRUE]
      BY <1>3, <2>2
    <3>2. QED
      BY <2>1, <3>1, QuitClient
  <2>3. CASE ~(\E i \in DOMAIN clients : clients[i] = k)
    <3>1. AllStopped[k] = made[k]
      BY <1>3, <2>3
    <3>2. QED
      BY <2>3, <3>1
  <2>4. QED
    BY <2>2, <2>3
<1>7. QED
  BY <1>5, <1>6

-----------------------------------------------------------------------------
(* The operations of the manager. *)

(* A client stopped and forgotten (manager.go:86-93). *)
LEMMA StopFacts ==
  ASSUME ManagerOK, NEW i, made' = Stopped(i), clients' = Drop(clients, i)
  PROVE  /\ ManagerOK'
         /\ OnlyMappedRun => OnlyMappedRun'
         /\ phase' = phase /\ ShutdownIsFinal => ShutdownIsFinal'
<1> DEFINE n == Len(made)
<1>1. made \in Seq(Client) /\ n \in Nat /\ DOMAIN made = 1 .. n
  BY LenProperties DEF ManagerOK
<1>2. made' \in Seq(Client) /\ Len(made') = n /\ DOMAIN made' = 1 .. n
  <2>1. Stopped(i) \in Seq(Client) /\ Len(Stopped(i)) = n
    BY StoppedClients
  <2>2. DOMAIN Stopped(i) = 1 .. Len(Stopped(i))
    BY <2>1, LenProperties
  <2>3. QED
    BY <2>1, <2>2
<1>3. /\ IsTable(clients', 1 .. n) /\ DOMAIN clients' = DOMAIN clients \ {i}
      /\ \A j \in DOMAIN clients \ {i} : clients'[j] = clients[j]
  <2>1. IsTable(clients, 1 .. n)
    BY DEF ManagerOK
  <2>2. /\ IsTable(Drop(clients, i), 1 .. n) /\ DOMAIN Drop(clients, i) = DOMAIN clients \ {i}
        /\ \A j \in DOMAIN clients \ {i} : Drop(clients, i)[j] = clients[j]
    BY <2>1 DEF IsTable, Drop
  <2>3. QED
    BY <2>2
<1>4. ManagerOK'
  BY <1>2, <1>3 DEF ManagerOK
<1>5. ASSUME OnlyMappedRun, NEW k \in 1 .. n, ~made'[k].quit
      PROVE  made'[k].node \in DOMAIN clients' /\ clients'[made'[k].node] = k
  <2>1. ~made[k].quit /\ ~(i \in DOMAIN clients /\ clients[i] = k)
        /\ made'[k].node = made[k].node
    BY <1>5, StoppedClients
  <2>2. made[k].node \in DOMAIN clients /\ clients[made[k].node] = k
    BY <1>1, <1>5, <2>1 DEF OnlyMappedRun
  <2>3. QED
    BY <1>3, <2>1, <2>2
<1>6. ASSUME phase' = phase, ShutdownIsFinal, phase' \in {"stopped", "closing"},
             NEW k \in 1 .. n
      PROVE  made'[k].quit \/ ~made'[k].live
  <2>1. made[k].quit \/ ~made[k].live
    BY <1>1, <1>6 DEF ShutdownIsFinal
  <2>2. QED
    BY <2>1, StoppedClients
<1>7. QED
  BY <1>2, <1>4, <1>5, <1>6 DEF OnlyMappedRun, ShutdownIsFinal

(* A client made for an enabled node, and what becomes of those there are  *)
(* (manager.go:49-83).                                                     *)
LEMMA AddFacts ==
  ASSUME ManagerOK, NEW i \in Ids, NEW r \in Row, AddClient(i, r)
  PROVE  /\ ManagerOK'
         /\ OnlyMappedRun => OnlyMappedRun'
         /\ phase' = phase /\ ShutdownIsFinal => ShutdownIsFinal'
<1> DEFINE S == Stopped(i)
           n == Len(made)
           c == [node |-> i, row |-> r, quit |-> FALSE, live |-> StartsLive]
<1>1. made \in Seq(Client) /\ n \in Nat /\ DOMAIN made = 1 .. n
  BY LenProperties DEF ManagerOK
<1>2. S \in Seq(Client) /\ Len(S) = n /\ DOMAIN S = 1 .. n
  BY StoppedClients, LenProperties
<1>3. StartsLive \in BOOLEAN
  BY Zenon DEF StartsLive, CtxDone
<1>4. c \in Client /\ c.node = i /\ c.quit = FALSE /\ c.live = StartsLive
  BY <1>3 DEF Client
<1>5. IsTable(clients, 1 .. n) /\ IsTable(clients, 1 .. n + 1)
  BY <1>1, WiderTable DEF ManagerOK
<1> HIDE DEF c, S
<1>6. CASE r.enabled
  <2>1. made' = Append(S, c) /\ clients' = Put(clients, i, n + 1)
    BY <1>6 DEF AddClient, AfterAdd, S, c
  <2>2. /\ made' \in Seq(Client) /\ Len(made') = n + 1 /\ DOMAIN made' = 1 .. n + 1
        /\ \A k \in 1 .. n : made'[k] = S[k]
        /\ made'[n + 1] = c
    <3>1. /\ made' \in Seq(Client) /\ Len(made') = Len(S) + 1
          /\ \A k \in 1 .. Len(S) : made'[k] = S[k]
          /\ made'[Len(S) + 1] = c
      BY <1>2, <1>4, <2>1, AppendProperties
    <3>2. DOMAIN made' = 1 .. Len(made')
      BY <3>1, LenProperties
    <3>3. QED
      BY <1>2, <3>1, <3>2
  <2>3. /\ IsTable(clients', 1 .. n + 1) /\ DOMAIN clients' = DOMAIN clients \cup {i}
        /\ \A j \in DOMAIN clients \cup {i} :
             clients'[j] = IF j = i THEN n + 1 ELSE clients[j]
    <3>1. n + 1 \in 1 .. n + 1
      BY <1>1
    <3> DEFINE T == 1 .. n + 1
               v == n + 1
               C == Put(clients, i, v)
    <3>2. v \in T /\ IsTable(clients, T)
      BY <1>5, <3>1
    <3> HIDE DEF T, v
    <3>3. /\ IsTable(C, T) /\ DOMAIN C = DOMAIN clients \cup {i}
          /\ \A j \in DOMAIN clients \cup {i} : C[j] = IF j = i THEN v ELSE clients[j]
      BY <3>2 DEF IsTable, Put
    <3>4. QED
      BY <2>1, <3>3 DEF T, v
  <2>4. ManagerOK'
    BY <2>2, <2>3 DEF ManagerOK
  <2>5. ASSUME OnlyMappedRun, NEW k \in 1 .. n + 1, ~made'[k].quit
        PROVE  made'[k].node \in DOMAIN clients' /\ clients'[made'[k].node] = k
    <3>1. CASE k = n + 1
      BY <1>4, <2>2, <2>3, <3>1
    <3>2. CASE k \in 1 .. n
      <4>1. ~made[k].quit /\ ~(i \in DOMAIN clients /\ clients[i] = k)
            /\ made'[k].node = made[k].node
        BY <2>2, <2>5, <3>2, StoppedClients DEF S
      <4>2. made[k].node \in DOMAIN clients /\ clients[made[k].node] = k
        BY <1>1, <2>5, <3>2, <4>1 DEF OnlyMappedRun
      <4>3. QED
        BY <2>3, <4>1, <4>2
    <3>3. QED
      BY <1>1, <3>1, <3>2
  <2>6. ASSUME phase' = phase, ShutdownIsFinal, phase' \in {"stopped", "closing"},
               NEW k \in 1 .. n + 1
        PROVE  made'[k].quit \/ ~made'[k].live
    <3>1. CASE k = n + 1
      BY <1>4, <2>2, <2>6, <3>1 DEF StartsLive, CtxDone
    <3>2. CASE k \in 1 .. n
      <4>1. made[k].quit \/ ~made[k].live
        BY <1>1, <2>6, <3>2 DEF ShutdownIsFinal
      <4>2. QED
        BY <2>2, <3>2, <4>1, StoppedClients DEF S
    <3>3. QED
      BY <1>1, <3>1, <3>2
  <2>7. QED
    BY <2>2, <2>4, <2>5, <2>6 DEF OnlyMappedRun, ShutdownIsFinal
<1>7. CASE ~r.enabled
  <2>1. made' = S /\ clients' = Drop(clients, i)
    BY <1>7 DEF AddClient, AfterAdd, S
  <2>2. QED
    BY <1>1, <1>2, <1>5, <2>1, StopFacts DEF S
<1>8. QED
  BY <1>6, <1>7

-----------------------------------------------------------------------------
(* Parts of the steps of a request. *)

(* Done leaves a request idle, or with a row yet to insert. *)
LEMMA DoneOK ==
  ASSUME RequestsOK, NEW p \in Procs, NEW rest \in Seq(Row), Done(p, rest)
  PROVE  RequestsOK'
<1>1. 0 \in 0 .. MaxNode /\ Blank \in Row /\ {} \in SUBSET Field
  BY BlankRow, LifecycleAssumption DEF LifecycleAssumption
<1>2. /\ id' \in [Procs -> 0 .. MaxNode] /\ row' \in [Procs -> Row]
      /\ given' \in [Procs -> SUBSET Field] /\ todo' \in [Procs -> Seq(Row)]
  BY <1>1 DEF RequestsOK, Done
<1>3. pc' \in [Procs -> {"idle", "insert", "read", "write", "add", "remove", "find", "erase"}]
  BY DEF RequestsOK, Done
<1>4. \A q \in Procs : q # p => pc'[q] = pc[q] /\ id'[q] = id[q] /\ todo'[q] = todo[q]
  BY DEF RequestsOK, Done
<1>5. pc'[p] \in {"idle", "insert"} /\ todo'[p] = rest /\ (pc'[p] = "insert" => rest # <<>>)
  BY DEF RequestsOK, Done
<1>6. QED
  BY <1>2, <1>3, <1>4, <1>5 DEF RequestsOK

(* A request goes on, about the same or another node, to a later step. *)
LEMMA GoOnOK ==
  ASSUME RequestsOK, NEW p \in Procs, NEW i \in Ids, NEW r \in Row,
         NEW g \in SUBSET Field, NEW t \in Seq(Row),
         NEW l \in {"read", "write", "add", "remove", "find", "erase"},
         pc' = [pc EXCEPT ![p] = l], id' = [id EXCEPT ![p] = i],
         row' = [row EXCEPT ![p] = r], given' = [given EXCEPT ![p] = g],
         todo' = [todo EXCEPT ![p] = t]
  PROVE  RequestsOK'
<1>1. i \in 0 .. MaxNode
  BY LifecycleAssumption DEF LifecycleAssumption
<1>2. /\ id' \in [Procs -> 0 .. MaxNode] /\ row' \in [Procs -> Row]
      /\ given' \in [Procs -> SUBSET Field] /\ todo' \in [Procs -> Seq(Row)]
  BY <1>1 DEF RequestsOK
<1>3. pc' \in [Procs -> {"idle", "insert", "read", "write", "add", "remove", "find", "erase"}]
  BY DEF RequestsOK
<1>4. \A q \in Procs : q # p => pc'[q] = pc[q] /\ id'[q] = id[q] /\ todo'[q] = todo[q]
  BY DEF RequestsOK
<1>5. pc'[p] # "insert" /\ id'[p] = i
  BY DEF RequestsOK
<1>6. QED
  BY <1>2, <1>3, <1>4, <1>5 DEF RequestsOK

(* What is recorded about overlaps keeps its type. *)
LEMMA EnterOK ==
  ASSUME GhostsOK, NEW p \in Procs, NEW i, Enter(p, i)
  PROVE  alone' \in [Procs -> BOOLEAN]
  BY Zenon DEF GhostsOK, Enter

(* So it does when a request ends. *)
LEMMA ForgetOK ==
  ASSUME GhostsOK, NEW p \in Procs, Forget(p)
  PROVE  alone' \in [Procs -> BOOLEAN]
  BY DEF GhostsOK, Forget

(* And when a node is marked as disturbed. *)
LEMMA BehindOK ==
  ASSUME GhostsOK, NEW i \in Ids, Behind(i)
  PROVE  GhostsOK'
<1>1. alone' \in [Procs -> BOOLEAN]
  BY Zenon DEF GhostsOK, Behind
<1>2. disturbed' \subseteq Ids
  BY DEF GhostsOK, Behind
<1>3. QED
  BY <1>1, <1>2 DEF GhostsOK

(* A request under way has its parts. *)
LEMMA RequestParts ==
  ASSUME RequestsOK, NEW p \in Procs
  PROVE  /\ row[p] \in Row /\ given[p] \in SUBSET Field /\ todo[p] \in Seq(Row)
         /\ pc[p] \notin {"idle", "insert"} => id[p] \in Ids
         /\ pc[p] = "insert" => Head(todo[p]) \in Row /\ Tail(todo[p]) \in Seq(Row)
         /\ id = [id EXCEPT ![p] = id[p]] /\ row = [row EXCEPT ![p] = row[p]]
         /\ given = [given EXCEPT ![p] = given[p]] /\ todo = [todo EXCEPT ![p] = todo[p]]
<1>1. row[p] \in Row /\ given[p] \in SUBSET Field /\ todo[p] \in Seq(Row)
  BY DEF RequestsOK
<1>2. pc[p] = "insert" => todo[p] # <<>>
  BY DEF RequestsOK
<1>3. pc[p] = "insert" => Head(todo[p]) \in Row /\ Tail(todo[p]) \in Seq(Row)
  BY <1>1, <1>2, HeadTailProperties
<1>4. QED
  BY <1>1, <1>3 DEF RequestsOK

(* A request goes on, and nothing else about it changes. *)
LEMMA MoveOnOK ==
  ASSUME RequestsOK, NEW p \in Procs, pc[p] \notin {"idle", "insert"},
         NEW l \in {"read", "write", "add", "remove", "find", "erase"},
         pc' = [pc EXCEPT ![p] = l], UNCHANGED <<id, row, given, todo>>
  PROVE  RequestsOK'
  BY DEF RequestsOK

(* The statements of the database (db/nodes.go:77-111). *)
LEMMA PutNode ==
  ASSUME TableOK, NEW r \in Row, NewId <= MaxNode,
         nodes' = Put(nodes, NewId, r), lastId' = NewId
  PROVE  TableOK' /\ NewId \in Ids /\ NewId \notin DOMAIN nodes
         /\ DOMAIN nodes' = DOMAIN nodes \cup {NewId}
<1>1. lastId \in Nat /\ NewId \in Ids /\ NewId \notin DOMAIN nodes /\ IsTable(nodes, Row)
  BY LifecycleAssumption DEF LifecycleAssumption, TableOK, NewId
<1>2. /\ IsTable(Put(nodes, NewId, r), Row)
      /\ DOMAIN Put(nodes, NewId, r) = DOMAIN nodes \cup {NewId}
  BY <1>1 DEF IsTable, Put
<1>3. QED
  BY <1>1, <1>2 DEF TableOK, NewId

(* An update keeps the rows' types, and adds none (db/nodes.go:95-106). *)
LEMMA UpdateNode ==
  ASSUME TableOK, NEW i, NEW r \in Row, nodes' = Updated(i, r), lastId' = lastId
  PROVE  TableOK' /\ DOMAIN nodes' = DOMAIN nodes
  BY DEF TableOK, Updated, IsTable

(* A deletion keeps the other rows (db/nodes.go:108-111). *)
LEMMA EraseNode ==
  ASSUME TableOK, NEW i, nodes' = Drop(nodes, i), lastId' = lastId
  PROVE  TableOK' /\ DOMAIN nodes' \subseteq DOMAIN nodes
  BY DEF TableOK, Drop, IsTable

-----------------------------------------------------------------------------
(* TypeCorrect. *)

LEMMA TypeInit == Init => TypeInv
<1> SUFFICES ASSUME Init PROVE TypeInv
  OBVIOUS
<1>1. TableOK
  BY LifecycleAssumption DEF LifecycleAssumption, Init, TableOK, IsTable
<1>2. ManagerOK /\ ServerOK
  BY EmptyTable, EmptySeq, LifecycleAssumption
     DEF LifecycleAssumption, Init, ManagerOK, ServerOK
<1>3. RequestsOK
  BY BlankRow, LifecycleAssumption DEF LifecycleAssumption, Init, RequestsOK
<1>4. GhostsOK
  BY DEF Init, GhostsOK
<1>5. QED
  BY <1>1, <1>2, <1>3, <1>4 DEF TypeInv

(* Requests and commands begin (nodes.go:72-110, 118-135, 200-207). *)
LEMMA TypeBegin ==
  ASSUME TypeInv, NEW p \in Procs,
         BeginInsert(p) \/ \E i \in 1 .. lastId : BeginUpdate(p, i) \/ BeginDelete(p, i)
  PROVE  TypeInv'
<1> USE DEF TypeInv
<1>1. ops' \in 0 .. MaxOps
  <2>1. ops' = ops + 1 /\ ops < MaxOps
    BY DEF BeginInsert, BeginUpdate, BeginDelete, Begin
  <2>2. QED
    BY <2>1, LifecycleAssumption DEF LifecycleAssumption, ServerOK
<1>2. TableOK' /\ ManagerOK' /\ ServerOK'
  BY <1>1 DEF BeginInsert, BeginUpdate, BeginDelete, TableOK, ManagerOK, ServerOK
<1>3. 1 .. lastId \subseteq Ids
  BY LifecycleAssumption DEF LifecycleAssumption, TableOK
<1>4. CASE BeginInsert(p)
  <2>1. PICK q \in Wanted(p) : todo' = [todo EXCEPT ![p] = q]
    BY <1>4 DEF BeginInsert
  <2>2. q \in Seq(Row) /\ q # <<>>
    <3>1. PICK r \in Row : q = <<r>> \/ q = <<r, r>>
      BY DEF Wanted
    <3>2. <<r>> \in Seq(Row) /\ <<r>> # <<>>
      OBVIOUS
    <3>3. <<r, r>> \in Seq(Row) /\ <<r, r>> # <<>>
      OBVIOUS
    <3>4. QED
      BY <3>1, <3>2, <3>3, Zenon
  <2>3. pc' = [pc EXCEPT ![p] = "insert"] /\ UNCHANGED <<id, row, given, ghosts>>
    BY <1>4 DEF BeginInsert
  <2>4. RequestsOK'
    BY <2>1, <2>2, <2>3 DEF RequestsOK
  <2>5. GhostsOK'
    BY <2>3 DEF GhostsOK
  <2>6. QED
    BY <1>2, <2>4, <2>5
<1>5. ASSUME NEW i \in 1 .. lastId, BeginUpdate(p, i) PROVE TypeInv'
  <2>1. PICK r \in Row, g \in Given(p) :
          row' = [row EXCEPT ![p] = r] /\ given' = [given EXCEPT ![p] = g]
    BY <1>5 DEF BeginUpdate
  <2>2. g \in SUBSET Field /\ i \in Ids
    BY <1>3 DEF Given, Field
  <2>3. pc' = [pc EXCEPT ![p] = "read"] /\ id' = [id EXCEPT ![p] = i] /\ todo' = todo
    BY <1>5 DEF BeginUpdate
  <2>4. todo[p] \in Seq(Row) /\ todo' = [todo EXCEPT ![p] = todo[p]]
    BY <2>3, RequestParts
  <2>5. RequestsOK'
    BY <2>1, <2>2, <2>3, <2>4, GoOnOK
  <2>6. alone' \in [Procs -> BOOLEAN] /\ disturbed' = disturbed
    BY <1>5, EnterOK DEF BeginUpdate
  <2>7. QED
    BY <1>2, <2>5, <2>6 DEF GhostsOK
<1>6. ASSUME NEW i \in 1 .. lastId, BeginDelete(p, i) PROVE TypeInv'
  <2>1. PICK l \in {"read", "write", "add", "remove", "find", "erase"} :
          pc' = [pc EXCEPT ![p] = l]
    BY <1>6 DEF BeginDelete
  <2>2. i \in Ids /\ id' = [id EXCEPT ![p] = i] /\ UNCHANGED <<row, given, todo>>
    BY <1>3, <1>6 DEF BeginDelete
  <2>3. /\ row[p] \in Row /\ given[p] \in SUBSET Field /\ todo[p] \in Seq(Row)
        /\ row' = [row EXCEPT ![p] = row[p]] /\ given' = [given EXCEPT ![p] = given[p]]
        /\ todo' = [todo EXCEPT ![p] = todo[p]]
    BY <2>2, RequestParts
  <2> DEFINE r == row[p]
             g == given[p]
             t == todo[p]
  <2>4. RequestsOK'
    <3>1. /\ r \in Row /\ g \in SUBSET Field /\ t \in Seq(Row)
          /\ row' = [row EXCEPT ![p] = r] /\ given' = [given EXCEPT ![p] = g]
          /\ todo' = [todo EXCEPT ![p] = t]
      BY <2>3
    <3> HIDE DEF r, g, t
    <3>2. QED
      BY <2>1, <2>2, <3>1, GoOnOK
  <2>5. alone' \in [Procs -> BOOLEAN] /\ disturbed' = disturbed
    BY <1>6, EnterOK DEF BeginDelete
  <2>6. QED
    BY <1>2, <2>4, <2>5 DEF GhostsOK
<1>7. QED
  BY <1>4, <1>5, <1>6

(* The look-ups change nothing but the request (db/nodes.go:49-57). *)
LEMMA TypeLookUp ==
  ASSUME TypeInv, NEW p \in Procs, Read(p) \/ Find(p)
  PROVE  TypeInv'
<1> USE DEF TypeInv
<1> DEFINE i == id[p]
           r == [conf    |-> IF "conf" \in given[p] THEN row[p].conf ELSE nodes[i].conf,
                 enabled |-> IF "enabled" \in given[p] THEN row[p].enabled
                             ELSE nodes[i].enabled]
<1>1. TableOK' /\ ManagerOK' /\ ServerOK'
  BY DEF Read, Find, TableOK, ManagerOK, ServerOK
<1>2. i \in Ids /\ row[p] \in Row /\ given[p] \in SUBSET Field /\ todo[p] \in Seq(Row)
  BY RequestParts DEF Read, Find
<1>3. /\ id = [id EXCEPT ![p] = i] /\ row = [row EXCEPT ![p] = row[p]]
      /\ given = [given EXCEPT ![p] = given[p]] /\ todo = [todo EXCEPT ![p] = todo[p]]
  BY RequestParts
<1>4. i \in DOMAIN nodes => r \in Row
  <2>1. i \in DOMAIN nodes => nodes[i] \in Row
    BY DEF TableOK, IsTable
  <2>2. QED
    BY <1>2, <2>1 DEF Row
<1>5. <<>> \in Seq(Row)
  BY EmptySeq
<1>6. CASE Read(p)
  <2>1. CASE i \in DOMAIN nodes
    <3>1. /\ pc' = [pc EXCEPT ![p] = "write"] /\ row' = [row EXCEPT ![p] = r]
          /\ UNCHANGED <<id, given, todo, ghosts>>
      BY <1>6, <2>1 DEF Read
    <3>2. r \in Row
      BY <1>4, <2>1
    <3> HIDE DEF r
    <3>3. /\ id' = [id EXCEPT ![p] = i] /\ given' = [given EXCEPT ![p] = given[p]]
          /\ todo' = [todo EXCEPT ![p] = todo[p]]
      BY <1>3, <3>1, Zenon
    <3> HIDE DEF i
    <3>4. RequestsOK'
      BY <1>2, <3>1, <3>2, <3>3, GoOnOK
    <3>5. QED
      BY <1>1, <3>1, <3>4 DEF GhostsOK
  <2>2. CASE i \notin DOMAIN nodes
    <3>1. Done(p, <<>>) /\ Forget(p) /\ disturbed' = disturbed
      BY <1>6, <2>2 DEF Read
    <3>2. QED
      BY <1>1, <1>5, <3>1, DoneOK, ForgetOK DEF GhostsOK
  <2>3. QED
    BY <2>1, <2>2
<1>7. CASE Find(p)
  <2>1. GhostsOK'
    BY <1>7 DEF Find, GhostsOK
  <2>2. CASE i \in DOMAIN nodes
    <3>1. pc' = [pc EXCEPT ![p] = "erase"] /\ UNCHANGED <<id, row, given, todo>>
      BY <1>7, <2>2 DEF Find
    <3>2. pc[p] \notin {"idle", "insert"}
      BY <1>7 DEF Find
    <3>3. RequestsOK'
      BY <3>1, <3>2, MoveOnOK
    <3>4. QED
      BY <1>1, <2>1, <3>3
  <2>3. CASE i \notin DOMAIN nodes
    BY <1>1, <1>5, <1>7, <2>1, <2>3, DoneOK DEF Find
  <2>4. QED
    BY <2>2, <2>3
<1>8. QED
  BY <1>6, <1>7

(* The statements that change the table (nodes.go:96-110, 174-177, 209-212). *)
LEMMA TypeStatement ==
  ASSUME TypeInv, NEW p \in Procs, Insert(p) \/ Write(p) \/ Erase(p)
  PROVE  TypeInv'
<1> USE DEF TypeInv
<1> DEFINE i == id[p]
<1>1. ManagerOK' /\ ServerOK'
  BY DEF Insert, Write, Erase, ManagerOK, ServerOK
<1>2. row[p] \in Row /\ given[p] \in SUBSET Field /\ todo[p] \in Seq(Row)
      /\ row = [row EXCEPT ![p] = row[p]] /\ given = [given EXCEPT ![p] = given[p]]
  BY RequestParts
<1>3. <<>> \in Seq(Row)
  BY EmptySeq
<1>4. CASE Insert(p)
  <2> DEFINE h == Head(todo[p])
             t == Tail(todo[p])
             g == given[p]
  <2>1. h \in Row /\ t \in Seq(Row) /\ g \in SUBSET Field
    BY <1>2, <1>4, RequestParts DEF Insert
  <2>2. TableOK' /\ NewId \in Ids
    BY <1>4, <2>1, PutNode DEF Insert
  <2>3. CASE p \in Handlers
    <3>1. /\ pc' = [pc EXCEPT ![p] = "add"] /\ id' = [id EXCEPT ![p] = NewId]
          /\ row' = [row EXCEPT ![p] = h] /\ todo' = [todo EXCEPT ![p] = t]
          /\ Enter(p, NewId) /\ UNCHANGED <<given, disturbed>>
      BY <1>4, <2>3 DEF Insert
    <3>2. given' = [given EXCEPT ![p] = g]
      BY <1>2, <3>1
    <3> HIDE DEF h, t, g
    <3>3. RequestsOK'
      BY <2>1, <2>2, <3>1, <3>2, GoOnOK
    <3>4. alone' \in [Procs -> BOOLEAN]
      BY <3>1, EnterOK
    <3>5. QED
      BY <1>1, <2>2, <3>1, <3>3, <3>4 DEF GhostsOK
  <2>4. CASE p \notin Handlers
    <3>1. Done(p, <<>>) /\ Behind(NewId)
      BY <1>4, <2>4 DEF Insert
    <3>2. RequestsOK' /\ GhostsOK'
      BY <1>3, <2>2, <3>1, DoneOK, BehindOK
    <3>3. QED
      BY <1>1, <2>2, <3>2
  <2>5. QED
    BY <2>3, <2>4
<1>5. CASE Write(p)
  <2>1. pc[p] \notin {"idle", "insert"} /\ i \in Ids
    BY <1>5, RequestParts DEF Write
  <2>2. TableOK'
    BY <1>2, <1>5, UpdateNode DEF Write
  <2>3. CASE p \in Handlers
    <3>1. pc' = [pc EXCEPT ![p] = "add"] /\ UNCHANGED <<id, row, given, todo, ghosts>>
      BY <1>5, <2>3 DEF Write
    <3>2. RequestsOK' /\ GhostsOK'
      BY <2>1, <3>1, MoveOnOK DEF GhostsOK
    <3>3. QED
      BY <1>1, <2>2, <3>2
  <2>4. CASE p \notin Handlers
    <3>1. Done(p, <<>>) /\ Behind(i)
      BY <1>5, <2>4 DEF Write
    <3>2. RequestsOK' /\ GhostsOK'
      BY <1>3, <2>1, <3>1, DoneOK, BehindOK
    <3>3. QED
      BY <1>1, <2>2, <3>2
  <2>5. QED
    BY <2>3, <2>4
<1>6. CASE Erase(p)
  <2>1. i \in Ids
    BY <1>6, RequestParts DEF Erase
  <2>2. TableOK' /\ RequestsOK'
    BY <1>3, <1>6, EraseNode, DoneOK DEF Erase
  <2>3. GhostsOK'
    <3>1. CASE p \in Admins
      BY <1>6, <2>1, <3>1, BehindOK DEF Erase
    <3>2. CASE p \notin Admins
      <4>1. Forget(p) /\ disturbed' \subseteq disturbed \cup {i}
        BY <1>6, <3>2 DEF Erase
      <4>2. QED
        BY <2>1, <4>1, ForgetOK DEF GhostsOK
    <3>3. QED
      BY <3>1, <3>2
  <2>4. QED
    BY <1>1, <2>2, <2>3
<1>7. QED
  BY <1>4, <1>5, <1>6

(* The handler's calls of the manager, and errors (nodes.go:107-112, 179, 207). *)
LEMMA TypeManager ==
  ASSUME TypeInv, NEW p \in Procs, Add(p) \/ Remove(p) \/ Fail(p)
  PROVE  TypeInv'
<1> USE DEF TypeInv
<1> DEFINE i == id[p]
<1>1. TableOK' /\ ServerOK'
  BY DEF Add, Remove, Fail, TableOK, ServerOK
<1>2. row[p] \in Row /\ todo[p] \in Seq(Row)
  BY RequestParts
<1>3. CASE Add(p)
  <2>1. i \in Ids
    BY <1>3, RequestParts DEF Add
  <2>2. ManagerOK' /\ RequestsOK'
    BY <1>2, <1>3, <2>1, AddFacts, DoneOK DEF Add
  <2>3. Forget(p) /\ disturbed' \subseteq disturbed \cup {i}
    BY <1>3 DEF Add
  <2>4. QED
    BY <1>1, <2>1, <2>2, <2>3, ForgetOK DEF GhostsOK
<1>4. CASE Remove(p)
  <2>1. ManagerOK'
    BY <1>4, StopFacts DEF Remove, RemoveClient
  <2>2. pc[p] \notin {"idle", "insert"} /\ pc' = [pc EXCEPT ![p] = "erase"]
        /\ UNCHANGED <<id, row, given, todo, ghosts>>
    BY <1>4 DEF Remove
  <2>3. RequestsOK' /\ GhostsOK'
    BY <2>2, MoveOnOK DEF GhostsOK
  <2>4. QED
    BY <1>1, <2>1, <2>3
<1>5. CASE Fail(p)
  <2>1. PICK rest \in Seq(Row) : Done(p, rest)
    BY <1>5, RequestParts, EmptySeq DEF Fail
  <2>2. ManagerOK' /\ RequestsOK'
    BY <1>5, <2>1, DoneOK DEF Fail, ManagerOK
  <2>3. Forget(p) /\ disturbed' \subseteq Ids
    BY <1>5, RequestParts DEF Fail, GhostsOK
  <2>4. QED
    BY <1>1, <2>2, <2>3, ForgetOK DEF GhostsOK
<1>6. QED
  BY <1>3, <1>4, <1>5

(* The server starts, shuts down and dies (server.go:151-159, 447-456). *)
LEMMA TypeServer ==
  ASSUME TypeInv, Server
  PROVE  TypeInv'
<1> USE DEF TypeInv
<1>1. TableOK'
  BY DEF Server, Boot, LoadNode, Listen, Cancel, StopAll, CloseListener, Die, TableOK
<1>2. CASE Boot
  BY <1>1, <1>2, LifecycleAssumption
     DEF LifecycleAssumption, Boot, TableOK, ManagerOK, ServerOK, RequestsOK, GhostsOK
<1>3. ASSUME NEW i \in Ids, LoadNode(i) PROVE TypeInv'
  <2>1. listing[i] \in Row
    BY <1>3 DEF LoadNode, ServerOK, IsTable
  <2>2. ManagerOK'
    <3>1. CASE listing[i].enabled
      BY <1>3, <2>1, <3>1, AddFacts DEF LoadNode
    <3>2. CASE ~listing[i].enabled
      BY <1>3, <3>2 DEF LoadNode, ManagerOK
    <3>3. QED
      BY <3>1, <3>2
  <2>3. IsTable(listing', Row)
    BY <1>3, DropTable DEF LoadNode, ServerOK
  <2>4. QED
    BY <1>1, <1>3, <2>2, <2>3 DEF LoadNode, ServerOK, RequestsOK, GhostsOK
<1>4. CASE Listen \/ Cancel \/ CloseListener
  BY <1>1, <1>4 DEF Listen, Cancel, CloseListener, ManagerOK, ServerOK, RequestsOK, GhostsOK
<1>5. CASE StopAll
  <2>1. ManagerOK'
    BY <1>5, AllStoppedClients, EmptyTable DEF StopAll, ManagerOK
  <2>2. QED
    BY <1>1, <1>5, <2>1 DEF StopAll, ServerOK, RequestsOK, GhostsOK
<1>6. CASE Die
  <2>1. ManagerOK' /\ ServerOK'
    BY <1>6, EmptyTable, EmptySeq DEF Die, ManagerOK, ServerOK
  <2>2. 0 \in 0 .. MaxNode /\ <<>> \in Seq(Row)
    BY EmptySeq, LifecycleAssumption DEF LifecycleAssumption
  <2>3. RequestsOK'
    BY <1>6, <2>2, BlankRow DEF Die, RequestsOK
  <2>4. GhostsOK'
    BY <1>6 DEF Die, GhostsOK
  <2>5. QED
    BY <1>1, <2>1, <2>3, <2>4
<1>7. QED
  BY <1>2, <1>3, <1>4, <1>5, <1>6 DEF Server

(* TypeInv is inductive. *)
LEMMA TypeStep == TypeInv /\ [Next]_vars => TypeInv'
<1> SUFFICES ASSUME TypeInv, [Next]_vars PROVE TypeInv'
  OBVIOUS
<1>1. ASSUME NEW p \in Procs, Request(p) PROVE TypeInv'
  BY <1>1, TypeBegin, TypeLookUp, TypeStatement, TypeManager DEF Request
<1>2. CASE Server
  BY <1>2, TypeServer
<1>3. CASE UNCHANGED vars
  BY <1>3 DEF TypeInv, TableOK, ManagerOK, ServerOK, RequestsOK, GhostsOK
<1>4. QED
  BY <1>1, <1>2, <1>3 DEF Next

(* TypeInv holds throughout, by induction on the steps. *)
THEOREM TypeInductive == Spec => []TypeInv
  BY TypeInit, TypeStep, PTL DEF Spec

(* Every variable keeps its type: an ID is of a row once inserted, and a   *)
(* client in the manager's map has been made (manager.go:19-26).           *)
THEOREM TypeCorrect == Spec => []TypeOK
  BY TypeInductive, TypeInvTypes, PTL

-----------------------------------------------------------------------------
(* OnlyMappedClientsRun and ShutdownStaysFinal. The second needs the first *)
(* at StopAll, which reaches only the clients in the map.                  *)
ManagerSafe == OnlyMappedRun /\ ShutdownIsFinal

(* No client runs before the server starts. *)
LEMMA SafeInit == Init => ManagerSafe
  BY DEF Init, ManagerSafe, OnlyMappedRun, ShutdownIsFinal

(* Requests reach the clients through Add and Remove only. *)
LEMMA SafeRequest ==
  ASSUME TypeInv, ManagerSafe, NEW p \in Procs, Request(p)
  PROVE  ManagerSafe'
<1> USE DEF ManagerSafe
<1>1. ManagerOK /\ row[p] \in Row /\ (pc[p] \notin {"idle", "insert"} => id[p] \in Ids)
  BY RequestParts DEF TypeInv
<1>2. CASE Add(p)
  <2>1. id[p] \in Ids /\ AddClient(id[p], row[p]) /\ phase' = phase
    BY <1>1, <1>2 DEF Add
  <2>2. QED
    BY <1>1, <2>1, AddFacts
<1>3. CASE Remove(p)
  <2>1. made' = Stopped(id[p]) /\ clients' = Drop(clients, id[p]) /\ phase' = phase
    BY <1>3 DEF Remove, RemoveClient
  <2>2. QED
    BY <1>1, <2>1, StopFacts
<1>4. CASE ~Add(p) /\ ~Remove(p)
  <2>1. made' = made /\ clients' = clients /\ phase' = phase
    BY <1>4 DEF Request, BeginInsert, BeginUpdate, BeginDelete, Insert, Read, Write,
                Find, Erase, Fail
  <2>2. QED
    BY <2>1 DEF OnlyMappedRun, ShutdownIsFinal
<1>5. QED
  BY <1>2, <1>3, <1>4

(* The server reaches them through LoadNodes, Shutdown and its death. *)
LEMMA SafeServer ==
  ASSUME TypeInv, ManagerSafe, Server
  PROVE  ManagerSafe'
<1> USE DEF ManagerSafe
<1>1. ManagerOK
  BY DEF TypeInv
<1>2. ASSUME NEW i \in Ids, LoadNode(i) PROVE ManagerSafe'
  <2>1. listing[i] \in Row /\ phase' = phase
    BY <1>2 DEF LoadNode, TypeInv, ServerOK, IsTable
  <2>2. CASE listing[i].enabled
    BY <1>1, <1>2, <2>1, <2>2, AddFacts DEF LoadNode
  <2>3. CASE ~listing[i].enabled
    BY <1>2, <2>1, <2>3 DEF LoadNode, OnlyMappedRun, ShutdownIsFinal
  <2>4. QED
    BY <2>2, <2>3
<1>3. CASE Boot \/ Listen \/ Cancel \/ CloseListener
  BY <1>3 DEF Boot, Listen, Cancel, CloseListener, OnlyMappedRun, ShutdownIsFinal
<1>4. CASE StopAll
  <2>1. made \in Seq(Client) /\ DOMAIN made = 1 .. Len(made)
    BY <1>1, LenProperties DEF ManagerOK
  <2>2. made' \in Seq(Client) /\ Len(made') = Len(made)
    BY <1>1, <1>4, AllStoppedClients DEF StopAll
  <2>3. DOMAIN made' = 1 .. Len(made)
    BY <2>2, LenProperties
  <2>4. ASSUME NEW k \in 1 .. Len(made) PROVE made'[k].quit
    <3>1. ~made[k].quit => \E i \in DOMAIN clients : clients[i] = k
      BY <2>1 DEF OnlyMappedRun
    <3>2. QED
      BY <1>1, <1>4, <3>1, AllStoppedClients DEF StopAll
  <2>5. QED
    BY <2>3, <2>4 DEF OnlyMappedRun, ShutdownIsFinal
<1>5. CASE Die
  <2>1. DOMAIN made' = {}
    BY <1>5 DEF Die
  <2>2. QED
    BY <2>1 DEF OnlyMappedRun, ShutdownIsFinal
<1>6. QED
  BY <1>2, <1>3, <1>4, <1>5 DEF Server

(* ManagerSafe is inductive, given the types. *)
LEMMA SafeStep == TypeInv /\ ManagerSafe /\ [Next]_vars => ManagerSafe'
<1> SUFFICES ASSUME TypeInv, ManagerSafe, [Next]_vars PROVE ManagerSafe'
  OBVIOUS
<1>1. CASE UNCHANGED vars
  BY <1>1 DEF ManagerSafe, OnlyMappedRun, ShutdownIsFinal
<1>2. QED
  BY <1>1, SafeRequest, SafeServer DEF Next

(* ManagerSafe holds throughout. *)
LEMMA SafeAlways == Spec => []ManagerSafe
  BY TypeInductive, SafeInit, SafeStep, PTL DEF Spec

(* A client not told to stop is the one the manager has for its node, so a *)
(* node never has two running (manager.go:49-93, 150-158).                 *)
THEOREM OnlyMappedClientsRun == Spec => []OnlyMappedRun
<1>1. ManagerSafe => OnlyMappedRun
  BY DEF ManagerSafe
<1>2. QED
  BY <1>1, SafeAlways, PTL

(* After Shutdown no client runs, whatever handlers still do               *)
(* (manager.go:72, 150-158).                                               *)
THEOREM ShutdownStaysFinal == Spec => []ShutdownIsFinal
<1>1. ManagerSafe => ShutdownIsFinal
  BY DEF ManagerSafe
<1>2. QED
  BY <1>1, SafeAlways, PTL

-----------------------------------------------------------------------------
(* No step brings a deleted row back or reuses its ID (db/nodes.go:95-111). *)
THEOREM DeletedNodesStayDeleted == Spec => DeletedStaysDeleted
<1> DEFINE Stays == \A i \in 1 .. lastId : i \notin DOMAIN nodes => i \notin DOMAIN nodes'
<1>1. TypeInv /\ [Next]_vars => [Stays]_vars
  <2> SUFFICES ASSUME TypeInv, Next PROVE Stays
    BY Zenon
  <2>1. TableOK
    BY DEF TypeInv
  <2>2. ASSUME NEW p \in Procs, Request(p) PROVE Stays
    <3>1. CASE Insert(p)
      <4>1. lastId \in Nat /\ NewId \notin 1 .. lastId
        BY <2>1, LifecycleAssumption DEF LifecycleAssumption, TableOK, NewId
      <4>2. DOMAIN nodes' = DOMAIN nodes \cup {NewId}
        BY <3>1 DEF Insert, Put
      <4>3. QED
        BY <4>1, <4>2
    <3>2. CASE Write(p)
      BY <3>2 DEF Write, Updated
    <3>3. CASE Erase(p)
      BY <3>3 DEF Erase, Drop
    <3>4. CASE ~Insert(p) /\ ~Write(p) /\ ~Erase(p)
      <4>1. nodes' = nodes
        BY <2>2, <3>4 DEF Request, BeginInsert, BeginUpdate, BeginDelete, Read, Add,
                          Remove, Find, Fail
      <4>2. QED
        BY <4>1
    <3>5. QED
      BY <3>1, <3>2, <3>3, <3>4
  <2>3. CASE Server
    <3>1. nodes' = nodes
      BY <2>3 DEF Server, Boot, LoadNode, Listen, Cancel, StopAll, CloseListener, Die
    <3>2. QED
      BY <3>1
  <2>4. QED
    BY <2>2, <2>3 DEF Next
<1>2. QED
  BY <1>1, TypeInductive, PTL DEF Spec, DeletedStaysDeleted

-----------------------------------------------------------------------------
(* SettledNodesAgree. The invariant follows every change half way through. *)

(* Commands neither call the manager nor, like a handler, delete a row     *)
(* they have not looked up; and before the server serves there are no      *)
(* requests, and before it starts no clients.                              *)
PlacesInv ==
  /\ \A p \in Procs : /\ pc[p] \in {"add", "remove"} => p \in Handlers
                      /\ pc[p] = "find" => p \notin Handlers
  /\ phase \in {"down", "loading"} => \A h \in Handlers : pc[h] = "idle"
  /\ phase = "down" => DOMAIN clients = {}

(* The client the manager has for a node is that node's. *)
ClientsOwn == \A i \in DOMAIN clients : made[clients[i]].node = i

(* Who is alone is the only request on its node, and no command has        *)
(* changed that node since.                                                *)
AloneInv ==
  \A p \in Procs : alone[p] =>
    p \in Handlers /\ pc[p] \notin {"idle", "insert"} /\ Active(id[p]) = {p}

(* So the row it read is there until it writes, the row it has written or  *)
(* inserted is the one it passes to the manager, and the client it has     *)
(* removed is not back when it deletes the row.                            *)
Prepared(p) ==
  /\ pc[p] = "write" => id[p] \in DOMAIN nodes
  /\ pc[p] = "add" => id[p] \in DOMAIN nodes /\ nodes[id[p]] = row[p]
  /\ pc[p] = "erase" => id[p] \notin DOMAIN clients
PreparedInv == \A p \in Procs : alone[p] => Prepared(p)

(* While the server loads, what is listed is in the table and has no       *)
(* client yet; all else agrees, and so does everything that is not between *)
(* the two halves of a change once the server serves.                      *)
Current(i) ==
  IF phase = "loading" /\ i \in DOMAIN listing
  THEN i \in DOMAIN nodes /\ nodes[i] = listing[i] /\ i \notin DOMAIN clients
  ELSE Agrees(i)
HalfDone(i) == {h \in Handlers : pc[h] \in {"add", "erase"} /\ id[h] = i}
CurrentInv ==
  phase \in {"loading", "serving"} =>
    \A i \in Ids \ disturbed : HalfDone(i) = {} => Current(i)

SettledInv ==
  TypeInv /\ PlacesInv /\ ClientsOwn /\ AloneInv /\ PreparedInv /\ CurrentInv

(* A step leaves node i as it is in the table, or in the manager. *)
SameRow(i) ==
  /\ i \in DOMAIN nodes' <=> i \in DOMAIN nodes
  /\ i \in DOMAIN nodes => nodes'[i] = nodes[i]
SameClient(i) ==
  /\ i \in DOMAIN clients' <=> i \in DOMAIN clients
  /\ i \in DOMAIN clients => clients'[i] = clients[i] /\ made'[clients[i]] = made[clients[i]]

(* What agreed before such a step agrees after it. *)
LEMMA AgreesKept ==
  ASSUME NEW i, SameRow(i), SameClient(i), Agrees(i)
  PROVE  Agrees(i)'
  BY DEF SameRow, SameClient, Agrees

(* Only the client of node i is stopped (client.go:69-78). *)
LEMMA StoppedOthers ==
  ASSUME ManagerOK, NEW i, NEW k \in 1 .. Len(made), ~(i \in DOMAIN clients /\ clients[i] = k)
  PROVE  Stopped(i)[k] = made[k]
<1>1. DOMAIN made = 1 .. Len(made)
  BY LenProperties DEF ManagerOK
<1>2. QED
  BY <1>1 DEF Stopped

(* No two nodes have the same client. *)
LEMMA ClientsApart ==
  ASSUME ClientsOwn, NEW i \in DOMAIN clients, NEW j \in DOMAIN clients, i # j
  PROVE  clients[i] # clients[j]
  BY DEF ClientsOwn

(* Removing a node's client leaves the others (manager.go:86-93). *)
LEMMA RemoveTouches ==
  ASSUME ManagerOK, ClientsOwn, NEW i, made' = Stopped(i), clients' = Drop(clients, i)
  PROVE  /\ ClientsOwn' /\ i \notin DOMAIN clients'
         /\ \A j : j # i => SameClient(j)
<1>1. /\ DOMAIN clients' = DOMAIN clients \ {i}
      /\ \A j \in DOMAIN clients \ {i} : clients'[j] = clients[j]
  BY DEF Drop
<1>2. \A j \in DOMAIN clients : clients[j] \in 1 .. Len(made)
  BY DEF ManagerOK, IsTable
<1>3. \A j \in DOMAIN clients \ {i} : made'[clients[j]] = made[clients[j]]
  BY <1>2, StoppedOthers, ClientsApart
<1>4. QED
  BY <1>1, <1>3 DEF ClientsOwn, SameClient

(* Adding a node leaves the others, and gives it a client with those       *)
(* settings exactly if it is enabled (manager.go:49-83).                   *)
LEMMA AddTouches ==
  ASSUME ManagerOK, ClientsOwn, NEW i \in Ids, NEW r \in Row, AddClient(i, r)
  PROVE  /\ ClientsOwn'
         /\ i \in DOMAIN clients' <=> r.enabled
         /\ r.enabled => made'[clients'[i]].row = r /\ ~made'[clients'[i]].quit
         /\ \A j : j # i => SameClient(j)
<1>1. CASE ~r.enabled
  <2>1. made' = Stopped(i) /\ clients' = Drop(clients, i)
    BY <1>1 DEF AddClient, AfterAdd
  <2>2. QED
    BY <1>1, <2>1, RemoveTouches
<1>2. CASE r.enabled
  <2> DEFINE n == Len(made)
             S == Stopped(i)
             c == [node |-> i, row |-> r, quit |-> FALSE, live |-> StartsLive]
  <2>1. n \in Nat /\ S \in Seq(Client) /\ Len(S) = n
    BY StoppedClients, LenProperties DEF ManagerOK
  <2>2. StartsLive \in BOOLEAN
    BY Zenon DEF StartsLive, CtxDone
  <2>3. c \in Client /\ c.node = i /\ c.row = r /\ ~c.quit
    BY <2>2 DEF Client
  <2>4. made' = Append(S, c) /\ clients' = Put(clients, i, n + 1)
    BY <1>2 DEF AddClient, AfterAdd
  <2>5. \A j \in DOMAIN clients : clients[j] \in 1 .. n
    BY DEF ManagerOK, IsTable
  <2>6. \A j \in DOMAIN clients \ {i} : S[clients[j]] = made[clients[j]]
    BY <2>5, StoppedOthers, ClientsApart
  <2> HIDE DEF S, c
  <2>7. made'[n + 1] = c /\ \A k \in 1 .. n : made'[k] = S[k]
    BY <2>1, <2>3, <2>4, AppendProperties
  <2> HIDE DEF n
  <2>8. /\ DOMAIN clients' = DOMAIN clients \cup {i}
        /\ clients'[i] = n + 1 /\ \A j \in DOMAIN clients \ {i} : clients'[j] = clients[j]
    BY <2>4 DEF Put
  <2>9. \A j \in DOMAIN clients \ {i} : made'[clients[j]] = made[clients[j]]
    BY <2>5, <2>6, <2>7
  <2>10. \A j : j # i => SameClient(j)
    BY <2>8, <2>9 DEF SameClient
  <2>11. ClientsOwn'
    BY <2>3, <2>7, <2>8, <2>9 DEF ClientsOwn
  <2>12. QED
    BY <1>2, <2>3, <2>7, <2>8, <2>10, <2>11
<1>3. QED
  BY <1>1, <1>2

(* A request changes itself and one node at most. *)
LEMMA RequestFrame ==
  ASSUME TypeInv, NEW p \in Procs, Request(p)
  PROVE  /\ phase' = phase /\ listing' = listing
         /\ \A q \in Procs \ {p} : pc'[q] = pc[q] /\ id'[q] = id[q] /\ row'[q] = row[q]
<1> USE DEF TypeInv, RequestsOK
<1>1. CASE BeginInsert(p)
  BY <1>1 DEF BeginInsert
<1>2. ASSUME NEW i, BeginUpdate(p, i) \/ BeginDelete(p, i)
      PROVE  /\ phase' = phase /\ listing' = listing
             /\ \A q \in Procs \ {p} : pc'[q] = pc[q] /\ id'[q] = id[q] /\ row'[q] = row[q]
  BY <1>2 DEF BeginUpdate, BeginDelete
<1>3. CASE Insert(p)
  BY <1>3 DEF Insert, Done
<1>4. CASE Read(p)
  BY <1>4 DEF Read, Done
<1>5. CASE Write(p) \/ Erase(p)
  BY <1>5 DEF Write, Erase, Done
<1>6. CASE Add(p) \/ Remove(p) \/ Find(p) \/ Fail(p)
  BY <1>6 DEF Add, Remove, Find, Fail, Done
<1>7. QED
  BY <1>1, <1>2, <1>3, <1>4, <1>5, <1>6 DEF Request

(* A request's step changes at most the row or the client of its own node. *)
LEMMA RequestTouches ==
  ASSUME TypeInv, ClientsOwn, NEW p \in Procs, Request(p)
  PROVE  /\ ClientsOwn'
         /\ \A j : ~(Insert(p) /\ j = NewId) /\ ~((Write(p) \/ Erase(p)) /\ j = id[p]) => SameRow(j)
         /\ \A j : ~((Add(p) \/ Remove(p)) /\ j = id[p]) => SameClient(j)
<1>1. ManagerOK /\ row[p] \in Row /\ (pc[p] \notin {"idle", "insert"} => id[p] \in Ids)
  BY RequestParts DEF TypeInv
<1>2. ASSUME UNCHANGED <<made, clients>> PROVE ClientsOwn' /\ \A j : SameClient(j)
  BY <1>2 DEF ClientsOwn, SameClient
<1>3. ASSUME nodes' = nodes PROVE \A j : SameRow(j)
  BY <1>3 DEF SameRow
<1>4. CASE Insert(p)
  <2>1. \A j : j # NewId => SameRow(j)
    BY <1>4 DEF Insert, Put, SameRow
  <2>2. UNCHANGED <<made, clients>>
    BY <1>4 DEF Insert
  <2>3. QED
    BY <1>2, <1>4, <2>1, <2>2
<1>5. CASE Write(p)
  <2>1. \A j : j # id[p] => SameRow(j)
    BY <1>5 DEF Write, Updated, SameRow
  <2>2. UNCHANGED <<made, clients>>
    BY <1>5 DEF Write
  <2>3. QED
    BY <1>2, <1>5, <2>1, <2>2
<1>6. CASE Erase(p)
  <2>1. \A j : j # id[p] => SameRow(j)
    BY <1>6 DEF Erase, Drop, SameRow
  <2>2. UNCHANGED <<made, clients>>
    BY <1>6 DEF Erase
  <2>3. QED
    BY <1>2, <1>6, <2>1, <2>2
<1>7. CASE Add(p)
  <2>1. nodes' = nodes /\ AddClient(id[p], row[p]) /\ id[p] \in Ids
    BY <1>1, <1>7 DEF Add
  <2>2. QED
    BY <1>1, <1>3, <1>7, <2>1, AddTouches
<1>8. CASE Remove(p)
  <2>1. nodes' = nodes /\ made' = Stopped(id[p]) /\ clients' = Drop(clients, id[p])
    BY <1>8 DEF Remove, RemoveClient
  <2>2. QED
    BY <1>1, <1>3, <1>8, <2>1, RemoveTouches
<1>9. CASE \/ BeginInsert(p) \/ \E i \in 1 .. lastId : BeginUpdate(p, i) \/ BeginDelete(p, i)
           \/ Read(p) \/ Find(p) \/ Fail(p)
  <2>1. UNCHANGED <<nodes, made, clients>>
    BY <1>9 DEF BeginInsert, BeginUpdate, BeginDelete, Read, Find, Fail
  <2>2. QED
    BY <1>2, <1>3, <2>1
<1>10. QED
  BY <1>4, <1>5, <1>6, <1>7, <1>8, <1>9 DEF Request

(* A handler at work finds the server up. *)
LEMMA HandlerServed ==
  ASSUME PlacesInv, NEW p \in Procs, p \in Handlers, Request(p)
  PROVE  phase \notin {"down", "loading"}
<1>1. phase \in {"down", "loading"} => pc[p] = "idle"
  BY DEF PlacesInv
<1>2. CASE pc[p] = "idle"
  BY <1>2 DEF Request, BeginInsert, BeginUpdate, BeginDelete, Begin, Insert, Read, Write, Add,
     Remove, Find, Erase, Fail
<1>3. QED
  BY <1>1, <1>2

(* Where a request goes next. *)
LEMMA PlacesRequest ==
  ASSUME TypeInv, PlacesInv, NEW p \in Procs, Request(p)
  PROVE  PlacesInv'
<1> USE DEF TypeInv, RequestsOK
<1>1. /\ pc'[p] \in {"add", "remove"} => p \in Handlers
      /\ pc'[p] = "find" => p \notin Handlers
  <2>1. CASE BeginInsert(p) \/ \E i \in 1 .. lastId : BeginUpdate(p, i) \/ BeginDelete(p, i)
    BY <2>1 DEF BeginInsert, BeginUpdate, BeginDelete
  <2>2. CASE Insert(p) \/ Write(p)
    BY <2>2 DEF Insert, Write, Done
  <2>3. CASE Read(p) \/ Add(p) \/ Remove(p) \/ Find(p) \/ Erase(p) \/ Fail(p)
    BY <2>3 DEF Read, Add, Remove, Find, Erase, Fail, Done
  <2>4. QED
    BY <2>1, <2>2, <2>3 DEF Request
<1>2. phase \notin {"down", "loading"} \/ p \notin Handlers
  BY HandlerServed
<1>3. phase = "down" => clients' = clients
  <2>1. phase = "down" => ~Add(p) /\ ~Remove(p)
    BY <1>2 DEF PlacesInv, Add, Remove
  <2>2. ~Add(p) /\ ~Remove(p) => clients' = clients
    BY DEF Request, BeginInsert, BeginUpdate, BeginDelete, Insert, Read, Write, Find, Erase, Fail
  <2>3. QED
    BY <2>1, <2>2
<1>4. phase' = phase /\ \A q \in Procs \ {p} : pc'[q] = pc[q]
  BY RequestFrame
<1>5. QED
  BY <1>1, <1>2, <1>3, <1>4 DEF PlacesInv

(* Taking up a node: whoever was alone on it is no longer. *)
LEMMA AloneEntered ==
  ASSUME AloneInv, NEW p \in Procs, NEW i, Enter(p, i), id'[p] = i,
         pc[p] \in {"idle", "insert"}, pc'[p] \notin {"idle", "insert"},
         \A q \in Procs \ {p} : pc'[q] = pc[q] /\ id'[q] = id[q]
  PROVE  AloneInv'
<1> SUFFICES ASSUME NEW q \in Procs, alone'[q]
             PROVE  q \in Handlers /\ pc'[q] \notin {"idle", "insert"} /\ Active(id[q])' = {q}
  BY DEF AloneInv
<1>1. CASE q = p
  <2>1. p \in Handlers /\ Active(i) = {}
    BY <1>1, Zenon DEF Enter
  <2>2. Active(i)' = {p}
    BY <2>1 DEF Active
  <2>3. QED
    BY <1>1, <2>1, <2>2
<1>2. CASE q # p
  <2>1. alone[q] /\ q \notin Active(i)
    BY <1>2, Zenon DEF Enter
  <2>2. q \in Handlers /\ pc[q] \notin {"idle", "insert"} /\ Active(id[q]) = {q}
    BY <2>1 DEF AloneInv
  <2>3. id[q] # i
    BY <2>1, <2>2
  <2>4. Active(id[q])' = {q}
    BY <1>2, <2>2, <2>3 DEF Active
  <2>5. QED
    BY <1>2, <2>2, <2>4
<1>3. QED
  BY <1>1, <1>2

(* Leaving a node, or staying there. *)
LEMMA AloneStayed ==
  ASSUME AloneInv, NEW p \in Procs,
         \A q \in Procs : alone'[q] => alone[q],
         \A q \in Procs \ {p} : pc'[q] = pc[q] /\ id'[q] = id[q],
         \/ pc'[p] \in {"idle", "insert"} /\ ~alone'[p]
         \/ pc'[p] \notin {"idle", "insert"} /\ pc[p] \notin {"idle", "insert"} /\ id'[p] = id[p]
  PROVE  AloneInv'
<1> SUFFICES ASSUME NEW q \in Procs, alone'[q]
             PROVE  q \in Handlers /\ pc'[q] \notin {"idle", "insert"} /\ Active(id[q])' = {q}
  BY DEF AloneInv
<1>1. q \in Handlers /\ pc[q] \notin {"idle", "insert"} /\ Active(id[q]) = {q}
  BY DEF AloneInv
<1>2. pc'[q] \notin {"idle", "insert"} /\ id'[q] = id[q]
  BY <1>1
<1>3. Active(id[q])' = {q}
  BY <1>1, <1>2 DEF Active
<1>4. QED
  BY <1>1, <1>2, <1>3

(* What a request does to who is alone. *)
LEMMA AloneRequest ==
  ASSUME TypeInv, PlacesInv, AloneInv, NEW p \in Procs, Request(p)
  PROVE  AloneInv'
<1>1. \A q \in Procs \ {p} : pc'[q] = pc[q] /\ id'[q] = id[q]
  BY RequestFrame
<1>2. /\ pc \in [Procs -> {"idle", "insert", "read", "write", "add", "remove", "find", "erase"}]
      /\ id \in [Procs -> 0 .. MaxNode] /\ alone \in [Procs -> BOOLEAN]
  BY DEF TypeInv, RequestsOK, GhostsOK
<1>3. p \in Admins => ~alone[p]
  BY LifecycleAssumption DEF AloneInv, LifecycleAssumption
<1>4. ASSUME Forget(p) PROVE ~alone'[p] /\ \A q \in Procs : alone'[q] => alone[q]
  BY <1>2, <1>4 DEF Forget
<1>5. ASSUME NEW i, Behind(i) PROVE \A q \in Procs : alone'[q] => alone[q]
  BY <1>5, Zenon DEF Behind
<1>6. ASSUME NEW rest, Done(p, rest) PROVE pc'[p] \in {"idle", "insert"}
  BY <1>2, <1>6 DEF Done
<1>7. CASE BeginInsert(p)
  <2>1. pc[p] = "idle" /\ pc'[p] = "insert" /\ alone' = alone
    BY <1>2, <1>7 DEF BeginInsert, Begin
  <2>2. ~alone'[p]
    BY <2>1 DEF AloneInv
  <2>3. QED
    BY <1>1, <2>1, <2>2, AloneStayed
<1>8. ASSUME NEW i \in 1 .. lastId, BeginUpdate(p, i) \/ BeginDelete(p, i) PROVE AloneInv'
  <2>1. Enter(p, i) /\ id'[p] = i /\ pc[p] = "idle" /\ pc'[p] \notin {"idle", "insert"}
    BY <1>2, <1>8 DEF BeginUpdate, BeginDelete, Begin
  <2>2. QED
    BY <1>1, <2>1, AloneEntered
<1>9. CASE Insert(p)
  <2>1. CASE p \in Handlers
    <3>1. Enter(p, NewId) /\ id'[p] = NewId /\ pc[p] = "insert" /\ pc'[p] = "add"
      BY <1>2, <1>9, <2>1 DEF Insert
    <3> DEFINE n == NewId
    <3>2. Enter(p, n) /\ id'[p] = n
      BY <3>1
    <3> HIDE DEF n
    <3>3. QED
      BY <1>1, <3>1, <3>2, AloneEntered
  <2>2. CASE p \notin Handlers
    <3>1. Done(p, <<>>) /\ Behind(NewId)
      BY <1>9, <2>2 DEF Insert
    <3>2. QED
      BY <1>1, <1>3, <1>5, <1>6, <2>2, <3>1, AloneStayed
  <2>3. QED
    BY <2>1, <2>2
<1>10. CASE Read(p)
  <2>1. CASE id[p] \in DOMAIN nodes
    <3>1. pc[p] = "read" /\ pc'[p] = "write" /\ alone' = alone /\ id'[p] = id[p]
      BY <1>2, <1>10, <2>1 DEF Read
    <3>2. QED
      BY <1>1, <3>1, AloneStayed
  <2>2. CASE id[p] \notin DOMAIN nodes
    <3>1. Done(p, <<>>) /\ Forget(p)
      BY <1>10, <2>2 DEF Read
    <3>2. QED
      BY <1>1, <1>4, <1>6, <3>1, AloneStayed
  <2>3. QED
    BY <2>1, <2>2
<1>11. CASE Write(p)
  <2>1. CASE p \in Handlers
    <3>1. pc[p] = "write" /\ pc'[p] = "add" /\ alone' = alone /\ id'[p] = id[p]
      BY <1>2, <1>11, <2>1 DEF Write
    <3>2. QED
      BY <1>1, <3>1, AloneStayed
  <2>2. CASE p \notin Handlers
    <3>1. Done(p, <<>>) /\ Behind(id[p])
      BY <1>11, <2>2 DEF Write
    <3>2. QED
      BY <1>1, <1>3, <1>5, <1>6, <2>2, <3>1, AloneStayed
  <2>3. QED
    BY <2>1, <2>2
<1>12. CASE Add(p) \/ Fail(p)
  <2>1. (\E rest : Done(p, rest)) /\ Forget(p)
    BY <1>12 DEF Add, Fail
  <2>2. QED
    BY <1>1, <1>4, <1>6, <2>1, AloneStayed
<1>13. CASE Remove(p)
  <2>1. pc[p] = "remove" /\ pc'[p] = "erase" /\ alone' = alone /\ id'[p] = id[p]
    BY <1>2, <1>13 DEF Remove
  <2>2. QED
    BY <1>1, <2>1, AloneStayed
<1>14. CASE Find(p)
  <2>1. pc[p] = "find" /\ alone' = alone /\ p \in Admins
    BY <1>14 DEF Find, PlacesInv
  <2>2. (pc'[p] = "erase" /\ id'[p] = id[p]) \/ pc'[p] \in {"idle", "insert"}
    BY <1>2, <1>6, <1>14 DEF Find
  <2>3. QED
    BY <1>1, <1>3, <2>1, <2>2, AloneStayed
<1>15. CASE Erase(p)
  <2>1. Done(p, <<>>) /\ (IF p \in Admins THEN Behind(id[p]) ELSE Forget(p))
    BY <1>15 DEF Erase
  <2>2. pc'[p] \in {"idle", "insert"}
    BY <1>6, <2>1
  <2>3. ~alone'[p] /\ \A q \in Procs : alone'[q] => alone[q]
    BY <1>3, <1>4, <1>5, <2>1
  <2>4. QED
    BY <1>1, <2>2, <2>3, AloneStayed
<1>16. QED
  BY <1>7, <1>8, <1>9, <1>10, <1>11, <1>12, <1>13, <1>14, <1>15 DEF Request

(* No request makes another alone, and none changes the node of one that   *)
(* still is.                                                               *)
LEMMA AloneApart ==
  ASSUME TypeInv, PlacesInv, AloneInv, NEW p \in Procs, NEW q \in Procs, q # p, Request(p), alone'[q]
  PROVE  /\ alone[q]
         /\ Write(p) \/ Erase(p) \/ Add(p) \/ Remove(p) => id[q] # id[p]
<1>1. alone \in [Procs -> BOOLEAN]
  BY DEF TypeInv, GhostsOK
<1>2. ASSUME NEW i, Behind(i) PROVE alone[q] /\ q \notin Active(i)
  BY <1>2, Zenon DEF Behind
<1>3. ASSUME NEW i, Enter(p, i) PROVE alone[q]
  BY <1>3, Zenon DEF Enter
<1>4. Forget(p) => alone[q]
  BY <1>1 DEF Forget
<1>5. alone[q]
  <2>1. CASE BeginInsert(p) \/ Find(p) \/ Remove(p)
    BY <2>1 DEF BeginInsert, Find, Remove
  <2>2. CASE \E i \in 1 .. lastId : BeginUpdate(p, i) \/ BeginDelete(p, i)
    BY <1>3, <2>2 DEF BeginUpdate, BeginDelete
  <2>3. CASE Insert(p) \/ Write(p) \/ Erase(p)
    BY <1>2, <1>3, <1>4, <2>3 DEF Insert, Write, Erase
  <2>4. CASE Read(p) \/ Add(p) \/ Fail(p)
    BY <1>4, <2>4 DEF Read, Add, Fail
  <2>5. QED
    BY <2>1, <2>2, <2>3, <2>4 DEF Request
<1>6. q \in Handlers /\ q \in Active(id[q]) /\ Active(id[q]) = {q}
  BY <1>5 DEF AloneInv
<1>7. ASSUME Write(p) \/ Erase(p) \/ Add(p) \/ Remove(p) PROVE id[q] # id[p]
  <2>1. pc[p] \notin {"idle", "insert"}
    BY <1>7 DEF Write, Erase, Add, Remove
  <2>2. CASE p \in Handlers
    <3>1. p \in Active(id[p])
      BY <2>1, <2>2 DEF Active
    <3>2. QED
      BY <1>6, <3>1
  <2>3. CASE p \notin Handlers /\ (Write(p) \/ Erase(p))
    <3>1. Behind(id[p])
      BY <2>3 DEF Write, Erase
    <3>2. QED
      BY <1>2, <1>6, <3>1
  <2>4. CASE p \notin Handlers /\ (Add(p) \/ Remove(p))
    BY <2>4 DEF Add, Remove, PlacesInv
  <2>5. QED
    BY <1>7, <2>2, <2>3, <2>4
<1>8. QED
  BY <1>5, <1>7

(* Who stays alone stays prepared for its next step. *)
LEMMA PreparedOthers ==
  ASSUME TypeInv, PlacesInv, ClientsOwn, AloneInv, PreparedInv,
         NEW p \in Procs, NEW q \in Procs, q # p, Request(p), alone'[q]
  PROVE  Prepared(q)'
<1>1. Prepared(q) /\ (Write(p) \/ Erase(p) \/ Add(p) \/ Remove(p) => id[q] # id[p])
  BY AloneApart DEF PreparedInv
<1>2. pc'[q] = pc[q] /\ id'[q] = id[q] /\ row'[q] = row[q]
  BY RequestFrame
<1>3. SameClient(id[q])
  BY <1>1, RequestTouches
<1>4. id[q] \in DOMAIN nodes => SameRow(id[q])
  <2>1. Insert(p) => NewId \notin DOMAIN nodes
    BY LifecycleAssumption DEF LifecycleAssumption, TypeInv, TableOK, NewId
  <2>2. QED
    BY <1>1, <2>1, RequestTouches
<1>5. QED
  BY <1>1, <1>2, <1>3, <1>4 DEF Prepared, SameRow, SameClient

(* A step of a request leaves those that are alone prepared. *)
LEMMA PreparedRequest ==
  ASSUME TypeInv, PlacesInv, ClientsOwn, AloneInv, PreparedInv, NEW p \in Procs, Request(p)
  PROVE  PreparedInv'
<1>1. /\ pc \in [Procs -> {"idle", "insert", "read", "write", "add", "remove", "find", "erase"}]
      /\ id \in [Procs -> 0 .. MaxNode] /\ row \in [Procs -> Row]
  BY DEF TypeInv, RequestsOK
<1>2. alone[p] => p \in Handlers /\ Prepared(p)
  BY DEF AloneInv, PreparedInv
<1>3. ASSUME pc'[p] \notin {"write", "add", "erase"} PROVE Prepared(p)'
  BY <1>3 DEF Prepared
<1>4. ASSUME NEW rest, Done(p, rest) PROVE pc'[p] \notin {"write", "add", "erase"}
  BY <1>1, <1>4 DEF Done
<1>5. ASSUME alone'[p] PROVE Prepared(p)'
  <2>1. CASE BeginInsert(p) \/ \E i \in 1 .. lastId : BeginUpdate(p, i) \/ BeginDelete(p, i)
    <3>1. (p \in Handlers => pc'[p] \notin {"write", "add", "erase"})
          /\ pc'[p] \notin {"write", "add", "erase"}
      BY <1>1, <2>1 DEF BeginInsert, BeginUpdate, BeginDelete
    <3>2. QED
      BY <1>3, <3>1
  <2>2. CASE Insert(p)
    <3>1. CASE p \in Handlers
      <4>1. /\ pc'[p] = "add" /\ id'[p] = NewId /\ row'[p] = Head(todo[p])
            /\ nodes' = Put(nodes, NewId, Head(todo[p]))
        BY <1>1, <2>2, <3>1 DEF Insert
      <4>2. QED
        BY <4>1 DEF Prepared, Put
    <3>2. CASE p \notin Handlers
      BY <1>3, <1>4, <2>2, <3>2 DEF Insert
    <3>3. QED
      BY <3>1, <3>2
  <2>3. CASE Read(p)
    <3>1. CASE id[p] \in DOMAIN nodes
      BY <1>1, <2>3, <3>1 DEF Read, Prepared
    <3>2. CASE id[p] \notin DOMAIN nodes
      BY <1>3, <1>4, <2>3, <3>2 DEF Read
    <3>3. QED
      BY <3>1, <3>2
  <2>4. CASE Write(p)
    <3>1. CASE p \in Handlers
      <4>1. /\ pc[p] = "write" /\ pc'[p] = "add" /\ UNCHANGED <<id, row, alone>>
            /\ nodes' = Updated(id[p], row[p])
        BY <1>1, <2>4, <3>1 DEF Write
      <4>2. id[p] \in DOMAIN nodes
        BY <1>2, <1>5, <4>1 DEF Prepared
      <4>3. QED
        BY <4>1, <4>2 DEF Prepared, Updated
    <3>2. CASE p \notin Handlers
      BY <1>3, <1>4, <2>4, <3>2 DEF Write
    <3>3. QED
      BY <3>1, <3>2
  <2>5. CASE Remove(p)
    BY <1>1, <2>5 DEF Remove, RemoveClient, Drop, Prepared
  <2>6. CASE Find(p)
    BY <1>2, <1>5, <2>6 DEF Find, PlacesInv
  <2>7. CASE Add(p) \/ Erase(p) \/ Fail(p)
    BY <1>3, <1>4, <2>7 DEF Add, Erase, Fail
  <2>8. QED
    BY <2>1, <2>2, <2>3, <2>4, <2>5, <2>6, <2>7 DEF Request
<1>6. QED
  BY <1>5, PreparedOthers DEF PreparedInv

(* What is between the two halves of a change, and what has been. *)
LEMMA CurrentRequest ==
  ASSUME TypeInv, PlacesInv, ClientsOwn, AloneInv, PreparedInv, CurrentInv,
         NEW p \in Procs, Request(p)
  PROVE  CurrentInv'
<1> SUFFICES ASSUME phase' \in {"loading", "serving"},
                    NEW i \in Ids, i \notin disturbed', HalfDone(i)' = {}
             PROVE  Current(i)'
  BY DEF CurrentInv
<1>1. /\ pc \in [Procs -> {"idle", "insert", "read", "write", "add", "remove", "find", "erase"}]
      /\ id \in [Procs -> 0 .. MaxNode] /\ row \in [Procs -> Row]
      /\ alone \in [Procs -> BOOLEAN]
  BY DEF TypeInv, RequestsOK, GhostsOK
<1>2. /\ phase' = phase /\ listing' = listing
      /\ \A q \in Procs \ {p} : pc'[q] = pc[q] /\ id'[q] = id[q]
  BY RequestFrame
<1>3. p \in Handlers => phase = "serving"
  BY <1>2, HandlerServed
<1>4. ~(pc'[p] \in {"add", "erase"} /\ p \in Handlers /\ id'[p] = i)
  BY DEF HalfDone
<1>5. ASSUME NEW j, Behind(j) PROVE i # j /\ disturbed \subseteq disturbed'
  BY <1>2, <1>5 DEF Behind
<1>6. CASE Add(p) /\ id[p] = i
  <2>1. alone[p]
    BY <1>6 DEF Add
  <2>2. i \in DOMAIN nodes /\ nodes[i] = row[p] /\ p \in Handlers
    BY <1>6, <2>1 DEF Add, AloneInv, PreparedInv, Prepared
  <2>3. AddClient(i, row[p]) /\ nodes' = nodes /\ row[p] \in Row
    BY <1>1, <1>6 DEF Add
  <2>4. ManagerOK
    BY DEF TypeInv
  <2>5. /\ i \in DOMAIN clients' <=> row[p].enabled
        /\ row[p].enabled => made'[clients'[i]].row = row[p] /\ ~made'[clients'[i]].quit
    BY <2>3, <2>4, AddTouches
  <2>6. Agrees(i)'
    BY <2>2, <2>3, <2>5 DEF Agrees
  <2>7. QED
    BY <1>2, <1>3, <2>2, <2>6 DEF Current
<1>7. CASE Erase(p) /\ id[p] = i
  <2>1. p \notin Admins /\ alone[p]
    BY <1>5, <1>7 DEF Erase
  <2>2. p \in Handlers /\ i \notin DOMAIN clients
    BY <1>7, <2>1 DEF Erase, PreparedInv, Prepared
  <2>3. i \notin DOMAIN nodes' /\ clients' = clients
    BY <1>7 DEF Erase, Drop
  <2>4. Agrees(i)'
    BY <2>2, <2>3 DEF Agrees
  <2>5. QED
    BY <1>2, <1>3, <2>2, <2>4 DEF Current
<1>8. CASE ~(Add(p) /\ id[p] = i) /\ ~(Erase(p) /\ id[p] = i)
  <2>1. ~(Insert(p) /\ NewId = i)
    <3>1. ASSUME Insert(p), NewId = i PROVE FALSE
      <4>1. CASE p \in Handlers
        BY <1>1, <1>4, <3>1, <4>1 DEF Insert
      <4>2. CASE p \notin Handlers
        BY <1>5, <3>1, <4>2 DEF Insert
      <4>3. QED
        BY <4>1, <4>2
    <3>2. QED
      BY <3>1
  <2>2. ~(Write(p) /\ id[p] = i)
    <3>1. ASSUME Write(p), id[p] = i PROVE FALSE
      <4>1. CASE p \in Handlers
        BY <1>1, <1>4, <3>1, <4>1 DEF Write
      <4>2. CASE p \notin Handlers
        BY <1>5, <3>1, <4>2 DEF Write
      <4>3. QED
        BY <4>1, <4>2
    <3>2. QED
      BY <3>1
  <2>3. ~(Remove(p) /\ id[p] = i)
    BY <1>1, <1>4 DEF Remove, PlacesInv
  <2>4. SameRow(i) /\ SameClient(i)
    BY <1>8, <2>1, <2>2, <2>3, RequestTouches
  <2>5. i \notin disturbed
    <3>1. CASE Add(p)
      BY <1>8, <3>1 DEF Add
    <3>2. CASE Erase(p)
      BY <1>5, <1>8, <3>2 DEF Erase
    <3>3. CASE Insert(p) \/ Write(p)
      BY <1>5, <3>3 DEF Insert, Write
    <3>4. CASE BeginInsert(p) \/ \E j \in 1 .. lastId : BeginUpdate(p, j) \/ BeginDelete(p, j)
      BY <3>4 DEF BeginInsert, BeginUpdate, BeginDelete
    <3>5. CASE Read(p) \/ Remove(p) \/ Find(p) \/ Fail(p)
      BY <3>5 DEF Read, Remove, Find, Fail
    <3>6. QED
      BY <3>1, <3>2, <3>3, <3>4, <3>5 DEF Request
  <2>6. HalfDone(i) = {}
    <3>1. ASSUME p \in Handlers, pc[p] \in {"add", "erase"}, id[p] = i PROVE FALSE
      <4>1. Add(p) \/ Erase(p) \/ Fail(p)
        BY <3>1 DEF Request, BeginInsert, BeginUpdate, BeginDelete, Begin, Insert, Read, Write,
           Remove, Find
      <4>2. Fail(p) /\ pc[p] = "erase"
        BY <1>8, <3>1, <4>1 DEF Fail
      <4>3. i \in disturbed'
        BY <3>1, <4>2 DEF Fail
      <4>4. QED
        BY <4>3
    <3>2. \A h \in Handlers : pc[h] \in {"add", "erase"} /\ id[h] = i => FALSE
      BY <1>2, <3>1 DEF HalfDone
    <3>3. QED
      BY <3>2 DEF HalfDone
  <2>7. Current(i)
    BY <1>2, <2>5, <2>6 DEF CurrentInv
  <2>8. CASE phase = "loading" /\ i \in DOMAIN listing
    BY <1>2, <2>4, <2>7, <2>8 DEF Current, SameRow, SameClient
  <2>9. CASE ~(phase = "loading" /\ i \in DOMAIN listing)
    BY <1>2, <2>4, <2>7, <2>9, AgreesKept DEF Current
  <2>10. QED
    BY <2>8, <2>9
<1>9. QED
  BY <1>6, <1>7, <1>8

(* The server starts, one listed node at a time (server.go:151-159,        *)
(* manager.go:39-45).                                                      *)
LEMMA SettledLoad ==
  ASSUME SettledInv, NEW i \in Ids, LoadNode(i)
  PROVE  ClientsOwn' /\ CurrentInv'
<1> USE DEF SettledInv
<1>1. /\ phase = "loading" /\ i \in DOMAIN listing /\ listing' = Drop(listing, i)
      /\ UNCHANGED <<nodes, phase, pc, id, disturbed>>
  BY DEF LoadNode
<1>2. ManagerOK /\ listing[i] \in Row
  BY <1>1 DEF TypeInv, ServerOK, IsTable
<1>3. /\ ClientsOwn' /\ \A j : j # i => SameClient(j)
      /\ listing[i].enabled =>
           i \in DOMAIN clients' /\ made'[clients'[i]].row = listing[i] /\ ~made'[clients'[i]].quit
      /\ ~listing[i].enabled => (i \in DOMAIN clients' <=> i \in DOMAIN clients)
  <2>1. CASE listing[i].enabled
    BY <1>2, <2>1, AddTouches DEF LoadNode
  <2>2. CASE ~listing[i].enabled
    BY <2>2 DEF LoadNode, ClientsOwn, SameClient
  <2>3. QED
    BY <2>1, <2>2
<1>4. ASSUME NEW j \in Ids, j \notin disturbed', HalfDone(j)' = {} PROVE Current(j)'
  <2>1. Current(j)
    BY <1>1, <1>4 DEF CurrentInv, HalfDone
  <2>2. CASE j = i
    <3>1. i \in DOMAIN nodes /\ nodes[i] = listing[i] /\ i \notin DOMAIN clients
      BY <1>1, <2>1, <2>2 DEF Current
    <3>2. Agrees(i)'
      BY <1>1, <1>3, <3>1 DEF Agrees
    <3>3. QED
      BY <1>1, <2>2, <3>2 DEF Current, Drop
  <2>3. CASE j # i
    <3>1. /\ j \in DOMAIN listing' <=> j \in DOMAIN listing
          /\ j \in DOMAIN listing => listing'[j] = listing[j]
      BY <1>1, <2>3 DEF Drop
    <3>2. SameRow(j) /\ SameClient(j)
      BY <1>1, <1>3, <2>3 DEF SameRow
    <3>3. CASE j \in DOMAIN listing
      BY <1>1, <2>1, <3>1, <3>2, <3>3 DEF Current, SameClient
    <3>4. CASE j \notin DOMAIN listing
      BY <1>1, <2>1, <3>1, <3>2, <3>4, AgreesKept DEF Current
    <3>5. QED
      BY <3>3, <3>4
  <2>4. QED
    BY <2>2, <2>3
<1>5. QED
  BY <1>3, <1>4 DEF CurrentInv

(* So do the server's own steps: start, load, shutdown and death. *)
LEMMA SettledServer ==
  ASSUME SettledInv, Server
  PROVE  PlacesInv' /\ ClientsOwn' /\ AloneInv' /\ PreparedInv' /\ CurrentInv'
<1> USE DEF SettledInv
<1>1. CASE Boot
  <2>1. /\ phase = "down" /\ phase' = "loading" /\ listing' = nodes
        /\ UNCHANGED <<nodes, clients, made, pc, id, row, alone>>
    BY <1>1 DEF Boot
  <2>2. DOMAIN clients = {}
    BY <2>1 DEF PlacesInv
  <2>3. CurrentInv'
    BY <2>1, <2>2 DEF CurrentInv, Current, Agrees
  <2>4. QED
    BY <2>1, <2>2, <2>3 DEF PlacesInv, ClientsOwn, AloneInv, Active, PreparedInv, Prepared
<1>2. ASSUME NEW i \in Ids, LoadNode(i)
      PROVE  PlacesInv' /\ ClientsOwn' /\ AloneInv' /\ PreparedInv' /\ CurrentInv'
  <2>1. phase = "loading" /\ UNCHANGED <<nodes, phase, pc, id, row, alone>>
    BY <1>2 DEF LoadNode
  <2>2. \A p \in Procs : ~alone[p]
    BY <2>1 DEF PlacesInv, AloneInv
  <2>3. QED
    BY <1>2, <2>1, <2>2, SettledLoad DEF PlacesInv, AloneInv, PreparedInv
<1>3. CASE Listen
  <2>1. /\ phase = "loading" /\ DOMAIN listing = {} /\ phase' = "serving"
        /\ UNCHANGED <<nodes, clients, made, listing, pc, id, row, alone, disturbed>>
    BY <1>3 DEF Listen
  <2>2. CurrentInv'
    BY <2>1 DEF CurrentInv, Current, Agrees, HalfDone
  <2>3. QED
    BY <2>1, <2>2 DEF PlacesInv, ClientsOwn, AloneInv, Active, PreparedInv, Prepared
<1>4. CASE Cancel \/ StopAll \/ CloseListener
  <2>1. /\ phase' \in {"cancelled", "stopped", "closing"}
        /\ UNCHANGED <<nodes, pc, id, row, alone>>
        /\ UNCHANGED <<clients, made>> \/ clients' = EmptyMap
    BY <1>4 DEF Cancel, StopAll, CloseListener
  <2>2. DOMAIN EmptyMap = {}
    BY DEF EmptyMap
  <2>3. ClientsOwn'
    BY <2>1, <2>2 DEF ClientsOwn
  <2>4. PreparedInv'
    BY <2>1, <2>2 DEF PreparedInv, Prepared
  <2>5. QED
    BY <2>1, <2>3, <2>4 DEF PlacesInv, AloneInv, Active, CurrentInv
<1>5. CASE Die
  <2>1. phase' = "down" /\ clients' = EmptyMap /\ \A p \in Procs : ~alone'[p]
    BY <1>5 DEF Die
  <2>2. \A p \in Procs : pc'[p] = IF p \in Handlers THEN "idle" ELSE pc[p]
    BY <1>5 DEF Die
  <2>3. DOMAIN EmptyMap = {}
    BY DEF EmptyMap
  <2>4. QED
    BY <2>1, <2>2, <2>3 DEF PlacesInv, ClientsOwn, AloneInv, PreparedInv, CurrentInv
<1>6. QED
  BY <1>1, <1>2, <1>3, <1>4, <1>5 DEF Server

(* SettledInv is inductive. *)
LEMMA SettledStep == SettledInv /\ [Next]_vars => SettledInv'
<1> SUFFICES ASSUME SettledInv, [Next]_vars PROVE SettledInv'
  OBVIOUS
<1>1. TypeInv'
  BY TypeStep DEF SettledInv
<1>2. ASSUME NEW p \in Procs, Request(p) PROVE SettledInv'
  BY <1>1, <1>2, PlacesRequest, RequestTouches, AloneRequest, PreparedRequest, CurrentRequest
     DEF SettledInv
<1>3. CASE Server
  BY <1>1, <1>3, SettledServer DEF SettledInv
<1>4. CASE UNCHANGED vars
  <2>1. PlacesInv' /\ ClientsOwn'
    BY <1>4 DEF SettledInv, PlacesInv, ClientsOwn
  <2>2. AloneInv' /\ PreparedInv'
    BY <1>4 DEF SettledInv, AloneInv, Active, PreparedInv, Prepared
  <2>3. CurrentInv'
    BY <1>4 DEF SettledInv, CurrentInv, Current, Agrees, HalfDone
  <2>4. QED
    BY <1>1, <2>1, <2>2, <2>3 DEF SettledInv
<1>5. QED
  BY <1>2, <1>3, <1>4 DEF Next

(* SettledInv holds throughout. *)
LEMMA SettledAlways == Spec => []SettledInv
<1>1. Init => SettledInv
  <2> SUFFICES ASSUME Init PROVE SettledInv
    OBVIOUS
  <2>1. TypeInv
    BY TypeInit
  <2>2. DOMAIN clients = {} /\ phase = "down" /\ \A p \in Procs : pc[p] = "idle" /\ ~alone[p]
    BY DEF Init, EmptyMap
  <2>3. QED
    BY <2>1, <2>2 DEF SettledInv, PlacesInv, ClientsOwn, AloneInv, PreparedInv, CurrentInv
<1>2. QED
  BY <1>1, SettledStep, PTL DEF Spec

(* For any number of handlers and commands at once, failures at any step   *)
(* and restarts: a node whose last change overlapped no other, failed not  *)
(* half way and was not made from the command line has a client exactly if *)
(* it is enabled, with the settings in the table (nodes.go:96-112,         *)
(* 162-179, 207-213, manager.go:39-45).                                    *)
THEOREM SettledNodesAgree == Spec => []SettledAgrees
<1>1. SettledInv => SettledAgrees
  <2> SUFFICES ASSUME SettledInv, phase = "serving", NEW i \in Ids \ disturbed, Active(i) = {}
               PROVE  Agrees(i)
    BY DEF SettledAgrees
  <2>1. HalfDone(i) = {}
    BY DEF HalfDone, Active
  <2>2. Current(i)
    BY <2>1 DEF SettledInv, CurrentInv
  <2>3. QED
    BY <2>2 DEF Current
<1>2. QED
  BY <1>1, SettledAlways, PTL
=============================================================================
