-------------------------- MODULE SseBrokerProofs --------------------------
(***************************************************************************)
(* What TLAPS proves of SseBroker for any topics, subscriptions and        *)
(* publishers, and any channel capacity: TypeCorrect, RegistrationIsExact, *)
(* StreamsStayInOrder, FanoutIsKept.                                       *)
(***************************************************************************)
EXTENDS SseBroker, SequenceTheorems, TLAPS

(* Frames, which every step needs. *)
USE DEF vars, subVars, pubVars, Message

-----------------------------------------------------------------------------
(* A publisher under way has a map and a message: without this the types   *)
(* are not inductive.                                                      *)
PubInv ==
  \A p \in Publishers :
    pc[p] # "idle" => ref[p] \in 1 .. Len(maps) /\ msg[p] \in 1 .. MaxPublish
TypeInv == TypeOK /\ PubInv

(* The initial state has the types. *)
LEMMA TypeInit == Init => TypeInv
<1> SUFFICES ASSUME Init PROVE TypeInv
  OBVIOUS
<1>1. crashed \in BOOLEAN
  BY Zenon DEF Init
<1>2. maps = <<>> /\ Len(maps) = 0 /\ maps \in Seq(SUBSET Subs)
  BY DEF Init
<1>3. \A s \in Subs : stream[s] = <<>> /\ Len(stream[s]) = 0 /\ taken[s] = 0
  BY DEF Init
<1>4. QED
  BY <1>1, <1>2, <1>3, BrokerAssumption DEF BrokerAssumption, Init, TypeInv, TypeOK, PubInv

(* Subscribe adds to a map, or appends one to the maps made so far (broker.go:24-31). *)
LEMMA TypeSubscribe ==
  ASSUME TypeInv, NEW s \in Subs, Subscribe(s)
  PROVE  TypeInv'
<1> DEFINE t == topic[s]
           m == IF NeedsMap(t) THEN Len(maps) + 1 ELSE topics[t]
<1>1. t \in Topics /\ maps \in Seq(SUBSET Subs) /\ topics \in [Topics -> 0 .. Len(maps)] /\ Len(maps) \in Nat
  BY DEF TypeInv, TypeOK
<1>2. crashed' \in BOOLEAN
  BY Zenon DEF Subscribe, MayCrash
<1>3. /\ state' = [state EXCEPT ![s] = "open"]
      /\ topics' = [topics EXCEPT ![t] = m]
      /\ maps' = IF NeedsMap(t) THEN Append(maps, {s}) ELSE [maps EXCEPT ![m] = @ \cup {s}]
      /\ UNCHANGED <<topic, stream, taken, pubVars>>
  BY DEF Subscribe
<1>4. /\ maps' \in Seq(SUBSET Subs) /\ Len(maps') \in Nat /\ Len(maps) <= Len(maps')
      /\ m \in 1 .. Len(maps')
  <2>1. CASE NeedsMap(t)
    BY <1>1, <1>3, <2>1
  <2>2. CASE ~NeedsMap(t)
    <3>1. m \in 1 .. Len(maps)
      BY <1>1, <2>2 DEF NeedsMap
    <3>2. maps' \in Seq(SUBSET Subs) /\ Len(maps') = Len(maps)
      BY <1>1, <1>3, <2>2, <3>1, ExceptSeq
    <3>3. QED
      BY <1>1, <3>1, <3>2
  <2>3. QED
    BY <2>1, <2>2
<1> HIDE DEF m
<1>5. topics' \in [Topics -> 0 .. Len(maps')]
  BY <1>1, <1>3, <1>4
<1>6. ref' \in [Publishers -> 0 .. Len(maps')] /\ PubInv'
  <2>1. ref \in [Publishers -> 0 .. Len(maps)] /\ 0 .. Len(maps) \subseteq 0 .. Len(maps')
    BY <1>1, <1>4 DEF TypeInv, TypeOK
  <2>2. UNCHANGED <<ref, pc, msg>>
    BY <1>3
  <2>3. ref' \in [Publishers -> 0 .. Len(maps')]
    BY <2>1, <2>2
  <2>4. QED
    BY <1>1, <1>4, <2>2, <2>3 DEF TypeInv, PubInv
<1>7. state' \in [Subs -> {"new", "open", "leaving", "closed"}]
  BY <1>3 DEF TypeInv, TypeOK
<1>8. QED
  BY <1>2, <1>3, <1>4, <1>5, <1>6, <1>7 DEF TypeInv, TypeOK

(* The first half of cancel only takes away (broker.go:33-38). *)
LEMMA TypeLeave ==
  ASSUME TypeInv, NEW s \in Subs, Leave(s)
  PROVE  TypeInv'
<1> DEFINE t == topic[s]
           m == topics[t]
<1>1. /\ t \in Topics /\ maps \in Seq(SUBSET Subs) /\ Len(maps) \in Nat
      /\ topics \in [Topics -> 0 .. Len(maps)]
  BY DEF TypeInv, TypeOK
<1>2. crashed' \in BOOLEAN
  <2>1. crashed \in BOOLEAN
    BY DEF TypeInv, TypeOK
  <2>2. QED
    BY <2>1, Zenon DEF Leave, MayCrash
<1>3. maps' \in Seq(SUBSET Subs) /\ Len(maps') = Len(maps)
  <2>1. CASE m = 0
    BY <1>1, <2>1 DEF Leave
  <2>2. CASE m # 0
    <3>1. m \in 1 .. Len(maps) /\ maps' = [maps EXCEPT ![m] = maps[m] \ {s}]
      BY <1>1, <2>2 DEF Leave
    <3>2. QED
      BY <1>1, <3>1, ExceptSeq
  <2>3. QED
    BY <2>1, <2>2
<1>4. topics' \in [Topics -> 0 .. Len(maps)]
  <2>1. topics' = topics \/ \E k \in {0, m} : topics' = [topics EXCEPT ![t] = k]
    BY DEF Leave, TopicAfter
  <2>2. QED
    BY <1>1, <2>1
<1>5. state' \in [Subs -> {"new", "open", "leaving", "closed"}]
  BY DEF Leave, TypeInv, TypeOK
<1>6. UNCHANGED <<topic, stream, taken, pubVars>>
  BY DEF Leave
<1>7. QED
  BY <1>2, <1>3, <1>4, <1>5, <1>6 DEF TypeInv, TypeOK, PubInv

(* A reader stays behind its channel; closing changes no content (broker.go:39, 88-95). *)
LEMMA TypeReader ==
  ASSUME TypeInv, NEW s \in Subs, Receive(s) \/ CloseChannel(s)
  PROVE  TypeInv'
<1>1. CASE Receive(s)
  <2>1. taken \in [Subs -> Nat] /\ \A r \in Subs : Len(stream[r]) \in Nat
    BY DEF TypeInv, TypeOK
  <2>2. /\ taken[s] < Len(stream[s]) /\ taken' = [taken EXCEPT ![s] = taken[s] + 1]
        /\ UNCHANGED <<topics, maps, state, topic, stream, pubVars, crashed>>
    BY <1>1 DEF Receive
  <2>3. taken' \in [Subs -> Nat]
    BY <2>1, <2>2
  <2>4. BufCap \in Nat
    BY BrokerAssumption DEF BrokerAssumption
  <2>5. \A r \in Subs : taken'[r] <= Len(stream'[r]) /\ Len(stream'[r]) <= taken'[r] + BufCap
    BY <2>1, <2>2, <2>4 DEF TypeInv, TypeOK
  <2>6. QED
    BY <2>2, <2>3, <2>5 DEF TypeInv, TypeOK, PubInv
<1>2. CASE CloseChannel(s)
  BY <1>2 DEF CloseChannel, TypeInv, TypeOK, PubInv
<1>3. QED
  BY <1>1, <1>2

(* Publish takes the map of its topic (broker.go:52-55). *)
LEMMA TypePublish ==
  ASSUME TypeInv, NEW p \in Publishers, NEW t \in Topics, Publish(p, t)
  PROVE  TypeInv'
<1>1. /\ topics[t] \in 0 .. Len(maps) /\ Len(maps) \in Nat /\ sent \in 0 .. MaxPublish
      /\ maps \in Seq(SUBSET Subs) /\ MaxPublish \in Nat
  BY BrokerAssumption DEF BrokerAssumption, TypeInv, TypeOK
<1>2. CASE topics[t] = 0
  <2>1. sent' \in 0 .. MaxPublish
    BY <1>1 DEF Publish
  <2>2. UNCHANGED <<pc, msg, ref, due, topics, maps, subVars, seen, target, crashed>>
    BY <1>2 DEF Publish
  <2>3. QED
    BY <2>1, <2>2 DEF TypeInv, TypeOK, PubInv
<1>3. CASE topics[t] # 0
  <2>1. sent + 1 \in 1 .. MaxPublish /\ topics[t] \in 1 .. Len(maps) /\ maps[topics[t]] \in SUBSET Subs
    BY <1>1, <1>3 DEF Publish
  <2>2. /\ pc' = [pc EXCEPT ![p] = "range"] /\ msg' = [msg EXCEPT ![p] = sent + 1]
        /\ ref' = [ref EXCEPT ![p] = topics[t]] /\ due' = [due EXCEPT ![p] = maps[topics[t]]]
        /\ sent' = sent + 1
        /\ UNCHANGED <<topics, maps, subVars, seen, target, crashed>>
    BY <1>3 DEF Publish
  <2>3. pc' \in [Publishers -> {"idle", "range", "send"}] /\ msg' \in [Publishers -> 0 .. MaxPublish]
    BY <2>1, <2>2 DEF TypeInv, TypeOK
  <2>4. ref' \in [Publishers -> 0 .. Len(maps)] /\ due' \in [Publishers -> SUBSET Subs]
    BY <2>1, <2>2 DEF TypeInv, TypeOK
  <2>5. PubInv'
    BY <2>1, <2>2 DEF TypeInv, TypeOK, PubInv
  <2>6. QED
    BY <2>1, <2>2, <2>3, <2>4, <2>5 DEF TypeInv, TypeOK
<1>4. QED
  BY <1>2, <1>3

(* The iteration offers to subscriptions in the map, and a channel accepts *)
(* only while it has room (broker.go:56-61).                               *)
LEMMA TypeContinue ==
  ASSUME TypeInv, NEW p \in Publishers, Continue(p)
  PROVE  TypeInv'
<1>1. CASE Yield(p)
  <2>1. PICK s \in maps[ref[p]] : /\ target' = [target EXCEPT ![p] = {s}]
                                 /\ seen' = [seen EXCEPT ![p] = seen[p] \cup {s}]
    BY <1>1 DEF Yield, Unvisited
  <2>2. /\ pc[p] = "range" /\ pc' = [pc EXCEPT ![p] = "send"]
         /\ UNCHANGED <<topics, maps, subVars, sent, msg, ref, due, crashed>>
    BY <1>1 DEF Yield
  <2>3. s \in Subs
    <3>1. ref[p] \in 1 .. Len(maps) /\ maps \in Seq(SUBSET Subs)
      BY <2>2 DEF TypeInv, TypeOK, PubInv
    <3>2. maps[ref[p]] \in SUBSET Subs
      BY <3>1, ElementOfSeq
    <3>3. QED
      BY <2>1, <3>2
  <2>4. /\ target' \in [Publishers -> SUBSET Subs] /\ seen' \in [Publishers -> SUBSET Subs]
        /\ pc' \in [Publishers -> {"idle", "range", "send"}]
    BY <2>1, <2>2, <2>3 DEF TypeInv, TypeOK
  <2>5. PubInv'
    BY <2>2 DEF TypeInv, TypeOK, PubInv
  <2>6. QED
    BY <2>2, <2>4, <2>5 DEF TypeInv, TypeOK
<1>2. CASE Send(p)
  <2>1. PICK s \in target[p] : SendTo(p, s)
    BY <1>2 DEF Send
  <2>2. /\ pc[p] = "send" /\ pc' = [pc EXCEPT ![p] = "range"] /\ target' = [target EXCEPT ![p] = {}]
        /\ UNCHANGED <<topics, maps, state, topic, taken, sent, msg, ref, due, seen>>
    BY <1>2 DEF Send
  <2>3. s \in Subs /\ msg[p] \in 1 .. MaxPublish
    BY <2>2 DEF TypeInv, TypeOK, PubInv
  <2>4. crashed' \in BOOLEAN
    BY <2>1, Zenon DEF SendTo
  <2>5. /\ stream' \in [Subs -> Seq(Message)]
        /\ \A r \in Subs : taken[r] <= Len(stream'[r]) /\ Len(stream'[r]) <= taken[r] + BufCap
    <3> DEFINE b == [from |-> p, n |-> msg[p]]
    <3>2. b \in Message
      BY <2>3
    <3>1. stream' \in {stream, [stream EXCEPT ![s] = Append(stream[s], b)]}
      BY <2>1 DEF SendTo
    <3> HIDE DEF Message
    <3>3. CASE stream' = stream
      BY <3>3 DEF TypeInv, TypeOK
    <3>4. CASE stream' = [stream EXCEPT ![s] = Append(stream[s], b)] /\ stream' # stream
      <4>1. HasRoom(s)
        BY <2>1, <3>4 DEF SendTo
      <4> HIDE DEF b
      <4>2. stream \in [Subs -> Seq(Message)] /\ taken \in [Subs -> Nat] /\ BufCap \in Nat
        BY BrokerAssumption DEF BrokerAssumption, TypeInv, TypeOK
      <4>3. Append(stream[s], b) \in Seq(Message) /\ Len(Append(stream[s], b)) = Len(stream[s]) + 1
        BY <2>3, <3>2, <4>2, AppendProperties
      <4>4. stream' \in [Subs -> Seq(Message)]
        BY <3>4, <4>2, <4>3
      <4>5. \A r \in Subs : r # s => stream'[r] = stream[r]
        BY <3>4, <4>2
      <4>6. stream'[s] = Append(stream[s], b)
        BY <2>3, <3>4, <4>2
      <4>7. \A r \in Subs : Len(stream[r]) \in Nat /\ taken[r] <= Len(stream[r]) /\ Len(stream[r]) <= taken[r] + BufCap
        BY <4>2 DEF TypeInv, TypeOK
      <4>8. taken[s] <= Len(stream'[s]) /\ Len(stream'[s]) <= taken[s] + BufCap
        <5>1. Len(stream'[s]) = Len(stream[s]) + 1
          BY <4>3, <4>6
        <5>2. Len(stream[s]) - taken[s] < BufCap /\ taken[s] \in Nat
          BY <2>3, <4>1, <4>2 DEF HasRoom
        <5>3. QED
          BY <2>3, <4>2, <4>7, <5>1, <5>2
      <4>9. \A r \in Subs : taken[r] <= Len(stream'[r]) /\ Len(stream'[r]) <= taken[r] + BufCap
        <5>1. ASSUME NEW r \in Subs, r # s
              PROVE  taken[r] <= Len(stream'[r]) /\ Len(stream'[r]) <= taken[r] + BufCap
          BY <4>5, <4>7, <5>1
        <5>2. QED
          BY <4>8, <5>1
      <4>10. QED
        BY <4>4, <4>9
    <3>5. QED
      BY <3>1, <3>3, <3>4
  <2>6. pc' \in [Publishers -> {"idle", "range", "send"}] /\ target' \in [Publishers -> SUBSET Subs]
    BY <2>2 DEF TypeInv, TypeOK
  <2>7. PubInv'
    BY <2>2 DEF TypeInv, TypeOK, PubInv
  <2>8. QED
    BY <2>2, <2>4, <2>5, <2>6, <2>7 DEF TypeInv, TypeOK
<1>3. CASE Finish(p)
  <2>1. /\ pc' = [pc EXCEPT ![p] = "idle"] /\ msg' = [msg EXCEPT ![p] = 0] /\ ref' = [ref EXCEPT ![p] = 0]
        /\ due' = [due EXCEPT ![p] = {}] /\ seen' = [seen EXCEPT ![p] = {}]
        /\ UNCHANGED <<topics, maps, subVars, sent, target, crashed>>
    BY <1>3 DEF Finish
  <2>2. /\ pc' \in [Publishers -> {"idle", "range", "send"}]
        /\ due' \in [Publishers -> SUBSET Subs] /\ seen' \in [Publishers -> SUBSET Subs]
    BY <2>1 DEF TypeInv, TypeOK
  <2>3. msg' \in [Publishers -> 0 .. MaxPublish] /\ ref' \in [Publishers -> 0 .. Len(maps)]
    BY <2>1, BrokerAssumption DEF BrokerAssumption, TypeInv, TypeOK
  <2>4. PubInv'
    BY <2>1 DEF TypeInv, TypeOK, PubInv
  <2>5. QED
    BY <2>1, <2>2, <2>3, <2>4 DEF TypeInv, TypeOK
<1>4. QED
  BY <1>1, <1>2, <1>3 DEF Continue

(* Every step keeps the types. *)
LEMMA TypeStep == TypeInv /\ [Next]_vars => TypeInv'
<1> SUFFICES ASSUME TypeInv, [Next]_vars PROVE TypeInv'
  OBVIOUS
<1>1. CASE UNCHANGED vars
  BY <1>1 DEF TypeInv, TypeOK, PubInv
<1>2. QED
  BY <1>1, TypeSubscribe, TypeLeave, TypeReader, TypePublish, TypeContinue DEF Next

(* The types, and that a publisher under way holds a map that exists and a *)
(* message that was counted (broker.go:52-61).                             *)
THEOREM TypeInductive == Spec => []TypeInv
<1>1. QED
  BY TypeInit, TypeStep, PTL DEF Spec

(* Every variable keeps its type, and no channel ever holds more than its  *)
(* capacity (broker.go:25, 57-60).                                         *)
THEOREM TypeCorrect == Spec => []TypeOK
<1>1. TypeInv => TypeOK
  BY DEF TypeInv
<1>2. QED
  BY <1>1, TypeInductive, PTL

-----------------------------------------------------------------------------
(* At first there are neither maps nor subscriptions. *)
LEMMA RegistrationInit == Init => RegistrationExact
  BY DEF Init, RegistrationExact, Open

(* Every step keeps registrations exact: maps of different topics are      *)
(* different, because each holds the open subscriptions of its own topic.  *)
LEMMA RegistrationStep ==
  ASSUME TypeInv, RegistrationExact, [Next]_vars
  PROVE  RegistrationExact'
<1> USE DEF RegistrationExact, Open
<1>1. /\ maps \in Seq(SUBSET Subs) /\ Len(maps) \in Nat /\ topic \in [Subs -> Topics]
      /\ topics \in [Topics -> 0 .. Len(maps)]
      /\ state \in [Subs -> {"new", "open", "leaving", "closed"}]
      /\ DOMAIN maps = 1 .. Len(maps)
  BY DEF TypeInv, TypeOK
(* No two topics have the same map. *)
<1>2. \A t, u \in Topics : t # u /\ topics[t] # 0 => topics[t] # topics[u]
  OBVIOUS
<1>3. ASSUME NEW s \in Subs, Subscribe(s) PROVE RegistrationExact'
  <2>0. PICK t \in Topics : t = topic[s]
    BY <1>1
  <2>1. /\ t \in Topics /\ state[s] = "new" /\ topic' = topic
        /\ state' = [state EXCEPT ![s] = "open"]
    BY <1>3 DEF Subscribe
  <2>2. /\ Open(t)' = Open(t) \cup {s}
        /\ \A u \in Topics : u # t => Open(u)' = Open(u)
    BY <1>1, <2>0, <2>1
  <2>3. CASE topics[t] = 0
    <3>1. /\ topics' = [topics EXCEPT ![t] = Len(maps) + 1]
          /\ maps' = Append(maps, {s})
      BY <1>3, <2>0, <2>3 DEF Subscribe, NeedsMap
    <3>2. /\ DOMAIN maps' = 1 .. Len(maps) + 1
          /\ maps'[Len(maps) + 1] = {s}
          /\ \A m \in 1 .. Len(maps) : maps'[m] = maps[m]
      <4>1. {s} \in SUBSET Subs
        OBVIOUS
      <4>2. /\ maps' \in Seq(SUBSET Subs) /\ Len(maps') = Len(maps) + 1
            /\ \A m \in 1 .. Len(maps) : maps'[m] = maps[m]
            /\ maps'[Len(maps) + 1] = {s}
        <5> DEFINE M == SUBSET Subs
                   e == {s}
        <5>1. maps \in Seq(M) /\ e \in M /\ maps' = Append(maps, e)
          BY <1>1, <3>1, <4>1
        <5> HIDE DEF M, e
        <5>2. /\ maps' \in Seq(M) /\ Len(maps') = Len(maps) + 1
              /\ \A m \in 1 .. Len(maps) : maps'[m] = maps[m]
              /\ maps'[Len(maps) + 1] = e
          BY <5>1, AppendProperties
        <5>3. QED
          BY <5>2 DEF M, e
      <4>3. DOMAIN maps' = 1 .. Len(maps')
        BY <4>2, LenProperties
      <4>4. QED
        BY <4>2, <4>3
    <3>3. topics'[t] = Len(maps) + 1 /\ \A u \in Topics : u # t => topics'[u] = topics[u]
      BY <1>1, <2>1, <3>1
    <3> HIDE DEF Open
    <3>4. \A u \in Topics : topics[u] \in 0 .. Len(maps) /\ topics[u] # Len(maps) + 1
      BY <1>1
    <3>5. Open(t) = {}
      BY <2>1, <2>3
    <3>6. ASSUME NEW u \in Topics
          PROVE  IF topics'[u] = 0 THEN Open(u)' = {}
                 ELSE maps'[topics'[u]] = Open(u)' /\ Open(u)' # {}
      <4>1. CASE u = t
        <5>1. topics'[u] = Len(maps) + 1 /\ topics'[u] # 0
          BY <1>1, <3>3, <4>1
        <5>2. Open(u)' = {s}
          BY <2>2, <3>5, <4>1
        <5>3. QED
          BY <3>2, <5>1, <5>2
      <4>2. CASE u # t
        <5>1. topics[u] # 0 => topics[u] \in 1 .. Len(maps)
          BY <1>1, <3>4
        <5>2. QED
          BY <2>2, <3>2, <3>3, <4>2, <5>1
      <4>3. QED
        BY <4>1, <4>2
    <3>7. ASSUME NEW m \in DOMAIN maps', \A u \in Topics : topics'[u] # m
          PROVE  maps'[m] = {}
      <4>1. m \in 1 .. Len(maps)
        BY <1>1, <2>1, <3>2, <3>3, <3>7
      <4>2. \A u \in Topics : topics[u] # m
        <5>1. ASSUME NEW u \in Topics, u # t PROVE topics[u] # m
          BY <3>3, <3>7, <5>1
        <5>2. topics[t] # m
          BY <1>1, <2>3, <4>1
        <5>3. QED
          BY <5>1, <5>2
      <4>3. QED
        BY <1>1, <3>2, <4>1, <4>2
    <3>8. QED
      BY <3>6, <3>7
  <2>4. CASE topics[t] # 0
    <3>1. topics' = topics /\ maps' = [maps EXCEPT ![topics[t]] = maps[topics[t]] \cup {s}]
      BY <1>1, <1>3, <2>0, <2>1, <2>4 DEF Subscribe, NeedsMap
    <3>2. /\ DOMAIN maps' = DOMAIN maps
          /\ topics[t] \in DOMAIN maps /\ maps'[topics[t]] = maps[topics[t]] \cup {s}
          /\ \A m \in DOMAIN maps : m # topics[t] => maps'[m] = maps[m]
      BY <1>1, <2>1, <2>4, <3>1
    <3> HIDE DEF Open
    <3>3. ASSUME NEW u \in Topics
          PROVE  IF topics'[u] = 0 THEN Open(u)' = {}
                 ELSE maps'[topics'[u]] = Open(u)' /\ Open(u)' # {}
      <4>1. CASE u = t
        <5>1. maps[topics[t]] = Open(t) /\ Open(u)' = Open(t) \cup {s}
          BY <2>2, <2>4, <4>1
        <5>2. QED
          BY <2>4, <3>1, <3>2, <4>1, <5>1
      <4>2. CASE u # t
        <5>1. topics[u] # 0 => topics[u] \in DOMAIN maps /\ topics[u] # topics[t]
          BY <1>1, <1>2, <2>1, <4>2
        <5>2. QED
          BY <2>2, <3>1, <3>2, <4>2, <5>1
      <4>3. QED
        BY <4>1, <4>2
    <3>4. ASSUME NEW k \in DOMAIN maps', \A u \in Topics : topics'[u] # k
          PROVE  maps'[k] = {}
      BY <2>1, <3>1, <3>2, <3>4
    <3>5. QED
      BY <3>3, <3>4
  <2>5. QED
    BY <2>3, <2>4
<1>4. ASSUME NEW s \in Subs, Leave(s) PROVE RegistrationExact'
  <2>0. PICK t \in Topics, m \in 0 .. Len(maps) : t = topic[s] /\ m = topics[t]
    BY <1>1
  <2>1. /\ t \in Topics /\ state[s] = "open" /\ topic' = topic
        /\ state' = [state EXCEPT ![s] = "leaving"]
    BY <1>4 DEF Leave
  <2>2. /\ Open(t)' = Open(t) \ {s} /\ s \in Open(t)
        /\ \A u \in Topics : u # t => Open(u)' = Open(u)
    BY <1>1, <2>0, <2>1
  <2>3. m # 0 /\ m \in DOMAIN maps /\ maps[m] = Open(t)
    BY <1>1, <2>0, <2>1, <2>2
  <2>4. /\ maps' = [maps EXCEPT ![m] = maps[m] \ {s}]
        /\ topics' = [topics EXCEPT ![t] = IF maps[m] \ {s} = {} THEN 0 ELSE m]
    BY <1>4, <2>0, <2>3 DEF Leave, TopicAfter
  <2>5. /\ DOMAIN maps' = DOMAIN maps /\ maps'[m] = Open(t) \ {s}
        /\ \A k \in DOMAIN maps : k # m => maps'[k] = maps[k]
    BY <1>1, <2>3, <2>4
  <2>6. /\ topics'[t] = IF Open(t) \ {s} = {} THEN 0 ELSE m
        /\ \A u \in Topics : u # t => topics'[u] = topics[u]
    BY <1>1, <2>1, <2>3, <2>4
  <2> HIDE DEF Open
  <2>7. ASSUME NEW u \in Topics
        PROVE  IF topics'[u] = 0 THEN Open(u)' = {}
               ELSE maps'[topics'[u]] = Open(u)' /\ Open(u)' # {}
    <3>1. CASE u = t
      <4>1. Open(u)' = Open(t) \ {s} /\ topics'[u] = IF Open(t) \ {s} = {} THEN 0 ELSE m
        BY <2>2, <2>6, <3>1
      <4>2. CASE Open(t) \ {s} = {}
        BY <4>1, <4>2
      <4>3. CASE Open(t) \ {s} # {}
        <5>1. topics'[u] = m
          BY <4>1, <4>3
        <5>2. QED
          BY <2>3, <2>5, <4>1, <4>3, <5>1
      <4>4. QED
        BY <4>2, <4>3
    <3>2. CASE u # t
      <4>1. topics[u] # 0 => topics[u] \in DOMAIN maps /\ topics[u] # m
        BY <1>1, <1>2, <2>0, <2>1, <2>3, <3>2
      <4>2. QED
        BY <2>2, <2>5, <2>6, <3>2, <4>1
    <3>3. QED
      BY <3>1, <3>2
  <2>8. ASSUME NEW k \in DOMAIN maps', \A u \in Topics : topics'[u] # k
        PROVE  maps'[k] = {}
    <3>1. CASE k = m
      BY <2>0, <2>1, <2>5, <2>6, <2>8, <3>1
    <3>2. CASE k # m
      BY <2>0, <2>1, <2>5, <2>6, <2>8, <3>2
    <3>3. QED
      BY <3>1, <3>2
  <2>9. QED
    BY <2>7, <2>8
<1>5. ASSUME NEW s \in Subs, CloseChannel(s) PROVE RegistrationExact'
  <2>1. \A r \in Subs : state'[r] = "open" <=> state[r] = "open"
    BY <1>1, <1>5 DEF CloseChannel
  <2>2. UNCHANGED <<topics, maps, topic>>
    BY <1>5 DEF CloseChannel
  <2>3. QED
    BY <2>1, <2>2
<1>6. ASSUME NEW p \in Publishers, Continue(p) \/ \E t \in Topics : Publish(p, t)
      PROVE  UNCHANGED <<topics, maps, state, topic>>
  BY <1>6 DEF Continue, Yield, Send, Finish, Publish
<1>7. CASE UNCHANGED <<topics, maps, state, topic>>
  BY <1>7
<1>8. QED
  BY <1>3, <1>4, <1>5, <1>6, <1>7 DEF Next, Receive

(* In any order of subscriptions and cancellations, a topic has a map      *)
(* exactly while it has open subscriptions, and its map holds just those   *)
(* (broker.go:26-31, 33-38).                                               *)
THEOREM RegistrationIsExact == Spec => []RegistrationExact
<1>1. TypeInv /\ RegistrationExact /\ [Next]_vars => RegistrationExact'
  BY RegistrationStep
<1>2. QED
  BY <1>1, RegistrationInit, TypeInductive, PTL DEF Spec

-----------------------------------------------------------------------------
(* The order of a stream                                                   *)

(* The subscription a publisher is about to send to is one its iteration   *)
(* has yielded (broker.go:56).                                             *)
TargetInv ==
  \A p \in Publishers : target[p] \subseteq seen[p] /\ (pc[p] # "send" => target[p] = {})

(* Numbers only grow: nothing in a stream is newer than the latest         *)
(* publication, and whoever a publisher has yet to send its message to has *)
(* only older ones of it.                                                  *)
NumbersInv ==
  /\ \A s \in Subs : \A i \in 1 .. Len(stream[s]) : stream[s][i].n <= sent
  /\ \A p \in Publishers : pc[p] # "idle" =>
       /\ msg[p] <= sent
       /\ \A s \in Subs : s \in seen[p] \ target[p] \/
            \A i \in 1 .. Len(stream[s]) : stream[s][i].from = p => stream[s][i].n < msg[p]
StreamInv == TargetInv /\ NumbersInv /\ StreamInOrder

(* The types of what a stream's order depends on. *)
LEMMA StreamTypes ==
  ASSUME TypeInv
  PROVE  /\ pc \in [Publishers -> {"idle", "range", "send"}]
         /\ target \in [Publishers -> SUBSET Subs] /\ seen \in [Publishers -> SUBSET Subs]
         /\ stream \in [Subs -> Seq(Message)] /\ sent \in Nat /\ msg \in [Publishers -> Nat]
         /\ \A s \in Subs : Len(stream[s]) \in Nat
         /\ \A s \in Subs : \A i \in 1 .. Len(stream[s]) : stream[s][i].n \in Nat
<1>1. MaxPublish \in Nat
  BY BrokerAssumption DEF BrokerAssumption
<1>2. /\ pc \in [Publishers -> {"idle", "range", "send"}]
      /\ target \in [Publishers -> SUBSET Subs] /\ seen \in [Publishers -> SUBSET Subs]
      /\ stream \in [Subs -> Seq(Message)] /\ sent \in 0 .. MaxPublish
      /\ msg \in [Publishers -> 0 .. MaxPublish]
  BY DEF TypeInv, TypeOK
<1>3. msg \in [Publishers -> Nat] /\ sent \in Nat
  BY <1>1, <1>2
<1>4. ASSUME NEW s \in Subs PROVE Len(stream[s]) \in Nat
  BY <1>2
<1>5. ASSUME NEW s \in Subs, NEW i \in 1 .. Len(stream[s]) PROVE stream[s][i].n \in Nat
  <2>1. stream[s] \in Seq(Message)
    BY <1>2
  <2>2. stream[s][i] \in Message
    BY <2>1, ElementOfSeq
  <2>3. QED
    BY <1>1, <2>2
<1>6. QED
  BY <1>2, <1>3, <1>4, <1>5

(* Sending appends at most one message, to an open channel (broker.go:57-60). *)
LEMMA StreamSend ==
  ASSUME TypeInv, StreamInv, NEW p \in Publishers, Send(p)
  PROVE  StreamInv'
<1>1. PICK s \in target[p] : SendTo(p, s)
  BY DEF Send
<1>2. /\ pc[p] = "send" /\ pc' = [pc EXCEPT ![p] = "range"]
      /\ target' = [target EXCEPT ![p] = {}]
      /\ UNCHANGED <<maps, sent, msg, seen>>
  BY DEF Send
<1>3. /\ pc \in [Publishers -> {"idle", "range", "send"}]
      /\ target \in [Publishers -> SUBSET Subs] /\ seen \in [Publishers -> SUBSET Subs]
      /\ stream \in [Subs -> Seq(Message)] /\ sent \in Nat /\ msg \in [Publishers -> Nat]
  BY StreamTypes
<1>4. s \in Subs /\ s \in seen[p] /\ msg[p] <= sent
  BY <1>1, <1>2, <1>3 DEF StreamInv, TargetInv, NumbersInv
<1>5. TargetInv'
  BY <1>2, <1>3 DEF StreamInv, TargetInv
<1>6. CASE stream' = stream
  <2>1. NumbersInv'
    BY <1>2, <1>3, <1>6 DEF StreamInv, NumbersInv, TargetInv
  <2>2. QED
    BY <1>5, <1>6, <2>1 DEF StreamInv, StreamInOrder
<1>7. CASE stream' = [stream EXCEPT ![s] = Append(stream[s], [from |-> p, n |-> msg[p]])]
  <2> DEFINE k == Len(stream[s])
  <2>1. /\ k \in Nat /\ Len(stream'[s]) = k + 1
        /\ stream'[s][k + 1].from = p /\ stream'[s][k + 1].n = msg[p]
        /\ \A i \in 1 .. k : stream'[s][i] = stream[s][i]
        /\ \A r \in Subs : r # s => stream'[r] = stream[r]
    BY <1>3, <1>4, <1>7
  <2>2. \A i \in 1 .. k : stream[s][i].from = p => stream[s][i].n < msg[p]
    BY <1>1, <1>2, <1>4 DEF StreamInv, NumbersInv
  <2>3. \A i \in 1 .. k : stream[s][i].n \in Nat
    BY <1>4, StreamTypes
  <2>4. \A r \in Subs : \A i \in 1 .. Len(stream'[r]) : stream'[r][i].n <= sent'
    BY <1>2, <1>4, <2>1 DEF StreamInv, NumbersInv
  <2>5. ASSUME NEW q \in Publishers, pc'[q] # "idle"
        PROVE  /\ msg'[q] <= sent'
               /\ \A r \in Subs : r \in seen'[q] \ target'[q] \/
                    \A i \in 1 .. Len(stream'[r]) :
                      stream'[r][i].from = q => stream'[r][i].n < msg'[q]
    <3>1. pc[q] # "idle" /\ msg'[q] = msg[q]
      BY <1>2, <1>3, <2>5
    <3>2. CASE q = p
      <4>1. target'[p] = {} /\ seen' = seen
        BY <1>2, <1>3
      <4>2. QED
        BY <1>2, <1>4, <2>1, <3>1, <3>2, <4>1 DEF StreamInv, NumbersInv
    <3>3. CASE q # p
      <4>1. target'[q] = target[q] /\ seen' = seen
        BY <1>2, <1>3, <3>3
      <4>2. QED
        BY <1>2, <2>1, <3>1, <3>3, <4>1 DEF StreamInv, NumbersInv
    <3>4. QED
      BY <3>2, <3>3
  <2>6. NumbersInv'
    BY <2>4, <2>5 DEF NumbersInv
  <2>7. ASSUME NEW r \in Subs, NEW i \in 1 .. Len(stream'[r]), NEW j \in 1 .. Len(stream'[r]),
               i < j, stream'[r][i].from = stream'[r][j].from
        PROVE  stream'[r][i].n < stream'[r][j].n
    <3>1. CASE r # s
      BY <2>1, <2>7, <3>1 DEF StreamInv, StreamInOrder
    <3>2. CASE r = s /\ j = k + 1
      <4>1. i \in 1 .. k /\ stream'[s][i] = stream[s][i]
        BY <2>1, <2>7, <3>2
      <4>2. stream[s][i].from = p /\ stream'[s][j].n = msg[p]
        BY <2>1, <2>7, <3>2, <4>1
      <4>3. QED
        BY <2>2, <3>2, <4>1, <4>2
    <3>3. CASE r = s /\ j # k + 1
      <4>1. i \in 1 .. k /\ j \in 1 .. k
        BY <2>1, <2>7, <3>3
      <4>2. stream'[s][i] = stream[s][i] /\ stream'[s][j] = stream[s][j]
        BY <2>1, <4>1
      <4>3. QED
        BY <2>7, <3>3, <4>1, <4>2 DEF StreamInv, StreamInOrder
    <3>4. QED
      BY <3>1, <3>2, <3>3
  <2>8. StreamInOrder'
    BY <2>7 DEF StreamInOrder
  <2>9. QED
    BY <1>5, <2>6, <2>8 DEF StreamInv
<1>8. QED
  BY <1>1, <1>6, <1>7 DEF SendTo

(* Every step keeps the order. *)
LEMMA StreamStep == TypeInv /\ StreamInv /\ [Next]_vars => StreamInv'
<1> SUFFICES ASSUME TypeInv, StreamInv, [Next]_vars PROVE StreamInv'
  OBVIOUS
<1>1. /\ pc \in [Publishers -> {"idle", "range", "send"}]
      /\ target \in [Publishers -> SUBSET Subs] /\ seen \in [Publishers -> SUBSET Subs]
      /\ stream \in [Subs -> Seq(Message)] /\ sent \in Nat /\ msg \in [Publishers -> Nat]
      /\ \A s \in Subs : Len(stream[s]) \in Nat
      /\ \A s \in Subs : \A i \in 1 .. Len(stream[s]) : stream[s][i].n \in Nat
  BY StreamTypes
<1>2. ASSUME UNCHANGED <<stream, pc, sent, msg, seen, target>> PROVE StreamInv'
  BY <1>2 DEF StreamInv, TargetInv, NumbersInv, StreamInOrder
<1>3. ASSUME NEW s \in Subs, Subscribe(s) \/ Receive(s) \/ Leave(s) \/ CloseChannel(s)
      PROVE  StreamInv'
  BY <1>2, <1>3 DEF Subscribe, Receive, Leave, CloseChannel
<1>4. ASSUME NEW p \in Publishers, NEW t \in Topics, Publish(p, t) PROVE StreamInv'
  <2>1. /\ sent' = sent + 1 /\ UNCHANGED <<stream, seen, target>> /\ pc[p] = "idle"
        /\ \/ UNCHANGED <<pc, msg>>
           \/ pc' = [pc EXCEPT ![p] = "range"] /\ msg' = [msg EXCEPT ![p] = sent + 1]
    BY <1>4 DEF Publish
  <2>2. TargetInv'
    BY <1>1, <2>1 DEF StreamInv, TargetInv
  <2>3. \A s \in Subs : \A i \in 1 .. Len(stream'[s]) : stream'[s][i].n <= sent'
    BY <1>1, <2>1 DEF StreamInv, NumbersInv
  <2>4. ASSUME NEW q \in Publishers, pc'[q] # "idle"
        PROVE  /\ msg'[q] <= sent'
               /\ \A s \in Subs : s \in seen'[q] \ target'[q] \/
                    \A i \in 1 .. Len(stream'[s]) :
                      stream'[s][i].from = q => stream'[s][i].n < msg'[q]
    <3>1. CASE pc[q] # "idle"
      <4>1. msg'[q] = msg[q]
        BY <1>1, <2>1, <3>1
      <4>2. QED
        BY <1>1, <2>1, <3>1, <4>1 DEF StreamInv, NumbersInv
    <3>2. CASE pc[q] = "idle"
      <4>1. msg'[q] = sent + 1
        BY <1>1, <2>1, <2>4, <3>2
      <4>2. QED
        BY <1>1, <2>1, <4>1 DEF StreamInv, NumbersInv
    <3>3. QED
      BY <3>1, <3>2
  <2>5. NumbersInv'
    BY <2>3, <2>4 DEF NumbersInv
  <2>6. QED
    BY <2>1, <2>2, <2>5 DEF StreamInv, StreamInOrder
<1>5. ASSUME NEW p \in Publishers, Yield(p) PROVE StreamInv'
  <2>1. PICK s \in Unvisited(p) : /\ target' = [target EXCEPT ![p] = {s}]
                                  /\ seen' = [seen EXCEPT ![p] = @ \cup {s}]
    BY <1>5 DEF Yield
  <2>2. /\ s \notin seen[p] /\ pc[p] = "range" /\ pc' = [pc EXCEPT ![p] = "send"]
        /\ UNCHANGED <<stream, sent, msg>>
    BY <1>5, <2>1 DEF Yield, Unvisited
  <2>3. TargetInv'
    BY <1>1, <2>1, <2>2 DEF StreamInv, TargetInv
  <2>4. NumbersInv'
    BY <1>1, <2>1, <2>2 DEF StreamInv, NumbersInv
  <2>5. QED
    BY <2>2, <2>3, <2>4 DEF StreamInv, StreamInOrder
<1>6. ASSUME NEW p \in Publishers, Finish(p) PROVE StreamInv'
  <2>1. /\ pc[p] = "range" /\ pc' = [pc EXCEPT ![p] = "idle"]
        /\ msg' = [msg EXCEPT ![p] = 0] /\ seen' = [seen EXCEPT ![p] = {}]
        /\ UNCHANGED <<stream, sent, target>>
    BY <1>6 DEF Finish
  <2>2. TargetInv'
    BY <1>1, <2>1 DEF StreamInv, TargetInv
  <2>3. NumbersInv'
    BY <1>1, <2>1 DEF StreamInv, NumbersInv
  <2>4. QED
    BY <2>1, <2>2, <2>3 DEF StreamInv, StreamInOrder
<1>7. CASE UNCHANGED vars
  BY <1>2, <1>7
<1>8. QED
  BY <1>3, <1>4, <1>5, <1>6, <1>7, StreamSend DEF Next, Continue

(* StreamInv holds throughout. *)
LEMMA StreamInductive == Spec => []StreamInv
<1>1. Init => StreamInv
  BY DEF Init, StreamInv, TargetInv, NumbersInv, StreamInOrder
<1>2. TypeInv /\ StreamInv /\ [Next]_vars => StreamInv'
  BY StreamStep
<1>3. QED
  BY <1>1, <1>2, TypeInductive, PTL DEF Spec

(* A subscriber gets the messages of one publisher in the order they were  *)
(* published, and none twice, however publishers interleave and whoever    *)
(* subscribes or leaves during an iteration (broker.go:52-61).             *)
THEOREM StreamsStayInOrder == Spec => []StreamInOrder
<1>1. StreamInv => StreamInOrder
  BY DEF StreamInv
<1>2. QED
  BY <1>1, StreamInductive, PTL

-----------------------------------------------------------------------------
(* The broker implements Fanout                                            *)

(* A publisher under way owes its message to some of one topic, whose map  *)
(* object no other topic ever gets; those of them that are still           *)
(* subscribed are in that map object (broker.go:26-38, 52-56).             *)
Owes(p) ==
  /\ due[p] # {}
  /\ \E t \in Topics : /\ \A o \in due[p] : topic[o] = t
                       /\ \A u \in Topics : topics[u] = ref[p] => u = t
  /\ \A o \in due[p] : state[o] # "new" /\ (state[o] = "open" => o \in maps[ref[p]])
OwesInv ==
  \A p \in Publishers :
    /\ pc[p] = "idle" => msg[p] = 0
    /\ pc[p] = "send" => \E s \in Subs : target[p] = {s}
    /\ pc[p] # "idle" => Owes(p)
FanInv == TypeInv /\ RegistrationExact /\ TargetInv /\ OwesInv

(* The map a publisher iterates over holds open subscriptions of one topic. *)
LEMMA MapIsOpen ==
  ASSUME TypeInv, RegistrationExact, NEW m \in DOMAIN maps, NEW s \in maps[m]
  PROVE  s \in Subs /\ state[s] = "open" /\ topics[topic[s]] = m /\ topic[s] \in Topics
<1>1. PICK t \in Topics : topics[t] = m
  BY DEF RegistrationExact
<1>2. m # 0
  BY DEF TypeInv, TypeOK
<1>3. maps[m] = Open(t)
  BY <1>1, <1>2 DEF RegistrationExact
<1>4. QED
  BY <1>1, <1>3 DEF Open

(* What a subscription that comes or goes does to the map objects. *)
LEMMA OwesRegistered ==
  ASSUME FanInv, NEW s \in Subs, Subscribe(s) \/ Leave(s)
  PROVE  OwesInv'
<1>1. /\ topic[s] \in Topics /\ maps \in Seq(SUBSET Subs) /\ Len(maps) \in Nat
      /\ topics \in [Topics -> 0 .. Len(maps)]
      /\ state \in [Subs -> {"new", "open", "leaving", "closed"}]
      /\ due \in [Publishers -> SUBSET Subs]
  BY DEF FanInv, TypeInv, TypeOK
<1>2. UNCHANGED <<topic, pubVars>>
  BY DEF Subscribe, Leave
<1> SUFFICES ASSUME NEW p \in Publishers, pc[p] # "idle" PROVE Owes(p)'
  BY <1>2 DEF FanInv, OwesInv
<1>3. ref[p] \in 1 .. Len(maps)
  BY DEF FanInv, TypeInv, PubInv
<1>4. Owes(p)
  BY DEF FanInv, OwesInv
<1>5. CASE Subscribe(s)
  <2> DEFINE t == topic[s]
             m == IF NeedsMap(t) THEN Len(maps) + 1 ELSE topics[t]
  <2>1. /\ state[s] = "new" /\ state' = [state EXCEPT ![s] = "open"]
        /\ topics' = [topics EXCEPT ![t] = m]
        /\ maps' = IF NeedsMap(t) THEN Append(maps, {s}) ELSE [maps EXCEPT ![m] = @ \cup {s}]
    BY <1>5 DEF Subscribe
  <2>2. \A u \in Topics : topics'[u] = ref[p] => topics[u] = ref[p]
    BY <1>1, <1>3, <2>1 DEF NeedsMap
  <2>3. maps[ref[p]] \subseteq maps'[ref[p]]
    <3>1. CASE NeedsMap(t)
      BY <1>1, <1>3, <2>1, <3>1
    <3>2. CASE ~NeedsMap(t)
      BY <1>1, <1>3, <2>1, <3>2 DEF NeedsMap
    <3>3. QED
      BY <3>1, <3>2
  <2>4. \A o \in due[p] : o # s /\ state'[o] = state[o]
    BY <1>1, <1>4, <2>1 DEF Owes
  <2>5. QED
    BY <1>2, <1>4, <2>2, <2>3, <2>4 DEF Owes
<1>6. CASE Leave(s)
  <2> DEFINE t == topic[s]
             m == topics[t]
  <2>1. state[s] = "open" /\ state' = [state EXCEPT ![s] = "leaving"]
    BY <1>6 DEF Leave
  <2>2. \/ UNCHANGED <<maps, topics>>
        \/ /\ m # 0 /\ maps' = [maps EXCEPT ![m] = @ \ {s}]
           /\ topics' = [topics EXCEPT ![t] = TopicAfter(t, maps[m] \ {s})]
    BY <1>6 DEF Leave
  <2>3. \A u \in Topics : topics'[u] = ref[p] => topics[u] = ref[p]
    BY <1>1, <1>3, <2>2 DEF TopicAfter
  <2>4. maps[ref[p]] \ {s} \subseteq maps'[ref[p]]
    BY <1>1, <1>3, <2>2
  <2>5. \A o \in due[p] : state'[o] # "new" /\ (state'[o] = "open" => o \in maps'[ref[p]])
    BY <1>1, <1>4, <2>1, <2>4 DEF Owes
  <2>6. QED
    BY <1>2, <1>4, <2>3, <2>5 DEF Owes
<1>7. QED
  BY <1>5, <1>6

(* Every step keeps the invariant. *)
LEMMA OwesStep == FanInv /\ [Next]_vars => OwesInv'
<1> SUFFICES ASSUME FanInv, [Next]_vars PROVE OwesInv'
  OBVIOUS
<1>1. /\ pc \in [Publishers -> {"idle", "range", "send"}]
      /\ topic \in [Subs -> Topics] /\ topics \in [Topics -> 0 .. Len(maps)]
      /\ state \in [Subs -> {"new", "open", "leaving", "closed"}]
      /\ due \in [Publishers -> SUBSET Subs] /\ msg \in [Publishers -> 0 .. MaxPublish]
      /\ target \in [Publishers -> SUBSET Subs] /\ seen \in [Publishers -> SUBSET Subs]
      /\ ref \in [Publishers -> 0 .. Len(maps)] /\ Len(maps) \in Nat
  BY DEF FanInv, TypeInv, TypeOK
<1>2. ASSUME NEW s \in Subs, Receive(s) \/ CloseChannel(s) PROVE OwesInv'
  <2>1. UNCHANGED <<topics, maps, topic, pubVars>>
    BY <1>2 DEF Receive, CloseChannel
  <2>2. \A o \in Subs : (state'[o] = "new" <=> state[o] = "new")
                        /\ (state'[o] = "open" <=> state[o] = "open")
    BY <1>1, <1>2 DEF Receive, CloseChannel
  <2>3. QED
    BY <1>1, <2>1, <2>2 DEF FanInv, OwesInv, Owes
<1>3. ASSUME NEW p \in Publishers, NEW t \in Topics, Publish(p, t) PROVE OwesInv'
  <2>1. pc[p] = "idle" /\ UNCHANGED <<topics, maps, subVars, seen, target>>
    BY <1>3 DEF Publish
  <2>2. CASE topics[t] = 0
    BY <1>3, <2>1, <2>2 DEF Publish, FanInv, OwesInv, Owes
  <2>3. CASE topics[t] # 0
    <3>1. /\ pc' = [pc EXCEPT ![p] = "range"] /\ msg' = [msg EXCEPT ![p] = sent + 1]
          /\ ref' = [ref EXCEPT ![p] = topics[t]] /\ due' = [due EXCEPT ![p] = maps[topics[t]]]
      BY <1>3, <2>3 DEF Publish
    <3>2. maps[topics[t]] = Open(t) /\ Open(t) # {}
      BY <2>3 DEF FanInv, RegistrationExact
    <3>3. \A u \in Topics : topics[u] = topics[t] => u = t
      <4>1. SUFFICES ASSUME NEW u \in Topics, topics[u] = topics[t] PROVE u = t
        OBVIOUS
      <4>2. Open(u) = Open(t) /\ Open(t) # {}
        BY <2>3, <4>1 DEF FanInv, RegistrationExact
      <4>3. QED
        BY <4>2 DEF Open
    <3>4. Owes(p)'
      BY <1>1, <2>1, <3>1, <3>2, <3>3 DEF Owes, Open
    <3>5. \A q \in Publishers : q # p => (Owes(q)' <=> Owes(q))
      BY <1>1, <2>1, <3>1 DEF Owes
    <3>6. QED
      BY <1>1, <2>1, <3>1, <3>4, <3>5 DEF FanInv, OwesInv
  <2>4. QED
    BY <2>2, <2>3
<1>4. ASSUME NEW p \in Publishers, Yield(p) \/ Send(p) PROVE OwesInv'
  <2>1. /\ UNCHANGED <<topics, maps, state, topic, msg, ref, due>> /\ pc[p] \in {"range", "send"}
        /\ \/ pc' = [pc EXCEPT ![p] = "range"]
           \/ /\ pc' = [pc EXCEPT ![p] = "send"]
              /\ \E s \in Unvisited(p) : target' = [target EXCEPT ![p] = {s}]
        /\ \A q \in Publishers : q # p => target'[q] = target[q]
    BY <1>1, <1>4 DEF Yield, Send
  <2>2. Unvisited(p) \subseteq Subs
    <3>1. maps \in Seq(SUBSET Subs)
      BY DEF FanInv, TypeInv, TypeOK
    <3>2. ref[p] \in 1 .. Len(maps)
      BY <2>1 DEF FanInv, TypeInv, PubInv
    <3>3. maps[ref[p]] \in SUBSET Subs
      BY <3>1, <3>2
    <3>4. QED
      BY <3>3 DEF Unvisited
  <2>3. \A q \in Publishers : Owes(q)' <=> Owes(q)
    BY <2>1 DEF Owes
  <2>4. \A q \in Publishers : pc'[q] = "idle" => msg'[q] = 0
    BY <1>1, <2>1 DEF FanInv, OwesInv
  <2>5. \A q \in Publishers : pc'[q] # "idle" => pc[q] # "idle"
    BY <1>1, <2>1
  <2>6. \A q \in Publishers : pc'[q] = "send" => \E s \in Subs : target'[q] = {s}
    <3>1. SUFFICES ASSUME NEW q \in Publishers, pc'[q] = "send"
                   PROVE  \E s \in Subs : target'[q] = {s}
      OBVIOUS
    <3>2. CASE q # p
      BY <1>1, <2>1, <3>1, <3>2 DEF FanInv, OwesInv
    <3>3. CASE q = p
      <4>1. pc'[p] = "send"
        BY <3>1, <3>3
      <4>2. PICK s \in Unvisited(p) : target' = [target EXCEPT ![p] = {s}]
        BY <1>1, <2>1, <4>1
      <4>3. QED
        BY <1>1, <2>2, <3>3, <4>2
    <3>4. QED
      BY <3>2, <3>3
  <2>7. QED
    BY <2>3, <2>4, <2>5, <2>6 DEF FanInv, OwesInv
<1>5. ASSUME NEW p \in Publishers, Finish(p) PROVE OwesInv'
  <2>1. /\ pc' = [pc EXCEPT ![p] = "idle"] /\ msg' = [msg EXCEPT ![p] = 0]
        /\ ref' = [ref EXCEPT ![p] = 0] /\ due' = [due EXCEPT ![p] = {}]
        /\ UNCHANGED <<topics, maps, state, topic, target>>
    BY <1>5 DEF Finish
  <2>2. \A q \in Publishers : q # p => (Owes(q)' <=> Owes(q))
    BY <1>1, <2>1 DEF Owes
  <2>3. QED
    BY <1>1, <2>1, <2>2 DEF FanInv, OwesInv
<1>6. CASE UNCHANGED vars
  BY <1>6 DEF FanInv, OwesInv, Owes
<1>7. QED
  BY <1>2, <1>3, <1>4, <1>5, <1>6, OwesRegistered DEF Next, Continue

(* FanInv holds throughout. *)
LEMMA FanInductive == Spec => []FanInv
<1>1. Init => OwesInv
  BY DEF Init, OwesInv
<1>2. FanInv /\ [Next]_vars => OwesInv'
  BY OwesStep
<1>3. StreamInv => TargetInv
  BY DEF StreamInv
<1>4. TypeInv /\ RegistrationExact /\ TargetInv /\ OwesInv <=> FanInv
  BY DEF FanInv
<1>5. QED
  BY <1>1, <1>2, <1>3, <1>4, TypeInductive, RegistrationIsExact, StreamInductive, PTL DEF Spec

(* The mapped variables of Fanout. *)
Members == {s \in Subs : state[s] = "open"}
mapped == <<Members, topic, stream, taken, sent, msg, due, seen, target>>

(* What changes no mapped variable is a stutter of Fanout. *)
LEMMA MappedStutters == UNCHANGED mapped => UNCHANGED Promise!fanVars
BY DEF mapped, Members, Promise!fanVars

(* Coming, reading, leaving and closing (broker.go:24-39, sse.go's stream). *)
LEMMA SubscriberImplements ==
  ASSUME FanInv, NEW s \in Subs, Subscribe(s) \/ Receive(s) \/ Leave(s) \/ CloseChannel(s)
  PROVE  [Promise!Next]_Promise!fanVars
<1>1. state \in [Subs -> {"new", "open", "leaving", "closed"}]
  BY DEF FanInv, TypeInv, TypeOK
<1>2. CASE Subscribe(s)
  <2>1. Members' = Members \cup {s}
    BY <1>1, <1>2 DEF Subscribe, Members
  <2>2. Promise!Join(s)
    BY <1>2, <2>1 DEF Subscribe, Promise!Join, Members
  <2>3. QED
    BY <2>2 DEF Promise!Next
<1>3. CASE Receive(s)
  <2>1. Promise!Consume(s)
    BY <1>3 DEF Receive, Promise!Consume
  <2>2. QED
    BY <2>1 DEF Promise!Next
<1>4. CASE Leave(s)
  <2>1. Members' = Members \ {s}
    BY <1>1, <1>4 DEF Leave, Members
  <2>2. Promise!Quit(s)
    BY <1>4, <2>1 DEF Leave, Promise!Quit, Members
  <2>3. QED
    BY <2>2 DEF Promise!Next
<1>5. CASE CloseChannel(s)
  <2>1. Members' = Members
    BY <1>1, <1>5 DEF CloseChannel, Members
  <2>2. UNCHANGED mapped
    BY <1>5, <2>1 DEF CloseChannel, mapped
  <2>3. QED
    BY <2>2, MappedStutters
<1>6. QED
  BY <1>2, <1>3, <1>4, <1>5

(* Taking the topic's map begins a message that is owed to all who are     *)
(* subscribed; without a map there is nobody (broker.go:52-55).            *)
LEMMA PublishImplements ==
  ASSUME FanInv, NEW p \in Publishers, NEW t \in Topics, Publish(p, t)
  PROVE  [Promise!Next]_Promise!fanVars
<1>1. /\ pc[p] = "idle" /\ sent' = sent + 1
      /\ UNCHANGED <<state, topic, stream, taken, seen, target>>
  BY DEF Publish
<1>2. {s \in Members : topic[s] = t} = Open(t)
  BY DEF Members, Open
<1>3. CASE topics[t] = 0
  <2>1. Open(t) = {}
    BY <1>3 DEF FanInv, RegistrationExact
  <2>2. UNCHANGED <<msg, due>>
    BY <1>3 DEF Publish
  <2>3. Promise!Skip(t)
    BY <1>1, <1>2, <2>1, <2>2 DEF Promise!Skip, Members
  <2>4. QED
    BY <2>3 DEF Promise!Next
<1>4. CASE topics[t] # 0
  <2>1. maps[topics[t]] = Open(t) /\ Open(t) # {}
    BY <1>4 DEF FanInv, RegistrationExact
  <2>2. msg' = [msg EXCEPT ![p] = sent + 1] /\ due' = [due EXCEPT ![p] = Open(t)]
    BY <1>4, <2>1 DEF Publish
  <2>3. msg[p] = 0
    BY <1>1 DEF FanInv, OwesInv
  <2>4. Promise!Begin(p, t)
    BY <1>1, <1>2, <2>1, <2>2, <2>3 DEF Promise!Begin, Members
  <2>5. QED
    BY <2>4 DEF Promise!Next
<1>5. QED
  BY <1>3, <1>4

(* What the iteration yields is subscribed, to the message's topic, and    *)
(* has not been offered the message (broker.go:56).                        *)
LEMMA YieldImplements ==
  ASSUME FanInv, NEW p \in Publishers, Yield(p)
  PROVE  [Promise!Next]_Promise!fanVars
<1>1. pc[p] = "range" /\ UNCHANGED <<state, topic, stream, taken, sent, msg, due>>
  BY DEF Yield
<1>2. PICK s \in Unvisited(p) : /\ target' = [target EXCEPT ![p] = {s}]
                                /\ seen' = [seen EXCEPT ![p] = @ \cup {s}]
  BY DEF Yield
<1>3. ref[p] \in DOMAIN maps
  <2>1. maps \in Seq(SUBSET Subs)
    BY DEF FanInv, TypeInv, TypeOK
  <2>2. ref[p] \in 1 .. Len(maps)
    BY <1>1 DEF FanInv, TypeInv, PubInv
  <2>3. QED
    BY <2>1, <2>2
<1>4. s \in maps[ref[p]] /\ s \notin seen[p]
  BY <1>2 DEF Unvisited
<1>5. s \in Subs /\ state[s] = "open" /\ topics[topic[s]] = ref[p] /\ topic[s] \in Topics
  BY <1>3, <1>4, MapIsOpen DEF FanInv
<1>6. \E o \in due[p] : topic[o] = topic[s]
  BY <1>1, <1>5 DEF FanInv, OwesInv, Owes
<1>7. target[p] = {}
  BY <1>1 DEF FanInv, TargetInv
<1>8. Promise!Pick(p, s)
  BY <1>1, <1>2, <1>4, <1>5, <1>6, <1>7 DEF Promise!Pick
<1>9. QED
  BY <1>5, <1>8 DEF Promise!Next

(* The non-blocking send passes over only who has left or has no room      *)
(* (broker.go:57-60).                                                      *)
LEMMA SendImplements ==
  ASSUME FanInv, NEW p \in Publishers, Send(p)
  PROVE  [Promise!Next]_Promise!fanVars
<1>1. /\ pc[p] = "send" /\ target' = [target EXCEPT ![p] = {}]
      /\ UNCHANGED <<state, topic, taken, sent, msg, due, seen>>
  BY DEF Send
<1>2. PICK s \in Subs : target[p] = {s}
  BY <1>1 DEF FanInv, OwesInv
<1>3. SendTo(p, s)
  BY <1>2 DEF Send
<1>4. \/ /\ HasRoom(s)
         /\ stream' = [stream EXCEPT ![s] = Append(@, [from |-> p, n |-> msg[p]])]
      \/ (state[s] = "closed" \/ ~HasRoom(s)) /\ UNCHANGED stream
  BY <1>3 DEF SendTo
<1>5. ~HasRoom(s) => Len(stream[s]) - taken[s] >= BufCap
  <2>1. stream[s] \in Seq(Message) /\ taken[s] \in Nat /\ BufCap \in Nat
    BY BrokerAssumption DEF FanInv, TypeInv, TypeOK, BrokerAssumption
  <2>2. Len(stream[s]) \in Nat
    BY <2>1
  <2>3. QED
    BY <2>1, <2>2 DEF HasRoom
<1>6. Promise!Hand(p, s)
  BY <1>1, <1>2, <1>4, <1>5 DEF Promise!Hand, HasRoom
<1>7. QED
  BY <1>6 DEF Promise!Next

(* The iteration ends only when all who are owed the message and are still *)
(* subscribed have been offered it (broker.go:56-61).                      *)
LEMMA FinishImplements ==
  ASSUME FanInv, NEW p \in Publishers, Finish(p)
  PROVE  [Promise!Next]_Promise!fanVars
<1>1. /\ pc[p] = "range" /\ due[p] \cap maps[ref[p]] \subseteq seen[p]
      /\ msg' = [msg EXCEPT ![p] = 0] /\ due' = [due EXCEPT ![p] = {}]
      /\ seen' = [seen EXCEPT ![p] = {}]
      /\ UNCHANGED <<state, topic, stream, taken, sent, target>>
  BY DEF Finish
<1>2. msg[p] # 0
  <2>1. msg[p] \in 1 .. MaxPublish
    BY <1>1 DEF FanInv, TypeInv, PubInv
  <2>2. QED
    BY <2>1, BrokerAssumption DEF BrokerAssumption
<1>3. target[p] = {}
  BY <1>1 DEF FanInv, TargetInv
<1>4. due[p] \cap Members \subseteq seen[p]
  BY <1>1 DEF FanInv, OwesInv, Owes, Members
<1>5. Promise!End(p)
  BY <1>1, <1>2, <1>3, <1>4 DEF Promise!End, Members
<1>6. QED
  BY <1>5 DEF Promise!Next

(* Every step is one of Fanout or a stutter. *)
LEMMA StepImplements == FanInv /\ [Next]_vars => [Promise!Next]_Promise!fanVars
<1> SUFFICES ASSUME FanInv, [Next]_vars PROVE [Promise!Next]_Promise!fanVars
  OBVIOUS
<1>1. CASE UNCHANGED vars
  <2>1. UNCHANGED mapped
    BY <1>1 DEF mapped, Members
  <2>2. QED
    BY <2>1, MappedStutters
<1>2. QED
  BY <1>1, SubscriberImplements, PublishImplements, YieldImplements, SendImplements,
     FinishImplements DEF Next, Continue

(* The broker implements Fanout: whoever is subscribed throughout a        *)
(* Publish is offered the message, once, and with room gets it, although   *)
(* map objects change hands and change under the iteration                 *)
(* (broker.go:26-31, 33-38, 52-61).                                        *)
THEOREM FanoutIsKept == Spec => KeepsFanout
<1>1. Init => Promise!Init
  BY DEF Init, Promise!Init
<1>2. FanInv /\ [Next]_vars => [Promise!Next]_Promise!fanVars
  BY StepImplements
<1>3. QED
  BY <1>1, <1>2, FanInductive, PTL DEF Spec, KeepsFanout, Promise!Spec
=============================================================================
