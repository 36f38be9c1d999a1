----------------------------- MODULE SseBroker -----------------------------
(***************************************************************************)
(* The fan-out broker of internal/sse/broker.go. Publish takes a reference *)
(* to the topic's subscriber map under the read lock and then iterates     *)
(* over it without the lock, while handleSSE goroutines subscribe and      *)
(* cancel. The map objects are therefore state of their own: a topic that  *)
(* loses its last subscriber drops its map, and the next one gets another. *)
(*                                                                         *)
(* Two outcomes end the process: a send on a channel that cancel has       *)
(* closed, and the runtime's "concurrent map iteration and map write". All *)
(* callers of Publish run in goroutines of their own, outside the recovery *)
(* of an HTTP handler.                                                     *)
(***************************************************************************)
EXTENDS Naturals, Sequences, FiniteSets

CONSTANTS
  Topics,      \* node IDs
  Subs,        \* subscriptions; each is made once, by one SSE request
  Publishers,  \* goroutines that publish
  BufCap,      \* capacity of a subscriber's channel (16 in the code)
  MaxPublish   \* bound: messages published over the whole run

ASSUME BrokerAssumption ==
  /\ BufCap \in Nat \ {0}
  /\ MaxPublish \in Nat

VARIABLES
  topics,      \* number of each topic's map object, 0 when it has none
  maps,        \* the map objects made so far: the subscriptions in each
  state,       \* each subscription: "new", "open", "leaving", "closed"
  topic,       \* the topic each subscription was made for
  stream,      \* all that was ever accepted into each channel
  taken,       \* how much of its stream each SSE handler has written out
  pc,          \* each publisher: "idle", "range", "send"
  sent,        \* messages published so far
  msg,         \* number of the message each publisher is sending
  ref,         \* the map object each publisher iterates over
  due,         \* what that map held when the publisher took it
  seen,        \* what the iteration has yielded so far
  target,      \* the subscription the publisher is about to send to
  crashed      \* the process has died

subVars  == <<state, topic, stream, taken>>
pubVars  == <<pc, sent, msg, ref, due, seen, target>>
vars     == <<topics, maps, subVars, pubVars, crashed>>

None == "none"
Message == [from : Publishers, n : 1 .. MaxPublish]

Init ==
  /\ topics = [t \in Topics |-> 0] /\ maps = <<>>
  /\ state = [s \in Subs |-> "new"]
  /\ topic \in [Subs -> Topics]
  /\ stream = [s \in Subs |-> <<>>]
  /\ taken = [s \in Subs |-> 0]
  /\ pc = [p \in Publishers |-> "idle"]
  /\ sent = 0
  /\ msg = [p \in Publishers |-> 0]
  /\ ref = [p \in Publishers |-> 0]
  /\ due = [p \in Publishers |-> {}]
  /\ seen = [p \in Publishers |-> {}]
  /\ target = [p \in Publishers |-> {}]
  /\ crashed = FALSE

-----------------------------------------------------------------------------
(* Faulty variants of definitions below; none is part of the specification. *)

(* Mistake: the capacity test of a channel is off by one. *)
HasRoomOneMore(s) == Len(stream[s]) - taken[s] <= BufCap

(* Mistake: the topic is dropped although other subscribers remain. *)
TopicAfterAlways(t, rest) == 0

(* Mistake: every Subscribe makes a new map for its topic. *)
NeedsMapAlways(t) == TRUE

(* Mistake: the loop over the subscribers may offer to the same one again. *)
UnvisitedRepeating(p) == maps[ref[p]]

(* Mistake: the send waits for room in the channel. *)
SendBlocking(p, s) ==
  /\ state[s] # "closed" /\ Len(stream[s]) - taken[s] < BufCap
  /\ stream' = [stream EXCEPT ![s] = Append(@, [from |-> p, n |-> msg[p]])]
  /\ UNCHANGED crashed

-----------------------------------------------------------------------------
(* Subscribe, the stream, and cancel. *)

(* A publisher is between taking map m and the end of its iteration. *)
Iterated(m) == \E p \in Publishers : pc[p] # "idle" /\ ref[p] = m

(* Writing to map m: when it is being iterated over, the runtime may      *)
(* notice and kill the process.                                           *)
MayCrash(m) == crashed' \in (IF Iterated(m) THEN BOOLEAN ELSE {FALSE})

NeedsMap(t) == topics[t] = 0

Subscribe(s) ==
  LET t == topic[s]
      m == IF NeedsMap(t) THEN Len(maps) + 1 ELSE topics[t]
  IN /\ ~crashed
     /\ state[s] = "new"
     /\ state' = [state EXCEPT ![s] = "open"]
     /\ topics' = [topics EXCEPT ![t] = m]
     /\ maps' = IF NeedsMap(t) THEN Append(maps, {s})
                ELSE [maps EXCEPT ![m] = @ \cup {s}]
     /\ MayCrash(m)
     /\ UNCHANGED <<topic, stream, taken, pubVars>>

(* StreamFrom writes the next message to the browser. *)
Receive(s) ==
  /\ ~crashed
  /\ state[s] = "open"
  /\ taken[s] < Len(stream[s])
  /\ taken' = [taken EXCEPT ![s] = @ + 1]
  /\ UNCHANGED <<topics, maps, state, topic, stream, pubVars, crashed>>

(* The topic is forgotten once no subscriber is left in its map. *)
TopicAfter(t, rest) == IF rest = {} THEN 0 ELSE topics[t]

(* cancel, first half: under the lock, leave the topic's map. *)
Leave(s) ==
  LET t == topic[s]
      m == topics[t]
  IN /\ ~crashed
     /\ state[s] = "open"
     /\ state' = [state EXCEPT ![s] = "leaving"]
     /\ IF m = 0
        THEN UNCHANGED <<maps, topics, crashed>>
        ELSE /\ maps' = [maps EXCEPT ![m] = @ \ {s}]
             /\ topics' = [topics EXCEPT ![t] = TopicAfter(t, maps[m] \ {s})]
             /\ MayCrash(m)
     /\ UNCHANGED <<topic, stream, taken, pubVars>>

(* cancel, second half: close the channel, after the lock was released. *)
CloseChannel(s) ==
  /\ ~crashed
  /\ state[s] = "leaving"
  /\ state' = [state EXCEPT ![s] = "closed"]
  /\ UNCHANGED <<topics, maps, topic, stream, taken, pubVars, crashed>>

-----------------------------------------------------------------------------
(* Publish. *)

(* Take the topic's map under the read lock; without one, return at once. *)
Publish(p, t) ==
  /\ ~crashed
  /\ pc[p] = "idle"
  /\ sent < MaxPublish /\ sent' = sent + 1
  /\ IF topics[t] = 0
     THEN UNCHANGED <<pc, msg, ref, due>>
     ELSE /\ pc' = [pc EXCEPT ![p] = "range"]
          /\ msg' = [msg EXCEPT ![p] = sent + 1]
          /\ ref' = [ref EXCEPT ![p] = topics[t]]
          /\ due' = [due EXCEPT ![p] = maps[topics[t]]]
  /\ UNCHANGED <<topics, maps, subVars, seen, target, crashed>>

Unvisited(p) == maps[ref[p]] \ seen[p]

(* The iteration yields a subscription that is in the map at this moment. *)
Yield(p) ==
  /\ ~crashed
  /\ pc[p] = "range"
  /\ \E s \in Unvisited(p) :
       /\ target' = [target EXCEPT ![p] = {s}]
       /\ seen' = [seen EXCEPT ![p] = @ \cup {s}]
  /\ pc' = [pc EXCEPT ![p] = "send"]
  /\ UNCHANGED <<topics, maps, subVars, sent, msg, ref, due, crashed>>

HasRoom(s) == Len(stream[s]) - taken[s] < BufCap

(* The non-blocking send of p's current message: a full channel drops it, *)
(* a closed one panics.                                                   *)
SendTo(p, s) ==
  /\ crashed' = (state[s] = "closed")
  /\ stream' = IF state[s] # "closed" /\ HasRoom(s)
               THEN [stream EXCEPT ![s] = Append(@, [from |-> p, n |-> msg[p]])]
               ELSE stream

Send(p) ==
  /\ ~crashed
  /\ pc[p] = "send"
  /\ \E s \in target[p] : SendTo(p, s)
  /\ pc' = [pc EXCEPT ![p] = "range"]
  /\ target' = [target EXCEPT ![p] = {}]
  /\ UNCHANGED <<topics, maps, state, topic, taken, sent, msg, ref, due, seen>>

(* The iteration ends once it has yielded all that was in the map from    *)
(* the beginning and still is; what joined later it may have missed.      *)
Finish(p) ==
  /\ ~crashed
  /\ pc[p] = "range"
  /\ due[p] \cap maps[ref[p]] \subseteq seen[p]
  /\ pc' = [pc EXCEPT ![p] = "idle"]
  /\ msg' = [msg EXCEPT ![p] = 0]
  /\ ref' = [ref EXCEPT ![p] = 0]
  /\ due' = [due EXCEPT ![p] = {}]
  /\ seen' = [seen EXCEPT ![p] = {}]
  /\ UNCHANGED <<topics, maps, subVars, sent, target, crashed>>

Continue(p) == Yield(p) \/ Send(p) \/ Finish(p)

Next ==
  \/ \E s \in Subs : Subscribe(s) \/ Receive(s) \/ Leave(s) \/ CloseChannel(s)
  \/ \E p \in Publishers : (\E t \in Topics : Publish(p, t)) \/ Continue(p)

(* Publishing goroutines keep running; nothing is assumed of browsers.    *)
Fairness == \A p \in Publishers : WF_vars(Continue(p))

Spec == Init /\ [][Next]_vars /\ Fairness

-----------------------------------------------------------------------------
Open(t) == {s \in Subs : state[s] = "open" /\ topic[s] = t}

(* Every variable keeps its type and no channel holds more than its        *)
(* capacity (broker.go:12-15, 25, 57-60).                                  *)
TypeOK ==
  /\ maps \in Seq(SUBSET Subs)
  /\ topics \in [Topics -> 0 .. Len(maps)]
  /\ state \in [Subs -> {"new", "open", "leaving", "closed"}]
  /\ topic \in [Subs -> Topics]
  /\ stream \in [Subs -> Seq(Message)]
  /\ taken \in [Subs -> Nat]
  /\ \A s \in Subs : taken[s] <= Len(stream[s]) /\ Len(stream[s]) <= taken[s] + BufCap
  /\ pc \in [Publishers -> {"idle", "range", "send"}]
  /\ sent \in 0 .. MaxPublish /\ msg \in [Publishers -> 0 .. MaxPublish]
  /\ ref \in [Publishers -> 0 .. Len(maps)]
  /\ due \in [Publishers -> SUBSET Subs]
  /\ seen \in [Publishers -> SUBSET Subs]
  /\ target \in [Publishers -> SUBSET Subs]
  /\ crashed \in BOOLEAN

(* Through any order of subscriptions and cancellations a topic has a map  *)
(* exactly while it has open subscriptions, and its map holds just those:  *)
(* no subscriber is stranded in a map that was dropped, HasSubscribers is  *)
(* right, and topics do not pile up (broker.go:26-31, 33-38, 44-49).       *)
RegistrationExact ==
  /\ \A t \in Topics : IF topics[t] = 0 THEN Open(t) = {}
                       ELSE maps[topics[t]] = Open(t) /\ Open(t) # {}
  /\ \A m \in DOMAIN maps : (\A t \in Topics : topics[t] # m) => maps[m] = {}

(* A subscriber gets the messages of one publisher in the order they were  *)
(* published, and none of them twice (broker.go:52-61).                    *)
StreamInOrder ==
  \A s \in Subs : \A i, j \in 1 .. Len(stream[s]) :
    i < j /\ stream[s][i].from = stream[s][j].from => stream[s][i].n < stream[s][j].n

(* The broker keeps its promise to subscribers (module Fanout) although    *)
(* the map changes hands and changes under the iteration: whoever was      *)
(* subscribed throughout a Publish has been offered the message, once      *)
(* (broker.go:26-31, 33-38, 52-61).                                        *)
Promise == INSTANCE Fanout WITH members <- {s \in Subs : state[s] = "open"},
                                owed <- due, offered <- seen
KeepsFanout == Promise!Spec

(* Publish returns whatever the subscribers do: one that stops reading     *)
(* holds up nobody (broker.go:51, 57-60).                                  *)
PublishReturns == \A p \in Publishers : pc[p] # "idle" ~> pc[p] = "idle" \/ crashed

(* Publish sends to the current subscribers (broker.go:51), and a publish  *)
(* completes even if the browser has closed its stream (stats.go:364-365): *)
(* no publisher is about to send on a channel that cancel has closed.      *)
SendsReachOpenChannels ==
  \A p \in Publishers : \A s \in target[p] : state[s] # "closed"

=============================================================================
