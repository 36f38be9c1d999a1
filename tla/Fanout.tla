------------------------------ MODULE Fanout -------------------------------
(***************************************************************************)
(* What the SSE broker promises, without map objects, locks or channels:   *)
(* a message is owed to those who are members of its topic when publishing *)
(* begins; it is offered to each member at most once; a member with room   *)
(* gets it; and publishing ends only when every member to whom it is still *)
(* owed has been offered it.                                               *)
(***************************************************************************)
EXTENDS Naturals, Sequences

CONSTANTS Topics, Subs, Publishers, BufCap

VARIABLES
  members,     \* subscriptions in force
  topic,       \* the topic of each subscription
  stream,      \* what each subscription was given, in order
  taken,       \* how much of it its reader has consumed
  sent,        \* messages published so far
  msg,         \* number of the message each publisher is sending
  owed,        \* members when each publisher began its current message
  offered,     \* those its current message has been offered to
  target       \* the one it is being handed to at this moment

fanVars == <<members, topic, stream, taken, sent, msg, owed, offered, target>>

Init ==
  /\ members = {}
  /\ topic \in [Subs -> Topics]
  /\ stream = [s \in Subs |-> <<>>]
  /\ taken = [s \in Subs |-> 0]
  /\ sent = 0
  /\ msg = [p \in Publishers |-> 0]
  /\ owed = [p \in Publishers |-> {}]
  /\ offered = [p \in Publishers |-> {}]
  /\ target = [p \in Publishers |-> {}]

Join(s) ==
  /\ members' = members \cup {s}
  /\ UNCHANGED <<topic, stream, taken, sent, msg, owed, offered, target>>

Quit(s) ==
  /\ members' = members \ {s}
  /\ UNCHANGED <<topic, stream, taken, sent, msg, owed, offered, target>>

Consume(s) ==
  /\ s \in members /\ taken[s] < Len(stream[s])
  /\ taken' = [taken EXCEPT ![s] = @ + 1]
  /\ UNCHANGED <<members, topic, stream, sent, msg, owed, offered, target>>

(* A message nobody is subscribed for is only counted. *)
Skip(t) ==
  /\ {s \in members : topic[s] = t} = {}
  /\ sent' = sent + 1
  /\ UNCHANGED <<members, topic, stream, taken, msg, owed, offered, target>>

Begin(p, t) ==
  /\ msg[p] = 0
  /\ {s \in members : topic[s] = t} # {}
  /\ sent' = sent + 1
  /\ msg' = [msg EXCEPT ![p] = sent + 1]
  /\ owed' = [owed EXCEPT ![p] = {s \in members : topic[s] = t}]
  /\ UNCHANGED <<members, topic, stream, taken, offered, target>>

Pick(p, s) ==
  /\ s \in members \ offered[p]
  /\ \E o \in owed[p] : topic[o] = topic[s]
  /\ target[p] = {}
  /\ target' = [target EXCEPT ![p] = {s}]
  /\ offered' = [offered EXCEPT ![p] = @ \cup {s}]
  /\ UNCHANGED <<members, topic, stream, taken, sent, msg, owed>>

(* Handing over: only who has left, or has no room, may be passed over. *)
Hand(p, s) ==
  /\ target[p] = {s}
  /\ target' = [target EXCEPT ![p] = {}]
  /\ \/ /\ Len(stream[s]) - taken[s] < BufCap
        /\ stream' = [stream EXCEPT ![s] = Append(@, [from |-> p, n |-> msg[p]])]
     \/ /\ s \notin members \/ Len(stream[s]) - taken[s] >= BufCap
        /\ UNCHANGED stream
  /\ UNCHANGED <<members, topic, taken, sent, msg, owed, offered>>

End(p) ==
  /\ msg[p] # 0 /\ target[p] = {}
  /\ owed[p] \cap members \subseteq offered[p]
  /\ msg' = [msg EXCEPT ![p] = 0]
  /\ owed' = [owed EXCEPT ![p] = {}]
  /\ offered' = [offered EXCEPT ![p] = {}]
  /\ UNCHANGED <<members, topic, stream, taken, sent, target>>

Next ==
  \/ \E s \in Subs : Join(s) \/ Quit(s) \/ Consume(s)
  \/ \E t \in Topics : Skip(t)
  \/ \E p \in Publishers :
       \/ \E t \in Topics : Begin(p, t)
       \/ \E s \in Subs : Pick(p, s) \/ Hand(p, s)
       \/ End(p)

Spec == Init /\ [][Next]_fanVars

=============================================================================
