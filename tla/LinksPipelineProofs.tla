------------------------ MODULE LinksPipelineProofs ------------------------
(***************************************************************************)
(* What TLAPS proves of LinksPipeline for any remote nodes and any room in *)
(* the channels: TypeCorrect, ConnectedAtIsKept, ShownAgreesWithCache.     *)
(*                                                                         *)
(* Most steps leave the polls alone (Frame); what is left are an answer, a *)
(* store and a publication by either poll, whose order TurnsInv follows.   *)
(***************************************************************************)
EXTENDS LinksPipeline, TLAPS

USE DEF vars, asterisk, browser, polls, store

-----------------------------------------------------------------------------
(* Channels                                                                *)

(* A message is put into a channel that has room (Go's select, default).   *)
LEMMA PutFits ==
  ASSUME NEW S, NEW s \in Seq(S), NEW e \in S, NEW n \in Nat, Len(s) < n
  PROVE  Append(s, e) \in Seq(S) /\ Len(Append(s, e)) <= n
OBVIOUS

(* The first message is taken out of one.                                  *)
LEMMA TakeFits ==
  ASSUME NEW S, NEW s \in Seq(S), s # <<>>, NEW n \in Nat, Len(s) <= n
  PROVE  Head(s) \in S /\ Tail(s) \in Seq(S) /\ Len(Tail(s)) <= n
OBVIOUS

-----------------------------------------------------------------------------
(* Type correctness. A poll that was answered holds links, and times are   *)
(* none of the future.                                                     *)
Chosen == [pc : {"drop", "link", "done"}, target : Remotes, clean : BOOLEAN]
ClockInv ==
  /\ inputs \in 0 .. MaxInputs
  /\ since \in [Remotes -> 0 .. inputs]
  /\ firstSeen \in [Remotes -> (0 .. inputs) \cup {NoData}]
OrderInv == order \in [pc : {"idle"}] \cup Chosen
HoldsLinks == \A p \in Pollers : pc[p] \in {"answered", "stored"} => snap[p] \in Links
TypeInv == TypeOK /\ ClockInv /\ OrderInv /\ HoldsLinks

(* The variables start with their types.                                   *)
LEMMA TypeInit == Init => TypeInv
<1> SUFFICES ASSUME Init PROVE TypeInv  OBVIOUS
<1>0. \A S : <<>> \in Seq(S) /\ Len(<<>>) = 0  OBVIOUS
<1>1. links \in Links  BY DEF Init, Links, Link
<1>2. jobs \in Seq(Job) /\ Len(jobs) <= JobBound
  BY <1>0, LinksAssumption DEF LinksAssumption, Init
<1>3. events \in Seq({"link", "digit"}) /\ Len(events) <= EventCap
  BY <1>0, LinksAssumption DEF LinksAssumption, Init
<1>4. chan \in Seq(Links \cup {Digit}) /\ Len(chan) <= ChanCap
  BY <1>0, LinksAssumption DEF LinksAssumption, Init
<1>5. since \in [Remotes -> 0 .. MaxInputs]  BY LinksAssumption DEF LinksAssumption, Init
<1>6. /\ pc \in [Pollers -> {"idle", "asked", "lost", "answered", "stored"}]
      /\ snap \in [Pollers -> Links \cup {NoData}]
      /\ sees \in [Pollers -> SUBSET Remotes]
      /\ ahead \in [Pollers -> SUBSET Pollers]
  BY DEF Init
<1>7. cache \in Links \cup {NoData} /\ shown \in Links \cup {NoData} /\ session \in BOOLEAN
      /\ dash \in {"closed", "subscribed", "streaming"} /\ overtaken \subseteq Pollers
  BY DEF Init
<1>8. order.pc \in {"idle", "drop", "link", "done"}  BY DEF Init
<1>9. TypeOK
  BY <1>1, <1>2, <1>3, <1>4, <1>5, <1>6, <1>7, <1>8, Zenon DEF TypeOK
<1>10. ClockInv  BY LinksAssumption DEF LinksAssumption, Init, ClockInv
<1>11. OrderInv  BY DEF Init, OrderInv
<1>12. HoldsLinks  BY DEF Init, HoldsLinks
<1>13. QED  BY <1>9, <1>10, <1>11, <1>12 DEF TypeInv

(* publish: an event for the listener, which may be dropped (manager.go).  *)
LEMMA EventTyped ==
  ASSUME TypeInv, NEW e \in {"link", "digit"},
         events' = events \/ (events' = Append(events, e) /\ Len(events) < EventCap)
  PROVE  events' \in Seq({"link", "digit"}) /\ Len(events') <= EventCap
<1> DEFINE S == {"link", "digit"}
<1>1. events \in Seq(S) /\ Len(events) <= EventCap /\ EventCap \in Nat /\ e \in S
  BY LinksAssumption DEF LinksAssumption, TypeInv, TypeOK
<1> HIDE DEF S
<1>2. CASE events' = events  BY <1>1, <1>2 DEF S
<1>3. CASE events' = Append(events, e) /\ Len(events) < EventCap
  <2>1. Append(events, e) \in Seq(S) /\ Len(Append(events, e)) <= EventCap
    BY <1>1, <1>3, PutFits
  <2>2. QED  BY <1>3, <2>1 DEF S
<1>4. QED  BY <1>2, <1>3

(* Become: the links and the events channel.                               *)
LEMMA BecomeTyped ==
  ASSUME TypeInv, NEW l \in Links, Become(l)
  PROVE  /\ links' \in Links
         /\ events' \in Seq({"link", "digit"}) /\ Len(events') <= EventCap
         /\ firstSeen' \in [Remotes -> (0 .. inputs) \cup {NoData}]
         /\ sees' \in [Pollers -> SUBSET Remotes]
         /\ UNCHANGED <<cache, since, crossed, pc, snap, ahead, overtaken, session, browser, behind>>
<1>1. events' = events \/ (events' = Append(events, "link") /\ Len(events) < EventCap)
  BY DEF Become, Heard
<1>2. events' \in Seq({"link", "digit"}) /\ Len(events') <= EventCap
  BY <1>1, EventTyped
<1>3. sees' \in [Pollers -> SUBSET Remotes]  BY DEF Become, Forget, TypeInv, TypeOK
<1>4. firstSeen' \in [Remotes -> (0 .. inputs) \cup {NoData}]
  BY DEF Become, Forget, TypeInv, ClockInv
<1>5. QED  BY <1>2, <1>3, <1>4 DEF Become, Forget

(* What comes from outside moves the clock on.                             *)
LEMMA InputTyped ==
  ASSUME TypeInv, Input
  PROVE  /\ inputs' \in 0 .. MaxInputs
         /\ 0 .. inputs \subseteq 0 .. inputs'
BY LinksAssumption DEF LinksAssumption, Input, TypeInv, ClockInv

(* Offer: the browser's channel.                                           *)
LEMMA OfferTyped ==
  ASSUME TypeInv, NEW m \in Links \cup {Digit}, Offer(m)
  PROVE  /\ chan' \in Seq(Links \cup {Digit}) /\ Len(chan') <= ChanCap
         /\ UNCHANGED <<dash, shown>>
BY LinksAssumption DEF LinksAssumption, Offer, HasRoom, TypeInv, TypeOK

(* Accept: the commands Asterisk has taken.                                *)
LEMMA AcceptTyped ==
  ASSUME TypeInv, NEW j \in Job, Accept(j)
  PROVE  /\ jobs' \in Seq(Job) /\ Len(jobs') <= JobBound
         /\ UNCHANGED <<links, session, events, store, polls, browser, behind>>
BY LinksAssumption DEF LinksAssumption, Accept, TypeInv, TypeOK

(* Turn: the polls under way.                                              *)
LEMMA TurnTyped ==
  ASSUME TypeInv, NEW p \in Pollers, NEW others \in SUBSET Pollers, Turn(p, others)
  PROVE  ahead' \in [Pollers -> SUBSET Pollers]
BY DEF Turn, TypeInv, TypeOK

(* Every step keeps the types.                                             *)
LEMMA TypeStep == TypeInv /\ [Next]_vars => TypeInv'
<1> SUFFICES ASSUME TypeInv, [Next]_vars PROVE TypeInv'  OBVIOUS
<1>0. TypeOK /\ ClockInv /\ OrderInv /\ HoldsLinks  BY DEF TypeInv
<1>1. ASSUME NEW r \in Remotes, Change(r) PROVE TypeInv'
  <2>1. PICK m \in Link \ {links[r]} :
          /\ Input /\ Become([links EXCEPT ![r] = m])
          /\ order' = IF order.pc = "idle" THEN order
                      ELSE [order EXCEPT !.clean = @ /\ links[r] # "off"]
          /\ UNCHANGED jobs
    BY <1>1 DEF Change
  <2>2. [links EXCEPT ![r] = m] \in Links  BY <1>0, <2>1 DEF TypeOK, Links
  <2>3. OrderInv'
    <3>1. CASE order.pc = "idle"  BY <1>0, <2>1, <3>1 DEF OrderInv
    <3>2. CASE order.pc # "idle"
      <4>1. (order.clean /\ links[r] # "off") \in BOOLEAN  OBVIOUS
      <4>2. order \in Chosen  BY <1>0, <3>2 DEF OrderInv
      <4>3. order' \in Chosen  BY <2>1, <3>2, <4>1, <4>2 DEF Chosen
      <4>4. QED  BY <4>3 DEF OrderInv
    <3>3. QED  BY <3>1, <3>2
  <2>4. ClockInv'  BY <1>0, <2>1, <2>2, BecomeTyped, InputTyped DEF ClockInv
  <2>5. TypeOK' /\ HoldsLinks'
    BY <1>0, <2>1, <2>2, <2>3, BecomeTyped DEF TypeOK, HoldsLinks, ClockInv, OrderInv, Chosen
  <2>6. QED  BY <2>3, <2>4, <2>5 DEF TypeInv
<1>2. CASE Execute
  <2> DEFINE j == Head(jobs)
             l == [r \in Remotes |->
                    CASE j.fn = "drop all" -> "off"
                      [] j.fn = "drop" /\ j.r = r -> "off"
                      [] j.fn = "link" /\ j.r = r /\ links[r] = "off" -> "idle"
                      [] OTHER -> links[r]]
  <2>1. jobs # <<>> /\ jobs' = Tail(jobs) /\ Become(l) /\ UNCHANGED <<order, inputs>>
    BY <1>2 DEF Execute
  <2>2. l \in Links  BY <1>0 DEF TypeOK, Links, Link, Modes
  <2>3. jobs' \in Seq(Job) /\ Len(jobs') <= JobBound
    BY <1>0, <2>1, TakeFits, LinksAssumption DEF LinksAssumption, TypeOK
  <2> HIDE DEF l
  <2>4. QED
    BY <1>0, <2>1, <2>2, <2>3, BecomeTyped DEF TypeInv, TypeOK, HoldsLinks, ClockInv, OrderInv
<1>3. CASE Dtmf \/ Hangup
  <2>1. \/ events' = events
        \/ events' = Append(events, "digit") /\ Len(events) < EventCap
        \/ events' = Append(events, "link") /\ Len(events) < EventCap
    BY <1>3 DEF Dtmf, Hangup, Heard
  <2>2. events' \in Seq({"link", "digit"}) /\ Len(events') <= EventCap
    BY <2>1, EventTyped
  <2>3. ClockInv'  BY <1>0, <1>3, InputTyped DEF Dtmf, Hangup, ClockInv
  <2>4. QED
    BY <1>0, <1>3, <2>2, <2>3 DEF Dtmf, Hangup, TypeInv, TypeOK, HoldsLinks, OrderInv
<1>4. CASE Login
  <2>1. events' = events \/ (events' = Append(events, "link") /\ Len(events) < EventCap)
    BY <1>4 DEF Login
  <2>2. events' \in Seq({"link", "digit"}) /\ Len(events') <= EventCap
    BY <2>1, EventTyped
  <2>3. QED  BY <1>0, <1>4, <2>2 DEF Login, TypeInv, TypeOK, HoldsLinks, ClockInv, OrderInv
<1>5. CASE LoseSession
  <2>1. pc' \in [Pollers -> {"idle", "asked", "lost", "answered", "stored"}]
    BY <1>0, <1>5 DEF LoseSession, TypeOK
  <2>2. HoldsLinks'  BY <1>0, <1>5 DEF LoseSession, TypeOK, HoldsLinks
  <2>3. ClockInv'  BY <1>0, <1>5, InputTyped DEF LoseSession, ClockInv
  <2>4. QED  BY <1>0, <1>5, <2>1, <2>2, <2>3 DEF LoseSession, TypeInv, TypeOK, OrderInv
<1>6. CASE Tick
  BY <1>0, <1>6 DEF Tick, Ask, TypeInv, TypeOK, HoldsLinks, ClockInv, OrderInv
<1>7. CASE Hear
  <2>1. events' \in Seq({"link", "digit"}) /\ Len(events') <= EventCap
    BY <1>0, <1>7, LinksAssumption DEF LinksAssumption, Hear, TypeOK
  <2>2. /\ chan' \in Seq(Links \cup {Digit}) /\ Len(chan') <= ChanCap
        /\ UNCHANGED <<dash, shown>>
    <3>1. CASE Head(events) = "digit"  BY <1>7, <3>1, OfferTyped DEF Hear
    <3>2. CASE Head(events) # "digit"  BY <1>0, <1>7, <3>2 DEF Hear, TypeOK
    <3>3. QED  BY <3>1, <3>2
  <2>3. /\ pc' \in [Pollers -> {"idle", "asked", "lost", "answered", "stored"}]
        /\ HoldsLinks' /\ UNCHANGED <<snap, sees, ahead, overtaken>>
    BY <1>0, <1>7 DEF Hear, Ask, TypeOK, HoldsLinks
  <2>4. QED
    BY <1>0, <1>7, <2>1, <2>2, <2>3 DEF Hear, TypeInv, TypeOK, ClockInv, OrderInv
<1>8. ASSUME NEW p \in Pollers, Answer(p) PROVE TypeInv'
  <2>1. ahead' \in [Pollers -> SUBSET Pollers]  BY <1>8, TurnTyped DEF Answer, Underway
  <2>2. sees' \in [Pollers -> SUBSET Remotes]  BY <1>0, <1>8 DEF Answer, TypeOK, Up
  <2>3. QED
    BY <1>0, <1>8, <2>1, <2>2 DEF Answer, TypeInv, TypeOK, HoldsLinks, ClockInv, OrderInv
<1>9. ASSUME NEW p \in Pollers, GiveUp(p) PROVE TypeInv'
  BY <1>0, <1>9 DEF GiveUp, TypeInv, TypeOK, HoldsLinks, ClockInv, OrderInv
<1>10. ASSUME NEW p \in Pollers, Store(p) PROVE TypeInv'
  <2>1. snap[p] \in Links  BY <1>0, <1>10 DEF Store, HoldsLinks
  <2>2. ahead' \in [Pollers -> SUBSET Pollers]
    <3>1. (IF SameLinks(snap[p]) THEN {} ELSE Underway \ {p}) \in SUBSET Pollers
      BY DEF Underway
    <3>2. QED  BY <1>10, <3>1, TurnTyped DEF Store
  <2>3. sees' \in [Pollers -> SUBSET Remotes]  BY <1>0, <1>10 DEF Store, TypeOK
  <2>4. /\ snap' \in [Pollers -> Links \cup {NoData}]
        /\ pc' \in [Pollers -> {"idle", "asked", "lost", "answered", "stored"}]
        /\ HoldsLinks'
    BY <1>0, <1>10, <2>1 DEF Store, TypeOK, HoldsLinks
  <2>5. \A r \in Remotes : Stamp(r) \in 0 .. inputs  BY <1>0 DEF Stamp, ClockInv
  <2>6. ClockInv'  BY <1>0, <1>10, <2>5 DEF Store, ClockInv
  <2>7. since' \in [Remotes -> 0 .. MaxInputs]
    BY <1>10, <2>6, LinksAssumption DEF LinksAssumption, ClockInv
  <2>8. QED
    BY <1>0, <1>10, <2>1, <2>2, <2>3, <2>4, <2>6, <2>7 DEF Store, TypeInv, TypeOK, OrderInv
<1>11. ASSUME NEW p \in Pollers, Publish(p) PROVE TypeInv'
  <2>1. snap[p] \in Links  BY <1>0, <1>11 DEF Publish, HoldsLinks
  <2>2. ahead' \in [Pollers -> SUBSET Pollers]  BY <1>11, TurnTyped DEF Publish
  <2>3. overtaken' \subseteq Pollers  BY <1>0, <1>11 DEF Publish, Before, TypeOK
  <2>4. /\ snap' \in [Pollers -> Links \cup {NoData}]
        /\ pc' \in [Pollers -> {"idle", "asked", "lost", "answered", "stored"}]
        /\ HoldsLinks'
    BY <1>0, <1>11 DEF Publish, TypeOK, HoldsLinks
  <2>5. QED
    BY <1>0, <1>11, <2>1, <2>2, <2>3, <2>4, OfferTyped
       DEF Publish, TypeInv, TypeOK, ClockInv, OrderInv
<1>12. CASE Open
  BY <1>0, <1>12, LinksAssumption
     DEF LinksAssumption, Open, TypeInv, TypeOK, HoldsLinks, ClockInv, OrderInv
<1>13. CASE InitialBurst
  BY <1>0, <1>13 DEF InitialBurst, TypeInv, TypeOK, HoldsLinks, ClockInv, OrderInv
<1>14. CASE Receive
  <2>1. chan' \in Seq(Links \cup {Digit}) /\ Len(chan') <= ChanCap
    BY <1>0, <1>14, LinksAssumption DEF LinksAssumption, Receive, TypeOK
  <2>2. shown' \in Links \cup {NoData}  BY <1>0, <1>14 DEF Receive, TypeOK
  <2>3. QED
    BY <1>0, <1>14, <2>1, <2>2 DEF Receive, TypeInv, TypeOK, HoldsLinks, ClockInv, OrderInv
<1>15. CASE Close
  BY <1>0, <1>15, LinksAssumption
     DEF LinksAssumption, Close, TypeInv, TypeOK, HoldsLinks, ClockInv, OrderInv
<1>16. ASSUME NEW j \in Job, Command(j) PROVE TypeInv'
  <2>1. OrderInv'
    <3>1. CASE order.pc = "idle"  BY <1>0, <1>16, <3>1 DEF Command, OrderInv
    <3>2. CASE order.pc # "idle"  BY <1>0, <1>16, <3>2 DEF Command, OrderInv, Chosen
    <3>3. QED  BY <3>1, <3>2
  <2>2. ClockInv'  BY <1>0, <1>16, InputTyped DEF Command, Accept, ClockInv
  <2>3. QED
    BY <1>0, <1>16, <2>1, <2>2, AcceptTyped
       DEF Command, TypeInv, TypeOK, HoldsLinks, OrderInv, Chosen
<1>17. ASSUME NEW r \in Remotes, ExclusiveBegin(r) PROVE TypeInv'
  <2>1. (jobs = <<>>) \in BOOLEAN  OBVIOUS
  <2>2. OrderInv'  BY <1>17, <2>1 DEF ExclusiveBegin, OrderInv, Chosen
  <2>3. ClockInv'  BY <1>0, <1>17, InputTyped DEF ExclusiveBegin, ClockInv
  <2>4. QED
    BY <1>0, <1>17, <2>2, <2>3 DEF ExclusiveBegin, TypeInv, TypeOK, HoldsLinks, OrderInv, Chosen
<1>18. CASE ExclusiveDrop
  <2>1. OrderInv'  BY <1>0, <1>18 DEF ExclusiveDrop, OrderInv, Chosen
  <2>2. [fn |-> "drop all"] \in Job  BY DEF Job
  <2>3. CASE Accept([fn |-> "drop all"])
    BY <1>0, <1>18, <2>1, <2>2, <2>3, AcceptTyped
       DEF ExclusiveDrop, TypeInv, TypeOK, HoldsLinks, ClockInv, OrderInv, Chosen
  <2>4. CASE UNCHANGED <<asterisk, session, events, store, polls, browser, behind>>
    BY <1>0, <1>18, <2>1, <2>4
       DEF ExclusiveDrop, TypeInv, TypeOK, HoldsLinks, ClockInv, OrderInv, Chosen
  <2>5. QED  BY <1>18, <2>3, <2>4 DEF ExclusiveDrop
<1>19. CASE ExclusiveLink
  <2>1. OrderInv'  BY <1>0, <1>19 DEF ExclusiveLink, OrderInv, Chosen
  <2>2. [fn |-> "link", r |-> order.target] \in Job
    BY <1>0, <1>19 DEF ExclusiveLink, OrderInv, Chosen, Job
  <2>3. CASE Accept([fn |-> "link", r |-> order.target])
    BY <1>0, <1>19, <2>1, <2>2, <2>3, AcceptTyped
       DEF ExclusiveLink, TypeInv, TypeOK, HoldsLinks, ClockInv, OrderInv, Chosen
  <2>4. CASE UNCHANGED <<asterisk, session, events, store, polls, browser, behind>>
    BY <1>0, <1>19, <2>1, <2>4
       DEF ExclusiveLink, TypeInv, TypeOK, HoldsLinks, ClockInv, OrderInv, Chosen
  <2>5. QED  BY <1>19, <2>3, <2>4 DEF ExclusiveLink
<1>20. CASE UNCHANGED vars
  BY <1>0, <1>20 DEF TypeInv, TypeOK, HoldsLinks, ClockInv, OrderInv
<1>21. QED
  BY <1>1, <1>2, <1>3, <1>4, <1>5, <1>6, <1>7, <1>8, <1>9, <1>10, <1>11, <1>12, <1>13,
     <1>14, <1>15, <1>16, <1>17, <1>18, <1>19, <1>20 DEF Next

(* TypeInv holds throughout, by induction on the steps.                    *)
THEOREM TypeInductive == Spec => []TypeInv
<1>1. Init => TypeInv  BY TypeInit
<1>2. TypeInv /\ [Next]_vars => TypeInv'  BY TypeStep
<1>3. QED  BY <1>1, <1>2, PTL DEF Spec

(* TypeOK: every variable has its type, and no channel holds more than it  *)
(* has room for (manager.go, broker.go).                                   *)
THEOREM TypeCorrect == Spec => []TypeOK
<1>1. TypeInv => TypeOK  BY DEF TypeInv
<1>2. QED  BY <1>1, TypeInductive, PTL

-----------------------------------------------------------------------------
(* Polls under way                                                         *)

(* A step that takes no poll into or out of its stages "answered" and      *)
(* "stored", and changes no more of what is remembered of them than the    *)
(* links that have just gone.                                              *)
Still ==
  /\ UNCHANGED <<snap, ahead, overtaken, cache, since, crossed>>
  /\ \A p \in Pollers : /\ pc'[p] = "answered" <=> pc[p] = "answered"
                        /\ pc'[p] = "stored" <=> pc[p] = "stored"
  /\ \/ UNCHANGED <<links, firstSeen, sees>>
     \/ Forget(links')
Quiet == UNCHANGED <<browser, behind>>

(* What a step may be for the polls and for the browser.                   *)
LEMMA Frame ==
  ASSUME TypeInv, [Next]_vars
  PROVE  \/ \E p \in Pollers : Answer(p) \/ Store(p) \/ Publish(p)
         \/ Still /\ (Quiet \/ Hear \/ Open \/ InitialBurst \/ Receive \/ Close)
<1> DEFINE G == \/ \E p \in Pollers : Answer(p) \/ Store(p) \/ Publish(p)
                \/ Still /\ (Quiet \/ Hear \/ Open \/ InitialBurst \/ Receive \/ Close)
<1> SUFFICES G  OBVIOUS
<1>0. pc \in [Pollers -> {"idle", "asked", "lost", "answered", "stored"}]
  BY DEF TypeInv, TypeOK
<1>1. ASSUME NEW l, Become(l) PROVE Still /\ Quiet
  BY <1>1 DEF Become, Forget, Still, Quiet
<1>2. ASSUME NEW r \in Remotes, Change(r) PROVE G
  BY <1>1, <1>2 DEF Change
<1>3. CASE Execute  BY <1>1, <1>3 DEF Execute
<1>4. CASE Dtmf \/ Hangup  BY <1>4 DEF Dtmf, Hangup, Still, Quiet
<1>5. CASE Login  BY <1>5 DEF Login, Still, Quiet
<1>6. CASE LoseSession  BY <1>0, <1>6 DEF LoseSession, Still, Quiet
<1>7. CASE Tick  BY <1>0, <1>7 DEF Tick, Ask, Still, Quiet
<1>8. CASE Hear  BY <1>0, <1>8 DEF Hear, Ask, Still
<1>9. ASSUME NEW p \in Pollers, GiveUp(p) PROVE G
  BY <1>0, <1>9 DEF GiveUp, Still, Quiet
<1>10. CASE Open \/ InitialBurst \/ Receive \/ Close
  BY <1>10 DEF Open, InitialBurst, Receive, Close, Still
<1>11. ASSUME NEW j \in Job, Command(j) PROVE G
  BY <1>11 DEF Command, Accept, Still, Quiet
<1>12. ASSUME NEW r \in Remotes, ExclusiveBegin(r) PROVE G
  BY <1>12 DEF ExclusiveBegin, Still, Quiet
<1>13. CASE ExclusiveDrop  BY <1>13 DEF ExclusiveDrop, Accept, Still, Quiet
<1>14. CASE ExclusiveLink  BY <1>14 DEF ExclusiveLink, Accept, Still, Quiet
<1>15. CASE UNCHANGED vars  BY <1>15 DEF Still, Quiet
<1> HIDE DEF G
<1>16. ASSUME NEW p \in Pollers, Answer(p) \/ Store(p) \/ Publish(p) PROVE G
  BY <1>16 DEF G
<1>17. QED
  BY <1>2, <1>3, <1>4, <1>5, <1>6, <1>7, <1>8, <1>9, <1>10, <1>11, <1>12, <1>13, <1>14,
     <1>15, <1>16 DEF Next

(* Of two polls under way one has its turn first; an overtaken one has yet *)
(* to publish, and none is before it any more.                             *)
TurnsInv ==
  /\ \A p \in Pollers :
       ahead[p] \subseteq Underway \ {p} /\ (p \notin Underway => ahead[p] = {})
  /\ \A p, q \in Underway : p # q => (p \in ahead[q] <=> q \notin ahead[p])
  /\ \A p \in overtaken : pc[p] = "stored" /\ ahead[p] = {}

(* The stages of the polls, by name.                                       *)
LEMMA Stages ==
  ASSUME TypeInv
  PROVE  /\ pc \in [Pollers -> {"idle", "asked", "lost", "answered", "stored"}]
         /\ ahead \in [Pollers -> SUBSET Pollers]
         /\ snap \in [Pollers -> Links \cup {NoData}]
         /\ sees \in [Pollers -> SUBSET Remotes]
         /\ overtaken \subseteq Pollers
BY DEF TypeInv, TypeOK

(* Every step keeps the turns.                                             *)
LEMMA TurnsStep == TypeInv /\ TurnsInv /\ [Next]_vars => TurnsInv'
<1> SUFFICES ASSUME TypeInv, TurnsInv, [Next]_vars PROVE TurnsInv'  OBVIOUS
<1>1. CASE Still
  <2>1. Underway' = Underway  BY <1>1 DEF Still, Underway
  <2>2. QED  BY <1>1, <2>1, Stages DEF Still, TurnsInv
<1>2. ASSUME NEW p \in Pollers, Answer(p) PROVE TurnsInv'
  <2>1. Underway' = Underway \cup {p} /\ p \notin Underway
    BY <1>2, Stages DEF Answer, Underway
  <2>2. /\ ahead' = [q \in Pollers |-> IF q = p THEN Underway ELSE ahead[q] \ {p}]
        /\ pc' = [pc EXCEPT ![p] = "answered"] /\ pc[p] = "asked" /\ overtaken' = overtaken
    BY <1>2 DEF Answer, Turn
  <2>3. Underway \subseteq Pollers  BY DEF Underway
  <2>4. \A x \in Pollers :
          ahead'[x] \subseteq Underway' \ {x} /\ (x \notin Underway' => ahead'[x] = {})
    BY <2>1, <2>2 DEF TurnsInv
  <2>5. \A x, y \in Underway' : x # y => (x \in ahead'[y] <=> y \notin ahead'[x])
    BY <2>1, <2>2, <2>3 DEF TurnsInv
  <2>6. \A x \in overtaken' : pc'[x] = "stored" /\ ahead'[x] = {}
    BY <2>2, Stages DEF TurnsInv
  <2>7. QED  BY <2>4, <2>5, <2>6 DEF TurnsInv
<1>3. ASSUME NEW p \in Pollers, Store(p) PROVE TurnsInv'
  <2> DEFINE others == IF SameLinks(snap[p]) THEN {} ELSE Underway \ {p}
  <2>1. /\ ahead' = [q \in Pollers |-> IF q = p THEN others ELSE ahead[q] \ {p}]
        /\ pc' = [pc EXCEPT ![p] = IF SameLinks(snap[p]) THEN "idle" ELSE "stored"]
        /\ pc[p] = "answered" /\ overtaken' = overtaken
    BY <1>3 DEF Store, Turn
  <2>2. /\ Underway' = IF SameLinks(snap[p]) THEN Underway \ {p} ELSE Underway
        /\ p \in Underway /\ Underway \subseteq Pollers
    BY <2>1, Stages DEF Underway
  <2>4. \A x \in Pollers :
          ahead'[x] \subseteq Underway' \ {x} /\ (x \notin Underway' => ahead'[x] = {})
    BY <2>1, <2>2 DEF TurnsInv
  <2>5. \A x, y \in Underway' : x # y => (x \in ahead'[y] <=> y \notin ahead'[x])
    BY <2>1, <2>2 DEF TurnsInv
  <2>6. \A x \in overtaken' : pc'[x] = "stored" /\ ahead'[x] = {}
    BY <2>1, Stages DEF TurnsInv
  <2>7. QED  BY <2>4, <2>5, <2>6 DEF TurnsInv
<1>4. ASSUME NEW p \in Pollers, Publish(p) PROVE TurnsInv'
  <2>1. /\ ahead' = [q \in Pollers |-> IF q = p THEN {} ELSE ahead[q] \ {p}]
        /\ pc' = [pc EXCEPT ![p] = "idle"] /\ pc[p] = "stored"
        /\ overtaken' = (overtaken \cup Before(p, "stored")) \ {p}
    BY <1>4 DEF Publish, Turn
  <2>2. Underway' = Underway \ {p} /\ p \in Underway /\ Underway \subseteq Pollers
    BY <2>1, Stages DEF Underway
  <2>3. \A x \in Pollers :
          ahead'[x] \subseteq Underway' \ {x} /\ (x \notin Underway' => ahead'[x] = {})
    BY <2>1, <2>2 DEF TurnsInv
  <2>4. \A x, y \in Underway' : x # y => (x \in ahead'[y] <=> y \notin ahead'[x])
    BY <2>1, <2>2 DEF TurnsInv
  <2>5. ASSUME NEW x \in overtaken' PROVE pc'[x] = "stored" /\ ahead'[x] = {}
    <3>1. CASE x \in overtaken  BY <2>1, <2>5, <3>1, Stages DEF TurnsInv
    <3>2. CASE x \in ahead[p] /\ pc[x] = "stored"
      <4>1. x \in Pollers /\ x # p /\ ahead[x] \subseteq Underway \ {x}
        BY <3>2, Stages DEF TurnsInv
      <4>2. ahead[x] \subseteq {p}  BY <2>2, <4>1 DEF Pollers
      <4>3. QED  BY <2>1, <3>2, <4>1, <4>2, Stages
    <3>3. QED  BY <2>1, <2>5, <3>1, <3>2 DEF Before
  <2>6. QED  BY <2>3, <2>4, <2>5 DEF TurnsInv
<1>5. QED  BY <1>1, <1>2, <1>3, <1>4, Frame

(* TurnsInv holds throughout.                                              *)
LEMMA TurnsInductive == Spec => []TurnsInv
<1>1. Init => TurnsInv  BY DEF Init, TurnsInv, Underway
<1>2. TypeInv /\ TurnsInv /\ [Next]_vars => TurnsInv'  BY TurnsStep
<1>3. QED  BY <1>1, <1>2, TypeInductive, PTL DEF Spec

-----------------------------------------------------------------------------
(* Connection times                                                        *)

(* An answer's links that have stayed up since are up, were in it, and are *)
(* in the answers that came after it.                                      *)
SeesInv ==
  /\ \A p \in Pollers : sees[p] \subseteq Up(links)
  /\ \A p \in Pollers : pc[p] = "answered" => sees[p] \subseteq Up(snap[p])
  /\ \A p \in Pollers : pc[p] # "answered" => sees[p] = {}
  /\ \A p, q \in Pollers : pc[p] = "answered" /\ q \in ahead[p] => sees[q] \subseteq sees[p]

(* A link with a first store has been up since, and is in every answer yet *)
(* to be stored, unless older answers are stored over newer ones.          *)
SeenInv ==
  \A r \in Remotes : firstSeen[r] # NoData =>
    /\ r \in Up(links) /\ cache # NoData
    /\ ~crossed => \A p \in Pollers : pc[p] = "answered" => r \in sees[p]
TimesInv == SeesInv /\ SeenInv /\ ConnectedAtKept

(* Links that go are forgotten everywhere.                                 *)
LEMMA TimesStill == TypeInv /\ TimesInv /\ Still => TimesInv'
<1> SUFFICES ASSUME TypeInv, TimesInv, Still PROVE TimesInv'  OBVIOUS
<1>1. CASE UNCHANGED <<links, firstSeen, sees>>
  BY <1>1 DEF TimesInv, SeesInv, SeenInv, ConnectedAtKept, Still
<1>2. CASE Forget(links')
  <2>1. /\ \A r \in Remotes : firstSeen'[r] = IF links'[r] = "off" THEN NoData ELSE firstSeen[r]
        /\ \A p \in Pollers : sees'[p] = sees[p] \cap Up(links')
    BY <1>2 DEF Forget
  <2>2. SeesInv'
    BY <2>1 DEF TimesInv, SeesInv, Still
  <2>3. SeenInv'
    BY <2>1 DEF TimesInv, SeenInv, Still, Up
  <2>4. ConnectedAtKept'
    BY <2>1 DEF TimesInv, ConnectedAtKept, Still
  <2>5. QED  BY <2>2, <2>3, <2>4 DEF TimesInv
<1>3. QED  BY <1>1, <1>2 DEF Still

(* An answer holds all the links there are.                                *)
LEMMA TimesAnswer ==
  ASSUME TypeInv, TurnsInv, TimesInv, NEW p \in Pollers, Answer(p)
  PROVE  TimesInv'
<1>1. /\ pc' = [pc EXCEPT ![p] = "answered"] /\ pc[p] = "asked"
      /\ snap' = [snap EXCEPT ![p] = links] /\ sees' = [sees EXCEPT ![p] = Up(links)]
      /\ ahead' = [q \in Pollers |-> IF q = p THEN Underway ELSE ahead[q] \ {p}]
      /\ UNCHANGED <<links, firstSeen, cache, since, crossed>>
  BY DEF Answer, Turn
<1>2. p \notin Underway /\ \A q \in Pollers : p \notin ahead[q]
  BY <1>1 DEF Underway, TurnsInv
<1>3. SeesInv'
  <2>1. \A x \in Pollers : sees'[x] \subseteq Up(links)'  BY <1>1, Stages DEF TimesInv, SeesInv, Up
  <2>2. \A x \in Pollers : pc'[x] = "answered" => sees'[x] \subseteq Up(snap'[x])
    BY <1>1, Stages DEF TimesInv, SeesInv
  <2>3. \A x \in Pollers : pc'[x] # "answered" => sees'[x] = {}
    BY <1>1, Stages DEF TimesInv, SeesInv
  <2>4. ASSUME NEW x \in Pollers, NEW y \in Pollers, pc'[x] = "answered", y \in ahead'[x]
        PROVE  sees'[y] \subseteq sees'[x]
    <3>1. CASE x = p  BY <1>1, <2>1, <3>1, Stages DEF Up
    <3>2. CASE x # p
      BY <1>1, <2>4, <3>2, Stages DEF TimesInv, SeesInv
    <3>3. QED  BY <3>1, <3>2
  <2>5. QED  BY <2>1, <2>2, <2>3, <2>4 DEF SeesInv
<1>4. SeenInv'  BY <1>1, Stages DEF TimesInv, SeenInv, Up
<1>5. ConnectedAtKept'  BY <1>1 DEF TimesInv, ConnectedAtKept
<1>6. QED  BY <1>3, <1>4, <1>5 DEF TimesInv

(* linksCache.set keeps the time of a link that was cached; a link that is *)
(* stored for the first time gets one that is no later than now.           *)
LEMMA TimesStore ==
  ASSUME TypeInv, TurnsInv, TimesInv, NEW p \in Pollers, Store(p)
  PROVE  TimesInv'
<1> DEFINE l == snap[p]
           others == IF SameLinks(l) THEN {} ELSE Underway \ {p}
<1>1. /\ pc[p] = "answered" /\ cache' = l /\ links' = links
      /\ since' = [r \in Remotes |-> IF r \in Up(l) THEN Stamp(r) ELSE 0]
      /\ firstSeen' = [r \in Remotes |->
           IF r \in sees[p] /\ firstSeen[r] = NoData THEN inputs ELSE firstSeen[r]]
      /\ crossed' = (crossed \/ Before(p, "answered") # {})
      /\ sees' = [sees EXCEPT ![p] = {}]
      /\ snap' = [snap EXCEPT ![p] = IF SameLinks(l) THEN NoData ELSE l]
      /\ pc' = [pc EXCEPT ![p] = IF SameLinks(l) THEN "idle" ELSE "stored"]
      /\ ahead' = [q \in Pollers |-> IF q = p THEN others ELSE ahead[q] \ {p}]
  BY DEF Store, Turn
<1>2. l \in Links /\ NoData \notin Links /\ inputs \in Nat /\ NoData \notin Nat
  BY <1>1, LinksAssumption DEF LinksAssumption, TypeInv, HoldsLinks, ClockInv
<1>3. sees[p] \subseteq Up(l) /\ sees[p] \subseteq Up(links)
  BY <1>1 DEF TimesInv, SeesInv
<1>4. \A x \in Pollers : pc'[x] = "answered" <=> x # p /\ pc[x] = "answered"
  BY <1>1, Stages
<1>5. SeesInv'
  <2>1. \A x \in Pollers : sees'[x] \subseteq Up(links)'
    BY <1>1, Stages DEF TimesInv, SeesInv, Up
  <2>2. \A x \in Pollers : pc'[x] = "answered" => sees'[x] \subseteq Up(snap'[x])
    BY <1>1, <1>4, Stages DEF TimesInv, SeesInv
  <2>3. \A x \in Pollers : pc'[x] # "answered" => sees'[x] = {}
    BY <1>1, <1>4, Stages DEF TimesInv, SeesInv
  <2>4. \A x, y \in Pollers : pc'[x] = "answered" /\ y \in ahead'[x] => sees'[y] \subseteq sees'[x]
    BY <1>1, <1>4, Stages DEF TimesInv, SeesInv
  <2>5. QED  BY <2>1, <2>2, <2>3, <2>4 DEF SeesInv
<1>6. ASSUME ~crossed' PROVE \A x \in Pollers : pc'[x] = "answered" => sees[p] \subseteq sees[x]
  <2>1. SUFFICES ASSUME NEW x \in Pollers, pc'[x] = "answered" PROVE sees[p] \subseteq sees[x]
    OBVIOUS
  <2>2. x # p /\ pc[x] = "answered" /\ x \notin ahead[p]
    BY <1>1, <1>4, <1>6, <2>1 DEF Before
  <2>3. p \in ahead[x]  BY <1>1, <2>2 DEF TurnsInv, Underway
  <2>4. QED  BY <2>2, <2>3 DEF TimesInv, SeesInv
<1>7. SeenInv'
  <2> SUFFICES ASSUME NEW r \in Remotes, firstSeen'[r] # NoData
      PROVE  /\ r \in Up(links)' /\ cache' # NoData
             /\ ~crossed' => \A x \in Pollers : pc'[x] = "answered" => r \in sees'[x]
    BY DEF SeenInv
  <2>1. cache' # NoData  BY <1>1, <1>2
  <2>2. CASE firstSeen[r] # NoData
    BY <1>1, <1>4, <2>1, <2>2, Stages DEF TimesInv, SeenInv, Up
  <2>3. CASE firstSeen[r] = NoData
    <3>1. r \in sees[p]  BY <1>1, <2>3
    <3>2. QED  BY <1>1, <1>3, <1>4, <1>6, <2>1, <3>1, Stages DEF Up
  <2>4. QED  BY <2>2, <2>3
<1>8. ConnectedAtKept'
  <2> SUFFICES ASSUME NEW r \in Remotes, ~crossed', firstSeen'[r] # NoData
      PROVE  r \in Up(cache') /\ since'[r] <= firstSeen'[r]
    BY DEF ConnectedAtKept
  <2>1. ~crossed  BY <1>1
  <2>2. r \in Up(l)
    <3>1. CASE firstSeen[r] # NoData
      BY <1>1, <1>3, <2>1, <3>1 DEF TimesInv, SeenInv
    <3>2. CASE firstSeen[r] = NoData  BY <1>1, <1>3, <3>2
    <3>3. QED  BY <3>1, <3>2
  <2>3. since'[r] = Stamp(r)  BY <1>1, <2>2
  <2>4. CASE firstSeen[r] # NoData
    <3>1. cache # NoData /\ r \in Up(cache) /\ since[r] <= firstSeen[r]
      BY <2>1, <2>4 DEF TimesInv, SeenInv, ConnectedAtKept
    <3>2. since'[r] = since[r] /\ firstSeen'[r] = firstSeen[r]
      BY <1>1, <2>3, <2>4, <3>1 DEF Stamp
    <3>3. QED  BY <1>1, <2>2, <3>1, <3>2
  <2>5. CASE firstSeen[r] = NoData
    <3>1. firstSeen'[r] = inputs  BY <1>1, <2>5
    <3>2. since[r] <= inputs  BY <1>2 DEF TypeInv, ClockInv
    <3>3. Stamp(r) <= inputs  BY <1>2, <3>2 DEF Stamp
    <3>4. QED  BY <1>1, <2>2, <2>3, <3>1, <3>3
  <2>6. QED  BY <2>4, <2>5
<1>9. QED  BY <1>5, <1>7, <1>8 DEF TimesInv

(* Publishing changes none of it.                                          *)
LEMMA TimesPublish ==
  ASSUME TypeInv, TimesInv, NEW p \in Pollers, Publish(p)
  PROVE  TimesInv'
<1>1. /\ pc[p] = "stored" /\ pc' = [pc EXCEPT ![p] = "idle"]
      /\ snap' = [snap EXCEPT ![p] = NoData]
      /\ ahead' = [q \in Pollers |-> IF q = p THEN {} ELSE ahead[q] \ {p}]
      /\ UNCHANGED <<links, firstSeen, sees, cache, since, crossed>>
  BY DEF Publish, Turn
<1>2. SeesInv'  BY <1>1, Stages DEF TimesInv, SeesInv
<1>3. SeenInv'  BY <1>1, Stages DEF TimesInv, SeenInv
<1>4. ConnectedAtKept'  BY <1>1 DEF TimesInv, ConnectedAtKept
<1>5. QED  BY <1>2, <1>3, <1>4 DEF TimesInv

(* ConnectedAtKept: ConnectedAt is when the link was first seen, however   *)
(* ticker and events interleave their polls, so long as no older answer is *)
(* stored over a newer one (links.go linksCache.set).                      *)
THEOREM ConnectedAtIsKept == Spec => []ConnectedAtKept
<1>1. Init => TimesInv  BY DEF Init, TimesInv, SeesInv, SeenInv, ConnectedAtKept
<1>2. TypeInv /\ TurnsInv /\ TimesInv /\ [Next]_vars => TimesInv'
  BY Frame, TimesStill, TimesAnswer, TimesStore, TimesPublish
<1>3. TimesInv => ConnectedAtKept  BY DEF TimesInv
<1>4. QED  BY <1>1, <1>2, <1>3, TypeInductive, TurnsInductive, PTL DEF Spec

-----------------------------------------------------------------------------
(* What the dashboard shows                                                *)

(* The newest of the polls that have yet to publish holds what is cached,  *)
(* unless a newer one has published already.                               *)
NewestHolds ==
  \A p \in Pollers :
    pc[p] = "stored" /\ p \notin overtaken
      /\ (\A q \in Pollers : pc[q] = "stored" => p \notin ahead[q])
    => snap[p] = cache

(* The last links on their way to the browser are what is cached, or there *)
(* are none and it shows what is cached.                                   *)
Last(s, m) ==
  \E i \in 1 .. Len(s) : s[i] = m /\ \A j \in i + 1 .. Len(s) : s[j] = Digit
NoLinks(s) == \A i \in 1 .. Len(s) : s[i] = Digit
Current == \/ Last(chan, cache)
           \/ NoLinks(chan) /\ (dash = "streaming" => shown = cache)

(* Nothing the browser has yet to be told is outstanding.                  *)
Told == /\ dash # "closed" /\ ~missed /\ ~behind
        /\ \A p \in Pollers : pc[p] = "stored" => p \in overtaken
ShownInv == NewestHolds /\ (Told => Current)

(* Messages at the end of a channel.                                       *)
LEMMA AppendLast ==
  ASSUME NEW s \in Seq(Links \cup {Digit}), NEW m \in Links \cup {Digit}
  PROVE  /\ Last(Append(s, m), m)
         /\ \A l : Last(s, l) => Last(Append(s, Digit), l)
         /\ NoLinks(s) => NoLinks(Append(s, Digit))
<1>1. Len(Append(s, m)) = Len(s) + 1 /\ Append(s, m)[Len(s) + 1] = m /\ Len(s) \in Nat
  OBVIOUS
<1>2. /\ Len(Append(s, Digit)) = Len(s) + 1 /\ Append(s, Digit)[Len(s) + 1] = Digit
      /\ \A i \in 1 .. Len(s) : Append(s, Digit)[i] = s[i]
  OBVIOUS
<1>3. Last(Append(s, m), m)  BY <1>1 DEF Last
<1>4. ASSUME NEW l, Last(s, l) PROVE Last(Append(s, Digit), l)
  <2>1. PICK i \in 1 .. Len(s) : s[i] = l /\ \A j \in i + 1 .. Len(s) : s[j] = Digit
    BY <1>4 DEF Last
  <2>2. i \in 1 .. Len(s) + 1 /\ Append(s, Digit)[i] = l  BY <1>1, <1>2, <2>1
  <2>3. \A j \in i + 1 .. Len(s) + 1 : Append(s, Digit)[j] = Digit
    BY <1>1, <1>2, <2>1
  <2>4. QED  BY <1>2, <2>2, <2>3 DEF Last
<1>5. NoLinks(s) => NoLinks(Append(s, Digit))  BY <1>1, <1>2 DEF NoLinks
<1>6. QED  BY <1>3, <1>4, <1>5

(* Messages at the start of one.                                           *)
LEMMA TailLast ==
  ASSUME NEW s \in Seq(Links \cup {Digit}), s # <<>>, NEW l, l # Digit
  PROVE  /\ Last(s, l) => Last(Tail(s), l) \/ (NoLinks(Tail(s)) /\ Head(s) = l)
         /\ NoLinks(s) => NoLinks(Tail(s)) /\ Head(s) = Digit
<1>1. /\ Len(s) \in Nat /\ Len(s) > 0 /\ Len(Tail(s)) = Len(s) - 1 /\ Head(s) = s[1]
      /\ \A i \in 1 .. Len(s) - 1 : Tail(s)[i] = s[i + 1]
  OBVIOUS
<1>2. ASSUME Last(s, l) PROVE Last(Tail(s), l) \/ (NoLinks(Tail(s)) /\ Head(s) = l)
  <2>1. PICK i \in 1 .. Len(s) : s[i] = l /\ \A j \in i + 1 .. Len(s) : s[j] = Digit
    BY <1>2 DEF Last
  <2>2. CASE i = 1
    <3>1. \A j \in 1 .. Len(s) - 1 : Tail(s)[j] = Digit  BY <1>1, <2>1, <2>2
    <3>2. QED  BY <1>1, <2>1, <2>2, <3>1 DEF NoLinks
  <2>3. CASE i # 1
    <3>1. i - 1 \in 1 .. Len(s) - 1 /\ Tail(s)[i - 1] = l  BY <1>1, <2>1, <2>3
    <3>2. \A j \in (i - 1) + 1 .. Len(s) - 1 : Tail(s)[j] = Digit  BY <1>1, <2>1, <2>3
    <3>3. QED  BY <1>1, <3>1, <3>2 DEF Last
  <2>4. QED  BY <2>2, <2>3
<1>3. ASSUME NoLinks(s) PROVE NoLinks(Tail(s)) /\ Head(s) = Digit
  BY <1>1, <1>3 DEF NoLinks
<1>4. QED  BY <1>2, <1>3

(* A step that leaves the polls alone; digits and the browser's own steps  *)
(* keep it current (stats.go handleSSE).                                   *)
LEMMA ShownStill ==
  ASSUME TypeInv, ShownInv, Still, Quiet \/ Hear \/ Open \/ InitialBurst \/ Receive \/ Close
  PROVE  ShownInv'
<1>0. /\ chan \in Seq(Links \cup {Digit}) /\ cache # Digit /\ cache' = cache
      /\ overtaken' = overtaken
      /\ \A p \in Pollers : pc'[p] = "stored" <=> pc[p] = "stored"
  BY LinksAssumption DEF LinksAssumption, TypeInv, TypeOK, Still
<1>1. NewestHolds'  BY <1>0 DEF ShownInv, NewestHolds, Still
<1>2. CASE Quiet
  <2>1. Told' => Told  BY <1>0, <1>2 DEF Told, Quiet
  <2>2. Current => Current'  BY <1>0, <1>2 DEF Current, Quiet
  <2>3. QED  BY <1>1, <2>1, <2>2 DEF ShownInv
<1>3. CASE Hear
  <2>1. (chan' = chan \/ chan' = Append(chan, Digit)) /\ UNCHANGED <<dash, shown, missed, behind>>
    BY <1>3 DEF Hear, Offer
  <2>2. Told' => Told  BY <1>0, <2>1 DEF Told
  <2>3. Current => Current'
    <3>1. CASE chan' = chan  BY <1>0, <2>1, <3>1 DEF Current
    <3>2. CASE chan' = Append(chan, Digit)
      BY <1>0, <2>1, <3>2, AppendLast DEF Current
    <3>3. QED  BY <2>1, <3>1, <3>2
  <2>4. QED  BY <1>1, <2>2, <2>3 DEF ShownInv
<1>4. CASE Open
  <2>1. chan' = <<>> /\ dash' = "subscribed"  BY <1>4 DEF Open
  <2>2. NoLinks(<<>>)  BY DEF NoLinks
  <2>3. QED  BY <1>1, <2>1, <2>2 DEF ShownInv, Current
<1>5. CASE InitialBurst
  <2>1. UNCHANGED <<chan, missed, behind>> /\ dash = "subscribed" /\ shown' = cache
    BY <1>5 DEF InitialBurst
  <2>2. Told' => Told  BY <1>0, <2>1 DEF Told
  <2>3. Current => Current'  BY <1>0, <2>1 DEF Current
  <2>4. QED  BY <1>1, <2>2, <2>3 DEF ShownInv
<1>6. CASE Receive
  <2>1. /\ chan # <<>> /\ chan' = Tail(chan) /\ dash = "streaming"
        /\ shown' = IF Head(chan) = Digit THEN shown ELSE Head(chan)
        /\ UNCHANGED <<dash, missed, behind>>
    BY <1>6 DEF Receive
  <2>2. Told' => Told  BY <1>0, <2>1 DEF Told
  <2>3. Current => Current'  BY <1>0, <2>1, TailLast DEF Current
  <2>4. QED  BY <1>1, <2>2, <2>3 DEF ShownInv
<1>7. CASE Close  BY <1>1, <1>7 DEF Close, ShownInv, Told
<1>8. QED  BY <1>2, <1>3, <1>4, <1>5, <1>6, <1>7

(* The first of two polls to publish overtakes the other; the newest to do *)
(* so tells the browser what is cached, or leaves missed or behind set.    *)
LEMMA ShownPublish ==
  ASSUME TypeInv, TurnsInv, ShownInv, NEW p \in Pollers, Publish(p)
  PROVE  ShownInv'
<1>1. /\ pc[p] = "stored" /\ pc' = [pc EXCEPT ![p] = "idle"]
      /\ ahead' = [q \in Pollers |-> IF q = p THEN {} ELSE ahead[q] \ {p}]
      /\ snap' = [snap EXCEPT ![p] = NoData]
      /\ overtaken' = (overtaken \cup Before(p, "stored")) \ {p}
      /\ behind' = (p \in overtaken) /\ Offer(snap[p]) /\ cache' = cache
  BY DEF Publish, Turn
<1>2. snap[p] \in Links /\ Digit \notin Links /\ chan \in Seq(Links \cup {Digit})
  BY <1>1, LinksAssumption DEF LinksAssumption, TypeInv, HoldsLinks, TypeOK
<1>3. \A q \in Pollers : pc'[q] = "stored" <=> q # p /\ pc[q] = "stored"  BY <1>1, Stages
<1>4. NewestHolds'
  <2> SUFFICES ASSUME NEW q \in Pollers, pc'[q] = "stored", q \notin overtaken'
      PROVE  snap'[q] = cache'
    BY DEF NewestHolds
  <2>1. q # p /\ pc[q] = "stored" /\ q \notin overtaken /\ q \notin ahead[p]
    BY <1>1, <1>3 DEF Before
  <2>2. \A x \in Pollers : x = q \/ x = p  BY <2>1 DEF Pollers
  <2>3. q \notin ahead[q]  BY DEF TurnsInv
  <2>4. snap[q] = cache  BY <2>1, <2>2, <2>3 DEF ShownInv, NewestHolds
  <2>5. QED  BY <1>1, <2>1, <2>4, Stages
<1>5. ASSUME Told' PROVE Current'
  <2>1. p \notin overtaken /\ dash' # "closed" /\ ~missed'
    BY <1>1, <1>5 DEF Told
  <2>2. ASSUME NEW q \in Pollers, pc[q] = "stored" PROVE p \notin ahead[q]
    <3>1. CASE q = p  BY <3>1 DEF TurnsInv
    <3>2. CASE q # p
      <4>1. q \in overtaken'  BY <1>3, <1>5, <2>2, <3>2 DEF Told
      <4>2. CASE q \in overtaken  BY <4>2 DEF TurnsInv
      <4>3. CASE q \in ahead[p]  BY <1>1, <2>2, <3>2, <4>3 DEF TurnsInv, Underway
      <4>4. QED  BY <1>1, <4>1, <4>2, <4>3 DEF Before
    <3>3. QED  BY <3>1, <3>2
  <2>3. snap[p] = cache  BY <1>1, <2>1, <2>2 DEF ShownInv, NewestHolds
  <2>4. chan' = Append(chan, snap[p])  BY <1>1, <1>2, <2>1 DEF Offer
  <2>5. Last(chan', snap[p])  BY <1>2, <2>4, AppendLast
  <2>6. QED  BY <1>1, <2>3, <2>5 DEF Current
<1>6. QED  BY <1>4, <1>5 DEF ShownInv

(* Every step keeps the invariant. A visible change that is stored is yet  *)
(* to be published; an answer that changes nothing leaves all as it was.   *)
LEMMA ShownStep == TypeInv /\ TurnsInv /\ ShownInv /\ [Next]_vars => ShownInv'
<1> SUFFICES ASSUME TypeInv, TurnsInv, ShownInv, [Next]_vars PROVE ShownInv'  OBVIOUS
<1>1. ASSUME NEW p \in Pollers, Answer(p) PROVE ShownInv'
  <2>1. /\ pc[p] = "asked" /\ pc' = [pc EXCEPT ![p] = "answered"]
        /\ snap' = [snap EXCEPT ![p] = links]
        /\ ahead' = [q \in Pollers |-> IF q = p THEN Underway ELSE ahead[q] \ {p}]
        /\ UNCHANGED <<cache, overtaken, browser, behind>>
    BY <1>1 DEF Answer, Turn
  <2>2. \A q \in Pollers : pc'[q] = "stored" <=> pc[q] = "stored"  BY <2>1, Stages
  <2>3. \A q \in Pollers : p \notin ahead[q]  BY <2>1 DEF TurnsInv, Underway
  <2>4. NewestHolds'  BY <2>1, <2>2, <2>3, Stages DEF ShownInv, NewestHolds
  <2>5. Told' => Told  BY <2>1, <2>2 DEF Told
  <2>6. Current => Current'  BY <2>1 DEF Current
  <2>7. QED  BY <2>4, <2>5, <2>6 DEF ShownInv
<1>2. ASSUME NEW p \in Pollers, Store(p) PROVE ShownInv'
  <2> DEFINE others == IF SameLinks(snap[p]) THEN {} ELSE Underway \ {p}
  <2>1. /\ pc[p] = "answered"
        /\ pc' = [pc EXCEPT ![p] = IF SameLinks(snap[p]) THEN "idle" ELSE "stored"]
        /\ snap' = [snap EXCEPT ![p] = IF SameLinks(snap[p]) THEN NoData ELSE snap[p]]
        /\ ahead' = [q \in Pollers |-> IF q = p THEN others ELSE ahead[q] \ {p}]
        /\ cache' = snap[p] /\ UNCHANGED <<overtaken, browser, behind>>
    BY <1>2 DEF Store, Turn
  <2>2. p \notin overtaken  BY <2>1 DEF TurnsInv
  <2>3. CASE SameLinks(snap[p])
    <3>1. cache' = cache  BY <2>1, <2>3 DEF SameLinks
    <3>2. \A q \in Pollers : pc'[q] = "stored" <=> pc[q] = "stored"  BY <2>1, <2>3, Stages
    <3>3. NewestHolds'
      <4> SUFFICES ASSUME NEW q \in Pollers, pc'[q] = "stored", q \notin overtaken',
                          \A x \in Pollers : pc'[x] = "stored" => q \notin ahead'[x]
          PROVE  snap'[q] = cache'
        BY DEF NewestHolds
      <4>1. q # p /\ pc[q] = "stored" /\ q \notin overtaken  BY <2>1, <3>2
      <4>2. \A x \in Pollers : pc[x] = "stored" => q \notin ahead[x]
        BY <2>1, <3>2, <4>1
      <4>3. QED  BY <2>1, <3>1, <4>1, <4>2, Stages DEF ShownInv, NewestHolds
    <3>4. Told' => Told  BY <2>1, <3>2 DEF Told
    <3>5. Current => Current'  BY <2>1, <3>1 DEF Current
    <3>6. QED  BY <3>3, <3>4, <3>5 DEF ShownInv
  <2>4. CASE ~SameLinks(snap[p])
    <3>1. pc'[p] = "stored" /\ ~Told'  BY <2>1, <2>2, <2>4, Stages DEF Told
    <3>2. \A q \in Pollers : q # p /\ pc'[q] = "stored" => q \in ahead'[p]
      BY <2>1, <2>4, Stages DEF Underway
    <3>3. snap'[p] = cache'  BY <2>1, <2>4, Stages
    <3>4. NewestHolds'  BY <3>1, <3>2, <3>3 DEF NewestHolds
    <3>5. QED  BY <3>1, <3>4 DEF ShownInv
  <2>5. QED  BY <2>3, <2>4
<1>3. ASSUME NEW p \in Pollers, Publish(p) PROVE ShownInv'  BY <1>3, ShownPublish
<1>4. QED  BY <1>1, <1>2, <1>3, Frame, ShownStill

(* ShownAgrees: a dashboard that has taken all its messages shows what is  *)
(* cached, unless the latest was refused by its channel or published after *)
(* a newer one (links.go publishes, stats.go subscribes before it reads).  *)
THEOREM ShownAgreesWithCache == Spec => []ShownAgrees
<1>1. Init => ShownInv  BY DEF Init, ShownInv, NewestHolds, Told
<1>2. TypeInv /\ TurnsInv /\ ShownInv /\ [Next]_vars => ShownInv'  BY ShownStep
<1>3. TypeInv /\ ShownInv => ShownAgrees
  <2>1. SUFFICES ASSUME TypeInv, ShownInv, dash = "streaming", chan = <<>>, ~missed, ~behind,
                        \A p \in Pollers : pc[p] # "stored"
        PROVE  shown = cache
    BY DEF ShownAgrees
  <2>2. Current  BY <2>1 DEF ShownInv, Told
  <2>3. ~Last(<<>>, cache)  BY DEF Last
  <2>4. QED  BY <2>1, <2>2, <2>3 DEF Current
<1>4. QED  BY <1>1, <1>2, <1>3, TypeInductive, TurnsInductive, PTL DEF Spec
=============================================================================
