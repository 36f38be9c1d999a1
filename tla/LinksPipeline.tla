--------------------------- MODULE LinksPipeline ---------------------------
(***************************************************************************)
(* How one node's links reach a dashboard: Asterisk, the AMI session and   *)
(* its event channel (internal/ami/manager.go), the two goroutines that    *)
(* poll the node and store and publish what it answers (links.go,          *)
(* events.go), a browser that streams it (stats.go handleSSE), and the     *)
(* handlers that send link commands back (stats.go, commands.go).          *)
(*                                                                         *)
(* A node that is disabled or removed has no session, so being polled is   *)
(* a matter of the session alone. What "rpt show variables" says is the    *)
(* value of links when Asterisk answers; other nodes' polls only delay.    *)
(***************************************************************************)
EXTENDS Naturals, Sequences, FiniteSets

CONSTANTS
  Remotes,     \* nodes that may be linked to this one
  NoData,      \* what a cache, a screen or a history holds before anything
  Digit,       \* the message that carries a DTMF digit
  EventCap,    \* room in the manager's subscriber channel (256 in the code)
  ChanCap,     \* room in the browser's channel (16 in the code)
  MaxInputs,   \* bound: links changed by the remote side, digits, hang-ups,
               \* sessions lost and requests of users, all together
  JobBound     \* bound: commands Asterisk has yet to carry out

VARIABLES
  links,       \* Asterisk: each remote's link
  jobs,        \* Asterisk: link commands it has accepted and not carried out
  session,     \* the AMI client is logged in to it
  events,      \* the listener's channel of AMI events
  cache,       \* linksCache: the links, or NoData before the first poll
  since,       \* linksCache: ConnectedAt of each cached link
  pc, snap,    \* each poll's progress and the answer it holds
  dash,        \* the browser: "closed", "subscribed", "streaming"
  chan,        \* its channel
  shown,       \* the links it displays
  order,       \* the exclusive connect: its progress and what it may claim
  inputs,      \* what has come from outside so far, which is the clock
  firstSeen,   \* history: when each link was first stored since it came up
  sees,        \* history: links in each answer that have stayed up since
  ahead,       \* history: polls under way that had their turn before each, by
               \* answer and, once stored, by store
  overtaken,   \* history: polls whose message a newer one has preceded
  crossed,     \* history: an older answer was stored over a newer one
  behind,      \* history: the latest message published was an overtaken one
  missed       \* history: the browser's channel refused the latest message

asterisk == <<links, jobs>>
browser  == <<dash, chan, shown, missed>>
polls    == <<pc, snap, sees, ahead, overtaken>>
store    == <<cache, since, firstSeen, crossed>>
vars == <<asterisk, session, events, store, polls, browser, order, inputs, behind>>

Pollers == {"poller", "listener"}
Modes   == {"idle", "keyed"}
Link    == {"off"} \cup Modes
Links   == [Remotes -> Link]
Up(l)   == {r \in Remotes : l[r] # "off"}
Job     == [fn : {"drop all"}] \cup [fn : {"link", "drop"}, r : Remotes]

ASSUME LinksAssumption ==
  /\ EventCap \in Nat \ {0} /\ ChanCap \in Nat \ {0}
  /\ MaxInputs \in Nat
  /\ JobBound \in Nat \ {0}
  /\ NoData \notin Nat /\ NoData # Digit
  /\ NoData \notin Links /\ Digit \notin Links

Init ==
  /\ links = [r \in Remotes |-> "off"] /\ jobs = <<>> /\ session = FALSE
  /\ events = <<>>
  /\ cache = NoData /\ since = [r \in Remotes |-> 0]
  /\ pc = [p \in Pollers |-> "idle"]
  /\ snap = [p \in Pollers |-> NoData]
  /\ dash = "closed" /\ chan = <<>> /\ shown = NoData
  /\ order = [pc |-> "idle"]
  /\ inputs = 0
  /\ firstSeen = [r \in Remotes |-> NoData]
  /\ sees = [p \in Pollers |-> {}]
  /\ ahead = [p \in Pollers |-> {}] /\ overtaken = {}
  /\ crossed = FALSE /\ behind = FALSE /\ missed = FALSE

-----------------------------------------------------------------------------
(* Faulty variants of definitions below; none is part of the specification. *)

(* Mistake: every poll stamps ConnectedAt anew. *)
StampNow(r) == inputs

(* Mistake: link maps are compared by the nodes in them only. *)
SameNodes(l) == cache # NoData /\ Up(l) = Up(cache)

(* Mistake: nobody is polled for while no dashboard is open. *)
MayAskWatched == session /\ dash # "closed"

(* Mistake: the channel takes one message more than it has room for. *)
HasRoomOneMore == Len(chan) <= ChanCap

-----------------------------------------------------------------------------
(* Asterisk, and the events it sends. *)

(* Manager.publish: an event for a full subscriber channel is dropped. *)
Heard(kind) ==
  IF session /\ Len(events) < EventCap THEN Append(events, kind) ELSE events

(* What the histories remember of links that have just changed to l. *)
Forget(l) ==
  /\ firstSeen' = [r \in Remotes |-> IF l[r] = "off" THEN NoData ELSE firstSeen[r]]
  /\ sees' = [p \in Pollers |-> sees[p] \cap Up(l)]
  /\ UNCHANGED <<cache, since, crossed, pc, snap, ahead, overtaken>>

(* The links become l; only a connect or disconnect raises an event. *)
Become(l) ==
  /\ links' = l
  /\ events' = IF Up(l) = Up(links) THEN events ELSE Heard("link")
  /\ Forget(l)
  /\ UNCHANGED <<session, browser, behind>>

Input == inputs < MaxInputs /\ inputs' = inputs + 1

(* A remote node connects, keys up, unkeys or disconnects. *)
Change(r) ==
  \E m \in Link \ {links[r]} :
    /\ Input
    /\ Become([links EXCEPT ![r] = m])
    /\ order' = IF order.pc = "idle" THEN order
                ELSE [order EXCEPT !.clean = @ /\ links[r] # "off"]
    /\ UNCHANGED jobs

(* A command is carried out some time after it was accepted. *)
Execute ==
  /\ jobs # <<>>
  /\ jobs' = Tail(jobs)
  /\ LET j == Head(jobs)
     IN Become([r \in Remotes |->
          CASE j.fn = "drop all" -> "off"
            [] j.fn = "drop" /\ j.r = r -> "off"
            [] j.fn = "link" /\ j.r = r /\ links[r] = "off" -> "idle"
            [] OTHER -> links[r]])
  /\ UNCHANGED <<order, inputs>>

Dtmf ==
  /\ session /\ Input
  /\ events' = Heard("digit")
  /\ UNCHANGED <<asterisk, session, store, polls, browser, order, behind>>

(* A channel hangs up that was no link: it is polled for like one. *)
Hangup ==
  /\ session /\ Input
  /\ events' = Heard("link")
  /\ UNCHANGED <<asterisk, session, store, polls, browser, order, behind>>

(* FullyBooted announces a session. *)
Login ==
  /\ ~session /\ session' = TRUE
  /\ events' = IF Len(events) < EventCap THEN Append(events, "link") ELSE events
  /\ UNCHANGED <<asterisk, store, polls, browser, order, inputs, behind>>

(* With the session go the answers that were still to come. *)
LoseSession ==
  /\ session /\ session' = FALSE /\ Input
  /\ pc' = [p \in Pollers |-> IF pc[p] = "asked" THEN "lost" ELSE pc[p]]
  /\ UNCHANGED <<asterisk, events, store, snap, sees, ahead, overtaken, browser,
                 order, behind>>

-----------------------------------------------------------------------------
(* The two pollers. *)

(* pollLinks and pollNodeLinks: a node without a session is passed over. *)
MayAsk == session

Ask(p) ==
  /\ pc[p] = "idle" /\ MayAsk
  /\ pc' = [pc EXCEPT ![p] = "asked"]
  /\ UNCHANGED <<snap, sees, ahead, overtaken>>

(* The poller's ticker fires. *)
Tick ==
  /\ Ask("poller")
  /\ UNCHANGED <<asterisk, session, events, store, browser, order, inputs,
                 behind>>

HasRoom == Len(chan) < ChanCap

(* Publish to the browser: a full channel drops the message. *)
Offer(m) ==
  /\ chan' = IF dash # "closed" /\ HasRoom THEN Append(chan, m) ELSE chan
  /\ missed' = IF m = Digit THEN missed ELSE dash # "closed" /\ ~HasRoom
  /\ UNCHANGED <<dash, shown>>

(* handleAMIEvent: the listener takes one event at a time. *)
Hear ==
  /\ pc["listener"] = "idle" /\ events # <<>>
  /\ events' = Tail(events)
  /\ IF Head(events) = "digit" THEN Offer(Digit) /\ UNCHANGED polls
     ELSE /\ UNCHANGED browser
          /\ IF MayAsk THEN Ask("listener") ELSE UNCHANGED polls
  /\ UNCHANGED <<asterisk, session, store, order, inputs, behind>>

(* Whose turn is first: p ends its turn, and if others are given, is after *)
(* them from now on.                                                       *)
Underway == {q \in Pollers : pc[q] \in {"answered", "stored"}}
Turn(p, others) ==
  ahead' = [q \in Pollers |-> IF q = p THEN others ELSE ahead[q] \ {p}]

(* The answer is one to the command, so it lists the links; parseRPTALinks *)
(* would take any other answer for one without links.                      *)
Answer(p) ==
  /\ pc[p] = "asked" /\ session
  /\ pc' = [pc EXCEPT ![p] = "answered"]
  /\ snap' = [snap EXCEPT ![p] = links]
  /\ sees' = [sees EXCEPT ![p] = Up(links)]
  /\ Turn(p, Underway)
  /\ UNCHANGED <<asterisk, session, events, store, overtaken, browser, order, inputs, behind>>

(* Five seconds without an answer; one that comes later finds no caller. *)
GiveUp(p) ==
  /\ pc[p] \in {"asked", "lost"}
  /\ pc' = [pc EXCEPT ![p] = "idle"]
  /\ UNCHANGED <<asterisk, session, events, store, snap, sees, ahead, overtaken,
                 browser, order, inputs, behind>>

(* The polls at stage s whose turn was before p's. *)
Before(p, s) ==
  {q \in ahead[p] : pc[q] = s}

(* ConnectedAt of a link that was cached already is kept. *)
Stamp(r) == IF cache # NoData /\ r \in Up(cache) THEN since[r] ELSE inputs

(* eqLinkMaps, which leaves ConnectedAt out; the first store is a change. *)
SameLinks(l) == cache = l

(* linksCache.set: nothing more is done when nothing visible changed. *)
Store(p) ==
  LET l == snap[p]
  IN /\ pc[p] = "answered"
     /\ cache' = l
     /\ since' = [r \in Remotes |-> IF r \in Up(l) THEN Stamp(r) ELSE 0]
     /\ firstSeen' = [r \in Remotes |->
          IF r \in sees[p] /\ firstSeen[r] = NoData THEN inputs ELSE firstSeen[r]]
     /\ crossed' = (crossed \/ Before(p, "answered") # {})
     /\ sees' = [sees EXCEPT ![p] = {}]
     /\ snap' = [snap EXCEPT ![p] = IF SameLinks(l) THEN NoData ELSE l]
     /\ pc' = [pc EXCEPT ![p] = IF SameLinks(l) THEN "idle" ELSE "stored"]
     /\ Turn(p, IF SameLinks(l) THEN {} ELSE Underway \ {p})
     /\ UNCHANGED <<asterisk, session, events, overtaken, browser, order,
                    inputs, behind>>

Publish(p) ==
  /\ pc[p] = "stored"
  /\ pc' = [pc EXCEPT ![p] = "idle"]
  /\ Turn(p, {})
  /\ snap' = [snap EXCEPT ![p] = NoData]
  /\ overtaken' = (overtaken \cup Before(p, "stored")) \ {p}
  /\ behind' = (p \in overtaken)
  /\ Offer(snap[p])
  /\ UNCHANGED <<asterisk, session, events, store, sees, order, inputs>>

-----------------------------------------------------------------------------
(* handleSSE: subscribe, then send what is cached, then stream. *)

Open ==
  /\ dash = "closed" /\ dash' = "subscribed"
  /\ chan' = <<>> /\ shown' = NoData /\ missed' = FALSE /\ behind' = FALSE
  /\ UNCHANGED <<asterisk, session, events, store, polls, order, inputs>>

InitialBurst ==
  /\ dash = "subscribed" /\ dash' = "streaming"
  /\ shown' = cache
  /\ UNCHANGED <<asterisk, session, events, store, polls, chan, missed, order, inputs, behind>>

Receive ==
  /\ dash = "streaming" /\ chan # <<>>
  /\ chan' = Tail(chan)
  /\ shown' = IF Head(chan) = Digit THEN shown ELSE Head(chan)
  /\ UNCHANGED <<asterisk, session, events, store, polls, dash, missed, order, inputs, behind>>

Close ==
  /\ dash # "closed" /\ dash' = "closed"
  /\ chan' = <<>> /\ shown' = NoData /\ missed' = FALSE
  /\ UNCHANGED <<asterisk, session, events, store, polls, order, inputs,
                 behind>>

-----------------------------------------------------------------------------
(* Link commands. A handler waits for the reply, which changes nothing it  *)
(* has not already done; one whose command was not accepted reports that.  *)

Accept(j) ==
  /\ session /\ Len(jobs) < JobBound
  /\ jobs' = Append(jobs, j)
  /\ UNCHANGED <<links, session, events, store, polls, browser, behind>>

(* handleConnect without "exclusive", handleDisconnect, handleAPIRunCommand. *)
Command(j) ==
  /\ Input /\ Accept(j)
  /\ order' = IF order.pc = "idle" THEN order ELSE [order EXCEPT !.clean = FALSE]

(* An exclusive connect looks at the cached links: others are disconnected *)
(* only when there are some. clean says that nobody else interfered.       *)
CachedOthers == cache # NoData /\ Up(cache) # {}

ExclusiveBegin(r) ==
  /\ order.pc = "idle" /\ Input
  /\ order' = [pc |-> IF CachedOthers THEN "drop" ELSE "link", target |-> r,
               clean |-> jobs = <<>>]
  /\ UNCHANGED <<asterisk, session, events, store, polls, browser, behind>>

(* A failed disconnect is logged, and the connect is sent all the same. *)
ExclusiveDrop ==
  /\ order.pc = "drop"
  /\ \/ /\ Accept([fn |-> "drop all"])
        /\ order' = [order EXCEPT !.pc = "link"]
     \/ /\ order' = [order EXCEPT !.pc = "link", !.clean = FALSE]
        /\ UNCHANGED <<asterisk, session, events, store, polls, browser, behind>>
  /\ UNCHANGED inputs

ExclusiveLink ==
  /\ order.pc = "link"
  /\ \/ /\ Accept([fn |-> "link", r |-> order.target])
        /\ order' = [order EXCEPT !.pc = "done"]
     \/ /\ order' = [order EXCEPT !.pc = "done", !.clean = FALSE]
        /\ UNCHANGED <<asterisk, session, events, store, polls, browser, behind>>
  /\ UNCHANGED inputs

-----------------------------------------------------------------------------
Next ==
  \/ \E r \in Remotes : Change(r)
  \/ Execute
  \/ Dtmf
  \/ Hangup
  \/ Login
  \/ LoseSession
  \/ Tick
  \/ Hear
  \/ \E p \in Pollers : Answer(p) \/ GiveUp(p) \/ Store(p) \/ Publish(p)
  \/ Open \/ InitialBurst \/ Receive \/ Close
  \/ \E j \in Job : Command(j)
  \/ \E r \in Remotes : ExclusiveBegin(r)
  \/ ExclusiveDrop
  \/ ExclusiveLink

(* The ticker and the goroutines are always scheduled, the client logs in  *)
(* again, and a live Asterisk does not leave every poll unanswered.        *)
Fairness ==
  /\ WF_vars(Tick) /\ WF_vars(Hear) /\ WF_vars(Login) /\ WF_vars(Execute)
  /\ SF_vars(Answer("poller"))
  /\ \A p \in Pollers : WF_vars(GiveUp(p)) /\ WF_vars(Store(p)) /\ WF_vars(Publish(p))
  /\ WF_vars(InitialBurst) /\ WF_vars(Receive)

Spec == Init /\ [][Next]_vars
FairSpec == Spec /\ Fairness

-----------------------------------------------------------------------------
(* Every variable has its type, and channels hold no more than their room. *)
TypeOK ==
  /\ links \in Links /\ cache \in Links \cup {NoData}
  /\ jobs \in Seq(Job) /\ Len(jobs) <= JobBound
  /\ session \in BOOLEAN
  /\ events \in Seq({"link", "digit"}) /\ Len(events) <= EventCap
  /\ since \in [Remotes -> 0 .. MaxInputs]
  /\ pc \in [Pollers -> {"idle", "asked", "lost", "answered", "stored"}]
  /\ snap \in [Pollers -> Links \cup {NoData}]
  /\ sees \in [Pollers -> SUBSET Remotes]
  /\ dash \in {"closed", "subscribed", "streaming"}
  /\ chan \in Seq(Links \cup {Digit}) /\ Len(chan) <= ChanCap
  /\ shown \in Links \cup {NoData}
  /\ order.pc \in {"idle", "drop", "link", "done"}
  /\ ahead \in [Pollers -> SUBSET Pollers] /\ overtaken \subseteq Pollers

(* Once a dashboard has caught up with its channel it shows what is cached *)
(* (links.go publishes every visible change, stats.go subscribes before it *)
(* reads the cache), unless the latest message was refused by a full       *)
(* channel or was published after a newer one: those two are not repaired  *)
(* before the links change again.                                          *)
ShownAgrees ==
  /\ dash = "streaming" /\ chan = <<>> /\ ~missed /\ ~behind
  /\ \A p \in Pollers : pc[p] # "stored"
  => shown = cache

(* ConnectedAt is "when the link was first seen" (links.go): a link that   *)
(* has stayed up since a poll first stored it keeps that time, so long as  *)
(* no older answer was stored over a newer one.                            *)
ConnectedAtKept ==
  \A r \in Remotes :
    ~crossed /\ firstSeen[r] # NoData => r \in Up(cache) /\ since[r] <= firstSeen[r]

(* Whatever was lost, delayed or stored out of order: once the session     *)
(* stays up and the links change no more (the bound sees to that), polling *)
(* brings the cache to the links and keeps it there.                       *)
CacheConverges == <>[]session => <>[](cache = links)

(* "exclusive": disconnect all others first (stats.go handleConnect): when *)
(* such a connect has been carried out and nothing else touched the links, *)
(* the node is linked to its target only.                                  *)
ExclusiveAlone ==
  order.pc = "done" /\ order.clean /\ jobs = <<>> => Up(links) \subseteq {order.target}
=============================================================================
