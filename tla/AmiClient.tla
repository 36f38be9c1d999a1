----------------------------- MODULE AmiClient -----------------------------
(***************************************************************************)
(* The persistent AMI connection of internal/ami/client.go: one goroutine  *)
(* runs reconnectLoop (dial, banner, Login, readLoop, cleanup, backoff),   *)
(* any number of goroutines call SendActionWait and SendAction, and the    *)
(* manager may Stop the client or cancel its context at any moment.        *)
(*                                                                         *)
(* Asterisk and the TCP connection are the environment: the peer greets,   *)
(* answers or refuses what it is sent, reports events, and may close or    *)
(* reset the connection at any time.                                       *)
(***************************************************************************)
EXTENDS Naturals, Sequences

CONSTANTS
  Callers,     \* goroutines that send actions
  MaxCalls,    \* bound: actions sent over the whole run
  MaxDials,    \* bound: dials that succeed over the whole run
  NetCap,      \* bound: unread blocks while the peer still reports events
  EventCap,    \* capacity of the events channel (128 in the code)
  BackoffCap   \* backoff doubles while it is below this (60 in the code)

ASSUME ClientAssumption ==
  /\ MaxCalls \in Nat
  /\ MaxDials \in Nat
  /\ NetCap \in Nat
  /\ EventCap \in Nat \ {0}
  /\ BackoffCap \in Nat \ {0}

VARIABLES
  quit,        \* the quit channel has been closed
  ctxDone,     \* the manager's context has been cancelled
  stopPc,      \* progress of Stop: "none", "closing", "stopped"
  loop,        \* where the reconnect goroutine is
  ret,         \* what connect is about to return: "nil" or "err"
  backoff,     \* the next retry delay, in seconds
  block,       \* the message block readLoop holds
  conn,        \* Client.conn: 0 for nil, else the number of the dial
  connected,   \* Client.connected
  pending,     \* ActionIDs with a registered response channel
  events,      \* number of blocks waiting in the events channel
  pc,          \* where each caller is
  call,        \* ActionID of each caller's current action
  via,         \* connection each caller took from Client.conn
  box,         \* what each caller's response channel holds
  out,         \* how each caller's current call has concluded
  calls,       \* actions sent so far; the clock that stamps ActionIDs
  dials,       \* connections opened so far; only the last can be open
  lopen,       \* our end of the last connection is open
  ropen,       \* the peer's end of it is open
  greeted,     \* the peer has sent its banner on it
  authed,      \* the peer has accepted a Login on it
  said,        \* history: the peer's verdict on each caller's current action
  toPeer,      \* blocks on their way to the peer
  toClient     \* blocks on their way to, or buffered in, readLoop

stopVars   == <<quit, ctxDone, stopPc>>
loopVars   == <<loop, ret, backoff, block>>
sharedVars == <<conn, connected, pending, events>>
callVars   == <<pc, call, via, box, out, calls>>
peerVars   == <<ropen, greeted, authed, said>>
sockVars   == <<dials, lopen, toPeer, toClient>>

vars == <<stopVars, loopVars, sharedVars, callVars, peerVars, sockVars>>

NoId    == 0            \* no ActionID, or one of no call ("auth-1" of Login)
CallId  == 1 .. MaxCalls
Verdict == {"ok", "err"}
Action  == [id : CallId \cup {NoId}, kind : {"login", "action"}]
Block   == [id : {NoId}, kind : {"banner", "authok", "event"}]
           \cup [id : CallId \cup {NoId}, kind : Verdict]

Reading  == {"read", "recv", "block", "deliver", "publish"}   \* inside readLoop
LoopPc   == {"top", "dial", "opened", "banner", "login", "drop", "close", "clear",
             "failed", "sleep", "exited"} \cup Reading
CallerPc == {"idle", "registered", "waiting", "done", "sending"}

InFlight(c) == pc[c] \in {"registered", "waiting", "done"}

Init ==
  /\ quit = FALSE /\ ctxDone = FALSE /\ stopPc = "none"
  /\ loop = "top" /\ ret = "nil" /\ backoff = 1
  /\ block = [id |-> NoId, kind |-> "event"]
  /\ conn = 0 /\ connected = FALSE /\ pending = {} /\ events = 0
  /\ pc = [c \in Callers |-> "idle"]
  /\ call = [c \in Callers |-> NoId]
  /\ via = [c \in Callers |-> 0]
  /\ box = [c \in Callers |-> "none"]
  /\ out = [c \in Callers |-> "none"]
  /\ said = [c \in Callers |-> "none"]
  /\ calls = 0 /\ dials = 0
  /\ lopen = FALSE /\ ropen = FALSE /\ greeted = FALSE /\ authed = FALSE
  /\ toPeer = <<>> /\ toClient = <<>>

-----------------------------------------------------------------------------
(* Faulty variants of definitions below. None is part of the specification:*)
(* each is a plausible mistake in the code that one property must notice.  *)

(* Mistake: the checks look at the context only, not at quit. *)
HaltedByCtx == ctxDone

(* Mistake: the capacity test of the events channel is off by one. *)
PushOverfull(n) == IF n <= EventCap THEN n + 1 ELSE n

(* Mistake: the send to the events channel waits for room. *)
PublishBlocking ==
  /\ loop = "publish" /\ loop' = "read"
  /\ events < EventCap /\ events' = events + 1
  /\ UNCHANGED <<stopVars, callVars, peerVars, sockVars, ret, backoff, block,
                 conn, connected, pending>>

(* Mistake: answers are routed only once the session is authenticated. *)
HasWaiterOnline(id) == id \in pending /\ connected

(* Mistake: an answer goes to every waiting call. *)
OwnsAny(c, id) == InFlight(c)

(* Mistake: the cleanup forgets to reset Client.connected. *)
LoopDropFlagKept ==
  /\ loop = "drop" /\ loop' = "close"
  /\ UNCHANGED <<stopVars, callVars, peerVars, sockVars, sharedVars, ret, backoff, block>>

(* Mistake: an error that meets the longest delay ends the loop. *)
LoopFailedGivesUp ==
  /\ loop = "failed"
  /\ loop' = IF quit \/ ctxDone \/ backoff >= BackoffCap THEN "exited" ELSE "sleep"
  /\ UNCHANGED <<stopVars, callVars, peerVars, sockVars, sharedVars, ret, backoff, block>>

(* Mistake: the deferred delete is skipped when the call failed. *)
UnregisterAnswered(c) == pending' = IF out[c] = "fail" THEN pending ELSE pending \ {call[c]}

(* Mistake: a waiting call gives up only when its connection closes. *)
MayTimeOutOffline(c) == pc[c] = "waiting" /\ ~lopen

(* Mistake: Stop closes quit but not the connection. *)
StopClosesNothing == lopen' = lopen

-----------------------------------------------------------------------------
(* reconnectLoop and connect. *)

Halted == quit \/ ctxDone

(* The goroutine moves on and changes nothing else. *)
Goto(to) ==
  /\ loop' = to
  /\ UNCHANGED <<stopVars, callVars, peerVars, sockVars, sharedVars, ret, backoff, block>>

(* connect is going to return r: its deferred cleanup begins. *)
Leave(r) ==
  /\ loop' = "drop" /\ ret' = r
  /\ UNCHANGED <<stopVars, callVars, peerVars, sockVars, sharedVars, backoff, block>>

LoopTop == loop = "top" /\ Goto(IF Halted THEN "exited" ELSE "dial")

(* The dial succeeds; Client.conn is not set yet, so Stop cannot see it. *)
DialOk ==
  /\ loop = "dial" /\ loop' = "opened"
  /\ dials < MaxDials /\ dials' = dials + 1
  /\ lopen' = TRUE /\ ropen' = TRUE
  /\ UNCHANGED <<stopVars, callVars, sharedVars, greeted, authed, said, toPeer, toClient,
                 ret, backoff, block>>

(* The dial fails, times out, or is cut short by the context. *)
DialFail == loop = "dial" /\ Goto("failed")

(* connect publishes the new connection under the lock. *)
LoopSetConn ==
  /\ loop = "opened" /\ loop' = "banner"
  /\ conn' = dials
  /\ UNCHANGED <<stopVars, callVars, peerVars, sockVars, ret, backoff, block,
                 connected, pending, events>>

(* The banner line arrives; quit is not consulted here. *)
LoopBanner ==
  /\ loop = "banner" /\ loop' = "login"
  /\ toClient # <<>> /\ toClient' = Tail(toClient)
  /\ UNCHANGED <<stopVars, callVars, peerVars, sharedVars, dials, lopen, toPeer,
                 ret, backoff, block>>

(* Send Login and enter readLoop. A write the peer never reads may succeed. *)
LoopLogin ==
  /\ loop = "login" /\ loop' = "read"
  /\ lopen
  /\ toPeer' = Append(toPeer, [id |-> NoId, kind |-> "login"])
  /\ UNCHANGED <<stopVars, callVars, peerVars, sharedVars, dials, lopen, toClient,
                 ret, backoff, block>>

(* Reading the banner or a line, or writing Login, fails: Stop closed our  *)
(* end, or the peer is gone and nothing is left to read.                   *)
SessionError ==
  /\ \/ loop \in {"banner", "recv"} /\ (~lopen \/ (~ropen /\ toClient = <<>>))
     \/ loop = "login" /\ (~lopen \/ ~ropen)
  /\ Leave("err")

-----------------------------------------------------------------------------
(* readLoop. *)

LoopReadOn == loop = "read" /\ ~Halted /\ Goto("recv")

(* The check before every line. LoopRecv reads a block whole, so the check *)
(* between two of its lines shows only when the client has been halted.    *)
LoopQuit ==
  /\ Halted
  /\ loop = "read" \/ (loop = "recv" /\ toClient # <<>>)
  /\ Leave("nil")

(* The last line of a block has been read, from the socket or the buffer. *)
LoopRecv ==
  /\ loop = "recv" /\ loop' = "block"
  /\ toClient # <<>> /\ toClient' = Tail(toClient)
  /\ block' = Head(toClient)
  /\ UNCHANGED <<stopVars, callVars, peerVars, sharedVars, dials, lopen, toPeer, ret, backoff>>

(* pending[id], looked up under the lock. *)
HasWaiter(id) == id \in pending

(* A caller waits for this ActionID: the channel is kept, the lock is not. *)
LoopLookup ==
  /\ loop = "block"
  /\ block.id # NoId /\ HasWaiter(block.id)
  /\ Goto("deliver")

(* Nobody waits for it. A Login verdict is handled here, and any other     *)
(* "Response: Error" is taken for one.                                     *)
LoopInline ==
  /\ loop = "block"
  /\ ~(block.id # NoId /\ HasWaiter(block.id))
  /\ IF block.kind = "err"
     THEN Leave("err")
     ELSE /\ loop' = "publish"
          /\ connected' = (connected \/ block.kind = "authok")
          /\ UNCHANGED <<stopVars, callVars, peerVars, sockVars, conn, pending, events,
                         ret, backoff, block>>

Owns(c, id) == call[c] = id

(* The non-blocking send to the channel LoopLookup found. By now its call  *)
(* may have returned, and taken the channel with it.                       *)
Deliver ==
  /\ loop = "deliver" /\ loop' = "read"
  /\ box' = [c \in Callers |-> IF Owns(c, block.id) /\ box[c] = "none"
                               THEN block.kind ELSE box[c]]
  /\ UNCHANGED <<stopVars, peerVars, sockVars, sharedVars, ret, backoff, block,
                 pc, call, via, out, calls>>

(* A non-blocking send to the events channel: dropped when it is full. *)
Push(n) == IF n < EventCap THEN n + 1 ELSE n

Publish ==
  /\ loop = "publish" /\ loop' = "read"
  /\ events' = Push(events)
  /\ UNCHANGED <<stopVars, callVars, peerVars, sockVars, ret, backoff, block,
                 conn, connected, pending>>

-----------------------------------------------------------------------------
(* connect's deferred cleanup, then the retry. *)

LoopDrop ==
  /\ loop = "drop" /\ loop' = "close"
  /\ connected' = FALSE
  /\ UNCHANGED <<stopVars, callVars, peerVars, sockVars, ret, backoff, block,
                 conn, pending, events>>

(* conn.Close: nothing on this connection is read again by either side. *)
LoopClose ==
  /\ loop = "close" /\ loop' = "clear"
  /\ lopen' = FALSE /\ ropen' = FALSE /\ greeted' = FALSE /\ authed' = FALSE
  /\ toPeer' = <<>> /\ toClient' = <<>>
  /\ UNCHANGED <<stopVars, callVars, sharedVars, dials, said, ret, backoff, block>>

(* Clear Client.conn under the lock and return: nil goes straight back to  *)
(* the top with the backoff reset, an error goes through the retry delay.  *)
LoopClear ==
  /\ loop = "clear"
  /\ conn' = IF conn = dials THEN 0 ELSE conn
  /\ ret' = "nil"
  /\ IF ret = "nil"
     THEN loop' = "top" /\ backoff' = 1
     ELSE loop' = "failed" /\ UNCHANGED backoff
  /\ UNCHANGED <<stopVars, callVars, peerVars, sockVars, block, connected, pending, events>>

LoopFailed == loop = "failed" /\ Goto(IF Halted THEN "exited" ELSE "sleep")

LoopSleepInterrupted == loop = "sleep" /\ Halted /\ Goto("exited")

(* The timer fires: the next delay is twice this one, until the cap. *)
LoopWake ==
  /\ loop = "sleep" /\ loop' = "top"
  /\ backoff' = IF backoff < BackoffCap THEN 2 * backoff ELSE backoff
  /\ UNCHANGED <<stopVars, callVars, peerVars, sockVars, sharedVars, ret, block>>

LoopStep ==
  \/ LoopTop \/ DialOk \/ DialFail \/ LoopSetConn \/ LoopBanner \/ LoopLogin
  \/ SessionError \/ LoopReadOn \/ LoopQuit \/ LoopRecv \/ LoopLookup
  \/ LoopInline \/ Deliver \/ Publish \/ LoopDrop \/ LoopClose \/ LoopClear
  \/ LoopFailed \/ LoopSleepInterrupted \/ LoopWake

-----------------------------------------------------------------------------
(* SendActionWait and SendAction. *)

(* Stamp the action with a fresh ActionID; under the lock take Client.conn *)
(* and register the response channel. Without a connection the call fails. *)
Begin(c) ==
  /\ pc[c] = "idle"
  /\ calls < MaxCalls /\ calls' = calls + 1
  /\ IF conn = 0
     THEN UNCHANGED <<pc, call, via, pending>>
     ELSE /\ pc' = [pc EXCEPT ![c] = "registered"]
          /\ call' = [call EXCEPT ![c] = calls + 1]
          /\ via' = [via EXCEPT ![c] = conn]
          /\ pending' = pending \cup {calls + 1}
  /\ UNCHANGED <<stopVars, loopVars, peerVars, sockVars, conn, connected, events, box, out>>

(* SendAction: take Client.conn, to write to it later without an ActionID. *)
SendBegin(c) ==
  /\ pc[c] = "idle"
  /\ calls < MaxCalls /\ calls' = calls + 1
  /\ IF conn = 0
     THEN UNCHANGED <<pc, via>>
     ELSE /\ pc' = [pc EXCEPT ![c] = "sending"]
          /\ via' = [via EXCEPT ![c] = conn]
  /\ UNCHANGED <<stopVars, loopVars, peerVars, sockVars, sharedVars, call, box, out>>

(* A write reaches the connection the caller took, or is lost on it when   *)
(* the peer has already gone.                                              *)
WriteAction(c, id) ==
  /\ via[c] = dials /\ lopen
  /\ toPeer' = Append(toPeer, [id |-> id, kind |-> "action"])
  /\ UNCHANGED <<stopVars, loopVars, peerVars, sharedVars, dials, lopen, toClient,
                 call, box, out, calls>>

(* The connection the caller took is closed, or has since been replaced. *)
CannotWrite(c) == via[c] # dials \/ ~lopen \/ ~ropen

Write(c) ==
  /\ pc[c] = "registered" /\ pc' = [pc EXCEPT ![c] = "waiting"]
  /\ WriteAction(c, call[c])
  /\ UNCHANGED via

SendWrite(c) ==
  /\ pc[c] = "sending" /\ pc' = [pc EXCEPT ![c] = "idle"]
  /\ via' = [via EXCEPT ![c] = 0]
  /\ WriteAction(c, NoId)

SendFail(c) ==
  /\ pc[c] = "sending" /\ pc' = [pc EXCEPT ![c] = "idle"]
  /\ CannotWrite(c)
  /\ via' = [via EXCEPT ![c] = 0]
  /\ UNCHANGED <<stopVars, loopVars, peerVars, sockVars, sharedVars, call, box, out, calls>>

(* The call has its outcome v and only the deferred delete is left. *)
Conclude(c, v) ==
  /\ out' = [out EXCEPT ![c] = v]
  /\ pc' = [pc EXCEPT ![c] = "done"]
  /\ UNCHANGED <<stopVars, loopVars, peerVars, sockVars, sharedVars, call, via, box, calls>>

WriteFail(c) == pc[c] = "registered" /\ CannotWrite(c) /\ Conclude(c, "fail")

Receive(c) == pc[c] = "waiting" /\ box[c] # "none" /\ Conclude(c, box[c])

(* time.After wins the select, possibly against an answer already there. *)
MayTimeOut(c) == pc[c] = "waiting"
Timeout(c) == MayTimeOut(c) /\ Conclude(c, "fail")

(* The deferred delete of the pending entry. *)
Unregister(c) == pending' = pending \ {call[c]}

(* The call returns; its ActionID and its channel are never used again. *)
Return(c) ==
  /\ pc[c] = "done" /\ pc' = [pc EXCEPT ![c] = "idle"]
  /\ Unregister(c)
  /\ call' = [call EXCEPT ![c] = NoId]
  /\ via' = [via EXCEPT ![c] = 0]
  /\ box' = [box EXCEPT ![c] = "none"]
  /\ out' = [out EXCEPT ![c] = "none"]
  /\ said' = [said EXCEPT ![c] = "none"]
  /\ UNCHANGED <<stopVars, loopVars, sockVars, ropen, greeted, authed,
                 conn, connected, events, calls>>

(* What a caller's goroutine does once it has begun. *)
Proceed(c) ==
  \/ Write(c) \/ WriteFail(c) \/ Receive(c) \/ Timeout(c) \/ Return(c)
  \/ SendWrite(c) \/ SendFail(c)

-----------------------------------------------------------------------------
(* Stop, the manager's context, and whoever drains the events channel. *)

StopQuit ==
  /\ ~quit /\ quit' = TRUE
  /\ stopPc' = "closing"
  /\ UNCHANGED <<loopVars, callVars, peerVars, sockVars, sharedVars, ctxDone>>

(* Under the lock, close the connection Client.conn refers to, if any. *)
CloseConn == lopen' = (lopen /\ conn # dials)

StopClose ==
  /\ stopPc = "closing" /\ stopPc' = "stopped"
  /\ CloseConn
  /\ UNCHANGED <<loopVars, callVars, peerVars, sharedVars, quit, ctxDone,
                 dials, toPeer, toClient>>

CancelCtx ==
  /\ ~ctxDone /\ ctxDone' = TRUE
  /\ UNCHANGED <<loopVars, callVars, peerVars, sockVars, sharedVars, quit, stopPc>>

Drain ==
  /\ events > 0 /\ events' = events - 1
  /\ UNCHANGED <<stopVars, loopVars, callVars, peerVars, sockVars, conn, connected, pending>>

-----------------------------------------------------------------------------
(* The environment: Asterisk at the other end of the last connection. *)

PeerUp == lopen /\ ropen

PeerGreet ==
  /\ PeerUp /\ ~greeted /\ greeted' = TRUE
  /\ toClient' = Append(toClient, [id |-> NoId, kind |-> "banner"])
  /\ UNCHANGED <<stopVars, loopVars, callVars, sharedVars, dials, lopen, toPeer,
                 ropen, authed, said>>

(* The peer takes the oldest block of the given kind and replies to it. *)
PeerReply(kind, reply) ==
  /\ PeerUp /\ greeted
  /\ toPeer # <<>> /\ Head(toPeer).kind = kind
  /\ toPeer' = Tail(toPeer)
  /\ toClient' = Append(toClient, reply)
  /\ UNCHANGED <<stopVars, loopVars, callVars, sharedVars, dials, lopen, ropen, greeted>>

(* A Login is accepted, or refused like any failing action. *)
PeerLogin ==
  \E ok \in BOOLEAN :
    /\ PeerReply("login", [id |-> NoId, kind |-> IF ok THEN "authok" ELSE "err"])
    /\ authed' = (authed \/ ok)
    /\ UNCHANGED said

(* An action is answered under its own ActionID; before Login, refused. *)
PeerAnswer ==
  \E v \in Verdict :
    /\ authed \/ v = "err"
    /\ PeerReply("action", [id |-> Head(toPeer).id, kind |-> v])
    /\ said' = [c \in Callers |-> IF call[c] # NoId /\ call[c] = Head(toPeer).id
                                  THEN v ELSE said[c]]
    /\ UNCHANGED authed

PeerEvent ==
  /\ PeerUp /\ authed
  /\ Len(toClient) < NetCap
  /\ toClient' = Append(toClient, [id |-> NoId, kind |-> "event"])
  /\ UNCHANGED <<stopVars, loopVars, callVars, peerVars, sharedVars, dials, lopen, toPeer>>

(* Asterisk restarts or the network drops: what was in flight towards us   *)
(* may be cut short.                                                       *)
PeerClose ==
  /\ PeerUp /\ ropen' = FALSE
  /\ \E n \in 0 .. Len(toClient) : toClient' = SubSeq(toClient, 1, n)
  /\ UNCHANGED <<stopVars, loopVars, callVars, sharedVars, dials, lopen, toPeer,
                 greeted, authed, said>>

Environment == PeerGreet \/ PeerLogin \/ PeerAnswer \/ PeerEvent \/ PeerClose

-----------------------------------------------------------------------------
(* Stopped, wound up, and no call in progress: nothing is left to do. *)
Finished ==
  /\ loop = "exited" /\ stopPc = "stopped"
  /\ \A c \in Callers : pc[c] = "idle"
  /\ UNCHANGED vars

Next ==
  \/ LoopStep
  \/ \E c \in Callers : Begin(c) \/ SendBegin(c) \/ Proceed(c)
  \/ StopQuit \/ StopClose \/ CancelCtx \/ Drain
  \/ Environment
  \/ Finished

(* The Go scheduler runs every goroutine that can run: the reconnect loop, *)
(* each caller (whose timer fires), and Stop once it has begun. Nothing is *)
(* assumed of the peer, which may keep a connection open and say nothing,  *)
(* nor of whoever drains the events.                                       *)
Fairness ==
  /\ WF_vars(LoopStep)
  /\ \A c \in Callers : WF_vars(Proceed(c))
  /\ WF_vars(StopClose)

Spec == Init /\ [][Next]_vars /\ Fairness

-----------------------------------------------------------------------------
(* Every variable keeps its type; the events channel never exceeds its     *)
(* capacity and Client.conn is nil or the last connection dialled          *)
(* (client.go:38-46, 227-229).                                             *)
TypeOK ==
  /\ quit \in BOOLEAN /\ ctxDone \in BOOLEAN
  /\ stopPc \in {"none", "closing", "stopped"}
  /\ loop \in LoopPc /\ ret \in {"nil", "err"}
  /\ backoff \in Nat \ {0}
  /\ block \in Block
  /\ dials \in 0 .. MaxDials /\ conn \in {0, dials}
  /\ connected \in BOOLEAN
  /\ pending \subseteq CallId
  /\ events \in 0 .. EventCap
  /\ pc \in [Callers -> CallerPc]
  /\ call \in [Callers -> CallId \cup {NoId}]
  /\ via \in [Callers -> 0 .. MaxDials]
  /\ box \in [Callers -> {"none"} \cup Verdict]
  /\ out \in [Callers -> {"none", "fail"} \cup Verdict]
  /\ calls \in 0 .. MaxCalls
  /\ lopen \in BOOLEAN /\ ropen \in BOOLEAN /\ greeted \in BOOLEAN /\ authed \in BOOLEAN
  /\ toPeer \in Seq(Action) /\ toClient \in Seq(Block)
  /\ said \in [Callers -> {"none"} \cup Verdict]

(* The pending map holds exactly the calls in progress: no entry is left   *)
(* behind by a timeout, a failed write or a reconnect, and none goes       *)
(* missing under a waiting caller (client.go:107-122).                     *)
PendingExact == pending = {call[c] : c \in {d \in Callers : InFlight(d)}}

(* Once readLoop has taken the answer to a call that is still waiting, it  *)
(* hands it to that caller: the answer never becomes an event and is never *)
(* mistaken for a Login verdict (client.go:288-313).                       *)
AnswerReachesWaiter ==
  \A c \in Callers :
    pc[c] = "waiting" /\ call[c] = block.id /\ loop \notin {"block", "deliver"}
      => box[c] = block.kind

(* IsConnected reports true only for the connection in use, and only after *)
(* the peer accepted a Login on that very connection: no reconnect leaves  *)
(* the flag of an earlier session behind (client.go:231-239, 302-309).     *)
ConnectedIsAuthed ==
  connected => authed /\ conn = dials /\ loop \in Reading \cup {"drop"}

(* Stop finds no connection to close between the dial and the moment       *)
(* Client.conn is set. Once it has returned, a connection that is still    *)
(* open is one it missed that way, and serves nobody: the loop waits for   *)
(* the banner, sends Login and leaves at readLoop's first check, so no     *)
(* block is read and IsConnected is false (client.go:71-80, 227-273).      *)
MissedByStop ==
  stopPc = "stopped" /\ lopen
    => ~connected /\ loop \in {"opened", "banner", "login", "read", "drop", "close"}

(* readLoop is never held up by a caller that does not collect its answer  *)
(* or by whoever drains the events channel: nothing is assumed of either   *)
(* (client.go:294-297, 315-319).                                           *)
ReaderNotHeldUp == loop \in {"deliver", "publish"} ~> loop \notin {"deliver", "publish"}

(* The loop has ended and left nothing behind: no open connection, no      *)
(* Client.conn, and IsConnected false.                                     *)
Ended == loop = "exited" /\ ~lopen /\ conn = 0 /\ ~connected

(* connect waits for a banner the peer has not sent, on an open connection.*)
(* The read has no deadline and looks at neither quit nor the context.     *)
Silent == loop = "banner" /\ PeerUp /\ toClient = <<>>

(* After Stop the reconnect goroutine ends for good and leaves nothing     *)
(* behind, whatever the peer does, with one exception: a connection that   *)
(* Stop missed and whose peer never greets is waited on for ever           *)
(* (client.go:71-80, 227-247, 265-273).                                    *)
StopTerminates == quit ~> [](Ended \/ Silent)

(* A client that nobody stops never gives up: whatever error ends connect, *)
(* the loop dials again, and exits only if it is stopped or cancelled      *)
(* meanwhile, also once the delay has grown to its cap (client.go:169-191, *)
(* 231-239).                                                               *)
AlwaysRetries == loop \in {"drop", "failed"} /\ ~Halted ~> loop = "dial" \/ Halted

(* What SendActionWait promises its callers (module ActionCall): a verdict *)
(* is the peer's own verdict on that very action, and a call concludes     *)
(* once (client.go:103-137, 288-300).                                      *)
Promise == INSTANCE ActionCall WITH current <- call, verdict <- out,
                                    answered <- said, last <- calls
KeepsPromise == Promise!Init /\ [][Promise!Next]_Promise!promiseVars

(* The whole promise, the liveness included: every call returns, whether   *)
(* or not the peer ever answers.                                           *)
CallsReturn == Promise!Spec

(* docs/design/ami.md:42: a block whose ActionID has no registered waiter  *)
(* is forwarded to the events channel. A late "Response: Error" instead    *)
(* ends the session (client.go:302-312).                                   *)
LateAnswersForwarded ==
  [][connected /\ loop = "block" /\ block.id \in CallId \ pending /\ loop' # "block"
       => loop' = "publish"]_vars

=============================================================================
