-------------------------- MODULE AmiClientProofs --------------------------
(***************************************************************************)
(* What TLAPS proves of AmiClient for any set of callers, any number of    *)
(* calls and dials, and any capacities:                                    *)
(*   TypeCorrect, PendingIsExact, ConnectedIsAuthentic,                    *)
(*   EveryAnswerReachesItsWaiter, MissedServesNobody, PromiseIsKept.       *)
(* Each invariant is made inductive by the definition that precedes it.    *)
(***************************************************************************)
EXTENDS AmiClient, SequenceTheorems, TLAPS

(* Types and frames, which every step needs. *)
USE DEF NoId, CallId, Verdict, Action, Block, Reading, LoopPc, CallerPc, InFlight,
        vars, stopVars, loopVars, sharedVars, callVars, peerVars, sockVars, Goto, Leave

-----------------------------------------------------------------------------
(* Types. The flags are kept apart: they need another prover.              *)
TypeFlags ==
  /\ quit \in BOOLEAN /\ ctxDone \in BOOLEAN /\ connected \in BOOLEAN
  /\ lopen \in BOOLEAN /\ ropen \in BOOLEAN /\ greeted \in BOOLEAN /\ authed \in BOOLEAN

(* Client.conn is set from LoopSetConn to LoopClear, and to the last dial; *)
(* and readLoop looks up ActionIDs only: together with the types these are *)
(* inductive, the types alone are not.                                     *)
InSession == loop \in {"banner", "login", "drop", "close", "clear"} \cup Reading
ConnTracks == conn = IF InSession THEN dials ELSE 0
RoutedById == loop = "deliver" => block.id # NoId
TypeInv == TypeOK /\ ConnTracks /\ RoutedById

(* Each step leaves every flag a Boolean. *)
LEMMA FlagsKept == TypeFlags /\ [Next]_vars => TypeFlags'
<1> SUFFICES ASSUME TypeFlags, [Next]_vars PROVE TypeFlags'
  OBVIOUS
<1> USE DEF TypeFlags
<1>1. CASE LoopStep
  <2>1. ASSUME LoopTop \/ DialOk \/ DialFail \/ LoopSetConn \/ LoopBanner \/ LoopLogin
        PROVE  TypeFlags'
    BY <2>1, Zenon DEF LoopTop, DialOk, DialFail, LoopSetConn, LoopBanner, LoopLogin
  <2>2. ASSUME SessionError \/ LoopReadOn \/ LoopQuit \/ LoopRecv \/ LoopLookup \/ LoopInline
        PROVE  TypeFlags'
    BY <2>2, Zenon DEF SessionError, LoopReadOn, LoopQuit, LoopRecv, LoopLookup, LoopInline
  <2>3. ASSUME \/ Deliver \/ Publish \/ LoopDrop \/ LoopClose \/ LoopClear \/ LoopFailed
               \/ LoopSleepInterrupted \/ LoopWake
        PROVE  TypeFlags'
    BY <2>3, Zenon DEF Deliver, Publish, LoopDrop, LoopClose, LoopClear, LoopFailed,
       LoopSleepInterrupted, LoopWake
  <2>4. QED
    BY <1>1, <2>1, <2>2, <2>3, Zenon DEF LoopStep
<1>2. ASSUME NEW c \in Callers, Begin(c) \/ SendBegin(c) \/ Proceed(c) PROVE TypeFlags'
  <2>1. CASE Begin(c) \/ SendBegin(c)
    BY <2>1, Zenon DEF Begin, SendBegin
  <2>2. CASE Proceed(c)
    BY <2>2, Zenon DEF Proceed, Write, SendWrite, WriteAction, SendFail, WriteFail,
       Conclude, Receive, Timeout, Return
  <2>3. QED
    BY <1>2, <2>1, <2>2, Zenon
<1>3. CASE StopQuit \/ StopClose \/ CancelCtx \/ Drain
  BY <1>3, Zenon DEF StopQuit, StopClose, CloseConn, CancelCtx, Drain
<1>4. CASE Environment
  BY <1>4, Zenon DEF Environment, PeerGreet, PeerLogin, PeerAnswer, PeerEvent, PeerClose, PeerReply
<1>5. CASE Finished \/ UNCHANGED vars
  BY <1>5, Zenon DEF Finished
<1>6. QED
  BY <1>1, <1>2, <1>3, <1>4, <1>5, Zenon DEF Next

(* The initial state has the types and no connection. *)
LEMMA TypeInit == Init => TypeInv
<1> SUFFICES ASSUME Init PROVE TypeInv
  OBVIOUS
<1>1. TypeFlags
  BY Zenon DEF Init, TypeFlags
<1>2. QED
  BY <1>1, ClientAssumption
     DEF ClientAssumption, Init, TypeInv, TypeOK, TypeFlags, InSession, ConnTracks, RoutedById

(* The reconnect goroutine keeps the types (client.go:158-343). *)
LEMMA TypeLoop == TypeInv /\ LoopStep /\ TypeFlags' => TypeInv'
<1> SUFFICES ASSUME TypeInv, LoopStep, TypeFlags' PROVE TypeInv'
  OBVIOUS
<1> USE ClientAssumption DEF ClientAssumption, TypeInv, TypeOK, TypeFlags, InSession, ConnTracks, RoutedById
<1>1. CASE LoopTop BY <1>1 DEF LoopTop
<1>2. CASE DialOk BY <1>2 DEF DialOk
<1>3. CASE DialFail BY <1>3 DEF DialFail
<1>4. CASE LoopSetConn BY <1>4 DEF LoopSetConn
<1>5. CASE LoopBanner BY <1>5 DEF LoopBanner
<1>6. CASE LoopLogin BY <1>6 DEF LoopLogin
<1>7. CASE SessionError BY <1>7 DEF SessionError
<1>8. CASE LoopReadOn BY <1>8 DEF LoopReadOn
<1>9. CASE LoopQuit BY <1>9 DEF LoopQuit
<1>10. CASE LoopRecv BY <1>10 DEF LoopRecv
<1>11. CASE LoopLookup BY <1>11 DEF LoopLookup
<1>12. CASE LoopInline BY <1>12 DEF LoopInline
<1>13. CASE Deliver
  <2>1. block.id # NoId => block.kind \in Verdict
    OBVIOUS
  <2>2. box' \in [Callers -> {"none"} \cup Verdict]
    BY <1>13, <2>1 DEF Deliver, Owns
  <2>3. QED
    BY <1>13, <2>2 DEF Deliver
<1>14. CASE Publish BY <1>14 DEF Publish, Push
<1>15. CASE LoopDrop BY <1>15 DEF LoopDrop
<1>16. CASE LoopClose BY <1>16 DEF LoopClose
<1>17. CASE LoopClear BY <1>17 DEF LoopClear
<1>18. CASE LoopFailed BY <1>18 DEF LoopFailed
<1>19. CASE LoopSleepInterrupted BY <1>19 DEF LoopSleepInterrupted
<1>20. CASE LoopWake BY <1>20 DEF LoopWake
<1>21. QED
  BY <1>1, <1>2, <1>3, <1>4, <1>5, <1>6, <1>7, <1>8, <1>9, <1>10, <1>11, <1>12, <1>13,
     <1>14, <1>15, <1>16, <1>17, <1>18, <1>19, <1>20 DEF LoopStep

(* Each function of the callers changes at one caller or not at all. *)
LEMMA CallerFunctions ==
  ASSUME TypeOK, NEW c \in Callers, Begin(c) \/ SendBegin(c) \/ Return(c)
  PROVE  /\ pc' \in [Callers -> CallerPc]
         /\ via' \in [Callers -> 0 .. MaxDials]
<1>1. pc \in [Callers -> CallerPc] /\ via \in [Callers -> 0 .. MaxDials]
  BY DEF TypeOK
<1>2. /\ \E k \in CallerPc : pc' \in {pc, [pc EXCEPT ![c] = k]}
      /\ via' \in {via, [via EXCEPT ![c] = conn], [via EXCEPT ![c] = 0]}
  BY DEF Begin, SendBegin, Return
<1>3. conn \in 0 .. MaxDials /\ 0 \in 0 .. MaxDials
  BY ClientAssumption DEF ClientAssumption, TypeOK
<1>4. QED
  BY <1>1, <1>2, <1>3

(* ActionIDs, in calls and in pending, stay within the calls made. *)
LEMMA CallerIds ==
  ASSUME TypeOK, NEW c \in Callers, Begin(c) \/ Return(c)
  PROVE  /\ call' \in [Callers -> CallId \cup {NoId}]
         /\ pending' \subseteq CallId
<1>1. call \in [Callers -> CallId \cup {NoId}] /\ pending \subseteq CallId
  BY DEF TypeOK
<1>2. CASE Begin(c)
  <2>1. calls + 1 \in CallId
    BY <1>2, ClientAssumption DEF ClientAssumption, Begin, TypeOK
  <2>2. call' \in {call, [call EXCEPT ![c] = calls + 1]} /\ pending' \in {pending, pending \cup {calls + 1}}
    BY <1>2 DEF Begin
  <2>3. QED
    BY <1>1, <2>1, <2>2
<1>3. CASE Return(c)
  BY <1>1, <1>3 DEF Return, Unregister
<1>4. QED
  BY <1>2, <1>3

(* SendActionWait and SendAction keep the types (client.go:90-156). *)
LEMMA TypeCaller ==
  ASSUME TypeInv, TypeFlags', NEW c \in Callers, Begin(c) \/ SendBegin(c) \/ Proceed(c)
  PROVE  TypeInv'
<1> USE ClientAssumption DEF ClientAssumption, TypeInv, TypeOK, TypeFlags, InSession, ConnTracks, RoutedById
<1>1. CASE Begin(c)
  <2>1. pc' \in [Callers -> CallerPc] /\ via' \in [Callers -> 0 .. MaxDials]
    BY <1>1, CallerFunctions
  <2>2. call' \in [Callers -> CallId \cup {NoId}] /\ pending' \subseteq CallId
    BY <1>1, CallerIds
  <2>3. calls' \in 0 .. MaxCalls
    BY <1>1 DEF Begin
  <2>4. QED
    BY <1>1, <2>1, <2>2, <2>3 DEF Begin
<1>2. CASE SendBegin(c)
  <2>1. pc' \in [Callers -> CallerPc] /\ via' \in [Callers -> 0 .. MaxDials]
    BY <1>2, CallerFunctions
  <2>2. QED
    BY <1>2, <2>1 DEF SendBegin
<1>3. CASE Write(c) BY <1>3 DEF Write, WriteAction
<1>4. CASE SendWrite(c) BY <1>4 DEF SendWrite, WriteAction
<1>5. CASE SendFail(c) BY <1>5 DEF SendFail
<1>6. CASE WriteFail(c) BY <1>6 DEF WriteFail, Conclude
<1>7. CASE Receive(c) BY <1>7 DEF Receive, Conclude
<1>8. CASE Timeout(c) BY <1>8 DEF Timeout, MayTimeOut, Conclude
<1>9. CASE Return(c)
  <2>1. /\ box' \in [Callers -> {"none"} \cup Verdict]
        /\ out' \in [Callers -> {"none", "fail"} \cup Verdict]
        /\ said' \in [Callers -> {"none"} \cup Verdict]
    BY <1>9 DEF Return
  <2>2. pc' \in [Callers -> CallerPc] /\ via' \in [Callers -> 0 .. MaxDials]
    BY <1>9, CallerFunctions
  <2>3. call' \in [Callers -> CallId \cup {NoId}] /\ pending' \subseteq CallId
    BY <1>9, CallerIds
  <2>4. QED
    BY <1>9, <2>1, <2>2, <2>3 DEF Return
<1>10. QED
  BY <1>1, <1>2, <1>3, <1>4, <1>5, <1>6, <1>7, <1>8, <1>9 DEF Proceed

(* Stop, the context, the drain and the peer keep the types (client.go:71-80). *)
LEMMA TypeRest ==
  ASSUME TypeInv, TypeFlags',
         StopQuit \/ StopClose \/ CancelCtx \/ Drain \/ Environment \/ Finished \/ UNCHANGED vars
  PROVE  TypeInv'
<1> USE ClientAssumption DEF ClientAssumption, TypeInv, TypeOK, TypeFlags, InSession, ConnTracks, RoutedById
<1>1. CASE StopQuit BY <1>1 DEF StopQuit
<1>2. CASE StopClose BY <1>2 DEF StopClose
<1>3. CASE CancelCtx BY <1>3 DEF CancelCtx
<1>4. CASE Drain BY <1>4 DEF Drain
<1>5. CASE PeerGreet BY <1>5 DEF PeerGreet
<1>6. CASE PeerLogin BY <1>6 DEF PeerLogin, PeerReply
<1>7. CASE PeerAnswer
  <2>1. PICK v \in Verdict :
          /\ PeerReply("action", [id |-> Head(toPeer).id, kind |-> v])
          /\ said' = [c \in Callers |-> IF call[c] # NoId /\ call[c] = Head(toPeer).id
                                        THEN v ELSE said[c]]
    BY <1>7 DEF PeerAnswer
  <2>2. Head(toPeer) \in Action /\ toPeer' \in Seq(Action)
    BY <2>1, HeadTailProperties DEF PeerReply
  <2>3. toClient' \in Seq(Block)
    BY <2>1, <2>2 DEF PeerReply
  <2>4. said' \in [Callers -> {"none"} \cup Verdict]
    BY <2>1
  <2>5. QED
    BY <2>1, <2>2, <2>3, <2>4, <1>7 DEF PeerReply, PeerAnswer
<1>8. CASE PeerEvent BY <1>8 DEF PeerEvent
<1>9. CASE PeerClose BY <1>9 DEF PeerClose
<1>10. CASE Finished BY <1>10 DEF Finished
<1>11. CASE UNCHANGED vars BY <1>11
<1>12. QED
  BY <1>1, <1>2, <1>3, <1>4, <1>5, <1>6, <1>7, <1>8, <1>9, <1>10, <1>11 DEF Environment

(* Every step keeps the types and what makes them inductive. *)
LEMMA TypeStep == TypeInv /\ [Next]_vars => TypeInv'
<1> SUFFICES ASSUME TypeInv, [Next]_vars PROVE TypeInv'
  OBVIOUS
<1>1. TypeFlags'
  <2>1. TypeFlags
    BY DEF TypeInv, TypeOK, TypeFlags
  <2>2. QED
    BY <2>1, FlagsKept
<1>2. CASE LoopStep
  BY <1>1, <1>2, TypeLoop
<1>3. ASSUME NEW c \in Callers, Begin(c) \/ SendBegin(c) \/ Proceed(c) PROVE TypeInv'
  BY <1>1, <1>3, TypeCaller
<1>4. CASE \/ StopQuit \/ StopClose \/ CancelCtx \/ Drain
           \/ Environment \/ Finished \/ UNCHANGED vars
  BY <1>1, <1>4, TypeRest
<1>5. QED
  BY <1>2, <1>3, <1>4 DEF Next

(* The inductive invariant behind the types holds of every behaviour: in   *)
(* particular Client.conn is the last dial while connect runs, and nil     *)
(* otherwise (client.go:227-239).                                          *)
THEOREM TypeInductive == Spec => []TypeInv
<1>1. Init => TypeInv
  BY TypeInit
<1>2. TypeInv /\ [Next]_vars => TypeInv'
  BY TypeStep
<1>3. QED
  BY <1>1, <1>2, PTL DEF Spec

(* Every variable keeps its type, the events channel its capacity, and     *)
(* Client.conn is nil or the last connection dialled, whatever the callers *)
(* and the peer do (client.go:38-46, 227-239).                             *)
THEOREM TypeCorrect == Spec => []TypeOK
<1>1. TypeInv => TypeOK
  BY DEF TypeInv
<1>2. QED
  BY <1>1, TypeInductive, PTL

-----------------------------------------------------------------------------
(* Who has an ActionID is in flight, and no two calls have the same one.   *)
CallsDistinct ==
  /\ \A c \in Callers : call[c] <= calls /\ (InFlight(c) <=> call[c] # NoId)
  /\ \A c, d \in Callers : call[c] = call[d] /\ call[c] # NoId => c = d

(* Only Begin and Return touch calls and pending (client.go:107-122). *)
LEMMA CallsFrame ==
  ASSUME TypeInv, [Next]_vars
  PROVE  \/ \E c \in Callers : Begin(c) \/ Return(c)
         \/ /\ pending' = pending /\ call' = call /\ calls' \in {calls, calls + 1}
            /\ \A d \in Callers : InFlight(d)' <=> InFlight(d)
<1> DEFINE Same == /\ pending' = pending /\ call' = call /\ calls' \in {calls, calls + 1}
                   /\ \A d \in Callers : InFlight(d)' <=> InFlight(d)
<1>1. CASE LoopStep
  <2>1. UNCHANGED <<pending, call, calls, pc>>
    BY <1>1 DEF LoopStep, LoopTop, DialOk, DialFail, LoopSetConn, LoopBanner, LoopLogin,
       SessionError, LoopReadOn, LoopQuit, LoopRecv, LoopLookup, LoopInline, Deliver, Publish,
       LoopDrop, LoopClose, LoopClear, LoopFailed, LoopSleepInterrupted, LoopWake
  <2>2. QED
    BY <2>1
<1>2. ASSUME NEW c \in Callers, SendBegin(c) PROVE Same
  BY <1>2 DEF SendBegin, TypeInv, TypeOK
<1>3. ASSUME NEW c \in Callers, Write(c) \/ WriteFail(c) \/ Receive(c) \/ Timeout(c) \/ SendWrite(c) \/ SendFail(c) PROVE Same
  BY <1>3 DEF Write, WriteAction, WriteFail, Receive, Timeout, MayTimeOut, Conclude, SendWrite, SendFail,
     TypeInv, TypeOK
<1>4. CASE StopQuit \/ StopClose \/ CancelCtx \/ Drain \/ Environment \/ Finished \/ UNCHANGED vars
  <2>1. UNCHANGED <<pending, call, calls, pc>>
    BY <1>4 DEF StopQuit, StopClose, CancelCtx, Drain, Environment, Finished,
       PeerGreet, PeerLogin, PeerAnswer, PeerEvent, PeerClose, PeerReply
  <2>2. QED
    BY <2>1
<1>5. QED
  BY <1>1, <1>2, <1>3, <1>4 DEF Next, Proceed

(* Every step keeps pending exact and ActionIDs distinct. *)
LEMMA CallsStep ==
  ASSUME TypeInv, PendingExact, CallsDistinct, [Next]_vars
  PROVE  PendingExact' /\ CallsDistinct'
<1> USE DEF PendingExact, CallsDistinct
<1>1. ASSUME NEW c \in Callers, Begin(c) PROVE PendingExact' /\ CallsDistinct'
  <2>1. CASE conn = 0
    BY <1>1, <2>1 DEF Begin, TypeInv, TypeOK
  <2>2. CASE conn # 0
    <3>1. /\ calls \in Nat /\ calls' = calls + 1
          /\ pc \in [Callers -> CallerPc] /\ call \in [Callers -> CallId \cup {NoId}]
      BY <1>1 DEF Begin, TypeInv, TypeOK
    <3>2. /\ call' = [call EXCEPT ![c] = calls + 1]
          /\ pc' = [pc EXCEPT ![c] = "registered"]
          /\ pending' = pending \cup {calls + 1}
          /\ ~InFlight(c)
      BY <1>1, <2>2 DEF Begin
    <3>3. CallsDistinct'
      BY <3>1, <3>2
    <3>4. \A d \in Callers \ {c} : call'[d] = call[d] /\ (InFlight(d)' <=> InFlight(d))
      BY <3>1, <3>2
    <3>5. InFlight(c)' /\ call'[c] = calls + 1
      BY <3>1, <3>2
    <3>6. PendingExact'
      BY <3>2, <3>4, <3>5
    <3>7. QED
      BY <3>3, <3>6
  <2>3. QED
    BY <2>1, <2>2
<1>2. ASSUME NEW c \in Callers, Return(c) PROVE PendingExact' /\ CallsDistinct'
  <2>1. /\ calls \in Nat /\ calls' = calls
        /\ pc \in [Callers -> CallerPc] /\ call \in [Callers -> CallId \cup {NoId}]
    BY <1>2 DEF Return, TypeInv, TypeOK
  <2>2. /\ call' = [call EXCEPT ![c] = NoId]
        /\ pc' = [pc EXCEPT ![c] = "idle"]
        /\ pending' = pending \ {call[c]}
        /\ InFlight(c)
    BY <1>2 DEF Return, Unregister
  <2>3. CallsDistinct'
    BY <2>1, <2>2
  <2>4. \A d \in Callers \ {c} : call'[d] = call[d] /\ (InFlight(d)' <=> InFlight(d))
    BY <2>1, <2>2
  <2>5. ~InFlight(c)'
    BY <2>1, <2>2
  <2>6. \A d \in Callers \ {c} : InFlight(d) => call[d] # call[c]
    BY <2>2
  <2>7. PendingExact'
    BY <2>2, <2>4, <2>5, <2>6
  <2>8. QED
    BY <2>3, <2>7
<1>3. CASE /\ pending' = pending /\ call' = call /\ calls' \in {calls, calls + 1}
           /\ \A d \in Callers : InFlight(d)' <=> InFlight(d)
  BY <1>3 DEF TypeInv, TypeOK
<1>4. QED
  BY <1>1, <1>2, <1>3, CallsFrame

(* The pending map holds exactly the calls in progress, for any number of  *)
(* callers, calls, timeouts and reconnects (client.go:107-122).            *)
THEOREM PendingIsExact == Spec => []PendingExact
<1>1. Init => PendingExact /\ CallsDistinct
  BY DEF Init, PendingExact, CallsDistinct
<1>2. /\ TypeInv /\ PendingExact /\ CallsDistinct /\ [Next]_vars
      => (PendingExact /\ CallsDistinct)'
  BY CallsStep
<1>3. QED
  BY <1>1, <1>2, TypeInductive, PTL DEF Spec

-----------------------------------------------------------------------------
(* An accepted Login is recorded on the peer's side before anything that   *)
(* makes Client.connected true can be read.                                *)
AuthTracks ==
  /\ connected => authed /\ loop \in Reading \cup {"drop"}
  /\ loop = "block" /\ block.kind = "authok" => authed
  /\ \A i \in 1 .. Len(toClient) : toClient[i].kind = "authok" => authed

(* Every step keeps the flag behind an accepted Login (client.go:231-239, 302-309). *)
LEMMA AuthStep ==
  ASSUME TypeInv, AuthTracks, [Next]_vars
  PROVE  AuthTracks'
<1> USE DEF AuthTracks
<1>1. toClient \in Seq(Block) /\ block \in Block
  BY DEF TypeInv, TypeOK
<1>2. CASE LoopBanner \/ LoopRecv
  <2>1. /\ toClient # <<>> /\ toClient' = Tail(toClient) /\ authed' = authed /\ connected' = connected
        /\ loop' \in {"login", "block"} /\ (connected => loop' = "block")
        /\ loop' = "block" => block' = Head(toClient)
    BY <1>2 DEF LoopBanner, LoopRecv
  <2>2. Len(toClient) \in Nat \ {0} /\ Len(Tail(toClient)) = Len(toClient) - 1
    BY <1>1, <2>1, HeadTailProperties
  <2>3. \A i \in 1 .. Len(Tail(toClient)) : Tail(toClient)[i] = toClient[i + 1]
    BY <1>1, <2>1, HeadTailProperties
  <2>4. \A i \in 1 .. Len(toClient') : toClient'[i].kind = "authok" => authed'
    <3>1. ASSUME NEW i \in 1 .. Len(Tail(toClient)) PROVE Tail(toClient)[i].kind = "authok" => authed
      <4>1. i + 1 \in 1 .. Len(toClient)
        BY <2>2
      <4>2. QED
        BY <2>3, <4>1
    <3>2. QED
      BY <2>1, <3>1
  <2>5. Head(toClient).kind = "authok" => authed
    <3>1. 1 \in 1 .. Len(toClient)
      BY <2>2
    <3>2. Head(toClient) = toClient[1]
      BY <1>1, <2>1
    <3>3. QED
      BY <3>1, <3>2
  <2>6. QED
    BY <2>1, <2>4, <2>5
<1>3. CASE LoopInline
  BY <1>3 DEF LoopInline
<1>4. CASE LoopClose
  BY <1>4 DEF LoopClose
<1>5. CASE PeerGreet \/ PeerLogin \/ PeerAnswer \/ PeerEvent
  <2>1. CASE PeerGreet BY <1>1, <2>1 DEF PeerGreet
  <2>2. CASE PeerLogin
    <3>1. PICK ok \in BOOLEAN :
            /\ PeerReply("login", [id |-> NoId, kind |-> IF ok THEN "authok" ELSE "err"])
            /\ authed' = (authed \/ ok)
      BY <2>2 DEF PeerLogin
    <3>2. CASE ok
      <4>1. authed'
        BY <3>1, <3>2
      <4>2. QED
        BY <3>1, <4>1 DEF PeerReply
    <3>3. CASE ~ok
      <4>1. authed' <=> authed
        BY <3>1, <3>3
      <4>2. toClient' = Append(toClient, [id |-> NoId, kind |-> "err"])
        BY <3>1, <3>3 DEF PeerReply
      <4>3. QED
        BY <1>1, <3>1, <4>1, <4>2 DEF PeerReply
    <3>4. QED
      BY <3>2, <3>3
  <2>3. CASE PeerAnswer BY <1>1, <2>3 DEF PeerAnswer, PeerReply
  <2>4. CASE PeerEvent BY <1>1, <2>4 DEF PeerEvent
  <2>5. QED BY <1>5, <2>1, <2>2, <2>3, <2>4
<1>6. CASE PeerClose
  BY <1>1, <1>6 DEF PeerClose
<1>7. CASE \/ LoopTop \/ DialOk \/ DialFail \/ LoopSetConn \/ LoopLogin \/ SessionError \/ LoopReadOn
           \/ LoopQuit \/ LoopLookup \/ Deliver \/ Publish \/ LoopDrop \/ LoopClear \/ LoopFailed
           \/ LoopSleepInterrupted \/ LoopWake
  BY <1>7 DEF LoopTop, DialOk, DialFail, LoopSetConn, LoopLogin, SessionError, LoopReadOn, LoopQuit,
     LoopLookup, Deliver, Publish, LoopDrop, LoopClear, LoopFailed, LoopSleepInterrupted, LoopWake
<1>8. ASSUME NEW c \in Callers, Begin(c) \/ SendBegin(c) \/ Proceed(c) PROVE AuthTracks'
  BY <1>8 DEF Begin, SendBegin, Proceed, Write, SendWrite, WriteAction, SendFail, WriteFail, Conclude,
     Receive, Timeout, Return
<1>9. CASE StopQuit \/ StopClose \/ CancelCtx \/ Drain \/ Finished \/ UNCHANGED vars
  BY <1>9 DEF StopQuit, StopClose, CancelCtx, Drain, Finished
<1>10. QED
  BY <1>2, <1>3, <1>4, <1>5, <1>6, <1>7, <1>8, <1>9 DEF Next, LoopStep, Environment

(* IsConnected is true only for the connection in use and after a Login    *)
(* accepted on it, over any number of reconnects (client.go:231-239,       *)
(* 302-309).                                                               *)
THEOREM ConnectedIsAuthentic == Spec => []ConnectedIsAuthed
<1>1. Init => AuthTracks
  BY DEF Init, AuthTracks
<1>2. TypeInv /\ AuthTracks /\ [Next]_vars => AuthTracks'
  BY AuthStep
<1>3. TypeInv /\ AuthTracks => ConnectedIsAuthed
  BY DEF TypeInv, ConnTracks, InSession, AuthTracks, ConnectedIsAuthed
<1>4. QED
  BY <1>1, <1>2, <1>3, TypeInductive, PTL DEF Spec

-----------------------------------------------------------------------------
(* An open connection belongs to a connect that has not yet closed it, and *)
(* Stop closes quit before it looks for one: with MissedByStop this is     *)
(* inductive.                                                              *)
StopTracks ==
  /\ lopen => loop \in {"opened", "banner", "login", "drop", "close"} \cup Reading
  /\ stopPc # "none" => quit
  /\ MissedByStop

(* The reconnect goroutine leaves a connection that Stop missed alone until *)
(* the check that ends it (client.go:227-273).                             *)
LEMMA StopLoop ==
  ASSUME TypeInv, AuthTracks, StopTracks, LoopStep
  PROVE  StopTracks'
<1> USE DEF StopTracks, MissedByStop, TypeInv, TypeOK, ConnTracks, InSession, AuthTracks
<1>1. CASE LoopTop \/ DialOk \/ DialFail \/ LoopSetConn \/ LoopBanner \/ LoopLogin
  BY <1>1 DEF LoopTop, Halted, DialOk, DialFail, LoopSetConn, LoopBanner, LoopLogin
<1>2. CASE SessionError \/ LoopReadOn \/ LoopQuit \/ LoopRecv \/ LoopLookup \/ LoopInline
  BY <1>2 DEF SessionError, LoopReadOn, Halted, LoopQuit, LoopRecv, LoopLookup, LoopInline
<1>3. CASE \/ Deliver \/ Publish \/ LoopDrop \/ LoopClose \/ LoopClear \/ LoopFailed
           \/ LoopSleepInterrupted \/ LoopWake
  BY <1>3 DEF Deliver, Publish, LoopDrop, LoopClose, LoopClear, LoopFailed,
     LoopSleepInterrupted, LoopWake
<1>4. QED
  BY <1>1, <1>2, <1>3 DEF LoopStep

(* Every step keeps it; Stop itself closes what it can see. *)
LEMMA StopStep ==
  ASSUME TypeInv, AuthTracks, StopTracks, [Next]_vars
  PROVE  StopTracks'
<1> USE DEF StopTracks, MissedByStop
<1>1. CASE StopClose
  <2>1. /\ lopen' => lopen /\ conn # dials
        /\ connected' = connected /\ quit' = quit /\ loop' = loop /\ stopPc = "closing"
    BY <1>1, Zenon DEF StopClose, CloseConn
  <2>2. InSession => conn = dials
    BY DEF TypeInv, ConnTracks, InSession
  <2>3. quit'
    BY <2>1
  <2>4. lopen' => loop' = "opened" /\ ~connected'
    <3>1. lopen' => loop = "opened"
      BY <2>1, <2>2 DEF InSession
    <3>2. connected => loop \in Reading \cup {"drop"}
      BY DEF AuthTracks
    <3>3. loop = "opened" => ~connected
      BY <3>2
    <3>4. QED
      BY <2>1, <3>1, <3>3
  <2>5. QED
    BY <2>3, <2>4
<1>2. CASE StopQuit
  BY <1>2 DEF StopQuit
<1>3. ASSUME NEW c \in Callers, Begin(c) \/ SendBegin(c) \/ Proceed(c) PROVE StopTracks'
  BY <1>3 DEF Begin, SendBegin, Proceed, Write, SendWrite, WriteAction, SendFail, WriteFail,
     Conclude, Receive, Timeout, Return
<1>4. CASE CancelCtx \/ Drain \/ Environment \/ Finished \/ UNCHANGED vars
  <2>1. UNCHANGED <<quit, stopPc, loop, connected, lopen>>
    BY <1>4, Zenon DEF CancelCtx, Drain, Environment, Finished,
       PeerGreet, PeerLogin, PeerAnswer, PeerEvent, PeerClose, PeerReply
  <2>2. QED
    BY <2>1
<1>5. QED
  BY <1>1, <1>2, <1>3, <1>4, StopLoop DEF Next

(* A connection that Stop could not see serves nobody, wherever in connect *)
(* the goroutine was when Stop ran (client.go:71-80, 227-273).             *)
THEOREM MissedServesNobody == Spec => []MissedByStop
<1>1. Init => AuthTracks /\ StopTracks
  BY DEF Init, AuthTracks, StopTracks, MissedByStop
<1>2. TypeInv /\ AuthTracks /\ StopTracks /\ [Next]_vars => (AuthTracks /\ StopTracks)'
  BY AuthStep, StopStep
<1>3. StopTracks => MissedByStop
  BY DEF StopTracks
<1>4. QED
  BY <1>1, <1>2, <1>3, TypeInductive, PTL DEF Spec

-----------------------------------------------------------------------------
(* Sequences of blocks: the ActionIDs in one, and none of them twice. *)
IdsOf(s) == {s[i].id : i \in 1 .. Len(s)}
Once(s) == \A i, j \in 1 .. Len(s) : s[i].id = s[j].id /\ s[i].id # NoId => i = j

(* Nothing in transit carries an ActionID twice. *)
LEMMA EmptyIds == IdsOf(<<>>) = {} /\ Once(<<>>)
  BY DEF IdsOf, Once

(* Sending a block whose ActionID is not in transit. *)
LEMMA AppendIds ==
  ASSUME NEW S, NEW s \in Seq(S), NEW b \in S, Once(s), b.id # NoId => b.id \notin IdsOf(s)
  PROVE  Once(Append(s, b)) /\ IdsOf(Append(s, b)) = IdsOf(s) \cup {b.id}
<1> DEFINE n == Len(s)
           t == Append(s, b)
<1>1. n \in Nat /\ Len(t) = n + 1 /\ t[n + 1] = b /\ \A i \in 1 .. n : t[i] = s[i]
  BY AppendProperties
<1> HIDE DEF n, t
<1>2. 1 .. n + 1 = (1 .. n) \cup {n + 1}
  BY <1>1
<1>3. IdsOf(t) = IdsOf(s) \cup {b.id}
  BY <1>1, <1>2 DEF IdsOf, n
<1>4. Once(t)
  BY <1>1, <1>2 DEF IdsOf, Once, n
<1>5. QED
  BY <1>3, <1>4 DEF t

(* Taking the oldest block: its ActionID is then in transit no more. *)
LEMMA TailIds ==
  ASSUME NEW S, NEW s \in Seq(S), s # <<>>, Once(s)
  PROVE  /\ Head(s).id \in IdsOf(s)
         /\ Once(Tail(s)) /\ IdsOf(Tail(s)) \subseteq IdsOf(s)
         /\ Head(s).id # NoId => Head(s).id \notin IdsOf(Tail(s))
<1> DEFINE n == Len(s)
           t == Tail(s)
<1>1. n \in Nat \ {0} /\ Len(t) = n - 1 /\ \A i \in 1 .. n - 1 : t[i] = s[i + 1]
  BY HeadTailProperties, LenProperties, EmptySeq
<1>2. Head(s) = s[1]
  OBVIOUS
<1> HIDE DEF n, t
<1>3. \A i \in 1 .. n - 1 : i + 1 \in 1 .. n /\ i + 1 # 1
  BY <1>1
<1>4. 1 \in 1 .. n
  BY <1>1
<1>5. IdsOf(t) \subseteq IdsOf(s) /\ Head(s).id \in IdsOf(s)
  <2>1. ASSUME NEW i \in 1 .. n - 1 PROVE t[i].id \in IdsOf(s)
    BY <1>1, <1>3, <2>1 DEF IdsOf, n
  <2>2. IdsOf(t) \subseteq IdsOf(s)
    BY <1>1, <2>1 DEF IdsOf
  <2>3. Head(s).id \in IdsOf(s)
    BY <1>2, <1>4 DEF IdsOf, n
  <2>4. QED
    BY <2>2, <2>3
<1>6. Once(t)
  BY <1>1, <1>3 DEF Once, n
<1>7. Head(s).id # NoId => Head(s).id \notin IdsOf(t)
  BY <1>1, <1>2, <1>3, <1>4 DEF Once, IdsOf, n
<1>8. QED
  BY <1>5, <1>6, <1>7 DEF t

(* A connection cut short loses blocks and repeats none. *)
LEMMA PrefixIds ==
  ASSUME NEW S, NEW s \in Seq(S), NEW k \in 0 .. Len(s), Once(s)
  PROVE  Once(SubSeq(s, 1, k)) /\ IdsOf(SubSeq(s, 1, k)) \subseteq IdsOf(s)
<1> DEFINE t == SubSeq(s, 1, k)
<1>1. Len(s) \in Nat /\ Len(t) = k /\ \A i \in 1 .. k : t[i] = s[i]
  BY SubSeqProperties
<1> HIDE DEF t
<1>2. 1 .. k \subseteq 1 .. Len(s)
  BY <1>1
<1>3. QED
  BY <1>1, <1>2 DEF IdsOf, Once, t

-----------------------------------------------------------------------------
(* An ActionID is in one place at a time: on its way to the peer, on its   *)
(* way back, or in the block readLoop took last.                           *)
WireInv ==
  /\ Once(toPeer) /\ Once(toClient)
  /\ IdsOf(toPeer) \cup IdsOf(toClient) \cup {block.id} \subseteq 0 .. calls
  /\ IdsOf(toPeer) \cap IdsOf(toClient) \subseteq {NoId}
  /\ block.id # NoId => block.id \notin IdsOf(toPeer) \cup IdsOf(toClient)

(* A call not yet written, or whose channel already holds its answer, has  *)
(* nothing in transit, and no answer about to be delivered.                *)
BoxInv ==
  /\ \A c \in Callers :
       call[c] # NoId /\ (pc[c] = "registered" \/ box[c] # "none")
         => call[c] \notin IdsOf(toPeer) \cup IdsOf(toClient)
  /\ \A c \in Callers :
       call[c] # NoId /\ call[c] = block.id
         => pc[c] # "registered" /\ (loop \in {"block", "deliver"} => box[c] = "none")
  /\ \A c \in Callers : box[c] # "none" => pc[c] \in {"waiting", "done"}
  /\ AnswerReachesWaiter

(* What has been established so far. *)
CallsInv == TypeInv /\ PendingExact /\ CallsDistinct

(* Nothing is in transit at first. *)
LEMMA WireInit == Init => WireInv /\ BoxInv
  BY EmptyIds, ClientAssumption DEF ClientAssumption, Init, WireInv, BoxInv, AnswerReachesWaiter

(* A block is read: its ActionID is then in transit nowhere else. *)
LEMMA WireTake ==
  ASSUME CallsInv, WireInv, BoxInv, LoopBanner \/ LoopRecv
  PROVE  WireInv' /\ BoxInv'
<1>1. /\ toClient # <<>> /\ toClient \in Seq(Block) /\ toClient' = Tail(toClient)
      /\ UNCHANGED <<toPeer, calls, call, pc, box>>
      /\ \/ block' = block /\ loop = "banner" /\ loop' = "login"
         \/ block' = Head(toClient) /\ loop' = "block"
  BY DEF LoopBanner, LoopRecv, CallsInv, TypeInv, TypeOK
<1>2. /\ Head(toClient).id \in IdsOf(toClient)
      /\ Once(toClient') /\ IdsOf(toClient') \subseteq IdsOf(toClient)
      /\ Head(toClient).id # NoId => Head(toClient).id \notin IdsOf(toClient')
  BY <1>1, TailIds DEF WireInv
<1>3. WireInv'
  BY <1>1, <1>2 DEF WireInv
<1>4. BoxInv'
  BY <1>1, <1>2 DEF BoxInv, WireInv, AnswerReachesWaiter
<1>5. QED
  BY <1>3, <1>4

(* The reconnect goroutine (client.go:241-343): a waiting call is in pending, so *)
(* that LoopInline never handles its answer, and its channel is empty, so  *)
(* that Deliver fills it.                                                  *)
LEMMA WireLoop ==
  ASSUME CallsInv, WireInv, BoxInv, LoopStep
  PROVE  WireInv' /\ BoxInv'
<1>1. CASE LoopBanner \/ LoopRecv
  BY <1>1, WireTake
<1>2. CASE LoopLogin
  <2>1. /\ toPeer \in Seq(Action) /\ UNCHANGED <<toClient, block, calls, call, pc, box>>
        /\ toPeer' = Append(toPeer, [id |-> NoId, kind |-> "login"])
        /\ loop = "login" /\ loop' = "read"
    BY <1>2 DEF LoopLogin, CallsInv, TypeInv, TypeOK
  <2>2. Once(toPeer') /\ IdsOf(toPeer') = IdsOf(toPeer) \cup {NoId}
    <3>1. PICK a \in Action : a.id = NoId /\ toPeer' = Append(toPeer, a)
      BY <2>1
    <3> HIDE DEF Action
    <3>2. QED
      BY <2>1, <3>1, AppendIds DEF WireInv
  <2>3. calls \in Nat
    BY ClientAssumption DEF ClientAssumption, CallsInv, TypeInv, TypeOK
  <2>4. QED
    BY <2>1, <2>2, <2>3 DEF WireInv, BoxInv, AnswerReachesWaiter
<1>3. CASE LoopClose
  BY <1>3, EmptyIds DEF LoopClose, WireInv, BoxInv, AnswerReachesWaiter
<1>4. CASE LoopLookup
  BY <1>4 DEF LoopLookup, WireInv, BoxInv, AnswerReachesWaiter
<1>5. CASE LoopInline
  <2>1. /\ UNCHANGED <<toPeer, toClient, block, calls, call, pc, box, pending>>
        /\ loop = "block" /\ loop' \in {"drop", "publish"}
        /\ block.id = NoId \/ block.id \notin pending
    BY <1>5 DEF LoopInline, HasWaiter
  <2>2. \A c \in Callers : pc[c] = "waiting" => call[c] # block.id
    BY <2>1 DEF CallsInv, PendingExact, CallsDistinct
  <2>3. QED
    BY <2>1, <2>2 DEF WireInv, BoxInv, AnswerReachesWaiter
<1>6. CASE Deliver
  <2>1. /\ UNCHANGED <<toPeer, toClient, block, calls, call, pc>>
        /\ loop = "deliver" /\ loop' = "read" /\ block.id # NoId
        /\ \A c \in Callers : box'[c] = IF call[c] = block.id /\ box[c] = "none"
                                        THEN block.kind ELSE box[c]
    BY <1>6 DEF Deliver, Owns, CallsInv, TypeInv, RoutedById
  <2>2. \A c \in Callers : call[c] = block.id => pc[c] \in {"waiting", "done"}
    BY <2>1 DEF CallsInv, CallsDistinct, BoxInv
  <2>3. QED
    BY <2>1, <2>2 DEF WireInv, BoxInv, AnswerReachesWaiter
<1>7. CASE \/ LoopTop \/ DialOk \/ DialFail \/ LoopSetConn \/ SessionError \/ LoopReadOn
           \/ LoopQuit \/ Publish \/ LoopDrop \/ LoopClear \/ LoopFailed
           \/ LoopSleepInterrupted \/ LoopWake
  <2>1. /\ UNCHANGED <<toPeer, toClient, block, calls, call, pc, box>>
        /\ loop \notin {"block", "deliver"} /\ loop' \notin {"block", "deliver"}
    BY <1>7 DEF LoopTop, DialOk, DialFail, LoopSetConn, SessionError, LoopReadOn, LoopQuit,
       Publish, LoopDrop, LoopClear, LoopFailed, LoopSleepInterrupted, LoopWake
  <2>2. QED
    BY <2>1 DEF WireInv, BoxInv, AnswerReachesWaiter
<1>8. QED
  BY <1>1, <1>2, <1>3, <1>4, <1>5, <1>6, <1>7 DEF LoopStep

(* A call's ActionID is new when stamped and is written once (client.go:103-137). *)
LEMMA WireCaller ==
  ASSUME CallsInv, WireInv, BoxInv, NEW c \in Callers, Begin(c) \/ SendBegin(c) \/ Proceed(c)
  PROVE  WireInv' /\ BoxInv'
<1>1. /\ calls \in Nat /\ toPeer \in Seq(Action)
      /\ pc \in [Callers -> CallerPc] /\ call \in [Callers -> CallId \cup {NoId}]
      /\ box \in [Callers -> {"none"} \cup Verdict]
  BY ClientAssumption DEF ClientAssumption, CallsInv, TypeInv, TypeOK
<1>2. CASE Begin(c) /\ conn # 0
  <2>1. /\ UNCHANGED <<toPeer, toClient, block, loop, box>>
        /\ calls' = calls + 1 /\ pc[c] = "idle"
        /\ call' = [call EXCEPT ![c] = calls + 1] /\ pc' = [pc EXCEPT ![c] = "registered"]
    BY <1>2 DEF Begin
  <2>2. /\ \A d \in Callers \ {c} : call'[d] = call[d] /\ pc'[d] = pc[d]
        /\ call'[c] = calls + 1 /\ pc'[c] = "registered" /\ box[c] = "none"
    BY <1>1, <2>1 DEF BoxInv
  <2>3. calls + 1 \notin IdsOf(toPeer) \cup IdsOf(toClient) \cup {block.id}
    BY <1>1 DEF WireInv
  <2>4. QED
    BY <1>1, <2>1, <2>2, <2>3 DEF WireInv, BoxInv, AnswerReachesWaiter
<1>3. CASE (Begin(c) /\ conn = 0) \/ SendBegin(c) \/ SendFail(c)
  <2>1. /\ UNCHANGED <<toPeer, toClient, block, loop, box, call>>
        /\ calls' \in {calls, calls + 1}
        /\ pc' = pc \/ \E k \in {"sending", "idle"} : pc' = [pc EXCEPT ![c] = k] /\ pc[c] \in {"idle", "sending"}
    BY <1>3 DEF Begin, SendBegin, SendFail
  <2>2. \A d \in Callers : pc'[d] = pc[d] \/ (pc'[d] \notin {"registered", "waiting"} /\ box[d] = "none")
    BY <1>1, <2>1 DEF BoxInv
  <2>3. QED
    BY <1>1, <2>1, <2>2 DEF WireInv, BoxInv, AnswerReachesWaiter
<1>4. CASE Write(c)
  <2>1. /\ UNCHANGED <<toClient, block, loop, box, call, calls>>
        /\ pc[c] = "registered" /\ pc' = [pc EXCEPT ![c] = "waiting"]
        /\ toPeer' = Append(toPeer, [id |-> call[c], kind |-> "action"])
    BY <1>4 DEF Write, WriteAction
  <2>2. /\ call[c] # NoId /\ box[c] = "none"
        /\ call[c] \notin IdsOf(toPeer) \cup IdsOf(toClient) \cup {block.id}
        /\ call[c] \in 0 .. calls
    BY <1>1, <2>1 DEF BoxInv, CallsInv, CallsDistinct
  <2>3. Once(toPeer') /\ IdsOf(toPeer') = IdsOf(toPeer) \cup {call[c]}
    <3>1. PICK a \in Action : a.id = call[c] /\ toPeer' = Append(toPeer, a)
      BY <1>1, <2>1
    <3> HIDE DEF Action
    <3>2. QED
      BY <1>1, <2>1, <2>2, <3>1, AppendIds DEF WireInv
  <2>4. \A d \in Callers \ {c} : pc'[d] = pc[d] /\ call[d] # call[c]
    BY <1>1, <2>1, <2>2 DEF CallsInv, CallsDistinct
  <2>5. pc'[c] = "waiting"
    BY <1>1, <2>1
  <2>6. QED
    BY <2>1, <2>2, <2>3, <2>4, <2>5 DEF WireInv, BoxInv, AnswerReachesWaiter
<1>5. CASE SendWrite(c)
  <2>1. /\ UNCHANGED <<toClient, block, loop, box, call, calls>>
        /\ pc[c] = "sending" /\ pc' = [pc EXCEPT ![c] = "idle"]
        /\ toPeer' = Append(toPeer, [id |-> NoId, kind |-> "action"])
    BY <1>5 DEF SendWrite, WriteAction
  <2>2. Once(toPeer') /\ IdsOf(toPeer') = IdsOf(toPeer) \cup {NoId}
    <3>1. PICK a \in Action : a.id = NoId /\ toPeer' = Append(toPeer, a)
      BY <1>1, <2>1
    <3> HIDE DEF Action
    <3>2. QED
      BY <1>1, <2>1, <3>1, AppendIds DEF WireInv
  <2>3. \A d \in Callers : pc'[d] = pc[d] \/ (pc'[d] = "idle" /\ box[d] = "none")
    BY <1>1, <2>1 DEF BoxInv
  <2>4. QED
    BY <1>1, <2>1, <2>2, <2>3 DEF WireInv, BoxInv, AnswerReachesWaiter
<1>6. CASE WriteFail(c) \/ Receive(c) \/ Timeout(c)
  <2>1. /\ UNCHANGED <<toPeer, toClient, block, loop, box, call, calls>>
        /\ pc[c] \in {"registered", "waiting"} /\ pc' = [pc EXCEPT ![c] = "done"]
    BY <1>6 DEF WriteFail, Receive, Timeout, MayTimeOut, Conclude
  <2>2. \A d \in Callers : pc'[d] = pc[d] \/ pc'[d] = "done"
    BY <1>1, <2>1
  <2>3. QED
    BY <2>1, <2>2 DEF WireInv, BoxInv, AnswerReachesWaiter
<1>7. CASE Return(c)
  <2>1. /\ UNCHANGED <<toPeer, toClient, block, loop, calls>>
        /\ pc' = [pc EXCEPT ![c] = "idle"] /\ call' = [call EXCEPT ![c] = NoId]
        /\ box' = [box EXCEPT ![c] = "none"]
    BY <1>7 DEF Return
  <2>2. /\ \A d \in Callers \ {c} : pc'[d] = pc[d] /\ call'[d] = call[d] /\ box'[d] = box[d]
        /\ pc'[c] = "idle" /\ call'[c] = NoId /\ box'[c] = "none"
    BY <1>1, <2>1
  <2>3. QED
    BY <2>1, <2>2 DEF WireInv, BoxInv, AnswerReachesWaiter
<1>8. QED
  BY <1>2, <1>3, <1>4, <1>5, <1>6, <1>7 DEF Proceed

(* The peer answers what it took, once; the network may lose it. *)
LEMMA WirePeer ==
  ASSUME CallsInv, WireInv, BoxInv, Environment
  PROVE  WireInv' /\ BoxInv'
<1>1. /\ calls \in Nat /\ toPeer \in Seq(Action) /\ toClient \in Seq(Block)
  BY ClientAssumption DEF ClientAssumption, CallsInv, TypeInv, TypeOK
<1>2. UNCHANGED <<block, loop, box, call, calls, pc>>
  BY DEF Environment, PeerGreet, PeerLogin, PeerAnswer, PeerEvent, PeerClose, PeerReply
<1>3. CASE PeerGreet \/ PeerEvent
  <2>1. PICK b \in Block : b.id = NoId /\ toClient' = Append(toClient, b) /\ toPeer' = toPeer
    BY <1>3 DEF PeerGreet, PeerEvent
  <2>2. Once(toClient') /\ IdsOf(toClient') = IdsOf(toClient) \cup {NoId}
    BY <1>1, <2>1, AppendIds DEF WireInv
  <2>3. QED
    BY <1>1, <1>2, <2>1, <2>2 DEF WireInv, BoxInv, AnswerReachesWaiter
<1>4. CASE PeerLogin \/ PeerAnswer
  <2>1. /\ toPeer # <<>> /\ toPeer' = Tail(toPeer)
        /\ \E b \in Block : b.id \in {NoId, Head(toPeer).id} /\ toClient' = Append(toClient, b)
    <3>1. CASE PeerLogin
      BY <3>1 DEF PeerLogin, PeerReply
    <3>2. CASE PeerAnswer
      <4>1. toPeer # <<>>
        BY <3>2 DEF PeerAnswer, PeerReply
      <4>2. Head(toPeer) \in Action
        BY <1>1, <4>1, HeadTailProperties
      <4>3. QED
        BY <3>2, <4>2 DEF PeerAnswer, PeerReply
    <3>3. QED
      BY <1>4, <3>1, <3>2
  <2>2. PICK b \in Block : b.id \in {NoId, Head(toPeer).id} /\ toClient' = Append(toClient, b)
    BY <2>1
  <2>3. /\ Head(toPeer).id \in IdsOf(toPeer)
        /\ Once(toPeer') /\ IdsOf(toPeer') \subseteq IdsOf(toPeer)
        /\ Head(toPeer).id # NoId => Head(toPeer).id \notin IdsOf(toPeer')
    BY <1>1, <2>1, TailIds DEF WireInv
  <2>4. b.id # NoId => b.id \notin IdsOf(toClient)
    BY <2>2, <2>3 DEF WireInv
  <2>5. Once(toClient') /\ IdsOf(toClient') = IdsOf(toClient) \cup {b.id}
    BY <1>1, <2>2, <2>4, AppendIds DEF WireInv
  <2>6. QED
    BY <1>1, <1>2, <2>2, <2>3, <2>5 DEF WireInv, BoxInv, AnswerReachesWaiter
<1>5. CASE PeerClose
  <2>1. PICK n \in 0 .. Len(toClient) : toClient' = SubSeq(toClient, 1, n)
    BY <1>5 DEF PeerClose
  <2>2. Once(toClient') /\ IdsOf(toClient') \subseteq IdsOf(toClient) /\ toPeer' = toPeer
    BY <1>1, <1>5, <2>1, PrefixIds DEF WireInv, PeerClose
  <2>3. QED
    BY <1>1, <1>2, <2>2 DEF WireInv, BoxInv, AnswerReachesWaiter
<1>6. QED
  BY <1>3, <1>4, <1>5 DEF Environment

(* Every step keeps answers unique and delivers what it takes. *)
LEMMA WireStep ==
  ASSUME CallsInv, WireInv, BoxInv, [Next]_vars
  PROVE  WireInv' /\ BoxInv'
<1>1. CASE StopQuit \/ StopClose \/ CancelCtx \/ Drain \/ Finished \/ UNCHANGED vars
  <2>1. UNCHANGED <<toPeer, toClient, block, loop, box, call, calls, pc>>
    BY <1>1 DEF StopQuit, StopClose, CancelCtx, Drain, Finished
  <2>2. QED
    BY <2>1 DEF WireInv, BoxInv, AnswerReachesWaiter
<1>2. QED
  BY <1>1, WireLoop, WireCaller, WirePeer DEF Next

(* All three hold throughout. *)
LEMMA WireInductive == Spec => [](CallsInv /\ WireInv /\ BoxInv)
<1>1. Init => CallsInv /\ WireInv /\ BoxInv
  BY TypeInit, WireInit DEF Init, CallsInv, PendingExact, CallsDistinct
<1>2. CallsInv /\ WireInv /\ BoxInv /\ [Next]_vars => (CallsInv /\ WireInv /\ BoxInv)'
  BY TypeStep, CallsStep, WireStep DEF CallsInv
<1>3. QED
  BY <1>1, <1>2, PTL DEF Spec

(* Once readLoop has taken the answer to a waiting call the caller's       *)
(* channel holds it: with any number of concurrent calls, timeouts and     *)
(* reconnects, no answer becomes an event or a Login verdict, or is lost   *)
(* to a full channel (client.go:288-313).                                  *)
THEOREM EveryAnswerReachesItsWaiter == Spec => []AnswerReachesWaiter
<1>1. BoxInv => AnswerReachesWaiter
  BY DEF BoxInv
<1>2. QED
  BY <1>1, WireInductive, PTL

-----------------------------------------------------------------------------
(* The client implements ActionCall                                        *)

(* Every block of s with this ActionID carries the verdict v. *)
Agrees(s, id, v) == \A i \in 1 .. Len(s) : s[i].id = id => s[i].kind = v

(* What a sequence keeps agreeing on, as blocks come and go. *)
LEMMA AgreesAppend ==
  ASSUME NEW S, NEW s \in Seq(S), NEW b \in S, NEW id, NEW v,
         Agrees(s, id, v), b.id = id => b.kind = v
  PROVE  Agrees(Append(s, b), id, v)
<1>1. /\ Len(s) \in Nat /\ Len(Append(s, b)) = Len(s) + 1
      /\ Append(s, b)[Len(s) + 1] = b /\ \A i \in 1 .. Len(s) : Append(s, b)[i] = s[i]
  BY AppendProperties
<1>2. 1 .. Len(s) + 1 = (1 .. Len(s)) \cup {Len(s) + 1}
  BY <1>1
<1>3. QED
  BY <1>1, <1>2 DEF Agrees

(* The head agrees as well, and the rest goes on to. *)
LEMMA AgreesTail ==
  ASSUME NEW S, NEW s \in Seq(S), s # <<>>, NEW id, NEW v, Agrees(s, id, v)
  PROVE  Agrees(Tail(s), id, v) /\ (Head(s).id = id => Head(s).kind = v)
<1>1. /\ Len(s) \in Nat \ {0} /\ Len(Tail(s)) = Len(s) - 1
      /\ \A i \in 1 .. Len(s) - 1 : Tail(s)[i] = s[i + 1]
  BY HeadTailProperties, LenProperties, EmptySeq
<1>2. Head(s) = s[1]
  OBVIOUS
<1>3. \A i \in 1 .. Len(s) - 1 : i + 1 \in 1 .. Len(s)
  BY <1>1
<1>4. 1 \in 1 .. Len(s)
  BY <1>1
<1>5. QED
  BY <1>1, <1>2, <1>3, <1>4 DEF Agrees

(* So does what is left when the end of a connection cuts it short. *)
LEMMA AgreesPrefix ==
  ASSUME NEW S, NEW s \in Seq(S), NEW k \in 0 .. Len(s), NEW id, NEW v, Agrees(s, id, v)
  PROVE  Agrees(SubSeq(s, 1, k), id, v)
<1>1. /\ Len(s) \in Nat /\ Len(SubSeq(s, 1, k)) = k
      /\ \A i \in 1 .. k : SubSeq(s, 1, k)[i] = s[i]
  BY SubSeqProperties
<1>2. 1 .. k \subseteq 1 .. Len(s)
  BY <1>1
<1>3. QED
  BY <1>1, <1>2 DEF Agrees
(* Without a block of that ActionID there is nothing to agree on. *)
LEMMA AgreesAbsent ==
  ASSUME NEW s, NEW id, NEW v, id \notin IdsOf(s) PROVE Agrees(s, id, v)
  BY DEF Agrees, IdsOf

(* The peer has not yet answered what is still to be written or on its way *)
(* to it; what comes back, what readLoop holds and what a channel holds is *)
(* the verdict it gave; and a call has an outcome once it is done.         *)
SaidOf(c) ==
  /\ out[c] # "none" <=> pc[c] = "done"
  /\ call[c] = NoId => said[c] = "none"
  /\ box[c] # "none" => box[c] = said[c]
  /\ call[c] # NoId =>
       /\ pc[c] = "registered" \/ call[c] \in IdsOf(toPeer) => said[c] = "none"
       /\ Agrees(toClient, call[c], said[c])
       /\ block.id = call[c] => block.kind = said[c]
SaidInv == \A c \in Callers : SaidOf(c)
PromiseInv == CallsInv /\ WireInv /\ BoxInv /\ SaidInv

saidVars == <<pc, call, box, out, said, toPeer, toClient, block>>

(* What leaves calls and messages alone keeps SaidInv and is a stutter. *)
LEMMA SaidKept == SaidInv /\ UNCHANGED saidVars => SaidInv'
  BY DEF saidVars, SaidInv, SaidOf

(* The reconnect goroutine hands on the verdicts it reads as they are     *)
(* (client.go:241-343).                                                    *)
LEMMA SaidLoop == PromiseInv /\ LoopStep => SaidInv'
<1> SUFFICES ASSUME PromiseInv, LoopStep PROVE SaidInv'
  OBVIOUS
<1>1. /\ toPeer \in Seq(Action) /\ toClient \in Seq(Block) /\ UNCHANGED <<pc, call, out, said>>
  BY DEF PromiseInv, CallsInv, TypeInv, TypeOK, LoopStep, LoopTop, DialOk, DialFail, LoopSetConn,
     LoopBanner, LoopLogin, SessionError, LoopReadOn, LoopQuit, LoopRecv, LoopLookup, LoopInline,
     Deliver, Publish, LoopDrop, LoopClose, LoopClear, LoopFailed, LoopSleepInterrupted, LoopWake
<1>2. CASE LoopBanner \/ LoopRecv
  <2>1. /\ toClient # <<>> /\ toClient' = Tail(toClient) /\ UNCHANGED <<toPeer, box>>
        /\ block' = block \/ block' = Head(toClient)
    BY <1>2 DEF LoopBanner, LoopRecv
  <2>2. ASSUME NEW c \in Callers, call[c] # NoId
        PROVE  Agrees(toClient', call[c], said[c]) /\ (block'.id = call[c] => block'.kind = said[c])
    <3>1. Agrees(toClient, call[c], said[c]) /\ (block.id = call[c] => block.kind = said[c])
      BY <2>2 DEF PromiseInv, SaidInv, SaidOf
    <3>2. Agrees(Tail(toClient), call[c], said[c]) /\ (Head(toClient).id = call[c] => Head(toClient).kind = said[c])
      BY <1>1, <2>1, <3>1, AgreesTail
    <3>3. QED
      BY <2>1, <3>1, <3>2
  <2>3. QED
    BY <1>1, <2>1, <2>2 DEF PromiseInv, SaidInv, SaidOf
<1>3. CASE LoopLogin
  <2>1. /\ toPeer' = Append(toPeer, [id |-> NoId, kind |-> "login"])
        /\ UNCHANGED <<toClient, box, block>>
    BY <1>3 DEF LoopLogin
  <2>2. PICK a \in Action : a.id = NoId /\ toPeer' = Append(toPeer, a)
    BY <2>1
  <2> HIDE DEF Action
  <2>3. IdsOf(toPeer') = IdsOf(toPeer) \cup {NoId}
    BY <1>1, <2>2, AppendIds DEF PromiseInv, WireInv
  <2>4. QED
    BY <1>1, <2>1, <2>3 DEF PromiseInv, SaidInv, SaidOf
<1>4. CASE LoopClose
  <2>1. toPeer' = <<>> /\ toClient' = <<>> /\ UNCHANGED <<box, block>>
    BY <1>4 DEF LoopClose
  <2>2. \A c \in Callers : Agrees(toClient', call[c], said[c])
    BY <2>1, EmptyIds, AgreesAbsent
  <2>3. QED
    BY <1>1, <2>1, <2>2, EmptyIds DEF PromiseInv, SaidInv, SaidOf
<1>5. CASE Deliver
  <2>1. /\ UNCHANGED <<toPeer, toClient, block>> /\ block.id # NoId
        /\ \A c \in Callers : box'[c] = IF call[c] = block.id /\ box[c] = "none"
                                        THEN block.kind ELSE box[c]
    BY <1>5 DEF Deliver, Owns, PromiseInv, CallsInv, TypeInv, RoutedById
  <2>2. \A c \in Callers : box'[c] # "none" => box'[c] = said[c]
    BY <2>1 DEF PromiseInv, SaidInv, SaidOf
  <2>3. QED
    BY <1>1, <2>1, <2>2 DEF PromiseInv, SaidInv, SaidOf
<1>6. CASE \/ LoopTop \/ DialOk \/ DialFail \/ LoopSetConn \/ SessionError \/ LoopReadOn
           \/ LoopQuit \/ LoopLookup \/ LoopInline \/ Publish \/ LoopDrop \/ LoopClear
           \/ LoopFailed \/ LoopSleepInterrupted \/ LoopWake
  <2>1. UNCHANGED saidVars
    BY <1>6 DEF saidVars, LoopTop, DialOk, DialFail, LoopSetConn, SessionError, LoopReadOn,
       LoopQuit, LoopLookup, LoopInline, Publish, LoopDrop, LoopClear, LoopFailed,
       LoopSleepInterrupted, LoopWake
  <2>2. QED
    BY <2>1, SaidKept DEF PromiseInv
<1>7. QED
  BY <1>2, <1>3, <1>4, <1>5, <1>6 DEF LoopStep

(* A call starts with nothing said about it, and ends forgetting what was  *)
(* (client.go:90-156).                                                     *)
LEMMA SaidCaller ==
  ASSUME PromiseInv, NEW c \in Callers, Begin(c) \/ SendBegin(c) \/ Proceed(c)
  PROVE  SaidInv'
<1>1. /\ calls \in Nat /\ toPeer \in Seq(Action) /\ toClient \in Seq(Block)
      /\ pc \in [Callers -> CallerPc] /\ call \in [Callers -> CallId \cup {NoId}]
      /\ box \in [Callers -> {"none"} \cup Verdict]
      /\ out \in [Callers -> {"none", "fail"} \cup Verdict]
      /\ said \in [Callers -> {"none"} \cup Verdict]
  BY ClientAssumption DEF ClientAssumption, PromiseInv, CallsInv, TypeInv, TypeOK
<1>2. \A d \in Callers : SaidOf(d)
  BY DEF PromiseInv, SaidInv
<1>3. CASE Begin(c) /\ conn # 0
  <2>1. /\ UNCHANGED <<toPeer, toClient, block, box, out, said>> /\ pc[c] = "idle"
        /\ call' = [call EXCEPT ![c] = calls + 1] /\ pc' = [pc EXCEPT ![c] = "registered"]
    BY <1>3 DEF Begin, PromiseInv
  <2>2. call[c] = NoId /\ box[c] = "none" /\ out[c] = "none" /\ said[c] = "none"
    BY <1>1, <1>2, <2>1 DEF PromiseInv, CallsInv, CallsDistinct, BoxInv, SaidOf
  <2>3. calls + 1 \notin IdsOf(toPeer) \cup IdsOf(toClient) \cup {block.id}
    BY <1>1 DEF PromiseInv, WireInv
  <2>4. Agrees(toClient, calls + 1, said[c])
    BY <2>3, AgreesAbsent
  <2>5. SaidOf(c)'
    BY <1>1, <2>1, <2>2, <2>3, <2>4 DEF SaidOf
  <2>6. \A d \in Callers \ {c} : SaidOf(d)'
    BY <1>1, <1>2, <2>1 DEF SaidOf
  <2>7. QED
    BY <2>5, <2>6 DEF SaidInv
<1>4. CASE (Begin(c) /\ conn = 0) \/ SendBegin(c) \/ SendFail(c)
  <2>1. /\ UNCHANGED <<toPeer, toClient, block, box, call, out, said>>
        /\ pc' = pc \/ \E k \in {"sending", "idle"} : pc' = [pc EXCEPT ![c] = k] /\ pc[c] \in {"idle", "sending"}
    BY <1>4 DEF Begin, SendBegin, SendFail
  <2>2. \A d \in Callers : pc'[d] = pc[d] \/ (pc'[d] \in {"idle", "sending"} /\ pc[d] \in {"idle", "sending"})
    BY <1>1, <2>1
  <2>3. \A d \in Callers : SaidOf(d)'
    BY <1>2, <2>1, <2>2 DEF SaidOf
  <2>4. QED
    BY <2>3 DEF SaidInv
<1>5. CASE Write(c) \/ SendWrite(c)
  <2>1. /\ UNCHANGED <<toClient, block, box, call, out, said>>
        /\ \/ /\ pc[c] = "registered" /\ pc' = [pc EXCEPT ![c] = "waiting"]
              /\ toPeer' = Append(toPeer, [id |-> call[c], kind |-> "action"])
           \/ /\ pc[c] = "sending" /\ pc' = [pc EXCEPT ![c] = "idle"]
              /\ toPeer' = Append(toPeer, [id |-> NoId, kind |-> "action"])
    BY <1>5 DEF Write, SendWrite, WriteAction
  <2>2. PICK a \in Action : /\ toPeer' = Append(toPeer, a)
                            /\ a.id # NoId => pc[c] = "registered" /\ a.id = call[c]
    BY <1>1, <2>1
  <2>3. a.id # NoId => a.id \notin IdsOf(toPeer)
    BY <2>2 DEF PromiseInv, BoxInv
  <2>4. IdsOf(toPeer') = IdsOf(toPeer) \cup {a.id}
    <3> HIDE DEF Action
    <3>1. QED
      BY <1>1, <2>2, <2>3, AppendIds DEF PromiseInv, WireInv
  <2>5. \A d \in Callers : call[d] = a.id /\ a.id # NoId => said[d] = "none"
    BY <1>2, <2>2 DEF SaidOf, PromiseInv, CallsInv, CallsDistinct
  <2>6. \A d \in Callers : pc'[d] = pc[d] \/ (pc[d] # "done" /\ pc'[d] \notin {"done", "registered"})
    BY <1>1, <2>1
  <2>7. \A d \in Callers : SaidOf(d)'
    BY <1>2, <2>1, <2>4, <2>5, <2>6 DEF SaidOf
  <2>8. QED
    BY <2>7 DEF SaidInv
<1>6. CASE WriteFail(c) \/ Receive(c) \/ Timeout(c)
  <2>1. /\ UNCHANGED <<toPeer, toClient, block, box, call, said>>
        /\ pc' = [pc EXCEPT ![c] = "done"]
        /\ out' = [out EXCEPT ![c] = "fail"] \/ (out' = [out EXCEPT ![c] = box[c]] /\ box[c] # "none")
    BY <1>6 DEF WriteFail, Receive, Timeout, MayTimeOut, Conclude
  <2>2. pc'[c] = "done" /\ out'[c] # "none"
    BY <1>1, <2>1
  <2>3. \A d \in Callers \ {c} : pc'[d] = pc[d] /\ out'[d] = out[d]
    BY <1>1, <2>1
  <2>4. \A d \in Callers : SaidOf(d)'
    BY <1>2, <2>1, <2>2, <2>3 DEF SaidOf
  <2>5. QED
    BY <2>4 DEF SaidInv
<1>7. CASE Return(c)
  <2>1. /\ UNCHANGED <<toPeer, toClient, block>>
        /\ \A d \in Callers \ {c} : /\ pc'[d] = pc[d] /\ call'[d] = call[d] /\ box'[d] = box[d]
                                    /\ out'[d] = out[d] /\ said'[d] = said[d]
        /\ pc'[c] = "idle" /\ call'[c] = NoId /\ box'[c] = "none"
        /\ out'[c] = "none" /\ said'[c] = "none"
    BY <1>1, <1>7 DEF Return
  <2>2. \A d \in Callers : SaidOf(d)'
    BY <1>2, <2>1 DEF SaidOf
  <2>3. QED
    BY <2>2 DEF SaidInv
<1>8. QED
  BY <1>3, <1>4, <1>5, <1>6, <1>7 DEF Proceed

(* The peer answers an action once, and that answer is all that is said of *)
(* it.                                                                     *)
LEMMA SaidPeer == PromiseInv /\ Environment => SaidInv'
<1> SUFFICES ASSUME PromiseInv, Environment PROVE SaidInv'
  OBVIOUS
<1>1. /\ toPeer \in Seq(Action) /\ toClient \in Seq(Block)
      /\ call \in [Callers -> CallId \cup {NoId}]
      /\ said \in [Callers -> {"none"} \cup Verdict]
      /\ \A d \in Callers : SaidOf(d)
  BY DEF PromiseInv, CallsInv, TypeInv, TypeOK, SaidInv
<1>2. UNCHANGED <<block, box, call, out, pc>>
  BY DEF Environment, PeerGreet, PeerLogin, PeerAnswer, PeerEvent, PeerClose, PeerReply
<1>3. CASE PeerGreet \/ PeerEvent
  <2>1. PICK b \in Block : b.id = NoId /\ toClient' = Append(toClient, b) /\ UNCHANGED <<toPeer, said>>
    BY <1>3 DEF PeerGreet, PeerEvent
  <2>2. \A d \in Callers : call[d] # NoId => Agrees(toClient', call[d], said[d])
    BY <1>1, <2>1, AgreesAppend DEF SaidOf
  <2>3. QED
    BY <1>1, <1>2, <2>1, <2>2 DEF SaidInv, SaidOf
<1>4. CASE PeerLogin
  <2>1. /\ toPeer # <<>> /\ toPeer' = Tail(toPeer) /\ UNCHANGED said
        /\ \E b \in Block : b.id = NoId /\ toClient' = Append(toClient, b)
    BY <1>4 DEF PeerLogin, PeerReply
  <2>2. PICK b \in Block : b.id = NoId /\ toClient' = Append(toClient, b)
    BY <2>1
  <2>3. \A d \in Callers : call[d] # NoId => Agrees(toClient', call[d], said[d])
    BY <1>1, <2>2, AgreesAppend DEF SaidOf
  <2>4. IdsOf(toPeer') \subseteq IdsOf(toPeer)
    BY <1>1, <2>1, TailIds DEF PromiseInv, WireInv
  <2>5. QED
    BY <1>1, <1>2, <2>1, <2>3, <2>4 DEF SaidInv, SaidOf
<1>5. CASE PeerAnswer
  <2> DEFINE id == Head(toPeer).id
  <2>1. PICK v \in Verdict :
          /\ PeerReply("action", [id |-> id, kind |-> v])
          /\ said' = [c \in Callers |-> IF call[c] # NoId /\ call[c] = id THEN v ELSE said[c]]
    BY <1>5 DEF PeerAnswer
  <2>2. toPeer # <<>> /\ toPeer' = Tail(toPeer) /\ toClient' = Append(toClient, [id |-> id, kind |-> v])
    BY <2>1 DEF PeerReply
  <2>3. /\ id \in IdsOf(toPeer) /\ IdsOf(toPeer') \subseteq IdsOf(toPeer)
        /\ id # NoId => id \notin IdsOf(toPeer')
    BY <1>1, <2>2, TailIds DEF PromiseInv, WireInv
  <2>4. [id |-> id, kind |-> v] \in Block
    <3>1. Head(toPeer) \in Action
      BY <1>1, <2>2, HeadTailProperties
    <3>2. QED
      BY <3>1
  <2>5. id # NoId => id \notin IdsOf(toClient) /\ block.id # id
    BY <2>3 DEF PromiseInv, WireInv
  <2>6. PICK b \in Block : b.id = id /\ b.kind = v /\ toClient' = Append(toClient, b)
    BY <2>2, <2>4
  <2> HIDE DEF id, Block
  <2>7. ASSUME NEW d \in Callers, call[d] # NoId, call[d] = id PROVE SaidOf(d)'
    <3>1. said'[d] = v /\ said[d] = "none" /\ box[d] = "none"
      BY <1>1, <2>1, <2>3, <2>7 DEF SaidOf, PromiseInv, BoxInv
    <3>2. Agrees(toClient, call[d], v)
      BY <2>5, <2>7, AgreesAbsent
    <3>3. Agrees(toClient', call[d], v)
      BY <1>1, <2>6, <2>7, <3>2, AgreesAppend
    <3>4. pc[d] # "registered"
      BY <2>3, <2>7 DEF PromiseInv, BoxInv
    <3>5. QED
      BY <1>1, <1>2, <2>3, <2>5, <2>7, <3>1, <3>3, <3>4 DEF SaidOf
  <2>8. ASSUME NEW d \in Callers, call[d] = NoId \/ call[d] # id PROVE SaidOf(d)'
    <3>1. said'[d] = said[d]
      BY <2>1, <2>8
    <3>2. call[d] # NoId => Agrees(toClient', call[d], said[d])
      BY <1>1, <2>6, <2>8, AgreesAppend DEF SaidOf
    <3>3. QED
      BY <1>1, <1>2, <2>3, <3>1, <3>2 DEF SaidOf
  <2>9. QED
    BY <2>7, <2>8 DEF SaidInv
<1>6. CASE PeerClose
  <2>1. PICK n \in 0 .. Len(toClient) : toClient' = SubSeq(toClient, 1, n)
    BY <1>6 DEF PeerClose
  <2>2. \A d \in Callers : call[d] # NoId => Agrees(toClient', call[d], said[d])
    BY <1>1, <2>1, AgreesPrefix DEF SaidOf
  <2>3. UNCHANGED <<toPeer, said>>
    BY <1>6 DEF PeerClose
  <2>4. QED
    BY <1>1, <1>2, <2>2, <2>3 DEF SaidInv, SaidOf
<1>7. QED
  BY <1>3, <1>4, <1>5, <1>6 DEF Environment

(* Every step keeps it, and the whole holds throughout. *)
LEMMA SaidStep == PromiseInv /\ [Next]_vars => SaidInv'
<1> SUFFICES ASSUME PromiseInv, [Next]_vars PROVE SaidInv'
  OBVIOUS
<1>1. CASE StopQuit \/ StopClose \/ CancelCtx \/ Drain \/ Finished \/ UNCHANGED vars
  <2>1. UNCHANGED saidVars
    BY <1>1 DEF saidVars, StopQuit, StopClose, CancelCtx, Drain, Finished
  <2>2. QED
    BY <2>1, SaidKept DEF PromiseInv
<1>2. QED
  BY <1>1, SaidLoop, SaidCaller, SaidPeer DEF Next

(* The verdicts agree in every reachable state. *)
LEMMA PromiseInductive == Spec => []PromiseInv
<1>1. Init => SaidInv
  <2> SUFFICES ASSUME Init PROVE SaidInv
    OBVIOUS
  <2>1. \A c \in Callers : SaidOf(c)
    BY DEF Init, SaidOf
  <2>2. QED
    BY <2>1 DEF SaidInv
<1>2. PromiseInv /\ [Next]_vars => SaidInv'
  BY SaidStep
<1>3. CallsInv /\ WireInv /\ BoxInv /\ SaidInv <=> PromiseInv
  BY DEF PromiseInv
<1>4. QED
  BY <1>1, <1>2, <1>3, WireInductive, PTL DEF Spec

(* Beginning spends an ActionID or opens a call; concluding and returning  *)
(* are the promise's own steps (client.go:90-156).                         *)
LEMMA CallerImplements ==
  ASSUME PromiseInv, NEW c \in Callers, Begin(c) \/ SendBegin(c) \/ Proceed(c)
  PROVE  [Promise!Next]_Promise!promiseVars
<1>1. /\ pc \in [Callers -> CallerPc] /\ out \in [Callers -> {"none", "fail"} \cup Verdict]
      /\ SaidOf(c) /\ (InFlight(c) <=> call[c] # NoId)
  BY DEF PromiseInv, CallsInv, TypeInv, TypeOK, SaidInv, CallsDistinct
<1>2. CASE (Begin(c) /\ conn = 0) \/ SendBegin(c)
  <2>1. Promise!Spend
    BY <1>2 DEF Begin, SendBegin, Promise!Spend
  <2>2. QED
    BY <2>1 DEF Promise!Next
<1>3. CASE Begin(c) /\ conn # 0
  <2>1. Promise!Open(c)
    BY <1>1, <1>3 DEF Begin, Promise!Open
  <2>2. QED
    BY <2>1 DEF Promise!Next
<1>4. CASE Write(c) \/ SendWrite(c) \/ SendFail(c)
  BY <1>4 DEF Write, SendWrite, SendFail, WriteAction, Promise!promiseVars
<1>5. CASE WriteFail(c) \/ Receive(c) \/ Timeout(c)
  <2>1. /\ pc[c] \in {"registered", "waiting"} /\ UNCHANGED <<call, said, calls>>
        /\ \E v \in {box[c], "fail"} \ {"none"} : out' = [out EXCEPT ![c] = v]
    BY <1>5 DEF WriteFail, Receive, Timeout, MayTimeOut, Conclude
  <2>2. PICK v \in {box[c], "fail"} \ {"none"} : out' = [out EXCEPT ![c] = v]
    BY <2>1
  <2>3. v \in {said[c], "fail"} \ {"none"} /\ out[c] = "none" /\ call[c] # NoId
    BY <1>1, <2>1, <2>2 DEF SaidOf
  <2>4. Promise!Conclude(c)
    BY <2>1, <2>2, <2>3 DEF Promise!Conclude
  <2>5. QED
    BY <2>4 DEF Promise!Next
<1>6. CASE Return(c)
  <2>1. Promise!Close(c)
    BY <1>1, <1>6 DEF Return, SaidOf, Promise!Close
  <2>2. QED
    BY <2>1 DEF Promise!Next
<1>7. QED
  BY <1>2, <1>3, <1>4, <1>5, <1>6 DEF Proceed

(* The peer's answer to an open call is the promise's, and comes once; an  *)
(* answer to anything else is a stutter.                                   *)
LEMMA AnswerImplements ==
  ASSUME PromiseInv, PeerAnswer
  PROVE  [Promise!Next]_Promise!promiseVars
<1> DEFINE id == Head(toPeer).id
<1>1. PICK v \in Verdict :
        /\ PeerReply("action", [id |-> id, kind |-> v])
        /\ said' = [c \in Callers |-> IF call[c] # NoId /\ call[c] = id THEN v ELSE said[c]]
  BY DEF PeerAnswer
<1>2. id \in IdsOf(toPeer)
  BY <1>1, TailIds DEF PeerReply, PromiseInv, CallsInv, TypeInv, TypeOK, WireInv
<1>3. UNCHANGED <<call, out, calls>>
  BY <1>1 DEF PeerReply
<1>4. said \in [Callers -> {"none"} \cup Verdict]
  BY DEF PromiseInv, CallsInv, TypeInv, TypeOK
<1> HIDE DEF id
<1>5. CASE \E c \in Callers : call[c] # NoId /\ call[c] = id
  <2>1. PICK c \in Callers : call[c] # NoId /\ call[c] = id
    BY <1>5
  <2>2. \A d \in Callers : call[d] # NoId /\ call[d] = id => d = c
    BY <2>1 DEF PromiseInv, CallsInv, CallsDistinct
  <2>3. said' = [said EXCEPT ![c] = v]
    BY <1>1, <1>4, <2>1, <2>2
  <2>4. said[c] = "none"
    BY <1>2, <2>1 DEF PromiseInv, SaidInv, SaidOf
  <2>5. Promise!Answer(c)
    BY <1>3, <2>1, <2>3, <2>4 DEF Promise!Answer
  <2>6. QED
    BY <2>5 DEF Promise!Next
<1>6. CASE ~ \E c \in Callers : call[c] # NoId /\ call[c] = id
  <2>1. said' = said
    BY <1>1, <1>4, <1>6
  <2>2. QED
    BY <1>3, <2>1 DEF Promise!promiseVars
<1>7. QED
  BY <1>5, <1>6

(* Every step is one of ActionCall or a stutter. *)
LEMMA StepImplements == PromiseInv /\ [Next]_vars => [Promise!Next]_Promise!promiseVars
<1> SUFFICES ASSUME PromiseInv, [Next]_vars PROVE [Promise!Next]_Promise!promiseVars
  OBVIOUS
<1>1. CASE LoopStep
  <2>1. UNCHANGED <<call, out, said, calls>>
    BY <1>1 DEF LoopStep, LoopTop, DialOk, DialFail, LoopSetConn, LoopBanner, LoopLogin,
       SessionError, LoopReadOn, LoopQuit, LoopRecv, LoopLookup, LoopInline, Deliver, Publish,
       LoopDrop, LoopClose, LoopClear, LoopFailed, LoopSleepInterrupted, LoopWake
  <2>2. QED
    BY <2>1 DEF Promise!promiseVars
<1>2. CASE \/ StopQuit \/ StopClose \/ CancelCtx \/ Drain \/ Finished \/ UNCHANGED vars
           \/ PeerGreet \/ PeerLogin \/ PeerEvent \/ PeerClose
  <2>1. UNCHANGED <<call, out, said, calls>>
    BY <1>2 DEF StopQuit, StopClose, CancelCtx, Drain, Finished, PeerGreet, PeerLogin, PeerReply,
       PeerEvent, PeerClose
  <2>2. QED
    BY <2>1 DEF Promise!promiseVars
<1>3. QED
  BY <1>1, <1>2, CallerImplements, AnswerImplements DEF Next, Environment

(* The client implements the safety of ActionCall: with any number of      *)
(* concurrent calls, late and lost answers, timeouts and reconnects, a     *)
(* call concludes once, with the verdict the peer gave on that very action *)
(* or by failing (client.go:103-137, 288-300).                             *)
THEOREM PromiseIsKept == Spec => KeepsPromise
<1>1. Init => Promise!Init
  BY DEF Init, Promise!Init
<1>2. PromiseInv /\ [Next]_vars => [Promise!Next]_Promise!promiseVars
  BY StepImplements
<1>3. QED
  BY <1>1, <1>2, PromiseInductive, PTL DEF Spec, KeepsPromise

=============================================================================
