---------------------------- MODULE ActionCall -----------------------------
(***************************************************************************)
(* What SendActionWait promises, without connections, maps or channels:    *)
(* a caller has at most one call open; ActionIDs are never reused; a call  *)
(* concludes at most once, with the verdict the peer gave on that very     *)
(* action, or by failing; and every open call ends.                        *)
(***************************************************************************)
EXTENDS Naturals

CONSTANTS Callers

VARIABLES
  current,     \* ActionID of each caller's open call, 0 when it has none
  verdict,     \* how each caller's open call has concluded, if it has
  answered,    \* the peer's verdict on each caller's open action, if given
  last         \* the latest ActionID stamped

promiseVars == <<current, verdict, answered, last>>

Init ==
  /\ current = [c \in Callers |-> 0]
  /\ verdict = [c \in Callers |-> "none"]
  /\ answered = [c \in Callers |-> "none"]
  /\ last = 0

(* A call opens under an ActionID no call has had before. *)
Open(c) ==
  /\ current[c] = 0
  /\ last' = last + 1
  /\ current' = [current EXCEPT ![c] = last + 1]
  /\ UNCHANGED <<verdict, answered>>

(* An ActionID is stamped, but nothing waits for its answer. *)
Spend ==
  /\ last' = last + 1
  /\ UNCHANGED <<current, verdict, answered>>

(* The peer answers an open action, once. *)
Answer(c) ==
  /\ current[c] # 0 /\ answered[c] = "none"
  /\ \E v \in {"ok", "err"} : answered' = [answered EXCEPT ![c] = v]
  /\ UNCHANGED <<current, verdict, last>>

(* An open call learns the verdict on its own action, or gives up. *)
Conclude(c) ==
  /\ current[c] # 0 /\ verdict[c] = "none"
  /\ \E v \in {answered[c], "fail"} \ {"none"} : verdict' = [verdict EXCEPT ![c] = v]
  /\ UNCHANGED <<current, answered, last>>

Close(c) ==
  /\ verdict[c] # "none"
  /\ current' = [current EXCEPT ![c] = 0]
  /\ verdict' = [verdict EXCEPT ![c] = "none"]
  /\ answered' = [answered EXCEPT ![c] = "none"]
  /\ UNCHANGED last

Next == Spend \/ \E c \in Callers : Open(c) \/ Answer(c) \/ Conclude(c) \/ Close(c)

Spec ==
  /\ Init /\ [][Next]_promiseVars
  /\ \A c \in Callers : WF_promiseVars(Conclude(c) \/ Close(c))

=============================================================================
