--------------------------- MODULE AccountsProofs ---------------------------
(***************************************************************************)
(* What TLAPS proves of Accounts for any browsers, names, logins, limits   *)
(* and databases it is started on: TypeCorrect, CookieOpensItsAccount,     *)
(* PasskeyFindsItsOwner, TriesAreBounded, LastKeyStays.                    *)
(*                                                                         *)
(* There are many handlers and few that matter to any one property, so the *)
(* lemmas first say what each part of the state depends on (the frames),   *)
(* what becomes of a user's row (UsersChange) and how a request comes to   *)
(* a stage (Arrivals). Each invariant is then a case or two.               *)
(***************************************************************************)
EXTENDS Accounts, FiniteSetTheorems, TLAPS

USE DEF vars, tables

(* The fields of the records the variables hold. A request keeps all its   *)
(* fields whatever stage it is at.                                         *)
Ceremony == [ceremony : {"none", "registration", "login"}, handle : Nat]
Stages ==
  {"idle", "routed", "mint", "role", "setup", "login", "matched", "permission", "password",
   "logins", "refresh", "count", "remove", "draw", "build", "store", "last", "drop",
   "assert", "found", "accepted"}
(* Stages whose entry rests on nothing the proofs have to know of.         *)
Quiet ==
  {"idle", "routed", "role", "setup", "permission", "password", "logins", "refresh", "count",
   "draw", "build", "last", "assert", "found"}
(* Stages of a login that has read the row its cookie will carry.          *)
Admitted == {"matched", "accepted"}
Request ==
  [at : Stages, uid : Nat, perm : Perms, local : BOOLEAN, target : Nat, own : BOOLEAN,
   row : {NoCookie} \cup [name : Names] \cup Row \cup Cookie, handle : Nat, seen : SUBSET Nat]

(* Type correctness, in parts. Ids are below the number that is drawn      *)
(* next, none is ever a second user's, which most of what follows rests    *)
(* on. A request of a proxy that is to make an account has a name, and one *)
(* whose password or passkey was right has a cookie to give.               *)
UsersInv ==
  /\ serial \in Nat \ {0}
  /\ DOMAIN users \subseteq 1 .. serial - 1
  /\ \A u \in DOMAIN users : users[u] \in Row
LoginsInv ==
  /\ DOMAIN logins \subseteq Logins
  /\ \A l \in DOMAIN logins : logins[l] \in DOMAIN users
KeysInv ==
  /\ DOMAIN keys \subseteq 1 .. serial - 1
  /\ \A k \in DOMAIN keys : keys[k] \in Key /\ keys[k].owner \in DOMAIN users
TablesInv == UsersInv /\ LoginsInv /\ KeysInv
SessionInv ==
  /\ cookie \in [Clients -> {NoCookie} \cup Cookie]
  /\ \A c \in Clients : cookie[c] = NoCookie \/ cookie[c].uid < serial
  /\ wa \in [Clients -> Ceremony]
RequestInv ==
  /\ req \in [Actors -> Request]
  /\ \A c \in Actors : req[c].uid < serial
  /\ \A c \in Actors :
       /\ At(c, "mint") => req[c].row \in [name : Names]
       /\ req[c].at \in Admitted => req[c].row \in Cookie /\ req[c].row.uid < serial
CountInv == failures \in Nat /\ inputs \in 0 .. MaxInputs
TypeInv == TablesInv /\ SessionInv /\ RequestInv /\ CountInv

-----------------------------------------------------------------------------
(* Rows and requests                                                       *)

(* UpdatePermission: the column of one row (db/users.go:139-144).          *)
LEMMA SetPermission ==
  ASSUME UsersInv, NEW u, NEW p \in Perms, Set(u, "perm", p)
  PROVE  /\ DOMAIN users' = DOMAIN users
         /\ \A x \in DOMAIN users :
              /\ users'[x] \in Row /\ users'[x].name = users[x].name
              /\ users'[x].pass = users[x].pass /\ users'[x].handle = users[x].handle
BY DEF UsersInv, Set, Row

(* UpdatePassword: a row gets a password, and never loses one              *)
(* (db/users.go:132-137).                                                  *)
LEMMA SetPassword ==
  ASSUME UsersInv, NEW u, Set(u, "pass", "hash")
  PROVE  /\ DOMAIN users' = DOMAIN users
         /\ \A x \in DOMAIN users :
              /\ users'[x] \in Row /\ users'[x].name = users[x].name
              /\ users'[x].pass = users[x].pass \/ users'[x].pass = "hash"
              /\ users'[x].perm = users[x].perm /\ users'[x].handle = users[x].handle
BY DEF UsersInv, Set, Row

(* GetOrSetWebAuthnID writes the handle of one row (db/users.go:162-180).  *)
LEMMA SetHandle ==
  ASSUME UsersInv, NEW u, Set(u, "handle", serial)
  PROVE  /\ DOMAIN users' = DOMAIN users
         /\ \A x \in DOMAIN users :
              /\ users'[x] \in Row /\ users'[x].name = users[x].name
              /\ users'[x].pass = users[x].pass /\ users'[x].perm = users[x].perm
              /\ x # u => users'[x].handle = users[x].handle
              /\ x = u => users'[x].handle = serial
BY DEF UsersInv, Set, Row

(* A new row has a new id, and the others stay (db/users.go:112-123).      *)
LEMMA CreateUserRow ==
  ASSUME UsersInv, NEW n \in Names, NEW w \in {"hash", "*"}, NEW p \in Perms, CreateUser(n, w, p)
  PROVE  /\ serial' = serial + 1 /\ serial \notin DOMAIN users
         /\ DOMAIN users' = DOMAIN users \cup {serial}
         /\ users'[serial] \in Row /\ users'[serial].name = n
         /\ \A x \in DOMAIN users : users'[x] = users[x]
BY DEF UsersInv, CreateUser, FreshId, Row

(* A record that stands for no request.                                    *)
LEMMA IdleType == Idle \in Request /\ Idle.uid = 0 /\ Idle.at = "idle"
<1>1. Perms = {"superuser", "admin", "readonly"}
  BY DEF Perms, Rank
<1>2. QED
  BY <1>1 DEF Idle, Request, Stages

(* Going to a stage changes nothing else of a request.                     *)
LEMMA GotoType ==
  ASSUME RequestInv, NEW c \in Actors, NEW s \in Stages
  PROVE  /\ [req[c] EXCEPT !.at = s] \in Request
         /\ [req[c] EXCEPT !.at = s].uid = req[c].uid
         /\ Goto(c, s) = (req' = [req EXCEPT ![c] = [req[c] EXCEPT !.at = s]])
BY DEF RequestInv, Goto, Request

(* Handlers that end with the step.                                        *)
LEMMA RequestsThatStop ==
  ASSUME NEW c \in Actors,
         \/ SetupCreate(c) \/ LoginFail(c) \/ LoginPass(c) \/ Logout(c) \/ UpdateCookie(c)
         \/ DrawHandle(c) \/ CreateCredential(c) \/ DeleteCredential(c) \/ Create(c)
         \/ DeleteUser(c) \/ PasskeyLoginBegin(c) \/ PasskeyLoginPass(c)
  PROVE  req' = [req EXCEPT ![c] = Idle]
BY DEF Stay, Begin, SetupCreate, LoginFail, LoginPass, Logout, UpdateCookie, DrawHandle,
       CreateCredential, DeleteCredential, Create, DeleteUser, PasskeyLoginBegin, PasskeyLoginPass

(* Handlers that go to another stage with what they have read.             *)
LEMMA RequestsThatGo ==
  ASSUME NEW c \in Actors,
         \/ UpdatePermission(c) \/ UpdatePassword(c) \/ UpdateLogins(c)
         \/ RegisterBegin(c) \/ RegisterBuild(c) \/ DeleteLast(c)
  PROVE  \/ req' = [req EXCEPT ![c] = Idle]
         \/ \E s \in {"password", "logins", "refresh", "draw"} : Goto(c, s)
         \/ RegisterBuild(c) /\ Goto(c, "store")
         \/ DeleteLast(c) /\ Goto(c, "drop")
BY DEF Stay, UpdatePermission, UpdatePassword, UpdateLogins, RegisterBegin, RegisterBuild, DeleteLast

(* The steps of an actor that lead to a stage some invariant is about, and *)
(* what the record a step leaves has in any case.                          *)
Enters(c) == \/ Login(c) \/ LoginRead(c) \/ Delete(c) \/ DeleteCount(c)
             \/ RegisterBuild(c) \/ DeletePasskey(c) \/ DeleteLast(c) \/ PasskeyLoginRead(c)
Move(c, r) ==
  /\ req' = [req EXCEPT ![c] = r]
  /\ r.uid < serial'
  /\ r.at = "mint" => r.row \in [name : Names]
  /\ r.at \in Admitted => r.row \in Cookie /\ r.row.uid < serial'
  /\ r.at \in {"login", "matched", "accepted", "remove", "store", "drop"} => Enters(c)
RequestChange ==
  UNCHANGED req \/ Restart \/ \E c \in Actors, r \in Request : Move(c, r)

(* Every step leaves the requests alone, ends those of the server, or      *)
(* moves one, and only the steps of Enters lead to the stages the          *)
(* invariants are about. The types of what handlers read (handlers.go,     *)
(* users.go, profile.go, passkeys.go, proxyauth.go).                       *)
LEMMA RequestMoves ==
  ASSUME TypeInv, serial' \in Nat, serial <= serial', Next
  PROVE  RequestChange
<1> USE DEF TypeInv
<1>0. serial \in Nat \ {0} /\ 0 < serial'
  BY DEF TablesInv, UsersInv
<1>1. ASSUME NEW c \in Actors, NEW r \in Request, r.uid < serial',
             r.at \in Quiet, req' = [req EXCEPT ![c] = r]
      PROVE  RequestChange
  BY <1>1 DEF RequestChange, Move, Quiet, Admitted
<1>2. ASSUME NEW c \in Actors, req' = [req EXCEPT ![c] = Idle]
      PROVE  RequestChange
  <2>1. Idle.uid < serial' /\ Idle.at \in Quiet /\ Idle \in Request
    BY <1>0, IdleType DEF Quiet
  <2>2. QED
    BY <1>1, <1>2, <2>1
<1>3. ASSUME NEW c \in Actors, NEW s \in Stages, Goto(c, s),
             s \in Quiet \/ (s \in {"store", "drop", "remove"} /\ Enters(c))
      PROVE  RequestChange
  <2> DEFINE r == [req[c] EXCEPT !.at = s]
  <2>1. r \in Request /\ r.uid < serial' /\ r.at = s /\ req' = [req EXCEPT ![c] = r]
    <3>1. req[c].uid < serial' /\ r.at = s
      BY <1>0 DEF RequestInv, Request
    <3>2. QED
      BY <1>3, <3>1, GotoType
  <2> HIDE DEF r
  <2>2. QED
    BY <1>3, <2>1 DEF RequestChange, Move, Quiet, Admitted
<1>5. ASSUME NEW c \in Clients,
             \/ SetupCreate(c) \/ LoginFail(c) \/ LoginPass(c) \/ Logout(c) \/ UpdateCookie(c)
             \/ DrawHandle(c) \/ CreateCredential(c) \/ DeleteCredential(c)
             \/ PasskeyLoginBegin(c) \/ PasskeyLoginPass(c)
      PROVE  RequestChange
  BY <1>2, <1>5, RequestsThatStop DEF Actors
<1>6. ASSUME NEW c \in Actors,
             \/ UpdatePermission(c) \/ UpdatePassword(c) \/ UpdateLogins(c)
             \/ c \in Clients /\ (RegisterBegin(c) \/ RegisterBuild(c) \/ DeleteLast(c))
      PROVE  RequestChange
  <2>1. \/ req' = [req EXCEPT ![c] = Idle]
        \/ \E s \in {"password", "logins", "refresh", "draw"} : Goto(c, s)
        \/ \E s \in {"store", "drop"} : Goto(c, s) /\ Enters(c)
    BY <1>6, RequestsThatGo DEF Enters
  <2>2. QED
    BY <1>2, <1>3, <2>1 DEF Stages, Quiet
<1>7. ASSUME NEW c \in Actors, NEW r \in Request, Begin(c, r), r.uid < serial', r.at \in Quiet
      PROVE  RequestChange
  BY <1>1, <1>7 DEF Begin
<1>8. ASSUME NEW u \in Nat, NEW p \in Perms, NEW l \in BOOLEAN
      PROVE  /\ Routed(u, p, l) \in Request
             /\ Routed(u, p, l).uid = u /\ Routed(u, p, l).at \in Quiet
  BY IdleType DEF Routed, Idle, Request, Stages, Quiet
<1>9. ASSUME NEW c \in Clients, ByCookie(c)
      PROVE  RequestChange
  <2>1. c \in Actors /\ cookie[c] \in Cookie /\ cookie[c].uid < serial'
    BY <1>0, <1>9 DEF ByCookie, GetSession, SessionInv, Cookie, Actors
  <2>2. Begin(c, Idle) \/ Begin(c, Routed(cookie[c].uid, cookie[c].perm, TRUE))
    BY <1>9 DEF ByCookie
  <2>3. cookie[c].uid \in Nat /\ cookie[c].perm \in Perms
    BY <2>1 DEF Cookie
  <2>4. CASE Begin(c, Idle)
    BY <1>2, <2>1, <2>4 DEF Begin
  <2>5. CASE Begin(c, Routed(cookie[c].uid, cookie[c].perm, TRUE))
    BY <1>7, <1>8, <2>1, <2>3, <2>5
  <2>6. QED
    BY <2>2, <2>4, <2>5
<1>10. ASSUME NEW c \in Clients, ByTailscale(c)
       PROVE  RequestChange
  <2>1. PICK u \in DOMAIN users : Begin(c, Routed(u, users[u].perm, FALSE))
    BY <1>10 DEF ByTailscale, GetUserByTailscaleLogin, TablesInv, LoginsInv
  <2>2. u \in Nat /\ u < serial /\ users[u].perm \in Perms
    BY <1>0 DEF TablesInv, UsersInv, Row
  <2>3. QED
    <3>1. c \in Actors /\ u < serial'
      BY <1>0, <2>2 DEF Actors
    <3>2. Routed(u, users[u].perm, FALSE) \in Request /\ Routed(u, users[u].perm, FALSE).uid = u
          /\ Routed(u, users[u].perm, FALSE).at \in Quiet
      BY <1>8, <2>2
    <3>3. QED
      BY <1>7, <2>1, <3>1, <3>2
<1>11. ASSUME NEW c \in Clients, ByProxy(c)
       PROVE  RequestChange
  <2>1. PICK n \in Names, p \in Roles :
          LET r == [Idle EXCEPT !.perm = p, !.row = [name |-> n]]
          IN  \/ Begin(c, [r EXCEPT !.at = "mint"])
              \/ \E u \in Named(n) :
                   Begin(c, [r EXCEPT !.at = "role", !.uid = u, !.row = users[u]])
    BY <1>11 DEF ByProxy
  <2>2. p \in Perms
    BY DatabasesAssumption DEF DatabasesAssumption
  <2> DEFINE r == [Idle EXCEPT !.perm = p, !.row = [name |-> n]]
  <2>3. CASE Begin(c, [r EXCEPT !.at = "mint"])
    <3> DEFINE m == [r EXCEPT !.at = "mint"]
    <3>1. m \in Request /\ m.uid = 0 /\ m.row \in [name : Names] /\ m.at = "mint"
      BY <2>2, IdleType DEF Request, Stages
    <3>2. c \in Actors /\ req' = [req EXCEPT ![c] = m]
      BY <2>3 DEF Begin, Actors
    <3> HIDE DEF m
    <3>3. QED
      BY <1>0, <3>1, <3>2 DEF RequestChange, Move, Admitted
  <2>4. ASSUME NEW u \in Named(n), Begin(c, [r EXCEPT !.at = "role", !.uid = u, !.row = users[u]])
        PROVE  RequestChange
    <3>1. u \in Nat /\ u < serial' /\ users[u] \in Row
      BY <1>0 DEF TablesInv, UsersInv, Named
    <3>2. /\ [r EXCEPT !.at = "role", !.uid = u, !.row = users[u]] \in Request
          /\ [r EXCEPT !.at = "role", !.uid = u, !.row = users[u]].uid = u
          /\ [r EXCEPT !.at = "role", !.uid = u, !.row = users[u]].at \in Quiet
      BY <2>2, <3>1, IdleType DEF Request, Stages, Quiet
    <3>3. QED
      BY <1>7, <2>4, <3>1, <3>2 DEF Actors
  <2>5. QED
    BY <2>1, <2>3, <2>4
<1>12. ASSUME NEW c \in Clients, ProxyMint(c) \/ ProxyRole(c)
       PROVE  RequestChange
  <2>1. c \in Actors /\ req[c].uid \in Nat /\ req[c].uid < serial /\ req[c].perm \in Perms
    BY DEF RequestInv, Request, Actors
  <2>2. \/ req' = [req EXCEPT ![c] = Idle]
        \/ \E u \in {req[c].uid, FreshId} :
             u < serial' /\ req' = [req EXCEPT ![c] = Routed(u, req[c].perm, FALSE)]
    <3>1. CASE ProxyMint(c)
      <4>1. \/ req' = [req EXCEPT ![c] = Idle]
            \/ serial' = serial + 1 /\ req' = [req EXCEPT ![c] = Routed(FreshId, req[c].perm, FALSE)]
        BY <3>1 DEF ProxyMint, Stay, CreateUser
      <4>2. serial' = serial + 1 => FreshId < serial'
        BY <1>0 DEF FreshId
      <4>3. QED
        BY <4>1, <4>2
    <3>2. CASE ProxyRole(c)
      BY <2>1, <3>2 DEF ProxyRole
    <3>3. QED
      BY <1>12, <3>1, <3>2
  <2>3. ASSUME NEW u \in {req[c].uid, FreshId}, u < serial',
               req' = [req EXCEPT ![c] = Routed(u, req[c].perm, FALSE)]
        PROVE  RequestChange
    <3>1. u \in Nat
      BY <1>0, <2>1 DEF FreshId
    <3>2. /\ Routed(u, req[c].perm, FALSE) \in Request /\ Routed(u, req[c].perm, FALSE).uid = u
          /\ Routed(u, req[c].perm, FALSE).at \in Quiet
      BY <1>8, <2>1, <3>1
    <3>3. QED
      BY <1>1, <2>1, <2>3, <3>2
  <2>4. QED
    BY <1>2, <2>1, <2>2, <2>3
<1>13. CASE Command
  <2>1. Begin(Shell, Routed(0, "superuser", FALSE)) /\ "superuser" \in Perms /\ Shell \in Actors
    BY <1>13 DEF Command, Perms, Rank, Actors
  <2>2. /\ Routed(0, "superuser", FALSE) \in Request /\ Routed(0, "superuser", FALSE).uid = 0
        /\ Routed(0, "superuser", FALSE).at \in Quiet
    BY <1>8, <2>1
  <2>3. QED
    BY <1>0, <1>7, <2>1, <2>2, Zenon
<1>14. ASSUME NEW c \in Clients, Setup(c) \/ Login(c) \/ PasskeyLoginFinish(c)
       PROVE  RequestChange
  <2>0. PasskeyLoginFinish(c) /\ Begin(c, Idle) => RequestChange
    BY <1>2 DEF Begin, Actors
  <2>1. CASE ~(PasskeyLoginFinish(c) /\ Begin(c, Idle))
   <3>1. PICK s \in {"setup", "login", "assert"} :
           Begin(c, [Idle EXCEPT !.at = s]) /\ (s = "login" => Login(c))
     BY <1>14, <2>1 DEF Setup, Login, PasskeyLoginFinish
   <3> DEFINE r == [Idle EXCEPT !.at = s]
   <3>2. r \in Request /\ r.uid = 0 /\ r.at = s
     BY IdleType DEF Request, Stages
   <3>3. c \in Actors /\ req' = [req EXCEPT ![c] = r] /\ (r.at = "login" => Enters(c))
     BY <3>1, <3>2 DEF Begin, Actors, Enters
   <3> HIDE DEF r
   <3>4. QED
     BY <1>0, <3>2, <3>3 DEF RequestChange, Move, Admitted
  <2>2. QED
    BY <2>0, <2>1
<1>15. ASSUME NEW c \in Clients, NEW u \in DOMAIN users, NEW s \in Admitted,
              LoginRead(c) \/ PasskeyLoginRead(c),
              req' = [req EXCEPT ![c].at = s, ![c].row = CookieOf(u)]
       PROVE  RequestChange
  <2> DEFINE r == [req[c] EXCEPT !.at = s, !.row = CookieOf(u)]
  <2>2. CookieOf(u) \in Cookie /\ CookieOf(u).uid < serial'
    BY <1>0 DEF TablesInv, UsersInv, CookieOf, Cookie, Row
  <2>3. c \in Actors /\ req[c] \in Request /\ req[c].uid < serial
    BY DEF RequestInv, Actors
  <2>4. r \in Request /\ r.uid = req[c].uid /\ r.at = s /\ r.row = CookieOf(u)
    BY <2>2, <2>3 DEF Request, Stages, Admitted
  <2>5. req' = [req EXCEPT ![c] = r]
    BY <1>15, <2>3 DEF RequestInv
  <2>6. r.uid < serial'
    BY <1>0, <2>3, <2>4 DEF Request
  <2> HIDE DEF r
  <2>7. Enters(c)
    BY <1>15 DEF Enters
  <2>8. QED
    BY <2>2, <2>3, <2>4, <2>5, <2>6, <2>7 DEF RequestChange, Move, Admitted
<1>21. ASSUME NEW c \in Clients, LoginRead(c) \/ PasskeyLoginRead(c)
       PROVE  RequestChange
  <2>1. \/ req' = [req EXCEPT ![c] = Idle]
        \/ \E u \in DOMAIN users, s \in Admitted : req' = [req EXCEPT ![c].at = s, ![c].row = CookieOf(u)]
    BY <1>21 DEF LoginRead, PasskeyLoginRead, Stay, Admitted
  <2>2. QED
    BY <1>2, <1>15, <1>21, <2>1 DEF Actors
<1>22. ASSUME NEW c \in Clients, PasskeyLoginOwner(c)
       PROVE  RequestChange
  <2>1. \/ req' = [req EXCEPT ![c] = Idle]
        \/ \E k \in DOMAIN keys : req' = [req EXCEPT ![c].at = "found", ![c].target = keys[k].owner,
                                                   ![c].handle = keys[k].handle]
    BY <1>22 DEF PasskeyLoginOwner, Stay
  <2>2. c \in Actors /\ req[c] \in Request /\ req[c].uid < serial /\ req[c].uid \in Nat
    BY DEF RequestInv, Actors, Request
  <2>3. ASSUME NEW k \in DOMAIN keys,
               req' = [req EXCEPT ![c].at = "found", ![c].target = keys[k].owner,
                                  ![c].handle = keys[k].handle]
        PROVE  RequestChange
    <3> DEFINE r == [req[c] EXCEPT !.at = "found", !.target = keys[k].owner, !.handle = keys[k].handle]
    <3>1. keys[k].owner \in Nat /\ keys[k].handle \in Nat
      BY DEF TablesInv, KeysInv, Key
    <3>2. r \in Request /\ r.uid = req[c].uid /\ r.at \in Quiet
      BY <2>2, <3>1 DEF Request, Stages, Quiet
    <3>3. req' = [req EXCEPT ![c] = r]
      BY <2>2, <2>3 DEF RequestInv
    <3>4. r.uid < serial'
      BY <1>0, <2>2, <3>2
    <3> HIDE DEF r
    <3>5. QED
      BY <1>1, <2>2, <3>2, <3>3, <3>4
  <2>4. QED
    BY <1>2, <2>1, <2>2, <2>3
<1>16. ASSUME NEW c \in Actors, Update(c) \/ Delete(c) \/ DeleteCount(c)
       PROVE  RequestChange
  <2>1. \A t \in DOMAIN users : t \in Nat
    BY DEF TablesInv, UsersInv
  <2>2. req[c] \in Request /\ req[c].uid < serial
    BY DEF RequestInv
  <2>3. ASSUME NEW s \in {"permission", "count", "remove"}, NEW t \in Nat,
               s = "remove" => Enters(c),
               req' = [req EXCEPT ![c] = [req[c] EXCEPT !.at = s, !.target = t]]
        PROVE  RequestChange
    <3> DEFINE r == [req[c] EXCEPT !.at = s, !.target = t]
    <3>1. r \in Request /\ r.uid = req[c].uid /\ r.at = s
      BY <2>2 DEF Request, Stages
    <3>2. r.uid < serial'
      BY <1>0, <2>2, <3>1 DEF Request
    <3>3. req' = [req EXCEPT ![c] = r]
      BY <2>3
    <3> HIDE DEF r
    <3>4. QED
      BY <2>3, <3>1, <3>2, <3>3 DEF RequestChange, Move, Admitted
  <2>4. CASE DeleteCount(c)
    <3>1. req' = [req EXCEPT ![c] = Idle] \/ Goto(c, "remove")
      BY <2>4 DEF DeleteCount, Stay
    <3>2. Enters(c)
      BY <2>4 DEF Enters
    <3>3. QED
      BY <1>2, <1>3, <3>1, <3>2 DEF Stages
  <2>5. CASE Update(c) \/ Delete(c)
    <3>1. \/ req' = [req EXCEPT ![c] = Idle]
          \/ \E t \in DOMAIN users, s \in {"permission", "count", "remove"} :
               /\ s = "remove" => Enters(c)
               /\ req' = [req EXCEPT ![c].at = s, ![c].target = t]
      BY <2>5 DEF Update, Delete, Stay, Enters
    <3>2. ASSUME NEW t \in DOMAIN users, NEW s \in {"permission", "count", "remove"},
                 req' = [req EXCEPT ![c].at = s, ![c].target = t]
          PROVE  req' = [req EXCEPT ![c] = [req[c] EXCEPT !.at = s, !.target = t]]
      BY <2>2, <3>2 DEF RequestInv, Request
    <3>3. QED
      BY <1>2, <2>1, <2>3, <3>1, <3>2
  <2>6. QED
    BY <1>16, <2>4, <2>5
<1>17. ASSUME NEW c \in Clients, UpdateProfile(c) \/ RegisterFinish(c) \/ DeletePasskey(c)
       PROVE  RequestChange
  <2>1. c \in Actors /\ req[c] \in Request /\ req[c].uid < serial /\ req[c].uid \in Nat
    BY DEF RequestInv, Actors, Request
  <2>2. CASE UpdateProfile(c)
    <3> DEFINE r == [req[c] EXCEPT !.at = "password", !.target = req[c].uid, !.own = TRUE,
                                   !.row = users[req[c].uid]]
    <3>1. CASE req[c].uid \in DOMAIN users
      <4>1. r \in Request /\ r.uid = req[c].uid /\ r.at \in Quiet
        BY <2>1, <3>1 DEF Request, Stages, Quiet, TablesInv, UsersInv
      <4>2. req' = [req EXCEPT ![c] = r]
        BY <2>1, <2>2, <3>1 DEF UpdateProfile, RequestInv
      <4>3. r.uid < serial'
        BY <1>0, <2>1, <4>1
      <4> HIDE DEF r
      <4>4. QED
        BY <1>1, <2>1, <4>1, <4>2, <4>3
    <3>2. CASE req[c].uid \notin DOMAIN users
      BY <1>2, <2>1, <2>2, <3>2 DEF UpdateProfile, Stay
    <3>3. QED
      BY <3>1, <3>2
  <2>3. CASE RegisterFinish(c)
    <3> DEFINE r == [req[c] EXCEPT !.at = "build", !.handle = wa[c].handle]
    <3>1. wa[c].handle \in Nat
      BY DEF SessionInv, Ceremony
    <3>2. r \in Request /\ r.uid = req[c].uid /\ r.at \in Quiet
      BY <2>1, <3>1 DEF Request, Stages, Quiet
    <3>3. req' = [req EXCEPT ![c] = Idle] \/ req' = [req EXCEPT ![c] = r]
      BY <2>1, <2>3 DEF RegisterFinish, RequestInv, Stay
    <3>4. r.uid < serial'
      BY <1>0, <2>1, <3>2
    <3> HIDE DEF r
    <3>5. QED
      BY <1>1, <1>2, <2>1, <3>2, <3>3, <3>4
  <2>4. CASE DeletePasskey(c)
    <3>1. KeysOf(req[c].uid) \subseteq Nat
      BY DEF TablesInv, KeysInv, KeysOf, UsersInv
    <3>2. PICK s \in {"last", "drop"} :
            req' = [req EXCEPT ![c].seen = KeysOf(req[c].uid), ![c].at = s]
      BY <2>4 DEF DeletePasskey
    <3> DEFINE r == [req[c] EXCEPT !.seen = KeysOf(req[c].uid), !.at = s]
    <3>3. r \in Request /\ r.uid = req[c].uid /\ r.at \in {"last", "drop"}
      BY <2>1, <3>1 DEF Request, Stages
    <3>4. req' = [req EXCEPT ![c] = r]
      BY <2>1, <3>2 DEF RequestInv
    <3>5. r.uid < serial'
      BY <1>0, <2>1, <3>3
    <3> HIDE DEF r
    <3>6. Enters(c)
      BY <2>4 DEF Enters
    <3>7. QED
      BY <2>1, <3>3, <3>4, <3>5, <3>6 DEF RequestChange, Move, Admitted
  <2>5. QED
    BY <1>17, <2>2, <2>3, <2>4
<1>18. WindowEnds \/ (\E c \in Clients : WaExpire(c)) => UNCHANGED req
  BY DEF WindowEnds, WaExpire
<1>19. Clients \subseteq Actors
  BY DEF Actors
<1>20. QED
  BY <1>2, <1>5, <1>6, <1>9, <1>10, <1>11, <1>12, <1>13, <1>14, <1>15, <1>16, <1>17, <1>18,
     <1>19, <1>21, <1>22, RequestsThatStop DEF Next, RequestChange

(* Requests keep their types.                                              *)
LEMMA RequestStep ==
  ASSUME TypeInv, serial' \in Nat, serial <= serial', Next
  PROVE  RequestInv'
<1> USE DEF TypeInv
<1>1. \A c \in Actors : req[c].uid < serial'
  <2>1. \A c \in Actors : req[c].uid \in Nat /\ req[c].uid < serial /\ serial \in Nat
    BY DEF RequestInv, Request, TablesInv, UsersInv
  <2>2. QED
    BY <2>1
<1>2. \A c \in Actors : req[c].at \in Admitted => req[c].row.uid < serial'
  <2>1. \A c \in Actors :
          req[c].at \in Admitted => req[c].row.uid \in Nat /\ req[c].row.uid < serial /\ serial \in Nat
    BY DEF RequestInv, TablesInv, UsersInv, Cookie
  <2>2. QED
    BY <2>1
<1>3. CASE UNCHANGED req
  BY <1>1, <1>2, <1>3 DEF RequestInv, At
<1>4. CASE Restart
  <2>1. \A c \in Actors : req'[c] = req[c] \/ req'[c] = Idle
    BY <1>4 DEF Restart
  <2>2. req' \in [Actors -> Request]
    BY <1>4, IdleType DEF Restart, RequestInv
  <2>3. 0 < serial'
    BY DEF TablesInv, UsersInv
  <2>4. QED
    BY <1>1, <1>2, <2>1, <2>2, <2>3, IdleType DEF RequestInv, At, Admitted
<1>5. ASSUME NEW c \in Actors, NEW r \in Request, Move(c, r)
      PROVE  RequestInv'
  <2>1. req' \in [Actors -> Request] /\ \A d \in Actors : req'[d] = IF d = c THEN r ELSE req[d]
    BY <1>5 DEF RequestInv, Move
  <2>2. QED
    BY <1>1, <1>2, <1>5, <2>1 DEF RequestInv, At, Move
<1>6. QED
  BY <1>3, <1>4, <1>5, RequestMoves DEF RequestChange

-----------------------------------------------------------------------------
(* What each step leaves alone                                             *)

(* Which steps may change the tables; the others draw no number either.    *)
LEMMA TablesFrame ==
  ASSUME Next
  PROVE  \/ UNCHANGED <<tables, serial>> /\ UNCHANGED redrawn
         \/ \E c \in Clients : \/ ProxyMint(c) \/ ProxyRole(c) \/ SetupCreate(c)
                               \/ DrawHandle(c) \/ CreateCredential(c) \/ DeleteCredential(c)
         \/ \E c \in Actors : \/ Create(c) \/ UpdatePermission(c) \/ UpdatePassword(c)
                              \/ UpdateLogins(c) \/ DeleteUser(c)
BY ZenonT(60) DEF Next, ByCookie, ByTailscale, ByProxy, Setup, Login, LoginFail, LoginRead,
       LoginPass, Logout, UpdateProfile, UpdateCookie, RegisterBegin, RegisterFinish,
       RegisterBuild, PasskeyLoginBegin, PasskeyLoginFinish, PasskeyLoginOwner, PasskeyLoginRead,
       PasskeyLoginPass, WaExpire, DeletePasskey, DeleteLast, Update, Delete, DeleteCount, Command, WindowEnds, Restart

(* Which steps give or take a cookie.                                      *)
LEMMA CookieFrame ==
  ASSUME Next
  PROVE  \/ UNCHANGED cookie
         \/ \E c \in Clients : \/ ByCookie(c) \/ SetupCreate(c) \/ LoginPass(c)
                               \/ Logout(c) \/ UpdateCookie(c) \/ PasskeyLoginPass(c)
BY ZenonT(60) DEF Next, ByTailscale, ByProxy, ProxyMint, ProxyRole, Setup, Login, LoginFail, LoginRead,
       UpdateProfile, RegisterBegin, DrawHandle, RegisterFinish,
       RegisterBuild, CreateCredential, PasskeyLoginBegin, PasskeyLoginFinish,
       PasskeyLoginOwner, PasskeyLoginRead, WaExpire, DeletePasskey,
       DeleteLast, DeleteCredential, Create, Update, UpdatePermission, UpdatePassword,
       UpdateLogins, Delete, DeleteCount, DeleteUser, Command, WindowEnds, Restart

(* Which steps touch a passkey ceremony's session.                         *)
LEMMA CeremonyFrame ==
  ASSUME Next
  PROVE  \/ UNCHANGED wa
         \/ \E c \in Clients : \/ RegisterBegin(c) \/ DrawHandle(c) \/ RegisterFinish(c)
                               \/ PasskeyLoginBegin(c) \/ PasskeyLoginFinish(c) \/ WaExpire(c)
BY ZenonT(60) DEF Next, ByCookie, ByTailscale, ByProxy, ProxyMint, ProxyRole, Setup, SetupCreate, Login,
       LoginFail, LoginRead, LoginPass, Logout, UpdateProfile, UpdateCookie, RegisterBuild,
       CreateCredential, PasskeyLoginOwner, PasskeyLoginRead, PasskeyLoginPass, DeletePasskey, DeleteLast, DeleteCredential, Create, Update,
       UpdatePermission, UpdatePassword, UpdateLogins, Delete, DeleteCount, DeleteUser,
       Command, WindowEnds, Restart

(* Failures are counted by one step, and otherwise kept or forgotten       *)
(* (security.go loginLimiter).                                             *)
LEMMA FailuresFrame ==
  ASSUME Next
  PROVE  failures' = failures \/ failures' = 0 \/ \E c \in Clients : LoginFail(c)
BY ZenonT(60) DEF Next, ByCookie, ByTailscale, ByProxy, ProxyMint, ProxyRole, Setup, SetupCreate, Login,
       LoginRead, LoginPass, Logout, UpdateProfile, UpdateCookie, RegisterBegin,
       DrawHandle, RegisterFinish, RegisterBuild, RecordSuccess,
       CreateCredential, PasskeyLoginBegin, PasskeyLoginFinish, PasskeyLoginOwner,
       PasskeyLoginRead, PasskeyLoginPass, WaExpire, DeletePasskey,
       DeleteLast, DeleteCredential, Create, Update, UpdatePermission, UpdatePassword,
       UpdateLogins, Delete, DeleteCount, DeleteUser, Command, WindowEnds, Restart

(* The bound on inputs is kept.                                            *)
LEMMA InputsFrame ==
  ASSUME Next
  PROVE  inputs' = inputs \/ (inputs < MaxInputs /\ inputs' = inputs + 1)
<1>1. \/ UNCHANGED inputs \/ Command
      \/ \E c \in Clients : \/ ByCookie(c) \/ ByTailscale(c) \/ ByProxy(c) \/ Setup(c) \/ Login(c)
                            \/ Logout(c) \/ PasskeyLoginBegin(c) \/ PasskeyLoginFinish(c)
  BY ZenonT(60) DEF Next, ProxyMint, ProxyRole, SetupCreate, LoginFail, LoginRead, LoginPass, UpdateProfile,
         UpdateCookie, RegisterBegin, DrawHandle, RegisterFinish, RegisterBuild, CreateCredential,
         PasskeyLoginOwner, PasskeyLoginRead, PasskeyLoginPass, WaExpire, DeletePasskey,
         DeleteLast, DeleteCredential, Create, Update, UpdatePermission,
         UpdatePassword, UpdateLogins, Delete, DeleteCount, DeleteUser, WindowEnds, Restart
<1>2. Command \/ (\E c \in Clients : ByCookie(c) \/ ByTailscale(c) \/ ByProxy(c) \/ Setup(c) \/ Login(c)
                            \/ Logout(c) \/ PasskeyLoginBegin(c) \/ PasskeyLoginFinish(c))
        => inputs < MaxInputs /\ inputs' = inputs + 1
  BY DEF Begin, Command, ByCookie, ByTailscale, ByProxy, Setup, Login, Logout, PasskeyLoginBegin,
         PasskeyLoginFinish
<1>3. QED
  BY <1>1, <1>2

-----------------------------------------------------------------------------
(* Types                                                                   *)

(* All that a step does to the users table: rows go with DeleteUser, a new *)
(* row has the number drawn for it, and of a row that stays the name is    *)
(* the same, a password is never taken away, and the handle is             *)
(* DrawHandle's only.                                                      *)
UsersChange ==
  /\ serial' \in {serial, serial + 1}
  /\ \A u \in DOMAIN users \ DOMAIN users' :
       \E c \in Actors : DeleteUser(c) /\ u = req[c].target
  /\ \A u \in DOMAIN users' \ DOMAIN users :
       u = serial /\ serial' = serial + 1 /\ users'[u] \in Row
  /\ \A u \in DOMAIN users' \cap DOMAIN users :
       /\ users'[u] \in Row /\ users'[u].name = users[u].name
       /\ users'[u].pass = users[u].pass \/ users'[u].pass = "hash"
       /\ users'[u].handle = users[u].handle \/ \E c \in Clients : DrawHandle(c) /\ u = req[c].uid

(* Every step changes the users table in that way (users.go).              *)
LEMMA UsersStep == TypeInv /\ Next => UsersChange
<1> SUFFICES ASSUME TypeInv, Next PROVE UsersChange
  OBVIOUS
<1> USE DEF TypeInv, TablesInv
<1>1. serial \in Nat \ {0} /\ UsersInv /\ serial \notin DOMAIN users
  BY DEF UsersInv
<1>2. \A u \in DOMAIN users : users[u] \in Row
  BY DEF UsersInv
<1>3. ASSUME users' = users, serial' \in {serial, serial + 1}
      PROVE  UsersChange
  BY <1>1, <1>2, <1>3 DEF UsersChange
<1>4. ASSUME NEW u, NEW p \in Perms, Set(u, "perm", p), serial' = serial
      PROVE  UsersChange
  BY <1>1, <1>4, SetPermission DEF UsersChange
<1>5. ASSUME NEW u, Set(u, "pass", "hash"), serial' = serial
      PROVE  UsersChange
  BY <1>1, <1>5, SetPassword DEF UsersChange
<1>6. ASSUME NEW n \in Names, NEW w \in {"hash", "*"}, NEW p \in Perms, CreateUser(n, w, p)
      PROVE  UsersChange
  BY <1>1, <1>2, <1>6, CreateUserRow DEF UsersChange
<1>7. ASSUME NEW c \in Clients, ProxyMint(c) \/ SetupCreate(c)
      PROVE  UsersChange
  <2>1. CASE ProxyMint(c)
    <3>1. c \in Actors /\ req[c].perm \in Perms /\ (At(c, "mint") => req[c].row.name \in Names)
      BY DEF RequestInv, Request, Actors
    <3>2. CreateUser(req[c].row.name, "*", req[c].perm) \/ UNCHANGED <<users, serial>>
      BY <2>1 DEF ProxyMint
    <3>3. At(c, "mint")
      BY <2>1 DEF ProxyMint
    <3>4. QED
      BY <1>3, <1>6, <3>1, <3>2, <3>3
  <2>2. CASE SetupCreate(c)
    <3>1. (\E n \in Names : CreateUser(n, "hash", "superuser")) \/ UNCHANGED <<users, serial>>
      BY <2>2 DEF SetupCreate
    <3>2. "superuser" \in Perms
      BY DEF Perms, Rank
    <3>3. QED
      BY <1>3, <1>6, <3>1, <3>2
  <2>3. QED
    BY <1>7, <2>1, <2>2
<1>8. ASSUME NEW c \in Clients, ProxyRole(c)
      PROVE  UsersChange
  <2>1. req[c].perm \in Perms
    BY DEF RequestInv, Request, Actors
  <2>2. serial' = serial /\ (users' = users \/ Set(req[c].uid, "perm", req[c].perm))
    BY <1>8 DEF ProxyRole
  <2>3. QED
    BY <1>3, <1>4, <2>1, <2>2
<1>9. ASSUME NEW c \in Actors, UpdatePermission(c) \/ UpdatePassword(c) \/ UpdateLogins(c)
      PROVE  UsersChange
  <2>1. /\ serial' = serial
        /\ \/ users' = users \/ Set(req[c].target, "pass", "hash")
           \/ \E p \in Perms : Set(req[c].target, "perm", p)
    BY <1>9 DEF UpdatePermission, UpdatePassword, UpdateLogins
  <2>2. QED
    BY <1>3, <1>4, <1>5, <2>1
<1>10. ASSUME NEW c \in Actors, Create(c)
       PROVE  UsersChange
  <2>1. (\E n \in Names, p \in Perms : CreateUser(n, "hash", p)) \/ UNCHANGED <<users, serial>>
    BY <1>10 DEF Create
  <2>2. QED
    BY <1>3, <1>6, <2>1
<1>11. ASSUME NEW c \in Actors, DeleteUser(c)
       PROVE  UsersChange
  BY <1>1, <1>2, <1>11 DEF UsersChange, DeleteUser
<1>12. ASSUME NEW c \in Clients, DrawHandle(c)
       PROVE  UsersChange
  <2>1. Set(req[c].uid, "handle", serial) /\ serial' = serial + 1
    BY <1>12 DEF DrawHandle
  <2>2. QED
    BY <1>1, <1>12, <2>1, SetHandle DEF UsersChange
<1>13. ASSUME NEW c \in Clients, CreateCredential(c) \/ DeleteCredential(c)
       PROVE  UsersChange
  <2>1. users' = users /\ serial' \in {serial, serial + 1}
    BY <1>13 DEF CreateCredential, DeleteCredential
  <2>2. QED
    BY <1>3, <2>1
<1>14. QED
  BY <1>3, <1>7, <1>8, <1>9, <1>10, <1>11, <1>12, <1>13, TablesFrame

(* Such a change keeps the rows' types and the ids below the next number.  *)
LEMMA UsersType ==
  ASSUME TypeInv, UsersChange
  PROVE  UsersInv' /\ serial <= serial'
BY DEF TypeInv, TablesInv, UsersInv, UsersChange

(* Where the steps of Enters lead.                                         *)
LEMMA StageEntered ==
  ASSUME RequestInv, NEW c \in Actors
  PROVE  /\ Login(c) => req'[c].at = "login"
         /\ LoginRead(c) => req'[c].at = "matched"
         /\ PasskeyLoginRead(c) => req'[c].at \in {"idle", "accepted"}
         /\ Delete(c) \/ DeleteCount(c) => req'[c].at \in {"idle", "count", "remove"}
         /\ RegisterBuild(c) => req'[c].at \in {"idle", "draw", "store"}
         /\ DeletePasskey(c) \/ DeleteLast(c) => req'[c].at \in {"idle", "last", "drop"}
<1>1. req \in [Actors -> Request]
  BY DEF RequestInv
<1>2. Stay(c) => req'[c].at = "idle"
  BY <1>1, IdleType DEF Stay
<1>3. \A s : Goto(c, s) => req'[c].at = s
  BY <1>1 DEF Goto, Request
<1>4. Login(c) => req'[c].at = "login"
  BY <1>1 DEF Login, Begin, Idle
<1>5. LoginRead(c) => req'[c].at = "matched"
  BY <1>1 DEF LoginRead, Request
<1>6. Delete(c) => req'[c].at \in {"count", "remove"}
  BY <1>1 DEF Delete, Request
<1>7. DeleteCount(c) => req'[c].at \in {"idle", "remove"}
  BY <1>2, <1>3 DEF DeleteCount
<1>8. RegisterBuild(c) => req'[c].at \in {"idle", "draw", "store"}
  BY <1>2, <1>3 DEF RegisterBuild
<1>9. DeletePasskey(c) => req'[c].at \in {"last", "drop"}
  BY <1>1 DEF DeletePasskey, Request
<1>10. DeleteLast(c) => req'[c].at \in {"idle", "drop"}
  BY <1>2, <1>3 DEF DeleteLast
<1>11. PasskeyLoginRead(c) => req'[c].at \in {"idle", "accepted"}
  BY <1>1, <1>2 DEF PasskeyLoginRead, Request
<1>12. QED
  BY <1>4, <1>5, <1>6, <1>7, <1>8, <1>9, <1>10, <1>11

(* A request that is at a stage the invariants are about was there before, *)
(* or came by the one step that leads there, with what that step has read. *)
LEMMA Arrivals ==
  ASSUME TypeInv, Next, NEW c \in Actors
  PROVE  \/ req'[c] = req[c]
         \/ /\ At(c, "login")' => Login(c)
            /\ At(c, "matched")' => LoginRead(c)
            /\ At(c, "accepted")' => PasskeyLoginRead(c)
            /\ At(c, "remove")' => Delete(c) \/ DeleteCount(c)
            /\ At(c, "store")' => RegisterBuild(c)
            /\ At(c, "drop")' => DeletePasskey(c) \/ DeleteLast(c)
<1>1. RequestChange /\ RequestInv
  BY UsersStep, UsersType, RequestMoves DEF UsersInv, TypeInv
<1>2. \/ req'[c] = req[c] \/ Enters(c)
      \/ req'[c].at \notin {"login", "matched", "accepted", "remove", "store", "drop"}
  <2>1. CASE UNCHANGED req \/ Restart
    BY <2>1, IdleType DEF Restart
  <2>2. CASE \E d \in Actors, r \in Request : Move(d, r)
    BY <1>1, <2>2 DEF Move, RequestInv
  <2>3. QED
    BY <1>1, <2>1, <2>2 DEF RequestChange
<1>3. Enters(c) => \/ Login(c) \/ LoginRead(c) \/ Delete(c) \/ DeleteCount(c)
                   \/ RegisterBuild(c) \/ DeletePasskey(c) \/ DeleteLast(c)
                   \/ PasskeyLoginRead(c)
  BY DEF Enters
<1>4. QED
  BY <1>1, <1>2, <1>3, StageEntered DEF At

(* Which steps change the Tailscale logins.                                *)
LEMMA LoginsFrame ==
  ASSUME Next
  PROVE  UNCHANGED logins \/ (\E c \in Actors : UpdateLogins(c) \/ DeleteUser(c))
BY TablesFrame DEF ProxyMint, ProxyRole, SetupCreate, DrawHandle, CreateCredential, DeleteCredential,
       Create, UpdatePermission, UpdatePassword

(* Which steps change the passkeys.                                        *)
LEMMA KeysFrame ==
  ASSUME Next
  PROVE  \/ UNCHANGED keys \/ (\E c \in Actors : DeleteUser(c))
         \/ \E c \in Clients : CreateCredential(c) \/ DeleteCredential(c)
BY TablesFrame DEF ProxyMint, ProxyRole, SetupCreate, DrawHandle, UpdateLogins,
       Create, UpdatePermission, UpdatePassword

(* No login and no passkey outlives its user (tailscale.go, passkeys.go:   *)
(* foreign keys with ON DELETE CASCADE).                                   *)
LEMMA TablesStep == TypeInv /\ Next => TablesInv'
<1> SUFFICES ASSUME TypeInv, Next PROVE TablesInv'
  OBVIOUS
<1>1. UsersChange /\ UsersInv' /\ serial <= serial' /\ serial \in Nat \ {0}
  BY UsersStep, UsersType DEF TypeInv, TablesInv, UsersInv
<1>2. (\A c \in Actors : ~DeleteUser(c)) => DOMAIN users \subseteq DOMAIN users'
  BY <1>1 DEF UsersChange
<1>3. LoginsInv'
  <2>1. CASE UNCHANGED logins /\ \A c \in Actors : ~DeleteUser(c)
    BY <1>2, <2>1 DEF TypeInv, TablesInv, LoginsInv
  <2>2. ASSUME NEW c \in Actors, UpdateLogins(c), \A d \in Actors : ~DeleteUser(d)
        PROVE  LoginsInv'
    <3>1. users' = users
      BY <2>2 DEF UpdateLogins
    <3>2. CASE UNCHANGED logins
      BY <3>1, <3>2 DEF TypeInv, TablesInv, LoginsInv
    <3>3. ASSUME NEW L \in SUBSET Logins, SetLogins(req[c].target, L) PROVE  LoginsInv'
      BY <3>1, <3>3 DEF SetLogins, LoginsWithout, TypeInv, TablesInv, LoginsInv
    <3>4. QED
      BY <2>2, <3>2, <3>3 DEF UpdateLogins
  <2>3. ASSUME NEW c \in Actors, DeleteUser(c)
        PROVE  LoginsInv'
    BY <2>3 DEF DeleteUser, LoginsWithout, TypeInv, TablesInv, LoginsInv
  <2>4. QED
    BY <2>1, <2>2, <2>3, LoginsFrame
<1>4. KeysInv'
  <2>0. DOMAIN keys \subseteq 1 .. serial' - 1
    BY <1>1 DEF TypeInv, TablesInv, KeysInv, UsersInv
  <2>1. CASE UNCHANGED keys /\ \A c \in Actors : ~DeleteUser(c)
    BY <1>2, <2>0, <2>1 DEF TypeInv, TablesInv, KeysInv
  <2>2. ASSUME NEW c \in Actors, DeleteUser(c)
        PROVE  KeysInv'
    BY <2>0, <2>2 DEF DeleteUser, KeysOf, TypeInv, TablesInv, KeysInv
  <2>3. ASSUME NEW c \in Clients, CreateCredential(c)
        PROVE  KeysInv'
    <3>1. users' = users /\ serial' = serial + 1 /\ req[c].handle \in Nat /\ req[c].uid \in Nat
      BY <2>3 DEF CreateCredential, TypeInv, RequestInv, Request, Actors
    <3>2. CASE req[c].uid \notin DOMAIN users
      BY <2>0, <2>3, <3>1, <3>2 DEF CreateCredential, TypeInv, TablesInv, KeysInv
    <3>3. CASE req[c].uid \in DOMAIN users
      BY <1>1, <2>0, <2>3, <3>1, <3>3 DEF CreateCredential, TypeInv, TablesInv, KeysInv, Key
    <3>4. QED
      BY <3>2, <3>3
  <2>4. ASSUME NEW c \in Clients, DeleteCredential(c)
        PROVE  KeysInv'
    BY <2>0, <2>4 DEF DeleteCredential, TypeInv, TablesInv, KeysInv
  <2>5. QED
    BY <2>1, <2>2, <2>3, <2>4, KeysFrame
<1>5. QED
  BY <1>1, <1>3, <1>4 DEF TablesInv
(* Cookies are of ids drawn before, ceremonies have a handle.              *)
LEMMA SessionStep == TypeInv /\ Next => SessionInv'
<1> SUFFICES ASSUME TypeInv, Next PROVE SessionInv'
  OBVIOUS
<1>1. serial \in Nat \ {0} /\ serial' \in Nat /\ serial <= serial'
  BY UsersStep, UsersType DEF TypeInv, TablesInv, UsersInv
<1>2. \A u \in DOMAIN users : CookieOf(u) \in Cookie /\ CookieOf(u).uid = u /\ u \in Nat /\ u < serial
  BY DEF TypeInv, TablesInv, UsersInv, CookieOf, Cookie, Row
<1>3. cookie \in [Clients -> {NoCookie} \cup Cookie]
  BY DEF TypeInv, SessionInv
<1>0. \A d \in Clients : cookie[d] = NoCookie \/ cookie[d].uid < serial'
  <2>1. \A d \in Clients : cookie[d] = NoCookie \/ (cookie[d] \in Cookie /\ cookie[d].uid < serial)
    BY DEF TypeInv, SessionInv
  <2>2. \A d \in Clients : cookie[d] = NoCookie \/ (cookie[d].uid \in Nat /\ cookie[d].uid < serial)
    BY <2>1 DEF Cookie
  <2>3. QED
    BY <1>1, <2>2
<1>4. ASSUME NEW c \in Clients, NEW k \in {NoCookie} \cup Cookie, k = NoCookie \/ k.uid < serial',
             cookie' = [cookie EXCEPT ![c] = k]
      PROVE  /\ cookie' \in [Clients -> {NoCookie} \cup Cookie]
             /\ \A d \in Clients : cookie'[d] = NoCookie \/ cookie'[d].uid < serial'
  BY <1>0, <1>3, <1>4
<1>5. ASSUME cookie' = cookie
      PROVE  /\ cookie' \in [Clients -> {NoCookie} \cup Cookie]
             /\ \A d \in Clients : cookie'[d] = NoCookie \/ cookie'[d].uid < serial'
  BY <1>0, <1>3, <1>5
<1>6. ASSUME NEW c \in Clients, \/ ByCookie(c) \/ SetupCreate(c) \/ LoginPass(c)
                                \/ Logout(c) \/ UpdateCookie(c) \/ PasskeyLoginPass(c),
             cookie' # cookie
      PROVE  \E k \in {NoCookie} \cup Cookie :
               (k = NoCookie \/ k.uid < serial') /\ cookie' = [cookie EXCEPT ![c] = k]
  <2>1. CASE ByCookie(c) \/ Logout(c)
    BY <1>6, <2>1 DEF ByCookie, Logout
  <2>2. CASE SetupCreate(c)
    <3>1. PICK n \in Names :
            /\ serial' = serial + 1
            /\ cookie' = [cookie EXCEPT ![c] = [uid |-> serial, name |-> n, perm |-> "superuser"]]
      BY <1>6, <2>2 DEF SetupCreate, CreateUser, FreshId
    <3>2. "superuser" \in Perms
      BY DEF Perms, Rank
    <3> DEFINE k == [uid |-> serial, name |-> n, perm |-> "superuser"]
    <3>3. k \in Cookie /\ k.uid = serial
      BY <1>1, <3>2 DEF Cookie
    <3>4. k.uid < serial'
      BY <1>1, <3>1, <3>3
    <3>5. QED
      BY <3>1, <3>3, <3>4
  <2>3. CASE LoginPass(c) \/ PasskeyLoginPass(c)
    <3>1. req[c].row \in Cookie /\ req[c].row.uid < serial /\ cookie' = [cookie EXCEPT ![c] = req[c].row]
      BY <2>3 DEF LoginPass, PasskeyLoginPass, TypeInv, RequestInv, Actors, At, Admitted
    <3>2. req[c].row.uid < serial'
      BY <1>1, <3>1 DEF Cookie
    <3>3. QED
      BY <3>1, <3>2
  <2>4. CASE UpdateCookie(c)
    <3>1. PICK u \in DOMAIN users : cookie' = [cookie EXCEPT ![c] = CookieOf(u)]
      BY <1>6, <2>4 DEF UpdateCookie
    <3>2. CookieOf(u) \in Cookie /\ CookieOf(u).uid < serial'
      BY <1>1, <1>2
    <3>3. QED
      BY <3>1, <3>2
  <2>5. QED
    BY <1>6, <2>1, <2>2, <2>3, <2>4
<1>7. /\ cookie' \in [Clients -> {NoCookie} \cup Cookie]
      /\ \A d \in Clients : cookie'[d] = NoCookie \/ cookie'[d].uid < serial'
  <2>1. CASE cookie' # cookie
    <3>1. PICK c \in Clients : \/ ByCookie(c) \/ SetupCreate(c) \/ LoginPass(c)
                              \/ Logout(c) \/ UpdateCookie(c) \/ PasskeyLoginPass(c)
      BY <2>1, CookieFrame
    <3>2. PICK k \in {NoCookie} \cup Cookie :
            (k = NoCookie \/ k.uid < serial') /\ cookie' = [cookie EXCEPT ![c] = k]
      BY <1>6, <2>1, <3>1
    <3>3. QED
      BY <1>4, <3>2
  <2>2. QED
    BY <1>5, <2>1
<1>8. wa' \in [Clients -> Ceremony]
  <2>1. ASSUME NEW c \in Clients, NEW k \in Ceremony, wa' = [wa EXCEPT ![c] = k]
        PROVE  wa' \in [Clients -> Ceremony]
    BY <2>1 DEF TypeInv, SessionInv
  <2>2. NoWa \in Ceremony
    BY DEF NoWa, Ceremony
  <2>3. ASSUME NEW c \in Clients, \/ RegisterBegin(c) \/ DrawHandle(c) \/ RegisterFinish(c)
                                  \/ PasskeyLoginBegin(c) \/ PasskeyLoginFinish(c) \/ WaExpire(c)
        PROVE  wa' = wa \/ \E k \in Ceremony : wa' = [wa EXCEPT ![c] = k]
    <3>1. CASE RegisterFinish(c) \/ PasskeyLoginFinish(c) \/ WaExpire(c)
      BY <2>2, <3>1 DEF RegisterFinish, PasskeyLoginFinish, WaExpire, GetAndDeleteWebAuthnSession
    <3>2. CASE PasskeyLoginBegin(c)
      BY <3>2 DEF PasskeyLoginBegin, Ceremony
    <3>3. CASE RegisterBegin(c) \/ DrawHandle(c)
      <4>1. \/ wa' = wa
            \/ \E h \in Nat : wa' = [wa EXCEPT ![c] = [ceremony |-> "registration", handle |-> h]]
        BY <1>1, <3>3 DEF RegisterBegin, DrawHandle, TypeInv, TablesInv, UsersInv, Row
      <4>2. QED
        BY <4>1 DEF Ceremony
    <3>4. QED
      BY <2>3, <3>1, <3>2, <3>3
  <2>4. QED
    BY <2>1, <2>3, CeremonyFrame DEF TypeInv, SessionInv
<1>9. QED
  BY <1>7, <1>8 DEF SessionInv

(* The counters keep their types.                                          *)
LEMMA CountStep == TypeInv /\ Next => CountInv'
BY FailuresFrame, InputsFrame, AccountsAssumption
   DEF AccountsAssumption, TypeInv, CountInv, LoginFail, RecordFailure

(* Every step keeps the types.                                             *)
LEMMA TypeStep == TypeInv /\ [Next]_vars => TypeInv'
<1>1. TypeInv /\ Next => TypeInv'
  <2>1. TypeInv /\ Next => serial' \in Nat /\ serial <= serial'
    BY UsersStep, UsersType DEF UsersInv
  <2>2. QED
    BY <2>1, TablesStep, SessionStep, RequestStep, CountStep DEF TypeInv
<1>2. TypeInv /\ UNCHANGED vars => TypeInv'
  BY DEF vars, TypeInv, TablesInv, UsersInv, LoginsInv, KeysInv, SessionInv, RequestInv, CountInv, At
<1>3. QED
  BY <1>1, <1>2

(* The databases it is started on have the types, which is what            *)
(* DatabasesAssumption says of them.                                       *)
LEMMA TypeInit == Init => TypeInv
<1> SUFFICES ASSUME Init PROVE TypeInv
  OBVIOUS
<1>1. PICK d \in Databases : users = d.users /\ keys = d.keys
  BY DEF Init
<1>2. /\ serial \in Nat \ {0} /\ serial - 1 = Cardinality(DOMAIN users) + Cardinality(DOMAIN keys)
  <2>1. Cardinality(DOMAIN users) \in Nat /\ Cardinality(DOMAIN keys) \in Nat
    BY <1>1, DatabasesAssumption, FS_CardinalityType DEF DatabasesAssumption
  <2>2. QED
    BY <2>1 DEF Init
<1>3. TablesInv
  <2>1. UsersInv /\ KeysInv
    BY <1>1, <1>2, DatabasesAssumption DEF DatabasesAssumption, UsersInv, KeysInv
  <2>2. LoginsInv
    BY DEF Init, LoginsInv
  <2>3. QED
    BY <2>1, <2>2 DEF TablesInv
<1>4. SessionInv
  <2>1. \A u \in DOMAIN users : CookieOf(u) \in Cookie /\ CookieOf(u).uid < serial
    BY <1>3 DEF TablesInv, UsersInv, CookieOf, Cookie, Row
  <2>2. cookie \in [Clients -> {NoCookie}] \/ cookie \in [Clients -> {CookieOf(u) : u \in DOMAIN users}]
    BY DEF Init
  <2>3. wa \in [Clients -> Ceremony]
    BY DEF Init, Ceremony, NoWa
  <2>4. QED
    BY <2>1, <2>2, <2>3 DEF SessionInv
<1>5. RequestInv
  <2>1. req \in [Actors -> Request] /\ \A c \in Actors : req[c] = Idle
    BY IdleType DEF Init
  <2>2. QED
    BY <1>2, <2>1, IdleType DEF RequestInv, At, Admitted
<1>6. CountInv
  BY AccountsAssumption DEF AccountsAssumption, CountInv, Init
<1>7. QED
  BY <1>3, <1>4, <1>5, <1>6 DEF TypeInv

(* The typing invariant holds in every reachable state.                    *)
LEMMA TypeInvHolds == Spec => []TypeInv
BY TypeInit, TypeStep, PTL DEF Spec

(* In every reachable state the variables have their types, ids are below  *)
(* the next number, and no login or passkey is of a user that is gone      *)
(* (internal/db: the foreign keys, and every statement that changes a      *)
(* row).                                                                   *)
THEOREM TypeCorrect == Spec => []TypeOK
<1>1. TypeInv => TypeOK
  BY DEF TypeInv, TypeOK, TablesInv, UsersInv, LoginsInv, KeysInv, SessionInv, CountInv
<1>2. QED
  BY <1>1, TypeInvHolds, PTL

-----------------------------------------------------------------------------
(* Cookies                                                                 *)

(* A cookie, or the row a login has read before it becomes one, is of the  *)
(* account with its id if that account is there.                           *)
Owner(k) == k.uid \in DOMAIN users => users[k.uid].name = k.name
OwnInv ==
  \A c \in Clients : /\ cookie[c] # NoCookie => Owner(cookie[c])
                     /\ req[c].at \in Admitted => Owner(req[c].row)

(* Names do not change, and an id drawn for a new row is of no cookie yet. *)
LEMMA NameKept ==
  ASSUME TypeInv, UsersChange, NEW k \in Cookie, k.uid < serial, Owner(k)
  PROVE  Owner(k)'
<1>1. k.uid # serial
  BY DEF Cookie, TypeInv, TablesInv, UsersInv
<1>2. QED
  BY <1>1 DEF Owner, UsersChange

(* The cookies it is started with were made from rows.                     *)
LEMMA OwnInit == Init => OwnInv
<1> SUFFICES ASSUME Init, NEW c \in Clients
             PROVE  (cookie[c] # NoCookie => Owner(cookie[c])) /\ ~(req[c].at \in Admitted)
  BY DEF OwnInv
<1>1. req[c] = Idle
  BY DEF Init, Actors
<1>2. cookie[c] = NoCookie \/ \E u \in DOMAIN users : cookie[c] = CookieOf(u)
  BY DEF Init
<1>3. \A u \in DOMAIN users : Owner(CookieOf(u))
  BY DEF Owner, CookieOf
<1>4. QED
  BY <1>1, <1>2, <1>3, IdleType DEF Admitted

(* Every step keeps cookies with their accounts, those of logins under way *)
(* too: a row may be deleted between its reading and the cookie.           *)
LEMMA OwnStep == TypeInv /\ OwnInv /\ [Next]_vars => OwnInv'
<1> SUFFICES ASSUME TypeInv, OwnInv, [Next]_vars, NEW c \in Clients
             PROVE  /\ cookie'[c] # NoCookie => Owner(cookie[c])'
                    /\ (req[c].at \in Admitted)' => Owner(req[c].row)'
  BY DEF OwnInv
<1> DEFINE OwnerNext(k) == k.uid \in DOMAIN users' => users'[k.uid].name = k.name
<1>1. CASE UNCHANGED vars
  BY <1>1 DEF vars, OwnInv, Owner, At
<1>2. CASE Next
  <2>1. \A k \in Cookie : k.uid < serial /\ Owner(k) => OwnerNext(k)
    BY <1>2, UsersStep, NameKept DEF Owner
  <2>2. \A u \in DOMAIN users : CookieOf(u) \in Cookie /\ CookieOf(u).uid < serial /\ Owner(CookieOf(u))
    BY DEF TypeInv, TablesInv, UsersInv, CookieOf, Cookie, Row, Owner
  <2>3. c \in Actors /\ req \in [Actors -> Request] /\ cookie \in [Clients -> {NoCookie} \cup Cookie]
    BY DEF Actors, TypeInv, RequestInv, SessionInv
  <2>4. req[c].at \in Admitted => req[c].row \in Cookie /\ req[c].row.uid < serial /\ Owner(req[c].row)
    BY <2>3 DEF TypeInv, RequestInv, OwnInv
  <2>5. (req[c].at \in Admitted)' => OwnerNext(req'[c].row)
    <3>1. CASE req'[c] = req[c]
      BY <2>1, <2>4, <3>1
    <3>2. CASE LoginRead(c) \/ PasskeyLoginRead(c)
      <4>1. CASE Stay(c)
        BY <2>3, <4>1, IdleType DEF Stay, Admitted
      <4>2. CASE ~Stay(c)
        <5>1. PICK u \in DOMAIN users, s \in Admitted :
                req' = [req EXCEPT ![c].at = s, ![c].row = CookieOf(u)]
          BY <3>2, <4>2 DEF LoginRead, PasskeyLoginRead, Admitted
        <5>2. req'[c].row = CookieOf(u)
          BY <2>3, <5>1 DEF Request
        <5>3. QED
          BY <2>1, <2>2, <5>2
      <4>3. QED
        BY <4>1, <4>2
    <3>3. QED
      BY <1>2, <2>3, <3>1, <3>2, Arrivals DEF At, Admitted
  <2>6. cookie'[c] # NoCookie => OwnerNext(cookie'[c])
    <3>1. CASE cookie'[c] = cookie[c]
      <4>1. cookie[c] # NoCookie => cookie[c] \in Cookie /\ cookie[c].uid < serial /\ Owner(cookie[c])
        BY <2>3 DEF OwnInv, TypeInv, SessionInv
      <4>2. QED
        BY <2>1, <3>1, <4>1
    <3>2. CASE cookie'[c] # cookie[c]
      <4>1. \/ ByCookie(c) \/ SetupCreate(c) \/ LoginPass(c)
            \/ Logout(c) \/ UpdateCookie(c) \/ PasskeyLoginPass(c)
        <5>1. PICK d \in Clients : \/ ByCookie(d) \/ SetupCreate(d) \/ LoginPass(d)
                                 \/ Logout(d) \/ UpdateCookie(d) \/ PasskeyLoginPass(d)
          BY <1>2, <3>2, CookieFrame
        <5>2. \E k : cookie' = cookie \/ cookie' = [cookie EXCEPT ![d] = k]
          BY <5>1 DEF ByCookie, SetupCreate, LoginPass, Logout, UpdateCookie, PasskeyLoginPass
        <5>3. d = c
          BY <2>3, <3>2, <5>2
        <5>4. QED
          BY <5>1, <5>3
      <4>2. CASE ByCookie(c) \/ Logout(c)
        BY <2>3, <3>2, <4>2 DEF ByCookie, Logout
      <4>3. CASE SetupCreate(c)
        <5>1. PICK n \in Names : /\ CreateUser(n, "hash", "superuser")
                                /\ cookie'[c] = [uid |-> serial, name |-> n, perm |-> "superuser"]
          BY <2>3, <3>2, <4>3 DEF SetupCreate, FreshId
        <5>2. users'[serial].name = n
          BY <5>1, CreateUserRow DEF TypeInv, TablesInv, Perms, Rank
        <5>3. QED
          BY <5>1, <5>2
      <4>4. CASE LoginPass(c) \/ PasskeyLoginPass(c)
        BY <2>1, <2>3, <2>4, <4>4 DEF LoginPass, PasskeyLoginPass, At, Admitted
      <4>5. CASE UpdateCookie(c)
        <5>1. \E u \in DOMAIN users : cookie'[c] = CookieOf(u)
          BY <2>3, <3>2, <4>5 DEF UpdateCookie
        <5>2. QED
          BY <2>1, <2>2, <5>1
      <4>6. QED
        BY <4>1, <4>2, <4>3, <4>4, <4>5
    <3>3. QED
      BY <3>1, <3>2
  <2>7. QED
    BY <2>5, <2>6 DEF Owner
<1>3. QED
  BY <1>1, <1>2

(* A cookie that outlives its account never opens another one, however     *)
(* accounts are deleted and their names used again, for any number of      *)
(* browsers (profile.go validateSessionUser; AUTOINCREMENT in db.go).      *)
THEOREM CookieOpensItsAccount == Spec => []CookieOwner
<1>1. OwnInv => CookieOwner
  BY DEF OwnInv, CookieOwner, Owner
<1>2. QED
  BY <1>1, OwnInit, OwnStep, TypeInvHolds, PTL DEF Spec

-----------------------------------------------------------------------------
(* Passkeys                                                                *)

(* A handle fits a user that is gone, one that has it, and one that had    *)
(* its handle replaced. Between FinishRegistration and the insert the      *)
(* handle of the request must fit too.                                     *)
Fits(u, h) == u \in DOMAIN users => users[u].handle = h \/ u \in redrawn
HandleInv ==
  /\ \A k \in DOMAIN keys : keys[k].handle # 0 /\ Fits(keys[k].owner, keys[k].handle)
  /\ \A c \in Clients : At(c, "store") => req[c].handle # 0 /\ Fits(req[c].uid, req[c].handle)

(* Passkeys it is started with have their owners' handles.                 *)
LEMMA HandleInit == Init => HandleInv
<1> SUFFICES ASSUME Init PROVE HandleInv
  OBVIOUS
<1>1. \A c \in Clients : ~At(c, "store")
  BY IdleType DEF Init, Actors, At
<1>2. \A k \in DOMAIN keys : keys[k].handle # 0 /\ users[keys[k].owner].handle = keys[k].handle
  BY DatabasesAssumption DEF DatabasesAssumption, Init
<1>3. QED
  BY <1>1, <1>2 DEF HandleInv, Fits

(* A handle that is not empty goes on to fit: it is replaced by DrawHandle *)
(* only, and then the user is among those redrawn.                         *)
LEMMA HandleKept ==
  ASSUME TypeInv, Next, NEW u \in Nat, NEW h \in Nat \ {0}, u < serial, Fits(u, h)
  PROVE  Fits(u, h)'
<1> SUFFICES ASSUME u \in DOMAIN users' PROVE users'[u].handle = h \/ u \in redrawn'
  BY DEF Fits
<1>1. UsersChange
  BY UsersStep
<1>2. u \in DOMAIN users
  BY <1>1 DEF UsersChange, TypeInv, TablesInv, UsersInv
<1>3. redrawn \subseteq redrawn'
  BY TablesFrame DEF ProxyMint, ProxyRole, SetupCreate, DrawHandle, CreateCredential, DeleteCredential,
     Create, UpdatePermission, UpdatePassword, UpdateLogins, DeleteUser
<1>4. CASE users'[u].handle = users[u].handle
  BY <1>2, <1>3, <1>4 DEF Fits
<1>5. CASE \E c \in Clients : DrawHandle(c) /\ u = req[c].uid
  BY <1>2, <1>3, <1>5 DEF Fits, DrawHandle
<1>6. QED
  BY <1>1, <1>2, <1>4, <1>5 DEF UsersChange

(* Every step keeps the handles fitting.                                   *)
LEMMA HandleStep == TypeInv /\ HandleInv /\ [Next]_vars => HandleInv'
<1>1. ASSUME TypeInv, HandleInv, UNCHANGED vars PROVE HandleInv'
  BY <1>1 DEF vars, HandleInv, Fits, At
<1>2. ASSUME TypeInv, HandleInv, Next PROVE HandleInv'
  <2> DEFINE FitsNext(u, h) == u \in DOMAIN users' => users'[u].handle = h \/ u \in redrawn'
  <2>1. \A u \in Nat, h \in Nat \ {0} : u < serial /\ Fits(u, h) => FitsNext(u, h)
    BY <1>2, HandleKept DEF Fits
  <2>2. \A k \in DOMAIN keys : /\ keys[k].owner \in Nat /\ keys[k].owner < serial
                               /\ keys[k].handle \in Nat \ {0} /\ Fits(keys[k].owner, keys[k].handle)
    BY <1>2 DEF TypeInv, TablesInv, UsersInv, KeysInv, Key, HandleInv
  <2>3. ASSUME NEW k \in DOMAIN keys'
        PROVE  keys'[k].handle # 0 /\ FitsNext(keys'[k].owner, keys'[k].handle)
    <3>1. CASE k \in DOMAIN keys /\ keys'[k] = keys[k]
      BY <2>1, <2>2, <3>1
    <3>2. CASE ~(k \in DOMAIN keys /\ keys'[k] = keys[k])
      <4>1. PICK c \in Clients : CreateCredential(c)
        BY <1>2, <2>3, <3>2, KeysFrame DEF DeleteUser, DeleteCredential
      <4>2. /\ req[c].uid \in DOMAIN users
            /\ keys'[k] = [owner |-> req[c].uid, handle |-> req[c].handle]
        BY <2>3, <3>2, <4>1 DEF CreateCredential
      <4>3. req[c].handle # 0 /\ Fits(req[c].uid, req[c].handle)
        BY <1>2, <4>1 DEF CreateCredential, HandleInv
      <4>4. UNCHANGED <<users, redrawn>>
        BY <4>1 DEF CreateCredential
      <4>5. QED
        BY <4>2, <4>3, <4>4 DEF Fits
    <3>3. QED
      BY <3>1, <3>2
  <2>4. ASSUME NEW c \in Clients, At(c, "store")'
        PROVE  req'[c].handle # 0 /\ FitsNext(req'[c].uid, req'[c].handle)
    <3>1. c \in Actors /\ req \in [Actors -> Request] /\ req[c].uid < serial
      BY <1>2 DEF Actors, TypeInv, RequestInv
    <3>2. CASE req'[c] = req[c]
      <4>1. req[c].uid \in Nat /\ req[c].handle \in Nat
        BY <3>1 DEF Request
      <4>2. req[c].handle # 0 /\ Fits(req[c].uid, req[c].handle)
        BY <1>2, <2>4, <3>2 DEF At, HandleInv
      <4>3. QED
        BY <2>1, <3>1, <3>2, <4>1, <4>2
    <3>3. CASE RegisterBuild(c)
      <4>1. /\ req' = [req EXCEPT ![c].at = "store"] /\ UNCHANGED <<users, redrawn>>
            /\ users[req[c].uid].handle # 0 /\ users[req[c].uid].handle = req[c].handle
        BY <2>4, <3>1, <3>3, IdleType DEF RegisterBuild, Goto, Stay, At, Matches, tables, Request
      <4>2. req'[c].uid = req[c].uid /\ req'[c].handle = req[c].handle
        BY <3>1, <4>1 DEF Request
      <4>3. QED
        BY <4>1, <4>2
    <3>4. QED
      BY <1>2, <2>4, <3>1, <3>2, <3>3, Arrivals
  <2>5. QED
    BY <2>3, <2>4 DEF HandleInv, Fits
<1>3. QED
  BY <1>1, <1>2

(* A passkey finds its user, whichever browser signed in as whom between   *)
(* the begin and the finish of its registration, unless two first          *)
(* registrations at once each drew a handle (db/users.go                   *)
(* GetOrSetWebAuthnID).                                                    *)
THEOREM PasskeyFindsItsOwner == Spec => []KeyOpens
<1>1. TypeInv /\ HandleInv => KeyOpens
  BY DEF TypeInv, TablesInv, KeysInv, HandleInv, KeyOpens, Fits
<1>2. QED
  BY <1>1, HandleInit, HandleStep, TypeInvHolds, PTL DEF Spec

-----------------------------------------------------------------------------
(* Failed logins                                                           *)

(* The logins that were let through and have yet to be judged. Each may    *)
(* still add a failure, so they are counted with the failures.             *)
TryingLogin == {c \in Clients : At(c, "login")}
TriesInv == failures + Cardinality(TryingLogin) < MaxFailures + Cardinality(Clients)

(* There are no more of them than browsers.                                *)
LEMMA TryingFinite ==
  /\ IsFiniteSet(TryingLogin) /\ Cardinality(TryingLogin) \in Nat
  /\ Cardinality(Clients) \in Nat /\ Cardinality(TryingLogin) <= Cardinality(Clients)
<1>1. IsFiniteSet(Clients) /\ TryingLogin \subseteq Clients
  BY AccountsAssumption DEF AccountsAssumption, TryingLogin
<1>2. QED
  BY <1>1, FS_Subset, FS_CardinalityType

(* A login let through finds fewer failures than the limit, and one that   *)
(* fails is no longer under way.                                           *)
LEMMA TriesStep == TypeInv /\ TriesInv /\ [Next]_vars => TriesInv'
<1> SUFFICES ASSUME TypeInv, TriesInv, [Next]_vars PROVE TriesInv'
  OBVIOUS
<1>1. /\ Cardinality(TryingLogin) \in Nat /\ Cardinality(TryingLogin') \in Nat
      /\ Cardinality(Clients) \in Nat
      /\ Cardinality(TryingLogin') <= Cardinality(Clients)
      /\ IsFiniteSet(TryingLogin)
  <2>1. IsFiniteSet(Clients) /\ TryingLogin' \subseteq Clients
    BY AccountsAssumption DEF AccountsAssumption, TryingLogin
  <2>2. QED
    BY <2>1, TryingFinite, FS_Subset, FS_CardinalityType
<1>2. failures \in Nat /\ MaxFailures \in Nat \ {0}
  BY AccountsAssumption DEF AccountsAssumption, TypeInv, CountInv
<1>3. CASE UNCHANGED vars
  BY <1>3 DEF vars, TriesInv, TryingLogin, At
<1>4. ASSUME NEW c \in Clients, Login(c)
      PROVE  TriesInv'
  <2>1. failures < MaxFailures /\ failures' = failures
    BY <1>4 DEF Login, Allow
  <2>2. QED
    BY <1>1, <1>2, <2>1 DEF TriesInv
<1>5. CASE Next /\ \A c \in Clients : ~Login(c)
  <2>1. TryingLogin' \subseteq TryingLogin
    BY <1>5, Arrivals DEF TryingLogin, At, Actors
  <2>2. CASE failures' = failures \/ failures' = 0
    <3>1. Cardinality(TryingLogin') <= Cardinality(TryingLogin)
      BY <1>1, <2>1, FS_Subset
    <3>2. QED
      BY <1>1, <1>2, <2>2, <3>1 DEF TriesInv
  <2>3. ASSUME NEW c \in Clients, LoginFail(c)
        PROVE  TriesInv'
    <3>1. c \in TryingLogin /\ failures' = failures + 1
      BY <2>3 DEF TryingLogin, LoginFail, RecordFailure
    <3>2. c \notin TryingLogin'
      BY <2>3, IdleType DEF LoginFail, Stay, TryingLogin, At, TypeInv, RequestInv, Actors
    <3>3. /\ IsFiniteSet(TryingLogin \ {c})
          /\ Cardinality(TryingLogin \ {c}) = Cardinality(TryingLogin) - 1
          /\ TryingLogin' \subseteq TryingLogin \ {c}
      BY <1>1, <2>1, <3>1, <3>2, FS_RemoveElement
    <3>4. Cardinality(TryingLogin') <= Cardinality(TryingLogin) - 1
      BY <3>3, FS_Subset
    <3>5. QED
      BY <1>1, <1>2, <3>1, <3>4 DEF TriesInv
  <2>4. QED
    BY <1>5, <2>2, <2>3, FailuresFrame
<1>6. QED
  BY <1>3, <1>4, <1>5

(* The limit on failed logins is exceeded by no more than the logins under *)
(* way at once, less one, for any limit and any number of browsers         *)
(* (security.go Allow before, RecordFailure after).                        *)
THEOREM TriesAreBounded == Spec => []TriesBounded
<1>1. Init => TriesInv
  <2> SUFFICES ASSUME Init PROVE TriesInv
    OBVIOUS
  <2>1. TryingLogin = {}
    BY IdleType DEF Init, TryingLogin, At, Actors
  <2>2. Cardinality(TryingLogin) = 0 /\ failures = 0
    BY <2>1, FS_EmptySet DEF Init
  <2>3. QED
    BY <2>2, TryingFinite, AccountsAssumption DEF AccountsAssumption, TriesInv
<1>2. TypeInv /\ TriesInv => TriesBounded
  BY TryingFinite, AccountsAssumption DEF AccountsAssumption, TypeInv, CountInv, TriesInv, TriesBounded
<1>3. QED
  BY <1>1, <1>2, TriesStep, TypeInvHolds, PTL DEF Spec

-----------------------------------------------------------------------------
(* The last passkey                                                        *)

(* A passkey about to be deleted was one of at least two, or its owner is  *)
(* gone or has a password.                                                 *)
Spare(c) == \/ ~(Cardinality(req[c].seen) <= 1)
            \/ req[c].uid \in DOMAIN users => users[req[c].uid].pass # "*"
SpareInv == \A c \in Actors : At(c, "drop") => Spare(c)

(* Every step keeps that: no password is ever taken away, and no id is     *)
(* used again.                                                             *)
LEMMA SpareStep == TypeInv /\ SpareInv /\ [Next]_vars => SpareInv'
<1> SUFFICES ASSUME TypeInv, SpareInv, [Next]_vars, NEW c \in Actors, At(c, "drop")'
             PROVE  Spare(c)'
  BY DEF SpareInv
<1>1. req \in [Actors -> Request] /\ req[c].uid \in Nat /\ req[c].uid < serial
  BY DEF TypeInv, RequestInv, Request
<1>2. CASE UNCHANGED vars
  BY <1>2 DEF vars, SpareInv, Spare, At
<1>3. CASE Next /\ req'[c] = req[c]
  <2>1. UsersChange /\ Spare(c)
    BY <1>3, UsersStep DEF SpareInv, At
  <2>2. req[c].uid \in DOMAIN users' => req[c].uid \in DOMAIN users
    BY <1>1, <2>1 DEF UsersChange
  <2>3. QED
    BY <1>3, <2>1, <2>2 DEF UsersChange, Spare
<1>4. CASE DeletePasskey(c)
  <2>1. PICK s \in {"last", "drop"} : /\ req' = [req EXCEPT ![c].seen = KeysOf(req[c].uid), ![c].at = s]
                                      /\ s = "drop" => ~(Cardinality(KeysOf(req[c].uid)) <= 1)
    BY <1>4 DEF DeletePasskey, LastOne
  <2>2. req'[c].seen = KeysOf(req[c].uid) /\ s = "drop"
    BY <1>1, <2>1 DEF Request, At
  <2>3. QED
    BY <2>1, <2>2 DEF Spare
<1>5. CASE DeleteLast(c)
  <2>1. req' = [req EXCEPT ![c].at = "drop"] /\ users[req[c].uid].pass # "*" /\ users' = users
    BY <1>1, <1>5, IdleType DEF DeleteLast, Stay, Goto, At
  <2>2. req'[c].uid = req[c].uid
    BY <1>1, <2>1 DEF Request
  <2>3. QED
    BY <2>1, <2>2 DEF Spare
<1>6. QED
  BY <1>2, <1>3, <1>4, <1>5, Arrivals

(* No passkey is being deleted at start.                                   *)
LEMMA SpareInit == Init => SpareInv
BY IdleType DEF Init, SpareInv, At

(* An account without a password keeps its last passkey unless another one *)
(* was deleted since the deletion counted them (passkeys.go:411-418),      *)
(* whatever else browsers and commands do to the account meanwhile.        *)
THEOREM LastKeyStays == Spec => LastKeyKept
<1>1. ASSUME TypeInv, SpareInv, Next, NEW u \in DOMAIN users \cap DOMAIN users',
             users[u].pass = "*", KeysOf(u) # {}, KeysOf(u)' = {}
      PROVE  \E c \in Clients : At(c, "drop") /\ req[c].uid = u /\ ~(req[c].seen \subseteq KeysOf(u))
  <2>1. PICK k \in DOMAIN keys : keys[k].owner = u
    BY <1>1 DEF KeysOf
  <2>2. ~(k \in DOMAIN keys' /\ keys'[k] = keys[k])
    BY <1>1, <2>1 DEF KeysOf
  <2>3. PICK c \in Clients : DeleteCredential(c)
    <3>1. \A c \in Actors : ~DeleteUser(c)
      BY <1>1, <2>1, <2>2 DEF DeleteUser, KeysOf
    <3>2. \A c \in Clients : ~CreateCredential(c)
      BY <2>1, <2>2 DEF CreateCredential
    <3>3. QED
      BY <1>1, <2>1, <2>2, <3>1, <3>2, KeysFrame
  <2>4. PICK d \in KeysOf(req[c].uid) : At(c, "drop") /\ keys' = [j \in DOMAIN keys \ {d} |-> keys[j]]
    BY <2>1, <2>2, <2>3 DEF DeleteCredential
  <2>5. d = k /\ req[c].uid = u
    BY <2>1, <2>2, <2>4 DEF KeysOf
  <2>6. KeysOf(u) = {k}
    BY <1>1, <2>1, <2>4, <2>5 DEF KeysOf
  <2>7. ASSUME req[c].seen \subseteq KeysOf(u) PROVE FALSE
    <3>1. Cardinality(req[c].seen) <= 1
      <4>1. req[c].seen = {} \/ req[c].seen = {k}
        BY <2>6, <2>7
      <4>2. Cardinality({}) = 0 /\ Cardinality({k}) = 1
        BY FS_Singleton, FS_EmptySet
      <4>3. QED
        BY <4>1, <4>2
    <3>2. Spare(c)
      BY <1>1, <2>4 DEF SpareInv, Actors
    <3>3. QED
      BY <1>1, <2>5, <3>1, <3>2 DEF Spare
  <2>8. QED
    BY <2>4, <2>5, <2>7
<1>2. TypeInv /\ SpareInv /\ [Next]_vars =>
        [\A u \in DOMAIN users \cap DOMAIN users' :
           users[u].pass = "*" /\ KeysOf(u) # {} /\ KeysOf(u)' = {} =>
             \E c \in Clients : /\ At(c, "drop") /\ req[c].uid = u
                                /\ ~(req[c].seen \subseteq KeysOf(u))]_vars
  BY <1>1
<1>3. QED
  BY <1>2, SpareInit, SpareStep, TypeInvHolds, PTL DEF Spec, LastKeyKept
=============================================================================
