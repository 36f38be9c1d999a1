------------------------------ MODULE Accounts ------------------------------
(***************************************************************************)
(* Accounts: the users table with its logins and passkeys                  *)
(* (internal/db/users.go, tailscale.go, passkeys.go), the requests and     *)
(* commands that change it (internal/server/handlers.go, users.go,         *)
(* profile.go, proxyauth.go, passkeys.go, cmd/yaamon/user.go), session     *)
(* cookies (internal/auth/session.go) and the limit on failed logins       *)
(* (internal/server/security.go).                                          *)
(*                                                                         *)
(* The database has one connection, so a statement is a step; a handler    *)
(* is a sequence of statements between which others run. Passwords are     *)
(* "hash" or "*"; what a browser sends, and whether a password is the      *)
(* right one, is chosen freely. Ids, handles and passkeys are drawn from   *)
(* one counter, as none is ever drawn twice.                               *)
(***************************************************************************)
EXTENDS Naturals, FiniteSets

CONSTANTS
  Clients,       \* browsers, each with one request under way at most
  Shell,         \* the command line, another process
  Names,         \* user names
  Logins,        \* Tailscale logins
  Databases,     \* users and passkeys it is started on
  Roles,         \* permissions a proxy may grant (group_roles)
  MaxFailures,   \* failed logins before an address is refused (5)
  MaxInputs      \* bound: requests and commands

ASSUME AccountsAssumption ==
  /\ Shell \notin Clients /\ IsFiniteSet(Clients)
  /\ MaxFailures \in Nat \ {0} /\ MaxInputs \in Nat

VARIABLES
  users,      \* users: id to row
  logins,     \* tailscale_logins: login to user id
  keys,       \* webauthn_credentials: id to owner and handle
  wa,         \* webauthn_sessions: the one each browser has the cookie of
  cookie,     \* the session cookie of each browser
  req,        \* where each request stands, and what it has read
  failures,   \* loginLimiter, for one address
  serial,     \* the next number to draw
  inputs,     \* bound
  redrawn     \* history: users whose handle was replaced

tables == <<users, logins, keys>>
vars == <<tables, wa, cookie, req, failures, serial, inputs, redrawn>>

Actors == Clients \cup {Shell}
Rank   == [superuser |-> 4, admin |-> 3, readonly |-> 1]
Perms  == DOMAIN Rank
AtLeast(p, q) == Rank[p] >= Rank[q]

Row      == [name : Names, pass : {"hash", "*"}, perm : Perms, handle : Nat]
Key      == [owner : Nat, handle : Nat]
Cookie   == [uid : Nat, name : Names, perm : Perms]
NoCookie == [uid |-> 0]
CookieOf(u) == [uid |-> u, name |-> users[u].name, perm |-> users[u].perm]
NoWa     == [ceremony |-> "none", handle |-> 0]
Idle     == [at |-> "idle", uid |-> 0, perm |-> "readonly", local |-> FALSE,
             target |-> 0, own |-> FALSE, row |-> NoCookie, handle |-> 0, seen |-> {}]

(* Ids are numbered from 1 in both tables. A passkey goes with its owner,   *)
(* and has the handle its owner was given when it was made.                *)
ASSUME DatabasesAssumption ==
  /\ Roles \subseteq Perms
  /\ \A d \in Databases :
       /\ IsFiniteSet(DOMAIN d.users) /\ IsFiniteSet(DOMAIN d.keys)
       /\ DOMAIN d.users \cup DOMAIN d.keys
            \subseteq 1 .. Cardinality(DOMAIN d.users) + Cardinality(DOMAIN d.keys)
       /\ \A u \in DOMAIN d.users : d.users[u] \in Row
       /\ \A k \in DOMAIN d.keys :
            /\ d.keys[k] \in Key /\ d.keys[k].owner \in DOMAIN d.users
            /\ d.keys[k].handle = d.users[d.keys[k].owner].handle
            /\ d.keys[k].handle # 0

Supers    == {u \in DOMAIN users : users[u].perm = "superuser"}
Named(n)  == {u \in DOMAIN users : users[u].name = n}
KeysOf(u) == {k \in DOMAIN keys : keys[k].owner = u}

Init ==
  /\ \E d \in Databases : users = d.users /\ keys = d.keys
  /\ logins = <<>>
  /\ wa = [c \in Clients |-> NoWa]
  /\ cookie \in [Clients -> IF users = <<>> THEN {NoCookie}
                            ELSE {CookieOf(u) : u \in DOMAIN users}]
  /\ req = [c \in Actors |-> Idle]
  /\ failures = 0 /\ inputs = 0 /\ redrawn = {}
  /\ serial = 1 + Cardinality(DOMAIN users) + Cardinality(DOMAIN keys)

-----------------------------------------------------------------------------
(* Faulty variants of definitions below; none is part of the specification. *)

(* Mistake: ids are handed out again (no AUTOINCREMENT). *)
FreshIdReused == CHOOSE i \in 1 .. serial : i \notin DOMAIN users /\
                   \A j \in DOMAIN users : j < i

(* Mistake: the count is compared with zero. *)
LastOneZero(n) == n < 1

(* Mistake: a registration is not matched with its session. *)
MatchesAny(c) == TRUE

(* Mistake: one failure more than the limit is allowed. *)
AllowOneMore == failures <= MaxFailures

(* Mistake: a deleted user's logins stay. *)
LoginsWithoutAll(u) == logins

-----------------------------------------------------------------------------
Stay(c)    == req' = [req EXCEPT ![c] = Idle]
Goto(c, s) == req' = [req EXCEPT ![c].at = s]
At(c, s)   == req[c].at = s

Begin(c, r) ==
  /\ At(c, "idle") /\ inputs < MaxInputs
  /\ inputs' = inputs + 1
  /\ req' = [req EXCEPT ![c] = r]

Set(u, field, v) ==
  users' = IF u \in DOMAIN users THEN [users EXCEPT ![u][field] = v] ELSE users

FreshId == serial

(* user names are unique *)
CreateUser(n, w, p) ==
  /\ Named(n) = {}
  /\ users' = [u \in DOMAIN users \cup {FreshId} |->
                 IF u \in DOMAIN users THEN users[u]
                 ELSE [name |-> n, pass |-> w, perm |-> p, handle |-> 0]]
  /\ serial' = serial + 1

Routed(u, p, l) == [Idle EXCEPT !.at = "routed", !.uid = u, !.perm = p, !.local = l]

-----------------------------------------------------------------------------
(* How a request gets its session *)

GetSession(c) == cookie[c] # NoCookie

(* validateSessionUser: a cookie whose user is gone is cleared. *)
ByCookie(c) ==
  /\ GetSession(c)
  /\ LET u == cookie[c].uid
     IN \/ /\ u \in DOMAIN users
           /\ Begin(c, Routed(u, cookie[c].perm, TRUE))
           /\ UNCHANGED cookie
        \/ /\ u \notin DOMAIN users
           /\ Begin(c, Idle)
           /\ cookie' = [cookie EXCEPT ![c] = NoCookie]
  /\ UNCHANGED <<tables, wa, failures, serial, redrawn>>

GetUserByTailscaleLogin(l) == logins[l]

ByTailscale(c) ==
  /\ \E l \in DOMAIN logins : LET u == GetUserByTailscaleLogin(l) IN
       Begin(c, Routed(u, users[u].perm, FALSE))
  /\ UNCHANGED <<tables, wa, cookie, failures, serial, redrawn>>

(* oauthSession: the account is looked up, made if there is none, and its  *)
(* permission brought up to date. setupGuard lets the paths of the setup   *)
(* page pass, so this also happens before there is any account.            *)
ByProxy(c) ==
  /\ \E n \in Names, p \in Roles :
       LET r == [Idle EXCEPT !.perm = p, !.row = [name |-> n]]
       IN \/ /\ Named(n) = {}
             /\ Begin(c, [r EXCEPT !.at = "mint"])
          \/ \E u \in Named(n) :
               Begin(c, [r EXCEPT !.at = "role", !.uid = u, !.row = users[u]])
  /\ UNCHANGED <<tables, wa, cookie, failures, serial, redrawn>>

ProxyMint(c) ==
  /\ At(c, "mint")
  /\ LET n == req[c].row.name
     IN \/ /\ CreateUser(n, "*", req[c].perm)
           /\ req' = [req EXCEPT ![c] = Routed(FreshId, req[c].perm, FALSE)]
        \/ /\ Named(n) # {}
           /\ Stay(c)
           /\ UNCHANGED <<users, serial>>
  /\ UNCHANGED <<logins, keys, wa, cookie, failures, inputs, redrawn>>

ProxyRole(c) ==
  /\ At(c, "role")
  /\ \/ req[c].row.perm # req[c].perm /\ Set(req[c].uid, "perm", req[c].perm)
     \/ UNCHANGED users
  /\ req' = [req EXCEPT ![c] = Routed(req[c].uid, req[c].perm, FALSE)]
  /\ UNCHANGED <<logins, keys, wa, cookie, failures, serial, inputs, redrawn>>

(* A command has no session and may do what a superuser may. *)
Command ==
  /\ Begin(Shell, Routed(0, "superuser", FALSE))
  /\ UNCHANGED <<tables, wa, cookie, failures, serial, redrawn>>

-----------------------------------------------------------------------------
(* Setup, login, logout *)

Setup(c) ==
  /\ DOMAIN users = {}
  /\ Begin(c, [Idle EXCEPT !.at = "setup"])
  /\ UNCHANGED <<tables, wa, cookie, failures, serial, redrawn>>

SetupCreate(c) ==
  /\ At(c, "setup")
  /\ \E n \in Names :
       \/ /\ CreateUser(n, "hash", "superuser")
          /\ cookie' = [cookie EXCEPT ![c] =
                          [uid |-> FreshId, name |-> n, perm |-> "superuser"]]
       \/ /\ Named(n) # {}
          /\ UNCHANGED <<users, serial, cookie>>
  /\ Stay(c)
  /\ UNCHANGED <<logins, keys, wa, failures, inputs, redrawn>>

Allow         == failures < MaxFailures
RecordFailure == failures' = failures + 1
RecordSuccess == failures' = 0

Login(c) ==
  /\ Allow
  /\ Begin(c, [Idle EXCEPT !.at = "login"])
  /\ UNCHANGED <<tables, wa, cookie, failures, serial, redrawn>>

(* A name nobody has, an account without a password, a wrong password. *)
LoginFail(c) ==
  /\ At(c, "login")
  /\ RecordFailure
  /\ Stay(c)
  /\ UNCHANGED <<tables, wa, cookie, serial, inputs, redrawn>>

LoginRead(c) ==
  /\ At(c, "login")
  /\ \E u \in DOMAIN users :
       /\ users[u].pass = "hash"
       /\ req' = [req EXCEPT ![c].at = "matched", ![c].row = CookieOf(u)]
  /\ UNCHANGED <<tables, wa, cookie, failures, serial, inputs, redrawn>>

(* The cookie carries the row as it was read. *)
LoginPass(c) ==
  /\ At(c, "matched")
  /\ RecordSuccess
  /\ cookie' = [cookie EXCEPT ![c] = req[c].row]
  /\ Stay(c)
  /\ UNCHANGED <<tables, wa, serial, inputs, redrawn>>

Logout(c) ==
  /\ GetSession(c)
  /\ Begin(c, Idle)
  /\ cookie' = [cookie EXCEPT ![c] = NoCookie]
  /\ UNCHANGED <<tables, wa, failures, serial, redrawn>>

(* The window of the limiter ends; a record past it counts for nothing. *)
WindowEnds ==
  /\ failures > 0
  /\ failures' = 0
  /\ UNCHANGED <<tables, wa, cookie, req, serial, inputs, redrawn>>

-----------------------------------------------------------------------------
(* User administration, from the browser or the command line *)

MayAdmin(c)    == At(c, "routed") /\ AtLeast(req[c].perm, "admin")
MayGrant(c, p) == p = "superuser" => req[c].perm = "superuser"

Create(c) ==
  /\ MayAdmin(c)
  /\ \E n \in Names, p \in Perms :
       \/ MayGrant(c, p) /\ CreateUser(n, "hash", p)
       \/ (~MayGrant(c, p) \/ Named(n) # {}) /\ UNCHANGED <<users, serial>>
  /\ Stay(c)
  /\ UNCHANGED <<logins, keys, wa, cookie, failures, inputs, redrawn>>

(* The account is read first, and the change of each column is a statement *)
(* of its own: a later one may be refused after an earlier one was made.   *)
Update(c) ==
  /\ MayAdmin(c)
  /\ \E t \in DOMAIN users :
       IF users[t].perm = "superuser" /\ req[c].perm # "superuser" THEN Stay(c)
       ELSE req' = [req EXCEPT ![c].at = "permission", ![c].target = t]
  /\ UNCHANGED <<tables, wa, cookie, failures, serial, inputs, redrawn>>

UpdatePermission(c) ==
  /\ At(c, "permission")
  /\ \/ Goto(c, "password") /\ UNCHANGED users
     \/ \E p \in Perms :
          \/ MayGrant(c, p) /\ Set(req[c].target, "perm", p) /\ Goto(c, "password")
          \/ ~MayGrant(c, p) /\ Stay(c) /\ UNCHANGED users
  /\ UNCHANGED <<logins, keys, wa, cookie, failures, serial, inputs, redrawn>>

(* One's own profile: no password for the account of a proxy. *)
UpdateProfile(c) ==
  /\ At(c, "routed") /\ c \in Clients
  /\ IF req[c].uid \in DOMAIN users
     THEN req' = [req EXCEPT ![c].at = "password", ![c].target = req[c].uid,
                             ![c].own = TRUE, ![c].row = users[req[c].uid]]
     ELSE Stay(c)
  /\ UNCHANGED <<tables, wa, cookie, failures, serial, inputs, redrawn>>

UpdatePassword(c) ==
  /\ At(c, "password")
  /\ \/ Goto(c, "logins") /\ UNCHANGED users
     \/ /\ req[c].own => req[c].row.pass # "*"
        /\ Set(req[c].target, "pass", "hash") /\ Goto(c, "logins")
     \/ req[c].own /\ Stay(c) /\ UNCHANGED users
  /\ UNCHANGED <<logins, keys, wa, cookie, failures, serial, inputs, redrawn>>

LoginsWithout(u) == [l \in {x \in DOMAIN logins : logins[x] # u} |-> logins[l]]

(* SetTailscaleLogins: a transaction, undone when a login is another's. *)
SetLogins(u, L) ==
  LET free == \A l \in L : u \in DOMAIN users /\
                (l \in DOMAIN logins => logins[l] = u)
      kept == LoginsWithout(u)
  IN logins' = IF ~free THEN logins
               ELSE [l \in DOMAIN kept \cup L |-> IF l \in L THEN u ELSE kept[l]]

UpdateLogins(c) ==
  /\ At(c, "logins")
  /\ \/ UNCHANGED logins
     \/ \E L \in SUBSET Logins : SetLogins(req[c].target, L)
  /\ \/ req[c].own /\ Goto(c, "refresh")
     \/ Stay(c)
  /\ UNCHANGED <<users, keys, wa, cookie, failures, serial, inputs, redrawn>>

(* The profile's answer renews the cookie from the row as it is now. *)
UpdateCookie(c) ==
  /\ At(c, "refresh")
  /\ cookie' = IF req[c].local /\ req[c].uid \in DOMAIN users
               THEN [cookie EXCEPT ![c] = CookieOf(req[c].uid)] ELSE cookie
  /\ Stay(c)
  /\ UNCHANGED <<tables, wa, failures, serial, inputs, redrawn>>

(* A superuser is deleted only after the superusers have been counted.     *)
Delete(c) ==
  /\ MayAdmin(c)
  /\ \E t \in DOMAIN users :
       req' = [req EXCEPT ![c].at = IF t \in Supers THEN "count" ELSE "remove",
                          ![c].target = t]
  /\ UNCHANGED <<tables, wa, cookie, failures, serial, inputs, redrawn>>

DeleteCount(c) ==
  /\ At(c, "count")
  /\ IF Cardinality(Supers) <= 1 THEN Stay(c) ELSE Goto(c, "remove")
  /\ UNCHANGED <<tables, wa, cookie, failures, serial, inputs, redrawn>>

(* Foreign keys take the user's logins and passkeys along. *)
DeleteUser(c) ==
  LET t == req[c].target
  IN /\ At(c, "remove")
     /\ users' = [u \in DOMAIN users \ {t} |-> users[u]]
     /\ logins' = LoginsWithout(t)
     /\ keys' = [k \in DOMAIN keys \ KeysOf(t) |-> keys[k]]
     /\ Stay(c)
     /\ UNCHANGED <<wa, cookie, failures, serial, inputs, redrawn>>

-----------------------------------------------------------------------------
(* Passkeys *)

Own(c) == At(c, "routed") /\ c \in Clients

(* GetOrSetWebAuthnID: read, then write when there is none. *)
RegisterBegin(c) ==
  LET u == req[c].uid
  IN /\ Own(c)
     /\ \/ /\ u \in DOMAIN users /\ users[u].handle # 0
           /\ wa' = [wa EXCEPT ![c] = [ceremony |-> "registration",
                                       handle |-> users[u].handle]]
           /\ Stay(c)
        \/ /\ u \in DOMAIN users /\ users[u].handle = 0
           /\ Goto(c, "draw") /\ UNCHANGED wa
        \/ u \notin DOMAIN users /\ Stay(c) /\ UNCHANGED wa
     /\ UNCHANGED <<tables, cookie, failures, serial, inputs, redrawn>>

(* A finish that has to draw a handle does not match its session's. *)
DrawHandle(c) ==
  LET u == req[c].uid
  IN /\ At(c, "draw")
     /\ Set(u, "handle", serial)
     /\ serial' = serial + 1
     /\ redrawn' = IF u \in DOMAIN users /\ users[u].handle # 0
                   THEN redrawn \cup {u} ELSE redrawn
     /\ wa' = IF req[c].handle # 0 THEN wa
              ELSE [wa EXCEPT ![c] = [ceremony |-> "registration", handle |-> serial]]
     /\ Stay(c)
     /\ UNCHANGED <<logins, keys, cookie, failures, inputs>>

(* A ceremony session is used once. It is read and then deleted; one       *)
(* browser has one request under way, so nothing comes between the two.    *)
GetAndDeleteWebAuthnSession(c) == wa' = [wa EXCEPT ![c] = NoWa]

RegisterFinish(c) ==
  /\ Own(c)
  /\ IF wa[c].ceremony = "registration"
     THEN req' = [req EXCEPT ![c].at = "build", ![c].handle = wa[c].handle]
     ELSE Stay(c)
  /\ GetAndDeleteWebAuthnSession(c)
  /\ UNCHANGED <<tables, cookie, failures, serial, inputs, redrawn>>

(* FinishRegistration compares the session's handle with the user's. *)
Matches(c) == users[req[c].uid].handle = req[c].handle

RegisterBuild(c) ==
  LET u == req[c].uid
  IN /\ At(c, "build")
     /\ IF u \notin DOMAIN users THEN Stay(c)
        ELSE IF users[u].handle = 0 THEN Goto(c, "draw")
        ELSE IF Matches(c) THEN Goto(c, "store") ELSE Stay(c)
     /\ UNCHANGED <<tables, wa, cookie, failures, serial, inputs, redrawn>>

CreateCredential(c) ==
  LET u == req[c].uid
  IN /\ At(c, "store")
     /\ keys' = IF u \notin DOMAIN users THEN keys
                ELSE [k \in DOMAIN keys \cup {serial} |->
                        IF k \in DOMAIN keys THEN keys[k]
                        ELSE [owner |-> u, handle |-> req[c].handle]]
     /\ serial' = serial + 1
     /\ Stay(c)
     /\ UNCHANGED <<users, logins, wa, cookie, failures, inputs, redrawn>>

PasskeyLoginBegin(c) ==
  /\ Begin(c, Idle)
  /\ wa' = [wa EXCEPT ![c] = [ceremony |-> "login", handle |-> 0]]
  /\ UNCHANGED <<tables, cookie, failures, serial, redrawn>>

PasskeyLoginFinish(c) ==
  /\ IF wa[c].ceremony = "login" THEN Begin(c, [Idle EXCEPT !.at = "assert"])
     ELSE Begin(c, Idle)
  /\ GetAndDeleteWebAuthnSession(c)
  /\ UNCHANGED <<tables, cookie, failures, serial, redrawn>>

(* GetCredentialsByWebAuthnID: the user whose handle is the passkey's, and *)
(* the user's passkeys, of which it has to be one.                         *)
PasskeyLoginOwner(c) ==
  /\ At(c, "assert")
  /\ \/ \E k \in DOMAIN keys :
          /\ users[keys[k].owner].handle = keys[k].handle
          /\ req' = [req EXCEPT ![c].at = "found", ![c].target = keys[k].owner,
                                ![c].handle = keys[k].handle]
     \/ Stay(c)
  /\ UNCHANGED <<tables, wa, cookie, failures, serial, inputs, redrawn>>

(* GetUserByID, and FinishDiscoverableLogin compares the handles again.    *)
PasskeyLoginRead(c) ==
  LET u == req[c].target
  IN /\ At(c, "found")
     /\ \/ /\ u \in DOMAIN users /\ users[u].handle = req[c].handle
           /\ req' = [req EXCEPT ![c].at = "accepted", ![c].row = CookieOf(u)]
        \/ Stay(c)
     /\ UNCHANGED <<tables, wa, cookie, failures, serial, inputs, redrawn>>

(* As in LoginPass the cookie carries the row as it was read, and failed   *)
(* logins stay counted.                                                    *)
PasskeyLoginPass(c) ==
  /\ At(c, "accepted")
  /\ cookie' = [cookie EXCEPT ![c] = req[c].row]
  /\ Stay(c)
  /\ UNCHANGED <<tables, wa, failures, serial, inputs, redrawn>>

(* Begun ceremonies lapse after five minutes. *)
WaExpire(c) ==
  /\ wa[c] # NoWa
  /\ wa' = [wa EXCEPT ![c] = NoWa]
  /\ UNCHANGED <<tables, cookie, req, failures, serial, inputs, redrawn>>

LastOne(n) == n <= 1

DeletePasskey(c) ==
  LET own == KeysOf(req[c].uid)
  IN /\ Own(c)
     /\ req' = [req EXCEPT ![c].seen = own,
                  ![c].at = IF LastOne(Cardinality(own)) THEN "last" ELSE "drop"]
     /\ UNCHANGED <<tables, wa, cookie, failures, serial, inputs, redrawn>>

(* The last passkey of an account without a password stays. *)
DeleteLast(c) ==
  LET u == req[c].uid
  IN /\ At(c, "last")
     /\ IF u \notin DOMAIN users \/ users[u].pass = "*" THEN Stay(c) ELSE Goto(c, "drop")
     /\ UNCHANGED <<tables, wa, cookie, failures, serial, inputs, redrawn>>

DeleteCredential(c) ==
  /\ At(c, "drop")
  /\ \/ \E d \in KeysOf(req[c].uid) : keys' = [k \in DOMAIN keys \ {d} |-> keys[k]]
     \/ UNCHANGED keys
  /\ Stay(c)
  /\ UNCHANGED <<users, logins, wa, cookie, failures, serial, inputs, redrawn>>

-----------------------------------------------------------------------------
(* The server is started again: what requests had not done stays undone,   *)
(* the limiter forgets, the database and the cookies remain.               *)
Restart ==
  /\ req' = [c \in Actors |-> IF c = Shell THEN req[c] ELSE Idle]
  /\ failures' = 0
  /\ UNCHANGED <<tables, wa, cookie, serial, inputs, redrawn>>

Next ==
  \/ \E c \in Clients :
       \/ ByCookie(c) \/ ByTailscale(c) \/ ByProxy(c) \/ ProxyMint(c) \/ ProxyRole(c)
       \/ Setup(c) \/ SetupCreate(c) \/ Login(c) \/ LoginFail(c) \/ LoginRead(c)
       \/ LoginPass(c) \/ Logout(c) \/ UpdateProfile(c) \/ UpdateCookie(c)
       \/ RegisterBegin(c) \/ DrawHandle(c) \/ RegisterFinish(c) \/ RegisterBuild(c)
       \/ CreateCredential(c) \/ PasskeyLoginBegin(c) \/ PasskeyLoginFinish(c)
       \/ PasskeyLoginOwner(c) \/ PasskeyLoginRead(c) \/ PasskeyLoginPass(c)
       \/ WaExpire(c) \/ DeletePasskey(c) \/ DeleteLast(c) \/ DeleteCredential(c)
  \/ \E c \in Actors :
       \/ Create(c) \/ Update(c) \/ UpdatePermission(c) \/ UpdatePassword(c)
       \/ UpdateLogins(c) \/ Delete(c) \/ DeleteCount(c) \/ DeleteUser(c)
  \/ Command \/ WindowEnds \/ Restart

Spec == Init /\ [][Next]_vars

-----------------------------------------------------------------------------
(* The variables have their types, and no login or passkey is of a user    *)
(* that is gone.                                                           *)
TypeOK ==
  /\ DOMAIN users \subseteq 1 .. serial - 1
  /\ \A u \in DOMAIN users : users[u] \in Row
  /\ DOMAIN logins \subseteq Logins
  /\ \A l \in DOMAIN logins : logins[l] \in DOMAIN users
  /\ \A k \in DOMAIN keys : keys[k] \in Key /\ keys[k].owner \in DOMAIN users
  /\ \A c \in Clients : cookie[c] = NoCookie \/ cookie[c].uid < serial
  /\ failures \in Nat /\ serial \in Nat \ {0} /\ inputs \in 0 .. MaxInputs

(* A cookie that outlives its account never opens another one, although    *)
(* the name is free again and nothing withdraws the cookie                 *)
(* (db.go: AUTOINCREMENT; profile.go validateSessionUser looks at the id). *)
CookieOwner ==
  \A c \in Clients : LET k == cookie[c] IN
    k # NoCookie /\ k.uid \in DOMAIN users => users[k.uid].name = k.name

(* The user's passkey finds the user: its handle is the one the account    *)
(* has, whichever browser signed in as whom between the begin and the      *)
(* finish of the registration, unless two first registrations at once      *)
(* each drew a handle (users.go GetOrSetWebAuthnID).                       *)
KeyOpens ==
  \A k \in DOMAIN keys : LET u == keys[k].owner IN
    users[u].handle = keys[k].handle \/ u \in redrawn

(* Failures are counted after the check and the limit is looked at before  *)
(* it, so as many logins as are under way at once may exceed it, no more.  *)
TriesBounded == failures < MaxFailures + Cardinality(Clients)

(* An account without a password keeps its last passkey, unless another    *)
(* deletion came between the count and the deletion (passkeys.go:411-418): *)
(* of those that were counted one is gone. Passkeys added meanwhile, a     *)
(* deleted account or another browser signed in excuse nothing.            *)
LastKeyKept ==
  [][\A u \in DOMAIN users \cap DOMAIN users' :
       users[u].pass = "*" /\ KeysOf(u) # {} /\ KeysOf(u)' = {} =>
         \E c \in Clients : /\ At(c, "drop") /\ req[c].uid = u
                            /\ ~(req[c].seen \subseteq KeysOf(u))]_vars
=============================================================================
