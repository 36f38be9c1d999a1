# A verification of YAAMon

YAAMon is a Go service that monitors and controls AllStarLink radio nodes. It
keeps one Asterisk Manager Interface (AMI) connection per node, polls link state
and public statistics, and streams both to browsers as server-sent events. This
directory holds TLA+ specifications of its core, the TLC configurations that
check them on small instances, and proofs, checked by TLAPS, that hold for every
value of the constants. References such as `client.go:107` are to files under
`src/internal/`.

## 1. Inventory

| Component | State it keeps | Operations | Hard behaviour |
|---|---|---|---|
| **AMI client** `ami/client.go` | `quit`, `conn`, `connected`, `pending`, `events`; the loop's backoff | Start, reconnectLoop, connect, readLoop, SendAction, SendActionWait, Stop | concurrent calls, timeouts racing answers, resets, Stop at any moment, backoff |
| **AMI manager** `ami/manager.go` | `clients`, `subscribers`, context | Add, Remove, SendAction(Wait), Subscribe, publish, Shutdown | restart of a client in use, Add after Shutdown, drain goroutines, dropped events |
| **SSE broker** `sse/broker.go` | `topics`: a map object of channels per topic | Subscribe, cancel, HasSubscribers, Publish, StreamFrom | iteration without the lock, send on a closed channel, full channels |
| **Link state** `server/links.go`, `events.go` | `linksCache`, `homeNodeNums` | links poller (5 s), event listener, pollNodeLinksInner | two pollers of one node, cache and publish not atomic, cache never cleared |
| **Link commands** `server/stats.go:435-545`, `commands.go`, `connections.go` | reads `linksCache` | connect, exclusive connect, disconnect | decision on stale links, several AMI actions in a row |
| **Statistics** `server/stats.go`, `aslstats/fetcher.go`, `db/stats_cache.go` | `statsCache`, its table, `inBulkMode`, `lastBulkAt`, request times | stats poller (30 s), fetchAdaptive, FetchAll/Direct/Bulk, publishCachedStats | hysteresis, token bucket, two writers of cache and table |
| **Node administration** `server/nodes.go`, `db/nodes.go` | nodes table, manager | create, update, delete | two-step handlers racing |
| **Accounts and setup** `server/users.go`, `handlers.go`, `db/users.go` | users table | first-run setup, create, update, delete, login | check then act, last superuser |
| **Sessions, login limiter, proxy auth** `auth/session.go`, `server/security.go`, `proxyauth.go` | failure counts per address; signed cookies | Allow, RecordFailure, RecordSuccess, sweep | windows and lockout under concurrency |
| **Passkeys** `server/passkeys.go`, `db/passkeys.go` | credentials, ceremony sessions | begin and finish of registration and login, delete | single use, expiry, last-passkey guard |
| **AllStar node database** `astdb/db.go` | entries, ETag-like time, file | load, refresh, save, Lookup | crash between steps, conditional request |
| **QRZ** `server/qrz.go`, `qrz/` | client per user, session key, cache table | lookup, session renewal, fallback | stale session, credentials changed |
| **Declarative state** `state/apply.go` | users, nodes, favorites | Apply (dry run, prune) | partial failure, idempotence |
| **Backup** `backup/`, `server/backup.go` | the whole database | Create, Restore, import | restore under running clients |
| **Database** `db/` | SQLite, one connection | statements, migrations | each statement atomic, sequences of them not |
| Server assembly `server/server.go`; configuration, TLS, mDNS, profile, favicon, command line | start-up order; read-only settings | | mostly pure I/O |

How they interact. The **manager** owns the **clients**; each client's events go
through a drain goroutine to the manager's subscribers, of which the **event
listener** is the only one. Poller and listener call `SendActionWait` on the
client, parse the answer, store it in `linksCache` and publish it on the
**broker**; the **statistics** poller reads `linksCache`, fetches what is stale
and publishes too. An HTTP goroutine per browser subscribes to the broker.
Administration handlers change the **database** and then the manager. All share
memory under separate mutexes; nothing spans two of them.

What makes each correct, in short:

* client: an answer goes to the call it answers and to no other; nothing is left
  in `pending`; `connected` never outlives its session; no consumer holds up the
  reader; every call returns; every loss is followed by a retry, and Stop by the end;
* broker: who stays subscribed is offered each message, once and in order; no
  subscriber holds up a publisher; topics do not pile up; no send on a closed channel;
* manager and administration: one client per enabled node and none for others;
* links: cache and dashboards end on the newest answer; nothing of a lost
  session is taken for live;
* statistics: never more requests than the limits; a waiter gets its turn; cache and table agree;
* accounts, passkeys: no cookie, passkey or ceremony opens another account; an account
  keeps a way to log in; tries are limited;
* state, backup: a second apply changes nothing; a failed one can be completed; a dry run
  tells what the next one does.

`PROJECT.json` lists every component with its status and, under `hazards`, what
in this code is hard to test, each at its line and with the properties that
cover it.

## 2. Plan

In this order, all seven of which exist:

1. `AmiClient` (with the abstract `ActionCall`) and `AmiClientProofs`: everything
   else depends on what a call returns.
2. `SseBroker` (with the abstract `Fanout`) and `SseBrokerProofs`: the other end of every update.
3. `NodeLifecycle` and `NodeLifecycleProofs`: the manager and the administration
   of nodes, with the command line, shutdown and restart.
4. `LinksPipeline`: what is between 1 and 2. It takes a call that is answered or
   lost, and a channel that may be full, as 1 and 2 establish them.
5. `StatsPipeline`: adaptive mode, token bucket, bulk endpoint, cache and table.
6. `Accounts`: setup, users, sessions, login limiter, proxies and passkeys in one
   module, because what is hard about them is that they change the same rows.
7. `StateApply`: the declarative state and the handlers that write beside it.

The theorems follow the runs: for each module the type invariant, then every safety
invariant and action property its runs check, then the refinements (§6); all of
these are proved. Still to model: the AllStar database's refresh and file, and
Backup's restore under a running server.

## 3. Modules

| Module | What it is |
|---|---|
| `AmiClient` | the client, its callers, and the peer |
| `ActionCall` | what `SendActionWait` promises: abstract specification, implemented by `AmiClient` (`Promise`) |
| `MCAmiClient` | instances: `MCAmiClient.cfg`, `MCAmiClientLive.cfg`, `MCAmiClientLate.cfg` |
| `AmiClientProofs` | TLAPS proofs about `AmiClient` |
| `SseBroker` | the broker, publishers and SSE handlers |
| `Fanout` | what the broker promises: abstract specification, implemented by `SseBroker` (`Promise`) |
| `MCSseBroker` | instances: `MCSseBroker.cfg`, `MCSseBrokerCrash.cfg` |
| `SseBrokerProofs` | TLAPS proofs about `SseBroker` |
| `NodeLifecycle` | the nodes table, the AMI manager, the handlers and commands that change them, the server's start and end |
| `MCNodeLifecycle` | instances: `MCNodeLifecycle.cfg`, `MCNodeLifecycleRace.cfg` |
| `NodeLifecycleProofs` | TLAPS proofs about `NodeLifecycle` |
| `LinksPipeline` | a node's links from Asterisk to a dashboard, and link commands back |
| `MCLinksPipeline` | instances: `MCLinksPipeline.cfg`, `MCLinksPipelineExclusive.cfg` |
| `LinksPipelineProofs` | TLAPS proofs about `LinksPipeline` |
| `StatsPipeline`, `MCStatsPipeline` | fetching, caching and saving of statistics |
| `StatsPipelineProofs` | TLAPS proofs about `StatsPipeline` |
| `Accounts`, `MCAccounts` | users, sessions, logins, proxies, passkeys |
| `AccountsProofs` | TLAPS proofs about `Accounts` |
| `StateApply`, `MCStateApply` | `yaamon apply`, and the handlers of favorites beside it |
| `StateApplyProofs`, `ApplyRunsProofs` | TLAPS proofs about `StateApply`: what its tables keep, and what runs leave behind |

Each specification has a short section of *faulty variants*: plausible mistakes,
used by no action, that show what each property notices (`PROJECT.json`, `mutants`).

### AmiClient

`loop` is the program counter of the single goroutine that `Start` launches. Its
values follow the code: `top` (the check of quit and context), `dial`, `opened`
(connected, `c.conn` not yet set), `banner`, `login`, the five of `readLoop`, the
three steps of connect's deferred cleanup (`drop`, `close`, `clear`), `failed` and
`sleep` of the retry, `exited`. Steps are split exactly where the code takes or
releases the mutex or blocks: the look-up in `pending` and the send to the
channel found there are two steps, so are the three statements of the cleanup,
and closing `quit` and closing the connection in Stop.

`pc[c]` is the same for a caller: `registered` (entry in `pending`, connection
taken), `waiting` (written), `done` (outcome known, deferred delete to come),
`sending` (SendAction). `box[c]` is the one-slot response channel, `out[c]` the
outcome. A TCP connection is the number of its dial; since connect closes its
connection before it returns, only the last one can be open. `toPeer` and
`toClient` are the blocks in transit. What the peer has accepted (`authed`) and
answered (`said`) is recorded for the properties only.

Abstracted: a message block is its ActionID and its kind; the reading of lines
and headers (`client.go:275-342`) is one step per block, except that the check of
`quit` may come between two lines. The dial with its mDNS look-up succeeds or fails.

Environment assumptions: the peer answers an action at most once, under its
ActionID and only after Login otherwise than with an Error. It may never greet,
answer late or never, refuse a Login, send events, or close at any time with what
was in flight cut short. A peer that never greets matters for Stop: the banner is
read without a deadline, so of a connection that Stop did not find in `c.conn`
loop and socket stay open for ever. `StopTerminates` excepts just that state
(`Silent`), and `MissedByStop` says that such a connection does nothing else.
A write is one step that ends: the code gives it no deadline, and a peer that
stops reading for good would hold it. ActionIDs, nanosecond timestamps, are taken
to be distinct. Fairness: the Go scheduler runs each goroutine that can run, and
timers fire, so weak fairness on the loop, on each caller, and on the second half
of Stop; none on the peer, its banner included, on draining, on Stop or cancellation.

### SseBroker

`Publish` copies a *reference* to the topic's map under the lock and iterates
without it; `cancel` drops an empty map from `topics` and the next `Subscribe`
makes another. Map objects therefore have an identity: `maps` is the list of all
made, `topics[t]` and `ref[p]` are numbers in it. `Yield` is one step of Go's
iteration: it yields each entry at most once, an entry deleted meanwhile not, one
added meanwhile perhaps. The send (`Send`) is a separate step. `stream[s]` is all
that entered the channel, of which the handler has written the first `taken[s]`.
A write to a map under iteration may end the process ("concurrent map iteration
and map write"), and a send on a closed channel does: both set `crashed`, after
which nothing happens. The publishers are the pollers, the event listener and the
goroutine each SSE request starts (`server/stats.go:366`), all outside an HTTP
handler's recovery. Fairness: publishers keep running; nothing is assumed of browsers.

### NodeLifecycle

Each statement of the database is one step (`Insert`, `Read`, `Write`, `Find`,
`Erase`), and so is each operation of the manager, which holds its lock throughout
(`Add`, `Remove`, `LoadNode`, `StopAll`). `Cancel` is a step before `StopAll`:
Shutdown cancels the context without the lock. `pc[p]` is the next step of a
handler or of a run of the command line; `row[p]` is the request's body, and after
`Read` the row to be written. A client is a record with its node and settings,
`quit` (told to stop) and `live` (started under a context not yet cancelled): what
it then does is `AmiClient`. `phase` follows `Server.Run`: `loading` (initAMI),
`serving`, `cancelled` and `stopped` (the manager's Shutdown, with requests still
accepted), `closing`, `down`. `Die` is the end of the process at any moment.

Two variables are history only. `alone[p]` is whether no other request on its node
has overlapped the request; `disturbed` holds the nodes whose last change overlapped
another, failed after its first half, or came from the command line, which the
server notices at its next start (`docs/reference/cli.md:177`). `SettledAgrees` promises agreement of
manager and table for the rest, so it also says that one quiet update or a
restart repairs any damage.

Abstracted: of a row, the AMI settings are one value and the name is left out (two
rows with one name: the refused insert is `Fail`). IDs count up and are never given
again (AUTOINCREMENT). `Fail` stands for a refused input, a failed statement and a
request whose browser gave up; the manager's operations cannot fail. There is no
liveness to check: handlers wait for nothing but the lock.

### LinksPipeline

`links` and `jobs` are Asterisk's: the links of one home node, and the commands it
has accepted and not carried out. `session` is the AMI client being logged in,
`events` the manager's subscriber channel. `pc[p]` follows one poll of the
`poller` (`Tick`) or of the event `listener` (`Hear`): asked, answered with
`snap[p]`, stored in `linksCache` (`cache`, and ConnectedAt as `since`), published.
A poll that was asked in a session that is gone is `lost` until it times out.
`dash`, `chan`, `shown` are one browser: `handleSSE` subscribes (`Open`), then sends
the cached state (`InitialBurst`), then streams. `order` is one exclusive connect.
Links carry a mode (keyed or idle), so that a change of state without a change of
the set exists. `inputs` bounds what comes from outside and serves as the clock.

Seven variables are history: `firstSeen`, `sees`, `ahead`, `overtaken`, `crossed`,
`behind` and `missed` record who overtook whom, so that properties can say exactly
which race excuses what. What they show of the code: of two overlapping
polls the older answer may be stored last, which the next poll repairs; it may
also be *published* last, and that, like a message dropped for a full channel, is
repaired only when the links change again, since an unchanged answer is not
published (`events.go:35`).

Fairness: the ticker, the goroutines, the browser's handler and Asterisk go on
(weak), the client logs in again (`AlwaysRetries` of `AmiClient`), and the
poller is answered if it asks again and again (strong, as sessions may
interrupt it). Left out: `tx_keyed`, which changes nothing but itself, a second
home node, the enrichment of messages, and answers without RPT_ALINKS, to a refused
command for example: `parseRPTALinks` takes them for "no links" (`links.go:154-158`),
which empties the cache until the next answer and dates the links anew.

### StatsPipeline

An entry is its age in units of the time after which it is stale, up to `Old`;
its numbers decide nothing. `Fetches` are the background poller and the fetch
each new dashboard starts (`Visit`), which use different limits: the token bucket
(`tokens`, `AddToken`) and a semaphore (`Concurrency`). `pc[w]` goes through
`bulk`, `fetch`, `save` and `publish`; requests are sent and answered one by one
while the other fetch does the same. `Bulk` succeeds or falls back. `Restart` loads
`table` and prunes it; either may fail, which is logged, and then the server runs
with an empty cache over a full table (`server.go:94-99`). `latest`, `mislaid` and
`unread` are history: which fetch cached a number last, the numbers whose save failed
or was followed by that of an older answer, and those that a failed load left in the
table only. The first two weaken `TableFollows` where the code repairs nothing; a
number that is `unread` is in the table for the next start. Fairness: goroutines run, the bucket's ticker ticks, requests
end (client timeout of 10 s); none on polls, dashboards or restarts.

What a reader of the comments should know: the limiter is made for 10 requests a
minute (`fetcher.go:93`), where comments in `stats.go` (117, 208) say 30 and 28; a
bulk request that *fails* does not move `lastBulkAt`, so it is tried again at each
poll (30 s) although `stats.go:121` speaks of one request a minute; `update` compares no
times, so an answer that was overtaken replaces a newer one.

### Accounts

Each browser and the command line has one request under way, `req[c]`, with what it
has read so far; every statement is a step. A request gets its session by cookie,
by Tailscale login or by proxy header (`ByCookie`, `ByTailscale`, `ByProxy`, the last
making the account), and then administers users, changes its own profile,
or takes part in a passkey ceremony. `cookie[c]` is the signed cookie, with the
name and permission as of the login; `wa[c]` the ceremony session whose cookie
the browser has; `failures` the limiter's record of one address. Ids, handles and
passkeys are drawn from one counter, `serial`. `redrawn` is history: accounts whose
passkey handle was replaced. `Restart` may come at any moment.

Abstracted: passwords to "there is one" and "*" (`auth` accepts none), and the
permissions to superuser, admin and readonly (readwrite and none differ from readonly
only in what they may see or send to a node). The WebAuthn library's checks are
the comparison of handles (`Matches`). A login by passkey is four steps: session,
owner of the handle (`db/passkeys.go:62`), row, cookie. Reading and deleting a ceremony's
session, two statements (`db/passkeys.go:132-147`), are one: two finishes of one
ceremony by one browser at once, which both find the session, are left out, and so are
avatars and other profile fields and the renaming of passkeys.
Updates may stop half-way (a login that is another's, a refused permission) with
the earlier columns changed, as in the code.

What a reader should know: `db/users.go:160` calls the handle stable, and
two first registrations of one account at once draw one each, of which the second
replaces the first: a passkey made with the first no longer finds its account
(`KeyOpens` excepts `redrawn`). `setupGuard` lets `/setup` through to the proxy
middleware, so a first visit through a proxy makes an account, closes the setup
page and may leave no superuser; the code guards the last superuser against
deletion only, and not against demotion (§5), so no property promises that one stays.
`PruneWebAuthnSessions` is called by
tests only, so sessions of abandoned ceremonies stay in their table.

### StateApply

`pc` is the statement `apply` is at: users looked up and written, listed and purged,
then nodes with their favorites, then nodes purged. `todo` and `favTodo` are the entries
still to come, `left` the rows listed for purging, `report` the total that is
printed. The count of superusers may fail at any row: its error is discarded and it is
taken for 0, so that row is passed over and the run goes on (`apply.go:245`). `Abandon` is an error or the end of the process anywhere; the next run
starts from what is left. The server's handlers write the same tables between any
two statements (`CreateFavorite` ... `ChangeUsers`). `CopyFavorites` is two
steps as in `db/favorites.go`; the import of a favorites file lists what the node has
and then inserts one by one, without a transaction (`import`). Both lists may be short,
since their errors are discarded (`db/favorites.go:119-125`, `server/backup.go:196`):
`SeenOf` is any part of what there is. History, for properties about
one run and the one before it: `quiet` (the server has changed nothing), `last` and
`told` (the run before and its total), `super` (there was a superuser to keep), `spared`
(superusers whose count failed), `passed` (what this run has passed over: superusers
kept, and in a dry run favorites of nodes it would create), `foregone` (what the run
before left undone: `passed` of a dry one, `spared` of another) and `plain` (the dry run
could tell everything and no count failed).

Abstracted: a row is its number and one value for its other columns; that `apply`
clears a node's description and a favorite's command is therefore not seen.
Left out: `--reset-passwords` and the order of favorites. A dry run omits the
favorites of nodes it would create and counts superusers as they are
(`apply.go:245`, `285`). `DryRunTells` therefore relates not the totals but the balance:
what a dry run counts and passes over is together what the next run counts and passes
over, in all cases; the totals alone agree when it could tell (`Foreseen`). Nothing makes a node's or a favorite's number unique
in the schema, so handlers can make two; `apply` then edits the first.

## 4. Runs

| Run | Instance | Shows |
|---|---|---|
| `client_safety` | 2 callers, 2 calls, 2 dials, events channel of 1, no unsolicited events, callers symmetric; 2.1 million states | `TypeOK`, `PendingExact`, `AnswerReachesWaiter`, `ConnectedIsAuthed`, `MissedByStop`, and the safety of `ActionCall` (`KeepsPromise`) |
| `client_live` | 1 caller, 1 call, 2 dials, unsolicited events, delays of 1, 2 and 4; 280 thousand states | `ReaderNotHeldUp`, `StopTerminates`, `AlwaysRetries`, and all of `ActionCall` (`CallsReturn`) |
| `client_late` | 1 caller, 1 call, 1 dial | finding: a late Error answer ends the session (`LateAnswersForwarded`) |
| `sse` | 2 topics, 2 subscriptions, 2 publishers, 2 messages, channels of 1; 249 thousand states | `TypeOK`, `RegistrationExact`, `StreamInOrder`, `KeepsFanout`, `PublishReturns` |
| `sse_crash` | 1 of each | finding: a send on a closed channel (`SendsReachOpenChannels`) |
| `nodes` | 2 handlers, 1 command, 2 settings, 2 nodes, 3 requests, 3 clients, 2 starts; handlers symmetric; 4.9 million states | `TypeOK`, `OnlyMappedRun`, `SettledAgrees`, `ShutdownIsFinal`, `DeletedStaysDeleted` |
| `nodes_race` | 2 handlers, 1 node, nothing fails, no restart | finding: a deleted node keeps its client (`OneClientPerEnabledNode`) |
| `links` | 1 remote node, channels of 1, 2 inputs from outside, 1 job; fair; 337 thousand states | `TypeOK`, `ShownAgrees`, `ConnectedAtKept`, `CacheConverges` |
| `links_exclusive` | 2 remote nodes, 2 jobs | finding: an exclusive connect leaves an old link (`ExclusiveAlone`) |
| `stats` | a favorite and a link, poller and 1 dashboard, all limits 1 or 0, loads and prunes that fail; fair; 702 thousand states | `TypeOK`, `TableFollows`, `LastKnownKept`, `BulkSpaced`, `FetchesEnd` |
| `accounts` | 2 browsers (symmetric), the command line, 2 names, 1 login, 3 requests; a fresh database, or two superusers of whom one came from a proxy and has 2 passkeys; 1.7 million states | `TypeOK`, `CookieOwner`, `KeyOpens`, `TriesBounded`, `LastKeyKept` |
| `apply` | 4 state files, empty or used database, 3 runs, 1 change by the server; 1.2 million states | `TypeOK`, `AppliedMatches`, `AppliedTwice`, `DryRunTells`, `CopyAddsNew` |

Why the bounds are enough. Two calls are what it takes for an answer to reach the
wrong one, two dials for a flag, entry or connection to outlive its session, a
capacity of one for a channel to be full. In the liveness run the delay doubles twice
before it stays (`BackoffCap` 3); the safety run has it fixed. With one caller the liveness
run keeps unsolicited events (`NetCap` is 1), which fill the events channel.
Two publishers and two subscriptions are what it takes for one map to be dropped
and replaced while another publisher holds it. Three requests let two race and a
third repair, or a command come between; two settings tell a stale client from a
current one; a second start loads what the first left; an import of two rows
fills both IDs. Deadlock is checked for the
client, whose only rest is `Finished`; the broker comes to rest when its
messages are used up or the process has died, the nodes when requests and starts
are used up, so their runs do not check it.

Of the links, two inputs let a link come up and then key, go, or lose the session
while two polls overlap; channels of one are full after one message. Two
numbers and marks of one make both modes, and the way between them, reachable; a
token and a slot make the second request wait. Three requests let two accounts
change while a third is acted upon, on a database in which one deletion
reaches each guard; clients may be signed in as anyone at the start, so no request is
spent on that. Three runs of `apply` are a cut-short one, one that repairs it and
one that must change nothing; the four files have duplicates, a purge of
everybody but one, no purge, and a change of the superuser, and the used database
has a doubled favorite. `links` and `apply` come to rest when their bounds are used up
and do not check for deadlock; `stats` and `accounts` do.

## 5. Findings

* `client_late`. `docs/design/ami.md:42` says a block with "an `ActionID` that has
  no registered waiter" is forwarded to the event channel. `client.go:310` takes
  a late `Response: Error` for a refused Login and drops the session.
* `sse_crash`. `broker.go:51` says Publish sends "to all current subscribers",
  and `server/stats.go:364-365` that it completes even if the browser has left. A
  subscriber that leaves between being yielded and being sent to has its channel
  closed, and the send panics.
* `nodes_race`. `docs/design/ami.md:10` says that the manager "owns one `Client` per
  enabled node", `manager.go:18` that it "maintains one AMI Client per enabled
  node". Deletion removes the client and then the row (`nodes.go:207-209`),
  creation and update write the row and then add the client; when that `Add` falls
  between the two steps of a deletion, the node is gone and its client stays
  connected until the process ends.
* `links_exclusive`. `server/stats.go:450` explains "exclusive" as "disconnect all
  others first", and disconnects only when `linksCache` holds a link
  (`stats.go:474`). The cache is empty until the first poll and up to 5 s old
  later: a link that came up since stays, beside the new one.

Where else documents and code differ. The models follow the code; none of these
has a run of its own.

* The last superuser. `docs/user-guide/administration.md:23` and `roles.md:12` say it
  cannot be deleted or demoted. `handleAPIUpdateUser` (`users.go:107-131`) and the command
  line demote it; two deletions at once delete it (`users.go:171-188`, count and
  deletion are two statements). `Accounts` does all of this.
* Superusers and admins. `roles.md:10` says superusers "cannot be demoted or deleted by
  admins", and the comment at `users.go:170` that "only superusers can delete". The
  handler checks no such thing and its route asks for an admin (`server.go:308-323`).
* Roles in cookies. `administration.md:17` says that a new permission "is checked on every
  request". The signed cookie carries the permission of the login and is what is
  checked for up to seven days (`auth/session.go:68-97`, `182-197`); `validateSessionUser`
  looks only at whether the user exists (`profile.go:33-51`).
* Login limit. `docs/security/web-security.md:50` says "per username"; the limiter counts
  per address (`security.go:80`, `104-132`). `TriesBounded` is about one address.
* Backoff. `docs/design/ami.md:12` says "60 s cap"; the delay doubles while it is below 60 s
  and so ends at 64 s (`client.go:187-189`).
* Stop. The comment at `client.go:70` says that it "closes the connection". One that is
  dialled and not yet in `Client.conn` stays open, for ever if the peer never greets
  (`StopTerminates`, `MissedByStop`).
* Applying a file again. `docs/configuration/declarative-state.md:69` says that existing data
  "is not overwritten unless the state file changes". A row that was edited since
  the last run is set back to what the unchanged file says (`AppliedMatches` promises it).
* Purging. `apply.go:245` discards the error of the count and then reports "last superuser"
  for a superuser who is not. Errors of the lists of favorites are discarded at
  `server/backup.go:196` and `db/favorites.go:119-125`, and what was not seen is added again.

## 6. Proofs

All theorems are about `Spec`, for any values of the constants that satisfy the named
assumption of the module: any set of callers, subscribers, handlers, browsers, remote
nodes or numbers, any limits and bounds. The assumptions are what the code fixes or
the model needs to tell values apart: capacities and limits that are positive
(`ClientAssumption`, `BrokerAssumption`, `LifecycleAssumption`, `StatsAssumption`,
`LinksAssumption`, the last also that a keyed digit and "no data" are not taken for
links), finitely many browsers (`AccountsAssumption`), and, of the databases a
run may start on, what the schema enforces: ids below the next one, rows of their
types, foreign keys, for `apply` unique names too (`DatabasesAssumption`,
`ApplyAssumption` with `Consistent`); and `DatabasesAssumption`
also takes it that passkeys in use carry their owners' handles.

`AmiClientProofs`:

* `TypeCorrect` (`TypeOK`). The types alone are not inductive: that `c.conn` is
  the last dial needs to know *where* it is set and cleared (`ConnTracks`), and that
  `Deliver` puts only verdicts into a response channel needs that it is reached
  with an ActionID (`RoutedById`). `TypeInv` adds both; `TypeInductive` proves it.
* `PendingIsExact` (`PendingExact`). Strengthened by `CallsDistinct`: a caller has an
  ActionID exactly while in flight, none above the clock, no two the same; without
  it a returning call could delete another's entry.
* `ConnectedIsAuthentic` (`ConnectedIsAuthed`). `AuthTracks` follows the acceptance
  of a Login from the wire (`toClient`) into the block read and from there into the flag.
* `EveryAnswerReachesItsWaiter` (`AnswerReachesWaiter`). `WireInv`: an ActionID is in one
  place at a time, on the way to the peer, on the way back, or in the block read
  last. `BoxInv`: a call not yet written, or whose channel is full, has nothing in
  transit. With `PendingExact` a waiting call is found in `pending`, and by `BoxInv` its
  channel is then empty, so the non-blocking send succeeds. It rests on four lemmas
  about ActionIDs in a sequence of blocks (`EmptyIds`, `AppendIds`, `TailIds`, `PrefixIds`).
* `MissedServesNobody` (`MissedByStop`). `StopTracks` adds where the loop is while its
  connection is open and that `quit` is closed before Stop looks for a connection; by
  `AuthTracks` none is taken for a session without its Login.
* `PromiseIsKept` (`KeepsPromise`): the safety of `ActionCall` is implemented. `SaidInv` says
  that whatever carries a call's ActionID (the blocks on their way back, the one
  readLoop holds, the response channel) has the verdict the peer gave on it, and that
  there is none before the peer has said so. Each step then maps to a step of
  `ActionCall` or a stutter.

`SseBrokerProofs`:

* `TypeCorrect` (`TypeOK`), with the capacity of every channel. `PubInv` adds that a
  publisher under way has a map that exists and a message.
* `RegistrationIsExact` (`RegistrationExact`). It is inductive given the types: maps of
  different topics are different because they hold different, non-empty sets.
* `StreamsStayInOrder` (`StreamInOrder`). `NumbersInv`: no stream holds a message not yet
  published, and whoever a publisher has still to send to holds only older ones of it;
  `TargetInv`: the target of a send has been yielded.
* `FanoutIsKept` (`KeepsFanout`): the broker implements `Fanout`, with the open
  subscriptions as members. `OwesInv` is what the copied reference needs: a publisher
  under way owes its message to members of one topic only, the map object it
  iterates is never another topic's, and those of them still subscribed are in it.

`NodeLifecycleProofs`:

* `TypeCorrect` (`TypeOK`), with `TypeInductive`: the types alone are not inductive,
  since an ID the program counter is about to use must be of a row that was
  once inserted, and a handler at `insert` must have a row left to insert.
* `OnlyMappedClientsRun` (`OnlyMappedRun`). Inductive given the types, from one lemma per
  operation of the manager: what `Add` and `Remove` do to the clients of other nodes.
* `ShutdownStaysFinal` (`ShutdownIsFinal`). Rests on `OnlyMappedRun`: `StopAll` stops the mapped
  clients, and those are all that run. What is added later is started under a
  cancelled context.
* `DeletedNodesStayDeleted` (`DeletedStaysDeleted`), from the steps and the types: `Updated` keeps the
  domain of the table and `NewId` is above every ID given out.
* `SettledNodesAgree` (`SettledAgrees`). `SettledInv` adds to the types where a request may be
  (`PlacesInv`), that a client is its node's (`ClientsOwn`), that who is `alone` is the only
  one on its node (`AloneInv`), what such a request has prepared (`PreparedInv`: the row it
  passes to `Add` is the one in the table, the client it removed is not back before
  `Erase`), and that a node nobody has disturbed and nobody is half-way through
  agrees, or is still to be loaded and has no client yet (`CurrentInv`).

`LinksPipelineProofs`:

* `TypeCorrect` (`TypeOK`). `TypeInv` adds that times are none of the future (`ClockInv`), a
  chosen target (`OrderInv`) and that a poll past its answer holds links (`HoldsLinks`).
* `ConnectedAtIsKept` (`ConnectedAtKept`). `SeesInv`: a link in an answer's record that has stayed
  up is in the answer and in every later one; `SeenInv`: a link once stored is in every
  answer still to be stored, unless answers crossed. A link therefore never
  drops out of the cache while it is up, and `set` goes on copying its time.
* `ShownAgreesWithCache` (`ShownAgrees`). `TurnsInv` orders the polls under way; `ShownInv` says
  that the newest unpublished poll holds what is cached (`NewestHolds`) and that once
  all is told the last links in the channel, or on display, are the cached ones.

`StatsPipelineProofs`:

* `TypeCorrect` (`TypeOK`), with the bucket's capacity and the semaphore's: `FlyingInv` says
  that requests in flight are finitely many, and none outside `fetch`.
* `TableFollowsCache` (`TableFollows`). `LastHolds`: of the fetches about to save a number, the
  one that cached it last holds what is cached. A save by it makes the
  table agree; a save by any other leaves it due, or marks the number `mislaid`.
* `KnownIsKept` (`LastKnownKept`), with `KnownInv`: what is in the table is in the cache or
  was left there by a failed load, and what is about to be saved is in the cache.
* `BulkAnswersSpaced` (`BulkSpaced`), with `BulkInv`: only the poller moves `lastBulkAt`.

`AccountsProofs`:

* `TypeCorrect` (`TypeOK`): rows, cookies, ceremonies and requests keep their types, logins and
  passkeys belong to users that exist, and every id is below the next one. The lemma
  `RequestMoves` says for all steps at once whose request moves and where to;
  `UsersStep` what may happen to a row.
* `CookieOpensItsAccount` (`CookieOwner`), with `OwnInv`: a cookie, or the row a login has read
  and not yet given out, names the account with its id if that still exists.
* `PasskeyFindsItsOwner` (`KeyOpens`), with `HandleInv`: passkeys, and registrations between
  check and insert, carry the handle of their owner, unless it was drawn again.
* `TriesAreBounded` (`TriesBounded`), with `TriesInv`: failures and logins let through and not
  yet judged, added up, stay below the limit plus the number of browsers.
* `LastKeyStays` (`LastKeyKept`), with `SpareInv`: of what a deletion had counted when it was
  let through, a passkey is left unless one of them has gone since.

`StateApplyProofs`:

* `TypeCorrect` (`TypeOK`): every row has its type, names are unique, favorites have their node.
  Beside `TablesInv` it needs that the list at hand is of the right kind (`WorkInv`) and
  `FoundInv`: the row about to be updated, if it still exists, has the entry's
  name, because the database gives no id twice. Without that an update racing with the
  server could make a second user of one name.
* `CopiesAddNew` (`CopyAddsNew`), with `HeldInv`: what is left of an import is none of what was
  seen or created since. `CopiedIds` shows that a copy's new ids are distinct. A row that
  is added shares a number only with one the list missed.

`ApplyRunsProofs`:

* `AppliedAsDescribed` (`AppliedMatches`): a run left alone ends with the tables as described.
  `PlaceInv`: what is still to look at is the rest of the file's list. `MatchInv`: the
  entries gone through are in the tables unless a later one names them again
  (`UsersDone`, `NodesDone`, `FavsDone`), and the rows listed for a purge are those not
  wanted and not yet gone. One lemma per statement of `apply.go`.
* `AppliedAgainIsIdle` (`AppliedTwice`): `AgainInv` says that after a complete run
  each step of the next one finds the row as listed, but for users it has still to purge
  (`UsersDue`), and that these and what is counted are no more than the superusers
  whose count failed in the run before (`CatchesUp`). That a file has as many names as
  entries makes them distinct by a counting argument (`AllDifferent`).
* `DryRunForetells` (`DryRunTells`): what a dry run counts and passes over is what the next
  run counts and passes over. The proof is a conservation law. `Due` is what a run has
  still to count, the sum of six cardinalities: users, nodes and favorites ahead that
  differ from the file, and rows of each listed for a purge or going to be. A step adds
  to `report` or to `passed` what it takes from `Due` (`SumKept`), whether it writes the
  change, only counts it or goes past it (`RunCounts`, one lemma per statement). A run
  starts with all due (`AllDue`) and ends with nothing due (`NothingDue`), so for both runs
  the sum is `All` of the tables they met, and a dry run leaves the tables (`DryKeeps`).
  `DueInv` carries this across the runs. `PlainInv` says the rest, when no count
  fails: what could be foreseen stays so, since no run takes away a node the file lists and
  the purge meets no superuser it would leave (`NoneSkipped`), and nothing is passed over.
  Both need `HereInv`, that the row a statement is about is as it was read (for a run that
  writes this follows from `MatchInv`), and `RestInv`. `NoDuplicates` is needed because of
  two entries for one name a dry run compares each with the same row, a run that
  writes does not.

Only model-checked: liveness (`CallsReturn`, `ReaderNotHeldUp`, `StopTerminates`,
`AlwaysRetries`, `PublishReturns`, `CacheConverges`, `FetchesEnd`), which is beyond the
prover. Every other property of a passing run is a theorem.

## 7. Not modelled

Each component's `note` in `PROJECT.json` says what of it is left out. In short:

* text parsing and formatting, HTML, configuration, TLS, migrations, favicons and
  avatars, and the third-party services themselves: no state that interacts;
* mDNS, whose outcome is that of the dial in `AmiClient`, and `TestConnection`
  (`client.go:349-395`), which shares no state with the rest;
* the AllStar node database, a download that replaces a table for display; its one
  hard step is among the hazards (the age of the file taken for that of the download);
* QRZ, a client per user with a cache for display; its lookups run side by side, so
  one may use credentials that have just been replaced (`qrz.go:46`, where a client
  missing from the map is made from a row read before), clear a session key another
  has renewed, or put back a record cleared meanwhile: nothing else depends on them;
* backup and restore: archives, encryption and replacement of a file; that a
  restore under a running server replaces the database beneath it is among the hazards;
* the goroutine that drains a client's events and outlives it (`manager.go:78`): a
  leak per restart of a client, of no consequence for the state modelled.
