--------------------------- MODULE StatsPipeline ---------------------------
(***************************************************************************)
(* AllStarLink statistics: the background poller and the fetch each new    *)
(* dashboard starts (internal/server/stats.go), the fetcher with its token *)
(* bucket and its bulk endpoint (internal/aslstats/fetcher.go), and the    *)
(* cache they share, with the table it is saved to and loaded from at      *)
(* start (internal/db/stats_cache.go).                                     *)
(*                                                                         *)
(* Of an entry only its age matters, in units of the time after which it   *)
(* is stale, so an entry is a number up to Old. An answer that is an error *)
(* (transport, status, decoding) is NoData.                                *)
(***************************************************************************)
EXTENDS Naturals, FiniteSets

CONSTANTS
  Nums,          \* node numbers: the home node's, its favorites', its links'
  Known,         \* those that are nodes or favorites; the others are links
  Visits,        \* fetches started by dashboards that open
  NoData,        \* no entry, or an error
  StaleAfter,    \* age at which an entry is not yet stale (90 s)
  HighMark,      \* more stale numbers than this: bulk mode (10)
  LowMark,       \* no more than this: individual requests (4)
  BulkMin,       \* least age of the latest bulk answer (5 min)
  PerMinute,     \* capacity of the token bucket (10)
  Concurrency    \* requests in flight for one dashboard (8)

ASSUME StatsAssumption ==
  /\ Known \subseteq Nums
  /\ StaleAfter \in Nat /\ HighMark \in Nat /\ LowMark \in 0 .. HighMark
  /\ BulkMin \in Nat \ {0} /\ PerMinute \in Nat \ {0}
  /\ Concurrency \in Nat \ {0}
  /\ NoData \notin Nat /\ "poller" \notin Visits

VARIABLES
  cache,      \* statsCache
  table,      \* stats_cache in the database
  watched,    \* some dashboard is open
  bulkMode,   \* inBulkMode
  bulkAge,    \* time since lastBulkAt, at most BulkMin
  tokens,     \* what is in the bucket
  pc,         \* each fetch: "idle", "bulk", "fetch", "save", "publish"
  ask,        \* numbers each fetch has yet to request
  flying,     \* numbers it has requested
  results,    \* what it was answered
  latest,     \* history: who cached each number last, if it is to be saved
  mislaid,    \* history: numbers whose save failed or was overtaken
  unread      \* history: numbers a failed load left in the table alone

fetches == <<pc, ask, flying, results>>
vars == <<cache, table, watched, bulkMode, bulkAge, tokens, fetches, latest, mislaid, unread>>

Fetches == {"poller"} \cup Visits
Old     == StaleAfter + 1
Entry   == 0 .. Old \cup {NoData}
Nothing == [n \in Nums |-> NoData]
Burst   == IF PerMinute \div 4 < 1 THEN 1 ELSE PerMinute \div 4
Held(c) == {n \in Nums : c[n] # NoData}

Init ==
  /\ cache = Nothing /\ table = Nothing
  /\ watched = FALSE
  /\ bulkMode = FALSE /\ bulkAge = BulkMin /\ tokens = Burst
  /\ pc = [w \in Fetches |-> "idle"]
  /\ ask = [w \in Fetches |-> {}] /\ flying = [w \in Fetches |-> {}]
  /\ results = [w \in Fetches |-> Nothing]
  /\ latest = Nothing /\ mislaid = {} /\ unread = {}

-----------------------------------------------------------------------------
(* Faulty variants of definitions below; none is part of the specification. *)

(* Mistake: what was fetched replaces the whole cache. *)
UpdatedWhole(w) == results[w]

(* Mistake: only a dashboard's fetches are saved. *)
SavedVisits(w) == IF w = "poller" THEN table ELSE [n \in Nums |->
                    IF results[w][n] = NoData THEN table[n] ELSE results[w][n]]

(* Mistake: the goroutine that refills the bucket is not started. *)
RefillNever == tokens

(* Mistake: the bulk interval is not looked at. *)
CanBulkAlways == TRUE

(* Mistake: requests over the limit of a dashboard do not wait. *)
MayRequestAny(w) == w # "poller" \/ tokens > 0

-----------------------------------------------------------------------------
Goto(w, s) == pc' = [pc EXCEPT ![w] = s]

(* Stale entries, and those that are missing, are fetched. *)
Stale(n) == cache[n] = NoData \/ cache[n] > StaleAfter

(* fetchAdaptive: between the marks the mode stays what it was. *)
ModeFor(n) == IF n > HighMark THEN TRUE ELSE IF n <= LowMark THEN FALSE ELSE bulkMode

CanBulk == bulkAge >= BulkMin

StaleNums == {n \in Nums : Stale(n)}

(* pollStats: only what an open dashboard shows is polled. *)
Poll ==
  LET mode == ModeFor(Cardinality(StaleNums))
  IN /\ pc["poller"] = "idle" /\ watched
     /\ bulkMode' = IF StaleNums = {} THEN bulkMode ELSE mode
     /\ ask' = [ask EXCEPT !["poller"] = StaleNums]
     /\ Goto("poller", IF StaleNums = {} THEN "publish"
                       ELSE IF mode /\ CanBulk THEN "bulk" ELSE "fetch")
     /\ UNCHANGED <<cache, table, watched, bulkAge, tokens, flying, results,
                    latest, mislaid, unread>>

(* FetchBulk answers with every node that reports; lastBulkAt is the time  *)
(* of an answer. A failure falls back to one request per number.           *)
Bulk ==
  /\ pc["poller"] = "bulk"
  /\ Goto("poller", "fetch")
  /\ \/ /\ \E all \in SUBSET Nums :
             results' = [results EXCEPT !["poller"] =
                           [n \in Nums |-> IF n \in all THEN 0 ELSE NoData]]
        /\ ask' = [ask EXCEPT !["poller"] = {}]
        /\ bulkAge' = 0
     \/ UNCHANGED <<results, ask, bulkAge>>
  /\ UNCHANGED <<cache, table, watched, bulkMode, tokens, flying, latest, mislaid, unread>>

(* A dashboard opens: pollNodeStats fetches what is stale of its numbers. *)
Visit(v) ==
  /\ pc[v] = "idle"
  /\ watched' = TRUE
  /\ ask' = [ask EXCEPT ![v] = StaleNums]
  /\ Goto(v, IF StaleNums = {} THEN "publish" ELSE "fetch")
  /\ UNCHANGED <<cache, table, bulkMode, bulkAge, tokens, flying, results, latest, mislaid, unread>>

(* The last dashboard closes; the fetches it started go on. *)
Leave ==
  /\ watched /\ watched' = FALSE
  /\ UNCHANGED <<cache, table, bulkMode, bulkAge, tokens, fetches, latest, mislaid, unread>>

(* FetchAll takes a token for each request; FetchDirect has a semaphore. *)
MayRequest(w) == IF w = "poller" THEN tokens > 0
                 ELSE Cardinality(flying[w]) < Concurrency

Request(w, n) ==
  /\ pc[w] = "fetch" /\ n \in ask[w] /\ MayRequest(w)
  /\ ask' = [ask EXCEPT ![w] = @ \ {n}]
  /\ flying' = [flying EXCEPT ![w] = @ \cup {n}]
  /\ tokens' = IF w = "poller" THEN tokens - 1 ELSE tokens
  /\ UNCHANGED <<cache, table, watched, bulkMode, bulkAge, pc, results, latest, mislaid, unread>>

(* Fetch: the node's statistics, or an error. *)
Answer(w, n) ==
  /\ n \in flying[w]
  /\ flying' = [flying EXCEPT ![w] = @ \ {n}]
  /\ \E e \in {0, NoData} : results' = [results EXCEPT ![w][n] = e]
  /\ UNCHANGED <<cache, table, watched, bulkMode, bulkAge, tokens, pc, ask, latest, mislaid, unread>>

(* The ticker of the bucket. *)
Refill == IF tokens < PerMinute THEN tokens + 1 ELSE tokens

AddToken ==
  /\ tokens' = Refill
  /\ tokens' # tokens
  /\ UNCHANGED <<cache, table, watched, bulkMode, bulkAge, fetches, latest, mislaid, unread>>

(* statsCache.update, once every request of the fetch was answered. *)
Updated(w) == [n \in Nums |-> IF results[w][n] = NoData THEN cache[n] ELSE results[w][n]]

Update(w) ==
  /\ pc[w] = "fetch" /\ ask[w] = {} /\ flying[w] = {}
  /\ cache' = Updated(w)
  /\ latest' = [n \in Nums |-> IF results[w][n] = NoData THEN latest[n] ELSE w]
  /\ unread' = unread \ Held(results[w])
  /\ Goto(w, "save")
  /\ UNCHANGED <<table, watched, bulkMode, bulkAge, tokens, ask, flying, results, mislaid>>

(* SaveStatsCache upserts what was fetched, in one transaction. *)
Saved(w) == [n \in Nums |-> IF results[w][n] = NoData THEN table[n] ELSE results[w][n]]

AboutToSave(n) == {w \in Fetches : pc[w] = "save" /\ n \in Held(results[w])}

(* Numbers that another fetch cached after w did, and has already saved. *)
SavedSince(w) == {n \in Held(results[w]) : latest[n] \notin AboutToSave(n)}

Save(w) ==
  /\ pc[w] = "save"
  /\ Goto(w, "publish")
  /\ \/ /\ table' = Saved(w)
        /\ mislaid' = (mislaid \ {n \in Held(results[w]) : latest[n] = w})
                        \cup SavedSince(w)
     \/ /\ table' = table
        /\ mislaid' = mislaid \cup Held(results[w])
  /\ latest' = [n \in Nums |-> IF AboutToSave(n) \ {w} = {} THEN NoData ELSE latest[n]]
  /\ results' = [results EXCEPT ![w] = Nothing]
  /\ UNCHANGED <<cache, watched, bulkMode, bulkAge, tokens, ask, flying, unread>>

(* publishCachedStats sends a snapshot of the cache, enriched; it keeps nothing. *)
Publish(w) ==
  /\ pc[w] = "publish"
  /\ Goto(w, "idle")
  /\ ask' = [ask EXCEPT ![w] = {}]
  /\ UNCHANGED <<cache, table, watched, bulkMode, bulkAge, tokens, flying, results,
                 latest, mislaid, unread>>

(* Time passes: everything that holds a FetchedAt grows older. *)
Older(e) == IF e = NoData \/ e = Old THEN e ELSE e + 1

Tick ==
  /\ cache' = [n \in Nums |-> Older(cache[n])]
  /\ table' = [n \in Nums |-> Older(table[n])]
  /\ results' = [w \in Fetches |-> [n \in Nums |-> Older(results[w][n])]]
  /\ bulkAge' = IF bulkAge < BulkMin THEN bulkAge + 1 ELSE bulkAge
  /\ UNCHANGED <<watched, bulkMode, tokens, pc, ask, flying, latest, mislaid, unread>>

(* PruneStatsCache removes numbers that are neither nodes nor favorites. *)
Pruned == [n \in Nums |-> IF n \in Known THEN table[n] ELSE NoData]

(* The process ends and starts again: the table is loaded, then pruned.    *)
(* Either may fail, which is logged: the server then runs with an empty    *)
(* cache, or an unpruned table.                                            *)
Restart ==
  /\ \E loaded, pruned \in BOOLEAN :
       /\ cache' = IF loaded THEN table ELSE Nothing
       /\ table' = IF pruned THEN Pruned ELSE table
       /\ unread' = IF loaded THEN {} ELSE Held(table')
  /\ watched' = FALSE /\ bulkMode' = FALSE
  /\ bulkAge' = BulkMin /\ tokens' = Burst
  /\ pc' = [w \in Fetches |-> "idle"]
  /\ ask' = [w \in Fetches |-> {}] /\ flying' = [w \in Fetches |-> {}]
  /\ results' = [w \in Fetches |-> Nothing]
  /\ latest' = Nothing /\ mislaid' = {}

Next ==
  \/ Poll
  \/ Bulk
  \/ \E v \in Visits : Visit(v)
  \/ Leave
  \/ \E w \in Fetches : \/ \E n \in Nums : Request(w, n) \/ Answer(w, n)
                        \/ Update(w) \/ Save(w) \/ Publish(w)
  \/ AddToken
  \/ Tick
  \/ Restart

(* Goroutines are scheduled, the bucket's ticker ticks, and a request is   *)
(* answered or fails within the client's timeout of 10 s.                  *)
Fairness ==
  /\ WF_vars(Bulk) /\ WF_vars(AddToken)
  /\ \A w \in Fetches :
       /\ \A n \in Nums : WF_vars(Request(w, n)) /\ WF_vars(Answer(w, n))
       /\ WF_vars(Update(w)) /\ WF_vars(Save(w)) /\ WF_vars(Publish(w))

Spec == Init /\ [][Next]_vars
FairSpec == Spec /\ Fairness

-----------------------------------------------------------------------------
(* Every variable has its type; the bucket and the semaphores hold no more *)
(* than they are made for.                                                 *)
TypeOK ==
  /\ cache \in [Nums -> Entry] /\ table \in [Nums -> Entry]
  /\ watched \in BOOLEAN /\ bulkMode \in BOOLEAN
  /\ bulkAge \in 0 .. BulkMin /\ tokens \in 0 .. PerMinute
  /\ pc \in [Fetches -> {"idle", "bulk", "fetch", "save", "publish"}]
  /\ ask \in [Fetches -> SUBSET Nums] /\ flying \in [Fetches -> SUBSET Nums]
  /\ \A v \in Visits : Cardinality(flying[v]) <= Concurrency
  /\ results \in [Fetches -> [Nums -> Entry]]
  /\ latest \in [Nums -> Fetches \cup {NoData}]
  /\ mislaid \subseteq Nums /\ unread \subseteq Nums

(* The table is what "last-known values are available immediately after a  *)
(* server restart" (stats.go:58) rests on: it has what is cached, whoever  *)
(* fetched it, but for numbers a fetch is about to save, or whose save     *)
(* failed, or was followed by the save of an older answer. Links are       *)
(* pruned from it at start, after they were loaded; and after a load that  *)
(* failed it alone has what was saved, until the number is fetched again   *)
(* (stats.go:60-64, 188-189, 336-337; server.go:94-99).                    *)
TableFollows ==
  \A n \in Nums \ mislaid :
    AboutToSave(n) = {} =>
      \/ table[n] = cache[n]
      \/ n \notin Known /\ table[n] = NoData
      \/ n \in unread /\ cache[n] = NoData

(* "Error entries are skipped" (stats.go:80): while the process runs, no   *)
(* number that was ever answered for is without an entry. A restart keeps  *)
(* every node and favorite that was saved in the table, and in the cache   *)
(* too unless the load failed: then they are back after the next load that *)
(* does not, for nothing takes them out of the table meanwhile.            *)
LastKnownKept ==
  [][/\ ~Restart => Held(cache) \subseteq Held(cache')
     /\ Held(table) \cap Known \subseteq Held(table') \cap (Held(cache') \cup unread')]_vars

(* Bulk answers are at least bulkMinInterval apart in one process, however *)
(* polls, failures and the mode alternate.                                 *)
BulkSpaced ==
  [][pc["poller"] = "bulk" /\ bulkAge' = 0 => bulkAge = BulkMin]_vars

(* Every fetch ends: no request waits for ever for a token or a turn.      *)
FetchesEnd == \A w \in Fetches : pc[w] # "idle" ~> pc[w] = "idle"
=============================================================================
