------------------------ MODULE StatsPipelineProofs ------------------------
(***************************************************************************)
(* What TLAPS proves of StatsPipeline for any numbers, any dashboards that *)
(* open and any limits: TypeCorrect, TableFollowsCache, KnownIsKept,       *)
(* BulkAnswersSpaced.                                                      *)
(***************************************************************************)
EXTENDS StatsPipeline, FiniteSetTheorems, TLAPS

USE DEF vars, fetches

-----------------------------------------------------------------------------
(* Entries and limits                                                      *)

(* What Older does to an entry (an entry's FetchedAt is a time, so it      *)
(* ages): it stays an entry, and is none exactly if it was none.           *)
LEMMA OlderEntry ==
  ASSUME NEW e \in Entry
  PROVE  Older(e) \in Entry /\ (Older(e) = NoData <=> e = NoData)
BY StatsAssumption DEF StatsAssumption, Entry, Old, Older

(* The numbers 0 and NoData, an answer's two outcomes, are entries.        *)
LEMMA AnswerEntry == 0 \in Entry /\ NoData \in Entry /\ 0 # NoData
BY StatsAssumption DEF StatsAssumption, Entry, Old

(* The bucket starts with no more than it can hold (fetcher.go: burst).    *)
LEMMA BurstFits == Burst \in 0 .. PerMinute
<1>1. PerMinute \in Nat /\ PerMinute >= 1  BY StatsAssumption DEF StatsAssumption
<1>2. PerMinute \div 4 \in Nat /\ PerMinute \div 4 <= PerMinute  BY <1>1
<1>3. QED  BY <1>1, <1>2 DEF Burst

-----------------------------------------------------------------------------
(* Type correctness. The semaphore's bound needs that sets of requests are *)
(* finite, and later proofs that there are none but in stage "fetch".      *)
FlyingInv ==
  \A w \in Fetches : IsFiniteSet(flying[w]) /\ (flying[w] = {} \/ pc[w] = "fetch")
TypeInv == TypeOK /\ FlyingInv

(* The variables start with their types.                                   *)
LEMMA TypeInit == Init => TypeInv
<1> SUFFICES ASSUME Init PROVE TypeInv  OBVIOUS
<1>1. IsFiniteSet({}) /\ Cardinality({}) = 0  BY FS_EmptySet
<1>2. "poller" \in Fetches /\ Visits \subseteq Fetches  BY DEF Fetches
<1>3. TypeOK
  <2>1. Nothing \in [Nums -> Entry]  BY AnswerEntry DEF Nothing
  <2>2. results \in [Fetches -> [Nums -> Entry]]  BY <2>1 DEF Init
  <2>3. \A v \in Visits : Cardinality(flying[v]) <= Concurrency
    BY <1>1, <1>2, StatsAssumption DEF StatsAssumption, Init
  <2>4. latest \in [Nums -> Fetches \cup {NoData}]  BY DEF Init, Nothing
  <2>5. bulkAge \in 0 .. BulkMin  BY StatsAssumption DEF StatsAssumption, Init
  <2>6. QED  BY <2>1, <2>2, <2>3, <2>4, <2>5, BurstFits DEF Init, TypeOK
<1>4. FlyingInv  BY <1>1 DEF Init, FlyingInv
<1>5. QED  BY <1>3, <1>4 DEF TypeInv

(* A request takes one of the semaphore's places (fetcher.go FetchDirect). *)
LEMMA RequestTyped ==
  ASSUME TypeInv, NEW w \in Fetches, NEW n \in Nums, Request(w, n)
  PROVE  TypeInv'
<1>1. flying' = [flying EXCEPT ![w] = @ \cup {n}] /\ pc[w] = "fetch" /\ pc' = pc
  BY DEF Request
<1>2. IsFiniteSet(flying[w])  BY DEF TypeInv, FlyingInv
<1>3. IsFiniteSet(flying[w] \cup {n})  BY <1>2, FS_AddElement
<1>4. Cardinality(flying[w] \cup {n}) <= Cardinality(flying[w]) + 1
      /\ Cardinality(flying[w]) \in Nat /\ Cardinality(flying[w] \cup {n}) \in Nat
  BY <1>2, <1>3, FS_AddElement, FS_CardinalityType
<1>5. w \in Visits => Cardinality(flying[w] \cup {n}) <= Concurrency
  <2>1. SUFFICES ASSUME w \in Visits PROVE Cardinality(flying[w] \cup {n}) <= Concurrency
    OBVIOUS
  <2>2. w # "poller"  BY <2>1, StatsAssumption DEF StatsAssumption
  <2>3. Cardinality(flying[w]) < Concurrency  BY <2>2 DEF Request, MayRequest
  <2>4. QED  BY <1>4, <2>3, StatsAssumption DEF StatsAssumption
<1>6. flying' \in [Fetches -> SUBSET Nums]  BY <1>1 DEF TypeInv, TypeOK
<1>7. \A v \in Visits : Cardinality(flying'[v]) <= Concurrency
  BY <1>1, <1>5 DEF TypeInv, TypeOK, Fetches
<1>8. tokens' \in 0 .. PerMinute
  BY StatsAssumption DEF StatsAssumption, TypeInv, TypeOK, Request, MayRequest
<1>9. TypeOK'
  BY <1>6, <1>7, <1>8 DEF TypeInv, TypeOK, Request
<1>10. FlyingInv'
  BY <1>1, <1>3 DEF TypeInv, TypeOK, FlyingInv
<1>11. QED  BY <1>9, <1>10 DEF TypeInv

(* An answer gives its place back.                                         *)
LEMMA AnswerTyped ==
  ASSUME TypeInv, NEW w \in Fetches, NEW n \in Nums, Answer(w, n)
  PROVE  TypeInv'
<1>1. flying' = [flying EXCEPT ![w] = @ \ {n}] /\ pc' = pc  BY DEF Answer
<1>2. IsFiniteSet(flying[w])  BY DEF TypeInv, FlyingInv
<1>3. IsFiniteSet(flying[w] \ {n}) /\ Cardinality(flying[w] \ {n}) <= Cardinality(flying[w])
  BY <1>2, FS_Subset
<1>4. Cardinality(flying[w]) \in Nat /\ Cardinality(flying[w] \ {n}) \in Nat
  BY <1>2, <1>3, FS_CardinalityType
<1>5. \A v \in Visits : Cardinality(flying'[v]) <= Concurrency
  BY <1>1, <1>3, <1>4, StatsAssumption DEF StatsAssumption, TypeInv, TypeOK, Fetches
<1>6. flying' \in [Fetches -> SUBSET Nums]  BY <1>1 DEF TypeInv, TypeOK
<1>7. results' \in [Fetches -> [Nums -> Entry]]
  BY AnswerEntry DEF TypeInv, TypeOK, Answer
<1>8. TypeOK'  BY <1>5, <1>6, <1>7 DEF TypeInv, TypeOK, Answer
<1>9. FlyingInv'  BY <1>1, <1>3 DEF TypeInv, TypeOK, FlyingInv
<1>10. QED  BY <1>8, <1>9 DEF TypeInv

(* Every step keeps the types.                                             *)
LEMMA TypeStep == TypeInv /\ [Next]_vars => TypeInv'
<1> SUFFICES ASSUME TypeInv, [Next]_vars PROVE TypeInv'  OBVIOUS
<1> USE DEF TypeInv
<1>0. "poller" \in Fetches /\ Visits \subseteq Fetches  BY DEF Fetches
<1>e. IsFiniteSet({}) /\ Cardinality({}) = 0  BY FS_EmptySet
<1>1. CASE Poll
  <2>0. ModeFor(Cardinality(StaleNums)) \in BOOLEAN  BY Zenon DEF ModeFor, TypeOK
  <2>a. bulkMode \in BOOLEAN  BY DEF TypeOK
  <2>b. bulkMode' = IF StaleNums = {} THEN bulkMode ELSE ModeFor(Cardinality(StaleNums))
    BY <1>1, Zenon DEF Poll
  <2>1. bulkMode' \in BOOLEAN
    <3>1. CASE StaleNums = {}  BY <2>a, <2>b, <3>1, Zenon
    <3>2. CASE StaleNums # {}  BY <2>0, <2>b, <3>2, Zenon
    <3>3. QED  BY <3>1, <3>2
  <2>2. ask' \in [Fetches -> SUBSET Nums]  BY <1>0, <1>1 DEF Poll, StaleNums, TypeOK
  <2>3. pc' \in [Fetches -> {"idle", "bulk", "fetch", "save", "publish"}]
    BY <1>0, <1>1 DEF Poll, Goto, TypeOK
  <2>4. \A w \in Fetches : pc[w] = "fetch" => pc'[w] = "fetch"
    BY <1>0, <1>1 DEF Poll, Goto, TypeOK
  <2>5. UNCHANGED <<cache, table, watched, bulkAge, tokens, flying, results, latest, mislaid,
                 unread>>
    BY <1>1 DEF Poll
  <2>6. QED  BY <2>1, <2>2, <2>3, <2>4, <2>5 DEF TypeOK, FlyingInv
<1>2. CASE Bulk
  <2>0. \A all : [n \in Nums |-> IF n \in all THEN 0 ELSE NoData] \in [Nums -> Entry]
    BY AnswerEntry
  <2>1. results' \in [Fetches -> [Nums -> Entry]]
    <3>1. CASE results' = results  BY <3>1 DEF TypeOK
    <3>2. CASE \E r \in [Nums -> Entry] : results' = [results EXCEPT !["poller"] = r]
      BY <1>0, <3>2 DEF TypeOK
    <3>3. QED  BY <1>2, <2>0, <3>1, <3>2 DEF Bulk
  <2>2. ask' \in [Fetches -> SUBSET Nums]  BY <1>0, <1>2 DEF Bulk, TypeOK
  <2>3. bulkAge' \in 0 .. BulkMin
    BY <1>2, StatsAssumption DEF StatsAssumption, Bulk, TypeOK
  <2>4. QED  BY <1>0, <1>2, <2>1, <2>2, <2>3 DEF Bulk, TypeOK, FlyingInv, Goto
<1>3. ASSUME NEW v \in Visits, Visit(v) PROVE TypeInv'
  BY <1>0, <1>3 DEF Visit, TypeOK, FlyingInv, Goto, StaleNums
<1>4. CASE Leave  BY <1>4 DEF Leave, TypeOK, FlyingInv
<1>5. ASSUME NEW w \in Fetches, NEW n \in Nums, Request(w, n) PROVE TypeInv'
  BY <1>5, RequestTyped
<1>6. ASSUME NEW w \in Fetches, NEW n \in Nums, Answer(w, n) PROVE TypeInv'
  BY <1>6, AnswerTyped
<1>7. ASSUME NEW w \in Fetches, Update(w) PROVE TypeInv'
  <2>1. cache' \in [Nums -> Entry]  BY <1>7 DEF Update, Updated, TypeOK
  <2>2. latest' \in [Nums -> Fetches \cup {NoData}]  BY <1>7 DEF Update, TypeOK
  <2>3. unread' \subseteq Nums  BY <1>7 DEF Update, TypeOK
  <2>4. QED  BY <1>7, <2>1, <2>2, <2>3 DEF Update, TypeOK, FlyingInv, Goto
<1>8. ASSUME NEW w \in Fetches, Save(w) PROVE TypeInv'
  <2>1. table' \in [Nums -> Entry]  BY <1>8 DEF Save, Saved, TypeOK
  <2>2. latest' \in [Nums -> Fetches \cup {NoData}]  BY <1>8 DEF Save, TypeOK
  <2>3. mislaid' \subseteq Nums  BY <1>8 DEF Save, TypeOK, SavedSince, Held
  <2>4. results' \in [Fetches -> [Nums -> Entry]]
    BY <1>8, AnswerEntry DEF Save, TypeOK, Nothing
  <2>5. QED  BY <1>8, <2>1, <2>2, <2>3, <2>4 DEF Save, TypeOK, FlyingInv, Goto
<1>9. ASSUME NEW w \in Fetches, Publish(w) PROVE TypeInv'
  BY <1>9 DEF Publish, TypeOK, FlyingInv, Goto
<1>10. CASE AddToken
  BY <1>10, StatsAssumption DEF StatsAssumption, AddToken, Refill, TypeOK, FlyingInv
<1>11. CASE Tick
  <2>1. cache' \in [Nums -> Entry] /\ table' \in [Nums -> Entry]
    BY <1>11, OlderEntry DEF Tick, TypeOK
  <2>2. results' \in [Fetches -> [Nums -> Entry]]  BY <1>11, OlderEntry DEF Tick, TypeOK
  <2>3. bulkAge' \in 0 .. BulkMin
    BY <1>11, StatsAssumption DEF StatsAssumption, Tick, TypeOK
  <2>4. QED  BY <1>11, <2>1, <2>2, <2>3 DEF Tick, TypeOK, FlyingInv
<1>12. CASE Restart
  <2>0. /\ \/ cache' = table
           \/ cache' = Nothing
        /\ \/ table' = Pruned
           \/ table' = table
        /\ unread' \in {{}, Held(table')}
    BY <1>12 DEF Restart
  <2>1. table' \in [Nums -> Entry] /\ cache' \in [Nums -> Entry]
    BY <2>0, AnswerEntry DEF Pruned, Nothing, TypeOK
  <2>u. unread' \subseteq Nums  BY <2>0 DEF Held
  <2>2. Nothing \in [Nums -> Entry]  BY AnswerEntry DEF Nothing
  <2>3. results' \in [Fetches -> [Nums -> Entry]]  BY <1>12, <2>2 DEF Restart
  <2>4. \A v \in Visits : Cardinality(flying'[v]) <= Concurrency
    BY <1>0, <1>e, <1>12, StatsAssumption DEF StatsAssumption, Restart
  <2>5. latest' \in [Nums -> Fetches \cup {NoData}]  BY <1>12 DEF Restart, Nothing
  <2>6. bulkAge' \in 0 .. BulkMin
    BY <1>12, StatsAssumption DEF StatsAssumption, Restart
  <2>7. TypeOK'
    BY <1>12, <2>1, <2>u, <2>3, <2>4, <2>5, <2>6, BurstFits DEF Restart, TypeOK
  <2>8. FlyingInv'  BY <1>e, <1>12 DEF Restart, FlyingInv
  <2>9. QED  BY <2>7, <2>8
<1>13. CASE UNCHANGED vars  BY <1>13 DEF TypeOK, FlyingInv
<1>14. QED
  BY <1>1, <1>2, <1>3, <1>4, <1>5, <1>6, <1>7, <1>8, <1>9, <1>10, <1>11, <1>12, <1>13 DEF Next

(* TypeInv holds throughout, by induction on the steps.                    *)
THEOREM TypeInductive == Spec => []TypeInv
<1>1. Init => TypeInv  BY TypeInit
<1>2. TypeInv /\ [Next]_vars => TypeInv'  BY TypeStep
<1>3. QED  BY <1>1, <1>2, PTL DEF Spec

(* TypeOK: every variable has its type, the bucket holds no more than      *)
(* PerMinute tokens and a dashboard has no more than Concurrency requests  *)
(* in flight (fetcher.go).                                                 *)
THEOREM TypeCorrect == Spec => []TypeOK
<1>1. TypeInv => TypeOK  BY DEF TypeInv
<1>2. QED  BY <1>1, TypeInductive, PTL

-----------------------------------------------------------------------------
(* The table and the cache                                                 *)

(* Of the fetches about to save a number, the one that cached it last      *)
(* holds what is cached; a save of any of the others leaves it to it.      *)
LastHolds ==
  \A n \in Nums :
    latest[n] \in AboutToSave(n) => results[latest[n]][n] = cache[n]
TableInv == LastHolds /\ TableFollows

(* What TableFollows says of one number.                                   *)
Follows(n) == \/ table[n] = cache[n]
              \/ n \notin Known /\ table[n] = NoData
              \/ n \in unread /\ cache[n] = NoData

(* Whoever is about to save a number has been answered for it.             *)
LEMMA SaversHold ==
  ASSUME NEW n \in Nums, NEW w
  PROVE  w \in AboutToSave(n) <=>
           w \in Fetches /\ pc[w] = "save" /\ results[w][n] # NoData
BY DEF AboutToSave, Held

(* The same after a step.                                                  *)
LEMMA SaversHoldNext ==
  ASSUME NEW n \in Nums, NEW w
  PROVE  w \in AboutToSave(n)' <=>
           w \in Fetches /\ pc'[w] = "save" /\ results'[w][n] # NoData
BY DEF AboutToSave, Held

(* A step that neither begins nor ends a save, nor touches what is cached, *)
(* stored or about to be saved, keeps the invariant.                       *)
LEMMA TableKept ==
  ASSUME TableInv, UNCHANGED <<cache, table, latest, mislaid, unread>>,
         \A w \in Fetches : pc'[w] = "save" <=> pc[w] = "save",
         \A w \in Fetches : pc[w] = "save" => results'[w] = results[w]
  PROVE  TableInv'
<1>1. \A n \in Nums : AboutToSave(n)' = AboutToSave(n)
  BY DEF AboutToSave, Held
<1>2. \A n \in Nums, w \in Fetches : w \in AboutToSave(n) => results'[w] = results[w]
  BY DEF AboutToSave
<1>3. LastHolds'  BY <1>1, <1>2 DEF TableInv, LastHolds, AboutToSave
<1>4. TableFollows'  BY <1>1 DEF TableInv, TableFollows
<1>5. QED  BY <1>3, <1>4 DEF TableInv

(* statsCache.update: what was fetched is cached by this fetch, which is   *)
(* now about to save it.                                                   *)
LEMMA UpdateTable ==
  ASSUME TypeInv, TableInv, NEW w \in Fetches, Update(w)
  PROVE  TableInv'
<1> SUFFICES ASSUME NEW n \in Nums
    PROVE  /\ (latest[n] \in AboutToSave(n) => results[latest[n]][n] = cache[n])'
           /\ n \notin mislaid' /\ AboutToSave(n)' = {}
                => Follows(n)'
  BY DEF TableInv, LastHolds, TableFollows, Follows
<1>1. pc' = [pc EXCEPT ![w] = "save"] /\ pc[w] = "fetch" /\ results' = results
      /\ table' = table /\ mislaid' = mislaid
  BY DEF Update, Goto
<1>2. cache'[n] = IF results[w][n] = NoData THEN cache[n] ELSE results[w][n]
  BY DEF Update, Updated
<1>3. latest'[n] = IF results[w][n] = NoData THEN latest[n] ELSE w
  BY DEF Update
<1>4. pc \in [Fetches -> {"idle", "bulk", "fetch", "save", "publish"}]
  BY DEF TypeInv, TypeOK
<1>5. CASE results[w][n] = NoData
  <2>1. AboutToSave(n)' = AboutToSave(n)
    BY <1>1, <1>4, <1>5, SaversHold, SaversHoldNext
  <2>2. n \in unread => n \in unread'  BY <1>5 DEF Update, Held
  <2>3. QED  BY <2>1, <2>2, <1>1, <1>2, <1>3, <1>5 DEF TableInv, LastHolds, TableFollows, Follows
<1>6. CASE results[w][n] # NoData
  <2>1. w \in AboutToSave(n)'  BY <1>1, <1>4, <1>6, SaversHoldNext
  <2>2. QED  BY <2>1, <1>1, <1>2, <1>3, <1>6
<1>7. QED  BY <1>5, <1>6

(* SaveStatsCache: a number whose latest fetch this is agrees with the     *)
(* cache once it is saved; any other is either still to be saved by the    *)
(* latest, or mislaid.                                                     *)
LEMMA SaveTable ==
  ASSUME TypeInv, TableInv, NEW w \in Fetches, Save(w)
  PROVE  TableInv'
<1> SUFFICES ASSUME NEW n \in Nums
    PROVE  /\ (latest[n] \in AboutToSave(n) => results[latest[n]][n] = cache[n])'
           /\ n \notin mislaid' /\ AboutToSave(n)' = {}
                => Follows(n)'
  BY DEF TableInv, LastHolds, TableFollows, Follows
<1>1. pc' = [pc EXCEPT ![w] = "publish"] /\ pc[w] = "save"
      /\ results' = [results EXCEPT ![w] = Nothing] /\ cache' = cache
  BY DEF Save, Goto
<1>2. latest'[n] = IF AboutToSave(n) \ {w} = {} THEN NoData ELSE latest[n]
  BY DEF Save
<1>3. /\ pc \in [Fetches -> {"idle", "bulk", "fetch", "save", "publish"}]
      /\ results \in [Fetches -> [Nums -> Entry]]
  BY DEF TypeInv, TypeOK
<1>4. AboutToSave(n)' = AboutToSave(n) \ {w}
  BY <1>1, <1>3, SaversHold, SaversHoldNext DEF AboutToSave
<1>5. latest'[n] \in AboutToSave(n)' => results'[latest'[n]][n] = cache'[n]
  <2>1. SUFFICES ASSUME latest'[n] \in AboutToSave(n)'
        PROVE results'[latest'[n]][n] = cache'[n]
    OBVIOUS
  <2>2. latest'[n] = latest[n] /\ latest[n] \in AboutToSave(n) /\ latest[n] # w
    BY <1>2, <1>4, <2>1
  <2>3. latest[n] \in Fetches  BY <2>2, SaversHold
  <2>4. results'[latest[n]] = results[latest[n]]  BY <1>1, <1>3, <2>2, <2>3
  <2>5. QED  BY <1>1, <2>2, <2>4 DEF TableInv, LastHolds
<1>6. ASSUME n \notin mislaid', AboutToSave(n)' = {}
      PROVE  Follows(n)'
  <2>1. CASE results[w][n] = NoData
    <3>1. AboutToSave(n) = {}  BY <1>4, <1>6, <2>1, SaversHold
    <3>2. n \notin Held(results[w])  BY <2>1 DEF Held
    <3>3. n \notin mislaid /\ table'[n] = table[n]
      BY <1>6, <2>1, <3>2 DEF Save, Saved
    <3>4. unread' = unread  BY DEF Save
    <3>5. QED  BY <1>1, <3>1, <3>3, <3>4 DEF TableInv, TableFollows, Follows
  <2>2. CASE results[w][n] # NoData
    <3>1. n \in Held(results[w])  BY <2>2 DEF Held
    <3>2. n \notin SavedSince(w) /\ table'[n] = results[w][n]
      BY <1>6, <2>2, <3>1 DEF Save, Saved
    <3>3. latest[n] \in AboutToSave(n)  BY <3>1, <3>2 DEF SavedSince
    <3>4. latest[n] = w  BY <1>4, <1>6, <3>3
    <3>5. QED  BY <1>1, <3>2, <3>3, <3>4 DEF TableInv, LastHolds, Follows
  <2>3. QED  BY <2>1, <2>2
<1>7. QED  BY <1>5, <1>6

(* Time passes for the cache, the table and the results alike.             *)
LEMMA TickTable ==
  ASSUME TypeInv, TableInv, Tick
  PROVE  TableInv'
<1> SUFFICES ASSUME NEW n \in Nums
    PROVE  /\ (latest[n] \in AboutToSave(n) => results[latest[n]][n] = cache[n])'
           /\ n \notin mislaid' /\ AboutToSave(n)' = {}
                => Follows(n)'
  BY DEF TableInv, LastHolds, TableFollows, Follows
<1>1. /\ cache'[n] = Older(cache[n]) /\ table'[n] = Older(table[n])
      /\ \A w \in Fetches : results'[w][n] = Older(results[w][n])
      /\ UNCHANGED <<pc, latest, mislaid, unread>>
  BY DEF Tick
<1>2. cache[n] \in Entry /\ table[n] \in Entry /\ \A w \in Fetches : results[w][n] \in Entry
  BY DEF TypeInv, TypeOK
<1>3. \A w \in Fetches : results'[w][n] = NoData <=> results[w][n] = NoData
  BY <1>1, <1>2, OlderEntry
<1>4. AboutToSave(n)' = AboutToSave(n)
  BY <1>1, <1>3, SaversHold, SaversHoldNext
<1>5. latest[n] \in AboutToSave(n) => results'[latest[n]][n] = cache'[n]
  BY <1>1, SaversHold DEF TableInv, LastHolds
<1>6. (table[n] = NoData => table'[n] = NoData) /\ (cache[n] = NoData => cache'[n] = NoData)
  BY <1>1, <1>2, OlderEntry
<1>7. QED  BY <1>1, <1>4, <1>5, <1>6 DEF TableInv, TableFollows, Follows

(* Every step keeps the invariant.                                         *)
LEMMA TableStep == TypeInv /\ TableInv /\ [Next]_vars => TableInv'
<1> SUFFICES ASSUME TypeInv, TableInv, [Next]_vars PROVE TableInv'  OBVIOUS
<1>0. /\ "poller" \in Fetches /\ Visits \subseteq Fetches
      /\ pc \in [Fetches -> {"idle", "bulk", "fetch", "save", "publish"}]
      /\ results \in [Fetches -> [Nums -> Entry]]
  BY DEF Fetches, TypeInv, TypeOK
<1>1. CASE Poll  BY <1>0, <1>1, TableKept DEF Poll, Goto
<1>2. CASE Bulk
  <2>1. /\ UNCHANGED <<cache, table, latest, mislaid, unread>> /\ pc["poller"] = "bulk"
        /\ pc' = [pc EXCEPT !["poller"] = "fetch"]
    BY <1>2 DEF Bulk, Goto
  <2>2. \A w \in Fetches : w # "poller" => results'[w] = results[w]
    BY <1>0, <1>2 DEF Bulk
  <2>3. QED  BY <1>0, <2>1, <2>2, TableKept
<1>3. ASSUME NEW v \in Visits, Visit(v) PROVE TableInv'
  BY <1>0, <1>3, TableKept DEF Visit, Goto
<1>4. CASE Leave  BY <1>4, TableKept DEF Leave
<1>5. ASSUME NEW w \in Fetches, NEW n \in Nums, Request(w, n) PROVE TableInv'
  BY <1>5, TableKept DEF Request
<1>6. ASSUME NEW w \in Fetches, NEW n \in Nums, Answer(w, n) PROVE TableInv'
  <2>1. pc[w] = "fetch"  BY <1>6 DEF TypeInv, FlyingInv, Answer
  <2>2. \A x \in Fetches : x # w => results'[x] = results[x]
    BY <1>0, <1>6 DEF Answer
  <2>3. UNCHANGED <<cache, table, latest, mislaid, unread, pc>>  BY <1>6 DEF Answer
  <2>4. QED  BY <2>1, <2>2, <2>3, TableKept
<1>7. ASSUME NEW w \in Fetches, Update(w) PROVE TableInv'  BY <1>7, UpdateTable
<1>8. ASSUME NEW w \in Fetches, Save(w) PROVE TableInv'  BY <1>8, SaveTable
<1>9. ASSUME NEW w \in Fetches, Publish(w) PROVE TableInv'
  BY <1>0, <1>9, TableKept DEF Publish, Goto
<1>10. CASE AddToken  BY <1>10, TableKept DEF AddToken
<1>11. CASE Tick  BY <1>11, TickTable
<1>12. CASE Restart
  <2>1. \A n \in Nums : AboutToSave(n)' = {}  BY <1>12, SaversHoldNext DEF Restart
  <2>2. PICK loaded \in BOOLEAN, pruned \in BOOLEAN :
          /\ cache' = IF loaded THEN table ELSE Nothing
          /\ table' = IF pruned THEN Pruned ELSE table
          /\ unread' = IF loaded THEN {} ELSE Held(table')
    BY <1>12 DEF Restart
  <2>3. ASSUME NEW n \in Nums PROVE Follows(n)'
    <3>1. CASE loaded  BY <2>2, <3>1 DEF Pruned, Follows
    <3>2. CASE ~loaded
      <4>1. cache'[n] = NoData  BY <2>2, <3>2 DEF Nothing
      <4>2. table'[n] # NoData => n \in unread'  BY <2>2, <3>2 DEF Held
      <4>3. QED  BY <4>1, <4>2 DEF Follows
    <3>3. QED  BY <3>1, <3>2
  <2>4. QED  BY <2>1, <2>3 DEF TableInv, LastHolds, TableFollows, Follows
<1>13. CASE UNCHANGED vars  BY <1>13, TableKept
<1>14. QED
  BY <1>1, <1>2, <1>3, <1>4, <1>5, <1>6, <1>7, <1>8, <1>9, <1>10, <1>11, <1>12, <1>13 DEF Next

(* TableFollows: what a restart will load is what is cached, but for what  *)
(* is about to be saved, failed to be, or was overtaken (stats.go).        *)
THEOREM TableFollowsCache == Spec => []TableFollows
<1>1. Init => TableInv
  <2>1. Init => \A n \in Nums : AboutToSave(n) = {}  BY DEF Init, AboutToSave
  <2>2. QED  BY <2>1 DEF Init, TableInv, LastHolds, TableFollows
<1>2. TypeInv /\ TableInv /\ [Next]_vars => TableInv'  BY TableStep
<1>3. TableInv => TableFollows  BY DEF TableInv
<1>4. QED  BY <1>1, <1>2, <1>3, TypeInductive, PTL DEF Spec

-----------------------------------------------------------------------------
(* What is known                                                           *)

(* A number that is about to be saved is in the cache, and one in the      *)
(* table is too unless a load failed: results reach the cache first        *)
(* (stats.go update, then SaveStatsCache).                                 *)
KnownInv ==
  /\ Held(table) \subseteq Held(cache) \cup unread
  /\ \A w \in Fetches : pc[w] = "save" => Held(results[w]) \subseteq Held(cache)

(* What LastKnownKept says of one step.                                    *)
KeepsKnown ==
  /\ ~Restart => Held(cache) \subseteq Held(cache')
  /\ Held(table) \cap Known \subseteq Held(table') \cap (Held(cache') \cup unread')

(* A step that leaves cache and table alone, and begins no save.           *)
LEMMA KnownUntouched ==
  ASSUME KnownInv, UNCHANGED <<cache, table, unread>>,
         \A w \in Fetches : pc'[w] = "save" => pc[w] = "save" /\ results'[w] = results[w]
  PROVE  KnownInv' /\ KeepsKnown
<1>1. Held(cache') = Held(cache) /\ Held(table') = Held(table)  BY DEF Held
<1>2. KeepsKnown  BY <1>1 DEF KnownInv, KeepsKnown
<1>3. KnownInv'  BY <1>1 DEF KnownInv, Held
<1>4. QED  BY <1>2, <1>3

(* Every step keeps both.                                                  *)
LEMMA KnownStep == TypeInv /\ KnownInv /\ [Next]_vars => KnownInv' /\ KeepsKnown
<1> SUFFICES ASSUME TypeInv, KnownInv, [Next]_vars PROVE KnownInv' /\ KeepsKnown
  OBVIOUS
<1>0. /\ "poller" \in Fetches /\ Visits \subseteq Fetches
      /\ pc \in [Fetches -> {"idle", "bulk", "fetch", "save", "publish"}]
      /\ results \in [Fetches -> [Nums -> Entry]]
  BY DEF Fetches, TypeInv, TypeOK
<1>1. CASE Poll  BY <1>0, <1>1, KnownUntouched DEF Poll, Goto
<1>2. CASE Bulk
  <2>1. /\ UNCHANGED <<cache, table, unread>> /\ pc["poller"] = "bulk"
        /\ pc' = [pc EXCEPT !["poller"] = "fetch"]
    BY <1>2 DEF Bulk, Goto
  <2>2. \A w \in Fetches : w # "poller" => results'[w] = results[w]
    BY <1>0, <1>2 DEF Bulk
  <2>3. QED  BY <1>0, <2>1, <2>2, KnownUntouched
<1>3. ASSUME NEW v \in Visits, Visit(v) PROVE KnownInv' /\ KeepsKnown
  BY <1>0, <1>3, KnownUntouched DEF Visit, Goto
<1>4. CASE Leave  BY <1>4, KnownUntouched DEF Leave
<1>5. ASSUME NEW w \in Fetches, NEW n \in Nums, Request(w, n) PROVE KnownInv' /\ KeepsKnown
  BY <1>5, KnownUntouched DEF Request
<1>6. ASSUME NEW w \in Fetches, NEW n \in Nums, Answer(w, n) PROVE KnownInv' /\ KeepsKnown
  <2>1. pc[w] = "fetch"  BY <1>6 DEF TypeInv, FlyingInv, Answer
  <2>2. \A x \in Fetches : x # w => results'[x] = results[x]
    BY <1>0, <1>6 DEF Answer
  <2>3. UNCHANGED <<cache, table, unread, pc>>  BY <1>6 DEF Answer
  <2>4. QED  BY <2>1, <2>2, <2>3, KnownUntouched
<1>7. ASSUME NEW w \in Fetches, Update(w) PROVE KnownInv' /\ KeepsKnown
  <2>1. UNCHANGED <<table, results>> /\ pc' = [pc EXCEPT ![w] = "save"]
    BY <1>7 DEF Update, Goto
  <2>2. Held(cache') = Held(cache) \cup Held(results[w])
    BY <1>7 DEF Update, Updated, Held
  <2>3. unread' = unread \ Held(results[w])  BY <1>7 DEF Update
  <2>4. Held(table') = Held(table) /\ Held(table) \subseteq Held(cache') \cup unread'
    BY <2>1, <2>2, <2>3 DEF KnownInv, Held
  <2>5. \A x \in Fetches : pc'[x] = "save" => Held(results'[x]) \subseteq Held(cache')
    BY <1>0, <2>1, <2>2 DEF KnownInv
  <2>6. QED  BY <2>2, <2>4, <2>5 DEF KnownInv, KeepsKnown
<1>8. ASSUME NEW w \in Fetches, Save(w) PROVE KnownInv' /\ KeepsKnown
  <2>1. /\ cache' = cache /\ unread' = unread /\ pc[w] = "save"
        /\ \A x \in Fetches : pc'[x] = "save" => pc[x] = "save" /\ results'[x] = results[x]
    BY <1>0, <1>8 DEF Save, Goto
  <2>2. Held(table) \subseteq Held(table') /\ Held(table') \subseteq Held(table) \cup Held(results[w])
    BY <1>8 DEF Save, Saved, Held
  <2>3. QED  BY <2>1, <2>2 DEF KnownInv, KeepsKnown, Held
<1>9. ASSUME NEW w \in Fetches, Publish(w) PROVE KnownInv' /\ KeepsKnown
  BY <1>0, <1>9, KnownUntouched DEF Publish, Goto
<1>10. CASE AddToken  BY <1>10, KnownUntouched DEF AddToken
<1>11. CASE Tick
  <2>1. \A n \in Nums :
          /\ cache'[n] = NoData <=> cache[n] = NoData
          /\ table'[n] = NoData <=> table[n] = NoData
          /\ \A w \in Fetches : results'[w][n] = NoData <=> results[w][n] = NoData
    BY <1>11, OlderEntry DEF Tick, TypeInv, TypeOK
  <2>2. Held(cache') = Held(cache) /\ Held(table') = Held(table)
    BY <2>1 DEF Held
  <2>3. \A w \in Fetches : Held(results'[w]) = Held(results[w])  BY <2>1 DEF Held
  <2>4. pc' = pc /\ unread' = unread  BY <1>11 DEF Tick
  <2>5. KeepsKnown  BY <2>2, <2>4 DEF KnownInv, KeepsKnown
  <2>6. KnownInv'  BY <2>2, <2>3, <2>4 DEF KnownInv, Held
  <2>7. QED  BY <2>5, <2>6
<1>12. CASE Restart
  <2>1. PICK loaded \in BOOLEAN, pruned \in BOOLEAN :
          /\ cache' = IF loaded THEN table ELSE Nothing
          /\ table' = IF pruned THEN Pruned ELSE table
          /\ unread' = IF loaded THEN {} ELSE Held(table')
    BY <1>12 DEF Restart
  <2>2. Held(Pruned) = Held(table) \cap Known  BY DEF Pruned, Held
  <2>3. Held(table) \cap Known \subseteq Held(table') /\ Held(table') \subseteq Held(table)
    BY <2>1, <2>2
  <2>4. Held(table') \subseteq Held(cache') \cup unread'
    <3>1. CASE loaded  BY <2>1, <2>3, <3>1
    <3>2. CASE ~loaded  BY <2>1, <3>2
    <3>3. QED  BY <3>1, <3>2
  <2>5. \A w \in Fetches : pc'[w] # "save"  BY <1>12 DEF Restart
  <2>6. QED  BY <1>12, <2>3, <2>4, <2>5 DEF KnownInv, KeepsKnown
<1>13. CASE UNCHANGED vars  BY <1>13, KnownUntouched
<1>14. QED
  BY <1>1, <1>2, <1>3, <1>4, <1>5, <1>6, <1>7, <1>8, <1>9, <1>10, <1>11, <1>12, <1>13 DEF Next

(* KnownInv holds throughout.                                              *)
LEMMA KnownInductive == Spec => []KnownInv
<1>1. Init => KnownInv
  BY DEF Init, KnownInv, Held, Nothing
<1>2. TypeInv /\ KnownInv /\ [Next]_vars => KnownInv'  BY KnownStep
<1>3. QED  BY <1>1, <1>2, TypeInductive, PTL DEF Spec

(* LastKnownKept: error entries are skipped, so no number that was ever    *)
(* answered for is without an entry again while the process runs, and no   *)
(* node or favorite that was saved leaves the table; a restart has them in *)
(* the cache at once unless its load fails (stats.go:60-64, 80).           *)
THEOREM KnownIsKept == Spec => LastKnownKept
<1>1. TypeInv /\ KnownInv /\ [Next]_vars => [KeepsKnown]_vars  BY KnownStep
<1>2. Spec => [][KeepsKnown]_vars  BY <1>1, TypeInductive, KnownInductive, PTL DEF Spec
<1>3. QED  BY <1>2 DEF LastKnownKept, KeepsKnown

-----------------------------------------------------------------------------
(* The bulk interval                                                       *)

(* Once the poller has found that it may ask for all, only it can make     *)
(* that untrue again (stats.go: lastBulkAt is the poller's own).           *)
BulkInv == pc["poller"] = "bulk" => bulkAge = BulkMin

(* Every step keeps that.                                                  *)
LEMMA BulkStep == TypeInv /\ BulkInv /\ [Next]_vars => BulkInv'
<1> SUFFICES ASSUME TypeInv, BulkInv, [Next]_vars PROVE BulkInv'  OBVIOUS
<1>0. /\ "poller" \in Fetches /\ "poller" \notin Visits /\ Visits \subseteq Fetches
      /\ pc \in [Fetches -> {"idle", "bulk", "fetch", "save", "publish"}]
      /\ BulkMin \in Nat /\ bulkAge \in 0 .. BulkMin
  BY StatsAssumption DEF StatsAssumption, Fetches, TypeInv, TypeOK
<1>1. CASE Poll  BY <1>0, <1>1 DEF Poll, CanBulk, Goto, BulkInv
<1>2. CASE Bulk  BY <1>0, <1>2 DEF Bulk, Goto, BulkInv
<1>3. ASSUME NEW v \in Visits, Visit(v) PROVE BulkInv'
  BY <1>0, <1>3 DEF Visit, Goto, BulkInv
<1>4. CASE Leave  BY <1>4 DEF Leave, BulkInv
<1>5. ASSUME NEW w \in Fetches, NEW n \in Nums, Request(w, n) \/ Answer(w, n) PROVE BulkInv'
  BY <1>5 DEF Request, Answer, BulkInv
<1>6. ASSUME NEW w \in Fetches, Update(w) \/ Save(w) \/ Publish(w) PROVE BulkInv'
  BY <1>0, <1>6 DEF Update, Save, Publish, Goto, BulkInv
<1>7. CASE AddToken  BY <1>7 DEF AddToken, BulkInv
<1>8. CASE Tick  BY <1>0, <1>8 DEF Tick, BulkInv
<1>9. CASE Restart  BY <1>9 DEF Restart, BulkInv
<1>10. CASE UNCHANGED vars  BY <1>10 DEF BulkInv
<1>11. QED
  BY <1>1, <1>2, <1>3, <1>4, <1>5, <1>6, <1>7, <1>8, <1>9, <1>10 DEF Next

(* BulkSpaced: two bulk answers are at least bulkMinInterval apart in one  *)
(* process, however polls, failures and the mode alternate.                *)
THEOREM BulkAnswersSpaced == Spec => BulkSpaced
<1>1. Init => BulkInv  BY DEF Init, BulkInv
<1>2. TypeInv /\ BulkInv /\ [Next]_vars => BulkInv'  BY BulkStep
<1>3. BulkInv => [pc["poller"] = "bulk" /\ bulkAge' = 0 => bulkAge = BulkMin]_vars
  BY DEF BulkInv
<1>4. QED  BY <1>1, <1>2, <1>3, TypeInductive, PTL DEF Spec, BulkSpaced
=============================================================================
