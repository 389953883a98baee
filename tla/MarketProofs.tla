---------------------------- MODULE MarketProofs ----------------------------
(***************************************************************************)
(* The cache of latest prices and the charts, proved to be right for any   *)
(* number of feeds and seeders, however they interleave and wherever they  *)
(* are killed; the days of seed_demo, for one seeder at a time.            *)
(***************************************************************************)
EXTENDS MarketData, TLAPS

Processes == Feeds \cup Seeders
Locking   == {"clear", "commit"}

\* A process that inserts has rows, and those of a series are all of one asset.
OneAsset(p) ==
  /\ p.pc = "series" => \A i, j \in DOMAIN p.queue : p.queue[i].asset = p.queue[j].asset
  /\ p.pc \in {"backfill", "insert"} => p.queue # <<>>

SeriesOfOneAsset == \A w \in Processes : OneAsset(proc[w])

\* One process at most is in a reset, a seeder, and the table is locked meanwhile.
OneReset ==
  /\ \A w \in Processes : proc[w].pc \in Locking => w \in Seeders /\ locked
  /\ \A v, w \in Processes : proc[v].pc \in Locking /\ proc[w].pc \in Locking => v = w

\* Nothing has entered the cache since the reset has read it.
ResetSeesAll ==
  \A w \in Processes : proc[w].pc = "commit" => \A a \in Assets : cache[a] # None => a \in proc[w].doomed

Inv == TypeOK /\ SeriesOfOneAsset /\ OneReset /\ ResetSeesAll /\ CacheShowsNewest

-----------------------------------------------------------------------------
LEMMA InitInv == ASSUME MarketAssumption PROVE Init => Inv
<1> SUFFICES ASSUME Init PROVE Inv
  OBVIOUS
<1> USE MarketAssumption DEF MarketAssumption
<1>1. TypeOK
  <2>1. <<>> \in Seq(Tick)
    OBVIOUS
  <2>2. Fresh(1) \in Process
    BY <2>1 DEF Fresh, Process
  <2>3. proc \in [Feeds \cup Seeders -> Process]
    BY <2>2 DEF Init
  <2>4. cache \in [Assets -> Quote \cup {None}]
    BY DEF Init
  <2>5. now \in Start .. MaxNow /\ fails \in 0 .. MaxFails
    BY DEF Init
  <2> QED BY <2>3, <2>4, <2>5 DEF Init, TypeOK
<1>2. SeriesOfOneAsset /\ OneReset /\ ResetSeesAll
  BY DEF Init, SeriesOfOneAsset, OneAsset, OneReset, ResetSeesAll, Fresh, Processes, Locking
<1>3. CacheShowsNewest
  BY DEF Init, CacheShowsNewest, Of
<1> QED BY <1>1, <1>2, <1>3 DEF Inv

\* A step of one process that touches neither table nor cache.
LEMMA Moved ==
  ASSUME Inv, NEW w \in Processes, proc' \in [Processes -> Process],
         \A v \in Processes \ {w} : proc'[v] = proc[v],
         OneAsset(proc'[w]), proc'[w].pc \notin Locking,
         UNCHANGED <<rows, cache, locked>>
  PROVE  SeriesOfOneAsset' /\ OneReset' /\ ResetSeesAll' /\ CacheShowsNewest'
<1>1. SeriesOfOneAsset'
  BY DEF Inv, SeriesOfOneAsset, OneAsset
<1>2. OneReset'
  BY DEF Inv, OneReset
<1>3. ResetSeesAll'
  BY DEF Inv, ResetSeesAll, Locking
<1>4. CacheShowsNewest'
  BY DEF Inv, CacheShowsNewest, Of, Newest
<1> QED BY <1>1, <1>2, <1>3, <1>4

\* What Store does to the cache and the rows.
LEMMA StoreKeepsNewest ==
  ASSUME MarketAssumption, Inv, NEW a \in Assets, NEW R \in SUBSET Tick, Store(a, R), \A r \in R : r.asset = a
  PROVE  /\ rows' \subseteq Tick /\ cache' \in [Assets -> Quote \cup {None}]
         /\ CacheShowsNewest'
<1> USE DEF Tick, Quote
<1>1. PICK r \in Newest(R) :
        cache' = IF Replaces(cache[a], r)
                 THEN [cache EXCEPT ![a] = [time |-> r.time, price |-> r.price]] ELSE cache
  BY DEF Store
<1>2. rows' = rows \cup R /\ rows \subseteq Tick /\ cache \in [Assets -> Quote \cup {None}]
  BY DEF Store, Inv, TypeOK
<1>3. /\ r \in R /\ r \in Tick /\ r.asset = a /\ r.time \in Int /\ r.price \in Prices
      /\ \A s \in R : s.time <= r.time
  BY <1>1 DEF Newest
<1>4. None \notin Quote
  BY MarketAssumption DEF MarketAssumption
<1>5. rows' \subseteq Tick /\ cache' \in [Assets -> Quote \cup {None}]
  BY <1>1, <1>2, <1>3
<1>6. ASSUME NEW b \in Assets, b # a
      PROVE  IF Of(rows', b) = {} THEN cache'[b] = None
             ELSE \E s \in Newest(Of(rows', b)) : cache'[b] = [time |-> s.time, price |-> s.price]
  <2>1. Of(rows', b) = Of(rows, b) /\ cache'[b] = cache[b]
    BY <1>1, <1>2, <1>6 DEF Of
  <2> QED BY <2>1 DEF Inv, CacheShowsNewest
<1>7. IF Of(rows', a) = {} THEN cache'[a] = None
      ELSE \E s \in Newest(Of(rows', a)) : cache'[a] = [time |-> s.time, price |-> s.price]
  <2>1. r \in Of(rows', a) /\ Of(rows', a) = Of(rows, a) \cup R
    BY <1>2, <1>3 DEF Of
  <2>2. CASE cache[a] = None
    <3>1. Of(rows, a) = {}
      BY <2>2, <1>4, <1>2 DEF Inv, CacheShowsNewest, Newest, Of
    <3>2. r \in Newest(Of(rows', a))
      BY <3>1, <2>1, <1>1
    <3>3. cache'[a] = [time |-> r.time, price |-> r.price]
      BY <1>1, <1>2, <2>2 DEF Replaces
    <3> QED BY <2>1, <3>2, <3>3
  <2>3. CASE cache[a] # None
    <3>1. PICK s \in Newest(Of(rows, a)) : cache[a] = [time |-> s.time, price |-> s.price]
      BY <2>3 DEF Inv, CacheShowsNewest
    <3>2. /\ s \in Of(rows, a) /\ s \in Tick /\ s.time \in Int /\ cache[a].time = s.time
          /\ \A q \in Of(rows, a) : q \in Tick /\ q.time \in Int /\ q.time <= s.time
      BY <3>1, <1>2 DEF Newest, Of
    <3>3. CASE s.time <= r.time
      <4>1. r \in Newest(Of(rows', a))
        BY <2>1, <1>3, <3>2, <3>3 DEF Newest
      <4>2. cache'[a] = [time |-> r.time, price |-> r.price]
        BY <1>1, <1>2, <3>2, <3>3 DEF Replaces
      <4> QED BY <2>1, <4>1, <4>2
    <3>4. CASE ~(s.time <= r.time)
      <4>1. s \in Newest(Of(rows', a))
        BY <2>1, <1>3, <3>2, <3>4 DEF Newest
      <4>2. cache'[a] = cache[a]
        BY <1>1, <2>3, <3>2, <3>4 DEF Replaces
      <4> QED BY <2>1, <4>1, <4>2, <3>1
    <3> QED BY <3>3, <3>4
  <2> QED BY <2>2, <2>3
<1>8. CacheShowsNewest'
  BY <1>6, <1>7 DEF CacheShowsNewest
<1> QED BY <1>5, <1>8

\* Rows are committed, by a process that is not in a reset: then no other is.
LEMMA Stored ==
  ASSUME MarketAssumption, Inv, NEW w \in Processes, NEW a \in Assets, NEW R \in SUBSET Tick, Store(a, R),
         \A r \in R : r.asset = a,
         proc' \in [Processes -> Process], \A v \in Processes \ {w} : proc'[v] = proc[v],
         OneAsset(proc'[w]), proc'[w].pc \notin Locking, UNCHANGED locked
  PROVE  SeriesOfOneAsset' /\ OneReset' /\ ResetSeesAll' /\ CacheShowsNewest'
<1>1. SeriesOfOneAsset'
  BY DEF Inv, SeriesOfOneAsset, OneAsset
<1>2. OneReset'
  BY DEF Inv, OneReset
<1>3. \A v \in Processes : proc[v].pc \notin Locking
  BY DEF Inv, OneReset, Store
<1>4. ResetSeesAll'
  BY <1>3 DEF ResetSeesAll, Locking
<1> QED BY <1>1, <1>2, <1>4, StoreKeepsNewest

-----------------------------------------------------------------------------
(* Rows that are computed *)

Sources == {"real_api", "simulated_backfill", "live", "seed_demo"}

LEMMA TickOfType ==
  ASSUME Inv, NEW w \in Processes, NEW a \in Assets, NEW time \in Int, NEW price \in Prices,
         NEW source \in Sources
  PROVE  TickOf(w, a, time, price, source) \in Tick /\ TickOf(w, a, time, price, source).asset = a
BY DEF TickOf, Tick, Sources, Inv, TypeOK, Process, Processes

LEMMA BucketType == ASSUME MarketAssumption, NEW time \in Int PROVE Bucket(time) \in Int
BY MarketAssumption DEF MarketAssumption, Bucket

\* A sequence given by its elements.
LEMMA SeqOf ==
  ASSUME NEW S, NEW n \in Nat, NEW f, f \in [1 .. n -> S]
  PROVE  f \in Seq(S)
OBVIOUS

LEMMA BarsType ==
  ASSUME MarketAssumption, Inv, NEW w \in Processes, NEW a \in Assets, NEW p \in Prices
  PROVE  Bars(w, a, p) \in Seq(Tick) /\ Simulated(w, a, p) \in Seq(Tick)
<1> USE MarketAssumption DEF MarketAssumption
<1>1. now \in Int /\ Bucket(now) \in Int
  BY BucketType DEF Inv, TypeOK
<1>2. ASSUME NEW i \in 1 .. RealDays
      PROVE  TickOf(w, a, Bucket(now) - (RealDays - i) * Day, p, "real_api") \in Tick
  <2>1. Bucket(now) - (RealDays - i) * Day \in Int
    BY <1>1
  <2> QED BY <2>1, TickOfType DEF Sources
<1>3. ASSUME NEW i \in 1 .. Depth - RealDays
      PROVE  TickOf(w, a, now - (RealDays + i) * Day, p, "simulated_backfill") \in Tick
  <2>1. now - (RealDays + i) * Day \in Int
    BY <1>1
  <2> QED BY <2>1, TickOfType DEF Sources
<1>4. Bars(w, a, p) \in [1 .. RealDays -> Tick]
  BY <1>2 DEF Bars
<1>5. Simulated(w, a, p) \in [1 .. Depth - RealDays -> Tick]
  BY <1>3 DEF Simulated
<1>6. RealDays \in Nat /\ Depth - RealDays \in Nat
  OBVIOUS
<1> QED BY <1>4, <1>5, <1>6, SeqOf

LEMMA SeriesType ==
  ASSUME MarketAssumption, Inv, NEW w \in Processes, NEW a \in Assets, NEW p \in Prices, NEW q \in Prices
  PROVE  /\ Series(w, a, p, q) \in Seq(Tick)
         /\ \A i \in DOMAIN Series(w, a, p, q) : Series(w, a, p, q)[i].asset = a
<1> USE MarketAssumption DEF MarketAssumption
<1> DEFINE time(i) == IF i <= SeedDays THEN now - (SeedDays + 1 - i) * Day ELSE now - Day + i - SeedDays
           price(i) == IF i < SeedDays + Day THEN p ELSE q
<1>1. now \in Int
  BY DEF Inv, TypeOK
<1>2. ASSUME NEW i \in 1 .. SeedDays + Day
      PROVE  TickOf(w, a, time(i), price(i), "seed_demo") \in Tick
             /\ TickOf(w, a, time(i), price(i), "seed_demo").asset = a
  <2>1. time(i) \in Int
    BY <1>1
  <2>2. price(i) \in Prices
    OBVIOUS
  <2> HIDE DEF time, price
  <2> QED BY <2>1, <2>2, TickOfType DEF Sources
<1>3. Series(w, a, p, q) = [i \in 1 .. SeedDays + Day |-> TickOf(w, a, time(i), price(i), "seed_demo")]
  BY DEF Series
<1> HIDE DEF time, price
<1>4. Series(w, a, p, q) \in [1 .. SeedDays + Day -> Tick]
  BY <1>2, <1>3
<1>5. SeedDays + Day \in Nat
  OBVIOUS
<1> QED BY <1>2, <1>3, <1>4, <1>5, SeqOf

-----------------------------------------------------------------------------
(* The steps *)

LEMMA MovedInv ==
  ASSUME Inv, NEW w \in Processes, proc' \in [Processes -> Process],
         \A v \in Processes \ {w} : proc'[v] = proc[v],
         OneAsset(proc'[w]), proc'[w].pc \notin Locking,
         UNCHANGED <<rows, cache, locked>>,
         now' \in Start .. MaxNow, daily' \subseteq Tick, fails' \in 0 .. MaxFails
  PROVE  Inv'
<1>1. TypeOK'
  BY DEF Inv, TypeOK, Processes
<1> QED BY <1>1, Moved DEF Inv

LEMMA FreshType == ASSUME NEW run \in Nat PROVE Fresh(run) \in Process
<1>1. <<>> \in Seq(Tick)
  OBVIOUS
<1> QED BY <1>1 DEF Fresh, Process

LEMMA GetAssetsInv == ASSUME Inv, NEW w \in Feeds, GetAssets(w) PROVE Inv'
<1>1. /\ proc' \in [Processes -> Process] /\ \A v \in Processes \ {w} : proc'[v] = proc[v]
      /\ OneAsset(proc'[w]) /\ proc'[w].pc \notin Locking
  <2>1. proc \in [Processes -> Process] /\ w \in Processes /\ proc[w] \in Process
    BY DEF Inv, TypeOK, Processes
  <2>2. proc' \in [Processes -> Process]
    BY <2>1 DEF GetAssets, Process
  <2>3. \A v \in Processes \ {w} : proc'[v] = proc[v]
    BY <2>1 DEF GetAssets
  <2>4. proc'[w].pc \in {"check"}
    BY <2>1 DEF GetAssets, Process
  <2> QED BY <2>2, <2>3, <2>4 DEF OneAsset, Locking
<1>2. UNCHANGED <<rows, cache, locked>> /\ UNCHANGED <<now, daily, fails>>
  BY DEF GetAssets, NoStore
<1> QED BY <1>1, <1>2, MovedInv DEF Inv, TypeOK, Processes

LEMMA CheckHistoryInv == ASSUME Inv, NEW w \in Feeds, CheckHistory(w) PROVE Inv'
<1>1. /\ proc' \in [Processes -> Process] /\ \A v \in Processes \ {w} : proc'[v] = proc[v]
      /\ OneAsset(proc'[w]) /\ proc'[w].pc \notin Locking
  <2>1. proc \in [Processes -> Process] /\ w \in Processes /\ proc[w] \in Process
    BY DEF Inv, TypeOK, Processes
  <2>5. ASSUME \E a \in proc[w].todo :
               proc' = [proc EXCEPT ![w].todo = @ \ {a},
                                    ![w].missing = IF HasHistory(a) THEN @ ELSE @ \cup {a}]
        PROVE  proc' \in [Processes -> Process] /\ proc'[w].pc \in {"check", "refresh", "asset"}
    <3>1. PICK a \in proc[w].todo :
            proc' = [proc EXCEPT ![w].todo = @ \ {a},
                                 ![w].missing = IF HasHistory(a) THEN @ ELSE @ \cup {a}]
      BY <2>5
    <3>2. a \in Assets
      BY <2>1 DEF Process
    <3> DEFINE m == IF HasHistory(a) THEN proc[w].missing ELSE proc[w].missing \cup {a}
    <3>3. m \in SUBSET Assets /\ proc' = [proc EXCEPT ![w].todo = @ \ {a}, ![w].missing = m]
      BY <2>1, <3>1, <3>2 DEF Process
    <3> HIDE DEF m
    <3>4. proc' \in [Processes -> Process] /\ proc'[w].pc = "check"
      BY <2>1, <3>3 DEF Process, CheckHistory
    <3> QED BY <3>4
  <2>6. ASSUME proc' = [proc EXCEPT ![w].pc = IF proc[w].missing = {} THEN "refresh" ELSE "asset",
                                  ![w].todo = proc[w].missing, ![w].missing = {}]
        PROVE  proc' \in [Processes -> Process] /\ proc'[w].pc \in {"check", "refresh", "asset"}
    <3> DEFINE pc == IF proc[w].missing = {} THEN "refresh" ELSE "asset"
    <3>1. pc \in {"refresh", "asset"} /\ proc[w].missing \in SUBSET Assets
      BY <2>1 DEF Process
    <3>2. proc' = [proc EXCEPT ![w].pc = pc, ![w].todo = proc[w].missing, ![w].missing = {}]
      BY <2>6
    <3> HIDE DEF pc
    <3>3. proc' \in [Processes -> Process] /\ proc'[w].pc \in {"refresh", "asset"}
      BY <2>1, <3>1, <3>2 DEF Process
    <3> QED BY <3>3
  <2>2. proc' \in [Processes -> Process]
    BY <2>5, <2>6 DEF CheckHistory
  <2>3. \A v \in Processes \ {w} : proc'[v] = proc[v]
    BY <2>1 DEF CheckHistory
  <2>4. proc'[w].pc \in {"check", "refresh", "asset"}
    BY <2>5, <2>6 DEF CheckHistory
  <2> QED BY <2>2, <2>3, <2>4 DEF OneAsset, Locking
<1>2. UNCHANGED <<rows, cache, locked>> /\ UNCHANGED <<now, daily, fails>>
  BY DEF CheckHistory, NoStore
<1> QED BY <1>1, <1>2, MovedInv DEF Inv, TypeOK, Processes

LEMMA RefreshInv == ASSUME Inv, NEW w \in Feeds, RefreshAggregates(w) PROVE Inv'
<1>1. /\ proc' \in [Processes -> Process] /\ \A v \in Processes \ {w} : proc'[v] = proc[v]
      /\ OneAsset(proc'[w]) /\ proc'[w].pc \notin Locking
  <2>1. proc \in [Processes -> Process] /\ w \in Processes /\ proc[w] \in Process
    BY DEF Inv, TypeOK, Processes
  <2>2. proc' \in [Processes -> Process]
    BY <2>1 DEF RefreshAggregates, Process
  <2>3. \A v \in Processes \ {w} : proc'[v] = proc[v]
    BY <2>1 DEF RefreshAggregates
  <2>4. proc'[w].pc \in {"live"}
    BY <2>1 DEF RefreshAggregates, Process
  <2> QED BY <2>2, <2>3, <2>4 DEF OneAsset, Locking
<1>2. UNCHANGED <<rows, cache, locked>> /\ UNCHANGED <<now, daily, fails>>
  BY DEF RefreshAggregates, NoStore
<1> QED BY <1>1, <1>2, MovedInv DEF Inv, TypeOK, Processes

LEMMA KeepRowsInv == ASSUME Inv, NEW w \in Seeders, KeepRows(w) PROVE Inv'
<1>1. /\ proc' \in [Processes -> Process] /\ \A v \in Processes \ {w} : proc'[v] = proc[v]
      /\ OneAsset(proc'[w]) /\ proc'[w].pc \notin Locking
  <2>1. proc \in [Processes -> Process] /\ w \in Processes /\ proc[w] \in Process
    BY DEF Inv, TypeOK, Processes
  <2>2. proc' \in [Processes -> Process]
    BY <2>1 DEF KeepRows, Process
  <2>3. \A v \in Processes \ {w} : proc'[v] = proc[v]
    BY <2>1 DEF KeepRows
  <2>4. proc'[w].pc \in {"seed"}
    BY <2>1 DEF KeepRows, Process
  <2> QED BY <2>2, <2>3, <2>4 DEF OneAsset, Locking
<1>2. UNCHANGED <<rows, cache, locked>> /\ UNCHANGED <<now, daily, fails>>
  BY DEF KeepRows, NoStore
<1> QED BY <1>1, <1>2, MovedInv DEF Inv, TypeOK, Processes

LEMMA FetchHistoryInv == ASSUME MarketAssumption, Inv, NEW w \in Feeds, FetchHistory(w) PROVE Inv'
<1>1. /\ proc' \in [Processes -> Process] /\ \A v \in Processes \ {w} : proc'[v] = proc[v]
      /\ OneAsset(proc'[w]) /\ proc'[w].pc \notin Locking
  <2>1. CASE proc[w].todo = {} /\ Goto(w, "refresh")
    BY <2>1 DEF Goto, Inv, TypeOK, Process, Processes, OneAsset, Locking
  <2>2. CASE \E a \in proc[w].todo, p, q \in Prices :
               \E queue \in {<<>>, Simulated(w, a, p), Bars(w, a, q) \o Simulated(w, a, p)} :
                 proc' = [proc EXCEPT ![w].pc = IF queue = <<>> THEN "asset" ELSE "backfill",
                                      ![w].todo = @ \ {a}, ![w].queue = queue]
    <3>0. PICK a \in proc[w].todo, p \in Prices, q \in Prices :
            \E queue \in {<<>>, Simulated(w, a, p), Bars(w, a, q) \o Simulated(w, a, p)} :
              proc' = [proc EXCEPT ![w].pc = IF queue = <<>> THEN "asset" ELSE "backfill",
                                   ![w].todo = @ \ {a}, ![w].queue = queue]
      BY <2>2
    <3>1. PICK queue \in {<<>>, Simulated(w, a, p), Bars(w, a, q) \o Simulated(w, a, p)} :
            proc' = [proc EXCEPT ![w].pc = IF queue = <<>> THEN "asset" ELSE "backfill",
                                 ![w].todo = @ \ {a}, ![w].queue = queue]
      BY <3>0
    <3>2. a \in Assets
      BY DEF Inv, TypeOK, Process
    <3>3. Simulated(w, a, p) \in Seq(Tick) /\ Bars(w, a, q) \in Seq(Tick)
      BY <3>2, BarsType DEF Processes
    <3>4. queue \in Seq(Tick)
      <4>1. <<>> \in Seq(Tick)
        OBVIOUS
      <4>2. Bars(w, a, q) \o Simulated(w, a, p) \in Seq(Tick)
        BY <3>3
      <4> QED BY <3>3, <4>1, <4>2
    <3>5. (IF queue = <<>> THEN "asset" ELSE "backfill") \in {"asset", "backfill"}
      OBVIOUS
    <3> QED BY <3>1, <3>4, <3>5 DEF Inv, TypeOK, Process, Processes, OneAsset, Locking
  <2> QED BY <2>1, <2>2 DEF FetchHistory
<1>2. UNCHANGED <<rows, cache, locked>> /\ UNCHANGED <<now, daily, fails>>
  BY DEF FetchHistory, NoStore
<1> QED BY <1>1, <1>2, MovedInv DEF Inv, TypeOK, Processes

LEMMA FetchPriceInv == ASSUME MarketAssumption, Inv, NEW w \in Feeds, FetchPrice(w) PROVE Inv'
<1>1. /\ proc' \in [Processes -> Process] /\ \A v \in Processes \ {w} : proc'[v] = proc[v]
      /\ OneAsset(proc'[w]) /\ proc'[w].pc \notin Locking
  <2>1. ASSUME NEW a \in proc[w].todo, NEW p \in Prices,
               proc' = [proc EXCEPT ![w].pc = "insert", ![w].todo = @ \ {a},
                                    ![w].queue = <<TickOf(w, a, now, p, "live")>>]
        PROVE  /\ proc' \in [Processes -> Process] /\ \A v \in Processes \ {w} : proc'[v] = proc[v]
               /\ OneAsset(proc'[w]) /\ proc'[w].pc \notin Locking
    <3>1. a \in Assets /\ now \in Int
      BY MarketAssumption DEF Inv, TypeOK, Process, MarketAssumption
    <3>2. TickOf(w, a, now, p, "live") \in Tick
      BY <3>1, TickOfType DEF Sources, Processes
    <3>3. <<TickOf(w, a, now, p, "live")>> \in Seq(Tick)
      BY <3>2
    <3> QED BY <2>1, <3>3 DEF Inv, TypeOK, Process, Processes, OneAsset, Locking
  <2>2. CASE \E a \in proc[w].todo : proc' = [proc EXCEPT ![w].todo = @ \ {a}]
    <3>1. proc \in [Processes -> Process] /\ w \in Processes /\ proc[w] \in Process /\ proc[w].pc = "live"
      BY DEF Inv, TypeOK, Processes, FetchPrice
    <3>2. proc' \in [Processes -> Process]
      <4>1. PICK a : proc' = [proc EXCEPT ![w].todo = @ \ {a}]
        BY <2>2
      <4>2. [proc[w] EXCEPT !.todo = @ \ {a}] \in Process
        BY <3>1 DEF Process
      <4> QED BY <3>1, <4>1, <4>2
    <3>3. \A v \in Processes \ {w} : proc'[v] = proc[v]
      BY <2>2, <3>1
    <3>4. proc'[w].pc = "live"
      BY <2>2, <3>1 DEF Process
    <3> QED BY <3>2, <3>3, <3>4 DEF OneAsset, Locking
  <2>3. CASE proc' = [proc EXCEPT ![w].todo = Assets]
    <3>1. proc \in [Processes -> Process] /\ w \in Processes /\ proc[w] \in Process /\ proc[w].pc = "live"
      BY DEF Inv, TypeOK, Processes, FetchPrice
    <3>2. proc' \in [Processes -> Process]
      BY <2>3, <3>1 DEF Process
    <3>3. \A v \in Processes \ {w} : proc'[v] = proc[v]
      BY <2>3, <3>1
    <3>4. proc'[w].pc = "live"
      BY <2>3, <3>1 DEF Process
    <3> QED BY <3>2, <3>3, <3>4 DEF OneAsset, Locking
  <2> QED BY <2>1, <2>2, <2>3 DEF FetchPrice
<1>2. UNCHANGED <<rows, cache, locked>> /\ UNCHANGED <<now, daily, fails>>
  BY DEF FetchPrice, NoStore
<1> QED BY <1>1, <1>2, MovedInv DEF Inv, TypeOK, Processes

LEMMA RestartFeedInv == ASSUME Inv, NEW w \in Feeds, RestartFeed(w) PROVE Inv'
<1>1. Fresh(proc[w].run + 1) \in Process
  <2>1. proc[w] \in Process
    BY DEF Inv, TypeOK
  <2>2. proc[w].run + 1 \in Nat
    BY <2>1 DEF Process
  <2> QED BY <2>2, FreshType
<1>2. /\ proc' \in [Processes -> Process] /\ \A v \in Processes \ {w} : proc'[v] = proc[v]
      /\ proc'[w] = Fresh(proc[w].run + 1)
  BY <1>1 DEF RestartFeed, Inv, TypeOK, Processes
<1>3. OneAsset(proc'[w]) /\ proc'[w].pc \notin Locking
  BY <1>2 DEF Fresh, OneAsset, Locking
<1>4. UNCHANGED <<rows, cache, locked>> /\ UNCHANGED <<now, daily, fails>>
  BY DEF RestartFeed, NoStore
<1> QED BY <1>2, <1>3, <1>4, MovedInv DEF Inv, TypeOK, Processes

LEMMA InsertInv == ASSUME MarketAssumption, Inv, NEW w \in Feeds, Insert(w) PROVE Inv'
<1> DEFINE row == Head(proc[w].queue)
           rest == Tail(proc[w].queue)
<1>1. proc[w] \in Process /\ proc[w].pc \in {"backfill", "insert"} /\ UNCHANGED <<now, daily>>
  BY DEF Insert, Inv, TypeOK, Processes
<1>2. ASSUME NEW q \in Seq(Tick), Continue(w, q)
      PROVE  /\ proc' \in [Processes -> Process] /\ \A v \in Processes \ {w} : proc'[v] = proc[v]
             /\ OneAsset(proc'[w]) /\ proc'[w].pc \notin Locking
  <2>1. CASE q # <<>>
    <3>1. proc' = [proc EXCEPT ![w].queue = q, ![w].pc = proc[w].pc]
      BY <1>2, <2>1 DEF Continue
    <3>2. proc \in [Processes -> Process] /\ w \in Processes
      BY DEF Inv, TypeOK, Processes
    <3>3. proc' \in [Processes -> Process] /\ proc'[w].pc = proc[w].pc /\ proc'[w].queue = q
      BY <1>1, <3>1, <3>2 DEF Process
    <3>4. \A v \in Processes \ {w} : proc'[v] = proc[v]
      BY <3>1, <3>2
    <3> QED BY <1>1, <2>1, <3>3, <3>4 DEF OneAsset, Locking
  <2>2. CASE q = <<>> /\ proc[w].pc = "backfill"
    <3>1. proc' = [proc EXCEPT ![w].queue = q, ![w].pc = "asset"]
      BY <1>2, <2>2 DEF Continue
    <3>2. proc \in [Processes -> Process] /\ w \in Processes
      BY DEF Inv, TypeOK, Processes
    <3>3. proc' \in [Processes -> Process] /\ proc'[w].pc = "asset" /\ proc'[w].queue = q
      BY <1>1, <3>1, <3>2 DEF Process
    <3>4. \A v \in Processes \ {w} : proc'[v] = proc[v]
      BY <3>1, <3>2
    <3> QED BY <1>1, <2>2, <3>3, <3>4 DEF OneAsset, Locking
  <2>3. CASE q = <<>> /\ proc[w].pc = "insert"
    <3>1. proc' = [proc EXCEPT ![w].queue = q, ![w].pc = "live"]
      BY <1>2, <2>3 DEF Continue
    <3>2. proc \in [Processes -> Process] /\ w \in Processes
      BY DEF Inv, TypeOK, Processes
    <3>3. proc' \in [Processes -> Process] /\ proc'[w].pc = "live" /\ proc'[w].queue = q
      BY <1>1, <3>1, <3>2 DEF Process
    <3>4. \A v \in Processes \ {w} : proc'[v] = proc[v]
      BY <3>1, <3>2
    <3> QED BY <1>1, <2>3, <3>3, <3>4 DEF OneAsset, Locking
  <2> QED BY <1>1, <2>1, <2>2, <2>3

<1>3. row \in Tick /\ rest \in Seq(Tick)
  <2>1. proc[w].queue \in Seq(Tick) /\ proc[w].queue # <<>>
    BY <1>1 DEF Process, Inv, SeriesOfOneAsset, OneAsset, Processes
  <2> QED BY <2>1
<1> HIDE DEF row, rest
<1>4. CASE Store(row.asset, {row}) /\ Continue(w, rest) /\ UNCHANGED <<locked, fails>>
  <2>1. /\ proc' \in [Processes -> Process] /\ \A v \in Processes \ {w} : proc'[v] = proc[v]
        /\ OneAsset(proc'[w]) /\ proc'[w].pc \notin Locking
    BY <1>2, <1>3, <1>4
  <2>2. row.asset \in Assets /\ {row} \in SUBSET Tick /\ \A r \in {row} : r.asset = row.asset
    BY <1>3 DEF Tick
  <2>3. w \in Processes
    BY DEF Processes
  <2>4. SeriesOfOneAsset' /\ OneReset' /\ ResetSeesAll' /\ CacheShowsNewest'
    BY <1>4, <2>1, <2>2, <2>3, Stored
  <2>5. rows' \subseteq Tick /\ cache' \in [Assets -> Quote \cup {None}]
    BY <1>4, <2>2, StoreKeepsNewest
  <2>6. TypeOK'
    BY <1>1, <1>4, <2>1, <2>5 DEF Inv, TypeOK, Processes
  <2> QED BY <2>4, <2>6 DEF Inv
<1>5. CASE /\ fails < MaxFails /\ fails' = fails + 1 /\ NoStore
           /\ Continue(w, rest) \/ Continue(w, <<>>)
  <2>1. <<>> \in Seq(Tick)
    OBVIOUS
  <2>2. /\ proc' \in [Processes -> Process] /\ \A v \in Processes \ {w} : proc'[v] = proc[v]
        /\ OneAsset(proc'[w]) /\ proc'[w].pc \notin Locking
    BY <1>2, <1>3, <1>5, <2>1
  <2>3. fails' \in 0 .. MaxFails
    BY <1>5, MarketAssumption DEF Inv, TypeOK, MarketAssumption
  <2>4. UNCHANGED <<rows, cache, locked>> /\ w \in Processes
    BY <1>5 DEF NoStore, Processes
  <2> QED BY <1>1, <2>2, <2>3, <2>4, MovedInv DEF Inv, TypeOK
<1> QED BY <1>4, <1>5 DEF Insert, row, rest

LEMMA GenerateInv == ASSUME MarketAssumption, Inv, NEW w \in Seeders, Generate(w) PROVE Inv'
<1>1. /\ proc' \in [Processes -> Process] /\ \A v \in Processes \ {w} : proc'[v] = proc[v]
      /\ OneAsset(proc'[w]) /\ proc'[w].pc \notin Locking
  <2>1. ASSUME NEW a \in proc[w].todo, NEW p \in Prices, NEW q \in Prices,
               proc' = [proc EXCEPT ![w].pc = "series", ![w].todo = @ \ {a},
                                    ![w].queue = Series(w, a, p, q)]
        PROVE  /\ proc' \in [Processes -> Process] /\ \A v \in Processes \ {w} : proc'[v] = proc[v]
               /\ OneAsset(proc'[w]) /\ proc'[w].pc \notin Locking
    <3>1. a \in Assets /\ w \in Processes
      BY DEF Inv, TypeOK, Process, Processes
    <3>2. /\ Series(w, a, p, q) \in Seq(Tick)
          /\ \A i \in DOMAIN Series(w, a, p, q) : Series(w, a, p, q)[i].asset = a
      BY <3>1, SeriesType
    <3> QED BY <2>1, <3>2 DEF Inv, TypeOK, Process, Processes, OneAsset, Locking
  <2>2. CASE Goto(w, "refresh")
    BY <2>2 DEF Goto, Inv, TypeOK, Process, Processes, OneAsset, Locking
  <2> QED BY <2>1, <2>2 DEF Generate
<1>2. UNCHANGED <<rows, cache, locked>> /\ UNCHANGED <<now, daily, fails>>
  BY DEF Generate, NoStore
<1> QED BY <1>1, <1>2, MovedInv DEF Inv, TypeOK, Processes

LEMMA InsertSeriesInv == ASSUME MarketAssumption, Inv, NEW w \in Seeders, InsertSeries(w) PROVE Inv'
<1> DEFINE queue == proc[w].queue
           R == {queue[i] : i \in DOMAIN queue}
<1>1. proc[w] \in Process /\ proc[w].pc = "series" /\ w \in Processes
  BY DEF InsertSeries, Inv, TypeOK, Processes
<1>2. /\ Store(queue[1].asset, R)
      /\ proc' = [proc EXCEPT ![w].pc = "seed", ![w].queue = <<>>]
      /\ UNCHANGED <<now, daily, fails, locked>>
  BY DEF InsertSeries
<1>3. queue \in Seq(Tick) /\ \A i, j \in DOMAIN queue : queue[i].asset = queue[j].asset
  BY <1>1 DEF Process, Inv, SeriesOfOneAsset, OneAsset
<1> HIDE DEF queue
<1>4. R # {}
  BY <1>2 DEF Store, Newest
<1>5. 1 \in DOMAIN queue /\ R \in SUBSET Tick
  BY <1>3, <1>4
<1>6. queue[1].asset \in Assets /\ \A r \in R : r.asset = queue[1].asset
  BY <1>3, <1>5 DEF Tick
<1> HIDE DEF R
<1>7. /\ proc' \in [Processes -> Process] /\ \A v \in Processes \ {w} : proc'[v] = proc[v]
      /\ OneAsset(proc'[w]) /\ proc'[w].pc \notin Locking
  <2>1. <<>> \in Seq(Tick)
    OBVIOUS
  <2>2. proc \in [Processes -> Process]
    BY DEF Inv, TypeOK, Processes
  <2>3. proc' \in [Processes -> Process]
    BY <1>1, <1>2, <2>1, <2>2 DEF Process
  <2>4. \A v \in Processes \ {w} : proc'[v] = proc[v]
    BY <1>1, <1>2, <2>2
  <2>5. proc'[w].pc = "seed"
    BY <1>1, <1>2, <2>2 DEF Process
  <2> QED BY <2>3, <2>4, <2>5 DEF OneAsset, Locking
<1>8. SeriesOfOneAsset' /\ OneReset' /\ ResetSeesAll' /\ CacheShowsNewest'
  BY <1>1, <1>2, <1>5, <1>6, <1>7, Stored
<1>9. rows' \subseteq Tick /\ cache' \in [Assets -> Quote \cup {None}]
  BY <1>2, <1>5, <1>6, StoreKeepsNewest
<1>10. TypeOK'
  BY <1>2, <1>7, <1>9 DEF Inv, TypeOK, Processes
<1> QED BY <1>8, <1>10 DEF Inv

LEMMA RefreshAggregateInv == ASSUME Inv, NEW w \in Seeders, RefreshAggregate(w) PROVE Inv'
<1>1. /\ proc' \in [Processes -> Process] /\ \A v \in Processes \ {w} : proc'[v] = proc[v]
      /\ OneAsset(proc'[w]) /\ proc'[w].pc \notin Locking
  <2>1. proc \in [Processes -> Process] /\ w \in Processes /\ proc[w] \in Process
    BY DEF Inv, TypeOK, Processes
  <2>2. proc' \in [Processes -> Process]
    BY <2>1 DEF RefreshAggregate, Goto, Process
  <2>3. \A v \in Processes \ {w} : proc'[v] = proc[v]
    BY <2>1 DEF RefreshAggregate, Goto
  <2>4. proc'[w].pc \in {"done"}
    BY <2>1 DEF RefreshAggregate, Goto, Process
  <2> QED BY <2>2, <2>3, <2>4 DEF OneAsset, Locking
<1>2. UNCHANGED <<rows, cache, locked, now, fails>> /\ daily' = rows
  BY DEF RefreshAggregate, NoStore
<1> QED BY <1>1, <1>2, MovedInv DEF Inv, TypeOK, Processes

LEMMA RefreshFailsInv == ASSUME MarketAssumption, Inv, NEW w \in Seeders, RefreshFails(w) PROVE Inv'
<1>1. /\ proc' \in [Processes -> Process] /\ \A v \in Processes \ {w} : proc'[v] = proc[v]
      /\ OneAsset(proc'[w]) /\ proc'[w].pc \notin Locking
  <2>1. proc \in [Processes -> Process] /\ w \in Processes /\ proc[w] \in Process
    BY DEF Inv, TypeOK, Processes
  <2>2. proc' \in [Processes -> Process]
    BY <2>1 DEF RefreshFails, Goto, Process
  <2>3. \A v \in Processes \ {w} : proc'[v] = proc[v]
    BY <2>1 DEF RefreshFails, Goto
  <2>4. proc'[w].pc \in {"unrefreshed"}
    BY <2>1 DEF RefreshFails, Goto, Process
  <2> QED BY <2>2, <2>3, <2>4 DEF OneAsset, Locking
<1>2. UNCHANGED <<rows, cache, locked, now, daily>> /\ fails' \in 0 .. MaxFails
  BY MarketAssumption DEF RefreshFails, NoStore, Inv, TypeOK, MarketAssumption
<1> QED BY <1>1, <1>2, MovedInv DEF Inv, TypeOK, Processes

LEMMA TruncateInv == ASSUME Inv, NEW w \in Seeders, Truncate(w) PROVE Inv'
<1>1. /\ proc' \in [Processes -> Process] /\ \A v \in Processes \ {w} : proc'[v] = proc[v]
      /\ proc'[w].pc = "clear" /\ w \in Processes
  BY DEF Truncate, Goto, Inv, TypeOK, Process, Processes
<1>2. UNCHANGED <<rows, cache, now, daily, fails>> /\ locked' = TRUE
  BY DEF Truncate
<1>3. \A v \in Processes : proc[v].pc \notin Locking
  BY DEF Inv, OneReset, Truncate
<1>4. TypeOK'
  BY <1>1, <1>2 DEF Inv, TypeOK, Processes
<1>5. SeriesOfOneAsset'
  BY <1>1 DEF Inv, SeriesOfOneAsset, OneAsset
<1>6. OneReset'
  BY <1>1, <1>2, <1>3 DEF OneReset, Locking
<1>7. ResetSeesAll'
  BY <1>1, <1>3 DEF ResetSeesAll, Locking
<1>8. CacheShowsNewest'
  BY <1>2 DEF Inv, CacheShowsNewest, Of, Newest
<1> QED BY <1>4, <1>5, <1>6, <1>7, <1>8 DEF Inv

LEMMA ClearInv == ASSUME Inv, NEW w \in Seeders, Clear(w) PROVE Inv'
<1>1. /\ proc' \in [Processes -> Process] /\ \A v \in Processes \ {w} : proc'[v] = proc[v]
      /\ proc'[w].pc = "commit" /\ proc'[w].doomed = {a \in Assets : cache[a] # None}
      /\ proc[w].pc = "clear" /\ w \in Processes
  <2>1. proc \in [Processes -> Process] /\ w \in Processes /\ proc[w] \in Process
    BY DEF Inv, TypeOK, Processes
  <2> DEFINE D == {a \in Assets : cache[a] # None}
  <2>2. D \in SUBSET Assets
    OBVIOUS
  <2>3. proc' = [proc EXCEPT ![w].pc = "commit", ![w].doomed = D] /\ proc[w].pc = "clear"
    BY DEF Clear
  <2> HIDE DEF D
  <2>4. proc' \in [Processes -> Process]
    BY <2>1, <2>2, <2>3 DEF Process
  <2>5. /\ \A v \in Processes \ {w} : proc'[v] = proc[v]
        /\ proc'[w].pc = "commit" /\ proc'[w].doomed = D
    BY <2>1, <2>3 DEF Process
  <2> QED BY <2>1, <2>3, <2>4, <2>5 DEF D
<1>2. UNCHANGED <<rows, cache, locked, now, daily, fails>>
  BY DEF Clear, NoStore
<1>3. TypeOK'
  BY <1>1, <1>2 DEF Inv, TypeOK, Processes
<1>4. SeriesOfOneAsset'
  BY <1>1 DEF Inv, SeriesOfOneAsset, OneAsset
<1>5. \A v \in Processes : proc'[v].pc \in Locking => proc[v].pc \in Locking
  BY <1>1 DEF Locking
<1>6. OneReset'
  BY <1>2, <1>5 DEF Inv, OneReset
<1>7. ResetSeesAll'
  BY <1>1, <1>2 DEF Inv, ResetSeesAll
<1>8. CacheShowsNewest'
  BY <1>2 DEF Inv, CacheShowsNewest, Of, Newest
<1> QED BY <1>3, <1>4, <1>6, <1>7, <1>8 DEF Inv

LEMMA CommitResetInv == ASSUME Inv, NEW w \in Seeders, CommitReset(w) PROVE Inv'
<1>1. /\ proc' \in [Processes -> Process] /\ \A v \in Processes \ {w} : proc'[v] = proc[v]
      /\ proc'[w].pc = "seed" /\ proc[w].pc = "commit" /\ w \in Processes
  <2>1. proc \in [Processes -> Process] /\ w \in Processes /\ proc[w] \in Process
    BY DEF Inv, TypeOK, Processes
  <2>2. proc' \in [Processes -> Process]
    BY <2>1 DEF CommitReset, Process
  <2> QED BY <2>1, <2>2 DEF CommitReset, Process
<1>2. /\ rows' = {} /\ locked' = FALSE /\ UNCHANGED <<now, daily, fails>>
      /\ cache' = [a \in Assets |-> IF a \in proc[w].doomed THEN None ELSE cache[a]]
  BY DEF CommitReset
<1>3. cache' = [a \in Assets |-> None]
  BY <1>1, <1>2 DEF Inv, ResetSeesAll
<1>4. TypeOK'
  BY <1>1, <1>2, <1>3 DEF Inv, TypeOK, Processes
<1>5. SeriesOfOneAsset'
  BY <1>1 DEF Inv, SeriesOfOneAsset, OneAsset
<1>6. \A v \in Processes : proc'[v].pc \notin Locking
  BY <1>1 DEF Inv, OneReset, Locking
<1>7. OneReset' /\ ResetSeesAll'
  BY <1>6 DEF OneReset, ResetSeesAll, Locking
<1>8. CacheShowsNewest'
  BY <1>2, <1>3 DEF CacheShowsNewest, Of
<1> QED BY <1>4, <1>5, <1>7, <1>8 DEF Inv

LEMMA EndSeederInv == ASSUME Inv, NEW w \in Seeders, EndSeeder(w) PROVE Inv'
<1>1. Fresh(proc[w].run + 1) \in Process
  <2>1. proc[w] \in Process
    BY DEF Inv, TypeOK
  <2>2. proc[w].run + 1 \in Nat
    BY <2>1 DEF Process
  <2> QED BY <2>2, FreshType
<1>2. /\ proc' \in [Processes -> Process] /\ \A v \in Processes \ {w} : proc'[v] = proc[v]
      /\ proc'[w].pc = "start" /\ w \in Processes
  BY <1>1 DEF EndSeeder, Inv, TypeOK, Processes, Fresh
<1>3. /\ UNCHANGED <<rows, cache, now, daily, fails>>
      /\ locked' = (locked /\ proc[w].pc \notin Locking)
  BY DEF EndSeeder, Locking
<1>4. TypeOK'
  BY <1>2, <1>3 DEF Inv, TypeOK, Processes
<1>5. SeriesOfOneAsset'
  BY <1>2 DEF Inv, SeriesOfOneAsset, OneAsset
<1>6. OneReset'
  <2>1. ASSUME NEW v \in Processes, proc'[v].pc \in Locking
        PROVE  v # w /\ proc[v].pc \in Locking /\ v \in Seeders /\ locked'
    BY <1>2, <1>3, <2>1 DEF Inv, OneReset, Locking
  <2> QED BY <2>1 DEF Inv, OneReset
<1>7. ResetSeesAll'
  BY <1>2, <1>3 DEF Inv, ResetSeesAll
<1>8. CacheShowsNewest'
  BY <1>3 DEF Inv, CacheShowsNewest, Of, Newest
<1> QED BY <1>4, <1>5, <1>6, <1>7, <1>8 DEF Inv

LEMMA OtherInv ==
  ASSUME Inv, UNCHANGED <<rows, cache, locked, proc>>,
         now' \in Start .. MaxNow, daily' \subseteq Tick, fails' \in 0 .. MaxFails
  PROVE  Inv'
<1>1. TypeOK'
  BY DEF Inv, TypeOK
<1>2. SeriesOfOneAsset' /\ OneReset' /\ ResetSeesAll'
  BY DEF Inv, SeriesOfOneAsset, OneAsset, OneReset, ResetSeesAll
<1>3. CacheShowsNewest'
  BY DEF Inv, CacheShowsNewest, Of, Newest
<1> QED BY <1>1, <1>2, <1>3 DEF Inv

LEMMA StepInv == ASSUME MarketAssumption PROVE Inv /\ [Next]_vars => Inv'
<1> SUFFICES ASSUME Inv, [Next]_vars PROVE Inv'
  OBVIOUS
<1>1. ASSUME NEW w \in Feeds, Feed(w) \/ RestartFeed(w) PROVE Inv'
  BY <1>1, GetAssetsInv, CheckHistoryInv, FetchHistoryInv, InsertInv, RefreshInv, FetchPriceInv,
     RestartFeedInv DEF Feed
<1>2. ASSUME NEW w \in Seeders, Seeder(w) \/ EndSeeder(w) PROVE Inv'
  BY <1>2, TruncateInv, ClearInv, CommitResetInv, KeepRowsInv, GenerateInv, InsertSeriesInv,
     RefreshAggregateInv, RefreshFailsInv, EndSeederInv DEF Seeder
<1>3. CASE RefreshPolicy
  <2>1. daily' \subseteq Tick
    BY <1>3 DEF RefreshPolicy, Inv, TypeOK
  <2> QED BY <1>3, <2>1, OtherInv DEF RefreshPolicy, NoStore, Inv, TypeOK
<1>4. CASE Clock
  <2>1. now' \in Start .. MaxNow
    BY <1>4, MarketAssumption DEF Clock, Inv, TypeOK, MarketAssumption
  <2> QED BY <1>4, <2>1, OtherInv DEF Clock, NoStore, Inv, TypeOK
<1>5. CASE UNCHANGED vars
  BY <1>5, OtherInv DEF vars, Inv, TypeOK
<1> QED BY <1>1, <1>2, <1>3, <1>4, <1>5 DEF Next

-----------------------------------------------------------------------------
(* What one seeder has inserted *)

OneSeeder == \A v, w \in Seeders : v = w

\* The feeds have nothing in hand that passes for seed_demo's.
OwnRows(p) == \A i \in DOMAIN p.queue : p.queue[i].source # "seed_demo"
FeedsKnown == \A w \in Feeds : OwnRows(proc[w])

\* The aggregate has what a seeder that has ended has inserted.
SeedKept ==
  \A w \in Seeders, r \in rows : proc[w].pc = "done" /\ r.source = "seed_demo" => r \in daily

LEMMA InitSeed == Init => FeedsKnown /\ SeedKept
BY DEF Init, FeedsKnown, OwnRows, SeedKept, Fresh

LEMMA ProcOf ==
  ASSUME Inv, NEW w \in Processes
  PROVE  /\ proc \in [Processes -> Process] /\ proc[w] \in Process
         /\ proc[w].queue \in Seq(Tick)
         /\ proc[w].pc \in {"backfill", "insert"} => proc[w].queue # <<>>
BY DEF Inv, TypeOK, Process, Processes, SeriesOfOneAsset, OneAsset

LEMMA FeedOwnRows ==
  ASSUME MarketAssumption, Inv, NEW w \in Feeds, OwnRows(proc[w]), Feed(w) \/ RestartFeed(w)
  PROVE  OwnRows(proc'[w])
<1>0. /\ proc \in [Processes -> Process] /\ w \in Processes /\ proc[w] \in Process
      /\ proc[w].queue \in Seq(Tick)
  BY ProcOf DEF Processes
<1>1. CASE GetAssets(w) \/ CheckHistory(w) \/ RefreshAggregates(w)
  <2>1. proc'[w].queue = proc[w].queue
    <3>1. CASE GetAssets(w)
      BY <1>0, <3>1 DEF GetAssets, Process
    <3>2. CASE RefreshAggregates(w)
      BY <1>0, <3>2 DEF RefreshAggregates, Process
    <3>3. CASE CheckHistory(w)
      <4>1. ASSUME NEW todo, NEW missing, NEW pc,
                   proc' = [proc EXCEPT ![w].pc = pc, ![w].todo = todo, ![w].missing = missing]
            PROVE  proc'[w].queue = proc[w].queue
        BY <1>0, <4>1 DEF Process
      <4>2. ASSUME NEW todo, NEW missing,
                   proc' = [proc EXCEPT ![w].todo = todo, ![w].missing = missing]
            PROVE  proc'[w].queue = proc[w].queue
        BY <1>0, <4>2 DEF Process
      <4>3. \/ \E a \in proc[w].todo :
                  proc' = [proc EXCEPT ![w].todo = @ \ {a},
                                       ![w].missing = IF HasHistory(a) THEN @ ELSE @ \cup {a}]
            \/ proc' = [proc EXCEPT ![w].pc = IF proc[w].missing = {} THEN "refresh" ELSE "asset",
                                    ![w].todo = proc[w].missing, ![w].missing = {}]
        BY <3>3 DEF CheckHistory
      <4> QED BY <4>1, <4>2, <4>3
    <3> QED BY <1>1, <3>1, <3>2, <3>3
  <2> QED BY <2>1 DEF OwnRows
<1>2. CASE FetchHistory(w)
  <2>1. CASE Goto(w, "refresh")
    <3>1. proc'[w].queue = proc[w].queue
      BY <1>0, <2>1 DEF Goto, Process
    <3> QED BY <3>1 DEF OwnRows
  <2>2. ASSUME NEW a \in proc[w].todo, NEW p \in Prices, NEW q \in Prices,
               NEW queue \in {<<>>, Simulated(w, a, p), Bars(w, a, q) \o Simulated(w, a, p)},
               NEW pc, NEW todo,
               proc' = [proc EXCEPT ![w].pc = pc, ![w].todo = todo, ![w].queue = queue]
        PROVE  OwnRows(proc'[w])
    <3>1. /\ Simulated(w, a, p) \in Seq(Tick) /\ Bars(w, a, q) \in Seq(Tick)
      BY <1>0, BarsType DEF Process
    <3>2. /\ \A i \in DOMAIN Simulated(w, a, p) : Simulated(w, a, p)[i].source # "seed_demo"
          /\ \A i \in DOMAIN Bars(w, a, q) : Bars(w, a, q)[i].source # "seed_demo"
      BY DEF Simulated, Bars, TickOf
    <3>3. \A i \in DOMAIN queue : queue[i].source # "seed_demo"
      <4>1. CASE queue = Bars(w, a, q) \o Simulated(w, a, p)
        <5> DEFINE B == Bars(w, a, q)
                   S == Simulated(w, a, p)
        <5>1. ASSUME NEW i \in DOMAIN (B \o S) PROVE (B \o S)[i].source # "seed_demo"
          <6>1. B \in Seq(Tick) /\ S \in Seq(Tick)
            BY <3>1
          <6>2. /\ \A j \in DOMAIN S : S[j].source # "seed_demo"
                /\ \A j \in DOMAIN B : B[j].source # "seed_demo"
            BY <3>2
          <6> HIDE DEF B, S
          <6>3. (i \in DOMAIN B /\ (B \o S)[i] = B[i]) \/ (i - Len(B) \in DOMAIN S /\ (B \o S)[i] = S[i - Len(B)])
            BY <6>1
          <6> QED BY <6>2, <6>3
        <5> QED BY <4>1, <5>1
      <4>2. CASE queue \in {<<>>, Simulated(w, a, p)}
        BY <3>2, <4>2
      <4> QED BY <4>1, <4>2
    <3>4. proc'[w].queue = queue
      BY <1>0, <2>2 DEF Process
    <3> QED BY <3>3, <3>4 DEF OwnRows
  <2>3. CASE \E a \in proc[w].todo, p, q \in Prices :
               \E queue \in {<<>>, Simulated(w, a, p), Bars(w, a, q) \o Simulated(w, a, p)} :
                 proc' = [proc EXCEPT ![w].pc = IF queue = <<>> THEN "asset" ELSE "backfill",
                                      ![w].todo = @ \ {a}, ![w].queue = queue]
    <3>1. PICK a \in proc[w].todo, p \in Prices, q \in Prices :
            \E queue \in {<<>>, Simulated(w, a, p), Bars(w, a, q) \o Simulated(w, a, p)} :
              proc' = [proc EXCEPT ![w].pc = IF queue = <<>> THEN "asset" ELSE "backfill",
                                   ![w].todo = @ \ {a}, ![w].queue = queue]
      BY <2>3
    <3>2. PICK queue \in {<<>>, Simulated(w, a, p), Bars(w, a, q) \o Simulated(w, a, p)} :
            proc' = [proc EXCEPT ![w].pc = IF queue = <<>> THEN "asset" ELSE "backfill",
                                 ![w].todo = proc[w].todo \ {a}, ![w].queue = queue]
      BY <3>1
    <3> QED BY <2>2, <3>2
  <2> QED BY <1>2, <2>1, <2>3 DEF FetchHistory
<1>3. CASE Insert(w)
  <2>1. CASE Continue(w, Tail(proc[w].queue))
    <3>1. proc'[w].queue = Tail(proc[w].queue)
      BY <1>0, <2>1 DEF Continue, Process
    <3>2. proc[w].queue # <<>>
      BY <1>3, ProcOf DEF Insert, Processes
    <3>3. \A i \in DOMAIN Tail(proc[w].queue) :
            i + 1 \in DOMAIN proc[w].queue /\ Tail(proc[w].queue)[i] = proc[w].queue[i + 1]
      BY <1>0, <3>2
    <3> QED BY <3>1, <3>3 DEF OwnRows
  <2>2. CASE Continue(w, <<>>)
    <3>1. proc'[w].queue = <<>>
      BY <1>0, <2>2 DEF Continue, Process
    <3> QED BY <3>1 DEF OwnRows
  <2> QED BY <1>3, <2>1, <2>2 DEF Insert
<1>4. CASE FetchPrice(w)
  <2>1. ASSUME NEW a \in proc[w].todo, NEW p \in Prices,
               proc' = [proc EXCEPT ![w].pc = "insert", ![w].todo = @ \ {a},
                                    ![w].queue = <<TickOf(w, a, now, p, "live")>>]
        PROVE  OwnRows(proc'[w])
    <3>1. proc'[w].queue = <<TickOf(w, a, now, p, "live")>>
      BY <1>0, <2>1 DEF Process
    <3>2. TickOf(w, a, now, p, "live").source # "seed_demo"
      BY DEF TickOf
    <3> QED BY <3>1, <3>2 DEF OwnRows
  <2>2. ASSUME NEW todo, proc' = [proc EXCEPT ![w].todo = todo] PROVE OwnRows(proc'[w])
    <3>1. proc'[w].queue = proc[w].queue
      BY <1>0, <2>2 DEF Process
    <3> QED BY <3>1 DEF OwnRows
  <2>3. CASE \E a \in proc[w].todo : proc' = [proc EXCEPT ![w].todo = @ \ {a}]
    <3>1. PICK a : proc' = [proc EXCEPT ![w].todo = proc[w].todo \ {a}]
      BY <2>3
    <3> QED BY <2>2, <3>1
  <2> QED BY <1>4, <2>1, <2>2, <2>3 DEF FetchPrice
<1>5. CASE RestartFeed(w)
  BY <1>0, <1>5 DEF RestartFeed, Fresh, OwnRows
<1> QED BY <1>1, <1>2, <1>3, <1>4, <1>5 DEF Feed

LEMMA NextFeedsKnown ==
  ASSUME MarketAssumption
  PROVE  Inv /\ FeedsKnown /\ [Next]_vars => FeedsKnown'
<1> SUFFICES ASSUME Inv, FeedsKnown, [Next]_vars, NEW v \in Feeds PROVE OwnRows(proc'[v])
  BY DEF FeedsKnown
<1>0. proc \in [Processes -> Process] /\ v \in Processes /\ OwnRows(proc[v])
  BY ProcOf DEF Processes, FeedsKnown
<1>1. ASSUME NEW w \in Feeds, Feed(w) \/ RestartFeed(w) PROVE OwnRows(proc'[v])
  <2>1. CASE v = w
    BY <1>0, <1>1, <2>1, FeedOwnRows
  <2>2. CASE v # w
    <3>1. proc'[v] = proc[v]
      BY <1>0, <1>1, <2>2 DEF Feed, GetAssets, CheckHistory, FetchHistory, Insert, Continue,
         RefreshAggregates, FetchPrice, RestartFeed, Goto
    <3> QED BY <1>0, <3>1
  <2> QED BY <2>1, <2>2
<1>2. ASSUME NEW w \in Seeders, Seeder(w) \/ EndSeeder(w) PROVE OwnRows(proc'[v])
  <2>1. v # w
    BY MarketAssumption DEF MarketAssumption
  <2>2. proc'[v] = proc[v]
    BY <1>0, <1>2, <2>1 DEF Seeder, Truncate, Clear, CommitReset, KeepRows, Generate, InsertSeries,
       RefreshAggregate, RefreshFails, EndSeeder, Goto
  <2> QED BY <1>0, <2>2
<1>3. CASE RefreshPolicy \/ Clock \/ UNCHANGED vars
  BY <1>0, <1>3 DEF RefreshPolicy, Clock, vars
<1> QED BY <1>1, <1>2, <1>3 DEF Next

LEMMA NextSeedKept ==
  ASSUME MarketAssumption
  PROVE  OneSeeder /\ Inv /\ FeedsKnown /\ SeedKept /\ [Next]_vars => SeedKept'
<1> SUFFICES ASSUME OneSeeder, Inv, FeedsKnown, SeedKept, [Next]_vars,
                    NEW s \in Seeders, NEW r \in rows', proc'[s].pc = "done", r.source = "seed_demo"
             PROVE  r \in daily'
  BY DEF SeedKept
<1>0. proc \in [Processes -> Process] /\ s \in Processes
  BY ProcOf DEF Processes
<1>1. ASSUME NEW w \in Feeds, Feed(w) \/ RestartFeed(w) PROVE r \in daily'
  <2>1. s # w
    BY MarketAssumption DEF MarketAssumption
  <2>2. proc'[s] = proc[s]
    BY <1>0, <1>1, <2>1 DEF Feed, GetAssets, CheckHistory, FetchHistory, Insert, Continue,
       RefreshAggregates, FetchPrice, RestartFeed, Goto
  <2>3. r \in rows
    <3>1. CASE Insert(w)
      <4>1. proc[w].queue \in Seq(Tick) /\ proc[w].queue # <<>> /\ OwnRows(proc[w])
        BY <3>1, ProcOf DEF Insert, Processes, FeedsKnown
      <4>2. Head(proc[w].queue).source # "seed_demo"
        BY <4>1 DEF OwnRows
      <4>3. rows' = rows \/ rows' = rows \cup {Head(proc[w].queue)}
        BY <3>1 DEF Insert, Store, NoStore
      <4> QED BY <4>2, <4>3
    <3>2. CASE ~Insert(w)
      BY <1>1, <3>2 DEF Feed, GetAssets, CheckHistory, FetchHistory, RefreshAggregates, FetchPrice,
         RestartFeed, NoStore
    <3> QED BY <3>1, <3>2
  <2>4. daily' = daily
    BY <1>1 DEF Feed, GetAssets, CheckHistory, FetchHistory, Insert, RefreshAggregates, FetchPrice,
       RestartFeed
  <2> QED BY <2>2, <2>3, <2>4 DEF SeedKept
<1>2. ASSUME NEW w \in Seeders, Seeder(w) \/ EndSeeder(w) PROVE r \in daily'
  <2>1. s = w
    BY DEF OneSeeder
  <2>2. CASE RefreshAggregate(w)
    BY <2>2 DEF RefreshAggregate, NoStore
  <2>3. CASE ~RefreshAggregate(w)
    <3>0. proc[w] \in Process /\ w \in Processes
      BY ProcOf DEF Processes
    <3>1. proc'[w].pc # "done"
      <4>1. CASE Truncate(w) \/ Clear(w) \/ CommitReset(w) \/ KeepRows(w)
        BY <1>0, <3>0, <4>1 DEF Truncate, Clear, CommitReset, KeepRows, Goto, Process
      <4>2. CASE Generate(w)
        <5>1. CASE Goto(w, "refresh")
          BY <1>0, <3>0, <5>1 DEF Goto, Process
        <5>2. ASSUME NEW todo, NEW queue,
                     proc' = [proc EXCEPT ![w].pc = "series", ![w].todo = todo, ![w].queue = queue]
              PROVE  proc'[w].pc # "done"
          BY <1>0, <3>0, <5>2 DEF Process
        <5>3. CASE \E a \in proc[w].todo, p, q \in Prices :
                     proc' = [proc EXCEPT ![w].pc = "series", ![w].todo = @ \ {a},
                                          ![w].queue = Series(w, a, p, q)]
          <6>1. PICK a \in proc[w].todo, p \in Prices, q \in Prices :
                  proc' = [proc EXCEPT ![w].pc = "series", ![w].todo = proc[w].todo \ {a},
                                       ![w].queue = Series(w, a, p, q)]
            BY <5>3
          <6> QED BY <5>2, <6>1
        <5> QED BY <4>2, <5>1, <5>3 DEF Generate
      <4>3. CASE InsertSeries(w)
        BY <1>0, <3>0, <4>3 DEF InsertSeries, Process
      <4>4. CASE EndSeeder(w)
        BY <1>0, <3>0, <4>4 DEF EndSeeder, Fresh
      <4>5. CASE RefreshFails(w)
        BY <1>0, <3>0, <4>5 DEF RefreshFails, Goto, Process
      <4> QED BY <1>2, <2>3, <4>1, <4>2, <4>3, <4>4, <4>5 DEF Seeder
    <3> QED BY <2>1, <3>1
  <2> QED BY <2>2, <2>3
<1>3. CASE RefreshPolicy
  <2>1. r \in rows /\ proc' = proc
    BY <1>3 DEF RefreshPolicy, NoStore
  <2>2. r \in daily
    BY <2>1 DEF SeedKept
  <2> QED BY <1>3, <2>1, <2>2 DEF RefreshPolicy
<1>4. CASE Clock \/ UNCHANGED vars
  BY <1>4 DEF Clock, NoStore, vars, SeedKept
<1> QED BY <1>1, <1>2, <1>3, <1>4 DEF Next

-----------------------------------------------------------------------------
(* Theorems *)

LEMMA Invariance == ASSUME MarketAssumption PROVE Spec => []Inv
BY InitInv, StepInv, PTL DEF Spec

\* Rows, cache and every process of the two scripts keep their types.
THEOREM MarketTypes == ASSUME MarketAssumption PROVE Spec => []TypeOK
<1>1. Inv => TypeOK
  BY DEF Inv
<1> QED BY <1>1, Invariance, PTL

\* fn_update_latest_price_cache and the reset of seed_demo together: latest_prices_cache
\* shows a newest tick of every asset that has one and nothing else, for any number of
\* feeds and seeders.
THEOREM CacheIsRight == ASSUME MarketAssumption PROVE Spec => []CacheShowsNewest
<1>1. Inv => CacheShowsNewest
  BY DEF Inv
<1> QED BY <1>1, Invariance, PTL

\* What get_price_history draws for a day ends at the price in the cache, also when the
\* last day has no tick.
THEOREM DayChartIsRight == ASSUME MarketAssumption PROVE Spec => []DayChartEndsAtQuote
<1>1. Inv => DayChartEndsAtQuote
  <2> SUFFICES ASSUME Inv, NEW a \in Assets, Of(rows, a) # {}
               PROVE  \E r \in Newest(DayChart(a)) : cache[a] = [time |-> r.time, price |-> r.price]
    BY DEF DayChartEndsAtQuote
  <2>1. PICK r \in Newest(Of(rows, a)) : cache[a] = [time |-> r.time, price |-> r.price]
    BY DEF Inv, CacheShowsNewest
  <2>2. /\ r \in Of(rows, a) /\ now - Day \in Int
        /\ \A s \in Of(rows, a) : s.time \in Int /\ s.time <= r.time
    <3>1. now \in Int /\ Day \in Int
      BY MarketAssumption DEF Inv, TypeOK, MarketAssumption
    <3>2. \A s \in Of(rows, a) : s \in Tick
      BY DEF Inv, TypeOK, Of
    <3> QED BY <2>1, <3>1, <3>2 DEF Newest, Tick
  <2>3. CASE Recent(a) = {}
    <3>1. r \in Newest(DayChart(a))
      BY <2>1, <2>2, <2>3 DEF DayChart, Newest
    <3> QED BY <2>1, <3>1
  <2>4. CASE Recent(a) # {}
    <3>1. r \in Recent(a)
      BY <2>2, <2>4 DEF Recent
    <3>2. r \in Newest(DayChart(a))
      BY <2>2, <2>4, <3>1 DEF DayChart, Newest, Recent
    <3> QED BY <2>1, <3>2
  <2> QED BY <2>3, <2>4
<1> QED BY <1>1, Invariance, PTL

\* When seed_demo has ended and its refresh has not failed (a failure is only logged), the
\* OHLC chart has every day it has inserted, beside any number of feeds and through every
\* later run of the policy, as long as no second seed_demo runs.
THEOREM SeedIsShown == ASSUME MarketAssumption, \A v, w \in Seeders : v = w PROVE Spec => []SeedShown
<1>0. OneSeeder
  BY DEF OneSeeder
<1>1. Inv /\ SeedKept => SeedShown
  <2> SUFFICES ASSUME Inv, SeedKept, NEW w \in Seeders, NEW r \in rows, proc[w].pc = "done",
                      r.source = "seed_demo", Bucket(r.time) >= now - Depth * Day
               PROVE  Bucket(r.time) \in Chart(r.asset, Depth)
    BY DEF SeedShown
  <2>1. r \in Of(daily, r.asset)
    BY DEF SeedKept, Of
  <2> QED BY <2>1 DEF Chart
<1>2. Inv /\ FeedsKnown /\ SeedKept /\ [Next]_vars => SeedKept'
  BY <1>0, NextSeedKept
<1> QED BY <1>1, <1>2, InitSeed, NextFeedsKnown, Invariance, PTL DEF Spec
=============================================================================
