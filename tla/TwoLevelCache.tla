---------------------------- MODULE TwoLevelCache ----------------------------
(***************************************************************************)
(* The two-level cache (src/backend/app/infrastructure/cache/              *)
(* multi_level_cache.py, MultiLevelCache, over src/backend/app/core/       *)
(* cache.py, CacheManager).                                                *)
(*                                                                         *)
(* Every server process has a cache of its own, in front of one Redis that *)
(* they share.  get, set and delete run without suspending and make one    *)
(* call to Redis, so each is one action; delete_pattern makes two, and     *)
(* other processes run between them.  The calls of a cache's users that    *)
(* load data suspend while they load: that is where a process interleaves  *)
(* with itself.  Redis may fail at any call; CacheManager hides it.        *)
(***************************************************************************)
EXTENDS LruCache

CONSTANTS
  Processes,    \* server processes, each with its cache
  Callers,      \* calls that load data and store it in a cache
  Patterns,     \* the sets of keys that delete_pattern is called for
  L1TTL,        \* l1_ttl (60 s)
  Lifetimes,    \* the times to live that the calls which store a key may give
  MaxTime,      \* bound of the clock
  MaxVersion    \* bound of the changes of the data

\* In the first level and in Redis; what a call leaves out is l1_ttl or l2_ttl.
Lifetime == [l1 : Nat \ {0}, l2 : Nat \ {0}]

ASSUME CacheAssumption ==
  /\ L1TTL \in Nat \ {0}
  /\ Lifetimes \in [Keys -> SUBSET Lifetime]
  /\ MaxTime \in Nat /\ MaxVersion \in Nat
  /\ Patterns \subseteq SUBSET Keys

Versions == 0 .. MaxVersion
Times == 0 .. MaxTime
Entries == [value : Versions, stored : Times, lifetime : Lifetime, expiry : Nat]
Loads == [at : Processes, key : Keys, marks : BOOLEAN, value : Versions \cup {None}]
Scans == [found : SUBSET Keys, goal : [Keys -> Versions]]

ASSUME NoneAssumption == None \notin Entries \cup Loads \cup Scans

VARIABLES
  now,        \* time.time()
  data,       \* data[k]: the version of what a loader of k would read
  l1,         \* l1[p]: l1_cache of a process
  l2,         \* l2[k]: what Redis holds
  warming,    \* warming[p]: _warm_cache_tasks
  call,       \* call[c]: a load under way, or None
  scan,       \* scan[p]: a delete_pattern between its two calls to Redis, or None
  floor       \* floor[p][k]: versions below this were deleted through p (history)

vars == <<now, data, l1, l2, warming, call, scan, floor>>

-----------------------------------------------------------------------------
Live(entry) == entry # None /\ entry.expiry > now

\* When it was stored and for how long is kept as history.
Entry(value, stored, lifetime, ttl) ==
  [value |-> value, stored |-> stored, lifetime |-> lifetime, expiry |-> now + ttl]

\* delete_pattern blocks the event loop of its process.
Runs(p) == scan[p] = None

\* Versions of k that a load under way has read, and the one it would read now.
Underway(k) ==
  {call[c].value : c \in {d \in Callers : call[d] # None /\ call[d].key = k /\ call[d].value # None}}

Oldest(k) ==
  CHOOSE v \in Underway(k) \cup {data[k]} : \A w \in Underway(k) \cup {data[k]} : v <= w

-----------------------------------------------------------------------------
Init ==
  /\ now = 0
  /\ data = [k \in Keys |-> 0]
  /\ l1 = [p \in Processes |-> LruEmpty]
  /\ l2 = [k \in Keys |-> None]
  /\ warming = [p \in Processes |-> {}]
  /\ call = [c \in Callers |-> None]
  /\ scan = [p \in Processes |-> None]
  /\ floor = [p \in Processes |-> [k \in Keys |-> 0]]

\* Time passes, and Redis drops what has expired.
Tick ==
  /\ now < MaxTime
  /\ now' = now + 1
  /\ l2' = [k \in Keys |-> IF l2[k] # None /\ l2[k].expiry <= now + 1 THEN None ELSE l2[k]]
  /\ UNCHANGED <<data, l1, warming, call, scan, floor>>

\* Somebody changes the data behind a key.  Versions number the changes.
Latest == CHOOSE v \in {data[k] : k \in Keys} : \A k \in Keys : data[k] <= v

Change(k) ==
  /\ Latest < MaxVersion
  /\ data' = [data EXCEPT ![k] = Latest + 1]
  /\ UNCHANGED <<now, l1, l2, warming, call, scan, floor>>

-----------------------------------------------------------------------------
(* get.                                                                    *)

GetL1(p, k) ==
  /\ Runs(p)
  /\ Live(l1[p].entries[k])
  /\ l1' = [l1 EXCEPT ![p] = LruTouch(@, k)]
  /\ UNCHANGED <<now, data, l2, warming, call, scan, floor>>

\* Found in Redis and promoted, with the default time to live of the first level
\* in full, whatever the value was stored with and however little it has left.
\* An expired entry of the first level has been dropped before.
Promoted(p, k) ==
  LruPut(LruDrop(l1[p], k), k, Entry(l2[k].value, l2[k].stored, l2[k].lifetime, L1TTL))

GetL2_Bug(p, k) ==
  /\ Runs(p)
  /\ ~Live(l1[p].entries[k])
  /\ l2[k] # None
  /\ l1' = [l1 EXCEPT ![p] = Promoted(p, k)]
  /\ l2' = [l2 EXCEPT ![k].expiry = now + l2[k].lifetime.l2]
  /\ UNCHANGED <<now, data, warming, call, scan, floor>>
GetL2(p, k) ==
  /\ Runs(p)
  /\ ~Live(l1[p].entries[k])
  /\ l2[k] # None
  /\ l1' = [l1 EXCEPT ![p] = Promoted(p, k)]
  /\ UNCHANGED <<now, data, l2, warming, call, scan, floor>>

\* Redis does not have it either, or fails.
GetMiss(p, k) ==
  /\ Runs(p)
  /\ ~Live(l1[p].entries[k])
  /\ l1' = [l1 EXCEPT ![p] = LruDrop(@, k)]
  /\ UNCHANGED <<now, data, l2, warming, call, scan, floor>>

-----------------------------------------------------------------------------
(* Loads: warm_cache, which marks the key it loads, and the callers that   *)
(* load and then call set, as CacheWarmer does.  A warm_cache that finds   *)
(* the mark sleeps and then is a get like any other.                       *)

StartWarm_Bug(c, p, k) ==
  /\ Runs(p)
  /\ call[c] = None
  /\ warming' = [warming EXCEPT ![p] = @ \cup {k}]
  /\ call' = [call EXCEPT ![c] = [at |-> p, key |-> k, marks |-> TRUE, value |-> None]]
  /\ UNCHANGED <<now, data, l1, l2, scan, floor>>
StartWarm(c, p, k) ==
  /\ Runs(p)
  /\ call[c] = None
  /\ k \notin warming[p]
  /\ warming' = [warming EXCEPT ![p] = @ \cup {k}]
  /\ call' = [call EXCEPT ![c] = [at |-> p, key |-> k, marks |-> TRUE, value |-> None]]
  /\ UNCHANGED <<now, data, l1, l2, scan, floor>>

\* Without a mark nothing shows that a load has begun before its query runs.
StartLoad(c, p, k) ==
  /\ Runs(p)
  /\ call[c] = None
  /\ call' = [call EXCEPT ![c] = [at |-> p, key |-> k, marks |-> FALSE, value |-> data[k]]]
  /\ UNCHANGED <<now, data, l1, l2, warming, scan, floor>>

\* The query of a marked load runs.
Read(c) ==
  /\ call[c] # None
  /\ call[c].value = None
  /\ call' = [call EXCEPT ![c].value = data[call[c].key]]
  /\ UNCHANGED <<now, data, l1, l2, warming, scan, floor>>

\* The finally of warm_cache.
Unmarked(c) ==
  IF call[c].marks THEN [warming EXCEPT ![call[c].at] = @ \ {call[c].key}] ELSE warming

\* set: the first level, and Redis unless the caller wants the first level
\* only.  Each has the caller's time to live, or the default if it gives none.
\* Redis fails without notice.
Store(c) ==
  LET p == call[c].at
      k == call[c].key
  IN  /\ call[c] # None
      /\ call[c].value # None
      /\ Runs(p)
      /\ \E lifetime \in Lifetimes[k] :
           /\ l1' = [l1 EXCEPT ![p] = LruPut(@, k, Entry(call[c].value, now, lifetime, lifetime.l1))]
           /\ \/ l2' = [l2 EXCEPT ![k] = Entry(call[c].value, now, lifetime, lifetime.l2)]
              \/ UNCHANGED l2
      /\ warming' = Unmarked(c)
      /\ call' = [call EXCEPT ![c] = None]
      /\ UNCHANGED <<now, data, scan, floor>>

\* The loader raises, or has nothing to store.
LoadEnds(c) ==
  /\ call[c] # None
  /\ Runs(call[c].at)
  /\ warming' = Unmarked(c)
  /\ call' = [call EXCEPT ![c] = None]
  /\ UNCHANGED <<now, data, l1, l2, scan, floor>>

-----------------------------------------------------------------------------
(* delete and delete_pattern.                                              *)

Delete_Bug(p, k) ==
  /\ Runs(p)
  /\ l2' = [l2 EXCEPT ![k] = None]
  /\ floor' = [floor EXCEPT ![p][k] = Oldest(k)]
  /\ UNCHANGED <<now, data, l1, warming, call, scan>>
Delete(p, k) ==
  /\ Runs(p)
  /\ l1' = [l1 EXCEPT ![p] = LruDrop(@, k)]
  /\ l2' = [l2 EXCEPT ![k] = None]
  /\ floor' = [floor EXCEPT ![p][k] = Oldest(k)]
  /\ UNCHANGED <<now, data, warming, call, scan>>

\* Redis fails, and the caller is told what it is told of a missing key.
DeleteL1Only(p, k) ==
  /\ Runs(p)
  /\ l1' = [l1 EXCEPT ![p] = LruDrop(@, k)]
  /\ UNCHANGED <<now, data, l2, warming, call, scan, floor>>

\* The keys of the first level go, and Redis is asked for its own.
ScanPattern(p, pattern) ==
  /\ Runs(p)
  /\ l1' = [l1 EXCEPT ![p] = LruDropAll(@, pattern)]
  /\ scan' = [scan EXCEPT ![p] =
       [found |-> {k \in pattern : l2[k] # None},
        goal  |-> [k \in Keys |-> IF k \in pattern THEN Oldest(k) ELSE floor[p][k]]]]
  /\ UNCHANGED <<now, data, l2, warming, call, floor>>

DeleteFound(p) ==
  /\ scan[p] # None
  /\ l2' = [k \in Keys |-> IF k \in scan[p].found THEN None ELSE l2[k]]
  /\ floor' = [floor EXCEPT ![p] = scan[p].goal]
  /\ scan' = [scan EXCEPT ![p] = None]
  /\ UNCHANGED <<now, data, l1, warming, call>>

\* Redis fails at one of the two calls.
PatternFails(p) ==
  /\ scan[p] # None
  /\ scan' = [scan EXCEPT ![p] = None]
  /\ UNCHANGED <<now, data, l1, l2, warming, call, floor>>

\* The process restarts: its first level, its marks and its calls are gone.
Restart(p) ==
  /\ l1' = [l1 EXCEPT ![p] = LruEmpty]
  /\ warming' = [warming EXCEPT ![p] = {}]
  /\ call' = [c \in Callers |-> IF call[c] # None /\ call[c].at = p THEN None ELSE call[c]]
  /\ scan' = [scan EXCEPT ![p] = None]
  /\ UNCHANGED <<now, data, l2, floor>>

Next ==
  \/ Tick
  \/ \E k \in Keys : Change(k)
  \/ \E p \in Processes :
       \/ \E k \in Keys :
            \/ GetL1(p, k) \/ GetL2(p, k) \/ GetMiss(p, k)
            \/ Delete(p, k) \/ DeleteL1Only(p, k)
            \/ \E c \in Callers : StartWarm(c, p, k) \/ StartLoad(c, p, k)
       \/ \E pattern \in Patterns : ScanPattern(p, pattern)
       \/ DeleteFound(p) \/ PatternFails(p) \/ Restart(p)
  \/ \E c \in Callers : Read(c) \/ Store(c) \/ LoadEnds(c)

Spec == Init /\ [][Next]_vars

-----------------------------------------------------------------------------
(* Properties.                                                             *)

\* The keys that are there never exceed what fits, and the order of use is a
\* total order of exactly those, so that there always is a first to make room
\* from: get, set, promotion, expiry and deletes all keep it so (101-131).
LruConsistent == \A p \in Processes : LruInOrder(l1[p])

\* However values are promoted, evicted and promoted again, each is gone from
\* Redis when the time it was stored with has passed, and from a first level when
\* its time there has, or, if it was promoted, less than the default time of the
\* first level after it was gone from Redis: reading never prolongs a value
\* further (101-111, 115, 195-206, 239-249).
AgeBounded ==
  \A k \in Keys :
    /\ l2[k] # None => l2[k].expiry <= l2[k].stored + l2[k].lifetime.l2
    /\ \A p \in Processes :
         LET Found == l1[p].entries[k]
         IN  Found # None =>
               \/ Found.expiry <= Found.stored + Found.lifetime.l1
               \/ Found.expiry < Found.stored + Found.lifetime.l2 + L1TTL

\* Once a delete through a process has reached Redis, that process never again
\* finds a version older than what was current then, but for those that loads
\* under way had read: whatever other processes still hold in their first
\* levels (257-293).
FreshAfterDelete ==
  \A p \in Processes, k \in Keys :
    /\ l1[p].entries[k] # None => l1[p].entries[k].value >= floor[p][k]
    /\ l2[k] # None => l2[k].value >= floor[p][k]

\* "Prevents cache stampede by ensuring only one loader runs per key" (311):
\* in a process no two calls of warm_cache load the same key, and a key is marked
\* exactly while one of them does, through failures and restarts (313-328).
OneLoaderPerKey ==
  \A p \in Processes :
    LET Loading == {c \in Callers : call[c] # None /\ call[c].at = p /\ call[c].marks}
    IN  /\ warming[p] = {call[c].key : c \in Loading}
        /\ \A c, d \in Loading : call[c].key = call[d].key => c = d
=============================================================================
