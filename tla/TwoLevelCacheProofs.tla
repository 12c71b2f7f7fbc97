------------------------ MODULE TwoLevelCacheProofs ------------------------
(***************************************************************************)
(* Proofs about TwoLevelCache, for any processes, keys, patterns, callers, *)
(* capacity and times to live.                                             *)
(***************************************************************************)
EXTENDS TwoLevelCache, FiniteSetTheorems, WellFoundedInduction, TLAPS

MaybeEntry == Entries \cup {None}

\* The entries of a first level and their order.
LruTyped(c) ==
  /\ c = [entries |-> c.entries, older |-> c.older]
  /\ c.entries \in [Keys -> MaybeEntry]
  /\ c.older \in [Keys -> SUBSET Keys]

LruFits(c) == IsFiniteSet(LruKeys(c)) /\ Cardinality(LruKeys(c)) <= Capacity

\* The order is one of the keys that are there, but for those in but.
LruOrdered(c, but) ==
  LET There == LruKeys(c)
      Older(k) == c.older[k] \ but
  IN  /\ \A k \in Keys \ but : Older(k) \subseteq There \ {k} /\ (k \notin There => Older(k) = {})
      /\ \A j, k \in There \ but : j \in Older(k) => Older(j) \subseteq Older(k)
      /\ \A j, k \in There \ but : j = k \/ j \in Older(k) \/ k \in Older(j)

LruShape(c) == LruTyped(c) /\ LruFits(c) /\ LruOrdered(c, {})

\* Every variable holds what its declaration says.
Typed ==
  /\ now \in Times
  /\ data \in [Keys -> Versions]
  /\ l1 = [p \in Processes |-> l1[p]] /\ \A p \in Processes : LruShape(l1[p])
  /\ l2 \in [Keys -> MaybeEntry]
  /\ warming \in [Processes -> SUBSET Keys]
  /\ call \in [Callers -> Loads \cup {None}]
  /\ scan \in [Processes -> Scans \cup {None}]
  /\ floor \in [Processes -> [Keys -> Versions]]

\* Redis holds nothing that has expired.
AgeInv == AgeBounded /\ \A k \in Keys : l2[k] # None => l2[k].expiry > now

\* b is a bound from below, for process p, of the versions it can find: the
\* data, what loads under way have read, what its first level holds, and what
\* Redis holds but for some keys.
Bounds(p, b, but) ==
  \A k \in Keys :
    /\ b[k] <= data[k]
    /\ \A v \in Underway(k) : b[k] <= v
    /\ l1[p].entries[k] # None => b[k] <= l1[p].entries[k].value
    /\ l2[k] # None /\ k \notin but => b[k] <= l2[k].value

\* What was deleted through p is a bound, and what a delete_pattern of p is
\* about to promise is one already, except for the keys it is about to delete.
FreshInv ==
  \A p \in Processes :
    /\ Bounds(p, floor[p], {})
    /\ scan[p] # None => Bounds(p, scan[p].goal, scan[p].found)

-----------------------------------------------------------------------------
(* Numbers.                                                                *)

LEMMA Least ==
  ASSUME NEW T \in SUBSET Nat, T # {}
  PROVE  \E x \in T : \A y \in T : x <= y
<1> DEFINE R == OpToRel(<, Nat)
<1>1. IsWellFoundedOn(R, Nat)
  BY NatLessThanWellFounded, Zenon
<1>2. \A x, y \in Nat : y < x => <<y, x>> \in R
  BY DEF OpToRel
<1> HIDE DEF R
<1>3. PICK x \in T : \A y \in T : ~(<<y, x>> \in R)
  BY <1>1, WFMin, Zenon
<1>4. ASSUME NEW y \in T PROVE x <= y
  <2>1. ~(y < x)
    BY <1>2, <1>3
  <2>. QED
    BY <2>1
<1>. QED
  BY <1>4

LEMMA Greatest ==
  ASSUME NEW n \in Nat, NEW T \in SUBSET (0 .. n), T # {}
  PROVE  \E x \in T : \A y \in T : y <= x
<1> DEFINE U == {n - t : t \in T}
<1>1. U \in SUBSET Nat /\ U # {}
  <2>1. \A t \in T : n - t \in Nat
    OBVIOUS
  <2>2. U \subseteq Nat
    BY <2>1
  <2>3. PICK t \in T : TRUE
    OBVIOUS
  <2>4. n - t \in U
    BY <2>3
  <2>. QED
    BY <2>2, <2>4
<1>2. (\A t \in T : n - t \in U) /\ (\A u \in U : \E t \in T : u = n - t)
  OBVIOUS
<1> HIDE DEF U
<1>3. PICK u \in U : \A v \in U : u <= v
  BY <1>1, Least
<1>4. PICK x \in T : u = n - x
  BY <1>2, <1>3
<1>5. ASSUME NEW y \in T PROVE y <= x
  <2>1. n - x <= n - y
    BY <1>2, <1>3, <1>4
  <2>. QED
    BY <2>1
<1>. QED
  BY <1>5

-----------------------------------------------------------------------------
(* The first level.                                                        *)

LEMMA LruEmptyFacts == LruShape(LruEmpty) /\ \A k \in Keys : LruEmpty.entries[k] = None
<1>1. LruTyped(LruEmpty) /\ \A k \in Keys : LruEmpty.entries[k] = None /\ LruEmpty.older[k] = {}
  BY DEF LruEmpty, LruTyped, MaybeEntry
<1>2. LruKeys(LruEmpty) = {}
  BY <1>1 DEF LruKeys
<1>3. LruFits(LruEmpty)
  BY <1>2, FS_EmptySet, CapacityAssumption DEF LruFits
<1>4. LruOrdered(LruEmpty, {})
  BY <1>1, <1>2 DEF LruOrdered
<1>. QED
  BY <1>1, <1>3, <1>4 DEF LruShape

\* Using a key that is there makes it the last.
LEMMA LruTouchOrders ==
  ASSUME NEW c, NEW k \in LruKeys(c), LruTyped(c), LruFits(c), LruOrdered(c, {k})
  PROVE  LruShape(LruTouch(c, k)) /\ LruTouch(c, k).entries = c.entries
<1> DEFINE older == [j \in Keys |-> IF j = k THEN LruKeys(c) \ {k} ELSE c.older[j] \ {k}]
           d == LruTouch(c, k)
<1>1. c = [entries |-> c.entries, older |-> c.older] /\ d = [c EXCEPT !.older = older]
  BY DEF LruTouch, LruTyped
<1>2. older \in [Keys -> SUBSET Keys]
  BY DEF LruTyped, LruKeys
<1> HIDE DEF older, d
<1>3. d = [entries |-> c.entries, older |-> older]
  BY <1>1
<1>4. LruTyped(d) /\ d.entries = c.entries /\ LruKeys(d) = LruKeys(c) /\ d.older = older
  BY <1>2, <1>3 DEF LruTyped, LruKeys
<1>5. LruFits(d)
  BY <1>4 DEF LruFits
<1>6. LruOrdered(d, {})
  <2>1. k \in Keys /\ LruKeys(c) \subseteq Keys
    BY DEF LruKeys
  <2>2. d.older[k] = LruKeys(c) \ {k} /\ \A j \in Keys \ {k} : d.older[j] = c.older[j] \ {k}
    BY <1>4, <2>1 DEF older
  <2>3. ASSUME NEW j \in Keys
        PROVE  d.older[j] \subseteq LruKeys(c) \ {j} /\ (j \notin LruKeys(c) => d.older[j] = {})
    BY <2>2 DEF LruOrdered
  <2>4. ASSUME NEW i \in LruKeys(c), NEW j \in LruKeys(c), i \in d.older[j]
        PROVE  d.older[i] \subseteq d.older[j]
    <3>1. i # k
      BY <2>1, <2>2, <2>4
    <3>2. CASE j = k
      BY <2>1, <2>2, <2>3, <3>1, <3>2
    <3>3. CASE j # k
      BY <2>1, <2>2, <2>4, <3>1, <3>3 DEF LruOrdered
    <3>. QED
      BY <3>2, <3>3
  <2>5. ASSUME NEW i \in LruKeys(c), NEW j \in LruKeys(c)
        PROVE  i = j \/ i \in d.older[j] \/ j \in d.older[i]
    BY <2>1, <2>2 DEF LruOrdered
  <2>. QED
    BY <1>4, <2>3, <2>4, <2>5 DEF LruOrdered
<1>. QED
  BY <1>4, <1>5, <1>6 DEF LruShape, d

LEMMA LruTouchFacts ==
  ASSUME NEW c, NEW k \in LruKeys(c), LruShape(c)
  PROVE  LruShape(LruTouch(c, k)) /\ LruTouch(c, k).entries = c.entries
<1>1. LruOrdered(c, {k})
  BY DEF LruShape, LruOrdered
<1>. QED
  BY <1>1, LruTouchOrders DEF LruShape

LEMMA LruDropAllFacts ==
  ASSUME NEW c, LruShape(c), NEW gone
  PROVE  /\ LruShape(LruDropAll(c, gone))
         /\ LruDropAll(c, gone).entries = [k \in Keys |-> IF k \in gone THEN None ELSE c.entries[k]]
         /\ LruKeys(LruDropAll(c, gone)) = LruKeys(c) \ gone
<1> DEFINE older == [k \in Keys |-> IF k \in gone THEN {} ELSE c.older[k] \ gone]
           entries == [k \in Keys |-> IF k \in gone THEN None ELSE c.entries[k]]
           d == LruDropAll(c, gone)
<1>1. d = [entries |-> entries, older |-> older]
  BY DEF LruDropAll
<1>2. entries \in [Keys -> MaybeEntry] /\ older \in [Keys -> SUBSET Keys]
  BY DEF LruShape, LruTyped, MaybeEntry
<1> HIDE DEF older, entries, d
<1>3. LruTyped(d) /\ d.entries = entries /\ d.older = older
  BY <1>1, <1>2 DEF LruTyped
<1>4. LruKeys(d) = LruKeys(c) \ gone
  BY <1>3 DEF LruKeys, entries
<1>5. LruFits(d)
  <2>1. /\ IsFiniteSet(LruKeys(d)) /\ IsFiniteSet(LruKeys(c))
        /\ Cardinality(LruKeys(d)) <= Cardinality(LruKeys(c))
    BY <1>4, FS_Subset DEF LruShape, LruFits
  <2>2. Cardinality(LruKeys(d)) \in Nat /\ Cardinality(LruKeys(c)) \in Nat /\ Capacity \in Nat
    BY <2>1, FS_CardinalityType, CapacityAssumption
  <2>. QED
    BY <2>1, <2>2 DEF LruShape, LruFits
<1>6. LruOrdered(d, {})
  <2>1. \A k \in Keys : d.older[k] = IF k \in gone THEN {} ELSE c.older[k] \ gone
    BY <1>3 DEF older
  <2>2. LruKeys(c) \subseteq Keys /\ LruKeys(d) \subseteq Keys \ gone
    BY <1>4 DEF LruKeys
  <2>3. /\ \A k \in Keys : c.older[k] \subseteq LruKeys(c) \ {k} /\ (k \notin LruKeys(c) => c.older[k] = {})
        /\ \A j, k \in LruKeys(c) : j \in c.older[k] => c.older[j] \subseteq c.older[k]
        /\ \A j, k \in LruKeys(c) : j = k \/ j \in c.older[k] \/ k \in c.older[j]
    BY DEF LruOrdered, LruShape
  <2>4. ASSUME NEW k \in Keys
        PROVE  d.older[k] \subseteq LruKeys(d) \ {k} /\ (k \notin LruKeys(d) => d.older[k] = {})
    <3>1. CASE k \in gone
      BY <2>1, <3>1
    <3>2. CASE k \notin gone
      <4>1. d.older[k] = c.older[k] \ gone
        BY <2>1, <3>2
      <4>2. c.older[k] \subseteq LruKeys(c) \ {k} /\ (k \notin LruKeys(c) => c.older[k] = {})
        BY <2>3
      <4>. QED
        BY <1>4, <3>2, <4>1, <4>2
    <3>. QED
      BY <3>1, <3>2
  <2>5. ASSUME NEW j \in LruKeys(d), NEW k \in LruKeys(d)
        PROVE  /\ j \in d.older[k] => d.older[j] \subseteq d.older[k]
               /\ j = k \/ j \in d.older[k] \/ k \in d.older[j]
    <3>1. /\ j \in LruKeys(c) \ gone /\ k \in LruKeys(c) \ gone
          /\ d.older[j] = c.older[j] \ gone /\ d.older[k] = c.older[k] \ gone
      BY <1>4, <2>1, <2>2
    <3>2. /\ j \in c.older[k] => c.older[j] \subseteq c.older[k]
          /\ j = k \/ j \in c.older[k] \/ k \in c.older[j]
      BY <2>3, <3>1
    <3>. QED
      BY <3>1, <3>2
  <2>. QED
    BY <2>4, <2>5 DEF LruOrdered
<1>. QED
  BY <1>3, <1>4, <1>5, <1>6 DEF LruShape, d, entries

LEMMA LruDropFacts ==
  ASSUME NEW c, LruShape(c), NEW k
  PROVE  /\ LruShape(LruDrop(c, k)) /\ LruDrop(c, k).entries = [c.entries EXCEPT ![k] = None]
         /\ LruKeys(LruDrop(c, k)) = LruKeys(c) \ {k}
<1>1. LruDrop(c, k) = LruDropAll(c, {k})
  BY DEF LruDrop
<1>2. c.entries \in [Keys -> MaybeEntry]
  BY DEF LruShape, LruTyped
<1>3. [j \in Keys |-> IF j \in {k} THEN None ELSE c.entries[j]] = [c.entries EXCEPT ![k] = None]
  BY <1>2
<1>. QED
  BY <1>1, <1>3, LruDropAllFacts

\* In a first level that is not empty one key was used before all others.
LEMMA LruFirstThere ==
  ASSUME NEW c, LruShape(c), LruKeys(c) # {}
  PROVE  LruFirst(c) \in LruKeys(c)
<1> DEFINE There == LruKeys(c)
           Before(k) == Cardinality(c.older[k])
           T == {Before(k) : k \in There}
<1>1. There \subseteq Keys /\ IsFiniteSet(There)
  BY DEF LruShape, LruFits, LruKeys
<1>2. ASSUME NEW k \in There PROVE IsFiniteSet(c.older[k]) /\ Before(k) \in Nat
  <2>1. c.older[k] \subseteq There
    BY <1>1 DEF LruShape, LruOrdered
  <2>2. IsFiniteSet(c.older[k])
    BY <1>1, <2>1, FS_Subset
  <2>. QED
    BY <2>2, FS_CardinalityType
<1>3. T \subseteq Nat /\ T # {}
  BY <1>2
<1> HIDE DEF Before
<1>4. PICK n \in T : \A m \in T : n <= m
  <2> HIDE DEF T
  <2>. QED
    BY <1>3, Least
<1>5. PICK k \in There : n = Before(k)
  BY <1>4
<1>6. ASSUME NEW j \in c.older[k] PROVE FALSE
  <2>1. /\ j \in There /\ j # k /\ c.older[j] \subseteq c.older[k] /\ j \notin c.older[j]
    BY <1>1, <1>5 DEF LruShape, LruOrdered
  <2>2. IsFiniteSet(c.older[k]) /\ Before(k) \in Nat /\ Before(j) \in Nat
    BY <1>2, <2>1
  <2>3. c.older[j] \subseteq c.older[k] \ {j}
    BY <2>1
  <2>4. IsFiniteSet(c.older[k] \ {j}) /\ Cardinality(c.older[k] \ {j}) = Before(k) - 1
    BY <2>2, FS_RemoveElement DEF Before
  <2>5. Before(j) <= Before(k) - 1
    BY <2>3, <2>4, FS_Subset DEF Before
  <2>6. Before(k) <= Before(j)
    BY <1>4, <1>5, <2>1
  <2>. QED
    BY <2>2, <2>5, <2>6
<1>. QED
  BY <1>6 DEF LruFirst

\* set puts its entry in, and loses at most others.
LEMMA LruPutFacts ==
  ASSUME NEW c, LruShape(c), NEW k \in Keys, NEW entry \in Entries
  PROVE  /\ LruShape(LruPut(c, k, entry))
         /\ LruPut(c, k, entry).entries[k] = entry
         /\ \A j \in Keys : j # k => LruPut(c, k, entry).entries[j] \in {c.entries[j], None}
<1> DEFINE room == LruRoom(c, k)
           entries == [room.entries EXCEPT ![k] = entry]
           put == [room EXCEPT !.entries[k] = entry]
           full == Cardinality(LruKeys(c)) >= Capacity /\ c.entries[k] = None
<1>0. /\ IsFiniteSet(LruKeys(c)) /\ Cardinality(LruKeys(c)) \in Nat /\ Capacity \in Nat \ {0}
      /\ Cardinality(LruKeys(c)) <= Capacity
  BY FS_CardinalityType, CapacityAssumption DEF LruShape, LruFits
\* Afterwards the key is there, or there is room for it.
<1>1. /\ LruShape(room) /\ \A j \in Keys : room.entries[j] \in {c.entries[j], None}
      /\ k \notin LruKeys(room) => Cardinality(LruKeys(room)) < Capacity
  <2>1. CASE ~full
    <3>1. room = c
      BY <2>1 DEF LruRoom
    <3>. QED
      BY <1>0, <2>1, <3>1 DEF LruKeys
  <2>2. CASE full
    <3> DEFINE x == LruFirst(c)
    <3>1. room = LruDrop(c, x)
      BY <2>2 DEF LruRoom
    <3>2. LruKeys(c) # {}
      BY <1>0, <2>2, FS_EmptySet
    <3>3. x \in LruKeys(c)
      BY <3>2, LruFirstThere
    <3> HIDE DEF room, x, full
    <3>4. LruShape(room) /\ room.entries = [c.entries EXCEPT ![x] = None] /\ LruKeys(room) = LruKeys(c) \ {x}
      BY <3>1, LruDropFacts
    <3>5. Cardinality(LruKeys(room)) = Cardinality(LruKeys(c)) - 1
      <4>1. Cardinality(LruKeys(c) \ {x}) = Cardinality(LruKeys(c)) - 1
        BY <1>0, <3>3, FS_RemoveElement
      <4>. QED
        BY <3>4, <4>1
    <3>6. DOMAIN c.entries = Keys
      BY DEF LruShape, LruTyped
    <3>. QED
      BY <1>0, <3>4, <3>5, <3>6
  <2>. QED
    BY <2>1, <2>2
<1>2. LruPut(c, k, entry) = LruTouch(put, k)
  BY DEF LruPut
<1> HIDE DEF room
<1>3. room = [entries |-> room.entries, older |-> room.older] /\ room.entries \in [Keys -> MaybeEntry]
      /\ room.older \in [Keys -> SUBSET Keys]
  BY <1>1 DEF LruShape, LruTyped
<1>4. put = [entries |-> entries, older |-> room.older]
  BY <1>3
<1>5. /\ entries \in [Keys -> MaybeEntry] /\ entries[k] = entry
      /\ \A j \in Keys : j # k => entries[j] = room.entries[j]
  BY <1>3 DEF MaybeEntry
<1>6. entry # None
  BY NoneAssumption
<1> HIDE DEF put, entries
<1>7. LruTyped(put) /\ put.entries = entries /\ put.older = room.older
  BY <1>3, <1>4, <1>5 DEF LruTyped
<1>8. LruKeys(put) = LruKeys(room) \cup {k}
  BY <1>5, <1>6, <1>7 DEF LruKeys
<1>9. LruFits(put)
  <2>1. IsFiniteSet(LruKeys(room)) /\ Cardinality(LruKeys(room)) \in Nat /\ Cardinality(LruKeys(room)) <= Capacity
    BY <1>1, FS_CardinalityType DEF LruShape, LruFits
  <2>2. IsFiniteSet(LruKeys(put))
        /\ Cardinality(LruKeys(put)) =
             IF k \in LruKeys(room) THEN Cardinality(LruKeys(room)) ELSE Cardinality(LruKeys(room)) + 1
    BY <1>8, <2>1, FS_AddElement
  <2>. QED
    BY <1>0, <1>1, <2>1, <2>2 DEF LruFits
<1>10. LruOrdered(put, {k})
  <2>1. LruOrdered(room, {})
    BY <1>1 DEF LruShape
  <2>. QED
    BY <1>7, <1>8, <2>1 DEF LruOrdered
<1>11. LruShape(LruTouch(put, k)) /\ LruTouch(put, k).entries = put.entries
  BY <1>7, <1>8, <1>9, <1>10, LruTouchOrders
<1>. QED
  BY <1>1, <1>2, <1>5, <1>7, <1>11

-----------------------------------------------------------------------------
(* What a step may do.                                                     *)

\* A load under way keeps its version and key; a version read now is current.
CallMoves ==
  \A c \in Callers :
    call'[c] # None /\ call'[c].value # None =>
      \/ call[c] # None /\ call'[c].value = call[c].value /\ call'[c].key = call[c].key
      \/ call'[c].value = data[call'[c].key]

DataMoves == \A k \in Keys : data[k] <= data'[k]

\* An entry of a first level was there, comes from Redis or from a load.
L1Moves ==
  \A p \in Processes, k \in Keys :
    l1'[p].entries[k] # None =>
      \/ l1'[p].entries[k] = l1[p].entries[k]
      \/ /\ Runs(p) /\ l2[k] # None
         /\ l1'[p].entries[k] = Entry(l2[k].value, l2[k].stored, l2[k].lifetime, L1TTL)
      \/ \E v \in Underway(k), lifetime \in Lifetime :
           l1'[p].entries[k] = Entry(v, now, lifetime, lifetime.l1)

\* What Redis holds it held and has not expired, or comes from a load.
L2Moves ==
  \A k \in Keys :
    l2'[k] # None =>
      \/ l2'[k] = l2[k] /\ (now' = now \/ l2[k].expiry > now')
      \/ /\ now' = now
         /\ \E v \in Underway(k), lifetime \in Lifetime :
              l2'[k] = Entry(v, now, lifetime, lifetime.l2)

Moves == CallMoves /\ DataMoves /\ L1Moves /\ L2Moves

LEMMA EntryType ==
  ASSUME Typed, NEW v \in Versions, NEW at \in Times, NEW lifetime \in Lifetime, NEW ttl \in Nat
  PROVE  Entry(v, at, lifetime, ttl) \in Entries
<1>1. now + ttl \in Nat
  BY CacheAssumption DEF Typed, Times
<1>. QED
  BY <1>1 DEF Entry, Entries

LEMMA UnderwayType == ASSUME Typed, NEW k PROVE Underway(k) \subseteq Versions
BY DEF Typed, Underway, Loads

LEMMA OldestFacts ==
  ASSUME Typed, NEW k \in Keys
  PROVE  /\ Oldest(k) \in Versions /\ Oldest(k) <= data[k]
         /\ \A v \in Underway(k) : Oldest(k) <= v
<1> DEFINE T == Underway(k) \cup {data[k]}
<1>1. T \subseteq Versions /\ T # {} /\ data[k] \in T /\ Underway(k) \subseteq T
  BY UnderwayType DEF Typed
<1>2. Versions \subseteq Nat
  BY DEF Versions
<1>3. Oldest(k) = CHOOSE v \in T : \A w \in T : v <= w
  BY DEF Oldest
<1> HIDE DEF T
<1>4. \E v \in T : \A w \in T : v <= w
  BY <1>1, <1>2, Least
<1>5. Oldest(k) \in T /\ \A w \in T : Oldest(k) <= w
  BY <1>3, <1>4
<1>. QED
  BY <1>1, <1>5

LEMMA LatestFacts ==
  ASSUME Typed, Keys # {}
  PROVE  Latest \in Versions /\ \A k \in Keys : data[k] <= Latest
<1> DEFINE T == {data[k] : k \in Keys}
<1>1. T \subseteq Versions /\ T # {}
  BY DEF Typed
<1>2. Versions = 0 .. MaxVersion /\ MaxVersion \in Nat
  BY CacheAssumption DEF Versions
<1>3. \E v \in T : \A w \in T : w <= v
  <2> HIDE DEF T
  <2>. QED
    BY <1>1, <1>2, Greatest
<1>4. \E v \in T : \A k \in Keys : data[k] <= v
  BY <1>3
<1>5. Latest \in T /\ \A k \in Keys : data[k] <= Latest
  BY <1>4 DEF Latest
<1>. QED
  BY <1>1, <1>5

\* A first level that one process replaces, and the others keep.
LEMMA OneFirstLevel ==
  ASSUME Typed, NEW p \in Processes, NEW c, LruShape(c), l1' = [l1 EXCEPT ![p] = c]
  PROVE  /\ l1' = [q \in Processes |-> l1'[q]] /\ \A q \in Processes : LruShape(l1'[q])
         /\ l1'[p] = c /\ \A q \in Processes : q # p => l1'[q] = l1[q]
<1>1. l1 = [q \in Processes |-> l1[q]] /\ \A q \in Processes : LruShape(l1[q])
  BY DEF Typed
<1>2. l1'[p] = c /\ \A q \in Processes : q # p => l1'[q] = l1[q]
  BY <1>1
<1>3. l1' = [q \in Processes |-> l1'[q]]
  BY <1>1
<1>. QED
  BY <1>1, <1>2, <1>3

-----------------------------------------------------------------------------
(* Every step.                                                             *)

\* Steps that leave the versions and Redis alone and make one first level
\* smaller, if they touch it.
LEMMA Shrinks ==
  ASSUME Typed, UNCHANGED <<now, data>>,
         \A k \in Keys : l2'[k] \in {l2[k], None},
         \A c \in Callers : call'[c] \in {call[c], None},
         NEW p \in Processes, NEW c, LruShape(c), l1' = [l1 EXCEPT ![p] = c],
         \A k \in Keys : c.entries[k] \in {l1[p].entries[k], None}
  PROVE  Moves
<1>1. l1'[p] = c /\ \A q \in Processes : q # p => l1'[q] = l1[q]
  BY OneFirstLevel
<1>2. CallMoves
  BY DEF CallMoves
<1>3. DataMoves
  BY DEF DataMoves, Typed, Versions
<1>4. L1Moves
  BY <1>1 DEF L1Moves
<1>5. L2Moves
  BY DEF L2Moves
<1>. QED
  BY <1>2, <1>3, <1>4, <1>5 DEF Moves

\* The same when no first level changes.
LEMMA KeepsL1 ==
  ASSUME Typed, UNCHANGED l1, \A k \in Keys : data[k] <= data'[k],
         CallMoves, L2Moves
  PROVE  Moves
BY DEF Moves, DataMoves, L1Moves

LEMMA GetStep ==
  ASSUME Typed, NEW p \in Processes, NEW k \in Keys,
         GetL1(p, k) \/ GetL2(p, k) \/ GetMiss(p, k)
  PROVE  Typed' /\ Moves
<1>s. LruShape(l1[p]) /\ k \in Keys
  BY DEF Typed
<1>u. UNCHANGED <<now, data, l2, warming, call, scan, floor>>
  BY DEF GetL1, GetL2, GetMiss
<1>t. ASSUME NEW c, LruShape(c), l1' = [l1 EXCEPT ![p] = c] PROVE Typed'
  <2>1. l1' = [q \in Processes |-> l1'[q]] /\ \A q \in Processes : LruShape(l1'[q])
    BY <1>t, OneFirstLevel
  <2>. QED
    BY <1>u, <2>1 DEF Typed
<1>1. CASE GetL1(p, k)
  <2> DEFINE c == LruTouch(l1[p], k)
  <2>1. LruShape(c) /\ c.entries = l1[p].entries
    <3>1. k \in LruKeys(l1[p])
      BY <1>1 DEF GetL1, Live, LruKeys
    <3>. QED
      BY <1>s, <3>1, LruTouchFacts
  <2>2. l1' = [l1 EXCEPT ![p] = c]
    BY <1>1 DEF GetL1
  <2> HIDE DEF c
  <2>. QED
    BY <1>t, <1>u, <2>1, <2>2, Shrinks
<1>2. CASE GetMiss(p, k)
  <2> DEFINE c == LruDrop(l1[p], k)
  <2>1. LruShape(c) /\ c.entries = [l1[p].entries EXCEPT ![k] = None]
    BY <1>s, LruDropFacts
  <2>2. l1' = [l1 EXCEPT ![p] = c]
    BY <1>2 DEF GetMiss
  <2> HIDE DEF c
  <2>3. \A j \in Keys : c.entries[j] \in {l1[p].entries[j], None}
    BY <1>s, <2>1 DEF LruShape
  <2>. QED
    BY <1>t, <1>u, <2>1, <2>2, <2>3, Shrinks
<1>3. CASE GetL2(p, k)
  <2> DEFINE entry == Entry(l2[k].value, l2[k].stored, l2[k].lifetime, L1TTL)
             d == LruDrop(l1[p], k)
             c == LruPut(d, k, entry)
  <2>1. l2[k] # None /\ Runs(p) /\ l1' = [l1 EXCEPT ![p] = c]
    BY <1>3 DEF GetL2, Promoted
  <2>2. entry \in Entries
    <3>1. l2[k] \in Entries
      BY <2>1 DEF Typed, MaybeEntry
    <3>2. l2[k].value \in Versions /\ l2[k].stored \in Times /\ l2[k].lifetime \in Lifetime
      BY <3>1 DEF Entries
    <3>. QED
      BY <3>2, EntryType, CacheAssumption
  <2>3. LruShape(d) /\ d.entries = [l1[p].entries EXCEPT ![k] = None]
    BY <1>s, LruDropFacts
  <2>4. \A j \in Keys : d.entries[j] \in {l1[p].entries[j], None}
    BY <1>s, <2>3 DEF LruShape
  <2> HIDE DEF d, entry
  <2>5. /\ LruShape(LruPut(d, k, entry)) /\ LruPut(d, k, entry).entries[k] = entry
        /\ \A j \in Keys : j # k => LruPut(d, k, entry).entries[j] \in {d.entries[j], None}
    <3>1. LruShape(d)
      BY <2>3
    <3>. QED
      BY <2>2, <3>1, LruPutFacts, ZenonT(40)
  <2>c. /\ LruShape(c) /\ c.entries[k] = entry
        /\ \A j \in Keys : j # k => c.entries[j] \in {d.entries[j], None}
    BY <2>5
  <2> HIDE DEF c
  <2>6. l1'[p] = c /\ \A q \in Processes : q # p => l1'[q] = l1[q]
    BY <2>1, <2>c, OneFirstLevel
  <2>7. L1Moves
    BY <2>1, <2>4, <2>c, <2>6 DEF L1Moves, entry
  <2>8. CallMoves /\ DataMoves /\ L2Moves
    BY <1>u DEF CallMoves, DataMoves, L2Moves, Typed, Versions
  <2>. QED
    BY <1>t, <2>1, <2>c, <2>7, <2>8 DEF Moves
<1>. QED
  BY <1>1, <1>2, <1>3

\* A load begins or its query runs.
LEMMA Loading ==
  ASSUME Typed, NEW c \in Callers, UNCHANGED <<now, data, l1, l2, scan, floor>>,
         NEW load \in Loads, call' = [call EXCEPT ![c] = load],
         load.value = None \/ load.value = data[load.key],
         warming' \in [Processes -> SUBSET Keys]
  PROVE  Typed' /\ Moves
<1>1. call \in [Callers -> Loads \cup {None}]
  BY DEF Typed
<1>2. /\ call' \in [Callers -> Loads \cup {None}]
      /\ call'[c] = load /\ \A d \in Callers : d # c => call'[d] = call[d]
  BY <1>1
<1>3. Typed'
  BY <1>2 DEF Typed
<1>4. CallMoves
  BY <1>2 DEF CallMoves
<1>5. L2Moves /\ \A j \in Keys : data[j] <= data'[j]
  BY DEF L2Moves, Typed, Versions
<1>. QED
  BY <1>3, <1>4, <1>5, KeepsL1

LEMMA LoadStep ==
  ASSUME Typed, NEW c \in Callers, NEW p \in Processes, NEW k \in Keys,
         StartWarm(c, p, k) \/ StartLoad(c, p, k)
  PROVE  Typed' /\ Moves
<1>0. UNCHANGED <<now, data, l1, l2, scan, floor>>
  BY DEF StartWarm, StartLoad
<1>1. warming' \in [Processes -> SUBSET Keys]
  <2>1. warming \in [Processes -> SUBSET Keys]
    BY DEF Typed
  <2>2. warming' = warming \/ warming' = [warming EXCEPT ![p] = @ \cup {k}]
    BY DEF StartWarm, StartLoad
  <2>. QED
    BY <2>1, <2>2
<1>2. CASE StartWarm(c, p, k)
  <2> DEFINE load == [at |-> p, key |-> k, marks |-> TRUE, value |-> None]
  <2>1. load \in Loads /\ load.value = None
    BY DEF Loads
  <2>2. call' = [call EXCEPT ![c] = load]
    BY <1>2 DEF StartWarm
  <2> HIDE DEF load
  <2>. QED
    BY <1>0, <1>1, <2>1, <2>2, Loading
<1>3. CASE StartLoad(c, p, k)
  <2> DEFINE load == [at |-> p, key |-> k, marks |-> FALSE, value |-> data[k]]
  <2>1. data[k] \in Versions
    BY DEF Typed
  <2>2. /\ load \in Loads /\ load.value = data[load.key]
        /\ call' = [call EXCEPT ![c] = load]
    BY <1>3, <2>1 DEF Loads, StartLoad
  <2> HIDE DEF load
  <2>. QED
    BY <1>0, <1>1, <2>2, Loading
<1>. QED
  BY <1>2, <1>3

LEMMA ReadStep ==
  ASSUME Typed, NEW c \in Callers, Read(c)
  PROVE  Typed' /\ Moves
<1> DEFINE load == [call[c] EXCEPT !.value = data[call[c].key]]
<1>1. call[c] \in Loads
  BY DEF Read, Typed
<1>2. data[call[c].key] \in Versions
  BY <1>1 DEF Typed, Loads
<1>3. load \in Loads /\ load.value = data[load.key]
  BY <1>1, <1>2 DEF Loads
<1>4. /\ UNCHANGED <<now, data, l1, l2, scan, floor>> /\ warming' \in [Processes -> SUBSET Keys]
      /\ call' = [call EXCEPT ![c] = load]
  BY DEF Read, Typed
<1> HIDE DEF load
<1>. QED
  BY <1>3, <1>4, Loading

LEMMA UnmarkedType ==
  ASSUME Typed, NEW c \in Callers, call[c] # None
  PROVE  /\ call[c] \in Loads
         /\ Unmarked(c) \in [Processes -> SUBSET Keys]
BY DEF Typed, Unmarked, Loads

LEMMA EndStep ==
  ASSUME Typed, NEW c \in Callers, Store(c) \/ LoadEnds(c)
  PROVE  Typed' /\ Moves
<1>u. UNCHANGED <<now, data, scan, floor>>
  BY DEF Store, LoadEnds
<1>c. call[c] # None /\ call' = [call EXCEPT ![c] = None] /\ warming' = Unmarked(c)
  BY DEF Store, LoadEnds
<1>d. call[c] \in Loads /\ warming' \in [Processes -> SUBSET Keys]
  BY <1>c, UnmarkedType
<1>e. /\ call' \in [Callers -> Loads \cup {None}]
      /\ \A d \in Callers : call'[d] \in {call[d], None}
  BY <1>c DEF Typed
<1>f. CallMoves /\ DataMoves
  BY <1>u, <1>e DEF CallMoves, DataMoves, Typed, Versions
<1>1. CASE LoadEnds(c)
  <2>1. UNCHANGED <<l1, l2>>
    BY <1>1 DEF LoadEnds
  <2>2. Typed'
    BY <1>u, <1>d, <1>e, <2>1 DEF Typed
  <2>3. L2Moves
    BY <1>u, <2>1 DEF L2Moves
  <2>. QED
    BY <1>f, <2>1, <2>2, <2>3, KeepsL1 DEF DataMoves
<1>2. CASE Store(c)
  <2> DEFINE p == call[c].at
             k == call[c].key
             v == call[c].value
  <2>0. call[c] # None /\ v # None
    BY <1>2 DEF Store
  <2>2. p \in Processes /\ k \in Keys /\ v \in Versions
    BY <1>d, <2>0 DEF Loads
  <2>l. PICK lifetime \in Lifetimes[k] :
          /\ l1' = [l1 EXCEPT ![p] = LruPut(l1[p], k, Entry(v, now, lifetime, lifetime.l1))]
          /\ l2' = [l2 EXCEPT ![k] = Entry(v, now, lifetime, lifetime.l2)] \/ UNCHANGED l2
    BY <1>2 DEF Store, Typed
  <2> DEFINE first == Entry(v, now, lifetime, lifetime.l1)
             second == Entry(v, now, lifetime, lifetime.l2)
  <2>1. /\ l1' = [l1 EXCEPT ![p] = LruPut(l1[p], k, first)]
        /\ l2' = [l2 EXCEPT ![k] = second] \/ UNCHANGED l2
    BY <2>l
  <2>3. v \in Underway(k)
    BY <1>c, <2>0 DEF Underway
  <2>t. lifetime \in Lifetime /\ lifetime.l1 \in Nat /\ lifetime.l2 \in Nat
    <3>1. lifetime \in Lifetime
      BY <2>2, CacheAssumption
    <3>. QED
      BY <3>1 DEF Lifetime
  <2>4. first \in Entries /\ second \in Entries /\ second \in MaybeEntry
    BY <2>2, <2>t, EntryType DEF MaybeEntry, Typed
  <2>e. first = Entry(v, now, lifetime, lifetime.l1) /\ second = Entry(v, now, lifetime, lifetime.l2)
    OBVIOUS
  <2> HIDE DEF p, k, v, first, second
  <2>5. LruShape(l1[p])
    BY <2>2 DEF Typed
  <2>6. /\ LruShape(LruPut(l1[p], k, first)) /\ LruPut(l1[p], k, first).entries[k] = first
        /\ \A j \in Keys : j # k => LruPut(l1[p], k, first).entries[j] \in {l1[p].entries[j], None}
    BY <2>2, <2>4, <2>5, LruPutFacts
  <2>7. /\ l1' = [q \in Processes |-> l1'[q]] /\ \A q \in Processes : LruShape(l1'[q])
        /\ l1'[p] = LruPut(l1[p], k, first) /\ \A q \in Processes : q # p => l1'[q] = l1[q]
    BY <2>1, <2>2, <2>6, OneFirstLevel
  <2>8. /\ l2' \in [Keys -> MaybeEntry]
        /\ \A j \in Keys : l2'[j] = l2[j] \/ (j = k /\ l2'[j] = second)
    <3>1. l2 \in [Keys -> MaybeEntry]
      BY DEF Typed
    <3>. QED
      BY <2>1, <2>2, <2>4, <3>1
  <2>9. Typed'
    BY <1>u, <1>d, <1>e, <2>7, <2>8 DEF Typed
  <2>10. L1Moves
    BY <2>e, <2>t, <2>3, <2>6, <2>7 DEF L1Moves
  <2>11. L2Moves
    BY <1>u, <2>e, <2>t, <2>3, <2>8 DEF L2Moves
  <2>. QED
    BY <1>f, <2>9, <2>10, <2>11 DEF Moves
<1>. QED
  BY <1>1, <1>2

\* Steps that make a first level smaller: deletes and restarts.
LEMMA DeleteStep ==
  ASSUME Typed, NEW p \in Processes, NEW k \in Keys, Delete(p, k) \/ DeleteL1Only(p, k)
  PROVE  Typed' /\ Moves
<1> DEFINE c == LruDrop(l1[p], k)
<1>s. LruShape(l1[p])
  BY DEF Typed
<1>1. LruShape(c) /\ c.entries = [l1[p].entries EXCEPT ![k] = None]
  BY <1>s, LruDropFacts
<1>2. l1' = [l1 EXCEPT ![p] = c] /\ UNCHANGED <<now, data, warming, call, scan>>
  BY DEF Delete, DeleteL1Only
<1> HIDE DEF c
<1>3. \A j \in Keys : c.entries[j] \in {l1[p].entries[j], None}
  BY <1>s, <1>1 DEF LruShape
<1>4. l2' \in [Keys -> MaybeEntry] /\ \A j \in Keys : l2'[j] \in {l2[j], None}
  BY DEF Delete, DeleteL1Only, Typed, MaybeEntry
<1>5. floor' \in [Processes -> [Keys -> Versions]]
  <2>1. Oldest(k) \in Versions
    BY OldestFacts
  <2>2. floor' = floor \/ floor' = [floor EXCEPT ![p] = [floor[p] EXCEPT ![k] = Oldest(k)]]
    BY DEF Delete, DeleteL1Only, Typed
  <2>3. [floor[p] EXCEPT ![k] = Oldest(k)] \in [Keys -> Versions]
    BY <2>1 DEF Typed
  <2>. QED
    BY <2>2, <2>3 DEF Typed
<1>6. l1' = [q \in Processes |-> l1'[q]] /\ \A q \in Processes : LruShape(l1'[q])
  BY <1>1, <1>2, OneFirstLevel
<1>7. Typed'
  BY <1>2, <1>4, <1>5, <1>6 DEF Typed
<1>8. Moves
  BY <1>1, <1>2, <1>3, <1>4, Shrinks
<1>. QED
  BY <1>7, <1>8

LEMMA PatternStep ==
  ASSUME Typed, NEW p \in Processes,
         (\E pattern \in Patterns : ScanPattern(p, pattern)) \/ DeleteFound(p) \/ PatternFails(p)
  PROVE  Typed' /\ Moves
<1>1. ASSUME NEW pattern \in Patterns, ScanPattern(p, pattern) PROVE Typed' /\ Moves
  <2> DEFINE c == LruDropAll(l1[p], pattern)
             goal == [k \in Keys |-> IF k \in pattern THEN Oldest(k) ELSE floor[p][k]]
             found == {k \in pattern : l2[k] # None}
  <2>1. LruShape(l1[p]) /\ pattern \subseteq Keys
    BY CacheAssumption DEF Typed
  <2>2. /\ LruShape(c)
        /\ c.entries = [k \in Keys |-> IF k \in pattern THEN None ELSE l1[p].entries[k]]
    BY <2>1, LruDropAllFacts
  <2>3. l1' = [l1 EXCEPT ![p] = c] /\ UNCHANGED <<now, data, l2, warming, call, floor>>
    BY <1>1 DEF ScanPattern
  <2>4. goal \in [Keys -> Versions]
    <3>1. \A k \in Keys : Oldest(k) \in Versions
      BY OldestFacts
    <3>. QED
      BY <3>1 DEF Typed
  <2>5. [found |-> found, goal |-> goal] \in Scans
    BY <2>1, <2>4 DEF Scans
  <2>6. scan' = [scan EXCEPT ![p] = [found |-> found, goal |-> goal]]
    BY <1>1 DEF ScanPattern
  <2> HIDE DEF c, goal, found
  <2>7. scan' \in [Processes -> Scans \cup {None}]
    BY <2>5, <2>6 DEF Typed
  <2>8. l1' = [q \in Processes |-> l1'[q]] /\ \A q \in Processes : LruShape(l1'[q])
    BY <2>2, <2>3, OneFirstLevel
  <2>9. Typed'
    BY <2>3, <2>7, <2>8 DEF Typed
  <2>10. \A k \in Keys : c.entries[k] \in {l1[p].entries[k], None}
    BY <2>2
  <2>. QED
    BY <2>2, <2>3, <2>9, <2>10, Shrinks
<1>2. ASSUME DeleteFound(p) \/ PatternFails(p) PROVE Typed' /\ Moves
  <2>1. UNCHANGED <<now, data, l1, warming, call>> /\ scan' = [scan EXCEPT ![p] = None]
    BY <1>2 DEF DeleteFound, PatternFails
  <2>2. \A k \in Keys : l2'[k] \in {l2[k], None}
    BY <1>2 DEF DeleteFound, PatternFails
  <2>3. l2' \in [Keys -> MaybeEntry]
    BY <1>2 DEF DeleteFound, PatternFails, Typed, MaybeEntry
  <2>4. floor' \in [Processes -> [Keys -> Versions]]
    <3>1. CASE PatternFails(p)
      BY <3>1 DEF PatternFails, Typed
    <3>2. CASE DeleteFound(p)
      <4>1. scan[p] \in Scans
        BY <3>2 DEF DeleteFound, Typed
      <4>. QED
        BY <3>2, <4>1 DEF DeleteFound, Typed, Scans
    <3>. QED
      BY <1>2, <3>1, <3>2
  <2>5. scan' \in [Processes -> Scans \cup {None}]
    BY <2>1 DEF Typed
  <2>6. Typed'
    BY <2>1, <2>3, <2>4, <2>5 DEF Typed
  <2>7. CallMoves /\ L2Moves /\ \A k \in Keys : data[k] <= data'[k]
    BY <2>1, <2>2 DEF CallMoves, L2Moves, Typed, Versions
  <2>. QED
    BY <2>1, <2>6, <2>7, KeepsL1
<1>. QED
  BY <1>1, <1>2

LEMMA RestartStep ==
  ASSUME Typed, NEW p \in Processes, Restart(p)
  PROVE  Typed' /\ Moves
<1>1. /\ l1' = [l1 EXCEPT ![p] = LruEmpty] /\ UNCHANGED <<now, data, l2, floor>>
      /\ warming' = [warming EXCEPT ![p] = {}] /\ scan' = [scan EXCEPT ![p] = None]
      /\ call' = [c \in Callers |-> IF call[c] # None /\ call[c].at = p THEN None ELSE call[c]]
  BY DEF Restart
<1>2. l1' = [q \in Processes |-> l1'[q]] /\ \A q \in Processes : LruShape(l1'[q])
  BY <1>1, LruEmptyFacts, OneFirstLevel
<1>3. \A c \in Callers : call'[c] \in {call[c], None}
  BY <1>1
<1>4. /\ call' \in [Callers -> Loads \cup {None}] /\ warming' \in [Processes -> SUBSET Keys]
      /\ scan' \in [Processes -> Scans \cup {None}]
  BY <1>1 DEF Typed
<1>5. Typed'
  BY <1>1, <1>2, <1>4 DEF Typed
<1>. QED
  BY <1>1, <1>3, <1>5, LruEmptyFacts, Shrinks

LEMMA ClockStep ==
  ASSUME Typed, AgeInv, Tick \/ \E k \in Keys : Change(k)
  PROVE  Typed' /\ Moves
<1>u. UNCHANGED <<l1, warming, call, scan, floor>>
  BY DEF Tick, Change
<1>1. CASE Tick
  <2>1. now' = now + 1 /\ now' \in Times /\ UNCHANGED data
    BY <1>1, CacheAssumption DEF Tick, Typed, Times
  <2>2. l2' = [k \in Keys |-> IF l2[k] # None /\ l2[k].expiry <= now + 1 THEN None ELSE l2[k]]
    BY <1>1 DEF Tick
  <2>3. l2' \in [Keys -> MaybeEntry]
    BY <2>2 DEF Typed, MaybeEntry
  <2>4. Typed'
    BY <1>u, <2>1, <2>3 DEF Typed
  <2>5. L2Moves
    <3> SUFFICES ASSUME NEW k \in Keys, l2'[k] # None PROVE l2'[k] = l2[k] /\ l2[k].expiry > now'
      BY DEF L2Moves
    <3>1. l2'[k] = l2[k] /\ l2[k] # None /\ ~(l2[k].expiry <= now + 1)
      BY <2>2
    <3>2. l2[k].expiry \in Nat /\ now \in Nat
      BY <3>1 DEF Typed, MaybeEntry, Entries, Times
    <3>. QED
      BY <2>1, <3>1, <3>2
  <2>6. CallMoves /\ \A k \in Keys : data[k] <= data'[k]
    BY <1>u, <2>1 DEF CallMoves, Typed, Versions
  <2>. QED
    BY <1>u, <2>4, <2>5, <2>6, KeepsL1
<1>2. ASSUME NEW k \in Keys, Change(k) PROVE Typed' /\ Moves
  <2>1. /\ Latest < MaxVersion /\ data' = [data EXCEPT ![k] = Latest + 1]
        /\ UNCHANGED <<now, l2>>
    BY <1>2 DEF Change
  <2>2. Latest \in Versions /\ \A j \in Keys : data[j] <= Latest
    BY LatestFacts
  <2>3. Latest + 1 \in Versions
    BY <2>1, <2>2, CacheAssumption DEF Versions
  <2>4. data' \in [Keys -> Versions]
    BY <2>1, <2>3 DEF Typed
  <2>5. \A j \in Keys : data[j] <= data'[j]
    <3>1. \A j \in Keys : data[j] \in Int /\ Latest \in Int
      BY <2>2 DEF Typed, Versions
    <3>2. \A j \in Keys : data'[j] = IF j = k THEN Latest + 1 ELSE data[j]
      BY <2>1 DEF Typed
    <3>. QED
      BY <2>2, <3>1, <3>2
  <2>6. Typed'
    BY <1>u, <2>1, <2>4 DEF Typed
  <2>7. CallMoves /\ L2Moves
    BY <1>u, <2>1 DEF CallMoves, L2Moves
  <2>. QED
    BY <1>u, <2>5, <2>6, <2>7, KeepsL1
<1>. QED
  BY <1>1, <1>2

LEMMA EveryStep ==
  ASSUME Typed, AgeInv, [Next]_vars
  PROVE  Typed' /\ Moves
<1>1. CASE UNCHANGED vars
  <2>1. Typed'
    BY <1>1 DEF vars, Typed
  <2>2. CallMoves /\ L2Moves /\ \A k \in Keys : data[k] <= data'[k]
    BY <1>1 DEF vars, CallMoves, L2Moves, Typed, Versions
  <2>. QED
    BY <1>1, <2>1, <2>2, KeepsL1 DEF vars
<1>2. CASE Next
  <2>1. CASE Tick \/ \E k \in Keys : Change(k)
    BY <2>1, ClockStep
  <2>2. ASSUME NEW p \in Processes, NEW k \in Keys,
               \/ GetL1(p, k) \/ GetL2(p, k) \/ GetMiss(p, k)
               \/ Delete(p, k) \/ DeleteL1Only(p, k)
               \/ \E c \in Callers : StartWarm(c, p, k) \/ StartLoad(c, p, k)
        PROVE  Typed' /\ Moves
    BY <2>2, GetStep, DeleteStep, LoadStep
  <2>3. ASSUME NEW p \in Processes,
               \/ \E pattern \in Patterns : ScanPattern(p, pattern)
               \/ DeleteFound(p) \/ PatternFails(p) \/ Restart(p)
        PROVE  Typed' /\ Moves
    BY <2>3, PatternStep, RestartStep
  <2>4. ASSUME NEW c \in Callers, Read(c) \/ Store(c) \/ LoadEnds(c) PROVE Typed' /\ Moves
    <3>1. CASE Read(c)
      BY <3>1, ReadStep
    <3>2. CASE Store(c) \/ LoadEnds(c)
      BY <3>2, EndStep
    <3>. QED
      BY <2>4, <3>1, <3>2
  <2>. QED
    BY <1>2, <2>1, <2>2, <2>3, <2>4 DEF Next
<1>. QED
  BY <1>1, <1>2

-----------------------------------------------------------------------------
(* The invariants.                                                         *)

LEMMA CacheInit ==
  ASSUME Init
  PROVE  Typed /\ AgeInv /\ FreshInv /\ OneLoaderPerKey
<1>1. /\ now = 0 /\ data = [k \in Keys |-> 0] /\ l1 = [p \in Processes |-> LruEmpty]
      /\ l2 = [k \in Keys |-> None] /\ warming = [p \in Processes |-> {}]
      /\ call = [c \in Callers |-> None] /\ scan = [p \in Processes |-> None]
      /\ floor = [p \in Processes |-> [k \in Keys |-> 0]]
  BY DEF Init
<1>2. 0 \in Times /\ 0 \in Versions
  BY CacheAssumption DEF Times, Versions
<1>3. Typed
  <2>1. l1 = [p \in Processes |-> l1[p]] /\ \A p \in Processes : LruShape(l1[p])
    BY <1>1, LruEmptyFacts
  <2>2. /\ l2 \in [Keys -> MaybeEntry] /\ call \in [Callers -> Loads \cup {None}]
        /\ scan \in [Processes -> Scans \cup {None}] /\ warming \in [Processes -> SUBSET Keys]
    BY <1>1 DEF MaybeEntry
  <2>3. now \in Times /\ data \in [Keys -> Versions] /\ floor \in [Processes -> [Keys -> Versions]]
    BY <1>1, <1>2
  <2>. QED
    BY <2>1, <2>2, <2>3 DEF Typed
<1>4. AgeInv
  BY <1>1, LruEmptyFacts DEF AgeInv, AgeBounded
<1>5. FreshInv
  <2>1. \A k \in Keys : Underway(k) = {}
    BY <1>1 DEF Underway
  <2>. QED
    BY <1>1, <2>1, LruEmptyFacts DEF FreshInv, Bounds
<1>6. OneLoaderPerKey
  BY <1>1 DEF OneLoaderPerKey
<1>. QED
  BY <1>3, <1>4, <1>5, <1>6

LEMMA AgeStep ==
  ASSUME Typed, Moves, AgeInv
  PROVE  AgeInv'
<1>k. /\ L1TTL \in Nat \ {0} /\ now \in Nat
      /\ \A lifetime \in Lifetime : lifetime.l1 \in Nat \ {0} /\ lifetime.l2 \in Nat \ {0}
      /\ \A k \in Keys : l2[k] # None =>
           l2[k].expiry \in Int /\ l2[k].stored \in Int /\ l2[k].lifetime \in Lifetime
  BY CacheAssumption DEF Typed, MaybeEntry, Entries, Times, Lifetime
<1>e. \A v, at, lifetime, ttl :
        /\ Entry(v, at, lifetime, ttl).stored = at /\ Entry(v, at, lifetime, ttl).expiry = now + ttl
        /\ Entry(v, at, lifetime, ttl).lifetime = lifetime
  BY DEF Entry
<1>1. ASSUME NEW k \in Keys, l2'[k] # None
      PROVE  l2'[k].expiry <= l2'[k].stored + l2'[k].lifetime.l2 /\ l2'[k].expiry > now'
  <2>1. CASE l2'[k] = l2[k] /\ (now' = now \/ l2[k].expiry > now')
    BY <1>1, <2>1 DEF AgeInv, AgeBounded
  <2>2. CASE /\ now' = now
             /\ \E v \in Underway(k), lifetime \in Lifetime :
                  l2'[k] = Entry(v, now, lifetime, lifetime.l2)
    BY <1>k, <1>e, <2>2
  <2>. QED
    BY <1>1, <2>1, <2>2 DEF Moves, L2Moves
<1>2. ASSUME NEW p \in Processes, NEW k \in Keys, l1'[p].entries[k] # None
      PROVE  LET Found == l1'[p].entries[k]
             IN  \/ Found.expiry <= Found.stored + Found.lifetime.l1
                 \/ Found.expiry < Found.stored + Found.lifetime.l2 + L1TTL
  <2>1. CASE l1'[p].entries[k] = l1[p].entries[k]
    BY <1>2, <2>1 DEF AgeInv, AgeBounded
  <2>2. CASE /\ l2[k] # None
             /\ l1'[p].entries[k] = Entry(l2[k].value, l2[k].stored, l2[k].lifetime, L1TTL)
    <3>1. l2[k].expiry <= l2[k].stored + l2[k].lifetime.l2 /\ l2[k].expiry > now
      BY <2>2 DEF AgeInv, AgeBounded
    <3>2. now + L1TTL < l2[k].stored + l2[k].lifetime.l2 + L1TTL
      BY <1>k, <2>2, <3>1
    <3>. QED
      BY <1>e, <2>2, <3>2
  <2>3. CASE \E v \in Underway(k), lifetime \in Lifetime :
               l1'[p].entries[k] = Entry(v, now, lifetime, lifetime.l1)
    BY <1>k, <1>e, <2>3
  <2>. QED
    BY <1>2, <2>1, <2>2, <2>3 DEF Moves, L1Moves
<1>. QED
  BY <1>1, <1>2 DEF AgeInv, AgeBounded

\* Bounds after a step.
BoundsAfter(p, b, but) ==
  \A k \in Keys :
    /\ b[k] <= data'[k]
    /\ \A c \in Callers :
         call'[c] # None /\ call'[c].value # None /\ call'[c].key = k => b[k] <= call'[c].value
    /\ l1'[p].entries[k] # None => b[k] <= l1'[p].entries[k].value
    /\ l2'[k] # None /\ k \notin but => b[k] <= l2'[k].value

\* What is a bound stays one, as long as the process finds in Redis only what
\* is bounded there.
LEMMA BoundsKept ==
  ASSUME Typed, Typed', Moves, NEW p \in Processes, NEW b \in [Keys -> Versions], NEW but,
         Bounds(p, b, but), but = {} \/ ~Runs(p)
  PROVE  BoundsAfter(p, b, but)
<1> SUFFICES ASSUME NEW k \in Keys
             PROVE  /\ b[k] <= data'[k]
                    /\ \A c \in Callers :
                         call'[c] # None /\ call'[c].value # None /\ call'[c].key = k
                           => b[k] <= call'[c].value
                    /\ l1'[p].entries[k] # None => b[k] <= l1'[p].entries[k].value
                    /\ l2'[k] # None /\ k \notin but => b[k] <= l2'[k].value
  BY DEF BoundsAfter
<1>e. \A v, at, lifetime, ttl : Entry(v, at, lifetime, ttl).value = v
  BY DEF Entry
<1>1. /\ b[k] <= data[k] /\ \A v \in Underway(k) : b[k] <= v
      /\ l1[p].entries[k] # None => b[k] <= l1[p].entries[k].value
      /\ l2[k] # None /\ k \notin but => b[k] <= l2[k].value
  BY DEF Bounds
<1>2. b[k] <= data'[k]
  <2>1. b[k] \in Int /\ data[k] \in Int /\ data'[k] \in Int
    BY DEF Typed, Versions
  <2>2. data[k] <= data'[k]
    BY DEF Moves, DataMoves
  <2>. QED
    BY <1>1, <2>1, <2>2
<1>3. ASSUME NEW c \in Callers, call'[c] # None, call'[c].value # None, call'[c].key = k
      PROVE  b[k] <= call'[c].value
  <2>1. CASE call[c] # None /\ call'[c].value = call[c].value /\ call'[c].key = call[c].key
    <3>1. call[c].value \in Underway(k)
      BY <1>3, <2>1 DEF Underway
    <3>. QED
      BY <1>1, <2>1, <3>1
  <2>2. CASE call'[c].value = data[call'[c].key]
    BY <1>1, <1>3, <2>2
  <2>. QED
    BY <1>3, <2>1, <2>2 DEF Moves, CallMoves
<1>4. ASSUME l1'[p].entries[k] # None PROVE b[k] <= l1'[p].entries[k].value
  <2>1. CASE l1'[p].entries[k] = l1[p].entries[k]
    BY <1>1, <1>4, <2>1
  <2>2. CASE /\ Runs(p) /\ l2[k] # None
             /\ l1'[p].entries[k] = Entry(l2[k].value, l2[k].stored, l2[k].lifetime, L1TTL)
    BY <1>1, <1>e, <2>2
  <2>3. CASE \E v \in Underway(k), lifetime \in Lifetime :
               l1'[p].entries[k] = Entry(v, now, lifetime, lifetime.l1)
    BY <1>1, <1>e, <2>3
  <2>. QED
    BY <1>4, <2>1, <2>2, <2>3 DEF Moves, L1Moves
<1>5. ASSUME l2'[k] # None, k \notin but PROVE b[k] <= l2'[k].value
  <2>1. CASE l2'[k] = l2[k]
    BY <1>1, <1>5, <2>1
  <2>2. CASE \E v \in Underway(k), lifetime \in Lifetime : l2'[k] = Entry(v, now, lifetime, lifetime.l2)
    BY <1>1, <1>e, <2>2
  <2>. QED
    BY <1>5, <2>1, <2>2 DEF Moves, L2Moves
<1>. QED
  BY <1>2, <1>3, <1>4, <1>5

LEMMA FreshStep ==
  ASSUME Typed, Typed', Moves, FreshInv, [Next]_vars
  PROVE  FreshInv'
<1> DEFINE After(p) == /\ BoundsAfter(p, floor'[p], {})
                       /\ scan'[p] # None => BoundsAfter(p, scan'[p].goal, scan'[p].found)
<1>g. (\A p \in Processes : After(p)) => FreshInv'
  BY DEF FreshInv, Bounds, BoundsAfter, Underway
<1>f. ASSUME NEW p \in Processes PROVE BoundsAfter(p, floor[p], {})
  <2>1. floor[p] \in [Keys -> Versions] /\ Bounds(p, floor[p], {})
    BY DEF Typed, FreshInv
  <2>. QED
    BY <2>1, BoundsKept
<1>s. ASSUME NEW p \in Processes, scan[p] # None PROVE BoundsAfter(p, scan[p].goal, scan[p].found)
  <2>1. scan[p].goal \in [Keys -> Versions] /\ Bounds(p, scan[p].goal, scan[p].found) /\ ~Runs(p)
    BY <1>s DEF Typed, FreshInv, Scans, Runs
  <2>. QED
    BY <2>1, BoundsKept
<1>k. ASSUME NEW p \in Processes, floor'[p] = floor[p], scan'[p] \in {scan[p], None} PROVE After(p)
  BY <1>k, <1>f, <1>s
<1>o. \A k \in Keys : /\ Oldest(k) <= data[k] /\ \A v \in Underway(k) : Oldest(k) <= v
  BY OldestFacts
<1>v. \A k \in Keys, c \in Callers :
        call[c] # None /\ call[c].value # None /\ call[c].key = k => call[c].value \in Underway(k)
  BY DEF Underway
<1>d. DOMAIN floor = Processes /\ DOMAIN scan = Processes /\ DOMAIN l1 = Processes
      /\ \A p \in Processes : floor[p] \in [Keys -> Versions] /\ LruShape(l1[p])
  BY DEF Typed
<1> HIDE DEF After
<1>1. ASSUME UNCHANGED <<floor, scan>> PROVE FreshInv'
  BY <1>1, <1>g, <1>k
<1>2. ASSUME NEW p \in Processes, NEW k \in Keys, Delete(p, k) PROVE FreshInv'
  <2>1. /\ floor' = [floor EXCEPT ![p] = [floor[p] EXCEPT ![k] = Oldest(k)]]
        /\ UNCHANGED <<data, call, scan>> /\ l2' = [l2 EXCEPT ![k] = None]
        /\ l1' = [l1 EXCEPT ![p] = LruDrop(l1[p], k)] /\ scan[p] = None
    BY <1>2, <1>d DEF Delete, Runs
  <2>2. l1'[p].entries[k] = None /\ l2'[k] = None
    <3>1. l1'[p] = LruDrop(l1[p], k)
      BY <1>d, <2>1
    <3>2. LruDrop(l1[p], k).entries = [l1[p].entries EXCEPT ![k] = None]
      BY <1>d, LruDropFacts
    <3>. QED
      BY <1>d, <2>1, <3>1, <3>2 DEF LruShape, LruTyped, Typed
  <2>3. /\ floor'[p] = [floor[p] EXCEPT ![k] = Oldest(k)]
        /\ \A q \in Processes : q # p => floor'[q] = floor[q]
    BY <1>d, <2>1
  <2>4. floor'[p][k] = Oldest(k) /\ \A j \in Keys : j # k => floor'[p][j] = floor[p][j]
    BY <1>d, <2>3
  <2>5. BoundsAfter(p, floor'[p], {})
    <3>1. BoundsAfter(p, floor[p], {})
      BY <1>f
    <3>2. Oldest(k) <= data'[k]
      BY <1>o, <2>1
    <3>3. \A c \in Callers :
            call'[c] # None /\ call'[c].value # None /\ call'[c].key = k => Oldest(k) <= call'[c].value
      BY <1>o, <1>v, <2>1
    <3>. QED
      BY <2>2, <2>4, <3>1, <3>2, <3>3 DEF BoundsAfter
  <2>6. After(p)
    BY <2>1, <2>5 DEF After
  <2>7. \A q \in Processes : q # p => After(q)
    BY <1>k, <2>1, <2>3
  <2>. QED
    BY <1>g, <2>6, <2>7
<1>3. ASSUME NEW p \in Processes, NEW pattern \in Patterns, ScanPattern(p, pattern) PROVE FreshInv'
  <2> DEFINE goal == [k \in Keys |-> IF k \in pattern THEN Oldest(k) ELSE floor[p][k]]
             found == {k \in pattern : l2[k] # None}
  <2>1. /\ scan' = [scan EXCEPT ![p] = [found |-> found, goal |-> goal]]
        /\ l1' = [l1 EXCEPT ![p] = LruDropAll(l1[p], pattern)]
        /\ UNCHANGED <<data, l2, call, floor>>
    BY <1>3 DEF ScanPattern
  <2>2. \A k \in Keys : k \in pattern => l1'[p].entries[k] = None
    <3>1. l1'[p] = LruDropAll(l1[p], pattern)
      BY <1>d, <2>1
    <3>2. LruDropAll(l1[p], pattern).entries =
            [k \in Keys |-> IF k \in pattern THEN None ELSE l1[p].entries[k]]
      BY <1>d, LruDropAllFacts
    <3>. QED
      BY <3>1, <3>2
  <2>3. BoundsAfter(p, goal, found)
    <3>1. BoundsAfter(p, floor[p], {})
      BY <1>f
    <3>2. ASSUME NEW k \in Keys, k \in pattern
          PROVE  /\ goal[k] <= data'[k]
                 /\ \A c \in Callers :
                      call'[c] # None /\ call'[c].value # None /\ call'[c].key = k
                        => goal[k] <= call'[c].value
                 /\ l1'[p].entries[k] = None
                 /\ l2'[k] # None => k \in found
      BY <1>o, <1>v, <2>1, <2>2, <3>2
    <3>3. \A k \in Keys : k \notin pattern => goal[k] = floor[p][k]
      OBVIOUS
    <3> HIDE DEF goal, found
    <3>. QED
      BY <3>1, <3>2, <3>3 DEF BoundsAfter
  <2> HIDE DEF goal, found
  <2>4. scan'[p] = [found |-> found, goal |-> goal] /\ \A q \in Processes : q # p => scan'[q] = scan[q]
    BY <1>d, <2>1
  <2>5. After(p)
    BY <1>f, <2>1, <2>3, <2>4 DEF After
  <2>6. \A q \in Processes : q # p => After(q)
    BY <1>k, <2>1, <2>4
  <2>. QED
    BY <1>g, <2>5, <2>6
<1>4. ASSUME NEW p \in Processes, DeleteFound(p) PROVE FreshInv'
  <2>1. /\ scan[p] # None /\ scan' = [scan EXCEPT ![p] = None]
        /\ floor' = [floor EXCEPT ![p] = scan[p].goal]
        /\ l2' = [k \in Keys |-> IF k \in scan[p].found THEN None ELSE l2[k]]
    BY <1>4 DEF DeleteFound
  <2>2. /\ floor'[p] = scan[p].goal /\ scan'[p] = None
        /\ \A q \in Processes : q # p => floor'[q] = floor[q] /\ scan'[q] = scan[q]
    BY <1>d, <2>1
  <2>3. BoundsAfter(p, scan[p].goal, scan[p].found)
    BY <1>s, <2>1
  <2>4. \A k \in Keys : k \in scan[p].found => l2'[k] = None
    BY <2>1
  <2>5. BoundsAfter(p, scan[p].goal, {})
    BY <2>3, <2>4 DEF BoundsAfter
  <2>6. After(p)
    BY <2>2, <2>5 DEF After
  <2>7. \A q \in Processes : q # p => After(q)
    BY <1>k, <2>2
  <2>. QED
    BY <1>g, <2>6, <2>7
<1>5. ASSUME NEW p \in Processes, PatternFails(p) \/ Restart(p) PROVE FreshInv'
  <2>1. UNCHANGED floor /\ scan' = [scan EXCEPT ![p] = None]
    BY <1>5 DEF PatternFails, Restart
  <2>2. \A q \in Processes : scan'[q] \in {scan[q], None}
    BY <1>d, <2>1
  <2>. QED
    BY <1>g, <1>k, <2>1, <2>2
<1>6. ASSUME NEW p \in Processes, NEW k \in Keys,
             \/ GetL1(p, k) \/ GetL2(p, k) \/ GetMiss(p, k)
             \/ DeleteL1Only(p, k)
             \/ \E c \in Callers : StartWarm(c, p, k) \/ StartLoad(c, p, k)
      PROVE  UNCHANGED <<floor, scan>>
  BY <1>6 DEF GetL1, GetL2, GetMiss, DeleteL1Only, StartWarm, StartLoad
<1>7. ASSUME NEW c \in Callers, Read(c) \/ Store(c) \/ LoadEnds(c) PROVE UNCHANGED <<floor, scan>>
  BY <1>7 DEF Read, Store, LoadEnds
<1>8. ASSUME Tick \/ (\E k \in Keys : Change(k)) \/ UNCHANGED vars PROVE UNCHANGED <<floor, scan>>
  BY <1>8 DEF Tick, Change, vars
<1>. QED
  BY <1>1, <1>2, <1>3, <1>4, <1>5, <1>6, <1>7, <1>8 DEF Next

-----------------------------------------------------------------------------
(* One loader per key.                                                     *)

Marks(c, p, k) == call[c] # None /\ call[c].at = p /\ call[c].key = k /\ call[c].marks

OneMark ==
  /\ \A p \in Processes, k \in Keys : k \in warming[p] <=> \E c \in Callers : Marks(c, p, k)
  /\ \A p \in Processes, k \in Keys : \A c, d \in Callers : Marks(c, p, k) /\ Marks(d, p, k) => c = d

LEMMA OneMarkSays == ASSUME Typed PROVE OneMark <=> OneLoaderPerKey
<1>1. /\ \A p \in Processes : warming[p] \subseteq Keys
      /\ \A c \in Callers : call[c] # None => call[c].key \in Keys
  BY DEF Typed, Loads
<1>2. ASSUME OneMark PROVE OneLoaderPerKey
  BY <1>1, <1>2 DEF OneMark, OneLoaderPerKey, Marks
<1>3. ASSUME OneLoaderPerKey PROVE OneMark
  BY <1>1, <1>3 DEF OneMark, OneLoaderPerKey, Marks
<1>. QED
  BY <1>2, <1>3

LEMMA LoaderStep ==
  ASSUME Typed, OneMark, [Next]_vars
  PROVE  OneMark'
<1>d. call \in [Callers -> Loads \cup {None}] /\ warming \in [Processes -> SUBSET Keys]
  BY DEF Typed
\* No mark changes.
<1>u. ASSUME UNCHANGED warming,
             \A c \in Callers, p \in Processes, k \in Keys : Marks(c, p, k)' <=> Marks(c, p, k)
      PROVE  OneMark'
  BY <1>u DEF OneMark
<1>1. ASSUME UNCHANGED <<warming, call>> PROVE OneMark'
  BY <1>1, <1>u DEF Marks
\* A call is replaced by one that marks what it marked, or by none.
<1>m. ASSUME NEW c \in Callers, NEW new, call' = [call EXCEPT ![c] = new]
      PROVE  \A d \in Callers, q \in Processes, j \in Keys :
               Marks(d, q, j)' <=> IF d = c
                                   THEN new # None /\ new.at = q /\ new.key = j /\ new.marks
                                   ELSE Marks(d, q, j)
  BY <1>d, <1>m DEF Marks
<1>2. ASSUME NEW c \in Callers, NEW p \in Processes, NEW k \in Keys, StartWarm(c, p, k)
      PROVE  OneMark'
  <2> DEFINE load == [at |-> p, key |-> k, marks |-> TRUE, value |-> None]
  <2>1. /\ call[c] = None /\ k \notin warming[p]
        /\ warming' = [warming EXCEPT ![p] = @ \cup {k}]
        /\ call' = [call EXCEPT ![c] = load]
    BY <1>2 DEF StartWarm
  <2>2. load \in Loads /\ load.at = p /\ load.key = k /\ load.marks = TRUE
    BY DEF Loads
  <2> HIDE DEF load
  <2>3. load # None
    BY <2>2, NoneAssumption
  <2>4. ASSUME NEW d \in Callers, NEW q \in Processes, NEW j \in Keys
        PROVE  Marks(d, q, j)' <=> Marks(d, q, j) \/ (d = c /\ q = p /\ j = k)
    <3>1. ~Marks(c, q, j)
      BY <2>1 DEF Marks
    <3>2. Marks(d, q, j)' <=> IF d = c
                              THEN load # None /\ load.at = q /\ load.key = j /\ load.marks
                              ELSE Marks(d, q, j)
      BY <1>m, <2>1
    <3>. QED
      BY <2>2, <2>3, <3>1, <3>2
  <2>5. ASSUME NEW q \in Processes, NEW j \in Keys
        PROVE  j \in warming'[q] <=> j \in warming[q] \/ (q = p /\ j = k)
    BY <1>d, <2>1
  <2>6. \A d \in Callers : ~Marks(d, p, k)
    BY <2>1 DEF OneMark
  <2>. QED
    BY <2>4, <2>5, <2>6 DEF OneMark
<1>3. ASSUME NEW c \in Callers, NEW p \in Processes, NEW k \in Keys, StartLoad(c, p, k)
      PROVE  OneMark'
  <2> DEFINE load == [at |-> p, key |-> k, marks |-> FALSE, value |-> data[k]]
  <2>1. call[c] = None /\ UNCHANGED warming /\ call' = [call EXCEPT ![c] = load]
    BY <1>3 DEF StartLoad
  <2>2. load.marks = FALSE
    OBVIOUS
  <2> HIDE DEF load
  <2>3. ASSUME NEW d \in Callers, NEW q \in Processes, NEW j \in Keys
        PROVE  Marks(d, q, j)' <=> Marks(d, q, j)
    <3>1. ~Marks(c, q, j)
      BY <2>1 DEF Marks
    <3>. QED
      BY <1>m, <2>1, <2>2, <3>1
  <2>. QED
    BY <1>u, <2>1, <2>3
<1>4. ASSUME NEW c \in Callers, Read(c) PROVE OneMark'
  <2> DEFINE load == [call[c] EXCEPT !.value = data[call[c].key]]
  <2>1. /\ call[c] \in Loads /\ call[c] # None /\ UNCHANGED warming
        /\ call' = [call EXCEPT ![c] = load]
    BY <1>4, <1>d DEF Read
  <2>2. load.at = call[c].at /\ load.key = call[c].key /\ load.marks = call[c].marks
    BY <2>1 DEF Loads
  <2>3. load \in Loads
    <3>1. data[call[c].key] \in Versions
      BY <2>1 DEF Typed, Loads
    <3>. QED
      BY <2>1, <3>1 DEF Loads
  <2> HIDE DEF load
  <2>4. load # None
    BY <2>3, NoneAssumption
  <2>5. ASSUME NEW d \in Callers, NEW q \in Processes, NEW j \in Keys
        PROVE  Marks(d, q, j)' <=> Marks(d, q, j)
    <3>1. Marks(c, q, j) <=> load # None /\ load.at = q /\ load.key = j /\ load.marks
      BY <2>1, <2>2, <2>4 DEF Marks
    <3>. QED
      BY <1>m, <2>1, <3>1
  <2>. QED
    BY <1>u, <2>1, <2>5
<1>5. ASSUME NEW c \in Callers, Store(c) \/ LoadEnds(c) PROVE OneMark'
  <2>1. call[c] # None /\ call' = [call EXCEPT ![c] = None] /\ warming' = Unmarked(c)
    BY <1>5 DEF Store, LoadEnds
  <2>2. call[c].at \in Processes /\ call[c].key \in Keys
    BY <2>1 DEF Typed, Loads
  <2>3. ASSUME NEW d \in Callers, NEW q \in Processes, NEW j \in Keys
        PROVE  Marks(d, q, j)' <=> d # c /\ Marks(d, q, j)
    BY <1>m, <2>1
  <2>4. ASSUME NEW q \in Processes, NEW j \in Keys
        PROVE  j \in warming'[q] <=> j \in warming[q] /\ ~Marks(c, q, j)
    <3>1. CASE call[c].marks
      <4>1. warming' = [warming EXCEPT ![call[c].at] = @ \ {call[c].key}]
        BY <2>1, <3>1 DEF Unmarked
      <4>2. warming'[q] = IF q = call[c].at THEN warming[q] \ {call[c].key} ELSE warming[q]
        BY <1>d, <2>2, <4>1
      <4>. QED
        BY <2>1, <3>1, <4>2 DEF Marks
    <3>2. CASE ~call[c].marks
      BY <2>1, <3>2 DEF Unmarked, Marks
    <3>. QED
      BY <3>1, <3>2
  <2>. QED
    BY <2>3, <2>4 DEF OneMark
<1>6. ASSUME NEW p \in Processes, Restart(p) PROVE OneMark'
  <2>1. /\ call' = [c \in Callers |-> IF call[c] # None /\ call[c].at = p THEN None ELSE call[c]]
        /\ warming' = [warming EXCEPT ![p] = {}]
    BY <1>6 DEF Restart
  <2>2. ASSUME NEW d \in Callers, NEW q \in Processes, NEW j \in Keys
        PROVE  Marks(d, q, j)' <=> q # p /\ Marks(d, q, j)
    BY <2>1 DEF Marks
  <2>3. ASSUME NEW q \in Processes, NEW j \in Keys
        PROVE  j \in warming'[q] <=> q # p /\ j \in warming[q]
    BY <1>d, <2>1
  <2>. QED
    BY <2>2, <2>3 DEF OneMark
<1>7. ASSUME NEW p \in Processes, NEW k \in Keys,
             GetL1(p, k) \/ GetL2(p, k) \/ GetMiss(p, k) \/ Delete(p, k) \/ DeleteL1Only(p, k)
      PROVE  OneMark'
  BY <1>1, <1>7 DEF GetL1, GetL2, GetMiss, Delete, DeleteL1Only
<1>8. ASSUME NEW p \in Processes,
             (\E pattern \in Patterns : ScanPattern(p, pattern)) \/ DeleteFound(p) \/ PatternFails(p)
      PROVE  OneMark'
  BY <1>1, <1>8 DEF ScanPattern, DeleteFound, PatternFails
<1>9. ASSUME Tick \/ (\E k \in Keys : Change(k)) \/ UNCHANGED vars PROVE OneMark'
  BY <1>1, <1>9 DEF Tick, Change, vars
<1>. QED
  BY <1>2, <1>3, <1>4, <1>5, <1>6, <1>7, <1>8, <1>9 DEF Next

-----------------------------------------------------------------------------
(* The theorems.                                                           *)

Inv == Typed /\ AgeInv /\ FreshInv /\ OneMark

LEMMA InvStep == Inv /\ [Next]_vars => Inv'
<1> SUFFICES ASSUME Inv, [Next]_vars PROVE Inv'
  OBVIOUS
<1>1. Typed' /\ Moves
  BY EveryStep DEF Inv
<1>2. AgeInv'
  BY <1>1, AgeStep DEF Inv
<1>3. FreshInv'
  BY <1>1, FreshStep DEF Inv
<1>4. OneMark'
  BY LoaderStep DEF Inv
<1>. QED
  BY <1>1, <1>2, <1>3, <1>4 DEF Inv

LEMMA InvHolds == Spec => []Inv
<1>1. Init => Inv
  BY CacheInit, OneMarkSays DEF Inv
<1>. QED
  BY <1>1, InvStep, PTL DEF Spec

\* A first level holds no more entries than its capacity, and its order of
\* use is a total order of exactly the keys that are in it.
THEOREM FirstLevelsFit == Spec => []LruConsistent
<1>1. ASSUME NEW c, LruShape(c) PROVE LruInOrder(c)
  BY <1>1 DEF LruShape, LruFits, LruOrdered, LruInOrder
<1>2. Typed => LruConsistent
  BY <1>1 DEF Typed, LruConsistent
<1>. QED
  BY <1>2, InvHolds, PTL DEF Inv

\* Whatever times to live a value is stored with, reading it, promoting it and
\* evicting it prolong its life in either level of MultiLevelCache by less than
\* the default time of the first level after its time in Redis.
THEOREM AgeIsBounded == Spec => []AgeBounded
BY InvHolds, PTL DEF Inv, AgeInv

\* After delete or delete_pattern through a process, that process
\* finds nothing older than what was current then or under way.
THEOREM DeletesAreSeen == Spec => []FreshAfterDelete
<1>1. Inv => FreshAfterDelete
  BY DEF Inv, Typed, FreshInv, Bounds, FreshAfterDelete, Versions, MaybeEntry, Entries, LruShape, LruTyped
<1>. QED
  BY <1>1, InvHolds, PTL

\* warm_cache loads a key at most once at a time in a process,
\* and its mark goes whenever the load ends.
THEOREM LoadersAreAlone == Spec => []OneLoaderPerKey
<1>1. Inv => OneLoaderPerKey
  BY OneMarkSays DEF Inv
<1>. QED
  BY <1>1, InvHolds, PTL
=============================================================================
