------------------------------ MODULE LruCache ------------------------------
(***************************************************************************)
(* The first level of the cache, an OrderedDict of at most Capacity        *)
(* entries (src/backend/app/infrastructure/cache/multi_level_cache.py,     *)
(* LRUCache): what is stored under every key, and for every key that is    *)
(* there the keys that were last used before it.                           *)
(***************************************************************************)
EXTENDS Integers, FiniteSets

CONSTANTS
  Keys,       \* keys of the cache
  None,       \* no entry
  Capacity    \* l1_capacity

ASSUME CapacityAssumption == Capacity \in Nat \ {0}

LruEmpty == [entries |-> [k \in Keys |-> None], older |-> [k \in Keys |-> {}]]

LruKeys(c) == {k \in Keys : c.entries[k] # None}

\* k becomes the last in order.
LruTouch(c, k) ==
  [c EXCEPT !.older = [j \in Keys |-> IF j = k THEN LruKeys(c) \ {k} ELSE @[j] \ {k}]]

LruDropAll(c, gone) ==
  [entries |-> [k \in Keys |-> IF k \in gone THEN None ELSE c.entries[k]],
   older   |-> [k \in Keys |-> IF k \in gone THEN {} ELSE c.older[k] \ gone]]

LruDrop(c, k) == LruDropAll(c, {k})

LruFirst_Bug(c) == CHOOSE k \in LruKeys(c) : LruKeys(c) = c.older[k] \cup {k}
LruFirst(c) == CHOOSE k \in LruKeys(c) : c.older[k] = {}

\* A key that is not in a full cache takes the place of the first in order.
LruRoom(c, k) ==
  IF Cardinality(LruKeys(c)) >= Capacity /\ c.entries[k] = None THEN LruDrop(c, LruFirst(c)) ELSE c

LruPut(c, k, entry) == LruTouch([LruRoom(c, k) EXCEPT !.entries[k] = entry], k)

\* No more keys than fit, and an order that is a total order of them.
LruInOrder(c) ==
  LET There == LruKeys(c)
  IN  /\ Cardinality(There) <= Capacity
      /\ \A k \in Keys : c.older[k] \subseteq There \ {k} /\ (k \notin There => c.older[k] = {})
      /\ \A j, k \in There : j \in c.older[k] => c.older[j] \subseteq c.older[k]
      /\ \A j, k \in There : j = k \/ j \in c.older[k] \/ k \in c.older[j]
=============================================================================
