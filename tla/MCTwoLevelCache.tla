--------------------------- MODULE MCTwoLevelCache ---------------------------
(***************************************************************************)
(* A small instance of TwoLevelCache.                                      *)
(***************************************************************************)
EXTENDS TwoLevelCache, TLC, SequencesExt

CONSTANTS k1, k2, p1, p2, c1, c2

MCPatterns == {Keys}

\* Values of one key have the default times to live; those of the other stay
\* longer in the first level and less long in Redis.
MCLifetimes ==
  [k \in Keys |-> IF k = k1 THEN {[l1 |-> 1, l2 |-> 2]} ELSE {[l1 |-> 2, l2 |-> 1]}]

Symmetry == Permutations(Processes) \cup Permutations(Callers)

-----------------------------------------------------------------------------
(* The first level against Python's OrderedDict, for four keys of which    *)
(* three fit and two values: an OrderedDict is the list of its items, the  *)
(* one that moved to the end last at its end.                              *)

Fit == 3
FourKeys == 1 .. 4
Values == {"a", "b"}

Lru == INSTANCE LruCache WITH Keys <- FourKeys, None <- "none", Capacity <- Fit

KeysOf(dict) == {dict[i].key : i \in DOMAIN dict}
Pop(dict, k) == SelectSeq(dict, LAMBDA item : item.key # k)

\* LRUCache.get of a live entry, set and delete, statement by statement.
MoveToEnd(dict, k) ==
  Pop(dict, k) \o SelectSeq(dict, LAMBDA item : item.key = k)
Set(dict, k, v) ==
  LET Room == IF Len(dict) >= Fit /\ k \notin KeysOf(dict) THEN Tail(dict) ELSE dict
  IN  Append(Pop(Room, k), [key |-> k, value |-> v])

\* A first level and the OrderedDict it stands for, before and after every call.
Called(pair) ==
  LET c == pair[1]
      dict == pair[2]
  IN  {<<Lru!LruTouch(c, k), MoveToEnd(dict, k)>> : k \in Lru!LruKeys(c)}
        \cup {<<Lru!LruPut(c, k, v), Set(dict, k, v)>> : k \in FourKeys, v \in Values}
        \cup {<<Lru!LruDrop(c, k), Pop(dict, k)>> : k \in FourKeys}

Reached[n \in Nat] ==
  IF n = 0 THEN {<<Lru!LruEmpty, <<>>>>}
  ELSE Reached[n - 1] \cup UNION {Called(pair) : pair \in Reached[n - 1]}

StandsFor(c, dict) ==
  /\ Lru!LruKeys(c) = KeysOf(dict)
  /\ \A i \in DOMAIN dict :
       /\ c.entries[dict[i].key] = dict[i].value
       /\ c.older[dict[i].key] = {dict[j].key : j \in 1 .. i - 1}
  /\ \A k \in FourKeys \ KeysOf(dict) : c.older[k] = {}

Calls == 4

LikeOrderedDict ==
  /\ \A pair \in Reached[Calls] : StandsFor(pair[1], pair[2])
  /\ Reached[Calls] = Reached[Calls - 1]

\* Whatever hits, stores, evictions and deletes come before, the first level holds
\* what an OrderedDict would, in the same order, so that the least recently used
\* key and no other makes room for a new one (LRUCache, 94-138): after
\* any sequence of four calls, and, since these reach nothing that three do not,
\* after any longer one.  The first levels of the processes never hold more
\* than fits, and have such an order, through promotions, expiries and restarts.
LruIsOrderedDict == LikeOrderedDict /\ LruConsistent
=============================================================================
