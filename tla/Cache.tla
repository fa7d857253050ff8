------------------------------- MODULE Cache -------------------------------
(***************************************************************************)
(* Cache (proxy/src/Cache.cpp): the proxy's LRU cache.  accessList is the  *)
(* sequence of <<key, value>> pairs, most recently inserted first; the     *)
(* iterators of cacheMap are positions in it, so the sequence alone is the *)
(* state.  Nothing enforces m_capacity.                                    *)
(***************************************************************************)
EXTENDS Integers, Sequences

\* The keys of cacheMap.
CacheKeys(c) == {c[i][1] : i \in DOMAIN c}

\* cacheMap[key], as a position of accessList.
CachePos(c, k) == CHOOSE i \in DOMAIN c : c[i][1] = k

\* getValueWithoutPositionChange, for a key that is present.
CachedValue(c, k) == c[CachePos(c, k)][2]

\* Fault: the erased entry takes its neighbour along.
EraseTwo(c, i) == SubSeq(c, 1, i - 1) \o SubSeq(c, i + 2, Len(c))

\* accessList.erase(cacheMap[key])
EraseAt(c, i) == SubSeq(c, 1, i - 1) \o SubSeq(c, i + 1, Len(c))

\* removeKey: does nothing for a key that is absent.
removeFromCache(c, k) ==
  IF k \in CacheKeys(c) THEN EraseAt(c, CachePos(c, k)) ELSE c

\* insertIntoCache: an old entry of the key is erased, the new one goes first.
insertIntoCache(c, k, v) == <<<<k, v>>>> \o removeFromCache(c, k)

\* evictLRElementFromCache: the entry it returns (`none' when the list is
\* empty) and the list it leaves.
LREntry(c, none) == IF c = <<>> THEN none ELSE c[Len(c)]

\* Fault: the evicted entry stays in the list.
evictNothing(c) == c

evictLRElement(c) == IF c = <<>> THEN c ELSE SubSeq(c, 1, Len(c) - 1)
=============================================================================
