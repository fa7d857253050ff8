------------------------- MODULE WaffleProxyProofs -------------------------
(***************************************************************************)
(* Proofs about WaffleProxy, for every value of its constants: lemmas      *)
(* about its data structures (maps, the cache list, the order of the       *)
(* frequency index), and the types.                                        *)
(***************************************************************************)
EXTENDS WaffleProxy, WellFoundedInduction, SequenceTheorems, TLAPS

-----------------------------------------------------------------------------
(* Maps                                                                      *)

\* Assigning an entry of the right type keeps a map well typed.
LEMMA AssignMap ==
  ASSUME NEW K, NEW V, NEW m, IsMap(m, K, V), NEW k \in K, NEW v \in V
  PROVE  IsMap(Assign(m, k, v), K, V) /\ DOMAIN Assign(m, k, v) = DOMAIN m \cup {k}
BY DEF IsMap, Assign

\* So does erasing one.
LEMMA EraseMap ==
  ASSUME NEW K, NEW V, NEW m, IsMap(m, K, V), NEW k
  PROVE  IsMap(Erase(m, k), K, V) /\ DOMAIN Erase(m, k) = DOMAIN m \ {k}
BY DEF IsMap, Erase

\* So does erasing several.
LEMMA EraseAllMap ==
  ASSUME NEW K, NEW V, NEW m, IsMap(m, K, V), NEW S
  PROVE  IsMap(EraseAll(m, S), K, V) /\ DOMAIN EraseAll(m, S) = DOMAIN m \ S
BY DEF IsMap, EraseAll

\* So does merging another map of the type.
LEMMA MergeMap ==
  ASSUME NEW K, NEW V, NEW m, NEW n, IsMap(m, K, V), IsMap(n, K, V)
  PROVE  IsMap(Merge(m, n), K, V) /\ DOMAIN Merge(m, n) = DOMAIN m \cup DOMAIN n
BY DEF IsMap, Merge

\* The map without entries has every type.
LEMMA EmptyMapType ==
  ASSUME NEW K, NEW V
  PROVE  IsMap(EmptyMap, K, V) /\ DOMAIN EmptyMap = {}
BY DEF IsMap, EmptyMap

\* Reading a map with a default of the right type gives a value of that type.
LEMMA AtType ==
  ASSUME NEW K, NEW V, NEW m, IsMap(m, K, V), NEW k, NEW d \in V
  PROVE  At(m, k, d) \in V
BY DEF IsMap, At

-----------------------------------------------------------------------------
(* Least elements                                                            *)

\* Every non-empty set of naturals has a least element: begin() of a std::set.
LEMMA NatMin ==
  ASSUME NEW T, T \subseteq Nat, T # {}
  PROVE  \E x \in T : \A y \in T : x <= y
<1>1. PICK x \in T : \A y \in T : ~ (<<y, x>> \in OpToRel(<, Nat))
  BY NatLessThanWellFounded, WFMin
<1>2. \A y \in T : ~ (y < x)
  BY <1>1 DEF OpToRel
<1> QED
  BY <1>2

\* getOldestKey names a bucket of the item, and none is older.
LEMMA OldestKey ==
  ASSUME NEW s, NEW k, StampsOf(s, k[1]) \subseteq Nat, StampsOf(s, k[1]) # {}
  PROVE  /\ getOldestKey(s, k)[1] = k[1]
         /\ getOldestKey(s, k)[2] \in StampsOf(s, k[1])
         /\ getOldestKey(s, k) = <<getOldestKey(s, k)[1], getOldestKey(s, k)[2]>>
         /\ \A u \in StampsOf(s, k[1]) : getOldestKey(s, k)[2] <= u
<1> DEFINE T == StampsOf(s, k[1])
           t == CHOOSE t \in T : \A u \in T : t <= u
<1>1. t \in T /\ \A u \in T : t <= u
  BY NatMin
<1>2. getOldestKey(s, k) = <<k[1], t>>
  BY DEF getOldestKey
<1> HIDE DEF T, t
<1>3. getOldestKey(s, k)[1] = k[1] /\ getOldestKey(s, k)[2] = t
  BY <1>2
<1> QED
  BY <1>1, <1>2, <1>3 DEF T

\* The begin() of a non-empty part of accessTree is one of its entries, and the others
\* come after it.
LEMMA FirstEntryIn ==
  ASSUME NEW E, E \subseteq (Nat \X Nat) \X Nat, E # {}
  PROVE  /\ FirstEntry(E) \in E
         /\ \A g \in E \ {FirstEntry(E)} : freqCmp(FirstEntry(E), g)
<1> DEFINE Fs == {e[2] : e \in E}
<1>1. PICK f \in Fs : \A g \in Fs : f <= g
  <2>1. Fs \subseteq Nat /\ Fs # {}
    OBVIOUS
  <2> HIDE DEF Fs
  <2> QED
    BY <2>1, NatMin
<1> DEFINE E1 == {e \in E : e[2] = f}
           Is == {e[1][1] : e \in E1}
<1>2. PICK it \in Is : \A j \in Is : it <= j
  <2>1. Is \subseteq Nat /\ Is # {}
    BY <1>1
  <2> HIDE DEF Is
  <2> QED
    BY <2>1, NatMin
<1> DEFINE E2 == {e \in E1 : e[1][1] = it}
           Ts == {e[1][2] : e \in E2}
<1>3. PICK t \in Ts : \A u \in Ts : t <= u
  <2>1. Ts \subseteq Nat /\ Ts # {}
    BY <1>2
  <2> HIDE DEF Ts
  <2> QED
    BY <2>1, NatMin
<1>4. PICK e \in E2 : e[1][2] = t
  BY <1>3
<1>5. e \in E /\ e[2] = f /\ e[1][1] = it /\ e[1][2] = t
  BY <1>4
<1>6. ASSUME NEW g \in E \ {e}
      PROVE  freqCmp(e, g)
  <2>1. f <= g[2] /\ f \in Nat /\ g[2] \in Nat
    BY <1>1
  <2>2. CASE f < g[2]
    BY <2>2, <1>5 DEF freqCmp
  <2>3. CASE f = g[2]
    <3>1. g \in E1 /\ it <= g[1][1] /\ g[1][1] \in Nat /\ it \in Nat
      BY <2>3, <1>2
    <3>2. CASE it < g[1][1]
      BY <3>2, <2>3, <1>5 DEF freqCmp, KeyLess
    <3>3. CASE it = g[1][1]
      <4>1. g \in E2 /\ t <= g[1][2] /\ g[1][2] \in Nat /\ t \in Nat
        BY <3>1, <3>3, <1>3
      <4>2. g[1][2] # t
        BY <1>5, <2>3, <3>3
      <4> QED
        BY <4>1, <4>2, <3>3, <2>3, <1>5 DEF freqCmp, KeyLess
    <3> QED
      BY <3>1, <3>2, <3>3
  <2> QED
    BY <2>1, <2>2, <2>3
<1>7. \E x \in E : \A g \in E \ {x} : freqCmp(x, g)
  BY <1>5, <1>6
<1> QED
  BY <1>7 DEF FirstEntry

-----------------------------------------------------------------------------
(* The cache list                                                            *)

\* No key has two entries: cacheMap is a map.
CacheDistinct(c) == \A m, n \in DOMAIN c : c[m][1] = c[n][1] => m = n

\* Erasing a list node shifts the later ones.
LEMMA EraseAtEntries ==
  ASSUME NEW P, NEW c \in Seq(P), NEW n \in DOMAIN c
  PROVE  /\ EraseAt(c, n) \in Seq(P)
         /\ Len(EraseAt(c, n)) = Len(c) - 1
         /\ \A j \in 1 .. (Len(c) - 1) :
               EraseAt(c, n)[j] = IF j < n THEN c[j] ELSE c[j + 1]
<1> DEFINE a == SubSeq(c, 1, n - 1)
           b == SubSeq(c, n + 1, Len(c))
<1>1. Len(c) \in Nat /\ n \in 1 .. Len(c)
  OBVIOUS
<1>2. a \in Seq(P) /\ Len(a) = n - 1 /\ \A j \in 1 .. (n - 1) : a[j] = c[j]
  BY <1>1
<1>3. b \in Seq(P) /\ Len(b) = Len(c) - n /\ \A j \in 1 .. (Len(c) - n) : b[j] = c[n + j]
  BY <1>1
<1>4. EraseAt(c, n) = a \o b
  BY DEF EraseAt
<1> HIDE DEF a, b
<1>5. a \o b \in Seq(P) /\ Len(a \o b) = Len(c) - 1
  BY <1>1, <1>2, <1>3
<1>6. ASSUME NEW j \in 1 .. (Len(c) - 1)
      PROVE  (a \o b)[j] = IF j < n THEN c[j] ELSE c[j + 1]
  <2>1. CASE j < n
    BY <2>1, <1>1, <1>2, <1>3
  <2>2. CASE ~(j < n)
    <3>a. j - (n - 1) \in 1 .. (Len(c) - n)
      BY <2>2, <1>1
    <3>b. j \in 1 .. (Len(a) + Len(b)) /\ ~(j <= Len(a))
      BY <2>2, <1>1, <1>2, <1>3
    <3>c. (a \o b)[j] = b[j - Len(a)]
      BY <3>b, <1>2, <1>3, ConcatProperties
    <3>1. j - (n - 1) \in 1 .. (Len(c) - n) /\ (a \o b)[j] = b[j - (n - 1)]
      BY <3>a, <3>c, <1>2
    <3>d. b[j - (n - 1)] = c[n + (j - (n - 1))]
      BY <3>a, <1>3
    <3>e. n + (j - (n - 1)) = j + 1
      BY <1>1
    <3>2. b[j - (n - 1)] = c[j + 1]
      BY <3>d, <3>e
    <3> QED
      BY <2>2, <3>1, <3>2
  <2> QED
    BY <2>1, <2>2
<1> QED
  BY <1>4, <1>5, <1>6

\* What removeKey does to the cache's keys.
LEMMA RemoveFromCache ==
  ASSUME NEW P, NEW Q, NEW c \in Seq(P \X Q), NEW k
  PROVE  /\ removeFromCache(c, k) \in Seq(P \X Q)
         /\ CacheKeys(removeFromCache(c, k)) \subseteq CacheKeys(c)
         /\ CacheKeys(c) \subseteq CacheKeys(removeFromCache(c, k)) \cup {k}
         /\ CacheDistinct(c) => /\ CacheDistinct(removeFromCache(c, k))
                                /\ k \notin CacheKeys(removeFromCache(c, k))
<1>1. CASE k \notin CacheKeys(c)
  BY <1>1 DEF removeFromCache
<1>2. CASE k \in CacheKeys(c)
  <2> DEFINE n == CachePos(c, k)
             d == EraseAt(c, n)
  <2>1. n \in DOMAIN c /\ c[n][1] = k
    BY <1>2 DEF CacheKeys, CachePos
  <2>2. removeFromCache(c, k) = d
    BY <1>2 DEF removeFromCache
  <2>3. /\ d \in Seq(P \X Q)
        /\ Len(d) = Len(c) - 1
        /\ \A j \in 1 .. (Len(c) - 1) : d[j] = IF j < n THEN c[j] ELSE c[j + 1]
    BY <2>1, EraseAtEntries
  <2>4. DOMAIN c = 1 .. Len(c) /\ DOMAIN d = 1 .. (Len(c) - 1) /\ Len(c) \in Nat
    BY <2>3
  <2> HIDE DEF n, d
  <2> DEFINE at(j) == IF j < n THEN j ELSE j + 1
  <2>a. \A j \in DOMAIN d : at(j) \in DOMAIN c /\ at(j) # n /\ d[j] = c[at(j)]
    BY <2>1, <2>3, <2>4
  <2>b. \A j, m \in DOMAIN d : at(j) = at(m) => j = m
    BY <2>1, <2>4
  <2>c. \A m \in DOMAIN c : m # n => \E j \in DOMAIN d : d[j] = c[m]
    <3>1. ASSUME NEW m \in DOMAIN c, m < n
          PROVE  m \in DOMAIN d /\ d[m] = c[m]
      BY <3>1, <2>1, <2>3, <2>4
    <3>2. ASSUME NEW m \in DOMAIN c, m > n
          PROVE  m - 1 \in DOMAIN d /\ d[m - 1] = c[m]
      BY <3>2, <2>1, <2>3, <2>4
    <3> QED
      BY <3>1, <3>2, <2>1, <2>4
  <2> HIDE DEF at
  <2>5. CacheKeys(d) \subseteq CacheKeys(c)
    BY <2>a DEF CacheKeys
  <2>6. ASSUME NEW m \in DOMAIN c, c[m][1] # k
        PROVE  c[m][1] \in CacheKeys(d)
    BY <2>c, <2>1, <2>6 DEF CacheKeys
  <2>7. CacheKeys(c) \subseteq CacheKeys(d) \cup {k}
    BY <2>6 DEF CacheKeys
  <2>8. ASSUME CacheDistinct(c)
        PROVE  CacheDistinct(d) /\ k \notin CacheKeys(d)
    <3>1. CacheDistinct(d)
      BY <2>8, <2>a, <2>b DEF CacheDistinct
    <3>2. \A j \in DOMAIN d : d[j][1] # k
      BY <2>8, <2>1, <2>a DEF CacheDistinct
    <3> QED
      BY <3>1, <3>2 DEF CacheKeys
  <2> QED
    BY <1>2, <2>2, <2>3, <2>5, <2>7, <2>8
<1> QED
  BY <1>1, <1>2

\* insertIntoCache adds exactly the key, once.
LEMMA InsertIntoCache ==
  ASSUME NEW P, NEW Q, NEW c \in Seq(P \X Q), NEW k \in P, NEW v \in Q
  PROVE  /\ insertIntoCache(c, k, v) \in Seq(P \X Q)
         /\ CacheKeys(insertIntoCache(c, k, v)) = CacheKeys(c) \cup {k}
         /\ CacheDistinct(c) => CacheDistinct(insertIntoCache(c, k, v))
         /\ k \notin CacheKeys(c) => Len(insertIntoCache(c, k, v)) = Len(c) + 1
<1> DEFINE d == removeFromCache(c, k)
           e == <<<<k, v>>>> \o d
<1>1. /\ d \in Seq(P \X Q)
      /\ CacheKeys(d) \subseteq CacheKeys(c)
      /\ CacheKeys(c) \subseteq CacheKeys(d) \cup {k}
      /\ CacheDistinct(c) => CacheDistinct(d) /\ k \notin CacheKeys(d)
  BY RemoveFromCache
<1>2. insertIntoCache(c, k, v) = e /\ (k \notin CacheKeys(c) => d = c)
  BY DEF insertIntoCache, removeFromCache
<1> HIDE DEF d
<1>3. /\ e \in Seq(P \X Q)
      /\ Len(e) = Len(d) + 1
      /\ e[1] = <<k, v>>
      /\ \A j \in 1 .. Len(d) : e[j + 1] = d[j]
  BY <1>1
<1> HIDE DEF e
<1>4. DOMAIN e = 1 .. (Len(d) + 1) /\ DOMAIN d = 1 .. Len(d) /\ Len(d) \in Nat
  BY <1>1, <1>3
<1>5. \A j \in DOMAIN e : j = 1 \/ (j - 1 \in DOMAIN d /\ e[j] = d[j - 1])
  BY <1>3, <1>4
<1>6. CacheKeys(e) = CacheKeys(d) \cup {k}
  <2>1. CacheKeys(e) \subseteq CacheKeys(d) \cup {k}
    BY <1>3, <1>5 DEF CacheKeys
  <2>2. \A j \in DOMAIN d : j + 1 \in DOMAIN e /\ e[j + 1] = d[j]
    BY <1>3, <1>4
  <2>3. 1 \in DOMAIN e /\ e[1][1] = k
    BY <1>3, <1>4
  <2>4. k \in CacheKeys(e)
    BY <2>3 DEF CacheKeys
  <2>5. CacheKeys(d) \subseteq CacheKeys(e)
    BY <2>2 DEF CacheKeys
  <2> QED
    BY <2>1, <2>4, <2>5
<1>7. ASSUME CacheDistinct(c)
      PROVE  CacheDistinct(e)
  <2>1. \A j \in DOMAIN d : d[j][1] # k
    BY <1>7, <1>1 DEF CacheKeys
  <2>2. e[1][1] = k /\ CacheDistinct(d)
    BY <1>3, <1>7, <1>1
  <2>3. ASSUME NEW m \in DOMAIN e, NEW n \in DOMAIN e, e[m][1] = e[n][1]
        PROVE  m = n
    <3>1. CASE m = 1 /\ n # 1
      BY <3>1, <2>1, <2>2, <2>3, <1>5
    <3>2. CASE n = 1 /\ m # 1
      BY <3>2, <2>1, <2>2, <2>3, <1>5
    <3>3. CASE m # 1 /\ n # 1
      <4>1. m - 1 = n - 1
        BY <3>3, <2>2, <2>3, <1>5 DEF CacheDistinct
      <4> QED
        BY <4>1, <1>4
    <3> QED
      BY <3>1, <3>2, <3>3
  <2> QED
    BY <2>3 DEF CacheDistinct
<1>8. k \notin CacheKeys(c) => Len(e) = Len(c) + 1
  BY <1>1, <1>2, <1>3
<1> QED
  BY <1>1, <1>2, <1>3, <1>6, <1>7, <1>8

\* Evicting removes the last entry of the list and nothing else.
LEMMA EvictLR ==
  ASSUME NEW P, NEW Q, NEW c \in Seq(P \X Q), NEW none
  PROVE  /\ evictLRElement(c) \in Seq(P \X Q)
         /\ CacheKeys(evictLRElement(c)) \subseteq CacheKeys(c)
         /\ CacheDistinct(c) => CacheDistinct(evictLRElement(c))
         /\ LREntry(c, none) = none \/ LREntry(c, none) \in P \X Q
         /\ c # <<>> => /\ LREntry(c, none) \in P \X Q
                        /\ LREntry(c, none)[1] \in CacheKeys(c)
                        /\ Len(evictLRElement(c)) = Len(c) - 1
         /\ c # <<>> /\ CacheDistinct(c) =>
              CacheKeys(evictLRElement(c)) = CacheKeys(c) \ {LREntry(c, none)[1]}
<1>1. CASE c = <<>>
  BY <1>1 DEF evictLRElement, LREntry
<1>2. CASE c # <<>>
  <2> DEFINE d == SubSeq(c, 1, Len(c) - 1)
  <2>1. Len(c) \in Nat \ {0} /\ DOMAIN c = 1 .. Len(c) /\ c[Len(c)] \in P \X Q
    BY <1>2
  <2>2. /\ d \in Seq(P \X Q) /\ DOMAIN d = 1 .. (Len(c) - 1)
        /\ \A j \in DOMAIN d : j \in DOMAIN c /\ d[j] = c[j]
    BY <2>1
  <2>3. evictLRElement(c) = d /\ LREntry(c, none) = c[Len(c)]
    BY <1>2 DEF evictLRElement, LREntry
  <2>4. Len(d) = Len(c) - 1
    BY <2>1
  <2> HIDE DEF d
  <2>5. \A j \in DOMAIN c : j = Len(c) \/ (j \in DOMAIN d /\ j # Len(c))
    BY <2>1, <2>2
  <2>6. ASSUME CacheDistinct(c)
        PROVE  CacheKeys(d) = CacheKeys(c) \ {c[Len(c)][1]}
    <3>1. \A j \in DOMAIN d : j # Len(c) /\ Len(c) \in DOMAIN c
      BY <2>1, <2>2
    <3>2. \A j \in DOMAIN d : d[j][1] # c[Len(c)][1]
      BY <2>2, <2>6, <3>1 DEF CacheDistinct
    <3> QED
      BY <2>2, <2>5, <3>2 DEF CacheKeys
  <2>7. CacheKeys(d) \subseteq CacheKeys(c) /\ (CacheDistinct(c) => CacheDistinct(d))
    BY <2>2 DEF CacheKeys, CacheDistinct
  <2>8. c[Len(c)][1] \in CacheKeys(c)
    BY <2>1 DEF CacheKeys
  <2> QED
    BY <1>2, <2>1, <2>2, <2>3, <2>4, <2>6, <2>7, <2>8
<1> QED
  BY <1>1, <1>2

\* The value of a cached key.
LEMMA CachedValueType ==
  ASSUME NEW P, NEW Q, NEW c \in Seq(P \X Q), NEW k \in CacheKeys(c)
  PROVE  CachedValue(c, k) \in Q
<1>1. CachePos(c, k) \in DOMAIN c
  BY DEF CacheKeys, CachePos
<1> QED
  BY <1>1 DEF CachedValue

\* The keys of a cache are of its key type.
LEMMA CacheKeysType ==
  ASSUME NEW P, NEW Q, NEW c \in Seq(P \X Q)
  PROVE  CacheKeys(c) \subseteq P
BY DEF CacheKeys

\* The value found for a key is that of its one entry.
LEMMA CachedEntry ==
  ASSUME NEW c, CacheDistinct(c), NEW n \in DOMAIN c
  PROVE  CachedValue(c, c[n][1]) = c[n][2]
<1>1. CachePos(c, c[n][1]) = n
  BY DEF CachePos, CacheDistinct
<1> QED
  BY <1>1 DEF CachedValue

\* Two lists of which one holds the other's entry for a key agree on the key.
LEMMA SameEntry ==
  ASSUME NEW c, CacheDistinct(c), NEW d, CacheDistinct(d), NEW k \in CacheKeys(c),
         \A n \in DOMAIN c : c[n][1] = k => \E m \in DOMAIN d : d[m] = c[n]
  PROVE  k \in CacheKeys(d) /\ CachedValue(d, k) = CachedValue(c, k)
<1>1. PICK n \in DOMAIN c : c[n][1] = k
  BY DEF CacheKeys
<1>2. PICK m \in DOMAIN d : d[m] = c[n]
  BY <1>1
<1> QED
  BY <1>1, <1>2, CachedEntry DEF CacheKeys

\* List d holds what c holds, except perhaps for the key k.
SameBut(d, c, k) ==
  \A j \in CacheKeys(c) : j # k => j \in CacheKeys(d) /\ CachedValue(d, j) = CachedValue(c, j)

\* removeKey and insertIntoCache change no other key's value.
LEMMA RemoveKeepsValues ==
  ASSUME NEW P, NEW Q, NEW c \in Seq(P \X Q), NEW k
  PROVE  CacheDistinct(c) => SameBut(removeFromCache(c, k), c, k)
<1> SUFFICES ASSUME CacheDistinct(c), NEW j \in CacheKeys(c), j # k
             PROVE  /\ j \in CacheKeys(removeFromCache(c, k))
                    /\ CachedValue(removeFromCache(c, k), j) = CachedValue(c, j)
  BY DEF SameBut
<1>1. CASE k \notin CacheKeys(c)
  BY <1>1 DEF removeFromCache
<1>2. CASE k \in CacheKeys(c)
  <2> DEFINE n == CachePos(c, k)
             d == EraseAt(c, n)
  <2>1. n \in DOMAIN c /\ c[n][1] = k
    BY <1>2 DEF CacheKeys, CachePos
  <2>2. removeFromCache(c, k) = d
    BY <1>2 DEF removeFromCache
  <2>3. /\ d \in Seq(P \X Q)
        /\ Len(d) = Len(c) - 1
        /\ \A m \in 1 .. (Len(c) - 1) : d[m] = IF m < n THEN c[m] ELSE c[m + 1]
    BY <2>1, EraseAtEntries
  <2>4. DOMAIN c = 1 .. Len(c) /\ DOMAIN d = 1 .. (Len(c) - 1) /\ Len(c) \in Nat
    BY <2>3
  <2>5. CacheDistinct(d)
    <3>1. CacheDistinct(c) => CacheDistinct(removeFromCache(c, k))
      BY RemoveFromCache, Zenon
    <3> QED
      BY <2>2, <3>1
  <2> HIDE DEF n, d
  <2>6. ASSUME NEW m \in DOMAIN c, c[m][1] = j
        PROVE  \E l \in DOMAIN d : d[l] = c[m]
    <3>1. CASE m < n
      <4>1. m \in DOMAIN d /\ d[m] = c[m]
        BY <3>1, <2>1, <2>3, <2>4
      <4> QED
        BY <4>1
    <3>2. CASE m > n
      <4>1. m - 1 \in DOMAIN d /\ d[m - 1] = c[m]
        BY <3>2, <2>1, <2>3, <2>4
      <4> QED
        BY <4>1
    <3> QED
      BY <3>1, <3>2, <2>1, <2>4, <2>6
  <2> QED
    BY <2>2, <2>5, <2>6, SameEntry
<1> QED
  BY <1>1, <1>2

\* Inserting into the cache changes no value but that of the key.
LEMMA InsertKeepsValues ==
  ASSUME NEW P, NEW Q, NEW c \in Seq(P \X Q), NEW k \in P, NEW v \in Q
  PROVE  CacheDistinct(c) => SameBut(insertIntoCache(c, k, v), c, k)
<1> SUFFICES ASSUME CacheDistinct(c), NEW j \in CacheKeys(c), j # k
             PROVE  /\ j \in CacheKeys(insertIntoCache(c, k, v))
                    /\ CachedValue(insertIntoCache(c, k, v), j) = CachedValue(c, j)
  BY DEF SameBut
<1> DEFINE d == removeFromCache(c, k)
           e == <<<<k, v>>>> \o d
<1>1. d \in Seq(P \X Q) /\ CacheDistinct(d)
  <2>1. d \in Seq(P \X Q) /\ (CacheDistinct(c) => CacheDistinct(d))
    BY RemoveFromCache, Zenon
  <2> QED
    BY <2>1
<1>2. j \in CacheKeys(d) /\ CachedValue(d, j) = CachedValue(c, j)
  <2>1. CacheDistinct(c) => SameBut(d, c, k)
    BY RemoveKeepsValues, Zenon
  <2> HIDE DEF d
  <2> QED
    BY <2>1 DEF SameBut
<1>3. insertIntoCache(c, k, v) = e /\ CacheDistinct(e)
  <2>1. insertIntoCache(c, k, v) = e
    BY DEF insertIntoCache
  <2>2. CacheDistinct(c) => CacheDistinct(insertIntoCache(c, k, v))
    BY InsertIntoCache, Zenon
  <2> QED
    BY <2>1, <2>2
<1> HIDE DEF d
<1>4. Len(e) = Len(d) + 1 /\ \A m \in 1 .. Len(d) : e[m + 1] = d[m]
  BY <1>1
<1>5. e \in Seq(P \X Q)
  BY <1>1
<1> HIDE DEF e
<1>6. \A m \in DOMAIN d : m + 1 \in DOMAIN e /\ e[m + 1] = d[m]
  <2>1. DOMAIN d = 1 .. Len(d) /\ DOMAIN e = 1 .. Len(e) /\ Len(d) \in Nat
    BY <1>1, <1>5
  <2> QED
    BY <1>4, <2>1
<1>7. j \in CacheKeys(e) /\ CachedValue(e, j) = CachedValue(d, j)
  BY <1>1, <1>2, <1>3, <1>6, SameEntry
<1> QED
  BY <1>2, <1>3, <1>7

\* What insertIntoCache stores for its key.
LEMMA InsertedValue ==
  ASSUME NEW P, NEW Q, NEW c \in Seq(P \X Q), NEW k \in P, NEW v \in Q
  PROVE  CacheDistinct(c) => CachedValue(insertIntoCache(c, k, v), k) = v
<1> SUFFICES ASSUME CacheDistinct(c)
             PROVE  CachedValue(insertIntoCache(c, k, v), k) = v
  OBVIOUS
<1> DEFINE d == removeFromCache(c, k)
           e == <<<<k, v>>>> \o d
<1>1. d \in Seq(P \X Q)
  BY RemoveFromCache, Zenon
<1>2. CacheDistinct(c) => CacheDistinct(insertIntoCache(c, k, v))
  BY InsertIntoCache, Zenon
<1>3. insertIntoCache(c, k, v) = e
  BY DEF insertIntoCache
<1> HIDE DEF d
<1>4. 1 \in DOMAIN e /\ e[1] = <<k, v>>
  BY <1>1
<1> HIDE DEF e
<1> QED
  BY <1>2, <1>3, <1>4, CachedEntry

\* Evicting returns the value of the entry that goes and changes no other key's.
LEMMA EvictKeepsValues ==
  ASSUME NEW P, NEW Q, NEW c \in Seq(P \X Q), c # <<>>, NEW none
  PROVE  CacheDistinct(c) =>
           /\ LREntry(c, none)[2] = CachedValue(c, LREntry(c, none)[1])
           /\ SameBut(evictLRElement(c), c, LREntry(c, none)[1])
<1> SUFFICES ASSUME CacheDistinct(c)
             PROVE  /\ LREntry(c, none)[2] = CachedValue(c, LREntry(c, none)[1])
                    /\ SameBut(evictLRElement(c), c, LREntry(c, none)[1])
  OBVIOUS
<1> DEFINE d == SubSeq(c, 1, Len(c) - 1)
           x == c[Len(c)]
<1>1. Len(c) \in Nat \ {0} /\ DOMAIN c = 1 .. Len(c) /\ Len(c) \in DOMAIN c
  OBVIOUS
<1>2. DOMAIN d = 1 .. (Len(c) - 1) /\ \A j \in DOMAIN d : d[j] = c[j]
  BY <1>1
<1>3. evictLRElement(c) = d /\ LREntry(c, none) = x
  BY DEF evictLRElement, LREntry
<1>4. CacheDistinct(d)
  <2>1. CacheDistinct(c) => CacheDistinct(evictLRElement(c))
    BY EvictLR, Zenon
  <2> QED
    BY <1>3, <2>1
<1>5. CachedValue(c, x[1]) = x[2]
  BY <1>1, CachedEntry
<1> HIDE DEF d
<1>6. ASSUME NEW j \in CacheKeys(c), j # x[1]
      PROVE  j \in CacheKeys(d) /\ CachedValue(d, j) = CachedValue(c, j)
  <2>1. \A n \in DOMAIN c : c[n][1] = j => n \in DOMAIN d /\ d[n] = c[n]
    <3>1. \A n \in DOMAIN c : c[n][1] = j => n # Len(c)
      BY <1>6
    <3> QED
      BY <1>1, <1>2, <3>1
  <2> QED
    BY <1>4, <2>1, SameEntry
<1> QED
  BY <1>3, <1>5, <1>6 DEF SameBut

-----------------------------------------------------------------------------
(* Types of keys, payloads and ciphertexts                                   *)

\* Keys are pairs of naturals; NoKey is neither a real nor a fake key.
LEMMA KeyTypes ==
  /\ RealKeys \subseteq Nat \X Nat /\ FakeKeys \subseteq Nat \X Nat
  /\ RealKeys \subseteq Keys /\ FakeKeys \subseteq Keys /\ NoKey \in Keys
  /\ NoKey \notin RealKeys /\ NoValue \in Payloads
  /\ \A k \in RealKeys : k[1] \in Items /\ k[2] \in Stamps /\ k = <<k[1], k[2]>>
<1>1. Items \subseteq Nat \ {0} /\ Stamps \subseteq Nat /\ D \in Nat
  BY ConstantsAssumption
<1>2. RealKeys \subseteq Nat \X Nat /\ NoKey \notin RealKeys
  BY <1>1 DEF RealKeys, NoKey
<1>3. FakeKeys \subseteq Nat \X Nat
  BY <1>1 DEF FakeKeys
<1>4. RealKeys \subseteq Keys /\ FakeKeys \subseteq Keys /\ NoKey \in Keys
  BY DEF Keys
<1>5. NoValue \in Payloads
  BY <1>4 DEF NoValue, Payloads
<1>6. \A k \in RealKeys : k[1] \in Items /\ k[2] \in Stamps /\ k = <<k[1], k[2]>>
  BY DEF RealKeys
<1> QED
  BY <1>2, <1>3, <1>4, <1>5, <1>6

\* Encryption and decryption stay within payloads and ciphertexts.
LEMMA CryptTypes ==
  /\ \A v \in Payloads : encryptNonDeterministic(v) \in Ciphertexts
  /\ \A c \in Ciphertexts : decryptNonDeterministic(c) \in Payloads
<1>1. \A v \in Payloads : encryptNonDeterministic(v) \in Ciphertexts
  BY DEF Ciphertexts
<1>2. ASSUME NEW c \in Ciphertexts
      PROVE  decryptNonDeterministic(c) \in Payloads
  <2>1. PICK v \in Payloads : c = encryptNonDeterministic(v)
    BY DEF Ciphertexts
  <2>2. c.sealed = v
    BY <2>1 DEF encryptNonDeterministic
  <2> QED
    BY <2>2 DEF decryptNonDeterministic, Payloads
<1> QED
  BY <1>1, <1>2

-----------------------------------------------------------------------------
(* The methods of FrequencySmoother keep its type                            *)

\* The parts of a well-typed smoother, and what reading it returns.
LEMMA SmootherParts ==
  ASSUME NEW s, NEW K, NEW N, SmootherOK(s, K, N)
  PROVE  /\ IsMap(s.accessFreqs, K \cup {NoKey}, Nat)
         /\ s.accessTree \subseteq K \X Nat
         /\ IsMap(s.stamps, N, SUBSET Stamps)
         /\ \A k : getFrequency(s, k) \in Nat
         /\ \A item : StampsOf(s, item) \in SUBSET Stamps
<1>1. /\ IsMap(s.accessFreqs, K \cup {NoKey}, Nat)
      /\ s.accessTree \subseteq K \X Nat
      /\ IsMap(s.stamps, N, SUBSET Stamps)
  BY DEF SmootherOK
<1>2. \A k : getFrequency(s, k) \in Nat
  BY <1>1, AtType DEF getFrequency
<1>3. \A item : StampsOf(s, item) \in SUBSET Stamps
  BY <1>1, AtType DEF StampsOf
<1> QED
  BY <1>1, <1>2, <1>3

\* A record of the three parts is a smoother.
LEMMA SmootherMake ==
  ASSUME NEW K, NEW N, NEW f, NEW t, NEW st,
         IsMap(f, K \cup {NoKey}, Nat), t \subseteq K \X Nat, IsMap(st, N, SUBSET Stamps)
  PROVE  SmootherOK([accessFreqs |-> f, accessTree |-> t, stamps |-> st], K, N)
BY DEF SmootherOK

\* getFrequency, which may make a zero entry, keeps the smoother's type.
LEMMA TouchType ==
  ASSUME NEW s, NEW K, NEW N, SmootherOK(s, K, N), NEW k \in K \cup {NoKey}
  PROVE  SmootherOK(Touch(s, k), K, N)
<1>1. IsMap(Assign(s.accessFreqs, k, getFrequency(s, k)), K \cup {NoKey}, Nat)
  BY SmootherParts, AssignMap
<1> QED
  BY <1>1, SmootherParts, SmootherMake DEF Touch

\* So does get_timestamp_for_key, which may make an empty entry.
LEMMA TouchStampsType ==
  ASSUME NEW s, NEW K, NEW N, SmootherOK(s, K, N), NEW item \in N
  PROVE  SmootherOK(TouchStamps(s, item), K, N)
<1>1. IsMap(Assign(s.stamps, item, StampsOf(s, item)), N, SUBSET Stamps)
  BY SmootherParts, AssignMap
<1> QED
  BY <1>1, SmootherParts, SmootherMake DEF TouchStamps

\* So does insert.
LEMMA InsertType ==
  ASSUME NEW s, NEW K, NEW N, SmootherOK(s, K, N), NEW k \in K, k[1] \in N, k[2] \in Stamps
  PROVE  SmootherOK(insert(s, k), K, N)
<1>1. IsMap(Assign(s.accessFreqs, k, 0), K \cup {NoKey}, Nat)
  BY SmootherParts, AssignMap
<1>2. StampsOf(s, k[1]) \cup {k[2]} \in SUBSET Stamps
  BY SmootherParts
<1>3. IsMap(Assign(s.stamps, k[1], StampsOf(s, k[1]) \cup {k[2]}), N, SUBSET Stamps)
  BY <1>2, SmootherParts, AssignMap
<1>4. s.accessTree \subseteq K \X Nat
  BY SmootherParts
<1>5. s.accessTree \cup {<<k, 0>>} \subseteq K \X Nat
  BY <1>4
<1> QED
  BY <1>1, <1>3, <1>5, SmootherMake DEF insert

\* So does setFrequency.
LEMMA SetFrequencyType ==
  ASSUME NEW s, NEW K, NEW N, SmootherOK(s, K, N), NEW k \in K, NEW v \in Nat
  PROVE  SmootherOK(setFrequency(s, k, v), K, N)
<1>1. IsMap(Assign(s.accessFreqs, k, v), K \cup {NoKey}, Nat)
  BY SmootherParts, AssignMap
<1>2. s.accessTree \subseteq K \X Nat
  BY SmootherParts
<1>3. (s.accessTree \ {<<k, getFrequency(s, k)>>}) \cup {<<k, v>>} \subseteq K \X Nat
  BY <1>2
<1> QED
  BY <1>1, <1>3, SmootherParts, SmootherMake DEF setFrequency

\* So does removeKey.
LEMMA RemoveKeyType ==
  ASSUME NEW s, NEW K, NEW N, SmootherOK(s, K, N), NEW k \in K, k[1] \in N
  PROVE  SmootherOK(removeKey(s, k), K, N)
<1> DEFINE left == StampsOf(s, k[1]) \ {k[2]}
           st   == IF left = {} THEN Erase(s.stamps, k[1]) ELSE Assign(s.stamps, k[1], left)
<1>1. IsMap(Erase(s.accessFreqs, k), K \cup {NoKey}, Nat)
  BY SmootherParts, EraseMap
<1>2. left \in SUBSET Stamps
  BY SmootherParts
<1>3. IsMap(st, N, SUBSET Stamps)
  BY <1>2, SmootherParts, AssignMap, EraseMap
<1>4. s.accessTree \ {<<k, getFrequency(s, k)>>} \subseteq K \X Nat
  BY SmootherParts
<1>5. removeKey(s, k) = [accessFreqs |-> Erase(s.accessFreqs, k),
                         accessTree  |-> s.accessTree \ {<<k, getFrequency(s, k)>>},
                         stamps      |-> st]
  BY DEF removeKey
<1> HIDE DEF st, left
<1> QED
  BY <1>1, <1>3, <1>4, <1>5, SmootherMake

-----------------------------------------------------------------------------
(* The methods of ThreadSafeUnorderedMap keep its type                       *)

\* The parts of a well-typed table of running keys.
LEMMA RunningParts ==
  ASSUME NEW rk, RunningOK(rk)
  PROVE  /\ rk.m_map_ \subseteq Keys
         /\ IsMap(rk.get_map, RealKeys, SUBSET Nat)
         /\ IsMap(rk.request_map, Nat, SUBSET RealKeys)
         /\ IsMap(rk.get_cache, RealKeys, Payloads)
BY DEF RunningOK

\* A record of the four parts is such a table.
LEMMA RunningMake ==
  ASSUME NEW a, NEW b, NEW c, NEW d,
         a \subseteq Keys, IsMap(b, RealKeys, SUBSET Nat),
         IsMap(c, Nat, SUBSET RealKeys), IsMap(d, RealKeys, Payloads)
  PROVE  RunningOK([m_map_ |-> a, get_map |-> b, request_map |-> c, get_cache |-> d])
BY DEF RunningOK

\* insertIfNotPresent keeps the table's type.
LEMMA InsertRunningType ==
  ASSUME NEW rk, RunningOK(rk), NEW S \in SUBSET Keys
  PROVE  /\ RunningOK(insertAllIfNotPresent(rk, S))
         /\ \A k \in S : RunningOK(insertIfNotPresent(rk, k))
BY RunningParts, RunningMake DEF insertAllIfNotPresent, insertIfNotPresent

\* Adding a key to a request keeps request_map's type.
LEMMA PushedType ==
  ASSUME NEW m, IsMap(m, Nat, SUBSET RealKeys), NEW r \in Nat, NEW k \in RealKeys
  PROVE  IsMap(Pushed(m, r, k), Nat, SUBSET RealKeys)
<1>1. At(m, r, {}) \in SUBSET RealKeys
  BY AtType
<1>2. At(m, r, {}) \cup {k} \in SUBSET RealKeys
  BY <1>1
<1> QED
  BY <1>2, AssignMap DEF Pushed

\* Registering a GET for a key keeps the table's type.
LEMMA InsertGetType ==
  ASSUME NEW rk, RunningOK(rk), NEW k \in RealKeys, NEW r \in Nat
  PROVE  RunningOK(insertGet(rk, k, r))
<1>1. At(rk.get_map, k, {}) \in SUBSET Nat
  BY RunningParts, AtType
<1>2. At(rk.get_map, k, {}) \cup {r} \in SUBSET Nat
  BY <1>1
<1>3. IsMap(Assign(rk.get_map, k, At(rk.get_map, k, {}) \cup {r}), RealKeys, SUBSET Nat)
  BY <1>2, RunningParts, AssignMap
<1> QED
  BY <1>3, RunningParts, PushedType, RunningMake DEF insertGet

\* So does insert_cache.
LEMMA InsertCacheType ==
  ASSUME NEW rk, RunningOK(rk), NEW k \in RealKeys, NEW r \in Nat, NEW v \in Payloads
  PROVE  RunningOK(insert_cache(rk, r, k, v))
<1>1. IsMap(Assign(rk.get_cache, k, v), RealKeys, Payloads)
  BY RunningParts, AssignMap
<1> QED
  BY <1>1, RunningParts, PushedType, RunningMake DEF insert_cache

\* So does erasing the answered requests.
LEMMA ForgetType ==
  ASSUME NEW rk, RunningOK(rk), NEW done
  PROVE  RunningOK(Forget(rk, done))
<1> DEFINE left == EraseAll(rk.request_map, done)
           gm   == IF DOMAIN left = {} THEN EmptyMap ELSE rk.get_map
           gc   == IF DOMAIN left = {} THEN EmptyMap ELSE rk.get_cache
<1>1. IsMap(left, Nat, SUBSET RealKeys)
  BY RunningParts, EraseAllMap
<1>2. IsMap(gm, RealKeys, SUBSET Nat) /\ IsMap(gc, RealKeys, Payloads)
  BY RunningParts, EmptyMapType
<1>3. Forget(rk, done) = [m_map_ |-> rk.m_map_, get_map |-> gm,
                          request_map |-> left, get_cache |-> gc]
  BY DEF Forget
<1> HIDE DEF left, gm, gc
<1> QED
  BY <1>1, <1>2, <1>3, RunningParts, RunningMake

\* So does tryClearPromises.
LEMMA ArrivedType ==
  ASSUME NEW rk, RunningOK(rk), NEW k, NEW v \in Payloads
  PROVE  RunningOK(Arrived(rk, k, v)) /\ RunningOK(tryClearPromises(rk, k, v))
<1> DEFINE gc == IF k \in DOMAIN rk.get_map THEN Assign(rk.get_cache, k, v) ELSE rk.get_cache
<1>1. DOMAIN rk.get_map \subseteq RealKeys
  BY RunningParts DEF IsMap
<1>2. IsMap(gc, RealKeys, Payloads)
  BY <1>1, RunningParts, AssignMap
<1>3. Arrived(rk, k, v) = [m_map_ |-> rk.m_map_ \ {k}, get_map |-> rk.get_map,
                           request_map |-> rk.request_map, get_cache |-> gc]
  BY DEF Arrived
<1> HIDE DEF gc
<1>4. RunningOK(Arrived(rk, k, v))
  BY <1>2, <1>3, RunningParts, RunningMake
<1> QED
  BY <1>4, ForgetType DEF tryClearPromises

-----------------------------------------------------------------------------
(* Type correctness.  TypeOK is not inductive: that a real key enters the    *)
(* cache depends on where execute_batch is in storage_keys.                  *)

\* What each part of the consumer's loop has in hand: no ids before the batch
\* reads, no answers outside the response loop, a non-empty GET while splitting,
\* the NumReal real keys before the fakes, and a fake key to choose.
Shape ==
  /\ pc \in {"collect", "split"} => storage_keys = <<>>
  /\ pc # "apply" => responses = <<>>
  /\ pc = "split" => split # {}
  /\ pc \in {"read", "apply"} =>
       \A n \in DOMAIN storage_keys :
         storage_keys[n][1] \in IF n <= NumReal THEN RealKeys ELSE FakeKeys
  /\ pc = "apply" => Len(responses) <= Len(storage_keys)
  /\ D > 0 => fakeBst.accessTree # {}

TypeInv == TypeOK /\ Shape

\* FakeReals, in size_t arithmetic, is never negative.
LEMMA NumRealType ==
  ASSUME TypeInv
  PROVE  FakeReals \in Nat /\ NumReal \in Nat /\ Len(storage_batch) <= NumReal
<1>1. Len(storage_batch) \in Nat
  BY DEF TypeInv, TypeOK
<1>2. FakeReals \in Nat
  <2>1. B - (Len(storage_batch) + F) \in Int /\ SizeMax \in Nat \ {0}
    BY <1>1, ConstantsAssumption
  <2> QED
    BY <2>1, SMTT(30) DEF FakeReals
<1> QED
  BY <1>1, <1>2 DEF NumReal

\* A held bucket's payload is a payload.
LEMMA HeldValueType ==
  ASSUME TypeInv, NEW k, Held(k)
  PROVE  HeldValue(k) \in Payloads
<1>1. CASE k \in CacheKeys(cache)
  <2>1. cache \in Seq(RealKeys \X Payloads)
    BY DEF TypeInv, TypeOK
  <2>2. CachedValue(cache, k) \in Payloads
    BY <1>1, <2>1, CachedValueType
  <2> QED
    BY <1>1, <2>2 DEF HeldValue
<1>2. CASE k \notin CacheKeys(cache)
  BY <1>2 DEF TypeInv, TypeOK, IsMap, Held, HeldValue
<1> QED
  BY <1>1, <1>2

\* The answers recorded for finished requests are those of known requests.
LEMMA AnsweredType ==
  ASSUME TypeInv, NEW rk, NEW done \in SUBSET Nat
  PROVE  DOMAIN Answered(rk, done) \subseteq Nat
<1>1. DOMAIN answers \subseteq Nat
  BY DEF TypeInv, TypeOK
<1>2. DOMAIN Answered(rk, done) = DOMAIN answers \cup done
  BY DEF Answered
<1> QED
  BY <1>1, <1>2

\* init establishes the types.
LEMMA InitType == Init => TypeInv
<1> SUFFICES ASSUME Init
             PROVE  TypeInv
  OBVIOUS
<1>1. SmootherOK(realBst, RealKeys, Items)
  <2>1. IsMap([k \in InitKeys |-> 0], RealKeys \cup {NoKey}, Nat)
    BY ConstantsAssumption DEF IsMap
  <2>2. InitKeys \X {0} \subseteq RealKeys \X Nat
    BY ConstantsAssumption
  <2>3. IsMap(LoadedStamps, Items, SUBSET Stamps)
    <3>1. \A k \in InitKeys : k[1] \in Items /\ k[2] \in Stamps
      BY ConstantsAssumption, KeyTypes
    <3> QED
      BY <3>1 DEF IsMap, LoadedStamps
  <2> QED
    BY <2>1, <2>2, <2>3, SmootherMake DEF Init, Loaded
<1>2. SmootherOK(fakeBst, FakeKeys, {})
  <2>1. IsMap([k \in FakeKeys |-> 0], FakeKeys \cup {NoKey}, Nat)
    BY DEF IsMap
  <2>2. FakeKeys \X {0} \subseteq FakeKeys \X Nat
    OBVIOUS
  <2>3. IsMap(EmptyMap, {}, SUBSET Stamps)
    BY EmptyMapType
  <2> QED
    BY <2>1, <2>2, <2>3, SmootherMake DEF Init, Loaded
<1>3. D > 0 => fakeBst.accessTree # {}
  <2>1. fakeBst.accessTree = FakeKeys \X {0}
    BY DEF Init, Loaded
  <2>2. D > 0 => <<0, 1>> \in FakeKeys
    BY ConstantsAssumption DEF FakeKeys
  <2>3. D > 0 => <<<<0, 1>>, 0>> \in FakeKeys \X {0}
    BY <2>2
  <2> QED
    BY <2>1, <2>3
<1>4. PICK c \in Placements :
        /\ cache = [n \in 1 .. CacheSize |-> <<c[n], <<c[n], InitVersion>>>>]
        /\ server = [id \in ((InitKeys \ {c[n] : n \in 1 .. CacheSize}) \cup FakeKeys) \X {0}
                       |-> encryptNonDeterministic(<<id[1], InitVersion>>)]
  BY DEF Init
<1>5. cache \in Seq(RealKeys \X Payloads)
  <2>1. \A n \in 1 .. CacheSize : c[n] \in RealKeys /\ c[n] \in Keys
    BY ConstantsAssumption, KeyTypes DEF Placements
  <2>2. \A n \in 1 .. CacheSize : <<c[n], <<c[n], InitVersion>>>> \in RealKeys \X Payloads
    BY <2>1 DEF Payloads
  <2>3. CacheSize \in Nat
    BY ConstantsAssumption
  <2> QED
    BY <1>4, <2>2, <2>3
<1>6. IsMap(server, StorageIds, Ciphertexts)
  <2>1. (InitKeys \ {c[n] : n \in 1 .. CacheSize}) \cup FakeKeys \subseteq Keys
    BY ConstantsAssumption, KeyTypes
  <2>2. \A k \in Keys : encryptNonDeterministic(<<k, InitVersion>>) \in Ciphertexts
    BY CryptTypes DEF Payloads
  <2> QED
    BY <1>4, <2>1, <2>2 DEF IsMap, StorageIds
<1>7. RunningOK(runningKeys)
  BY EmptyMapType, RunningMake DEF Init, EmptyRunning
<1>8. /\ IsMap(EvictedItems, RealKeys \cup {NoKey}, Payloads)
      /\ IsMap(writeBatch, StorageIds, Ciphertexts)
      /\ IsMap(promiseSatisfy, Keys, Payloads)
      /\ DOMAIN asked = {} /\ DOMAIN answers = {}
  BY EmptyMapType DEF Init
<1> QED
  BY <1>1, <1>2, <1>3, <1>5, <1>6, <1>7, <1>8 DEF Init, TypeInv, TypeOK, Shape

\* PopGet keeps the types.
LEMMA PopGetType ==
  ASSUME TypeInv, NEW item \in Items, NEW start, NEW end, PopGet(item, start, end)
  PROVE  TypeInv'
<1>1. SmootherOK(realBst', RealKeys, Items)
  BY TouchStampsType DEF TypeInv, TypeOK, PopGet
<1>2. split' \subseteq RealKeys
  <2>1. StampsOf(realBst, item) \in SUBSET Stamps
    BY SmootherParts DEF TypeInv, TypeOK
  <2> QED
    BY <2>1 DEF PopGet, get_split_keys, RealKeys
<1>3. /\ request_id' \in Nat /\ broken' \subseteq Nat /\ DOMAIN asked' \subseteq Nat
      /\ pc' \in {"collect", "split"} /\ pc = "collect"
      /\ pc' = "split" => split' # {}
  <2>1. CASE split' = {}
    <3>1. request_id \in Nat /\ broken \subseteq Nat /\ DOMAIN asked \subseteq Nat
      BY DEF TypeInv, TypeOK
    <3>2. /\ broken' = broken \cup {request_id} /\ request_id' = request_id + 1
          /\ pc' = pc /\ asked' = asked /\ pc = "collect"
      BY <2>1 DEF PopGet, Collecting
    <3> QED
      BY <3>1, <3>2
  <2>2. CASE split' # {}
    <3>1. DOMAIN asked' = DOMAIN asked \cup {request_id}
      BY <2>2 DEF PopGet, Assign
    <3> QED
      BY <2>2, <3>1 DEF TypeInv, TypeOK, PopGet, Collecting
  <2> QED
    BY <2>1, <2>2
<1> QED
  BY <1>1, <1>2, <1>3
  DEF TypeInv, TypeOK, Shape, PopGet, storeVars, batchVars

\* The next bucket of the GET being split is one of its buckets.
LEMMA SplitChoice ==
  ASSUME TypeInv, pc = "split"
  PROVE  (CHOOSE k \in split : \A j \in split : k[2] <= j[2]) \in split
<1>1. split \subseteq RealKeys /\ split # {}
  BY DEF TypeInv, TypeOK, Shape
<1> DEFINE T == {j[2] : j \in split}
<1>2. T \subseteq Nat /\ T # {}
  BY <1>1, KeyTypes, ConstantsAssumption
<1>3. \E t \in T : \A u \in T : t <= u
  <2> HIDE DEF T
  <2> QED
    BY <1>2, NatMin
<1>4. \E j \in split : \A l \in split : j[2] <= l[2]
  BY <1>3
<1> QED
  BY <1>4

\* SubGet keeps the types.
LEMMA SubGetType ==
  ASSUME TypeInv, SubGet
  PROVE  TypeInv'
<1> DEFINE k == CHOOSE k \in split : \A j \in split : k[2] <= j[2]
<1>1. k \in RealKeys
  BY SplitChoice DEF SubGet, TypeInv, TypeOK
<1> HIDE DEF k
<1>2. RunningOK(runningKeys) /\ request_id \in Nat /\ split \subseteq RealKeys
  BY DEF TypeInv, TypeOK
<1>3. /\ RunningOK(runningKeys') /\ storage_batch' \in Seq(RealKeys)
      /\ DOMAIN answers' \subseteq Nat /\ status' \in {"up", "crashed"}
  <2>1. CASE ~KeyExists(realBst, k)
    <3>1. DOMAIN answers' = DOMAIN answers \cup {request_id}
      BY <2>1 DEF SubGet, Assign, k
    <3>2. runningKeys' = runningKeys /\ storage_batch' = storage_batch
          /\ status' \in {"up", "crashed"}
      BY <2>1 DEF SubGet, k
    <3> QED
      BY <3>1, <3>2, <1>2 DEF TypeInv, TypeOK
  <2>2. CASE KeyExists(realBst, k) /\ Held(k)
    <3>1. /\ runningKeys' = insert_cache(runningKeys, request_id, k, HeldValue(k))
          /\ storage_batch' = storage_batch /\ answers' = answers
          /\ status' \in {"up", "crashed"}
      BY <2>2 DEF SubGet, k
    <3>2. HeldValue(k) \in Payloads
      BY <2>2, HeldValueType
    <3> QED
      BY <3>1, <3>2, <1>1, <1>2, InsertCacheType DEF TypeInv, TypeOK
  <2>3. CASE KeyExists(realBst, k) /\ ~Held(k)
    <3>1. /\ runningKeys' = insertGet(runningKeys, k, request_id)
          /\ storage_batch' = storage_batch \/ storage_batch' = Append(storage_batch, k)
          /\ answers' = answers /\ status' = status
      BY <2>3 DEF SubGet, k
    <3>2. /\ storage_batch \in Seq(RealKeys) /\ DOMAIN answers \subseteq Nat
          /\ status \in {"up", "crashed"}
      BY DEF TypeInv, TypeOK
    <3>3. Append(storage_batch, k) \in Seq(RealKeys)
      BY <3>2, <1>1
    <3>4. RunningOK(insertGet(runningKeys, k, request_id))
      BY <1>1, <1>2, InsertGetType
    <3> QED
      BY <3>1, <3>2, <3>3, <3>4
  <2> QED
    BY <2>1, <2>2, <2>3
<1>4. /\ pc = "split" /\ i' = i + 1 /\ split' \subseteq RealKeys
      /\ pc' \in {"collect", "split"} /\ request_id' \in Nat
      /\ pc' = "split" => split' # {}
  <2>1. pc = "split" /\ i' = i + 1 /\ split' = split \ {k}
    BY DEF SubGet, k
  <2>2. CASE split' = {}
    BY <2>1, <2>2, <1>2 DEF SubGet
  <2>3. CASE split' # {}
    BY <2>1, <2>3, <1>2 DEF SubGet
  <2> QED
    BY <2>1, <2>2, <2>3, <1>2
<1> QED
  BY <1>3, <1>4 DEF TypeInv, TypeOK, Shape, SubGet, bstVars, storeVars

\* PopPut keeps the types.
LEMMA PopPutType ==
  ASSUME TypeInv, NEW k \in RealKeys, NEW version \in Versions, PopPut(k, version)
  PROVE  TypeInv'
<1>1. CASE StampsOf(realBst, k[1]) = {}
  BY <1>1 DEF TypeInv, TypeOK, Shape, PopPut, Collecting, storeVars, getVars
<1>2. CASE StampsOf(realBst, k[1]) # {}
  <2> DEFINE old   == getOldestKey(realBst, k)
             drop  == Held(old)
             left  == IF drop /\ old \notin DOMAIN EvictedItems
                        THEN removeFromCache(cache, old) ELSE cache
             known == IF drop THEN removeKey(realBst, old) ELSE realBst
  <2>1. /\ IF drop THEN DropHeld(old) ELSE DropLater(old)
        /\ cache' = insertIntoCache(left, k, <<k, version>>)
        /\ realBst' = setFrequency(insert(known, k), k, timeStamp)
        /\ status' = status
    BY <1>2 DEF PopPut
  <2>2. k[1] \in Items /\ k[2] \in Stamps /\ Stamps \subseteq Nat
    BY KeyTypes, ConstantsAssumption
  <2>3. SmootherOK(realBst, RealKeys, Items) /\ StampsOf(realBst, k[1]) \in SUBSET Stamps
    BY SmootherParts DEF TypeInv, TypeOK
  <2>4. old \in RealKeys /\ old[1] \in Items
    BY <1>2, <2>2, <2>3, OldestKey DEF RealKeys
  <2> HIDE DEF old
  <2>5. SmootherOK(realBst', RealKeys, Items)
    <3>1. SmootherOK(known, RealKeys, Items)
      BY <2>3, <2>4, RemoveKeyType
    <3> HIDE DEF known
    <3>2. SmootherOK(insert(known, k), RealKeys, Items)
      BY <3>1, <2>2, InsertType
    <3>3. timeStamp \in Nat
      BY DEF TypeInv, TypeOK
    <3> QED
      BY <3>2, <3>3, <2>1, SetFrequencyType
  <2>6. cache' \in Seq(RealKeys \X Payloads)
    <3>1. cache \in Seq(RealKeys \X Payloads)
      BY DEF TypeInv, TypeOK
    <3>2. left \in Seq(RealKeys \X Payloads)
      BY <3>1, RemoveFromCache
    <3>3. <<k, version>> \in Payloads
      BY KeyTypes DEF Payloads
    <3> HIDE DEF left
    <3> QED
      BY <3>2, <3>3, <2>1, InsertIntoCache
  <2>7. /\ IsMap(EvictedItems', RealKeys \cup {NoKey}, Payloads)
        /\ RunningOK(runningKeys')
        /\ keys_to_be_deleted' \subseteq RealKeys
        /\ storage_batch' \in Seq(RealKeys)
    <3>a. /\ IsMap(EvictedItems, RealKeys \cup {NoKey}, Payloads)
          /\ RunningOK(runningKeys)
          /\ keys_to_be_deleted \subseteq RealKeys
          /\ storage_batch \in Seq(RealKeys)
      BY DEF TypeInv, TypeOK
    <3>1. CASE drop
      <4>1. IsMap(Erase(EvictedItems, old), RealKeys \cup {NoKey}, Payloads)
        BY <3>a, EraseMap
      <4> QED
        BY <3>1, <4>1, <3>a, <2>1 DEF DropHeld
    <3>2. CASE ~drop
      <4>1. RunningOK(insertIfNotPresent(runningKeys, old))
        BY <3>a, <2>4, KeyTypes, InsertRunningType
      <4>2. Append(storage_batch, old) \in Seq(RealKeys)
        BY <3>a, <2>4
      <4> QED
        BY <3>2, <4>1, <4>2, <3>a, <2>1, <2>4 DEF DropLater
    <3> QED
      BY <3>1, <3>2
  <2> HIDE DEF drop, left, known
  <2> QED
    BY <2>1, <2>5, <2>6, <2>7
    DEF TypeInv, TypeOK, Shape, PopPut, Collecting, getVars
<1> QED
  BY <1>1, <1>2

\* StartBatch keeps the types.
LEMMA StartBatchType ==
  ASSUME TypeInv, StartBatch
  PROVE  TypeInv'
<1>1. RunningOK(runningKeys) /\ timeStamp \in Nat
  BY DEF TypeInv, TypeOK
<1>2. RunningOK(runningKeys')
  BY <1>1, ForgetType DEF StartBatch, tryClearAllPromises
<1>3. FulfilledAll(runningKeys) \in SUBSET Nat
  BY <1>1, RunningParts DEF FulfilledAll, IsMap
<1>4. DOMAIN answers' \subseteq Nat
  BY <1>3, AnsweredType DEF StartBatch
<1>5. timeStamp' \in Nat /\ pc = "collect" /\ pc' = "read"
  BY <1>1 DEF StartBatch
<1> QED
  BY <1>2, <1>4, <1>5
  DEF TypeInv, TypeOK, Shape, StartBatch, bstVars, storeVars, getVars, batchVars

\* Reading one more id: the ids already read keep their places.
LEMMA AppendId ==
  ASSUME TypeInv, NEW id \in StorageIds, pc = "read",
         id[1] \in IF Len(storage_keys) < NumReal THEN RealKeys ELSE FakeKeys
  PROVE  /\ Append(storage_keys, id) \in Seq(StorageIds)
         /\ \A n \in DOMAIN Append(storage_keys, id) :
              Append(storage_keys, id)[n][1] \in IF n <= NumReal THEN RealKeys ELSE FakeKeys
<1>1. storage_keys \in Seq(StorageIds) /\ Len(storage_keys) \in Nat
  BY DEF TypeInv, TypeOK
<1>2. /\ Append(storage_keys, id) \in Seq(StorageIds)
      /\ DOMAIN Append(storage_keys, id) = 1 .. (Len(storage_keys) + 1)
      /\ Append(storage_keys, id)[Len(storage_keys) + 1] = id
      /\ \A n \in 1 .. Len(storage_keys) :
            n \in DOMAIN storage_keys /\ Append(storage_keys, id)[n] = storage_keys[n]
  BY <1>1
<1>3. \A n \in DOMAIN storage_keys :
        storage_keys[n][1] \in IF n <= NumReal THEN RealKeys ELSE FakeKeys
  BY DEF TypeInv, Shape
<1>4. NumReal \in Nat
  BY NumRealType
<1>5. ASSUME NEW n \in 1 .. (Len(storage_keys) + 1)
      PROVE  Append(storage_keys, id)[n][1] \in IF n <= NumReal THEN RealKeys ELSE FakeKeys
  <2>1. CASE n = Len(storage_keys) + 1
    <3>1. n <= NumReal <=> Len(storage_keys) < NumReal
      BY <2>1, <1>1, <1>4
    <3> QED
      BY <2>1, <3>1, <1>2
  <2>2. CASE n # Len(storage_keys) + 1
    <3>1. n \in 1 .. Len(storage_keys)
      BY <2>2, <1>1
    <3> QED
      BY <3>1, <1>2, <1>3
  <2> QED
    BY <2>1, <2>2
<1> QED
  BY <1>2, <1>5

\* ReadOperation keeps the types.
LEMMA ReadOperationType ==
  ASSUME TypeInv, ReadOperation
  PROVE  TypeInv'
<1> DEFINE k  == storage_batch[Len(storage_keys) + 1]
           id == <<k, getFrequency(realBst, k)>>
<1>1. /\ storage_keys \in Seq(StorageIds) /\ storage_batch \in Seq(RealKeys)
      /\ Len(storage_keys) \in Nat /\ Len(storage_batch) \in Nat
      /\ SmootherOK(realBst, RealKeys, Items) /\ timeStamp \in Nat
  BY DEF TypeInv, TypeOK
<1>2. /\ Len(storage_keys) < Len(storage_batch) /\ pc = "read"
      /\ storage_keys' = Append(storage_keys, id)
      /\ realBst' = setFrequency(realBst, k, timeStamp)
  BY DEF ReadOperation
<1>3. k \in RealKeys
  BY <1>1, <1>2
<1> HIDE DEF k
<1>4. id \in StorageIds /\ id[1] = k
  BY <1>1, <1>3, SmootherParts, KeyTypes DEF StorageIds
<1> HIDE DEF id
<1>5. SmootherOK(realBst', RealKeys, Items)
  BY <1>1, <1>2, <1>3, SetFrequencyType
<1>6. Len(storage_keys) < NumReal
  BY <1>1, <1>2, NumRealType
<1>7. /\ storage_keys' \in Seq(StorageIds)
      /\ \A n \in DOMAIN storage_keys' :
           storage_keys'[n][1] \in IF n <= NumReal THEN RealKeys ELSE FakeKeys
  BY <1>2, <1>3, <1>4, <1>6, AppendId
<1>8. NumReal' = NumReal
  BY DEF ReadOperation, NumReal, FakeReals
<1> QED
  BY <1>2, <1>5, <1>7, <1>8 DEF TypeInv, TypeOK, Shape, ReadOperation, storeVars, getVars

\* ReadFakeReal keeps the types.
LEMMA ReadFakeRealType ==
  ASSUME TypeInv, ReadFakeReal
  PROVE  TypeInv'
<1> DEFINE free == {e \in OnServer : ~isPresent(runningKeys, e[1])}
           e    == FirstEntry(free)
           k    == e[1]
           past == {f \in OnServer : f = e \/ freqCmp(f, e)}
           id   == <<k, getFrequency(realBst, k)>>
<1>1. /\ SmootherOK(realBst, RealKeys, Items) /\ RunningOK(runningKeys) /\ timeStamp \in Nat
  BY DEF TypeInv, TypeOK
<1>2. pc = "read" /\ Len(storage_keys) < NumReal
  BY DEF ReadFakeReal
<1>3. NumReal' = NumReal
  BY DEF ReadFakeReal, NumReal, FakeReals
<1>4. CASE free = {}
  BY <1>4, <1>3 DEF TypeInv, TypeOK, Shape, ReadFakeReal, storeVars, getVars
<1>5. CASE free # {}
  <2>1. /\ storage_keys' = Append(storage_keys, id)
        /\ realBst' = setFrequency(realBst, k, timeStamp)
        /\ runningKeys' = insertAllIfNotPresent(runningKeys, {f[1] : f \in past})
        /\ status' = status
    BY <1>5 DEF ReadFakeReal
  <2>2. OnServer \subseteq RealKeys \X Nat
    BY <1>1, SmootherParts DEF OnServer
  <2>3. e \in free
    <3>1. free \subseteq (Nat \X Nat) \X Nat
      BY <2>2, KeyTypes
    <3> HIDE DEF free
    <3> QED
      BY <3>1, <1>5, FirstEntryIn
  <2>4. k \in RealKeys /\ {f[1] : f \in past} \in SUBSET Keys
    BY <2>2, <2>3, KeyTypes
  <2> HIDE DEF free, e, k, past
  <2>5. id \in StorageIds /\ id[1] = k
    BY <1>1, <2>4, SmootherParts, KeyTypes DEF StorageIds
  <2> HIDE DEF id
  <2>6. SmootherOK(realBst', RealKeys, Items) /\ RunningOK(runningKeys')
    BY <1>1, <2>1, <2>4, SetFrequencyType, InsertRunningType
  <2>7. /\ storage_keys' \in Seq(StorageIds)
        /\ \A n \in DOMAIN storage_keys' :
             storage_keys'[n][1] \in IF n <= NumReal THEN RealKeys ELSE FakeKeys
    BY <1>2, <2>1, <2>4, <2>5, AppendId
  <2> QED
    BY <1>2, <1>3, <2>1, <2>6, <2>7
    DEF TypeInv, TypeOK, Shape, ReadFakeReal, storeVars, getVars
<1> QED
  BY <1>4, <1>5

\* ReadFake keeps the types.
LEMMA ReadFakeType ==
  ASSUME TypeInv, ReadFake
  PROVE  TypeInv'
<1> DEFINE k  == getKeyWithMinFrequency(fakeBst)
           id == <<k, getFrequency(fakeBst, k)>>
<1>1. /\ SmootherOK(fakeBst, FakeKeys, {}) /\ RunningOK(runningKeys) /\ timeStamp \in Nat
      /\ Len(storage_keys) \in Nat
  BY DEF TypeInv, TypeOK
<1>2. /\ pc = "read" /\ Len(storage_keys) >= NumReal /\ Len(storage_keys) < NumReal + F
      /\ runningKeys' = insertIfNotPresent(runningKeys, k)
      /\ storage_keys' = Append(storage_keys, id)
      /\ fakeBst' = setFrequency(fakeBst, k, timeStamp)
  BY DEF ReadFake
<1>3. fakeBst.accessTree # {} /\ ~(Len(storage_keys) < NumReal)
  <2>1. F > 0 /\ ~(Len(storage_keys) < NumReal)
    BY <1>1, <1>2, NumRealType, ConstantsAssumption
  <2>2. D > 0
    BY <2>1, ConstantsAssumption
  <2> QED
    BY <2>1, <2>2 DEF TypeInv, Shape
<1>4. k \in FakeKeys
  <2>1. fakeBst.accessTree \subseteq FakeKeys \X Nat
    BY <1>1, SmootherParts
  <2>2. fakeBst.accessTree \subseteq (Nat \X Nat) \X Nat
    BY <2>1, KeyTypes
  <2>3. FirstEntry(fakeBst.accessTree) \in fakeBst.accessTree
    BY <2>2, <1>3, FirstEntryIn
  <2> QED
    BY <2>1, <2>3 DEF getKeyWithMinFrequency
<1> HIDE DEF k
<1>5. id \in StorageIds /\ id[1] = k
  BY <1>1, <1>4, SmootherParts, KeyTypes DEF StorageIds
<1> HIDE DEF id
<1>6. SmootherOK(fakeBst', FakeKeys, {}) /\ RunningOK(runningKeys')
  BY <1>1, <1>2, <1>4, KeyTypes, SetFrequencyType, InsertRunningType
<1>7. /\ storage_keys' \in Seq(StorageIds)
      /\ \A n \in DOMAIN storage_keys' :
           storage_keys'[n][1] \in IF n <= NumReal THEN RealKeys ELSE FakeKeys
  BY <1>2, <1>3, <1>4, <1>5, AppendId
<1>8. fakeBst'.accessTree # {}
  BY <1>2 DEF setFrequency
<1>9. NumReal' = NumReal
  BY DEF ReadFake, NumReal, FakeReals
<1> QED
  BY <1>2, <1>6, <1>7, <1>8, <1>9 DEF TypeInv, TypeOK, Shape, ReadFake, storeVars, getVars

\* GetBatch keeps the types: there is one response for every id.
LEMMA GetBatchType ==
  ASSUME TypeInv, GetBatch
  PROVE  TypeInv'
<1> DEFINE ids == {storage_keys[n] : n \in DOMAIN storage_keys}
<1>1. /\ storage_keys \in Seq(StorageIds) /\ IsMap(server, StorageIds, Ciphertexts)
      /\ seen \subseteq StorageIds /\ Len(storage_keys) \in Nat
  BY DEF TypeInv, TypeOK
<1>2. seen' \subseteq StorageIds
  BY <1>1 DEF GetBatch
<1>3. NumReal' = NumReal /\ pc = "read"
  BY DEF GetBatch, NumReal, FakeReals
<1>4. CASE ids \subseteq DOMAIN server
  <2>1. responses' = [n \in DOMAIN storage_keys |-> server[storage_keys[n]]]
        /\ pc' = "apply" /\ status' = status
    BY <1>4 DEF GetBatch
  <2>2. \A n \in DOMAIN storage_keys : server[storage_keys[n]] \in Ciphertexts
    BY <1>1, <1>4 DEF IsMap
  <2>3. responses' \in Seq(Ciphertexts) /\ Len(responses') = Len(storage_keys)
    BY <2>1, <2>2, <1>1
  <2> QED
    BY <1>1, <1>2, <1>3, <2>1, <2>3
    DEF TypeInv, TypeOK, Shape, GetBatch, bstVars, storeVars, getVars
<1>5. CASE ~(ids \subseteq DOMAIN server)
  BY <1>2, <1>3, <1>5 DEF TypeInv, TypeOK, Shape, GetBatch, bstVars, storeVars, getVars
<1> QED
  BY <1>4, <1>5

\* The key and the payload of the response at the cursor.
LEMMA CursorType ==
  ASSUME TypeInv, pc = "apply", responses # <<>>
  PROVE  /\ Cursor \in DOMAIN storage_keys
         /\ storage_keys[Cursor][1] \in IF Cursor <= NumReal THEN RealKeys ELSE FakeKeys
         /\ decryptNonDeterministic(Head(responses)) \in Payloads
         /\ Tail(responses) \in Seq(Ciphertexts)
         /\ Len(Tail(responses)) <= Len(storage_keys)
<1>1. /\ storage_keys \in Seq(StorageIds) /\ responses \in Seq(Ciphertexts)
      /\ Len(storage_keys) \in Nat /\ Len(responses) \in Nat
  BY DEF TypeInv, TypeOK
<1>2. Len(responses) <= Len(storage_keys)
  BY DEF TypeInv, Shape
<1>3. Len(responses) > 0 /\ Head(responses) \in Ciphertexts
  BY <1>1
<1>4. Cursor \in DOMAIN storage_keys
  BY <1>1, <1>2, <1>3 DEF Cursor
<1>5. storage_keys[Cursor][1] \in IF Cursor <= NumReal THEN RealKeys ELSE FakeKeys
  BY <1>4 DEF TypeInv, Shape
<1>6. Tail(responses) \in Seq(Ciphertexts) /\ Len(Tail(responses)) = Len(responses) - 1
  BY <1>1
<1> QED
  BY <1>1, <1>2, <1>3, <1>4, <1>5, <1>6, CryptTypes

\* ApplyReal keeps the types.
LEMMA ApplyRealType ==
  ASSUME TypeInv, ApplyReal
  PROVE  TypeInv'
<1> DEFINE lr   == LREntry(cache, <<NoKey, NoValue>>)
           bst  == Touch(realBst, lr[1])
           left == evictLRElement(cache)
           k    == storage_keys[Cursor][1]
           v    == decryptNonDeterministic(Head(responses))
           w    == IF k \in CacheKeys(left) THEN CachedValue(left, k) ELSE v
           id   == <<lr[1], getFrequency(realBst, lr[1])>>
<1>1. /\ SmootherOK(realBst, RealKeys, Items)
      /\ cache \in Seq(RealKeys \X Payloads)
      /\ IsMap(EvictedItems, RealKeys \cup {NoKey}, Payloads)
      /\ keys_to_be_deleted \subseteq RealKeys
      /\ IsMap(writeBatch, StorageIds, Ciphertexts)
      /\ IsMap(promiseSatisfy, Keys, Payloads)
  BY DEF TypeInv, TypeOK
<1>2. /\ pc = "apply" /\ responses # <<>> /\ Cursor <= NumReal
      /\ EvictedItems' = Assign(EvictedItems, lr[1], lr[2])
      /\ writeBatch' = Assign(writeBatch, id, encryptNonDeterministic(lr[2]))
      /\ promiseSatisfy' = Assign(promiseSatisfy, k, v)
      /\ keys_to_be_deleted' = keys_to_be_deleted \ {k}
      /\ responses' = Tail(responses)
      /\ IF k \in keys_to_be_deleted
           THEN realBst' = removeKey(bst, k) /\ cache' = left
           ELSE realBst' = bst /\ cache' = insertIntoCache(left, k, w)
  BY DEF ApplyReal
<1>3. /\ k \in RealKeys /\ v \in Payloads
      /\ responses' \in Seq(Ciphertexts) /\ Len(responses') <= Len(storage_keys)
  BY <1>2, CursorType
<1>4. lr[1] \in RealKeys \cup {NoKey} /\ lr[2] \in Payloads
  <2>1. lr = <<NoKey, NoValue>> \/ lr \in RealKeys \X Payloads
    BY <1>1, EvictLR
  <2> HIDE DEF lr
  <2> QED
    BY <2>1, KeyTypes
<1>5. left \in Seq(RealKeys \X Payloads)
  BY <1>1, EvictLR
<1> HIDE DEF lr, left, k, v
<1>6. w \in Payloads
  BY <1>3, <1>5, CachedValueType
<1>7. id \in StorageIds
  BY <1>1, <1>4, KeyTypes, SmootherParts DEF StorageIds
<1> HIDE DEF w, id
<1>8. IsMap(EvictedItems', RealKeys \cup {NoKey}, Payloads)
  BY <1>1, <1>2, <1>4, AssignMap
<1>9. IsMap(writeBatch', StorageIds, Ciphertexts)
  BY <1>1, <1>2, <1>4, <1>7, CryptTypes, AssignMap
<1>10. IsMap(promiseSatisfy', Keys, Payloads)
  BY <1>1, <1>2, <1>3, KeyTypes, AssignMap
<1>11. SmootherOK(bst, RealKeys, Items)
  BY <1>1, <1>4, TouchType
<1> HIDE DEF bst
<1>12. SmootherOK(realBst', RealKeys, Items) /\ cache' \in Seq(RealKeys \X Payloads)
  <2>1. CASE k \in keys_to_be_deleted
    <3>1. k[1] \in Items
      BY <1>3, KeyTypes
    <3>2. SmootherOK(removeKey(bst, k), RealKeys, Items)
      BY <3>1, <1>3, <1>11, RemoveKeyType
    <3> QED
      BY <2>1, <3>2, <1>2, <1>5
  <2>2. CASE k \notin keys_to_be_deleted
    <3>1. insertIntoCache(left, k, w) \in Seq(RealKeys \X Payloads)
      BY <1>3, <1>5, <1>6, InsertIntoCache
    <3> QED
      BY <2>2, <3>1, <1>2, <1>11
  <2> QED
    BY <2>1, <2>2
<1>13. keys_to_be_deleted' \subseteq RealKeys
  BY <1>1, <1>2
<1>14. NumReal' = NumReal
  BY DEF ApplyReal, NumReal, FakeReals
<1> QED
  BY <1>2, <1>3, <1>8, <1>9, <1>10, <1>12, <1>13, <1>14
  DEF TypeInv, TypeOK, Shape, ApplyReal, getVars

\* ApplyFake keeps the types.
LEMMA ApplyFakeType ==
  ASSUME TypeInv, ApplyFake
  PROVE  TypeInv'
<1> DEFINE k  == storage_keys[Cursor][1]
           v  == decryptNonDeterministic(Head(responses))
           id == <<k, getFrequency(fakeBst, k)>>
           c  == encryptNonDeterministic(<<k, InitVersion>>)
<1>1. /\ SmootherOK(fakeBst, FakeKeys, {})
      /\ IsMap(writeBatch, StorageIds, Ciphertexts)
      /\ IsMap(promiseSatisfy, Keys, Payloads)
  BY DEF TypeInv, TypeOK
<1>2. /\ pc = "apply" /\ responses # <<>> /\ Cursor > NumReal
      /\ promiseSatisfy' = Assign(promiseSatisfy, k, v)
      /\ writeBatch' = Assign(writeBatch, id, c)
      /\ responses' = Tail(responses)
  BY DEF ApplyFake
<1>3. /\ k \in Keys /\ v \in Payloads
      /\ responses' \in Seq(Ciphertexts) /\ Len(responses') <= Len(storage_keys)
  BY <1>2, CursorType, KeyTypes
<1> HIDE DEF k, v
<1>4. id \in StorageIds /\ c \in Ciphertexts
  <2>1. <<k, InitVersion>> \in Payloads
    BY <1>3 DEF Payloads
  <2> QED
    BY <2>1, <1>1, <1>3, CryptTypes, SmootherParts DEF StorageIds
<1> HIDE DEF id, c
<1>5. IsMap(writeBatch', StorageIds, Ciphertexts) /\ IsMap(promiseSatisfy', Keys, Payloads)
  BY <1>1, <1>2, <1>3, <1>4, AssignMap
<1>6. NumReal' = NumReal
  BY DEF ApplyFake, NumReal, FakeReals
<1> QED
  BY <1>2, <1>3, <1>5, <1>6 DEF TypeInv, TypeOK, Shape, ApplyFake, bstVars, storeVars, getVars

\* PutBatch keeps the types.
LEMMA PutBatchType ==
  ASSUME TypeInv, PutBatch
  PROVE  TypeInv'
<1>1. IsMap(server', StorageIds, Ciphertexts)
  BY MergeMap DEF TypeInv, TypeOK, PutBatch
<1>2. IsMap(EvictedItems', RealKeys \cup {NoKey}, Payloads)
  BY EraseAllMap DEF TypeInv, TypeOK, PutBatch
<1>3. pc' = "clear" /\ responses' = <<>>
  BY DEF PutBatch, batchVars
<1> QED
  BY <1>1, <1>2, <1>3 DEF TypeInv, TypeOK, Shape, PutBatch, bstVars, getVars, batchVars

\* ClearPromises keeps the types.
LEMMA ClearPromisesType ==
  ASSUME TypeInv, NEW k, ClearPromises(k)
  PROVE  TypeInv'
<1> DEFINE v == promiseSatisfy[k]
<1>1. RunningOK(runningKeys) /\ IsMap(promiseSatisfy, Keys, Payloads)
  BY DEF TypeInv, TypeOK
<1>2. v \in Payloads /\ IsMap(promiseSatisfy', Keys, Payloads) /\ pc = "clear"
  BY <1>1, EraseMap DEF ClearPromises, IsMap
<1>3. /\ RunningOK(runningKeys') /\ DOMAIN answers' \subseteq Nat
      /\ status' \in {"up", "crashed"}
  <2>1. CASE staleRequest(runningKeys, k, v)
    BY <2>1 DEF ClearPromises, TypeInv, TypeOK
  <2>2. CASE ~staleRequest(runningKeys, k, v)
    <3>1. /\ runningKeys' = tryClearPromises(runningKeys, k, v)
          /\ answers' = Answered(Arrived(runningKeys, k, v), FulfilledBy(runningKeys, k, v))
          /\ status' = status
      BY <2>2 DEF ClearPromises
    <3>2. FulfilledBy(runningKeys, k, v) \in SUBSET Nat
      BY <1>1, RunningParts DEF FulfilledBy, IsMap
    <3>3. DOMAIN answers' \subseteq Nat
      BY <3>1, <3>2, AnsweredType
    <3>4. RunningOK(tryClearPromises(runningKeys, k, v))
      BY <1>1, <1>2, ArrivedType
    <3> QED
      BY <3>1, <3>3, <3>4 DEF TypeInv, TypeOK
  <2> QED
    BY <2>1, <2>2
<1> QED
  BY <1>2, <1>3 DEF TypeInv, TypeOK, Shape, ClearPromises, bstVars, storeVars, getVars

\* FinishBatch keeps the types.
LEMMA FinishBatchType ==
  ASSUME TypeInv, FinishBatch
  PROVE  TypeInv'
<1>1. keysNotUsed' \in Seq(Seq(StorageIds))
  BY DEF TypeInv, TypeOK, FinishBatch
<1>2. DOMAIN asked' \subseteq Nat /\ DOMAIN answers' \subseteq Nat
  BY EmptyMapType DEF TypeInv, TypeOK, FinishBatch, EraseAll
<1>3. IsMap(writeBatch', StorageIds, Ciphertexts)
  BY EmptyMapType DEF FinishBatch
<1> QED
  BY <1>1, <1>2, <1>3 DEF TypeInv, TypeOK, Shape, FinishBatch, bstVars, storeVars

\* ClearThread keeps the types.
LEMMA ClearThreadType ==
  ASSUME TypeInv, ClearThread
  PROVE  TypeInv'
<1>1. keysNotUsed' \in Seq(Seq(StorageIds))
  BY DEF TypeInv, TypeOK, ClearThread
<1>2. IsMap(server', StorageIds, Ciphertexts)
  BY EraseAllMap DEF TypeInv, TypeOK, ClearThread
<1>3. NumReal' = NumReal
  BY DEF ClearThread, NumReal, FakeReals, batchVars
<1> QED
  BY <1>1, <1>2, <1>3
  DEF TypeInv, TypeOK, Shape, ClearThread, bstVars, storeVars, getVars, batchVars

\* Every step keeps the types.
LEMMA NextType == TypeInv /\ [Next]_vars => TypeInv'
<1> SUFFICES ASSUME TypeInv, [Next]_vars
             PROVE  TypeInv'
  OBVIOUS
<1>1. CASE UNCHANGED vars
  BY <1>1 DEF TypeInv, TypeOK, Shape, NumReal, FakeReals,
              vars, bstVars, storeVars, getVars, batchVars
<1>2. CASE Poll
  BY <1>1, <1>2 DEF Poll
<1>3. CASE Pop
  BY <1>3, PopGetType, PopPutType DEF Pop
<1>4. CASE SubGet
  BY <1>4, SubGetType
<1>5. CASE ExecuteBatch
  BY <1>5, StartBatchType, ReadOperationType, ReadFakeRealType, ReadFakeType, GetBatchType,
     ApplyRealType, ApplyFakeType, PutBatchType, FinishBatchType, ClearPromisesType
  DEF ExecuteBatch
<1>6. CASE ClearThread
  BY <1>6, ClearThreadType
<1> QED
  BY <1>1, <1>2, <1>3, <1>4, <1>5, <1>6 DEF Next

\* The inductive invariant holds in every reachable state.
LEMMA TypeInvariant == Spec => []TypeInv
BY InitType, NextType, PTL DEF Spec

\* Whatever the batch parameters, the operations and the interleaving with the
\* clear thread: only buckets of clients are cached, registered as running GETs or
\* counted in a GET's answer, fakes never are, and the tables keep their types.
THEOREM TypeCorrect == Spec => []TypeOK
<1>1. TypeInv => TypeOK
  BY DEF TypeInv
<1> QED
  BY <1>1, TypeInvariant, PTL
=============================================================================
