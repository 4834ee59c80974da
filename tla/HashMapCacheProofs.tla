------------------------- MODULE HashMapCacheProofs --------------------------
(***************************************************************************)
(* What the operations of THashMapCache return and keep, for the two caches *)
(* that are made of it.                                                     *)
(***************************************************************************)
EXTENDS HashMapCache, TLAPS

\* An entry that is in a bucket is in the bucket of its key.
BucketsAgree(m) ==
  \A b \in Buckets : m.table[b] # NULL => HashFunction[m.key[m.table[b]]] = b

LEMMA LookupFinds ==
  ASSUME NEW m \in MapType, NEW k \in Keys
  PROVE  /\ Lookup(m, k) \in Entries \union {NULL}
         /\ Lookup(m, k) # NULL => Lookup(m, k) = m.table[HashFunction[k]]
                                   /\ m.key[Lookup(m, k)] = k
BY HashAssumption DEF Lookup, MapType

LEMMA MakeFirstType ==
  ASSUME NEW m \in MapType, NEW e \in Entries
  PROVE  /\ MakeFirst(m, e) \in MapType
         /\ MakeFirst(m, e).key = m.key /\ MakeFirst(m, e).table = m.table
         /\ MakeFirst(m, e).rank[e] = 0
<1> DEFINE rank  == m.rank
           first == [x \in Entries |-> IF x = e THEN 0
                                       ELSE IF rank[x] < rank[e] THEN rank[x] + 1 ELSE rank[x]]
<1>1. rank \in Ranks
  BY DEF MapType
<1>2. MakeFirst(m, e) = [m EXCEPT !.rank = first]
  BY DEF MakeFirst
<1>3. first \in Ranks
  <2>1. /\ \A x \in Entries : rank[x] \in Entries
        /\ \A i \in Entries : \E x \in Entries : rank[x] = i
        /\ \A x, y \in Entries : rank[x] = rank[y] => x = y
    BY <1>1 DEF Ranks
  <2> HIDE DEF rank
  <2>2. first \in [Entries -> Entries]
    BY <2>1, CacheAssumption DEF Entries
  <2>3. ASSUME NEW i \in Entries PROVE \E x \in Entries : first[x] = i
    <3>1. CASE i = 0
      BY <3>1
    <3>2. CASE i > 0 /\ i =< rank[e]
      <4>1. i - 1 \in Entries
        BY <3>2, CacheAssumption DEF Entries
      <4>2. PICK x \in Entries : rank[x] = i - 1
        BY <2>1, <4>1
      <4>3. x # e /\ rank[x] < rank[e] /\ rank[x] \in Int
        BY <2>1, <3>2, <4>2 DEF Entries
      <4>4. first[x] = i
        BY <4>2, <4>3 DEF Entries
      <4> QED BY <4>4
    <3>3. CASE i > rank[e]
      <4>1. PICK x \in Entries : rank[x] = i
        BY <2>1
      <4>2. first[x] = i
        BY <2>1, <3>3, <4>1 DEF Entries
      <4> QED BY <4>2
    <3> QED BY <2>1, <3>1, <3>2, <3>3, CacheAssumption DEF Entries
  <2>4. ASSUME NEW x \in Entries, NEW y \in Entries, first[x] = first[y] PROVE x = y
    <3>1. rank[x] \in Nat /\ rank[y] \in Nat /\ rank[e] \in Nat
      BY <2>1, CacheAssumption DEF Entries
    <3> QED BY <2>1, <2>4, <3>1
  <2> QED BY <2>2, <2>3, <2>4 DEF Ranks
<1>4. first[e] = 0
  OBVIOUS
<1> HIDE DEF first
<1> QED BY <1>2, <1>3, <1>4 DEF MapType

LEMMA LastType ==
  ASSUME NEW m \in MapType
  PROVE  GetLastValue(m) \in Entries /\ m.rank[GetLastValue(m)] = kCacheSize - 1
<1>1. kCacheSize - 1 \in Entries
  BY CacheAssumption DEF Entries
<1>2. \E e \in Entries : m.rank[e] = kCacheSize - 1
  BY <1>1 DEF MapType, Ranks
<1> QED BY <1>2 DEF GetLastValue

LEMMA InsertType ==
  ASSUME NEW m \in MapType, NEW k \in Keys, NEW e \in Entries \union {NULL}
  PROVE  /\ Insert(m, k, e) \in MapType
         /\ Insert(m, k, e).key = m.key /\ Insert(m, k, e).rank = m.rank
         /\ \A b \in Buckets : Insert(m, k, e).table[b] =
              IF b = HashFunction[k] THEN e ELSE m.table[b]
BY HashAssumption DEF Insert, MapType

LEMMA EraseType ==
  ASSUME NEW m \in MapType, NEW k \in Keys
  PROVE  /\ Erase(m, k) \in MapType
         /\ Erase(m, k).key = m.key /\ Erase(m, k).rank = m.rank
         /\ \A b \in Buckets : Erase(m, k).table[b] =
              IF b = HashFunction[k] /\ Lookup(m, k) # NULL THEN NULL ELSE m.table[b]
BY InsertType DEF Erase
=============================================================================
