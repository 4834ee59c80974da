---------------------------- MODULE HashMapCache ----------------------------
(***************************************************************************)
(* THashMapCache: a fixed number of entries in a list, from the most to the *)
(* least recently used, and a hash table of which a bucket holds the last   *)
(* entry inserted in it.  A map m is a record: rank has the positions of    *)
(* the entries in the list, key their keys, and table the buckets.          *)
(***************************************************************************)
EXTENDS Integers

CONSTANTS
  kCacheSize,     \* number of entries
  Keys,
  HashFunction    \* from the keys to the buckets

ASSUME CacheAssumption == kCacheSize \in Nat \ {0, 1}

Entries == 0 .. kCacheSize - 1
NULL    == -1
Buckets == {HashFunction[k] : k \in Keys}

ASSUME HashAssumption == HashFunction \in [Keys -> Buckets]

\* The positions in a list of all the entries.
Ranks ==
  {rank \in [Entries -> Entries] :
     /\ \A i \in Entries : \E e \in Entries : rank[e] = i
     /\ \A e, f \in Entries : rank[e] = rank[f] => e = f}

MapType ==
  [rank : Ranks, key : [Entries -> Keys], table : [Buckets -> Entries \union {NULL}]]

\* The map at the end of its constructor, with these keys and buckets.
LinkedMap(keys, buckets) ==
  [rank |-> [e \in Entries |-> e], key |-> keys, table |-> buckets]

GetLastValue(m) == CHOOSE e \in Entries : m.rank[e] = kCacheSize - 1

Insert(m, k, e) == [m EXCEPT !.table[HashFunction[k]] = e]

Lookup(m, k) ==
  LET e == m.table[HashFunction[k]]
  IN  IF e # NULL /\ m.key[e] = k THEN e ELSE NULL

Erase(m, k) == IF Lookup(m, k) = NULL THEN m ELSE Insert(m, k, NULL)

Clear(m) == [m EXCEPT !.table = [b \in Buckets |-> NULL]]

\* Mutant: the entry is linked where it was.
MakeFirst_Nothing(m, e) == m

\* Mutant: those that were after it move down as well.
MakeFirst_AllDown(m, e) ==
  [m EXCEPT !.rank = [x \in Entries |-> IF x = e THEN 0 ELSE @[x] + 1]]

\* The entry comes first; those that were before it move down.
MakeFirst(m, e) ==
  [m EXCEPT !.rank = [x \in Entries |->
     IF x = e THEN 0 ELSE IF @[x] < @[e] THEN @[x] + 1 ELSE @[x]]]

\* rank is that of m after each of the entries of moved was made last, in some order.
MadeLast(m, moved, rank) ==
  /\ \A e, f \in Entries \ moved : rank[e] < rank[f] <=> m.rank[e] < m.rank[f]
  /\ \A e \in Entries \ moved, f \in moved : rank[e] < rank[f]
=============================================================================
