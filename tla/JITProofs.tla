------------------------------ MODULE JITProofs ------------------------------
(***************************************************************************)
(* CodeCache: the CPU only executes current translations of pages that it   *)
(* may execute.  The invariant adds to the properties of the module what    *)
(* they lean on: an entry that is in a bucket is in the bucket of its key   *)
(* (Sound), so that erasing its key unbinds it before it is recycled; and   *)
(* the page that is executed, until it is written, is the first of the list *)
(* (UnitIsFirst).                                                           *)
(*                                                                          *)
(* EmulatorLoop, at the end: the loop that executes the pages sees every    *)
(* interrupt whose signal it did not overwrite, and enters no page after a  *)
(* break.                                                                   *)
(***************************************************************************)
EXTENDS CodeCache, EmulatorLoop, HashMapCacheProofs, TLAPS

USE DEF VPages

Bound(m, privileged) ==
  \A v \in VPages : Lookup(m, v) # NULL =>
    MayExecute(v, privileged) /\ Lookup(m, v) \in mPMap[Translate(v)]

Sound(m, privileged) == BucketsAgree(m) /\ Bound(m, privileged)

UnitIsFirst == unit \in mPMap[mPhysicalAddress[unit]] => mVMap.rank[unit] = 0

IInv ==
  /\ TypeOK
  /\ CodeIsCurrent
  /\ ChainsAreMaps
  /\ Sound(mVMap, mPrivileged)
  /\ UnitIsFirst

-----------------------------------------------------------------------------
(* Pages.                                                                  *)

LEMMA TranslateType ==
  ASSUME TypeOK, NEW v \in VPages, NEW privileged, MayExecute(v, privileged)
  PROVE  Translate(v) \in PPages
BY PagesAssumption DEF TypeOK, MayExecute, Translate, PPages, IsPageInROM

\* What a fetch relies on, and what it leaves.
Fetching(m, privileged) ==
  /\ m \in MapType /\ m.key = mVMap.key /\ m.rank = mVMap.rank
  /\ Sound(m, privileged)

SparesFirst == \A f \in Entries : mVMap.rank[f] = 0 => f \notin Retranslated

Fetched ==
  /\ mVMap' \in MapType
  /\ mPMap' \in [PPages -> SUBSET Entries]
  /\ mPhysicalAddress' \in [Entries -> PPages]
  /\ mPage' \in [Entries -> Contents]
  /\ unit' \in Entries
  /\ mVMap'.rank[unit'] = 0
  /\ CodeIsCurrent' /\ ChainsAreMaps' /\ Sound(mVMap, mPrivileged)'
  /\ SparesFirst

LEMMA HitStep ==
  ASSUME TypeOK, CodeIsCurrent, ChainsAreMaps, UNCHANGED <<mSpace, memory>>,
         NEW m, NEW v \in VPages, Fetching(m, mPrivileged'), Hit(m, v)
  PROVE  Fetched
<1>1. Lookup(m, v) \in Entries
  BY LookupFinds DEF Fetching, Hit
<1>2. /\ mVMap' \in MapType /\ mVMap'.key = m.key /\ mVMap'.table = m.table
      /\ mVMap'.rank[unit'] = 0
  BY <1>1, MakeFirstType DEF Hit, Fetching
<1>3. UNCHANGED <<mPMap, mPhysicalAddress, mPage>>
  BY DEF Hit
<1>4. Sound(mVMap, mPrivileged)'
  BY <1>2, <1>3 DEF Sound, BucketsAgree, Bound, Lookup, Fetching, MayExecute, Translate
<1>5. CodeIsCurrent' /\ ChainsAreMaps'
  BY <1>2, <1>3 DEF CodeIsCurrent, ChainsAreMaps, Fetching
<1>6. SparesFirst
  BY <1>2, <1>3 DEF SparesFirst, Retranslated, Fetching
<1> QED BY <1>1, <1>2, <1>3, <1>4, <1>5, <1>6 DEF Fetched, TypeOK, Hit

LEMMA RebindStep ==
  ASSUME TypeOK, CodeIsCurrent, ChainsAreMaps, UNCHANGED <<mSpace, memory>>,
         NEW m, NEW v \in VPages, Fetching(m, mPrivileged'),
         MayExecute(v, mPrivileged'), Rebind(m, v)
  PROVE  Fetched
<1>1. PICK e \in LookupInPMap(m, v) :
        /\ mVMap' = MakeFirst(Insert(m, v, e), e)
        /\ unit' = e
        /\ UNCHANGED <<mPMap, mPhysicalAddress, mPage>>
  BY DEF Rebind
<1>2. e \in Entries /\ e \in mPMap[Translate(v)] /\ m.key[e] = v
  BY <1>1, TranslateType DEF LookupInPMap, TypeOK
<1> DEFINE bound == Insert(m, v, e)
<1>3. /\ bound \in MapType /\ bound.key = m.key
      /\ \A b \in Buckets : bound.table[b] = IF b = HashFunction[v] THEN e ELSE m.table[b]
  BY <1>2, InsertType DEF Fetching
<1> HIDE DEF bound
<1>4. /\ mVMap' \in MapType /\ mVMap'.key = m.key /\ mVMap'.table = bound.table
      /\ mVMap'.rank[unit'] = 0
  BY <1>1, <1>2, <1>3, MakeFirstType DEF bound
<1>5. BucketsAgree(mVMap)'
  BY <1>2, <1>3, <1>4 DEF Sound, BucketsAgree, Fetching
<1>6. Bound(mVMap, mPrivileged)'
  <2> SUFFICES ASSUME NEW w \in VPages, Lookup(mVMap', w) # NULL
               PROVE  MayExecute(w, mPrivileged') /\ Lookup(mVMap', w) \in mPMap[Translate(w)]
    BY <1>1 DEF Bound, MayExecute, Translate
  <2>1. CASE w = v
    BY <2>1, <1>2, <1>3, <1>4, HashAssumption DEF Lookup
  <2>2. CASE w # v
    <3>1. HashFunction[w] # HashFunction[v]
      BY <2>2, <1>2, <1>3, <1>4, HashAssumption DEF Lookup
    <3>2. Lookup(mVMap', w) = Lookup(m, w)
      BY <3>1, <1>3, <1>4, HashAssumption DEF Lookup
    <3> QED BY <3>2 DEF Fetching, Sound, Bound
  <2> QED BY <2>1, <2>2
<1>7. CodeIsCurrent' /\ ChainsAreMaps'
  BY <1>1, <1>4 DEF CodeIsCurrent, ChainsAreMaps, Fetching
<1>8. SparesFirst
  BY <1>1, <1>4 DEF SparesFirst, Retranslated, Fetching
<1> QED BY <1>1, <1>2, <1>4, <1>5, <1>6, <1>7, <1>8 DEF Fetched, TypeOK, Sound

LEMMA PageMissStep ==
  ASSUME TypeOK, CodeIsCurrent, ChainsAreMaps, UNCHANGED <<mSpace, memory>>,
         NEW m, NEW v \in VPages, Fetching(m, mPrivileged'),
         MayExecute(v, mPrivileged'), PageMiss(m, v)
  PROVE  Fetched
<1> DEFINE e      == GetLastValue(m)
           p      == Translate(v)
           erased == Erase(m, m.key[e])
           keyed  == [erased EXCEPT !.key[e] = v]
           bound  == Insert(keyed, v, e)
<1>1. e \in Entries /\ p \in PPages /\ m \in MapType /\ m.key[e] \in Keys
  BY LastType, TranslateType DEF Fetching, MapType
<1>2. /\ LookupInPMap(m, v) = {}
      /\ mPMap' = [EraseFromPMap(e) EXCEPT ![p] = @ \union {e}]
      /\ mPhysicalAddress' = [mPhysicalAddress EXCEPT ![e] = p]
      /\ mPage' = [mPage EXCEPT ![e] = memory[p]]
      /\ mVMap' = MakeFirst(bound, e)
      /\ unit' = e
  BY DEF PageMiss
<1> HIDE DEF e, p
<1>3. /\ erased \in MapType /\ erased.key = m.key
      /\ \A b \in Buckets : erased.table[b] =
           IF b = HashFunction[m.key[e]] /\ Lookup(m, m.key[e]) # NULL
           THEN NULL ELSE m.table[b]
  BY <1>1, EraseType
<1> HIDE DEF erased
<1>4. /\ keyed \in MapType /\ keyed.key = [m.key EXCEPT ![e] = v]
      /\ keyed.table = erased.table
  BY <1>1, <1>3 DEF MapType
<1> HIDE DEF keyed
<1>5. /\ bound \in MapType /\ bound.key = [m.key EXCEPT ![e] = v]
      /\ \A b \in Buckets : bound.table[b] =
           IF b = HashFunction[v] THEN e ELSE erased.table[b]
  BY <1>1, <1>4, InsertType
<1> HIDE DEF bound
<1>6. /\ mVMap' \in MapType
      /\ mVMap'.key = [m.key EXCEPT ![e] = v] /\ mVMap'.table = bound.table
      /\ mVMap'.rank[unit'] = 0
  BY <1>1, <1>2, <1>5, MakeFirstType
<1>7. /\ \A f \in Entries : mVMap'.key[f] = IF f = e THEN v ELSE m.key[f]
      /\ \A b \in Buckets : mVMap'.table[b] =
           IF b = HashFunction[v] THEN e
           ELSE IF b = HashFunction[m.key[e]] /\ Lookup(m, m.key[e]) # NULL
           THEN NULL ELSE m.table[b]
  BY <1>1, <1>3, <1>5, <1>6 DEF MapType
<1>8. /\ mPMap' \in [PPages -> SUBSET Entries]
      /\ \A q \in PPages, f \in Entries :
           f \in mPMap'[q] <=> IF f = e THEN q = p ELSE f \in mPMap[q]
  BY <1>1, <1>2 DEF EraseFromPMap, TypeOK, CodeIsCurrent
<1>9. /\ mPhysicalAddress' \in [Entries -> PPages] /\ mPage' \in [Entries -> Contents]
      /\ \A f \in Entries \ {e} : mPhysicalAddress'[f] = mPhysicalAddress[f]
                                   /\ mPage'[f] = mPage[f]
      /\ mPhysicalAddress'[e] = p /\ mPage'[e] = memory[p]
  BY <1>1, <1>2 DEF TypeOK
<1>10. BucketsAgree(mVMap)'
  <2> SUFFICES ASSUME NEW b \in Buckets, mVMap'.table[b] # NULL
               PROVE  HashFunction[mVMap'.key[mVMap'.table[b]]] = b
    BY DEF BucketsAgree
  <2>1. CASE b = HashFunction[v]
    BY <2>1, <1>1, <1>7
  <2>2. CASE b # HashFunction[v]
    <3>1. /\ mVMap'.table[b] = m.table[b] /\ m.table[b] \in Entries
          /\ HashFunction[m.key[m.table[b]]] = b
      BY <2>2, <1>1, <1>7 DEF Fetching, Sound, BucketsAgree, MapType
    <3>2. m.table[b] # e
      BY <3>1, <2>2, <1>1, <1>7 DEF Lookup, NULL, Entries
    <3> QED BY <3>1, <3>2, <1>7
  <2> QED BY <2>1, <2>2
<1>11. Bound(mVMap, mPrivileged)'
  <2> SUFFICES ASSUME NEW w \in VPages, Lookup(mVMap', w) # NULL
               PROVE  /\ MayExecute(w, mPrivileged')
                      /\ Lookup(mVMap', w) \in mPMap'[Translate(w)]
    BY DEF Bound, MayExecute, Translate
  <2> DEFINE x == Lookup(mVMap', w)
  <2>1. /\ x \in Entries /\ x = mVMap'.table[HashFunction[w]] /\ mVMap'.key[x] = w
    BY <1>6, LookupFinds
  <2> HIDE DEF x
  <2>2. CASE x = e
    BY <2>1, <2>2, <1>1, <1>7, <1>8 DEF x, p
  <2>3. CASE x # e
    <3>1. HashFunction[w] # HashFunction[v] /\ HashFunction[w] \in Buckets
      BY <2>1, <2>3, <1>7, HashAssumption
    <3>2. x = m.table[HashFunction[w]] /\ m.key[x] = w
      BY <2>1, <2>3, <1>7, <3>1 DEF NULL, Entries
    <3>3. Lookup(m, w) = x /\ x # NULL
      BY <3>2, <2>1 DEF Lookup, NULL, Entries
    <3>4. MayExecute(w, mPrivileged') /\ x \in mPMap[Translate(w)]
      BY <3>3 DEF Fetching, Sound, Bound
    <3>5. Translate(w) \in PPages
      BY <3>4, TranslateType
    <3> QED BY <3>4, <3>5, <2>1, <2>3, <1>8 DEF x
  <2> QED BY <2>2, <2>3
<1>12. CodeIsCurrent'
  BY <1>1, <1>8, <1>9 DEF CodeIsCurrent, TypeOK
<1>13. ChainsAreMaps'
  <2> SUFFICES ASSUME NEW q \in PPages, NEW f \in mPMap'[q], NEW g \in mPMap'[q],
                      mVMap'.key[f] = mVMap'.key[g]
               PROVE  f = g
    BY DEF ChainsAreMaps
  <2>1. f \in Entries /\ g \in Entries
    BY <1>8
  <2>2. \A h \in mPMap[p] : m.key[h] # v
    BY <1>2 DEF LookupInPMap, p
  <2>3. CASE f # e /\ g # e
    BY <2>1, <2>3, <1>7, <1>8 DEF ChainsAreMaps, Fetching
  <2>4. CASE f = e /\ g # e
    BY <2>1, <2>2, <2>4, <1>7, <1>8
  <2>5. CASE f # e /\ g = e
    BY <2>1, <2>2, <2>5, <1>7, <1>8
  <2> QED BY <2>3, <2>4, <2>5
<1>14. SparesFirst
  <2>1. mVMap.rank[e] # 0
    BY <1>1, LastType, CacheAssumption DEF e, Fetching
  <2> QED BY <2>1, <1>7, <1>9 DEF SparesFirst, Retranslated, Fetching
<1> QED
  BY <1>1, <1>2, <1>6, <1>8, <1>9, <1>10, <1>11, <1>12, <1>13, <1>14 DEF Fetched, Sound

LEMMA GetPageStep ==
  ASSUME TypeOK, CodeIsCurrent, ChainsAreMaps, UNCHANGED <<mSpace, memory>>,
         NEW m, NEW v \in VPages, Fetching(m, mPrivileged'), GetPage(m, v, mPrivileged')
  PROVE  Fetched
<1>1. CASE Hit(m, v)
  BY <1>1, HitStep
<1>2. CASE MayExecute(v, mPrivileged') /\ Rebind(m, v)
  BY <1>2, RebindStep
<1>3. CASE MayExecute(v, mPrivileged') /\ PageMiss(m, v)
  BY <1>3, PageMissStep
<1> QED BY <1>1, <1>2, <1>3 DEF GetPage

LEMMA InvalidateTLBType ==
  ASSUME TypeOK, NEW privileged
  PROVE  /\ InvalidateTLB \in MapType
         /\ InvalidateTLB.key = mVMap.key /\ InvalidateTLB.rank = mVMap.rank
         /\ \A b \in Buckets : InvalidateTLB.table[b] = NULL
BY DEF TypeOK, InvalidateTLB, Clear, MapType

LEMMA ClearedIsSound ==
  ASSUME NEW m \in MapType, \A b \in Buckets : m.table[b] = NULL, NEW privileged
  PROVE  Sound(m, privileged)
BY HashAssumption DEF Sound, BucketsAgree, Bound, Lookup

LEMMA GetJITUnitForPCStep ==
  ASSUME IInv, UNCHANGED <<mSpace, memory>>, NEW v \in VPages, GetJITUnitForPC(v)
  PROVE  Fetched /\ mPrivileged' \in BOOLEAN
<1>1. CASE GetPage(mVMap, v, mPrivileged) /\ UNCHANGED mPrivileged
  <2>1. Fetching(mVMap, mPrivileged')
    BY <1>1 DEF IInv, TypeOK, Fetching
  <2> QED BY <1>1, <2>1, GetPageStep DEF IInv, TypeOK
<1>2. CASE mPrivileged' = TRUE /\ GetPage(InvalidateTLB, Vectors, TRUE)
  <2>1. Fetching(InvalidateTLB, mPrivileged')
    BY <1>2, InvalidateTLBType, ClearedIsSound DEF IInv, Fetching
  <2>2. Vectors \in VPages
    BY PagesAssumption
  <2> QED BY <1>2, <2>1, <2>2, GetPageStep DEF IInv
<1> QED BY <1>1, <1>2 DEF GetJITUnitForPC

LEMMA FetchStep ==
  ASSUME IInv, UNCHANGED <<mSpace, memory>>, NEW v \in VPages, GetJITUnitForPC(v),
         misled' \subseteq misled \union {unit}
  PROVE  IInv' /\ SparesFirst
<1>1. Fetched /\ mPrivileged' \in BOOLEAN
  BY GetJITUnitForPCStep
<1>2. TypeOK'
  BY <1>1 DEF Fetched, IInv, TypeOK
<1>3. UnitIsFirst'
  BY <1>1 DEF Fetched, UnitIsFirst
<1> QED BY <1>1, <1>2, <1>3 DEF Fetched, IInv

LEMMA WriteStep ==
  ASSUME IInv, NEW p \in RamPages, NEW content \in Contents, Write(p, content)
  PROVE  IInv'
<1>1. p \in PPages
  BY DEF PPages
<1>2. PICK rank \in Ranks :
        /\ MadeLast(mVMap, mPMap[p], rank)
        /\ mVMap' = [mVMap EXCEPT !.rank = rank, !.table = [b \in Buckets |->
             IF @[b] # NULL /\ \E e \in mPMap[p] : mVMap.key[@[b]] = mVMap.key[e]
             THEN NULL ELSE @[b]]]
  BY DEF Write, InvalidatePage
<1>3. /\ mVMap' \in MapType /\ mVMap'.key = mVMap.key /\ mVMap'.rank = rank
      /\ \A b \in Buckets : mVMap'.table[b] =
           IF mVMap.table[b] # NULL
              /\ \E e \in mPMap[p] : mVMap.key[mVMap.table[b]] = mVMap.key[e]
           THEN NULL ELSE mVMap.table[b]
  BY <1>2 DEF IInv, TypeOK, MapType
<1>4. /\ mPMap' = [mPMap EXCEPT ![p] = {}]
      /\ memory' = [memory EXCEPT ![p] = content]
      /\ UNCHANGED <<mPhysicalAddress, mPage, mSpace, mPrivileged, unit, misled>>
  BY DEF Write, InvalidatePage
<1>5. TypeOK'
  BY <1>1, <1>3, <1>4 DEF IInv, TypeOK
<1>6. CodeIsCurrent' /\ ChainsAreMaps'
  BY <1>1, <1>3, <1>4 DEF IInv, TypeOK, CodeIsCurrent, ChainsAreMaps
<1>7. BucketsAgree(mVMap)'
  BY <1>3 DEF IInv, Sound, BucketsAgree
<1>8. Bound(mVMap, mPrivileged)'
  <2> SUFFICES ASSUME NEW w \in VPages, Lookup(mVMap', w) # NULL
               PROVE  /\ MayExecute(w, mPrivileged)
                      /\ Lookup(mVMap', w) \in mPMap'[Translate(w)]
    BY <1>4 DEF Bound, MayExecute, Translate
  <2> DEFINE x == Lookup(mVMap', w)
  <2>1. /\ x \in Entries /\ x = mVMap'.table[HashFunction[w]] /\ mVMap'.key[x] = w
    BY <1>3, LookupFinds
  <2> HIDE DEF x
  <2>2. HashFunction[w] \in Buckets
    BY HashAssumption
  <2>3. /\ x = mVMap.table[HashFunction[w]]
        /\ ~ \E e \in mPMap[p] : mVMap.key[x] = mVMap.key[e]
    BY <1>3, <2>1, <2>2 DEF NULL, Entries
  <2>4. Lookup(mVMap, w) = x /\ x # NULL
    BY <1>3, <2>1, <2>3 DEF Lookup, NULL, Entries
  <2>5. MayExecute(w, mPrivileged) /\ x \in mPMap[Translate(w)]
    BY <2>4 DEF IInv, Sound, Bound
  <2>6. Translate(w) # p
    BY <2>3, <2>5
  <2> QED BY <1>1, <1>4, <2>5, <2>6 DEF IInv, TypeOK, x
<1>9. UnitIsFirst'
  <2> SUFFICES ASSUME unit \in mPMap'[mPhysicalAddress[unit]] PROVE rank[unit] = 0
    BY <1>3, <1>4 DEF UnitIsFirst
  <2>1. unit \in Entries /\ unit \in mPMap[mPhysicalAddress[unit]] /\ unit \notin mPMap[p]
    BY <1>1, <1>4 DEF IInv, TypeOK, CodeIsCurrent
  <2>2. mVMap.rank[unit] = 0 /\ mVMap.rank \in [Entries -> Nat]
    <3>1. mVMap.rank \in [Entries -> Entries]
      BY DEF IInv, TypeOK, MapType, Ranks
    <3>2. mVMap.rank[unit] = 0
      BY <2>1 DEF IInv, UnitIsFirst
    <3> QED BY <3>1, <3>2 DEF Entries
  <2>3. rank \in [Entries -> Nat] /\ \A e, f \in Entries : rank[e] = rank[f] => e = f
    BY DEF Ranks, Entries
  <2>4. PICK first \in Entries : rank[first] = 0
    BY CacheAssumption DEF Ranks, Entries
  <2>5. ASSUME first # unit PROVE FALSE
    <3>1. rank[first] < rank[unit]
      BY <2>1, <2>3, <2>4, <2>5
    <3>2. first \notin mPMap[p]
      BY <1>2, <2>1, <2>3, <3>1 DEF MadeLast
    <3>3. mVMap.rank[first] < mVMap.rank[unit]
      BY <1>2, <2>1, <3>1, <3>2 DEF MadeLast
    <3> QED BY <2>2, <3>3
  <2> QED BY <2>4, <2>5
<1> QED BY <1>5, <1>6, <1>7, <1>8, <1>9 DEF IInv, Sound

\* A change of mode, or of mappings.
LEMMA InvalidateStep ==
  ASSUME IInv, mVMap' = InvalidateTLB, mPrivileged' \in BOOLEAN, mSpace' \in Spaces,
         UNCHANGED <<mPMap, mPhysicalAddress, mPage, memory, unit, misled>>
  PROVE  IInv'
<1>1. /\ mVMap' \in MapType /\ mVMap'.key = mVMap.key /\ mVMap'.rank = mVMap.rank
      /\ \A b \in Buckets : mVMap'.table[b] = NULL
  BY InvalidateTLBType DEF IInv
<1>2. TypeOK'
  BY <1>1 DEF IInv, TypeOK
<1>3. CodeIsCurrent' /\ ChainsAreMaps' /\ UnitIsFirst'
  BY <1>1 DEF IInv, CodeIsCurrent, ChainsAreMaps, UnitIsFirst
<1>4. Sound(mVMap, mPrivileged)'
  BY <1>1, HashAssumption DEF Sound, BucketsAgree, Bound, Lookup
<1> QED BY <1>2, <1>3, <1>4 DEF IInv

LEMMA InitStep == Init => IInv
<1> SUFFICES ASSUME Init PROVE IInv
  OBVIOUS
<1> DEFINE keys    == [e \in Entries |-> e]
           buckets == [b \in Buckets |-> IF \E e \in Entries : HashFunction[e] = b
                                         THEN CHOOSE e \in Entries : HashFunction[e] = b
                                         ELSE NULL]
<1>1. /\ Entries \subseteq PPages /\ Entries \subseteq VPages
      /\ \A e \in Entries : e \in RomPages
  BY PagesAssumption DEF PPages
<1>2. keys \in Ranks /\ keys \in [Entries -> Keys] /\ 0 \in Entries
  <2>1. 0 \in Entries
    BY CacheAssumption DEF Entries
  <2>2. keys \in [Entries -> Keys]
    BY <1>1
  <2>3. \A i \in Entries : \E e \in Entries : keys[e] = i
    OBVIOUS
  <2>4. keys \in Ranks
    BY <2>3 DEF Ranks
  <2> QED BY <2>1, <2>2, <2>4
<1>3. ASSUME NEW b \in Buckets, buckets[b] # NULL
      PROVE  buckets[b] \in Entries /\ HashFunction[buckets[b]] = b
  BY <1>3
<1>4. buckets \in [Buckets -> Entries \union {NULL}]
  BY <1>3
<1>5. mVMap = [rank |-> keys, key |-> keys, table |-> buckets]
  BY DEF Init, LinkedMap
<1> HIDE DEF keys, buckets
<1>6. mVMap \in MapType
  BY <1>2, <1>4, <1>5 DEF MapType
<1>7. mPMap \in [PPages -> SUBSET Entries] /\ mPhysicalAddress \in [Entries -> PPages]
  BY <1>1 DEF Init
<1>8. memory \in [PPages -> Contents] /\ mPage \in [Entries -> Contents]
  BY <1>1 DEF Init
<1>9. TypeOK
  BY <1>2, <1>6, <1>7, <1>8 DEF Init, TypeOK
<1>10. CodeIsCurrent /\ ChainsAreMaps
  BY <1>1 DEF Init, CodeIsCurrent, ChainsAreMaps
<1>11. BucketsAgree(mVMap)
  BY <1>3, <1>5 DEF BucketsAgree, keys
<1>12. Bound(mVMap, mPrivileged)
  <2> SUFFICES ASSUME NEW v \in VPages, Lookup(mVMap, v) # NULL
               PROVE  /\ MayExecute(v, mPrivileged)
                      /\ Lookup(mVMap, v) \in mPMap[Translate(v)]
    BY DEF Bound
  <2>1. /\ Lookup(mVMap, v) \in Entries /\ mVMap.key[Lookup(mVMap, v)] = v
    BY <1>6, LookupFinds
  <2>2. Lookup(mVMap, v) = v /\ v \in Entries
    BY <2>1, <1>5 DEF keys
  <2>3. v \in mPMap[v] /\ v \in RomPages
    BY <2>2, <1>1 DEF Init
  <2>4. CASE v = Vectors
    <3>1. mSpace \in Spaces /\ mSpace[v] = [pa |-> v, user |-> TRUE]
      BY <2>4, PagesAssumption DEF Init
    <3>2. mSpace[v] # Fault
      <4>1. [pa |-> v, user |-> TRUE] \in [pa : PPages, user : BOOLEAN]
        BY <1>1, <2>2
      <4> QED BY <3>1, <4>1, PagesAssumption
    <3> QED BY <2>2, <2>3, <2>4, <3>1, <3>2 DEF MayExecute, Translate, IsPageInROM
  <2>5. CASE v # Vectors
    BY <2>2, <2>3, <2>5 DEF MayExecute, Translate, IsPageInROM
  <2> QED BY <2>4, <2>5
<1>13. UnitIsFirst
  BY <1>2, <1>5 DEF Init, UnitIsFirst, keys
<1> QED BY <1>9, <1>10, <1>11, <1>12, <1>13 DEF IInv, Sound

LEMMA NextStep == IInv /\ [Next]_vars => IInv'
<1> SUFFICES ASSUME IInv, [Next]_vars PROVE IInv'
  OBVIOUS
<1>1. CASE \E v \in VPages : Branch(v)
  BY <1>1, FetchStep DEF Branch
<1>2. CASE BranchWithinPageFindDelta
  <2>1. mVMap.key[unit] \in VPages
    BY DEF IInv, TypeOK, MapType
  <2>2. misled' \subseteq misled \union {unit} /\ UNCHANGED <<mSpace, memory>>
    BY <1>2 DEF BranchWithinPageFindDelta
  <2> QED BY <1>2, <2>1, <2>2, FetchStep DEF BranchWithinPageFindDelta
<1>3. CASE \E p \in RamPages, content \in Contents : Write(p, content)
  BY <1>3, WriteStep
<1>4. CASE \E privilege \in BOOLEAN : SetPrivilege(privilege)
  BY <1>4, InvalidateStep DEF SetPrivilege, IInv, TypeOK
<1>5. CASE \E space \in Spaces : SetMappings(space)
  BY <1>5, InvalidateStep DEF SetMappings, IInv, TypeOK
<1>6. CASE UNCHANGED vars
  BY <1>6 DEF vars, IInv, TypeOK, CodeIsCurrent, ChainsAreMaps, Sound, BucketsAgree, Bound,
     Lookup, MayExecute, Translate, UnitIsFirst
<1> QED BY <1>1, <1>2, <1>3, <1>4, <1>5, <1>6 DEF Next

-----------------------------------------------------------------------------
(* The theorems.                                                           *)

LEMMA InvariantHolds == Spec => []IInv
BY InitStep, NextStep, PTL DEF Spec

\* Through fetches, writes and changes of mode and mappings, the two maps, the
\* chains and the list of TJITCache stay well formed.
THEOREM CacheTypeCorrect == Spec => []TypeOK
<1>1. IInv => TypeOK
  BY DEF IInv
<1> QED BY <1>1, InvariantHolds, PTL

\* A translation that TJITCache can find is always that of what its page contains:
\* InvalidatePage and PageMiss leave no entry of a written or recycled page behind.
THEOREM CodeAlwaysCurrent == Spec => []CodeIsCurrent
<1>1. IInv => CodeIsCurrent
  BY DEF IInv
<1> QED BY <1>1, InvariantHolds, PTL

\* A page that is found by its virtual address always is one that the MMU would
\* give to the present mode: the map needs no check of permissions on a hit.
THEOREM BindingsAlwaysCurrent == Spec => []BindingsAreCurrent
<1>1. IInv => BindingsAreCurrent
  BY DEF IInv, Sound, Bound, BindingsAreCurrent
<1> QED BY <1>1, InvariantHolds, PTL

\* PageMiss never translates for one physical page the same virtual page twice.
THEOREM ChainsAlwaysMaps == Spec => []ChainsAreMaps
<1>1. IInv => ChainsAreMaps
  BY DEF IInv
<1> QED BY <1>1, InvariantHolds, PTL

\* The page that is executed is the most recently used, and PageMiss recycles the
\* least recently used of at least two.
THEOREM ExecutedPageKept == Spec => KeepsExecutedPage
<1>1. ASSUME IInv, NEW v \in VPages, Branch(v), unit \in mPMap[mPhysicalAddress[unit]]
      PROVE  unit \notin Retranslated
  <2>1. SparesFirst
    BY <1>1, FetchStep DEF Branch
  <2>2. unit \in Entries /\ mVMap.rank[unit] = 0
    BY <1>1 DEF IInv, TypeOK, UnitIsFirst
  <2> QED BY <2>1, <2>2 DEF SparesFirst
<1>2. IInv /\ [Next]_vars => [\A v \in VPages :
         Branch(v) /\ unit \in mPMap[mPhysicalAddress[unit]] => unit \notin Retranslated]_vars
  BY <1>1
<1> QED BY <1>2, InvariantHolds, PTL DEF Spec, KeepsExecutedPage

-----------------------------------------------------------------------------
(* The loop of the emulator thread.                                        *)

\* LoopTypeOK in five parts, each proved by itself.
LoopPCs ==
  /\ emuPC \in EmuPCs
  /\ timerPC \in {"idle", "test", "signal", "interrupted"}
  /\ hostPC \in {"idle", "running", "paused", "wake"}

LoopSets ==
  /\ timerKind \in (IF timerPC = "idle" THEN {"none"} ELSE Kinds)
  /\ theInterrupt \in SUBSET (Kinds \union {"Reset"})
  /\ mPendingInterrupts \in SUBSET Kinds /\ raised \in SUBSET Kinds
  /\ mCPSR \in SUBSET Kinds /\ signalled \in SUBSET Kinds

LoopFlags ==
  /\ stepping \in BOOLEAN
  /\ mSignal \in BOOLEAN /\ mInterrupted \in BOOLEAN
  /\ mRunning \in BOOLEAN /\ mPaused \in BOOLEAN
  /\ woken \in BOOLEAN /\ overwritten \in BOOLEAN /\ broke \in BOOLEAN

SteppingPC == stepping => emuPC \in {"unit", "cpsr", "stepTake"}

AheadInPage ==
  /\ ahead \in 0 .. UnitsPerPage - 1
  /\ ahead > 0 => emuPC \in {"unit", "cpsr"} /\ ~stepping

LEMMA LoopTypeInit == LoopInit => LoopTypeOK
<1> SUFFICES ASSUME LoopInit PROVE LoopTypeOK
  OBVIOUS
<1>1. AheadInPage
  BY UnitsAssumption DEF LoopInit, AheadInPage
<1>2. LoopPCs /\ LoopSets /\ LoopFlags /\ SteppingPC
  BY DEF LoopInit, LoopPCs, LoopSets, LoopFlags, SteppingPC, EmuPCs, Kinds
<1> QED BY <1>1, <1>2
        DEF LoopTypeOK, LoopPCs, LoopSets, LoopFlags, SteppingPC, AheadInPage

\* The next instruction is in the page, and Step executes only one.
LEMMA ContinuesInPage ==
  ASSUME AheadInPage, Continues \/ LeavesPage, UNCHANGED stepping
  PROVE  AheadInPage'
<1>1. CASE ahead > 0 /\ ahead' = ahead - 1 /\ emuPC' = "unit"
  <2>1. ahead' \in 0 .. UnitsPerPage - 1
    BY <1>1, UnitsAssumption DEF AheadInPage
  <2> QED BY <1>1, <2>1 DEF AheadInPage
<1>2. CASE LeavesPage
  BY <1>2, UnitsAssumption DEF LeavesPage, AheadInPage
<1> QED BY <1>1, <1>2 DEF Continues

LEMMA LoopTypeStep ==
  ASSUME LoopTypeOK, [LoopNext]_loopVars
  PROVE  LoopTypeOK'
<1>1. LoopPCs'
  <2> USE DEF LoopTypeOK, LoopPCs, EmuPCs, flagVars, others, outside, Announces, WritesOver
  <2>1. CASE (\E k \in Kinds : Raise(k) \/ Interrupt(k) \/ ClearInterrupt(k)) \/ TimerStep
    BY <2>1 DEF Raise, Interrupt, ClearInterrupt, TimerStep, TestMask, SignalInterrupt,
                SetInterrupted
  <2>2. CASE Stop \/ HostStep \/ Run \/ Step \/ UNCHANGED loopVars
    BY <2>2 DEF Stop, HostStep, StopRunning, StopPaused, WakeEmulatorThread, Run, Step,
                loopVars
  <2>3. CASE Instruction
    BY <2>3 DEF Instruction, SetCPSR, Exception, WriteRegister, PauseSystem, AnyOther,
                Breakpoint, BreakInMonitor, Continues, LeavesPage, AfterPage
  <2>4. CASE EmuStep
    BY <2>4 DEF EmuStep, CheckRunning, CheckPaused, WaitUntilInterrupt, WaitReturns, AfterWait,
                LookInterrupted, ArmSignal, EnterPage, TestPending, Continues, LeavesPage,
                AfterPage, SeeSignal, IsInterrupted, ReadPending, MayRead, Unmasked,
                AckInterrupt, AckTestsPaused, AckSetsSignal, AckClearsInterrupted,
                TakeInterrupt, StepTakes, Takes, MasksAfter
  <2> QED BY <2>1, <2>2, <2>3, <2>4 DEF LoopNext
<1>2. LoopSets'
  <2> LoopSets
    BY DEF LoopTypeOK, LoopSets
  <2> USE DEF LoopSets, flagVars, others, outside
  <2>1. CASE \E k \in Kinds : Raise(k) \/ Interrupt(k) \/ ClearInterrupt(k)
    <3> PICK k \in Kinds : Raise(k) \/ Interrupt(k) \/ ClearInterrupt(k)
      BY <2>1
    <3>1. CASE Raise(k)
      BY <3>1 DEF Raise
    <3>2. CASE Interrupt(k)
      BY <3>2 DEF Interrupt
    <3>3. CASE ClearInterrupt(k)
      BY <3>3 DEF ClearInterrupt
    <3> QED BY <3>1, <3>2, <3>3
  <2>2. CASE TimerStep
    <3>1. CASE TestMask
      BY <3>1 DEF TestMask
    <3>2. CASE SignalInterrupt
      BY <3>2 DEF SignalInterrupt, Announces
    <3>3. CASE SetInterrupted
      BY <3>3 DEF SetInterrupted
    <3> QED BY <2>2, <3>1, <3>2, <3>3 DEF TimerStep
  <2>3. CASE Stop \/ HostStep \/ Run \/ Step \/ UNCHANGED loopVars
    BY <2>3 DEF Stop, HostStep, StopRunning, StopPaused, WakeEmulatorThread, Run, Step,
                loopVars
  <2>4. CASE Instruction
    BY <2>4 DEF Instruction, SetCPSR, Exception, WriteRegister, PauseSystem, AnyOther,
                Breakpoint, BreakInMonitor, Kinds
  <2>5. CASE CheckRunning \/ CheckPaused \/ WaitUntilInterrupt \/ WaitReturns
             \/ AfterWait \/ LookInterrupted \/ ArmSignal \/ EnterPage \/ SeeSignal
             \/ IsInterrupted
    BY <2>5 DEF CheckRunning, CheckPaused, WaitUntilInterrupt, WaitReturns, AfterWait,
                LookInterrupted, ArmSignal, EnterPage, SeeSignal, IsInterrupted, WritesOver
  <2>6. CASE TestPending
    BY <2>6 DEF TestPending, Announces, Unmasked
  <2>7. CASE ReadPending
    BY <2>7 DEF ReadPending, MayRead
  <2>8. CASE AckInterrupt \/ AckTestsPaused \/ AckSetsSignal \/ AckClearsInterrupted
    BY <2>8 DEF AckInterrupt, AckTestsPaused, AckSetsSignal, AckClearsInterrupted,
                WritesOver
  <2>9. \A pending : MasksAfter(pending) \in SUBSET Kinds
    BY DEF MasksAfter, Kinds
  <2>10. CASE TakeInterrupt
    BY <2>9, <2>10 DEF TakeInterrupt, Takes
  <2>11. CASE StepTakes
    BY <2>9, <2>11 DEF StepTakes, Takes
  <2> QED BY <2>1, <2>2, <2>3, <2>4, <2>5, <2>6, <2>7, <2>8, <2>10, <2>11
          DEF LoopNext, EmuStep
<1>3. LoopFlags'
  <2> USE DEF LoopTypeOK, LoopFlags, flagVars, others, outside, Announces, WritesOver
  <2>1. CASE (\E k \in Kinds : Raise(k) \/ Interrupt(k) \/ ClearInterrupt(k)) \/ TimerStep
    BY <2>1 DEF Raise, Interrupt, ClearInterrupt, TimerStep, TestMask, SignalInterrupt,
                SetInterrupted
  <2>2. CASE Stop \/ HostStep \/ Run \/ Step \/ UNCHANGED loopVars
    BY <2>2 DEF Stop, HostStep, StopRunning, StopPaused, WakeEmulatorThread, Run, Step,
                loopVars
  <2>3. CASE Instruction
    BY <2>3 DEF Instruction, SetCPSR, Exception, WriteRegister, PauseSystem, AnyOther,
                Breakpoint, BreakInMonitor, Continues, LeavesPage, AfterPage
  <2>4. CASE CheckRunning \/ CheckPaused \/ WaitUntilInterrupt \/ WaitReturns
             \/ AfterWait \/ LookInterrupted \/ SeeSignal \/ IsInterrupted
    BY <2>4 DEF CheckRunning, CheckPaused, WaitUntilInterrupt, WaitReturns, AfterWait,
                LookInterrupted, SeeSignal, IsInterrupted
  <2>5. CASE EnterPage
    BY <2>5 DEF EnterPage
  <2>6. CASE ArmSignal \/ AckSetsSignal \/ AckClearsInterrupted
    BY <2>6 DEF ArmSignal, AckSetsSignal, AckClearsInterrupted
  <2>7. CASE TestPending
    BY <2>7 DEF TestPending
  <2>8. CASE ReadPending \/ AckInterrupt \/ AckTestsPaused \/ TakeInterrupt \/ StepTakes
    BY <2>8 DEF ReadPending, AckInterrupt, AckTestsPaused, TakeInterrupt, StepTakes
  <2> QED BY <2>1, <2>2, <2>3, <2>4, <2>5, <2>6, <2>7, <2>8 DEF LoopNext, EmuStep
<1>4. SteppingPC'
  <2> USE DEF LoopTypeOK, SteppingPC, flagVars, others, outside, Announces, WritesOver
  <2>1. CASE (\E k \in Kinds : Raise(k) \/ Interrupt(k) \/ ClearInterrupt(k)) \/ TimerStep
    BY <2>1 DEF Raise, Interrupt, ClearInterrupt, TimerStep, TestMask, SignalInterrupt,
                SetInterrupted
  <2>2. CASE Stop \/ HostStep \/ Run \/ Step \/ UNCHANGED loopVars
    BY <2>2 DEF Stop, HostStep, StopRunning, StopPaused, WakeEmulatorThread, Run, Step,
                loopVars
  <2>3. CASE Instruction
    BY <2>3 DEF Instruction, SetCPSR, Exception, WriteRegister, PauseSystem, AnyOther,
                Breakpoint, BreakInMonitor, Continues, LeavesPage, AfterPage
  <2>4. CASE EmuStep
    BY <2>4 DEF EmuStep, CheckRunning, CheckPaused, WaitUntilInterrupt, WaitReturns, AfterWait,
                LookInterrupted, ArmSignal, EnterPage, TestPending, Continues, LeavesPage,
                AfterPage, SeeSignal, IsInterrupted, ReadPending, MayRead, Unmasked,
                AckInterrupt, AckTestsPaused, AckSetsSignal, AckClearsInterrupted,
                TakeInterrupt, StepTakes, Takes, MasksAfter
  <2> QED BY <2>1, <2>2, <2>3, <2>4 DEF LoopNext
<1>5. AheadInPage'
  <2> USE DEF LoopTypeOK, AheadInPage, flagVars, others, outside
  <2>1. CASE (\E k \in Kinds : Raise(k) \/ Interrupt(k) \/ ClearInterrupt(k)) \/ TimerStep
    BY <2>1 DEF Raise, Interrupt, ClearInterrupt, TimerStep, TestMask, SignalInterrupt,
                SetInterrupted
  <2>2. CASE Stop \/ HostStep \/ Run \/ Step \/ UNCHANGED loopVars
    BY <2>2 DEF Stop, HostStep, StopRunning, StopPaused, WakeEmulatorThread, Run, Step,
                loopVars
  <2>3. CASE Instruction
    BY <2>3, ContinuesInPage DEF Instruction, SetCPSR, Exception, WriteRegister,
       PauseSystem, AnyOther, Breakpoint, BreakInMonitor
  <2>4. CASE EnterPage
    BY <2>4 DEF EnterPage
  <2>5. CASE TestPending
    BY <2>5, ContinuesInPage DEF TestPending
  <2>6. CASE EmuStep /\ ~EnterPage /\ ~TestPending
    BY <2>6 DEF EmuStep, CheckRunning, CheckPaused, WaitUntilInterrupt, WaitReturns,
                AfterWait, LookInterrupted, ArmSignal, SeeSignal, IsInterrupted,
                ReadPending, AckInterrupt, AckTestsPaused, AckSetsSignal,
                AckClearsInterrupted, TakeInterrupt, StepTakes
  <2> QED BY <2>1, <2>2, <2>3, <2>4, <2>5, <2>6 DEF LoopNext
<1> QED BY <1>1, <1>2, <1>3, <1>4, <1>5
        DEF LoopTypeOK, LoopPCs, LoopSets, LoopFlags, SteppingPC, AheadInPage

\* The program counters of the loop, and every flag, have one of their values.
THEOREM LoopTypeCorrect == LoopSpec => []LoopTypeOK
<1>1. LoopInit => LoopTypeOK
  BY LoopTypeInit
<1>2. LoopTypeOK /\ [LoopNext]_loopVars => LoopTypeOK'
  BY LoopTypeStep
<1> QED BY <1>1, <1>2, PTL DEF LoopSpec

\* The emulator thread has read the pending interrupts, to take them.
Taking == emuPC \in {"ackRunning", "ackPaused", "ackSignal", "ackInterrupted", "take"}

\* Of an interrupt that is pending and not masked: it was signalled, or the
\* timer thread or the emulator thread is about to, or it is about to be taken.
Announced(k) ==
  \/ k \in signalled
  \/ timerPC \in {"test", "signal"} /\ timerKind = k
  \/ emuPC = "cpsr"
  \/ Taking /\ (k \in theInterrupt \/ "Reset" \in theInterrupt)

AllAnnounced == overwritten \/ \A k \in Unmasked : Announced(k)

\* A signal that was not overwritten still stands.
SignalStands == signalled # {} => ~mSignal

SeenInv == LoopTypeOK /\ AllAnnounced /\ SignalStands

LEMMA AnnouncedStep ==
  ASSUME LoopTypeOK, AllAnnounced, [LoopNext]_loopVars
  PROVE  AllAnnounced'
<1> USE DEF AllAnnounced, Announced, Taking, Unmasked, flagVars, others, outside,
            Announces, WritesOver
<1>1. CASE \E k \in Kinds : Raise(k) \/ Interrupt(k) \/ ClearInterrupt(k)
  BY <1>1 DEF Raise, Interrupt, ClearInterrupt
<1>2. CASE TimerStep
  <2>1. CASE TestMask
    BY <2>1 DEF TestMask
  <2>2. CASE SignalInterrupt
    BY <2>2 DEF SignalInterrupt
  <2>3. CASE SetInterrupted
    BY <2>3 DEF SetInterrupted
  <2> QED BY <1>2, <2>1, <2>2, <2>3 DEF TimerStep
<1>3. CASE Stop \/ HostStep
  BY <1>3 DEF Stop, HostStep, StopRunning, StopPaused, WakeEmulatorThread
<1>4. CASE Run \/ Step
  BY <1>4 DEF Run, Step
<1>5. CASE Instruction
  BY <1>5 DEF Instruction, SetCPSR, Exception, WriteRegister, PauseSystem, AnyOther,
              Breakpoint, BreakInMonitor
<1>6. CASE CheckRunning \/ CheckPaused \/ WaitUntilInterrupt \/ WaitReturns \/ AfterWait
           \/ LookInterrupted \/ ArmSignal \/ EnterPage
  BY <1>6 DEF CheckRunning, CheckPaused, WaitUntilInterrupt, WaitReturns, AfterWait,
              LookInterrupted, ArmSignal, EnterPage
<1>7. CASE TestPending
  BY <1>7 DEF TestPending
<1>8. CASE SeeSignal \/ IsInterrupted
  BY <1>8 DEF SeeSignal, IsInterrupted
<1>9. CASE ReadPending
  BY <1>9 DEF ReadPending, MayRead
<1>10. CASE AckInterrupt \/ AckTestsPaused \/ AckSetsSignal \/ AckClearsInterrupted
  BY <1>10 DEF AckInterrupt, AckTestsPaused, AckSetsSignal, AckClearsInterrupted
<1>11. CASE TakeInterrupt
  <2>1. CASE "Reset" \in theInterrupt
    BY <1>11, <2>1 DEF TakeInterrupt, Takes
  <2>2. CASE "Reset" \notin theInterrupt
    <3>1. \A k \in Kinds \ MasksAfter(theInterrupt) : k \notin theInterrupt /\ k \notin mCPSR
      BY <2>2 DEF MasksAfter, Kinds
    <3> QED BY <1>11, <2>2, <3>1 DEF TakeInterrupt, Takes, LoopTypeOK
  <2> QED BY <2>1, <2>2
<1>12. CASE StepTakes
  <2> PICK pending \in MayRead : Takes(pending)
    BY <1>12 DEF StepTakes
  <2>1. mCPSR \subseteq MasksAfter(pending)
    BY DEF MasksAfter, Kinds, LoopTypeOK
  <2>2. mPendingInterrupts' \subseteq mPendingInterrupts
    BY DEF Takes
  <2> QED BY <1>12, <2>1, <2>2 DEF StepTakes, Takes
<1>13. CASE UNCHANGED loopVars
  BY <1>13 DEF loopVars
<1> QED BY <1>1, <1>2, <1>3, <1>4, <1>5, <1>6, <1>7, <1>8, <1>9, <1>10, <1>11,
           <1>12, <1>13 DEF LoopNext, EmuStep

LEMMA SignalStandsStep ==
  ASSUME LoopTypeOK, SignalStands, [LoopNext]_loopVars
  PROVE  SignalStands'
<1> USE DEF SignalStands, flagVars, others, outside, Announces, WritesOver
<1>1. CASE \E k \in Kinds : Raise(k) \/ Interrupt(k) \/ ClearInterrupt(k)
  BY <1>1 DEF Raise, Interrupt, ClearInterrupt
<1>2. CASE TimerStep
  BY <1>2 DEF TimerStep, TestMask, SignalInterrupt, SetInterrupted
<1>3. CASE Stop \/ HostStep
  BY <1>3 DEF Stop, HostStep, StopRunning, StopPaused, WakeEmulatorThread
<1>4. CASE Run \/ Step
  BY <1>4 DEF Run, Step
<1>5. CASE Instruction
  BY <1>5 DEF Instruction, SetCPSR, Exception, WriteRegister, PauseSystem, AnyOther,
              Breakpoint, BreakInMonitor
<1>6. CASE CheckRunning \/ CheckPaused \/ WaitUntilInterrupt \/ WaitReturns \/ AfterWait
           \/ LookInterrupted \/ ArmSignal \/ EnterPage
  BY <1>6 DEF CheckRunning, CheckPaused, WaitUntilInterrupt, WaitReturns, AfterWait,
              LookInterrupted, ArmSignal, EnterPage
<1>7. CASE TestPending
  BY <1>7 DEF TestPending, SignalsAfterCPSR
<1>8. CASE SeeSignal \/ IsInterrupted \/ ReadPending
  BY <1>8 DEF SeeSignal, IsInterrupted, ReadPending
<1>9. CASE AckInterrupt \/ AckTestsPaused \/ AckSetsSignal \/ AckClearsInterrupted
  BY <1>9 DEF AckInterrupt, AckTestsPaused, AckSetsSignal, AckClearsInterrupted
<1>10. CASE TakeInterrupt \/ StepTakes
  BY <1>10 DEF TakeInterrupt, StepTakes
<1>11. CASE UNCHANGED loopVars
  BY <1>11 DEF loopVars
<1> QED BY <1>1, <1>2, <1>3, <1>4, <1>5, <1>6, <1>7, <1>8, <1>9, <1>10, <1>11
        DEF LoopNext, EmuStep

\* SignalInterrupt against Run and AckInterrupt: while it executes with mSignal
\* set, an unmasked pending interrupt was signalled (AllAnnounced), so the signal
\* was overwritten (SignalStands).
THEOREM InterruptAlwaysSeen == LoopSpec => []InterruptIsSeen
<1>1. LoopInit => SeenInv
  BY LoopTypeInit DEF LoopInit, SeenInv, AllAnnounced, Unmasked, SignalStands
<1>2. SeenInv /\ [LoopNext]_loopVars => SeenInv'
  BY LoopTypeStep, AnnouncedStep, SignalStandsStep DEF SeenInv
<1>3. SeenInv => InterruptIsSeen
  BY DEF SeenInv, AllAnnounced, Announced, Taking, SignalStands, InterruptIsSeen,
         LoopTypeOK
<1> QED BY <1>1, <1>2, <1>3, PTL DEF LoopSpec

-----------------------------------------------------------------------------
(* Once an instruction asked for the monitor, mRunning and mSignal stay     *)
(* clear: the emulator thread is at no point that sets them, and nobody     *)
(* else does, whatever the rest of the page does.                           *)

PastBreak ==
  broke =>
    /\ ~mRunning /\ ~mSignal
    /\ emuPC \notin {"paused", "wait", "waiting", "waited", "look", "arm", "ackPaused",
                     "ackSignal"}

BrokeInv == LoopTypeOK /\ PastBreak

LEMMA PastBreakStep ==
  ASSUME LoopTypeOK, PastBreak, [LoopNext]_loopVars
  PROVE  PastBreak'
<1> USE DEF PastBreak, flagVars, others, outside
<1>1. CASE \E k \in Kinds : Raise(k) \/ Interrupt(k) \/ ClearInterrupt(k)
  BY <1>1 DEF Raise, Interrupt, ClearInterrupt
<1>2. CASE TimerStep
  BY <1>2 DEF TimerStep, TestMask, SignalInterrupt, SetInterrupted
<1>3. CASE Stop \/ HostStep
  BY <1>3 DEF Stop, HostStep, StopRunning, StopPaused, WakeEmulatorThread
<1>4. CASE Run \/ Step
  BY <1>4 DEF Run, Step
<1>5. CASE Instruction
  BY <1>5 DEF Instruction, SetCPSR, Exception, WriteRegister, PauseSystem, AnyOther,
              Breakpoint, BreakInMonitor, Continues, LeavesPage, AfterPage
<1>6. CASE CheckRunning \/ CheckPaused \/ WaitUntilInterrupt \/ WaitReturns \/ AfterWait
           \/ LookInterrupted \/ ArmSignal \/ EnterPage
  BY <1>6 DEF CheckRunning, GoesOn, CheckPaused, WaitUntilInterrupt, WaitReturns,
              AfterWait, LookInterrupted, ArmSignal, EnterPage
<1>7. CASE TestPending \/ SeeSignal \/ IsInterrupted \/ ReadPending
  BY <1>7 DEF TestPending, Continues, LeavesPage, AfterPage, SeeSignal, IsInterrupted,
              ReadPending
<1>8. CASE AckInterrupt \/ AckTestsPaused \/ AckSetsSignal \/ AckClearsInterrupted
  BY <1>8 DEF AckInterrupt, StillRunning, AckTestsPaused, AckSetsSignal,
              AckClearsInterrupted
<1>9. CASE TakeInterrupt \/ StepTakes
  BY <1>9 DEF TakeInterrupt, StepTakes
<1>10. CASE UNCHANGED loopVars
  BY <1>10 DEF loopVars
<1> QED BY <1>1, <1>2, <1>3, <1>4, <1>5, <1>6, <1>7, <1>8, <1>9, <1>10
        DEF LoopNext, EmuStep

\* Breakpoint and BreakInMonitor against AckInterrupt and the rest of the page: no
\* other page is entered before the loop ends.
THEOREM NoPageAfterABreak == LoopSpec => []NoPageAfterBreak
<1>1. LoopInit => BrokeInv
  BY LoopTypeInit DEF LoopInit, BrokeInv, PastBreak
<1>2. BrokeInv /\ [LoopNext]_loopVars => BrokeInv'
  BY LoopTypeStep, PastBreakStep DEF BrokeInv
<1>3. BrokeInv => NoPageAfterBreak
  BY DEF BrokeInv, PastBreak, NoPageAfterBreak
<1> QED BY <1>1, <1>2, <1>3, PTL DEF LoopSpec
==============================================================================
