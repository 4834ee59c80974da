----------------------- MODULE TranslationTablesProofs -----------------------
(***************************************************************************)
(* The TLB grants what the tables grant, for any tables, pages and size.    *)
(*                                                                          *)
(* The invariant: an entry that is in a bucket is in that of its key        *)
(* (BucketsAgree), so that erasing its key unbinds it before it is recycled;*)
(* and if the key is not stale the entry has what the walk finds            *)
(* (RemembersWalk).  What it grants is decided anew at each hit, so changes *)
(* of the mode do not matter, and those of the rest empty the TLB.          *)
(***************************************************************************)
EXTENDS TranslationTables, HashMapCacheProofs, TLAPS

Found(v) ==
  [page |-> OutPAddress(v), domain |-> First(v).domain, permission |-> PermIndex(v)]

HasWalk(e) ==
  /\ mCache.key[e] \in VPages
  /\ IsMapped(mCache.key[e])
  /\ mEntries[e] = Found(mCache.key[e])

RemembersWalk ==
  \A b \in Buckets :
    mCache.table[b] # NULL /\ mCache.key[mCache.table[b]] \notin stale =>
      HasWalk(mCache.table[b])

IInv == TypeOK /\ BucketsAgree(mCache) /\ RemembersWalk

-----------------------------------------------------------------------------
\* What the walk reads has its type.
LEMMA DescriptorTypes ==
  ASSUME TypeOK, NEW v \in VPages
  PROVE  First(v) \in Level1 /\ Second(v) \in Level2
<1>1. v \div 1024 \in Sections
  BY DEF Sections
<1>2. memory.level1[mTTBase] \in [Sections -> Level1]
  BY DEF TypeOK, Memory
<1>3. First(v) \in Level1
  BY <1>1, <1>2 DEF First
<1>4. First(v).table \in Tables
  BY <1>3 DEF Level1
<1>5. memory.level2[First(v).table] \in [Indexes -> Level2]
  BY <1>4 DEF TypeOK, Memory
<1>6. (v \div 4) % 256 \in Indexes /\ v % 1024 \in Indexes
  BY DEF Indexes
<1> QED BY <1>3, <1>5, <1>6 DEF Second

LEMMA FoundType ==
  ASSUME TypeOK, NEW v \in VPages, IsMapped(v)
  PROVE  Found(v) \in EntryType
<1> DEFINE one == First(v)
           two == Second(v)
<1>1. one \in Level1 /\ two \in Level2 /\ v \in Nat
  BY DescriptorTypes, TablesAssumption
<1>2. /\ one.domain \in Domains /\ one.ap \in AccessPermissions /\ one.base \in Nat
      /\ two.base \in Nat /\ two.ap \in [0 .. 3 -> AccessPermissions]
  BY <1>1 DEF Level1, Level2
<1>3. \A n \in AccessPermissions : two.ap[n] \in AccessPermissions
  BY <1>2 DEF AccessPermissions
<1>4. /\ (v \div 16) % 4 \in 0 .. 3 /\ v % 4 \in 0 .. 3
      /\ (two.base \div 1024) % 4 \in 0 .. 3 /\ (two.base \div 262144) % 4 \in 0 .. 3
  BY <1>1, <1>2
<1>5. LargePermission(v) \in AccessPermissions
  BY <1>3, <1>4 DEF LargePermission, AccessPermissions
<1>6. PermIndex(v) \in AccessPermissions
  BY <1>2, <1>3, <1>4, <1>5 DEF PermIndex, IsMapped, IsSection, SmallSubpage, AccessPermissions
<1>7. OutPAddress(v) \in Int
  BY <1>1, <1>2 DEF OutPAddress, Physical, IsMapped, IsSection
<1> QED BY <1>2, <1>6, <1>7 DEF Found, EntryType

\* A hit grants what the walk would.
LEMMA HitIsWalk ==
  ASSUME IInv, NEW v \in VPages \ stale, NEW write \in BOOLEAN, Hit(v, write)
  PROVE  WalkGrants(v, write) /\ TranslatedTo(v, write) = OutPAddress(v)
<1> DEFINE e == Lookup(mCache, v)
<1>1. v \in Keys /\ mCache \in MapType
  BY TablesAssumption DEF IInv, TypeOK
<1>2. e # NULL /\ mCache.table[HashFunction[v]] = e /\ mCache.key[e] = v
  BY <1>1, LookupFinds DEF Hit
<1>3. HashFunction[v] \in Buckets
  BY <1>1 DEF Buckets
<1>4. IsMapped(v) /\ mEntries[e] = Found(v)
  BY <1>2, <1>3 DEF IInv, RemembersWalk, HasWalk
<1> QED BY <1>4 DEF Hit, WalkGrants, TranslatedTo, Found

LEMMA InvariantImplies == IInv => CachedAsWalked
BY HitIsWalk DEF CachedAsWalked, TranslationGrants, TranslatedTo

-----------------------------------------------------------------------------
\* What the walk finds depends on the two descriptors only.
LEMMA SameDescriptors ==
  ASSUME NEW k, First(k)' = First(k), Second(k)' = Second(k)
  PROVE  (IsMapped(k)' <=> IsMapped(k)) /\ (IsMapped(k) => Found(k)' = Found(k))
<1>1. IsSection(k)' <=> IsSection(k)
  BY DEF IsSection
<1>2. IsMapped(k)' <=> IsMapped(k)
  BY <1>1 DEF IsMapped
<1>3. LargePermission(k)' = LargePermission(k)
  BY DEF LargePermission
<1>4. IsMapped(k) => PermIndex(k)' = PermIndex(k)
  BY <1>1, <1>3 DEF PermIndex, SmallSubpage, IsMapped
<1>5. IsMapped(k) => OutPAddress(k)' = OutPAddress(k)
  BY <1>1 DEF OutPAddress, Physical, IsMapped
<1> QED BY <1>2, <1>4, <1>5 DEF Found

\* An entry leaves its bucket when its key is erased, so the rest of the table
\* does not lead to it.
LEMMA AddToCacheStep ==
  ASSUME IInv, NEW v \in VPages, IsMapped(v), AddToCache(v),
         UNCHANGED <<registers, memory, stale, mFaultStatus>>
  PROVE  IInv'
<1> DEFINE e      == GetLastValue(mCache)
           old    == mCache.key[e]
           erased == Erase(mCache, old)
           rekey  == Rekeyed(e, v)
           added  == Insert(rekey, v, e)
<1>1. v \in Keys /\ mCache \in MapType
  BY TablesAssumption DEF IInv, TypeOK
<1>2. e \in Entries /\ old \in Keys
  BY <1>1, LastType DEF MapType
<1>3. /\ erased \in MapType /\ erased.key = mCache.key
      /\ \A b \in Buckets : erased.table[b] =
           IF b = HashFunction[old] /\ Lookup(mCache, old) # NULL THEN NULL
           ELSE mCache.table[b]
  BY <1>1, <1>2, EraseType
<1>4. \A b \in Buckets : erased.table[b] # e
  <2> SUFFICES ASSUME NEW b \in Buckets, erased.table[b] = e PROVE FALSE
    OBVIOUS
  <2>1. e # NULL
    BY <1>2, CacheAssumption DEF Entries, NULL
  <2>2. mCache.table[b] = e
    BY <1>3, <2>1
  <2>3. HashFunction[old] = b
    BY <2>1, <2>2 DEF IInv, BucketsAgree
  <2>4. Lookup(mCache, old) = e
    BY <2>1, <2>2, <2>3 DEF Lookup
  <2> QED BY <1>3, <2>1, <2>3, <2>4
<1>5. rekey \in MapType /\ rekey.key = [mCache.key EXCEPT ![e] = v] /\ rekey.table = erased.table
  BY <1>1, <1>2, <1>3 DEF Rekeyed, MapType
<1>6. /\ added \in MapType /\ added.key = rekey.key
      /\ \A b \in Buckets : added.table[b] =
           IF b = HashFunction[v] THEN e ELSE rekey.table[b]
  BY <1>1, <1>2, <1>5, InsertType
<1>7. mCache' \in MapType /\ mCache'.key = added.key /\ mCache'.table = added.table
  BY <1>2, <1>6, MakeFirstType DEF AddToCache
<1>8. mEntries' = [mEntries EXCEPT ![e] = Found(v)]
  BY DEF AddToCache, Found
<1>9. TypeOK'
  BY <1>2, <1>7, <1>8, FoundType DEF IInv, TypeOK, registers
<1>10. \A k : First(k)' = First(k) /\ Second(k)' = Second(k)
  BY DEF First, Second, registers
<1>11. \A k : (IsMapped(k)' <=> IsMapped(k)) /\ (IsMapped(k) => Found(k)' = Found(k))
  BY <1>10, SameDescriptors
<1>12. ASSUME NEW b \in Buckets, mCache'.table[b] # NULL
       PROVE  /\ HashFunction[mCache'.key[mCache'.table[b]]] = b
              /\ mCache'.key[mCache'.table[b]] \notin stale' => HasWalk(mCache.table[b])'
  <2>1. CASE b = HashFunction[v]
    <3>1. mCache'.table[b] = e /\ mCache'.key[e] = v /\ mEntries'[e] = Found(v)
      BY <1>1, <1>2, <1>5, <1>6, <1>7, <1>8, <2>1 DEF IInv, TypeOK, MapType
    <3> QED BY <3>1, <2>1, <1>11 DEF HasWalk
  <2>2. CASE b # HashFunction[v]
    <3> DEFINE f == mCache.table[b]
    <3>1. mCache'.table[b] = erased.table[b]
      BY <1>5, <1>6, <1>7, <2>2
    <3>2. mCache'.table[b] = f /\ f # NULL /\ f # e /\ f \in Entries
      BY <1>1, <1>3, <1>4, <1>12, <3>1 DEF MapType
    <3>3. mCache'.key[f] = mCache.key[f] /\ mEntries'[f] = mEntries[f]
      BY <1>1, <1>2, <1>5, <1>6, <1>7, <1>8, <3>2 DEF IInv, TypeOK, MapType
    <3>4. HashFunction[mCache.key[f]] = b
      BY <3>2 DEF IInv, BucketsAgree
    <3>5. mCache.key[f] \notin stale => HasWalk(f)
      BY <3>2 DEF IInv, RemembersWalk
    <3> QED BY <1>11, <3>2, <3>3, <3>4, <3>5 DEF HasWalk
  <2> QED BY <2>1, <2>2
<1> QED BY <1>9, <1>12 DEF IInv, BucketsAgree, RemembersWalk

\* The TLB emptied: no bucket leads to anything.
LEMMA InvalidateStep ==
  ASSUME IInv, InvalidateTLB
  PROVE  /\ mCache' \in MapType /\ mEntries' \in [Entries -> EntryType]
         /\ stale' \subseteq VPages
         /\ BucketsAgree(mCache)' /\ RemembersWalk'
<1>1. mCache \in MapType
  BY DEF IInv, TypeOK
<1>2. mCache' \in MapType /\ \A b \in Buckets : mCache'.table[b] = NULL
  BY <1>1 DEF InvalidateTLB, Clear, MapType
<1> QED BY <1>2 DEF InvalidateTLB, IInv, TypeOK, BucketsAgree, RemembersWalk

\* Entries and descriptors unchanged: those that are not stale remember them still.
LEMMA UnchangedStep ==
  ASSUME IInv, UNCHANGED <<mCache, mEntries>>, stale \subseteq stale',
         \A k \in VPages \ stale' : First(k)' = First(k) /\ Second(k)' = Second(k)
  PROVE  BucketsAgree(mCache)' /\ RemembersWalk'
<1>1. BucketsAgree(mCache)'
  BY DEF IInv, BucketsAgree
<1>2. ASSUME NEW b \in Buckets, mCache'.table[b] # NULL,
             mCache'.key[mCache'.table[b]] \notin stale'
      PROVE  HasWalk(mCache.table[b])'
  <2> DEFINE e == mCache.table[b]
             k == mCache.key[e]
  <2>1. HasWalk(e)
    BY <1>2 DEF IInv, RemembersWalk
  <2>2. k \in VPages \ stale' /\ IsMapped(k) /\ mEntries[e] = Found(k)
    BY <1>2, <2>1 DEF HasWalk
  <2>3. IsMapped(k)' /\ Found(k)' = Found(k)
    <3>1. ASSUME NEW v \in VPages \ stale'
          PROVE  (IsMapped(v)' <=> IsMapped(v)) /\ (IsMapped(v) => Found(v)' = Found(v))
      BY <3>1, SameDescriptors
    <3>2. PICK v \in VPages \ stale' : v = k
      BY <2>2
    <3>3. k' = k
      OBVIOUS
    <3> QED BY <2>2, <3>1, <3>2, <3>3
  <2> QED BY <2>2, <2>3 DEF HasWalk
<1> QED BY <1>1, <1>2 DEF RemembersWalk

LEMMA ModeType ==
  ASSUME mCurrentAPMode \in Modes, NEW bit \in {1, 2, 4}, NEW set \in BOOLEAN
  PROVE  ModeWith(bit, set) \in Modes
<1>1. mCurrentAPMode \in Int /\ 0 <= mCurrentAPMode /\ mCurrentAPMode <= 7
  BY DEF Modes
<1>2. CASE bit = 1
  BY <1>1, <1>2 DEF ModeWith, Modes
<1>3. CASE bit = 2
  BY <1>1, <1>3 DEF ModeWith, Modes
<1>4. CASE bit = 4
  BY <1>1, <1>4 DEF ModeWith, Modes
<1> QED BY <1>2, <1>3, <1>4

LEMMA InitStep == Init => IInv
<1> SUFFICES ASSUME Init PROVE IInv
  OBVIOUS
<1> DEFINE keys    == [e \in Entries |-> NULL]
           buckets == [b \in Buckets |-> NULL]
<1>1. mCache = LinkedMap(keys, buckets)
  BY DEF Init
<1>2. keys \in [Entries -> Keys] /\ buckets \in [Buckets -> Entries \union {NULL}]
  BY TablesAssumption
<1>3. [e \in Entries |-> e] \in Ranks
  BY DEF Ranks
<1>4. mCache \in MapType /\ mCache.table = buckets
  BY <1>1, <1>2, <1>3 DEF LinkedMap, MapType
<1>5. mEntries \in [Entries -> EntryType]
  <2>1. \A d \in Domains : d \in Domains
    OBVIOUS
  <2>2. (CHOOSE d \in Domains : TRUE) \in Domains
    BY TablesAssumption
  <2> QED BY <2>2 DEF Init, EntryType, AccessPermissions, NULL
<1>6. mDomainAC \in DomainAC
  BY DEF Init, DomainAC
<1>7. TypeOK
  <2>1. mMMUEnabled \in BOOLEAN /\ mCurrentAPMode \in Modes /\ mFaultStatus \in Faults
    <3>1. mMMUEnabled = FALSE /\ mCurrentAPMode = 1 /\ mFaultStatus = "unset"
      BY DEF Init
    <3>2. mMMUEnabled \in BOOLEAN
      BY <3>1
    <3> QED BY <3>1, <3>2 DEF Modes, Faults
  <2>2. mTTBase \in Bases /\ memory \in Memory /\ stale \subseteq VPages
    BY TablesAssumption DEF Init
  <2> QED BY <1>4, <1>5, <1>6, <2>1, <2>2 DEF TypeOK
<1>8. BucketsAgree(mCache) /\ RemembersWalk
  BY <1>4 DEF BucketsAgree, RemembersWalk
<1> QED BY <1>7, <1>8 DEF IInv

LEMMA NextStep == IInv /\ [Next]_vars => IInv'
<1> SUFFICES ASSUME IInv, [Next]_vars PROVE IInv'
  OBVIOUS
<1>t. TypeOK
  BY DEF IInv
<1>s. \A k : UNCHANGED <<memory, mTTBase>> => First(k)' = First(k) /\ Second(k)' = Second(k)
  BY DEF First, Second
<1>1. ASSUME NEW v \in VPages, NEW write \in BOOLEAN, Translate(v, write) PROVE IInv'
  <2>1. CASE ~Hit(v, write) /\ WalkGrants(v, write) /\ AddToCache(v) /\ UNCHANGED mFaultStatus
    BY <1>1, <2>1, AddToCacheStep DEF Translate, WalkGrants
  <2>2. CASE UNCHANGED <<mCache, mEntries>>
    <3>1. mFaultStatus' \in Faults
      BY <1>1, <1>t DEF Translate, WalkStatus, Faults, TypeOK
    <3>2. TypeOK'
      BY <1>1, <1>t, <2>2, <3>1 DEF Translate, TypeOK, registers
    <3>3. BucketsAgree(mCache)' /\ RemembersWalk'
      BY <1>1, <1>s, <2>2, UnchangedStep DEF Translate, registers
    <3> QED BY <3>2, <3>3 DEF IInv
  <2> QED BY <1>1, <2>1, <2>2 DEF Translate
<1>2. ASSUME NEW set \in BOOLEAN, SetMMUEnabled(set) PROVE IInv'
  <2>1. TypeOK'
    BY <1>2, <1>t DEF SetMMUEnabled, TypeOK
  <2>2. BucketsAgree(mCache)' /\ RemembersWalk'
    BY <1>2, <1>s, UnchangedStep DEF SetMMUEnabled
  <2> QED BY <2>1, <2>2 DEF IInv
<1>3. ASSUME NEW bit \in {1, 2, 4}, NEW set \in BOOLEAN, SetMode(bit, set) PROVE IInv'
  <2>1. TypeOK'
    BY <1>3, <1>t, ModeType DEF SetMode, TypeOK
  <2>2. BucketsAgree(mCache)' /\ RemembersWalk'
    BY <1>3, <1>s, UnchangedStep DEF SetMode
  <2> QED BY <2>1, <2>2 DEF IInv
<1>4. ASSUME NEW base \in Bases, SetTranslationTableBase(base) PROVE IInv'
  BY <1>4, <1>t, InvalidateStep DEF SetTranslationTableBase, IInv, TypeOK
<1>5. ASSUME NEW control \in Controls, SetDomainAccessControl(control) PROVE IInv'
  BY <1>5, <1>t, InvalidateStep, TablesAssumption DEF SetDomainAccessControl, IInv, TypeOK
<1>6. CASE TLBFunctions
  BY <1>6, <1>t, InvalidateStep DEF TLBFunctions, IInv, TypeOK, registers
<1>7. ASSUME NEW saved \in SavedStates, TransferState(saved) PROVE IInv'
  <2>1. saved \in States
    BY TablesAssumption
  <2> QED BY <1>7, <1>t, <2>1, InvalidateStep DEF TransferState, IInv, TypeOK, States
<1>8. ASSUME NEW written \in Memories, WriteTables(written) PROVE IInv'
  <2>1. written \in Memory
    BY TablesAssumption
  <2>2. TypeOK'
    BY <1>8, <1>t, <2>1 DEF WriteTables, TypeOK, registers
  <2>3. \A k \in VPages \ stale' : First(k)' = First(k) /\ Second(k)' = Second(k)
    BY <1>8 DEF WriteTables
  <2>4. stale \subseteq stale' /\ UNCHANGED <<mCache, mEntries>>
    BY <1>8 DEF WriteTables
  <2> QED BY <2>2, <2>3, <2>4, UnchangedStep DEF IInv
<1>9. CASE UNCHANGED vars
  <2>1. TypeOK'
    BY <1>9, <1>t DEF vars, TypeOK, registers
  <2>2. BucketsAgree(mCache)' /\ RemembersWalk'
    BY <1>9, <1>s, UnchangedStep DEF vars, registers
  <2> QED BY <2>1, <2>2 DEF IInv
<1>10. CASE SetHardwareFault
  <2>1. TypeOK'
    BY <1>10, <1>t DEF SetHardwareFault, TypeOK, registers, Faults
  <2>2. BucketsAgree(mCache)' /\ RemembersWalk'
    BY <1>10, <1>s, UnchangedStep DEF SetHardwareFault, registers
  <2> QED BY <2>1, <2>2 DEF IInv
<1> QED BY <1>1, <1>2, <1>3, <1>4, <1>5, <1>6, <1>7, <1>8, <1>9, <1>10 DEF Next

LEMMA InvariantHolds == Spec => []IInv
BY InitStep, NextStep, PTL DEF Spec

\* The registers, the TLB and the tables keep their types (TMMU).
THEOREM TablesTypeCorrect == Spec => []TypeOK
<1>1. IInv => TypeOK
  BY DEF IInv
<1> QED BY <1>1, InvariantHolds, PTL

\* With any number of TLB entries, any tables and any order of accesses and
\* register writes, TranslateR and TranslateW grant what the walk would, and the
\* page it would, to every page whose descriptors were not written since the
\* TLB was emptied.
THEOREM CachedAlwaysAsWalked == Spec => []CachedAsWalked
BY InvariantHolds, InvariantImplies, PTL

-----------------------------------------------------------------------------
(* The permissions.                                                        *)

\* The two magic numbers say what the table of TMMU.h says.
LEMMA Magic ==
  ASSUME mCurrentAPMode \in Modes, NEW p \in AccessPermissions, NEW write \in BOOLEAN
  PROVE  (CurrentAP(write) \div Bit(p)) % 2 = 1 <=> Allowed(p, write)
<1>1. /\ mCurrentAPMode \in {0, 1, 2, 3, 4, 5, 6, 7}
      /\ p \in {0, 1, 2, 3}
  BY DEF Modes, AccessPermissions
<1>2. Bit(0) = 1 /\ Bit(1) = 2 /\ Bit(2) = 4 /\ Bit(3) = 8
  BY DEF Bit
<1>3. ASSUME NEW ap \in {8, 12, 13, 14, 15}
      PROVE  /\ (ap \div 1) % 2 = 1 <=> ap \in {13, 15}
             /\ (ap \div 2) % 2 = 1 <=> ap \in {14, 15}
             /\ (ap \div 4) % 2 = 1 <=> ap # 8
             /\ (ap \div 8) % 2 = 1
  OBVIOUS
<1>4. CurrentAP(TRUE) = IF mCurrentAPMode % 2 = 1 THEN 14 ELSE 8
  BY <1>1 DEF CurrentAP, Bits_Write
<1>5. /\ mCurrentAPMode = 0 => CurrentAP(FALSE) = 12
      /\ mCurrentAPMode = 1 => CurrentAP(FALSE) = 14
      /\ mCurrentAPMode = 2 => CurrentAP(FALSE) = 13
      /\ mCurrentAPMode = 3 => CurrentAP(FALSE) = 15
      /\ mCurrentAPMode = 4 => CurrentAP(FALSE) = 12
      /\ mCurrentAPMode = 5 => CurrentAP(FALSE) = 15
      /\ mCurrentAPMode = 6 => CurrentAP(FALSE) = 12
      /\ mCurrentAPMode = 7 => CurrentAP(FALSE) = 14
  BY DEF CurrentAP, Bits_Read
<1> DEFINE ap == CurrentAP(write)
<1>6. CASE write = TRUE
  <2>1. ap = IF mCurrentAPMode % 2 = 1 THEN 14 ELSE 8
    BY <1>4, <1>6
  <2> HIDE DEF ap
  <2>2. (ap \div Bit(p)) % 2 = 1 <=> Allowed(p, TRUE)
    <3>1. CASE p = 0
      BY <1>2, <1>3, <2>1, <3>1 DEF Allowed
    <3>2. CASE p = 1
      BY <1>2, <1>3, <2>1, <3>2 DEF Allowed
    <3>3. CASE p = 2
      BY <1>2, <1>3, <2>1, <3>3 DEF Allowed
    <3>4. CASE p = 3
      BY <1>2, <1>3, <2>1, <3>4 DEF Allowed
    <3> QED BY <1>1, <3>1, <3>2, <3>3, <3>4
  <2> QED BY <1>6, <2>2 DEF ap
<1>7. CASE write = FALSE
  <2>1. /\ mCurrentAPMode = 0 => ap = 12
        /\ mCurrentAPMode = 1 => ap = 14
        /\ mCurrentAPMode = 2 => ap = 13
        /\ mCurrentAPMode = 3 => ap = 15
        /\ mCurrentAPMode = 4 => ap = 12
        /\ mCurrentAPMode = 5 => ap = 15
        /\ mCurrentAPMode = 6 => ap = 12
        /\ mCurrentAPMode = 7 => ap = 14
    BY <1>5, <1>7, Zenon
  <2> HIDE DEF ap
  <2>3. ap \in {8, 12, 13, 14, 15}
    BY <1>1, <2>1
  <2>4. /\ (ap \div 1) % 2 = 1 <=> ap \in {13, 15}
        /\ (ap \div 2) % 2 = 1 <=> ap \in {14, 15}
        /\ (ap \div 4) % 2 = 1 <=> ap # 8
        /\ (ap \div 8) % 2 = 1
    BY <1>3, <2>3
  <2>5. /\ ap \in {13, 15} <=> mCurrentAPMode \in {2, 3, 5}
        /\ ap \in {14, 15} <=> mCurrentAPMode \in {1, 3, 5, 7}
        /\ ap # 8
    <3>1. ap \in {13, 15} <=> mCurrentAPMode \in {2, 3, 5}
      BY <1>1, <2>1
    <3>2. ap \in {14, 15} <=> mCurrentAPMode \in {1, 3, 5, 7}
      BY <1>1, <2>1
    <3>3. ap # 8
      BY <1>1, <2>1
    <3> QED BY <3>1, <3>2, <3>3
  <2>2. (ap \div Bit(p)) % 2 = 1 <=> Allowed(p, FALSE)
    <3>1. CASE p = 0
      <4>1. (ap \div Bit(p)) % 2 = 1 <=> mCurrentAPMode \in {2, 3, 5}
        BY <1>2, <2>4, <2>5, <3>1
      <4>2. Allowed(0, FALSE) <=> mCurrentAPMode \in {2, 3, 5}
        BY <1>1 DEF Allowed
      <4> QED BY <3>1, <4>1, <4>2
    <3>2. CASE p = 1
      <4>1. (ap \div Bit(p)) % 2 = 1 <=> mCurrentAPMode \in {1, 3, 5, 7}
        BY <1>2, <2>4, <2>5, <3>2
      <4>2. Allowed(1, FALSE) <=> mCurrentAPMode \in {1, 3, 5, 7}
        BY <1>1 DEF Allowed
      <4> QED BY <3>2, <4>1, <4>2
    <3>3. CASE p = 2
      <4>1. (ap \div Bit(p)) % 2 = 1
        BY <1>2, <2>4, <2>5, <3>3
      <4>2. Allowed(2, FALSE)
        BY DEF Allowed
      <4> QED BY <3>3, <4>1, <4>2
    <3>4. CASE p = 3
      <4>1. (ap \div Bit(p)) % 2 = 1
        BY <1>2, <2>4, <2>5, <3>4
      <4>2. Allowed(3, FALSE)
        BY DEF Allowed
      <4> QED BY <3>4, <4>1, <4>2
    <3> QED BY <1>1, <3>1, <3>2, <3>3, <3>4
  <2> QED BY <1>7, <2>2 DEF ap
<1> QED BY <1>6, <1>7

LEMMA PermissionsStep == TypeOK => PermissionsFollowTables
<1> SUFFICES ASSUME TypeOK, NEW v \in VPages, NEW write \in BOOLEAN,
                    IsMapped(v), mDomainAC[First(v).domain].access,
                    ~mDomainAC[First(v).domain].manager,
                    ~(First(v).type = "fine" /\ Second(v).type = "large"
                        /\ (v \div 16) % 4 # 0)
             PROVE  WalkGrants(v, write) <=> Allowed(Permission(v), write)
  BY DEF PermissionsFollowTables
<1>1. PermIndex(v) \in AccessPermissions
  BY FoundType DEF Found, EntryType
<1>2. PermIndex(v) = Permission(v)
  BY DEF PermIndex, Permission, IsMapped, IsSection, LargePermission, SmallSubpage
<1>3. WalkGrants(v, write) <=> (CurrentAP(write) \div Bit(PermIndex(v))) % 2 = 1
  BY DEF WalkGrants, Granted
<1>4. mCurrentAPMode \in Modes
  BY DEF TypeOK
<1> QED BY <1>1, <1>2, <1>3, <1>4, Magic

\* In every mode, with every table, the walk applies to each access the
\* permission of its subpage, the large pages of fine tables excepted.
THEOREM PermissionsAlwaysFollow == Spec => []PermissionsFollowTables
BY TablesTypeCorrect, PermissionsStep, PTL
=============================================================================
