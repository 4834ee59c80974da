----------------------------- MODULE CodeCache ------------------------------
(***************************************************************************)
(* TJITCache keeps translated pages of code.  mVMap finds one by virtual    *)
(* page; it is emptied whenever a virtual page may mean something else, but *)
(* the translations remain, in mPMap, by physical page, until the memory is *)
(* written or the entry recycled.  The module has the cache, the MMU as far *)
(* as it decides what is executed, the memory, the CPU that fetches code    *)
(* and the branches it patches.                                             *)
(*                                                                          *)
(* A page is 1 KB and stands for its address.  The chain of a physical page *)
(* is a set: no two of its entries have the same key (ChainsAreMaps), so    *)
(* the order of the chain decides nothing.  A translation is the content it *)
(* was made from.                                                           *)
(***************************************************************************)
EXTENDS HashMapCache

CONSTANTS
  RomPages, RamPages,   \* physical pages
  Vectors,              \* the page of the exception vectors
  Spaces,               \* what the translation tables may map, and the MMU disabled
  Fault,                \* a virtual page that cannot be executed
  Contents              \* what a page may contain

VPages == Keys
PPages == RomPages \union RamPages

ASSUME PagesAssumption ==
  /\ Entries \subseteq RomPages /\ RomPages \subseteq VPages /\ Vectors \in RomPages
  /\ \A k, l \in Entries : HashFunction[k] = HashFunction[l] => k = l
  /\ Fault \notin [pa : PPages, user : BOOLEAN]
  /\ Spaces \subseteq [VPages -> [pa : PPages, user : BOOLEAN] \union {Fault}]
  /\ \A space \in Spaces : space[Vectors] = [pa |-> Vectors, user |-> TRUE]

VARIABLES
  mVMap,              \* the map by virtual page
  mPMap,              \* the entries of each physical page
  mPhysicalAddress, mPage,   \* of each entry: its page and its translation
  mSpace, mPrivileged,       \* the MMU: mappings and privilege
  memory,             \* content of the physical pages
  unit,               \* the entry the CPU executes
  misled              \* entries with a branch that does not lead to its target

vars == <<mVMap, mPMap, mPhysicalAddress, mPage, mSpace, mPrivileged, memory, unit, misled>>

TypeOK ==
  /\ mVMap \in MapType
  /\ mPMap \in [PPages -> SUBSET Entries]
  /\ mPhysicalAddress \in [Entries -> PPages]
  /\ mPage \in [Entries -> Contents]
  /\ mSpace \in Spaces
  /\ mPrivileged \in BOOLEAN
  /\ memory \in [PPages -> Contents]
  /\ unit \in Entries
  /\ misled \subseteq Entries

\* Every entry starts with the translation of a page of the ROM.
Init ==
  /\ \E content \in Contents : memory = [p \in PPages |-> content]
  /\ mVMap = LinkedMap([e \in Entries |-> e],
       [b \in Buckets |-> IF \E e \in Entries : HashFunction[e] = b
                          THEN CHOOSE e \in Entries : HashFunction[e] = b ELSE NULL])
  /\ mPMap = [p \in PPages |-> IF p \in Entries THEN {p} ELSE {}]
  /\ mPhysicalAddress = [e \in Entries |-> e]
  /\ mPage = [e \in Entries |-> memory[e]]
  /\ mSpace \in Spaces
  /\ mPrivileged = TRUE
  /\ unit = 0
  /\ misled = {}

-----------------------------------------------------------------------------
(* The cache.                                                              *)

\* The pages of the ROM are not translated, but for the vectors.
IsPageInROM(v) == v \in RomPages \ {Vectors}

MayExecute(v, privileged) ==
  IsPageInROM(v) \/ (mSpace[v] # Fault /\ (mSpace[v].user \/ privileged))

Translate(v) == IF IsPageInROM(v) THEN v ELSE mSpace[v].pa

\* The page is found by its virtual address.
Hit(vmap, v) ==
  /\ Lookup(vmap, v) # NULL
  /\ mVMap' = MakeFirst(vmap, Lookup(vmap, v))
  /\ unit' = Lookup(vmap, v)
  /\ UNCHANGED <<mPMap, mPhysicalAddress, mPage>>

LookupInPMap(vmap, v) == {e \in mPMap[Translate(v)] : vmap.key[e] = v}

\* Only the binding of the page was lost.
Rebind(vmap, v) ==
  \E e \in LookupInPMap(vmap, v) :
    /\ mVMap' = MakeFirst(Insert(vmap, v, e), e)
    /\ unit' = e
    /\ UNCHANGED <<mPMap, mPhysicalAddress, mPage>>

\* Mutant: the recycled entry stays in the chain of its old page.
EraseFromPMap_Never(e) == mPMap

EraseFromPMap(e) == [mPMap EXCEPT ![mPhysicalAddress[e]] = @ \ {e}]

\* The last entry is recycled.
PageMiss(vmap, v) ==
  LET e == GetLastValue(vmap)
      p == Translate(v)
  IN  /\ LookupInPMap(vmap, v) = {}
      /\ mPMap' = [EraseFromPMap(e) EXCEPT ![p] = @ \union {e}]
      /\ mPhysicalAddress' = [mPhysicalAddress EXCEPT ![e] = p]
      /\ mPage' = [mPage EXCEPT ![e] = memory[p]]
      /\ LET erased == Erase(vmap, vmap.key[e])
             keyed  == [erased EXCEPT !.key[e] = v]
         IN  mVMap' = MakeFirst(Insert(keyed, v, e), e)
      /\ unit' = e

GetPage(vmap, v, privileged) ==
  \/ Hit(vmap, v)
  \/ /\ Lookup(vmap, v) = NULL
     /\ MayExecute(v, privileged)
     /\ Rebind(vmap, v) \/ PageMiss(vmap, v)

\* Mutant: the translations of another space or privilege are still found.
InvalidateTLB_Never == mVMap

InvalidateTLB == Clear(mVMap)

\* Mutant: the written page is only forgotten by its virtual addresses.
InvalidatePage_KeepsChain(p) ==
  /\ mVMap' = [mVMap EXCEPT !.table = [b \in Buckets |->
       IF @[b] # NULL /\ \E e \in mPMap[p] : mVMap.key[@[b]] = mVMap.key[e]
       THEN NULL ELSE @[b]]]
  /\ UNCHANGED mPMap

\* The entries of the page are unbound, by key, and made the next to be recycled.
InvalidatePage(p) ==
  /\ \E rank \in Ranks :
       /\ MadeLast(mVMap, mPMap[p], rank)
       /\ mVMap' = [mVMap EXCEPT !.rank = rank, !.table = [b \in Buckets |->
            IF @[b] # NULL /\ \E e \in mPMap[p] : mVMap.key[@[b]] = mVMap.key[e]
            THEN NULL ELSE @[b]]]
  /\ mPMap' = [mPMap EXCEPT ![p] = {}]

-----------------------------------------------------------------------------
(* The CPU.                                                                *)

\* The units of an entry that was translated again are new.
Retranslated ==
  {e \in Entries : mPhysicalAddress'[e] # mPhysicalAddress[e] \/ mVMap'.key[e] # mVMap.key[e]
                   \/ mPage'[e] # mPage[e]}

\* GetJITUnitForPC: a fault enters the abort mode, which unbinds every page, and
\* goes to the vectors.
GetJITUnitForPC(v) ==
  \/ GetPage(mVMap, v, mPrivileged) /\ UNCHANGED mPrivileged
  \/ /\ Lookup(mVMap, v) = NULL
     /\ ~MayExecute(v, mPrivileged)
     /\ mPrivileged' = TRUE
     /\ GetPage(InvalidateTLB, Vectors, TRUE)

Branch(v) ==
  /\ GetJITUnitForPC(v)
  /\ misled' = misled \ Retranslated
  /\ UNCHANGED <<mSpace, memory>>

\* A branch within the page, for the first time: it becomes the distance from the
\* unit of the branch to that of the target, written where the branch was.
BranchWithinPageFindDelta ==
  /\ GetJITUnitForPC(mVMap.key[unit])
  /\ misled' = (misled \ Retranslated) \union
       (IF unit' = unit /\ unit \notin Retranslated THEN {} ELSE {unit})
  /\ UNCHANGED <<mSpace, memory>>

\* A store, in RAM.
Write(p, content) ==
  /\ memory' = [memory EXCEPT ![p] = content]
  /\ InvalidatePage(p)
  /\ UNCHANGED <<mPhysicalAddress, mPage, mSpace, mPrivileged, unit, misled>>

\* A change of mode.
SetPrivilege(privilege) ==
  /\ mPrivileged' = privilege
  /\ mVMap' = InvalidateTLB
  /\ UNCHANGED <<mPMap, mPhysicalAddress, mPage, mSpace, memory, unit, misled>>

\* A write to the registers of the MMU: its base, its domains, its switch.
SetMappings(space) ==
  /\ mSpace' = space
  /\ mVMap' = InvalidateTLB
  /\ UNCHANGED <<mPMap, mPhysicalAddress, mPage, mPrivileged, memory, unit, misled>>

Next ==
  \/ \E v \in VPages : Branch(v)
  \/ BranchWithinPageFindDelta
  \/ \E p \in RamPages, content \in Contents : Write(p, content)
  \/ \E privilege \in BOOLEAN : SetPrivilege(privilege)
  \/ \E space \in Spaces : SetMappings(space)

Spec == Init /\ [][Next]_vars

\* A saved state is loaded: the cache is told that the bindings have changed.
TransferState ==
  /\ memory' \in [PPages -> Contents]
  /\ mSpace' \in Spaces
  /\ mPrivileged' \in BOOLEAN
  /\ mVMap' = InvalidateTLB
  /\ UNCHANGED <<mPMap, mPhysicalAddress, mPage, unit, misled>>

\* The program whose saved states are loaded while it has translations.
SpecWithStates == Init /\ [][Next \/ TransferState]_vars

-----------------------------------------------------------------------------
(* Properties.                                                             *)

\* Every translation that can be found is that of the current content of its page.
CodeIsCurrent ==
  \A p \in PPages : \A e \in mPMap[p] : mPhysicalAddress[e] = p /\ mPage[e] = memory[p]

\* What is found by virtual page is what the MMU would now give, to this mode.
BindingsAreCurrent ==
  \A v \in VPages : LET e == Lookup(mVMap, v) IN
    e # NULL => MayExecute(v, mPrivileged) /\ e \in mPMap[Translate(v)]

\* A page has one translation for each of its virtual addresses.
ChainsAreMaps ==
  \A p \in PPages : \A e, f \in mPMap[p] : mVMap.key[e] = mVMap.key[f] => e = f

\* A page miss does not recycle the page that is executed, unless it was written.
KeepsExecutedPage ==
  [][\A v \in VPages : Branch(v) /\ unit \in mPMap[mPhysicalAddress[unit]] =>
       unit \notin Retranslated]_vars

\* A branch within a page that was patched leads to its target, for as long as
\* the page can be found.
BranchesStayInPage ==
  \A p \in PPages : mPMap[p] \intersect misled = {}
=============================================================================
