-------------------------- MODULE TranslationTables --------------------------
(***************************************************************************)
(* TMMU: the walk through the translation tables, the TLB that remembers    *)
(* what it found, and the registers of the system coprocessor that decide   *)
(* what is granted.  Every call comes from the emulator thread.             *)
(*                                                                          *)
(* A virtual or a physical page is 1 KB, the smallest there is, and is the  *)
(* number of its first kilobyte.  A key of the TLB is a virtual page, or    *)
(* NULL for the key 1 that the constructor gives.  An entry of a table is a *)
(* record; one of type "external" cannot be read.                           *)
(***************************************************************************)
EXTENDS HashMapCache

CONSTANTS
  VPages,       \* the virtual pages
  Bases,        \* the first level tables
  Tables,       \* the second level tables
  Domains,
  Controls,     \* what the program writes to the domain access control
  Memories,     \* what it writes to the tables
  SavedStates   \* the registers and the memory of saved states

Sections == {v \div 1024 : v \in VPages}
Indexes  == {v % 1024 : v \in VPages} \union {(v \div 4) % 256 : v \in VPages}
AccessPermissions == 0 .. 3

Level1 == [type : {"fault", "coarse", "section", "fine", "external"},
           domain : Domains, ap : AccessPermissions, base : Nat, table : Tables]
Level2 == [type : {"fault", "large", "small", "tiny", "external"},
           ap : [0 .. 3 -> AccessPermissions], base : Nat]

Memory == [level1 : [Bases -> [Sections -> Level1]],
           level2 : [Tables -> [Indexes -> Level2]]]

\* A domain has two bits: access, and access without checks.
DomainAC == [Domains -> [access : BOOLEAN, manager : BOOLEAN]]

\* mCurrentAPMode: its bits are kAPMagic_Privileged, _ROM and _System.
Modes == 0 .. 7

\* What mFaultStatus may be, without the domain; "unset" before the first fault.
Faults == {"unset", "ExternalTrLvl1", "TranslationSection", "DomainSection", "DomainPage",
           "ExternalTrLvl2", "TranslationPage", "PermissionPage", "PermissionSection",
          "ExternalNLFPage"}

States == [mMMUEnabled : BOOLEAN, mCurrentAPMode : Modes, mTTBase : Bases,
           mDomainAC : DomainAC, mFaultStatus : Faults, memory : Memory]

ASSUME TablesAssumption ==
  /\ VPages \subseteq Nat /\ Keys = VPages \union {NULL}
  /\ Bases # {} /\ Domains # {}
  /\ Memories \subseteq Memory /\ Memories # {}
  /\ Controls \subseteq DomainAC
  /\ SavedStates \subseteq States

VARIABLES
  mMMUEnabled, mCurrentAPMode, mTTBase, mDomainAC,
  mFaultStatus,    \* mFaultAddress, written with it, is left out
  mCache,          \* the TLB
  mEntries,        \* the rest of its entries: page, domain and permission
  memory,          \* the tables
  stale            \* history: pages whose entries were written since the TLB was emptied

registers == <<mMMUEnabled, mCurrentAPMode, mTTBase, mDomainAC>>
vars == <<registers, mFaultStatus, mCache, mEntries, memory, stale>>

\* An entry that was never used has no domain and no permission yet; nothing
\* finds it.
Init ==
  /\ mMMUEnabled = FALSE
  /\ mCurrentAPMode = 1
  /\ mTTBase \in Bases
  /\ mDomainAC = [d \in Domains |-> [access |-> TRUE, manager |-> TRUE]]
  /\ mFaultStatus = "unset"
  /\ mCache = LinkedMap([e \in Entries |-> NULL], [b \in Buckets |-> NULL])
  /\ mEntries = [e \in Entries |->
                   [page |-> NULL, domain |-> CHOOSE d \in Domains : TRUE, permission |-> 0]]
  /\ memory \in Memories
  /\ stale = {}

-----------------------------------------------------------------------------
\* The walk.

First(v) == memory.level1[mTTBase][v \div 1024]

Second(v) ==
  memory.level2[First(v).table][IF First(v).type = "coarse"
                                THEN (v \div 4) % 256 ELSE v % 1024]

\* A page of size kilobytes in which v lies.
Physical(base, size, v) == base - (base % size) + (v % size)

\* Mutant: the permissions of a small page are taken by large subpages.
SmallSubpage_Large(v) == (v \div 16) % 4

SmallSubpage(v) == v % 4

\* The permission of a large page of a fine table is read at a distance of 8
\* bits from subpage to subpage, not 2: from the address of the page.
LargePermission(v) ==
  LET page    == Second(v)
      subpage == (v \div 16) % 4
  IN  IF First(v).type = "coarse" \/ subpage = 0 THEN page.ap[subpage]
      ELSE CASE subpage = 1 -> 0
             [] subpage = 2 -> (page.base \div 1024) % 4
             [] subpage = 3 -> (page.base \div 262144) % 4

IsSection(v) == First(v).type = "section"

\* entryPermIndex
PermIndex(v) ==
  IF IsSection(v) THEN First(v).ap
  ELSE CASE Second(v).type = "large" -> LargePermission(v)
         [] Second(v).type = "small" -> Second(v).ap[SmallSubpage(v)]
         [] Second(v).type = "tiny"  -> Second(v).ap[0]

OutPAddress(v) ==
  IF IsSection(v) THEN Physical(First(v).base, 1024, v)
  ELSE CASE Second(v).type = "large" -> Physical(Second(v).base, 64, v)
         [] Second(v).type = "small" -> Physical(Second(v).base, 4, v)
         [] Second(v).type = "tiny"  -> Second(v).base

\* The tables map the page.
IsMapped(v) ==
  \/ IsSection(v)
  \/ First(v).type \in {"coarse", "fine"} /\ Second(v).type \in {"large", "small"}
  \/ First(v).type = "fine" /\ Second(v).type = "tiny"

\* kAPMagic_Bits_Read and kAPMagic_Bits_Write: four bits for each mode.
Bits_Read  == <<12, 14, 13, 15, 12, 15, 12, 14>>
Bits_Write == <<8, 14, 8, 14, 8, 14, 8, 14>>

Bit(n) == <<1, 2, 4, 8>>[n + 1]

CurrentAP(write) == (IF write THEN Bits_Write ELSE Bits_Read)[mCurrentAPMode + 1]

\* What the domain and the permission of a page grant.
Granted(domain, permission, write) ==
  /\ mDomainAC[domain].access
  /\ \/ mDomainAC[domain].manager
     \/ (CurrentAP(write) \div Bit(permission)) % 2 = 1

WalkGrants(v, write) ==
  IsMapped(v) /\ Granted(First(v).domain, PermIndex(v), write)

\* A tiny page in a coarse table: the walk fails and says nothing.
IsUnpredictable(v) ==
  /\ First(v).type = "coarse" /\ Second(v).type = "tiny"
  /\ mDomainAC[First(v).domain].access

\* The status of a walk that fails otherwise, in the order of the tests.
WalkStatus(v) ==
  CASE First(v).type = "external" -> "ExternalTrLvl1"
    [] First(v).type = "fault" -> "TranslationSection"
    [] ~mDomainAC[First(v).domain].access ->
         IF IsSection(v) THEN "DomainSection" ELSE "DomainPage"
    [] IsSection(v) -> "PermissionSection"
    [] Second(v).type = "external" -> "ExternalTrLvl2"
    [] Second(v).type = "fault" -> "TranslationPage"
    [] OTHER -> "PermissionPage"

-----------------------------------------------------------------------------
\* TranslateR and TranslateW.

\* The entry the TLB has for the page, if it grants the access.
Hit(v, write) ==
  LET e == Lookup(mCache, v)
  IN  e # NULL /\ Granted(mEntries[e].domain, mEntries[e].permission, write)

TranslationGrants(v, write) == Hit(v, write) \/ WalkGrants(v, write)

TranslatedTo(v, write) ==
  IF Hit(v, write) THEN mEntries[Lookup(mCache, v)].page ELSE OutPAddress(v)

\* The entry leaves the table and has the key of the page.
Rekeyed(e, v) == [Erase(mCache, mCache.key[e]) EXCEPT !.key[e] = v]

AddToCache(v) ==
  LET e == GetLastValue(mCache)
  IN  /\ mCache' = MakeFirst(Insert(Rekeyed(e, v), v, e), e)
      /\ mEntries' = [mEntries EXCEPT ![e] =
           [page |-> OutPAddress(v), domain |-> First(v).domain,
            permission |-> PermIndex(v)]]

Translate(v, write) ==
  /\ mMMUEnabled
  /\ \/ Hit(v, write) /\ UNCHANGED <<mFaultStatus, mCache, mEntries>>
     \/ ~Hit(v, write) /\ WalkGrants(v, write) /\ AddToCache(v) /\ UNCHANGED mFaultStatus
     \/ /\ ~TranslationGrants(v, write)
        /\ mFaultStatus' = IF IsUnpredictable(v) THEN mFaultStatus ELSE WalkStatus(v)
        /\ UNCHANGED <<mCache, mEntries>>
  /\ UNCHANGED <<registers, memory, stale>>

\* The page was granted, and there is nothing to read or write at its address.
SetHardwareFault ==
  /\ mFaultStatus' = "ExternalNLFPage"
  /\ UNCHANGED <<registers, mCache, mEntries, memory, stale>>

-----------------------------------------------------------------------------
\* The registers.

\* Mutant: the TLB is kept when the tables or the domains change.
InvalidateTLB_Never == UNCHANGED <<mCache, mEntries, stale>>

InvalidateTLB == mCache' = Clear(mCache) /\ stale' = {} /\ UNCHANGED mEntries

SetMMUEnabled(enable) ==
  /\ mMMUEnabled' = enable
  /\ UNCHANGED <<mCurrentAPMode, mTTBase, mDomainAC, mFaultStatus, mCache, mEntries, memory, stale>>

\* Mutant: the bit is added to the mode, whether or not it is set.
ModeWith_Added(bit, set) == mCurrentAPMode + (IF set THEN bit ELSE 0)

ModeWith(bit, set) ==
  mCurrentAPMode - ((mCurrentAPMode \div bit) % 2) * bit + (IF set THEN bit ELSE 0)

\* SetPrivilege, SetROMProtection and SetSystemProtection: the TLB is kept, for
\* an entry is granted anew each time it is found.
SetMode(bit, set) ==
  /\ mCurrentAPMode' = ModeWith(bit, set)
  /\ UNCHANGED <<mMMUEnabled, mTTBase, mDomainAC, mFaultStatus, mCache, mEntries, memory, stale>>

SetTranslationTableBase(base) ==
  /\ InvalidateTLB
  /\ mTTBase' = base
  /\ UNCHANGED <<mMMUEnabled, mCurrentAPMode, mDomainAC, mFaultStatus, memory>>

\* SetFaultStatusRegister as well: it writes the domains.
SetDomainAccessControl(control) ==
  /\ InvalidateTLB
  /\ mDomainAC' = control
  /\ UNCHANGED <<mMMUEnabled, mCurrentAPMode, mTTBase, mFaultStatus, memory>>

TLBFunctions == InvalidateTLB /\ UNCHANGED <<registers, mFaultStatus, memory>>

TransferState(saved) ==
  /\ InvalidateTLB
  /\ mMMUEnabled' = saved.mMMUEnabled /\ mCurrentAPMode' = saved.mCurrentAPMode
  /\ mTTBase' = saved.mTTBase /\ mDomainAC' = saved.mDomainAC
  /\ mFaultStatus' = saved.mFaultStatus
  /\ memory' = saved.memory

\* The program writes its tables; it is for it to empty the TLB.
WriteTables(written) ==
  /\ memory' = written
  /\ UNCHANGED <<registers, mFaultStatus, mCache, mEntries>>
  /\ stale' = stale \union
       {v \in VPages : First(v)' # First(v) \/ Second(v)' # Second(v)}

Next ==
  \/ \E v \in VPages, write \in BOOLEAN : Translate(v, write)
  \/ SetHardwareFault
  \/ \E set \in BOOLEAN : SetMMUEnabled(set) \/ \E bit \in {1, 2, 4} : SetMode(bit, set)
  \/ \E base \in Bases : SetTranslationTableBase(base)
  \/ \E control \in Controls : SetDomainAccessControl(control)
  \/ TLBFunctions
  \/ \E saved \in SavedStates : TransferState(saved)
  \/ \E written \in Memories : WriteTables(written)

Spec == Init /\ [][Next]_vars

-----------------------------------------------------------------------------
\* Properties.

EntryType == [page : Int, domain : Domains, permission : AccessPermissions]

TypeOK ==
  /\ mMMUEnabled \in BOOLEAN /\ mCurrentAPMode \in Modes
  /\ mTTBase \in Bases /\ mDomainAC \in DomainAC
  /\ mFaultStatus \in Faults
  /\ mCache \in MapType
  /\ mEntries \in [Entries -> EntryType]
  /\ memory \in Memory
  /\ stale \subseteq VPages

\* With the TLB a page is granted when the tables grant it, and it is the page
\* they give, in every mode and for every access, unless its entries in the
\* tables were written after the TLB was emptied.
CachedAsWalked ==
  \A v \in VPages \ stale, write \in BOOLEAN :
    /\ TranslationGrants(v, write) <=> WalkGrants(v, write)
    /\ WalkGrants(v, write) => TranslatedTo(v, write) = OutPAddress(v)

\* The rules for the access permissions that TMMU.h tabulates ("New magic").
Allowed(permission, write) ==
  LET privileged == mCurrentAPMode % 2 = 1
      rom        == (mCurrentAPMode \div 2) % 2 = 1
      system     == mCurrentAPMode \div 4 = 1
  IN  CASE permission = 3 -> TRUE
        [] permission = 2 -> ~write \/ privileged
        [] permission = 1 -> privileged
        [] permission = 0 -> ~write /\ rom # system /\ (rom \/ privileged)

\* The permission that the descriptor has for the subpage.
Permission(v) ==
  IF IsSection(v) THEN First(v).ap
  ELSE Second(v).ap[CASE Second(v).type = "large" -> (v \div 16) % 4
                      [] Second(v).type = "small" -> v % 4
                      [] Second(v).type = "tiny"  -> 0]

\* A client of a domain is granted what the descriptor allows to the subpage,
\* but for the large pages of a fine table after their first quarter.
PermissionsFollowTables ==
  \A v \in VPages, write \in BOOLEAN :
    /\ IsMapped(v) /\ mDomainAC[First(v).domain].access /\ ~mDomainAC[First(v).domain].manager
    /\ ~(First(v).type = "fine" /\ Second(v).type = "large" /\ (v \div 16) % 4 # 0)
    => (WalkGrants(v, write) <=> Allowed(Permission(v), write))
=============================================================================
