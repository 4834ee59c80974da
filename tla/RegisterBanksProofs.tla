------------------------- MODULE RegisterBanksProofs -------------------------
(***************************************************************************)
(* The register banks of TARMProcessor implement the banked registers of    *)
(* the architecture, for all registers, values, modes and lists.  The       *)
(* argument: saving the bank of a mode turns the backup copies into the     *)
(* whole of the architectural registers (SavedBanks), and restoring another *)
(* bank from such copies leaves these registers alone (RestoredBanks).      *)
(***************************************************************************)
EXTENDS RegisterBanks, TLAPS

USE DEF AllModes, Unknown, Exceptional, Banks

LEMMA SavedBanks ==
  ASSUME mMode \in AllModes, NEW current, NEW backup
  PROVE  BackupBankRegisters(current, backup) = View(current, backup, mMode)
<1>1. \A b \in Banks, r \in Registers : b \in SavedIn(r) <=> b = BankFor(mMode, r)
  BY DEF SavedIn, BankFor, HighBank
<1> QED BY <1>1 DEF BackupBankRegisters, View

LEMMA RestoredBanks ==
  ASSUME NEW current \in [Registers -> Values],
         NEW banks \in [Banks -> [Registers -> Values]],
         NEW m \in AllModes,
         \A r \in Registers : current[r] = banks[BankFor(m, r)][r]
  PROVE  View(current, banks, m) = banks
<1>1. \A b \in Banks, r \in Registers :
        (IF b = BankFor(m, r) THEN current[r] ELSE banks[b][r]) = banks[b][r]
  OBVIOUS
<1>2. \A b \in Banks : [r \in Registers |-> IF b = BankFor(m, r) THEN current[r]
                                          ELSE banks[b][r]] = banks[b]
  BY <1>1
<1> QED BY <1>2 DEF View

LEMMA ViewType ==
  ASSUME NEW current \in [Registers -> Values],
         NEW backup \in [Banks -> [Registers -> Values]], NEW m
  PROVE  View(current, backup, m) \in [Banks -> [Registers -> Values]]
BY DEF View

\* A low register is where the new mode looks for it.
LEMMA LowRegisters ==
  ASSUME mMode \in AllModes, NEW current, NEW banks, NEW m, NEW r \in Registers, r < 13,
         \A b \in Banks : b = BankFor(mMode, r) => banks[b][r] = current[r]
  PROVE  LowRegister(current, banks, m, r) = banks[BankFor(m, r)][r]
BY BanksAssumption DEF LowRegister, BankFor

-----------------------------------------------------------------------------

LEMMA EnterStep ==
  ASSUME TypeOK, NEW current \in [Registers -> Values],
         NEW backup \in [Banks -> [Registers -> Values]], NEW m, NEW link \in Values,
         EnterWith(current, backup, m, link)
  PROVE  /\ TypeOK'
         /\ Architectural' = [View(current, backup, mMode) EXCEPT ![m][14] = link]
         /\ mSPSR' = [mSPSR EXCEPT ![m] = mMode]
         /\ mMode' = m
         /\ m \in Exceptional
<1> DEFINE file  == View(current, backup, mMode)
           banks == [file EXCEPT ![m][14] = link]
<1>1. file = BackupBankRegisters(current, backup) /\ file \in [Banks -> [Registers -> Values]]
  BY SavedBanks, ViewType DEF TypeOK
<1>2. /\ m \in Exceptional /\ mBackup' = banks /\ mSPSR' = [mSPSR EXCEPT ![m] = mMode]
      /\ mCurrentRegisters' = [r \in Registers |->
           IF r >= 13 THEN banks[m][r] ELSE LowRegister(current, banks, m, r)]
      /\ mMode' = m /\ mPrivilege' = TRUE
  BY <1>1, BanksAssumption DEF EnterWith
<1>3. banks \in [Banks -> [Registers -> Values]]
  BY <1>1, <1>2, BanksAssumption
<1>4. \A r \in Registers : mCurrentRegisters'[r] = banks[BankFor(m, r)][r]
  <2> SUFFICES ASSUME NEW r \in Registers
               PROVE  mCurrentRegisters'[r] = banks[BankFor(m, r)][r]
    OBVIOUS
  <2>1. CASE r >= 13
    BY <2>1, <1>2 DEF BankFor, HighBank
  <2>2. CASE r < 13
    <3>1. \A b \in Banks : banks[b][r] = file[b][r]
      BY <2>2, <1>1, <1>2
    <3>2. \A b \in Banks : b = BankFor(mMode, r) => file[b][r] = current[r]
      BY DEF View
    <3>3. LowRegister(current, banks, m, r) = banks[BankFor(m, r)][r]
      <4> HIDE DEF banks, file
      <4> QED BY <3>1, <3>2, <2>2, LowRegisters DEF TypeOK
    <3> QED BY <3>3, <2>2, <1>2, BanksAssumption
  <2> QED BY <2>1, <2>2, BanksAssumption
<1>5. mCurrentRegisters' \in [Registers -> Values]
  <2>1. \A r \in Registers : BankFor(m, r) \in Banks
    BY <1>2 DEF BankFor, HighBank
  <2>2. mCurrentRegisters' = [r \in Registers |-> banks[BankFor(m, r)][r]]
    BY <1>2, <1>4
  <2> QED BY <2>1, <2>2, <1>3
<1>6. TypeOK'
  BY <1>2, <1>3, <1>5 DEF TypeOK
<1>7. Architectural' = banks
  <2> HIDE DEF banks
  <2> QED BY <1>2, <1>3, <1>4, <1>5, RestoredBanks DEF Architectural
<1> QED BY <1>2, <1>6, <1>7

LEMMA SwitchStep ==
  ASSUME TypeOK, NEW m \in AllModes, ChangeMode(m)
  PROVE  TypeOK' /\ Banked!SwitchTo(m)
<1> DEFINE banks == View(mCurrentRegisters, mBackup, mMode)
<1>1. banks = BackupBankRegisters(mCurrentRegisters, mBackup)
      /\ banks \in [Banks -> [Registers -> Values]]
  BY SavedBanks, ViewType DEF TypeOK
<1>2. /\ mBackup' = banks /\ mMode' = m /\ mPrivilege' \in BOOLEAN /\ UNCHANGED mSPSR
      /\ mCurrentRegisters' = [r \in Registers |->
           IF r < 13 THEN LowRegister(mCurrentRegisters, banks, m, r)
           ELSE banks[HighBank(m)][r]]
  BY <1>1 DEF ChangeMode, HighRegister, ModeAfter, PrivilegeOf, TypeOK
<1>3. \A r \in Registers : mCurrentRegisters'[r] = banks[BankFor(m, r)][r]
  <2> SUFFICES ASSUME NEW r \in Registers
               PROVE  mCurrentRegisters'[r] = banks[BankFor(m, r)][r]
    OBVIOUS
  <2>1. CASE r >= 13
    BY <2>1, <1>2, BanksAssumption DEF BankFor
  <2>2. CASE r < 13
    <3>1. \A b \in Banks : b = BankFor(mMode, r) => banks[b][r] = mCurrentRegisters[r]
      BY DEF View
    <3>2. LowRegister(mCurrentRegisters, banks, m, r) = banks[BankFor(m, r)][r]
      <4> HIDE DEF banks
      <4> QED BY <3>1, <2>2, LowRegisters DEF TypeOK
    <3> QED BY <3>2, <2>2, <1>2
  <2> QED BY <2>1, <2>2, BanksAssumption
<1>4. mCurrentRegisters' \in [Registers -> Values]
  <2>1. \A r \in Registers : BankFor(m, r) \in Banks
    BY DEF BankFor, HighBank
  <2>2. mCurrentRegisters' = [r \in Registers |-> banks[BankFor(m, r)][r]]
    BY <1>2, <1>3
  <2> QED BY <2>1, <2>2, <1>1
<1>5. Architectural' = Architectural
  <2>1. View(mCurrentRegisters', banks, m) = banks
    <3> HIDE DEF banks
    <3> QED BY <1>1, <1>3, <1>4, RestoredBanks
  <2> QED BY <2>1, <1>2 DEF Architectural
<1> QED BY <1>1, <1>2, <1>4, <1>5 DEF TypeOK, Banked!SwitchTo, Banked!AllModes

LEMMA UnknownStep ==
  ASSUME TypeOK, ChangeMode(Unknown)
  PROVE  TypeOK' /\ Banked!SwitchToUnknown
<1> DEFINE banks == View(mCurrentRegisters, mBackup, mMode)
           low   == [r \in Registers |-> banks["user"][r]]
<1>1. banks = BackupBankRegisters(mCurrentRegisters, mBackup)
      /\ banks \in [Banks -> [Registers -> Values]]
  BY SavedBanks, ViewType DEF TypeOK
<1>2. /\ mBackup' = banks /\ UNCHANGED <<mMode, mSPSR, mPrivilege>>
      /\ mCurrentRegisters' = [r \in Registers |->
           IF r < 13 /\ mMode = "fiq" THEN banks["user"][r] ELSE mCurrentRegisters[r]]
  BY <1>1 DEF ChangeMode, ModeAfter, LowRegister, TypeOK
<1>3. low \in [Registers -> Values] /\ mCurrentRegisters' \in [Registers -> Values]
  BY <1>1, <1>2 DEF TypeOK
<1>4. Architectural' =
        [banks EXCEPT !["fiq"] = [r \in Registers |->
           IF mMode = "fiq" /\ r < 13 THEN low[r] ELSE @[r]]]
  <2>1. \A b \in Banks, r \in Registers :
          (IF b = BankFor(mMode, r) THEN mCurrentRegisters'[r] ELSE banks[b][r])
          = IF b = "fiq" /\ mMode = "fiq" /\ r < 13 THEN low[r] ELSE banks[b][r]
    BY <1>2, BanksAssumption DEF View, BankFor, HighBank, TypeOK
  <2>2. Architectural' = [b \in Banks |-> [r \in Registers |->
          IF b = "fiq" /\ mMode = "fiq" /\ r < 13 THEN low[r] ELSE banks[b][r]]]
    <3> HIDE DEF low, banks
    <3> QED BY <2>1, <1>2 DEF Architectural, View
  <2> HIDE DEF low, banks
  <2> QED BY <2>2, <1>1
<1> HIDE DEF low
<1> QED BY <1>1, <1>2, <1>3, <1>4 DEF Banked!SwitchToUnknown, Architectural, TypeOK

LEMMA WriteStep ==
  ASSUME TypeOK, NEW r \in Registers, NEW v \in Values, WriteRegister(r, v)
  PROVE  TypeOK' /\ Banked!Write(r, v)
<1>1. BankFor(mMode, r) \in Banks
  BY DEF BankFor, HighBank, TypeOK
<1>2. TypeOK'
  BY DEF WriteRegister, TypeOK
<1>3. \A b \in Banks, q \in Registers :
        (IF b = BankFor(mMode, q) THEN mCurrentRegisters'[q] ELSE mBackup[b][q])
        = IF b = BankFor(mMode, r) /\ q = r THEN v ELSE Architectural[b][q]
  BY DEF WriteRegister, Architectural, View, TypeOK
<1>4. Architectural' = [b \in Banks |-> [q \in Registers |->
        IF b = BankFor(mMode, r) /\ q = r THEN v ELSE Architectural[b][q]]]
  BY <1>3 DEF WriteRegister, Architectural, View
<1>5. Architectural \in [Banks -> [Registers -> Values]]
  BY ViewType DEF Architectural, TypeOK
<1>6. Architectural' = [Architectural EXCEPT ![BankFor(mMode, r)][r] = v]
  BY <1>1, <1>4, <1>5
<1>7. Banked!BankFor(mMode, r) = BankFor(mMode, r)
  BY DEF BankFor, Banked!BankFor, HighBank, Banked!HighBank
<1> QED BY <1>2, <1>6, <1>7 DEF Banked!Write, WriteRegister

-----------------------------------------------------------------------------
(* LDM^.                                                                   *)

\* The registers that LDM^ leaves alone in the modes where R13 and R14 are those
\* of the user, because it writes the copies that are not in use.
Kept == IF mMode \in {"usr", "sys"} THEN {13, 14} ELSE {}

LEMMA LoadView ==
  ASSUME TypeOK, NEW loads \in SUBSET Registers, NEW vals \in [Registers -> Values]
  PROVE  /\ CurrentAfter(loads, vals) \in [Registers -> Values]
         /\ BackupAfter(loads, vals) \in [Banks -> [Registers -> Values]]
         /\ View(CurrentAfter(loads, vals), BackupAfter(loads, vals), mMode)
              = Banked!Loaded(loads, vals, Kept)
         /\ Kept \in Banked!Keepable
<1> DEFINE current == CurrentAfter(loads, vals)
           backup  == BackupAfter(loads, vals)
<1>1. current \in [Registers -> Values] /\ backup \in [Banks -> [Registers -> Values]]
  BY DEF CurrentAfter, BackupAfter, TypeOK
<1>2. Architectural \in [Banks -> [Registers -> Values]]
  BY ViewType DEF Architectural, TypeOK
<1>3. \A b \in Banks, r \in Registers :
        (IF b = BankFor(mMode, r) THEN current[r] ELSE backup[b][r])
        = IF b = "user" /\ r \in loads \ Kept THEN vals[r] ELSE Architectural[b][r]
  <2> SUFFICES ASSUME NEW b \in Banks, NEW r \in Registers
               PROVE (IF b = BankFor(mMode, r) THEN current[r] ELSE backup[b][r])
                     = IF b = "user" /\ r \in loads \ Kept THEN vals[r]
                       ELSE Architectural[b][r]
    OBVIOUS
  <2>1. current[r] = IF r \in loads /\ InArray(r) THEN vals[r] ELSE mCurrentRegisters[r]
    BY DEF CurrentAfter
  <2>2. backup[b][r] = IF b = "user" /\ r \in loads /\ ~InArray(r) THEN vals[r]
                       ELSE mBackup[b][r]
    BY DEF BackupAfter, TypeOK
  <2>3. Architectural[b][r] = IF b = BankFor(mMode, r) THEN mCurrentRegisters[r]
                              ELSE mBackup[b][r]
    BY DEF Architectural, View
  <2>4. CASE r >= 13
    <3>1. r \in {13, 14}
      BY <2>4, BanksAssumption
    <3> QED BY <2>1, <2>2, <2>3, <2>4, <3>1 DEF BankFor, HighBank, InArray, Kept, TypeOK
  <2>5. CASE r < 13
    <3>1. r \notin Kept /\ r <= 12
      BY <2>5, BanksAssumption DEF Kept
    <3>2. BankFor(mMode, r) = IF mMode = "fiq" THEN "fiq" ELSE "user"
      BY <2>5, BanksAssumption DEF BankFor
    <3> QED BY <2>1, <2>2, <2>3, <3>1, <3>2 DEF InArray
  <2> QED BY <2>4, <2>5, BanksAssumption
<1>4. View(current, backup, mMode) = [b \in Banks |-> [r \in Registers |->
        IF b = "user" /\ r \in loads \ Kept THEN vals[r] ELSE Architectural[b][r]]]
  <2> HIDE DEF current, backup
  <2> QED BY <1>3 DEF View
<1>5. Banked!Loaded(loads, vals, Kept) = [b \in Banks |-> [r \in Registers |->
        IF b = "user" /\ r \in loads \ Kept THEN vals[r] ELSE Architectural[b][r]]]
  BY <1>2 DEF Banked!Loaded
<1> QED BY <1>1, <1>4, <1>5 DEF Kept, Banked!Keepable

LEMMA LoadStep ==
  ASSUME TypeOK, NEW list \in SUBSET Registers, NEW vals \in [Registers -> Values],
         LDM2(list, vals)
  PROVE  TypeOK' /\ Banked!LoadUser(LoadedRegisters(list), vals)
<1>1. LoadedRegisters(list) \in SUBSET Registers
  BY DEF LoadedRegisters
<1> QED BY <1>1, LoadView
        DEF LDM2, TypeOK, Banked!LoadUser, Architectural

LEMMA AbortStep ==
  ASSUME TypeOK, NEW list \in SUBSET Registers, NEW vals \in [Registers -> Values],
         NEW last \in Registers, NEW link \in Values,
         LDM2Aborts(list, vals, last, link)
  PROVE  /\ TypeOK'
         /\ \E loads \in SUBSET Registers : Banked!LoadUserAborts(loads, vals, link)
<1> DEFINE loads == {r \in LoadedRegisters(list) : r < last}
<1>1. loads \in SUBSET Registers
  BY DEF LoadedRegisters
<1>2. EnterWith(CurrentAfter(loads, vals), BackupAfter(loads, vals), "abt", link)
  BY DEF LDM2Aborts
<1> HIDE DEF loads
<1>3. /\ CurrentAfter(loads, vals) \in [Registers -> Values]
      /\ BackupAfter(loads, vals) \in [Banks -> [Registers -> Values]]
      /\ View(CurrentAfter(loads, vals), BackupAfter(loads, vals), mMode)
           = Banked!Loaded(loads, vals, Kept)
      /\ Kept \in Banked!Keepable
  BY <1>1, LoadView
<1>4. /\ TypeOK'
      /\ Architectural' = [Banked!Loaded(loads, vals, Kept) EXCEPT !["abt"][14] = link]
      /\ mSPSR' = [mSPSR EXCEPT !["abt"] = mMode]
      /\ mMode' = "abt"
  BY <1>2, <1>3, EnterStep
<1>5. Banked!LoadUserAborts(loads, vals, link)
  BY <1>3, <1>4 DEF Banked!LoadUserAborts
<1> QED BY <1>1, <1>4, <1>5

-----------------------------------------------------------------------------

LEMMA NextStep ==
  ASSUME TypeOK, [Next]_vars
  PROVE  TypeOK' /\ [Banked!Next]_<<Architectural, mMode, mSPSR>>
<1>0. AllModes = Banked!AllModes /\ Exceptional = Banked!Exceptional
      /\ Unknown = Banked!Unknown
  BY DEF Banked!AllModes, Banked!Exceptional, Banked!Unknown
<1>1. ASSUME NEW m, NEW link \in Values, Enter(m, link)
      PROVE  TypeOK' /\ Banked!Next
  <2>1. TypeOK' /\ m \in Exceptional /\ Banked!Enter(m, link)
    BY <1>1, EnterStep DEF Enter, TypeOK, Banked!Enter, Architectural
  <2> QED BY <2>1, <1>0 DEF Banked!Next
<1>2. ASSUME NEW m \in AllModes \union {Unknown}, SetCPSR(m)
      PROVE  TypeOK' /\ Banked!Next
  <2>1. CASE m = Unknown
    BY <1>2, <2>1, UnknownStep DEF SetCPSR, Banked!Next
  <2>2. CASE m \in AllModes
    BY <1>0, <1>2, <2>2, SwitchStep DEF SetCPSR, Banked!Next
  <2> QED BY <2>1, <2>2
<1>3. ASSUME NEW m \in WrittenModes, SetSPSR(m)
      PROVE  TypeOK' /\ Banked!Next
  <2>1. TypeOK' /\ Architectural' = Architectural /\ Banked!WriteSPSR(m)
    BY <1>0, <1>3, BanksAssumption DEF SetSPSR, TypeOK, Architectural, View, Banked!WriteSPSR
  <2> QED BY <2>1, <1>0, BanksAssumption DEF Banked!Next
<1>4. GetSPSR \in AllModes \union {Unknown}
  BY DEF GetSPSR, TypeOK
<1>5. ASSUME NEW r \in Registers, NEW v \in Values, WriteRegister(r, v)
      PROVE  TypeOK' /\ Banked!Next
  BY <1>5, WriteStep DEF Banked!Next
<1>6. ASSUME NEW list \in Lists, NEW vals \in [Registers -> Values], LDM2(list, vals)
      PROVE  TypeOK' /\ Banked!Next
  <2>1. LoadedRegisters(list) \in SUBSET Registers
    BY BanksAssumption DEF LoadedRegisters
  <2> QED BY <1>6, <2>1, LoadStep, BanksAssumption DEF Banked!Next
<1>7. ASSUME NEW list \in Lists, NEW vals \in [Registers -> Values],
             NEW last \in Registers, NEW link \in Values, LDM2Aborts(list, vals, last, link)
      PROVE  TypeOK' /\ Banked!Next
  BY <1>7, AbortStep, BanksAssumption DEF Banked!Next
<1>8. CASE UNCHANGED vars
  BY <1>8 DEF vars, TypeOK, Architectural, View
<1> QED BY <1>1, <1>2, <1>3, <1>4, <1>5, <1>6, <1>7, <1>8, BanksAssumption
        DEF Next, Reset, DoUndefinedInstruction, DoSWI, PrefetchAbort, DataAbort, IRQ, FIQ,
            ReturnFromException

\* The registers, the mode and the SPSRs keep their types.
THEOREM BanksTypeCorrect == Spec => []TypeOK
<1>1. Init => TypeOK
  BY DEF Init, TypeOK
<1>2. TypeOK /\ [Next]_vars => TypeOK'
  BY NextStep
<1> QED BY <1>1, <1>2, PTL DEF Spec

\* No exception, return, mode change or transfer of user registers, in any order
\* and with any register list, loses or leaks a register of another bank.
THEOREM BanksImplemented == Spec => ImplementsBanks
<1>1. Init => Banked!Init
  <2>1. ASSUME NEW v \in Values, mCurrentRegisters = [r \in Registers |-> v],
               mBackup = [b \in Banks |-> [r \in Registers |-> v]]
        PROVE  Architectural = [b \in Banks |-> [r \in Registers |-> v]]
    BY <2>1 DEF Architectural, View
  <2> QED BY <2>1 DEF Init, Banked!Init, Banked!Banks, Banked!Exceptional,
             Banked!AllModes, Banked!Unknown
<1>2. TypeOK /\ [Next]_vars => [Banked!Next]_<<Architectural, mMode, mSPSR>>
  BY NextStep
<1> QED BY <1>1, <1>2, BanksTypeCorrect, PTL
        DEF Spec, ImplementsBanks, Banked!Spec, Banked!vars

\* LDM^ loads the registers of its list and no other, provided that no list has
\* R12 without R13 (in FIQ mode R13 is loaded with it).
THEOREM LoadsWhatIsListed ==
  ASSUME \A list \in Lists : 12 \in list /\ 13 \in Registers => 13 \in list
  PROVE  Spec => LoadsUserRegisters
<1>1. ASSUME TypeOK, NEW list \in Lists, NEW vals \in [Registers -> Values], LDM2(list, vals)
      PROVE  Banked!LoadUser(list, vals)
  <2>1. LoadedRegisters(list) = list /\ list \in SUBSET Registers
    BY BanksAssumption DEF LoadedRegisters
  <2> QED BY <1>1, <2>1, LoadStep
<1>2. TypeOK => [\A list \in Lists, vals \in [Registers -> Values] :
                   LDM2(list, vals) => Banked!LoadUser(list, vals)]_vars
  BY <1>1
<1> QED BY <1>2, BanksTypeCorrect, PTL DEF LoadsUserRegisters

\* The MMU always checks the accesses with the privilege of the mode.
THEOREM PrivilegeAlwaysFollows == Spec => []PrivilegeFollowsMode
<1>1. Init => PrivilegeFollowsMode
  BY DEF Init, PrivilegeFollowsMode
<1>2. TypeOK /\ PrivilegeFollowsMode /\ [Next]_vars => PrivilegeFollowsMode'
  <2> SUFFICES ASSUME TypeOK, PrivilegeFollowsMode, [Next]_vars
               PROVE  PrivilegeFollowsMode'
    OBVIOUS
  <2>1. ASSUME NEW m, NEW link, NEW current, NEW backup, EnterWith(current, backup, m, link)
        PROVE  PrivilegeFollowsMode'
    BY <2>1, BanksAssumption DEF EnterWith, PrivilegeFollowsMode
  <2>2. ASSUME NEW m, SetCPSR(m)
        PROVE  PrivilegeFollowsMode'
    BY <2>2 DEF SetCPSR, ChangeMode, ModeAfter, PrivilegeOf, PrivilegeFollowsMode
  <2> QED BY <2>1, <2>2
          DEF Next, vars, Enter, Reset, DoUndefinedInstruction, DoSWI, PrefetchAbort,
              DataAbort, IRQ, FIQ, ReturnFromException, SetSPSR, WriteRegister, LDM2,
              LDM2Aborts, PrivilegeFollowsMode
<1> QED BY <1>1, <1>2, BanksTypeCorrect, PTL DEF Spec

\* STM^ stores the registers of the user bank, in every mode but those where the
\* instruction is unpredictable.
THEOREM StoresAlwaysUser == Spec => []StoresUserRegisters
<1>1. TypeOK => StoresUserRegisters
  BY BanksAssumption DEF TypeOK, StoresUserRegisters, StoreUser, InArray, Architectural,
     View, BankFor, HighBank
<1> QED BY <1>1, BanksTypeCorrect, PTL
=============================================================================
