---------------------------- MODULE RegisterBanks ----------------------------
(***************************************************************************)
(* TARMProcessor keeps the registers an instruction sees in one array,      *)
(* mCurrentRegisters, and moves them to and from the backup copies of the   *)
(* modes (mR13svc_Bkup...) when the mode changes.  The instructions that    *)
(* access the registers of the user mode (LDM^ and STM^) reach for the one  *)
(* or for the other.                                                        *)
(*                                                                          *)
(* mBackup[b][r] is the backup copy of register r in bank b, "user" being   *)
(* mR8_Bkup to mR14_Bkup.  The copies the program does not have (say, R8 of *)
(* the supervisor mode) are never read or written.  A CPSR or a SPSR is its *)
(* mode field: the bits and the pending interrupts are the matter of        *)
(* module InterruptManager.                                                 *)
(***************************************************************************)
EXTENDS ProcessorModes

CONSTANTS
  Registers, Values,
  WrittenModes,   \* mode fields that NewtonOS writes to the CPSR and the SPSRs
  Lists,          \* register lists of its LDM^ instructions
  Exceptions      \* modes of the exceptions that happen

VARIABLES mCurrentRegisters, mBackup, mMode, mSPSR, mPrivilege
vars == <<mCurrentRegisters, mBackup, mMode, mSPSR, mPrivilege>>

ASSUME BanksAssumption ==
  /\ Registers \subseteq 8 .. 14 /\ 14 \in Registers
  /\ WrittenModes \subseteq AllModes \union {Unknown}
  /\ Lists \subseteq SUBSET Registers
  /\ Exceptions \subseteq Exceptional

TypeOK ==
  /\ mCurrentRegisters \in [Registers -> Values]
  /\ mBackup \in [Banks -> [Registers -> Values]]
  /\ mMode \in AllModes
  /\ mSPSR \in [Exceptional -> AllModes \union {Unknown}]
  /\ mPrivilege \in BOOLEAN

\* The constructor clears every register; the privilege is that of TMMU.
Init ==
  /\ \E v \in Values :
       /\ mCurrentRegisters = [r \in Registers |-> v]
       /\ mBackup = [b \in Banks |-> [r \in Registers |-> v]]
  /\ mMode = "svc"
  /\ mSPSR = [m \in Exceptional |-> Unknown]
  /\ mPrivilege = TRUE

-----------------------------------------------------------------------------
(* Changes of mode.                                                        *)

\* Mutant: R8 to R12 are only saved by FIQ mode.
SavedIn_FIQOnly(r) ==
  IF r >= 13 THEN {HighBank(mMode)} ELSE IF mMode = "fiq" THEN {"fiq"} ELSE {}

\* R13 and R14 go to the bank of the mode, R8 to R12 to that of FIQ mode or to
\* that of all the others.
SavedIn(r) ==
  IF r >= 13 THEN {HighBank(mMode)} ELSE IF mMode = "fiq" THEN {"fiq"} ELSE {"user"}

BackupBankRegisters(current, backup) ==
  [b \in Banks |-> [r \in Registers |->
     IF b \in SavedIn(r) THEN current[r] ELSE backup[b][r]]]

\* R8 to R12 when the mode becomes m: they move only to and from FIQ mode.
LowRegister(current, banks, m, r) ==
  IF m = "fiq" THEN banks["fiq"][r]
  ELSE IF mMode = "fiq" THEN banks["user"][r]
  ELSE current[r]

HighRegister(banks, m, r) == banks[HighBank(m)][r]

\* An exception, with these registers, enters mode m; link is its return address.
EnterWith(current, backup, m, link) ==
  LET banks == [BackupBankRegisters(current, backup) EXCEPT ![m][14] = link]
  IN  /\ m \in Exceptions
      /\ mBackup' = banks
      /\ mSPSR' = [mSPSR EXCEPT ![m] = mMode]
      /\ mCurrentRegisters' = [r \in Registers |->
           IF r >= 13 THEN banks[m][r] ELSE LowRegister(current, banks, m, r)]
      /\ mMode' = m
      /\ mPrivilege' = TRUE

Enter(m, link) == EnterWith(mCurrentRegisters, mBackup, m, link)

Reset(link)                  == Enter("svc", link)
DoUndefinedInstruction(link) == Enter("und", link)
DoSWI(link)                  == Enter("svc", link)
PrefetchAbort(link)          == Enter("abt", link)
DataAbort(link)              == Enter("abt", link)
IRQ(link)                    == Enter("irq", link)
FIQ(link)                    == Enter("fiq", link)

\* Mutant: only a return to user mode is noticed by the MMU.
PrivilegeOf_UserOnly(m) == IF m = "usr" THEN FALSE ELSE mPrivilege

PrivilegeOf(m) == m # "usr"

\* Mutant: the mode is set before it is known to exist.
ModeAfter_Unchecked(m) == m

ModeAfter(m) == IF m = Unknown THEN mMode ELSE m

\* A new mode, known.  An unknown one stops in the monitor, after the banks were
\* saved and R8 to R12 restored, with the mode it had.
ChangeMode(m) ==
  LET banks == BackupBankRegisters(mCurrentRegisters, mBackup)
  IN  /\ mBackup' = banks
      /\ mCurrentRegisters' = [r \in Registers |->
           IF r < 13 THEN LowRegister(mCurrentRegisters, banks, m, r)
           ELSE IF m = Unknown THEN mCurrentRegisters[r]
           ELSE HighRegister(banks, m, r)]
      /\ mMode' = ModeAfter(m)
      /\ mPrivilege' = IF m = Unknown THEN mPrivilege ELSE PrivilegeOf(m)
      /\ UNCHANGED mSPSR

SetCPSR(m) == m # mMode /\ ChangeMode(m)

\* The SPSR of user mode reads as the CPSR, that of system mode as 0.
GetSPSR ==
  IF mMode = "usr" THEN mMode ELSE IF mMode = "sys" THEN Unknown ELSE mSPSR[mMode]

\* MOVS PC and LDM with the PC: the end of an exception handler.
ReturnFromException == SetCPSR(GetSPSR)

SetSPSR(m) ==
  /\ mMode \in Exceptional
  /\ mSPSR' = [mSPSR EXCEPT ![mMode] = m]
  /\ UNCHANGED <<mCurrentRegisters, mBackup, mMode, mPrivilege>>

-----------------------------------------------------------------------------
(* Instructions.                                                           *)

WriteRegister(r, v) ==
  /\ mCurrentRegisters' = [mCurrentRegisters EXCEPT ![r] = v]
  /\ UNCHANGED <<mBackup, mMode, mSPSR, mPrivilege>>

\* Mutant: the banked R8 to R12 of FIQ mode are forgotten.
InArray_NoFIQ(r) == r <= 12

\* The user registers that are in the array: all of R8 to R12 but in FIQ mode.
InArray(r) == mMode # "fiq" /\ r <= 12

\* What STM^ stores for a register.
StoreUser(r) == IF InArray(r) THEN mCurrentRegisters[r] ELSE mBackup["user"][r]

\* What LDM^ loads for a list: R13 is tested with the mask of R12 and R13.
LoadedRegisters(list) ==
  IF mMode = "fiq" /\ 12 \in list THEN list \union ({13} \intersect Registers) ELSE list

CurrentAfter(loads, vals) ==
  [r \in Registers |-> IF r \in loads /\ InArray(r) THEN vals[r]
                       ELSE mCurrentRegisters[r]]
BackupAfter(loads, vals) ==
  [mBackup EXCEPT !["user"] =
     [r \in Registers |-> IF r \in loads /\ ~InArray(r) THEN vals[r] ELSE @[r]]]

LDM2(list, vals) ==
  /\ mCurrentRegisters' = CurrentAfter(LoadedRegisters(list), vals)
  /\ mBackup' = BackupAfter(LoadedRegisters(list), vals)
  /\ UNCHANGED <<mMode, mSPSR, mPrivilege>>

\* The word of register last cannot be read: those below have been loaded.
LDM2Aborts(list, vals, last, link) ==
  LET loads == {r \in LoadedRegisters(list) : r < last}
  IN  /\ last \in LoadedRegisters(list)
      /\ EnterWith(CurrentAfter(loads, vals), BackupAfter(loads, vals), "abt", link)

Next ==
  \/ \E link \in Values :
       \/ Reset(link) \/ DoUndefinedInstruction(link) \/ DoSWI(link)
       \/ PrefetchAbort(link) \/ DataAbort(link) \/ IRQ(link) \/ FIQ(link)
  \/ \E m \in WrittenModes : SetCPSR(m) \/ SetSPSR(m)
  \/ ReturnFromException
  \/ \E r \in Registers, v \in Values : WriteRegister(r, v)
  \/ \E list \in Lists, vals \in [Registers -> Values] :
       \/ LDM2(list, vals)
       \/ \E last \in Registers, link \in Values : LDM2Aborts(list, vals, last, link)

Spec == Init /\ [][Next]_vars

-----------------------------------------------------------------------------
(* Properties.                                                             *)

\* The registers as the architecture has them: the array holds the registers of
\* the bank in use, the backup copies those of the others.
View(current, backup, m) ==
  [b \in Banks |-> [r \in Registers |->
     IF b = BankFor(m, r) THEN current[r] ELSE backup[b][r]]]
Architectural == View(mCurrentRegisters, mBackup, mMode)

Banked == INSTANCE BankedRegisters WITH file <- Architectural, mode <- mMode, spsr <- mSPSR

\* Whatever the order of exceptions, returns, changes of mode and transfers of
\* user registers, no bank ever loses or leaks a register.
ImplementsBanks == Banked!Spec

\* STM^ stores the registers of the user, wherever they are (in user and system
\* mode, where R13 and R14 are in use, the instruction is unpredictable).
StoresUserRegisters ==
  mMode \notin {"usr", "sys"} =>
    \A r \in Registers : StoreUser(r) = Architectural["user"][r]

\* LDM^ loads the user registers of its list, and no other.
LoadsUserRegisters ==
  [][\A list \in Lists, vals \in [Registers -> Values] :
       LDM2(list, vals) => Banked!LoadUser(list, vals)]_vars

\* The MMU checks the accesses of user mode, and of user mode only, as user's.
PrivilegeFollowsMode == mPrivilege = (mMode # "usr")
=============================================================================
