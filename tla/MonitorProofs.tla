---------------------------- MODULE MonitorProofs ----------------------------
(***************************************************************************)
(* The breakpoints hide nothing but themselves while no two threads are in a *)
(* call of TMemory at once, and Stop finds the loop, for any memory, mappings *)
(* and program.                                                             *)
(*                                                                          *)
(* Types holds whatever overlaps.  Sound, until two calls overlap, adds to    *)
(* the first property that an address has one record, that only a breakpoint *)
(* is disabled, which one may be out of its place while the monitor steps,   *)
(* and what a call of the console keeps between two of its steps: what the   *)
(* word and the record hold, and that the mode it gives back is the mode it  *)
(* found.  StopInv adds to the second that the monitor is halted where it    *)
(* waits and that no command follows Stop's.                                *)
(***************************************************************************)
EXTENDS Monitor, TLAPS

\* A call of the console has its locals, and steps have their address.
ConsoleInv ==
  /\ setting # {} => consolePC \in {"setWrite", "setRecord", "clearWrite"}
  /\ savedPrivilege = FALSE => consolePC \in ConsoleCalls

StepsAtPC ==
  monitorPC \in {"disable", "disabling", "stepDisable", "stepDisabling"} \/ SteppingOver
    => realPC \in VAddrs

Types == ThreadsOK /\ MemoryOK /\ ConsoleInv /\ StepsAtPC

OneRecord == \A b, c \in mBreakpoints : b.fAddress = c.fAddress => b = c

OnlyBreakpoints == \A p \in disabled : Records(p) # {}

PrivilegeKept == PrivilegeFollows /\ (raised \/ savedPrivilege \/ userMode)

SettingKept ==
  /\ \A b, c \in setting : b = c
  /\ \A b \in setting :
       /\ Records(b.fAddress) = {}
       /\ b.fAddress \notin overwritten =>
            /\ b.fOriginalValue = meant[b.fAddress]
            /\ consolePC = "setWrite" => words[b.fAddress] = meant[b.fAddress]
            /\ consolePC = "setRecord" => words[b.fAddress] = b.fBPValue

MemoryInv ==
  MemoryOK /\ WordsInPlace /\ OneRecord /\ OnlyBreakpoints /\ PrivilegeKept /\ SettingKept

OneDisabled ==
  IF SteppingOver THEN disabled \ missed \subseteq {mapping[realPC]}
                  ELSE disabled \subseteq missed

Sound == MemoryInv /\ OneDisabled /\ ~Overlap

IInv == torn \in BOOLEAN /\ Types /\ (torn = FALSE => Sound)

-----------------------------------------------------------------------------
\* The calls of the monitor thread.

programWords == <<mapping, meant, overwritten, userMode>>

LEMMA WritesType ==
  ASSUME MemoryOK, NEW v, NEW field \in {"fOriginalValue", "fBPValue"}, Writes(v, field)
  PROVE  words' \in [Words -> Codes \union IDs]
<1>1. ASSUME NEW q \in Words, Records(q) # {}
      PROVE  (CHOOSE b \in Records(q) : TRUE)[field] \in Codes \union IDs
  <2>1. PICK b : b = (CHOOSE c \in Records(q) : TRUE)
    OBVIOUS
  <2>2. b \in Records(q)
    BY <1>1, <2>1
  <2>3. b \in SBreakpoint
    BY <2>2 DEF Records, MemoryOK
  <2>4. b.fOriginalValue \in Codes \union IDs /\ b.fBPValue \in Codes \union IDs
    BY <2>3 DEF SBreakpoint
  <2>5. QED
    BY <2>1, <2>4
<1>2. words \in [Words -> Codes \union IDs]
  BY DEF MemoryOK
<1>3. QED
  BY <1>1, <1>2 DEF Writes

\* The fields of the memory keep their types.
LEMMA CallTypes ==
  ASSUME MemoryOK, NEW v,
         ClearBreakpoint(v) \/ DisableBreakpoint(v) \/ EnableBreakpoint(v),
         UNCHANGED <<programWords, consoleVars>>
  PROVE  MemoryOK'
<1>1. words' \in [Words -> Codes \union IDs]
  BY WritesType DEF ClearBreakpoint, DisableBreakpoint, EnableBreakpoint
<1>2. mBreakpoints' \subseteq SBreakpoint
  BY DEF ClearBreakpoint, DisableBreakpoint, EnableBreakpoint, MemoryOK
<1>3. disabled' \subseteq Words /\ missed' \subseteq disabled'
  <2>1. {b.fAddress : b \in Records(mapping[v])} \subseteq Words
    BY DEF Records, MemoryOK, SBreakpoint
  <2>2. QED
    BY <2>1 DEF ClearBreakpoint, DisableBreakpoint, EnableBreakpoint, MemoryOK
<1>4. mPrivilege' \in BOOLEAN /\ raised' \in BOOLEAN
  BY DEF ClearBreakpoint, DisableBreakpoint, EnableBreakpoint, MemoryOK
<1>5. QED
  BY <1>1, <1>2, <1>3, <1>4 DEF MemoryOK, programWords, consoleVars

\* The record of an address, when it has one.
LEMMA TheRecord ==
  ASSUME MemoryInv, NEW p, Records(p) # {}
  PROVE  \E b \in mBreakpoints :
           /\ Records(p) = {b} /\ b.fAddress = p /\ p \in Words
           /\ (CHOOSE c \in Records(p) : TRUE) = b
           /\ b.fOriginalValue \in Codes \union IDs /\ b.fBPValue \in IDs
<1>1. PICK b \in Records(p) : TRUE
  OBVIOUS
<1>2. b \in mBreakpoints /\ b.fAddress = p
  BY DEF Records
<1>3. Records(p) = {b}
  BY <1>2 DEF Records, MemoryInv, OneRecord
<1>4. b \in SBreakpoint
  BY <1>2 DEF MemoryInv, MemoryOK
<1>5. b.fAddress \in Words /\ b.fOriginalValue \in Codes \union IDs /\ b.fBPValue \in IDs
  BY <1>4 DEF SBreakpoint
<1>6. QED
  BY <1>2, <1>3, <1>5

\* What Writes leaves at an address, for each of the two fields.
LEMMA WritesField ==
  ASSUME MemoryInv, NEW v \in VAddrs, NEW field \in {"fOriginalValue", "fBPValue"},
         Writes(v, field)
  PROVE  /\ \A q \in Words : q # mapping[v] => words'[q] = words[q]
         /\ \A b \in Records(mapping[v]) : words'[mapping[v]] = b[field]
         /\ Records(mapping[v]) = {} => \A q \in Words : words'[q] = words[q]
<1> DEFINE p == mapping[v]
<1>1. CASE Records(p) = {}
  BY <1>1 DEF Writes
<1>2. CASE Records(p) # {}
  <2>1. PICK b \in mBreakpoints :
          Records(p) = {b} /\ p \in Words /\ (CHOOSE c \in Records(p) : TRUE) = b
    BY <1>2, TheRecord
  <2>2. \A q \in Words : words'[q] = IF q = p THEN b[field] ELSE words[q]
    BY <2>1 DEF Writes
  <2>3. QED
    BY <1>2, <2>1, <2>2
<1>3. QED
  BY <1>1, <1>2

LEMMA ClearKeeps ==
  ASSUME MemoryInv, setting = {}, savedPrivilege = TRUE, NEW v \in VAddrs,
         ClearBreakpoint(v), UNCHANGED <<programWords, consoleVars>>
  PROVE  MemoryInv' /\ disabled' \ missed' \subseteq disabled \ missed
<1> DEFINE p == mapping[v]
<1>1. Writes(v, "fOriginalValue") /\ mBreakpoints' = mBreakpoints \ Records(p)
  BY DEF ClearBreakpoint
<1>2. /\ \A q \in Words : q # p => words'[q] = words[q]
      /\ \A b \in Records(p) : words'[p] = b.fOriginalValue
      /\ Records(p) = {} => \A q \in Words : words'[q] = words[q]
  BY <1>1, WritesField
<1>3. \A q : Records(q)' = IF q = p THEN {} ELSE Records(q)
  BY <1>1 DEF Records
<1>4. disabled' = disabled \ {p} /\ missed' = missed \ {p}
  BY DEF ClearBreakpoint
<1>5. MemoryOK'
  BY CallTypes DEF MemoryInv
<1>6. WordsInPlace'
  <2> SUFFICES ASSUME NEW q \in Words, q \notin overwritten
               PROVE  /\ Records(q)' = {} => words'[q] = meant[q]
                      /\ \A b \in Records(q)' :
                           /\ b.fOriginalValue = meant[q]
                           /\ words'[q] = IF q \in disabled' THEN meant[q] ELSE b.fBPValue
    BY DEF WordsInPlace, programWords
  <2>1. /\ Records(q) = {} => words[q] = meant[q]
        /\ \A b \in Records(q) :
             /\ b.fOriginalValue = meant[q]
             /\ words[q] = IF q \in disabled THEN meant[q] ELSE b.fBPValue
    BY DEF MemoryInv, WordsInPlace, BeingSet
  <2>2. CASE q = p
    BY <1>2, <1>3, <2>1, <2>2
  <2>3. CASE q # p
    BY <1>2, <1>3, <1>4, <2>1, <2>3
  <2>4. QED
    BY <2>2, <2>3
<1>7. OneRecord' /\ OnlyBreakpoints'
  BY <1>1, <1>3, <1>4 DEF MemoryInv, OneRecord, OnlyBreakpoints
<1>8. PrivilegeKept' /\ SettingKept'
  BY DEF MemoryInv, PrivilegeKept, PrivilegeFollows, SettingKept, ClearBreakpoint,
         programWords, consoleVars
<1>9. QED
  BY <1>4, <1>5, <1>6, <1>7, <1>8 DEF MemoryInv

LEMMA DisableKeeps ==
  ASSUME MemoryInv, setting = {}, savedPrivilege = TRUE, NEW v \in VAddrs,
         DisableBreakpoint(v), UNCHANGED <<programWords, consoleVars>>
  PROVE  MemoryInv' /\ disabled' \ missed' \subseteq (disabled \ missed) \union {mapping[v]}
<1> DEFINE p == mapping[v]
<1>1. Writes(v, "fOriginalValue") /\ mBreakpoints' = mBreakpoints /\ missed' = missed
  BY DEF DisableBreakpoint
<1>2. /\ \A q \in Words : q # p => words'[q] = words[q]
      /\ \A b \in Records(p) : words'[p] = b.fOriginalValue
      /\ Records(p) = {} => \A q \in Words : words'[q] = words[q]
  BY <1>1, WritesField
<1>3. \A q : Records(q)' = Records(q)
  BY <1>1 DEF Records
<1>4. /\ Records(p) = {} => disabled' = disabled
      /\ Records(p) # {} => disabled' = disabled \union {p} /\ p \in Words
  BY TheRecord DEF DisableBreakpoint
<1>5. MemoryOK'
  BY CallTypes DEF MemoryInv
<1>6. WordsInPlace'
  <2> SUFFICES ASSUME NEW q \in Words, q \notin overwritten
               PROVE  /\ Records(q) = {} => words'[q] = meant[q]
                      /\ \A b \in Records(q) :
                           /\ b.fOriginalValue = meant[q]
                           /\ words'[q] = IF q \in disabled' THEN meant[q] ELSE b.fBPValue
    BY <1>3 DEF WordsInPlace, programWords
  <2>1. /\ Records(q) = {} => words[q] = meant[q]
        /\ \A b \in Records(q) :
             /\ b.fOriginalValue = meant[q]
             /\ words[q] = IF q \in disabled THEN meant[q] ELSE b.fBPValue
    BY DEF MemoryInv, WordsInPlace, BeingSet
  <2>2. CASE q = p
    BY <1>2, <1>4, <2>1, <2>2
  <2>3. CASE q # p
    BY <1>2, <1>4, <2>1, <2>3
  <2>4. QED
    BY <2>2, <2>3
<1>7. OneRecord' /\ OnlyBreakpoints'
  BY <1>1, <1>3, <1>4 DEF MemoryInv, OneRecord, OnlyBreakpoints
<1>8. PrivilegeKept' /\ SettingKept'
  BY DEF MemoryInv, PrivilegeKept, PrivilegeFollows, SettingKept, DisableBreakpoint,
         programWords, consoleVars
<1>9. QED
  BY <1>1, <1>4, <1>5, <1>6, <1>7, <1>8 DEF MemoryInv

LEMMA EnableKeeps ==
  ASSUME MemoryInv, setting = {}, savedPrivilege = TRUE, NEW v \in VAddrs,
         EnableBreakpoint(v), UNCHANGED <<programWords, consoleVars>>
  PROVE  MemoryInv' /\ disabled' \ missed' = (disabled \ missed) \ {mapping[v]}
<1> DEFINE p == mapping[v]
<1>1. Writes(v, "fBPValue") /\ mBreakpoints' = mBreakpoints
  BY DEF EnableBreakpoint
<1>2. /\ \A q \in Words : q # p => words'[q] = words[q]
      /\ \A b \in Records(p) : words'[p] = b.fBPValue
      /\ Records(p) = {} => \A q \in Words : words'[q] = words[q]
  BY <1>1, WritesField
<1>3. \A q : Records(q)' = Records(q)
  BY <1>1 DEF Records
<1>4. disabled' = disabled \ {p} /\ missed' = missed \ {p}
  BY DEF EnableBreakpoint
<1>5. MemoryOK'
  BY CallTypes DEF MemoryInv
<1>6. WordsInPlace'
  <2> SUFFICES ASSUME NEW q \in Words, q \notin overwritten
               PROVE  /\ Records(q) = {} => words'[q] = meant[q]
                      /\ \A b \in Records(q) :
                           /\ b.fOriginalValue = meant[q]
                           /\ words'[q] = IF q \in disabled' THEN meant[q] ELSE b.fBPValue
    BY <1>3 DEF WordsInPlace, programWords
  <2>1. /\ Records(q) = {} => words[q] = meant[q]
        /\ \A b \in Records(q) :
             /\ b.fOriginalValue = meant[q]
             /\ words[q] = IF q \in disabled THEN meant[q] ELSE b.fBPValue
    BY DEF MemoryInv, WordsInPlace, BeingSet
  <2>2. CASE q = p
    BY <1>2, <1>4, <2>1, <2>2
  <2>3. CASE q # p
    BY <1>2, <1>4, <2>1, <2>3
  <2>4. QED
    BY <2>2, <2>3
<1>7. OneRecord' /\ OnlyBreakpoints'
  BY <1>1, <1>3, <1>4 DEF MemoryInv, OneRecord, OnlyBreakpoints
<1>8. PrivilegeKept' /\ SettingKept'
  BY DEF MemoryInv, MemoryOK, PrivilegeKept, PrivilegeFollows, SettingKept, EnableBreakpoint,
         programWords, consoleVars
<1>9. QED
  BY <1>4, <1>5, <1>6, <1>7, <1>8 DEF MemoryInv

-----------------------------------------------------------------------------
\* The program.

LEMMA InstructionTypes ==
  ASSUME ThreadsOK, MemoryOK, Instruction, UNCHANGED consoleVars
  PROVE  MemoryOK' /\ pc' \in VAddrs /\ mapping' \in Mappings
<1>1. pc' \in VAddrs
  BY DEF Instruction
<1>2. CASE Jumps
  BY <1>1, <1>2 DEF Jumps, memoryVars, consoleVars, ThreadsOK, MemoryOK
<1>3. CASE Stores
  <2>1. PICK p \in RAMWords, c \in Codes :
          /\ words' = [words EXCEPT ![p] = c] /\ meant' = [meant EXCEPT ![p] = c]
          /\ overwritten' = overwritten \union {p} \/ overwritten' = overwritten \ {p}
    BY <1>3 DEF Stores
  <2>2. UNCHANGED <<mapping, userMode, mBreakpoints, mPrivilege, disabled, missed, raised>>
    BY <1>3 DEF Stores
  <2>3. p \in Words
    BY DEF Words
  <2>4. QED
    BY <1>1, <2>1, <2>2, <2>3 DEF MemoryOK, ThreadsOK, consoleVars
<1>4. CASE Remaps
  BY <1>1, <1>4 DEF Remaps, MemoryOK, ThreadsOK, consoleVars
<1>5. CASE ChangesMode
  BY <1>1, <1>5 DEF ChangesMode, MemoryOK, ThreadsOK, consoleVars
<1>6. QED
  BY <1>2, <1>3, <1>4, <1>5 DEF Instruction

LEMMA InstructionKeeps ==
  ASSUME ThreadsOK, MemoryInv, Instruction, UNCHANGED <<consoleVars, consolePC>>
  PROVE  /\ MemoryInv'
         /\ \/ disabled' \ missed' = {}
            \/ /\ UNCHANGED <<disabled, missed>>
               /\ mapping' = mapping \/ mapping'[realPC] = mapping[realPC]
<1>1. MemoryOK'
  BY InstructionTypes DEF MemoryInv
<1>2. CASE Jumps
  BY <1>1, <1>2 DEF Jumps, memoryVars, consoleVars, MemoryInv, WordsInPlace, BeingSet,
                    OneRecord, OnlyBreakpoints, PrivilegeKept, PrivilegeFollows,
                    SettingKept, Records
<1>3. CASE Stores
  <2>1. PICK p \in RAMWords, c \in Codes :
          /\ words' = [words EXCEPT ![p] = c] /\ meant' = [meant EXCEPT ![p] = c]
          /\ overwritten' = IF Records(p) # {} \/ p \in BeingSet
                            THEN overwritten \union {p} ELSE overwritten \ {p}
    BY <1>3 DEF Stores
  <2>2. UNCHANGED <<mapping, userMode, mBreakpoints, mPrivilege, disabled, missed, raised>>
    BY <1>3 DEF Stores
  <2>3. p \in Words
    BY DEF Words
  <2>4. (\A q : Records(q)' = Records(q)) /\ BeingSet' = BeingSet
    BY <2>2 DEF Records, BeingSet, consoleVars
  <2>5. \A q \in Words :
          q # p => /\ words'[q] = words[q] /\ meant'[q] = meant[q]
                   /\ q \in overwritten' <=> q \in overwritten
    BY <2>1 DEF MemoryInv, MemoryOK
  <2>6. WordsInPlace'
    <3> SUFFICES ASSUME NEW q \in Words, q \notin overwritten', q \notin BeingSet
                 PROVE  /\ Records(q) = {} => words'[q] = meant'[q]
                        /\ \A b \in Records(q) :
                             /\ b.fOriginalValue = meant'[q]
                             /\ words'[q] = IF q \in disabled THEN meant'[q] ELSE b.fBPValue
      BY <2>2, <2>4 DEF WordsInPlace
    <3>1. CASE q = p
      BY <2>1, <3>1 DEF MemoryInv, MemoryOK
    <3>2. CASE q # p
      BY <2>5, <3>2 DEF MemoryInv, WordsInPlace
    <3>3. QED
      BY <3>1, <3>2
  <2>7. SettingKept'
    <3> SUFFICES ASSUME NEW b \in setting, b.fAddress \notin overwritten'
                 PROVE  /\ b.fOriginalValue = meant'[b.fAddress]
                        /\ consolePC = "setWrite" =>
                             words'[b.fAddress] = meant'[b.fAddress]
                        /\ consolePC = "setRecord" => words'[b.fAddress] = b.fBPValue
      BY <2>2, <2>4 DEF MemoryInv, SettingKept, consoleVars
    <3>1. b.fAddress \in BeingSet /\ b.fAddress \in Words
      BY DEF BeingSet, MemoryInv, MemoryOK, SBreakpoint
    <3>2. b.fAddress # p
      BY <2>1, <3>1
    <3>3. QED
      BY <2>5, <3>1, <3>2 DEF MemoryInv, SettingKept
  <2>8. OneRecord' /\ OnlyBreakpoints' /\ PrivilegeKept'
    BY <2>2, <2>4 DEF MemoryInv, OneRecord, OnlyBreakpoints, PrivilegeKept,
                      PrivilegeFollows, consoleVars
  <2>9. QED
    BY <1>1, <2>2, <2>6, <2>7, <2>8 DEF MemoryInv
<1>4. CASE Remaps
  <2>1. UNCHANGED <<userMode, meant, overwritten, mBreakpoints, words, mPrivilege, disabled,
                    raised>>
    BY <1>4 DEF Remaps
  <2>2. \/ missed' = missed /\ mapping'[realPC] = mapping[realPC]
        \/ missed' = missed \union disabled
    BY <1>4 DEF Remaps
  <2>3. MemoryInv'
    BY <1>1, <2>1 DEF MemoryInv, WordsInPlace, BeingSet, OneRecord, OnlyBreakpoints,
                      PrivilegeKept, PrivilegeFollows, SettingKept, Records, consoleVars
  <2>4. QED
    BY <2>1, <2>2, <2>3
<1>5. CASE ChangesMode
  <2>1. /\ UNCHANGED <<mapping, meant, overwritten, mBreakpoints, words, disabled, missed>>
        /\ mPrivilege' = ~userMode' /\ raised' = (~savedPrivilege /\ ~userMode')
        /\ savedPrivilege' = savedPrivilege /\ setting' = setting
    BY <1>5 DEF ChangesMode, consoleVars
  <2>2. PrivilegeKept'
    BY <2>1 DEF PrivilegeKept, PrivilegeFollows
  <2>3. WordsInPlace' /\ OneRecord' /\ OnlyBreakpoints' /\ SettingKept'
    BY <2>1 DEF MemoryInv, WordsInPlace, BeingSet, OneRecord, OnlyBreakpoints, SettingKept,
                Records
  <2>4. QED
    BY <1>1, <2>1, <2>2, <2>3 DEF MemoryInv
<1>6. QED
  BY <1>2, <1>3, <1>4, <1>5 DEF Instruction

-----------------------------------------------------------------------------
\* The monitor thread.

\* What none of its steps changes, and where they go.
LEMMA MonitorMoves ==
  ASSUME MonitorNext
  PROVE  /\ UNCHANGED <<consolePC, consoleVars, early, mCommand>>
         /\ monitorPC' \in MonitorPCs
<1>1. UNCHANGED <<consolePC, mCommand>>
  BY DEF MonitorNext, Starts, Wakes, LoadEmulatorState, RunEmulator, ReadsInstruction,
         Calls, Disables, Enables, Steps, Run, Runs, RunEnds, AfterRun, ClearsTemporary,
         Halts, commandVars
<1>2. monitorPC' \in MonitorPCs
  BY DEF MonitorNext, Starts, Wakes, LoadEmulatorState, RunEmulator, ReadsInstruction,
         Calls, Disables, Enables, Steps, Run, Runs, RunEnds, AfterRun, ClearsTemporary,
         Halts, Goes, MonitorPCs, Running, MonitorCalls
<1>3. QED
  BY <1>1, <1>2 DEF MonitorNext

\* The kinds of its steps, by what they do to the memory.
LEMMA MonitorKinds ==
  ASSUME ThreadsOK, MemoryOK, StepsAtPC, MonitorNext
  PROVE  \/ UNCHANGED <<memoryVars, programVars>>
         \/ \E saved \in Snapshots : LoadEmulatorState(saved)
         \/ Disables \/ Enables \/ ClearsTemporary
         \/ Instruction /\ (Steps \/ Runs)
         \/ Hits /\ Steps
<1>1. ASSUME \/ Starts \/ Wakes \/ RunEmulator \/ ReadsInstruction \/ Calls
             \/ Run \/ RunEnds \/ AfterRun
      PROVE  UNCHANGED <<memoryVars, programVars>>
  BY <1>1 DEF Starts, Wakes, RunEmulator, ReadsInstruction, Calls, Run, RunEnds, AfterRun
<1>2. CASE Runs
  BY <1>2 DEF Runs, Hits, programVars
<1>3. CASE Steps
  BY <1>3 DEF Steps
<1>4. QED
  BY <1>1, <1>2, <1>3 DEF MonitorNext

LEMMA MonitorTypes ==
  ASSUME Types, MonitorNext
  PROVE  Types'
<1>0. ThreadsOK /\ MemoryOK /\ ConsoleInv /\ StepsAtPC
  BY DEF Types
<1>1. UNCHANGED <<consolePC, consoleVars, early, mCommand>> /\ monitorPC' \in MonitorPCs
  BY MonitorMoves
<1>2. MemoryOK' /\ pc' \in VAddrs /\ mapping' \in Mappings
  <2>1. CASE UNCHANGED <<memoryVars, programVars>>
    BY <1>0, <1>1, <2>1 DEF ThreadsOK, MemoryOK, memoryVars, programVars, consoleVars
  <2>2. ASSUME NEW saved \in Snapshots, LoadEmulatorState(saved)
        PROVE  MemoryOK' /\ pc' \in VAddrs /\ mapping' \in Mappings
    <3>1. saved \in Saved
      BY MonitorAssumption
    <3>2. QED
      BY <1>0, <1>1, <2>2, <3>1 DEF LoadEmulatorState, Saved, MemoryOK, consoleVars
  <2>3. CASE Disables \/ Enables \/ ClearsTemporary
    <3>1. /\ UNCHANGED programVars
          /\ \E v : ClearBreakpoint(v) \/ DisableBreakpoint(v) \/ EnableBreakpoint(v)
      BY <2>3 DEF Disables, Enables, ClearsTemporary
    <3>2. MemoryOK'
      BY <1>0, <1>1, <3>1, CallTypes DEF programVars, programWords
    <3>3. QED
      BY <1>0, <3>1, <3>2 DEF ThreadsOK, programVars
  <2>4. CASE Instruction
    BY <1>0, <1>1, <2>4, InstructionTypes
  <2>5. CASE Hits /\ Steps
    <3>1. UNCHANGED <<memoryVars, mapping, userMode, meant, overwritten>> /\ pc' \in VAddrs
      BY <2>5 DEF Hits, Steps, Instruction
    <3>2. QED
      BY <1>0, <1>1, <3>1 DEF ThreadsOK, MemoryOK, memoryVars, consoleVars
  <2>6. QED
    BY <1>0, <2>1, <2>2, <2>3, <2>4, <2>5, MonitorKinds
<1>3. mHalted' \in BOOLEAN
  BY <1>0 DEF MonitorNext, Starts, Wakes, LoadEmulatorState, RunEmulator, ReadsInstruction,
              Calls, Disables, Enables, Steps, Run, Runs, RunEnds, AfterRun,
              ClearsTemporary, Halts, commandVars, ThreadsOK
<1>4. mRunning' \in BOOLEAN /\ mBPHalted' \in IDs \union {NULL}
  <2>1. ASSUME NEW saved \in Snapshots, LoadEmulatorState(saved)
        PROVE  mRunning' \in BOOLEAN /\ mBPHalted' \in IDs \union {NULL}
    <3>1. saved \in Saved
      BY MonitorAssumption
    <3>2. QED
      BY <2>1, <3>1 DEF LoadEmulatorState, Saved
  <2>2. CASE Steps \/ Run \/ Runs
    BY <1>0, <2>2 DEF Steps, Run, Runs, Hits, IsBP, haltVars, ThreadsOK
  <2>3. ASSUME \/ Starts \/ Wakes \/ RunEmulator \/ ReadsInstruction \/ Calls \/ Disables
               \/ Enables \/ RunEnds \/ AfterRun \/ ClearsTemporary
        PROVE  UNCHANGED haltVars
    BY <2>3 DEF Starts, Wakes, RunEmulator, ReadsInstruction, Calls, Disables, Enables,
                RunEnds, AfterRun, ClearsTemporary
  <2>4. QED
    BY <1>0, <2>1, <2>2, <2>3 DEF MonitorNext, ThreadsOK, haltVars
<1>5. StepsAtPC' /\ realPC' \in VAddrs \union {NULL}
  <2>1. CASE ReadsInstruction
    BY <1>0, <2>1 DEF ReadsInstruction, Goes, StepsAtPC, SteppingOver, ThreadsOK
  <2>2. CASE AfterRun
    BY <1>0, <2>2 DEF AfterRun, Halts, Goes, StepsAtPC, SteppingOver, ThreadsOK
  <2>3. CASE Enables
    BY <1>0, <2>3 DEF Enables, Goes, StepsAtPC, SteppingOver
  <2>4. CASE Calls \/ Disables \/ Steps
    BY <1>0, <2>4 DEF Calls, Disables, Steps, Goes, StepsAtPC, SteppingOver, ThreadsOK
  <2>5. ASSUME \/ Starts \/ Wakes \/ RunEmulator \/ Run \/ Runs \/ RunEnds
               \/ ClearsTemporary \/ \E saved \in Snapshots : LoadEmulatorState(saved)
        PROVE  realPC' = realPC /\ StepsAtPC'
    BY <2>5 DEF Starts, Wakes, RunEmulator, Run, Runs, RunEnds, ClearsTemporary,
                LoadEmulatorState, Halts, Goes, StepsAtPC, SteppingOver
  <2>6. QED
    BY <1>0, <2>1, <2>2, <2>3, <2>4, <2>5 DEF MonitorNext, ThreadsOK
<1>6. ConsoleInv'
  BY <1>0, <1>1 DEF ConsoleInv, consoleVars
<1>7. ThreadsOK'
  BY <1>0, <1>1, <1>2, <1>3, <1>4, <1>5 DEF ThreadsOK
<1>8. QED
  BY <1>2, <1>5, <1>6, <1>7 DEF Types

\* A step that leaves the memory and the program alone.
LEMMA MemoryUnchanged ==
  ASSUME MemoryInv,
         UNCHANGED <<memoryVars, consoleVars, consolePC, meant, overwritten, userMode>>
  PROVE  MemoryInv'
<1>1. UNCHANGED <<mBreakpoints, words, mPrivilege, disabled, missed, raised>>
      /\ UNCHANGED <<setting, savedPrivilege, consolePC, meant, overwritten, userMode>>
  BY DEF memoryVars, consoleVars
<1>2. MemoryOK' /\ WordsInPlace' /\ OneRecord' /\ OnlyBreakpoints'
  BY <1>1 DEF MemoryInv, MemoryOK, WordsInPlace, BeingSet, OneRecord, OnlyBreakpoints,
              Records
<1>3. PrivilegeKept' /\ SettingKept'
  BY <1>1 DEF MemoryInv, PrivilegeKept, PrivilegeFollows, SettingKept, Records
<1>4. QED
  BY <1>2, <1>3 DEF MemoryInv

\* Without an overlap, the console is in no call while the monitor is.
LEMMA Alone ==
  ASSUME Types, Sound, monitorPC \in MonitorCalls
  PROVE  setting = {} /\ savedPrivilege = TRUE
BY DEF Types, MemoryOK, ConsoleInv, Sound, Overlap, ConsoleCalls

LEMMA MonitorSound ==
  ASSUME Types, Sound, MonitorNext, ~Overlap'
  PROVE  Sound'
<1>0. ThreadsOK /\ MemoryInv /\ OneDisabled /\ StepsAtPC /\ MemoryOK
  BY DEF Types, Sound
<1>1. UNCHANGED <<consolePC, consoleVars>>
  BY MonitorMoves
<1>2. SUFFICES MemoryInv' /\ OneDisabled'
  BY DEF Sound
<1>3. ASSUME \/ Starts \/ Wakes \/ RunEmulator \/ ReadsInstruction \/ Calls
             \/ Run \/ RunEnds \/ AfterRun
      PROVE  MemoryInv' /\ OneDisabled'
  <2>1. UNCHANGED <<memoryVars, programVars>>
    BY <1>3 DEF Starts, Wakes, RunEmulator, ReadsInstruction, Calls, Run, RunEnds, AfterRun
  <2>2. MemoryInv'
    BY <1>0, <1>1, <2>1, MemoryUnchanged DEF programVars
  <2>3. \/ ~SteppingOver /\ ~SteppingOver'
        \/ SteppingOver /\ SteppingOver' /\ realPC' = realPC
    BY <1>3 DEF Starts, Wakes, RunEmulator, ReadsInstruction, Calls, Run, RunEnds, AfterRun,
                Halts, Goes, SteppingOver
  <2>4. UNCHANGED <<disabled, missed, mapping>>
    BY <2>1 DEF memoryVars, programVars
  <2>5. OneDisabled'
    BY <1>0, <2>3, <2>4 DEF OneDisabled
  <2>6. QED
    BY <2>2, <2>5
<1>4. ASSUME NEW saved \in Snapshots, LoadEmulatorState(saved)
      PROVE  MemoryInv' /\ OneDisabled'
  <2>1. saved \in Saved /\ InPlace(saved)
    BY MonitorAssumption
  <2>2. /\ words' = saved.words /\ mBreakpoints' = saved.mBreakpoints
        /\ userMode' = saved.userMode /\ mPrivilege' = ~saved.userMode
        /\ meant' = saved.meant
        /\ overwritten' = {} /\ disabled' = {} /\ missed' = {} /\ raised' = FALSE
        /\ monitorPC = "loading" /\ monitorPC' = "rest"
    BY <1>4 DEF LoadEmulatorState, Goes
  <2>3. setting = {} /\ savedPrivilege = TRUE
    BY <2>2, Alone DEF MonitorCalls
  <2>4. setting' = {} /\ savedPrivilege' = TRUE
    BY <1>1, <2>3 DEF consoleVars
  <2>5. MemoryOK'
    BY MonitorTypes DEF Types
  <2>6. \A p : Records(p)' = {b \in saved.mBreakpoints : b.fAddress = p}
    BY <2>2 DEF Records
  <2>7. WordsInPlace'
    BY <2>1, <2>2, <2>6 DEF InPlace, WordsInPlace
  <2>8. OneRecord' /\ OnlyBreakpoints'
    BY <2>1, <2>2 DEF InPlace, OneRecord, OnlyBreakpoints
  <2>9. PrivilegeKept'
    BY <2>2, <2>4 DEF PrivilegeKept, PrivilegeFollows
  <2>10. SettingKept'
    BY <2>4 DEF SettingKept
  <2>11. OneDisabled'
    BY <2>2 DEF OneDisabled, SteppingOver
  <2>12. QED
    BY <2>5, <2>7, <2>8, <2>9, <2>10, <2>11 DEF MemoryInv
<1>5. CASE Disables
  <2>1. /\ UNCHANGED <<realPC, programVars>> /\ DisableBreakpoint(realPC)
        /\ monitorPC \in {"disabling", "stepDisabling"} /\ monitorPC' \in {"step", "stepBP"}
    BY <1>5 DEF Disables, Goes
  <2>2. setting = {} /\ savedPrivilege = TRUE
    BY <2>1, Alone DEF MonitorCalls
  <2>3. realPC \in VAddrs /\ disabled \subseteq missed
    BY <1>0, <2>1 DEF StepsAtPC, OneDisabled, SteppingOver
  <2>4. MemoryInv' /\ disabled' \ missed' \subseteq (disabled \ missed) \union {mapping[realPC]}
    BY <1>0, <1>1, <2>1, <2>2, <2>3, DisableKeeps DEF programVars, programWords
  <2>5. OneDisabled'
    BY <2>1, <2>3, <2>4 DEF OneDisabled, SteppingOver, programVars
  <2>6. QED
    BY <2>4, <2>5
<1>6. CASE Enables
  <2>1. /\ UNCHANGED programVars /\ EnableBreakpoint(realPC)
        /\ monitorPC \in {"enabling", "stepEnabling"} /\ monitorPC' \in {"run", "rest"}
    BY <1>6 DEF Enables, Goes
  <2>2. setting = {} /\ savedPrivilege = TRUE
    BY <2>1, Alone DEF MonitorCalls
  <2>3. realPC \in VAddrs /\ disabled \ missed \subseteq {mapping[realPC]}
    BY <1>0, <2>1 DEF StepsAtPC, OneDisabled, SteppingOver
  <2>4. MemoryInv' /\ disabled' \ missed' = (disabled \ missed) \ {mapping[realPC]}
    BY <1>0, <1>1, <2>1, <2>2, <2>3, EnableKeeps DEF programVars, programWords
  <2>5. OneDisabled'
    BY <2>1, <2>3, <2>4 DEF OneDisabled, SteppingOver, programVars
  <2>6. QED
    BY <2>4, <2>5
<1>7. CASE ClearsTemporary
  <2>1. /\ UNCHANGED programVars /\ ClearBreakpoint(pc)
        /\ monitorPC = "clearing" /\ monitorPC' = "rest"
    BY <1>7 DEF ClearsTemporary, Halts, Goes
  <2>2. setting = {} /\ savedPrivilege = TRUE
    BY <2>1, Alone DEF MonitorCalls
  <2>3. MemoryInv' /\ disabled' \ missed' \subseteq disabled \ missed
    BY <1>0, <1>1, <2>1, <2>2, ClearKeeps DEF programVars, programWords, ThreadsOK
  <2>4. OneDisabled'
    BY <1>0, <2>1, <2>3 DEF OneDisabled, SteppingOver
  <2>5. QED
    BY <2>3, <2>4
<1>8. CASE Steps \/ Runs
  <2>1. /\ MemoryInv'
        /\ \/ disabled' \ missed' = {}
           \/ /\ UNCHANGED <<disabled, missed>>
              /\ mapping' = mapping \/ mapping'[realPC] = mapping[realPC]
    <3>1. CASE Instruction
      BY <1>0, <1>1, <3>1, InstructionKeeps
    <3>2. CASE Hits
      <4>1. UNCHANGED <<memoryVars, mapping, userMode, meant, overwritten>>
        BY <3>2 DEF Hits
      <4>2. MemoryInv'
        BY <1>0, <1>1, <4>1, MemoryUnchanged
      <4>3. QED
        BY <4>1, <4>2 DEF memoryVars
    <3>3. QED
      BY <1>8, <3>1, <3>2 DEF Steps, Runs
  <2>2. /\ realPC' = realPC
        /\ \/ SteppingOver /\ SteppingOver'
           \/ ~SteppingOver /\ ~SteppingOver'
    BY <1>8 DEF Steps, Runs, Goes, SteppingOver
  <2>3. OneDisabled'
    BY <1>0, <2>1, <2>2 DEF OneDisabled
  <2>4. QED
    BY <2>1, <2>3
<1>9. QED
  BY <1>3, <1>4, <1>5, <1>6, <1>7, <1>8 DEF MonitorNext

-----------------------------------------------------------------------------
\* The console thread.

\* The steps of its calls, and the others, which leave the memory alone.
CallStep ==
  \/ SetWrites \/ SetRecords \/ ClearWrites \/ RestoresPrivilege
  \/ \E v \in VAddrs : ClearBegins(v) \/ \E id \in IDs : SetBegins(v, id)

OtherStep ==
  \/ Stop \/ StopSpins
  \/ /\ UNCHANGED early
     /\ \/ \E command \in {"kRun", "kStep", "kLoadState"} : Command(command)
        \/ Trace \/ StopEmulator \/ StopAcquiresMutex \/ StopSignals \/ TraceOver
        \/ \E v \in VAddrs : SetPC(v)

LEMMA ConsoleKinds ==
  ASSUME ConsoleNext
  PROVE  OtherStep \/ (CallStep /\ UNCHANGED early)
BY DEF ConsoleNext, OtherStep, CallStep

\* What the other steps leave, and where they go.
Leaves ==
  /\ UNCHANGED <<mHalted, realPC, mBPHalted, consoleVars, memoryVars, mapping, userMode,
                 meant, overwritten>>
  /\ mCommand' \in Commands /\ consolePC' \in ConsolePCs /\ mRunning' \in BOOLEAN
  /\ pc' \in VAddrs /\ early' \in BOOLEAN
  /\ monitorPC' = monitorPC \/ (monitorPC = "waiting" /\ monitorPC' = "woken")
  /\ consolePC \notin ConsoleCalls /\ consolePC' \notin ConsoleCalls

LEMMA OtherLeaves ==
  ASSUME ThreadsOK, OtherStep
  PROVE  Leaves
<1>1. CASE Stop
  BY <1>1 DEF Leaves, Stop, haltVars, programVars, ThreadsOK, Commands, ConsolePCs,
              ConsoleCalls
<1>2. CASE StopSpins
  BY <1>2 DEF Leaves, StopSpins, commandVars, programVars, ThreadsOK, ConsolePCs, ConsoleCalls
<1>3. ASSUME UNCHANGED early, NEW command \in {"kRun", "kStep", "kLoadState"},
             Command(command)
      PROVE  Leaves
  BY <1>3 DEF Leaves, Command, SignalCondVar, haltVars, programVars, ThreadsOK, Commands,
              ConsoleCalls
<1>4. ASSUME UNCHANGED early, Trace \/ TraceOver
      PROVE  Leaves
  BY <1>4 DEF Leaves, Trace, TraceOver, SignalCondVar, haltVars, programVars, ThreadsOK,
              Commands, ConsolePCs, ConsoleCalls
<1>5. ASSUME UNCHANGED early, StopEmulator
      PROVE  Leaves
  BY <1>5 DEF Leaves, StopEmulator, commandVars, programVars, ThreadsOK, ConsoleCalls
<1>6. ASSUME UNCHANGED early, StopAcquiresMutex \/ StopSignals
      PROVE  Leaves
  BY <1>6 DEF Leaves, StopAcquiresMutex, StopSignals, SignalCondVar, commandVars, haltVars,
              programVars, ThreadsOK, ConsolePCs, ConsoleCalls
<1>7. ASSUME UNCHANGED early, NEW v \in VAddrs, SetPC(v)
      PROVE  Leaves
  BY <1>7 DEF Leaves, SetPC, commandVars, haltVars, ThreadsOK, ConsoleCalls
<1>8. QED
  BY <1>1, <1>2, <1>3, <1>4, <1>5, <1>6, <1>7 DEF OtherStep

LEMMA CallLeaves ==
  ASSUME CallStep
  PROVE  /\ UNCHANGED <<commandVars, monitorPC, realPC, haltVars, programVars>>
         /\ consolePC' \in ConsolePCs
<1>1. CASE SetWrites \/ SetRecords \/ ClearWrites \/ RestoresPrivilege
  BY <1>1 DEF SetWrites, SetRecords, ClearWrites, RestoresPrivilege, Restoring, ConsolePCs, ConsoleCalls
<1>2. CASE \E v \in VAddrs : ClearBegins(v)
  BY <1>2 DEF ClearBegins, ConsolePCs, ConsoleCalls
<1>3. CASE \E v \in VAddrs : \E id \in IDs : SetBegins(v, id)
  BY <1>3 DEF SetBegins, Restoring, ConsolePCs, ConsoleCalls
<1>4. QED
  BY <1>1, <1>2, <1>3 DEF CallStep

LEMMA ConsoleTypes ==
  ASSUME Types, ConsoleNext
  PROVE  Types'
<1>0. ThreadsOK /\ MemoryOK /\ ConsoleInv /\ StepsAtPC
  BY DEF Types
<1>1. CASE OtherStep
  <2>1. Leaves
    BY <1>0, <1>1, OtherLeaves
  <2>2. ThreadsOK'
    BY <1>0, <2>1 DEF Leaves, ThreadsOK, MonitorPCs
  <2>3. MemoryOK'
    BY <1>0, <2>1 DEF Leaves, MemoryOK, memoryVars, consoleVars
  <2>4. ConsoleInv'
    BY <1>0, <2>1 DEF Leaves, ConsoleInv, ConsoleCalls, consoleVars
  <2>5. StepsAtPC'
    BY <1>0, <2>1 DEF Leaves, StepsAtPC, SteppingOver
  <2>6. QED
    BY <2>2, <2>3, <2>4, <2>5 DEF Types
<1>2. CASE CallStep /\ UNCHANGED early
  <2>1. UNCHANGED <<commandVars, monitorPC, realPC, haltVars, programVars, early>>
        /\ consolePC' \in ConsolePCs
    BY <1>2, CallLeaves
  <2>2. ThreadsOK'
    BY <1>0, <2>1 DEF ThreadsOK, commandVars, haltVars, programVars
  <2>3. StepsAtPC'
    BY <1>0, <2>1 DEF StepsAtPC, SteppingOver
  <2>4. MemoryOK' /\ ConsoleInv'
    <3>1. CASE SetWrites
      <4>1. PICK b \in setting : words' = [words EXCEPT ![b.fAddress] = b.fBPValue]
        BY <3>1 DEF SetWrites
      <4>2. b.fBPValue \in IDs
        BY <1>0 DEF MemoryOK, SBreakpoint
      <4>3. QED
        BY <1>0, <3>1, <4>1, <4>2 DEF SetWrites, MemoryOK, ConsoleInv, ConsoleCalls,
                                      consoleVars, programVars
    <3>2. CASE SetRecords
      BY <1>0, <3>2 DEF SetRecords, Restoring, MemoryOK, ConsoleInv, ConsoleCalls, programVars
    <3>3. CASE ClearWrites
      <4>1. PICK b \in setting : words' = [words EXCEPT ![b.fAddress] = b.fOriginalValue]
        BY <3>3 DEF ClearWrites
      <4>2. b.fOriginalValue \in Codes \union IDs
        BY <1>0 DEF MemoryOK, SBreakpoint
      <4>3. QED
        BY <1>0, <3>3, <4>1, <4>2 DEF ClearWrites, MemoryOK, ConsoleInv, ConsoleCalls,
                                      programVars
    <3>4. CASE RestoresPrivilege
      BY <1>0, <3>4 DEF RestoresPrivilege, MemoryOK, ConsoleInv, ConsoleCalls, programVars
    <3>5. ASSUME NEW v \in VAddrs, ClearBegins(v) PROVE MemoryOK' /\ ConsoleInv'
      BY <1>0, <3>5 DEF ClearBegins, Raises, Records, MemoryOK, ConsoleInv, ConsoleCalls,
                        programVars
    <3>6. ASSUME NEW v \in VAddrs, NEW id \in IDs, SetBegins(v, id)
          PROVE  MemoryOK' /\ ConsoleInv'
      <4>1. setting' \subseteq SBreakpoint
        BY <1>0, <3>6 DEF SetBegins, Restoring, MemoryOK, SBreakpoint
      <4>2. MemoryOK'
        BY <1>0, <3>6, <4>1 DEF SetBegins, Restoring, Raises, MemoryOK, programVars
      <4>3. ConsoleInv'
        <5>1. consolePC' \in {"setWrite", "restore", "restoreRun"}
          BY <3>6 DEF SetBegins, Restoring
        <5>2. consolePC' = "setWrite" \/ setting' = {}
          BY <3>6 DEF SetBegins
        <5>3. QED
          BY <5>1, <5>2 DEF ConsoleInv, ConsoleCalls
      <4>4. QED
        BY <4>2, <4>3
    <3>7. QED
      BY <1>2, <3>1, <3>2, <3>3, <3>4, <3>5, <3>6 DEF CallStep
  <2>5. QED
    BY <2>2, <2>3, <2>4 DEF Types
<1>3. QED
  BY <1>1, <1>2, ConsoleKinds

LEMMA ConsoleSound ==
  ASSUME Types, Sound, ConsoleNext, ~Overlap'
  PROVE  Sound'
<1>0. ThreadsOK /\ MemoryOK /\ ConsoleInv /\ MemoryInv /\ OneDisabled
  BY DEF Types, Sound
<1>1. CASE OtherStep
  <2>1. Leaves
    BY <1>0, <1>1, OtherLeaves
  <2>2. UNCHANGED <<realPC, mapping, disabled, missed>>
    BY <2>1 DEF Leaves, memoryVars
  <2>3. MemoryOK' /\ WordsInPlace' /\ OneRecord' /\ OnlyBreakpoints' /\ PrivilegeKept'
    BY <1>0, <2>1 DEF Leaves, memoryVars, consoleVars, MemoryInv, MemoryOK, WordsInPlace,
                      BeingSet, OneRecord, OnlyBreakpoints, PrivilegeKept,
                      PrivilegeFollows, Records
  <2>4. SettingKept'
    <3>1. setting = {} /\ setting' = {}
      BY <1>0, <2>1 DEF Leaves, ConsoleInv, ConsoleCalls, consoleVars
    <3>2. QED
      BY <3>1 DEF SettingKept
  <2>5. OneDisabled'
    BY <1>0, <2>1, <2>2 DEF Leaves, OneDisabled, SteppingOver
  <2>6. QED
    BY <2>3, <2>4, <2>5 DEF Sound, MemoryInv
<1>2. CASE CallStep /\ UNCHANGED early
  <2>1. UNCHANGED <<monitorPC, realPC, mapping, userMode, meant, overwritten>>
    BY <1>2, CallLeaves DEF programVars
  <2>2. MemoryOK'
    BY ConsoleTypes DEF Types
  <2>3. SUFFICES /\ WordsInPlace' /\ OneRecord' /\ OnlyBreakpoints' /\ PrivilegeKept'
                 /\ SettingKept' /\ disabled' \ missed' \subseteq disabled \ missed
    <3>1. ASSUME disabled' \ missed' \subseteq disabled \ missed PROVE OneDisabled'
      BY <1>0, <2>1, <3>1 DEF OneDisabled, SteppingOver
    <3>2. QED
      BY <2>2, <3>1 DEF Sound, MemoryInv
  <2>4. CASE SetWrites
    <3>1. PICK b \in setting : words' = [words EXCEPT ![b.fAddress] = b.fBPValue]
      BY <2>4 DEF SetWrites
    <3>2. /\ UNCHANGED <<setting, savedPrivilege, mBreakpoints, mPrivilege, disabled, missed,
                         raised>>
          /\ consolePC' = "setRecord"
      BY <2>4 DEF SetWrites, consoleVars
    <3>3. (\A q : Records(q)' = Records(q)) /\ BeingSet' = BeingSet
      BY <3>2 DEF Records, BeingSet
    <3>4. b.fAddress \in BeingSet /\ b.fAddress \in Words
      BY <1>0 DEF BeingSet, MemoryOK, SBreakpoint
    <3>5. WordsInPlace'
      BY <1>0, <2>1, <3>1, <3>2, <3>3, <3>4 DEF MemoryInv, MemoryOK, WordsInPlace
    <3>6. SettingKept'
      BY <1>0, <2>1, <3>1, <3>2, <3>3, <3>4 DEF MemoryInv, MemoryOK, SettingKept
    <3>7. OneRecord' /\ OnlyBreakpoints' /\ PrivilegeKept'
      BY <1>0, <2>1, <3>2, <3>3 DEF MemoryInv, OneRecord, OnlyBreakpoints, PrivilegeKept,
                                    PrivilegeFollows
    <3>8. QED
      BY <3>2, <3>5, <3>6, <3>7
  <2>5. CASE SetRecords
    <3>1. PICK b \in setting : TRUE
      BY <2>5 DEF SetRecords
    <3>2. /\ mBreakpoints' = mBreakpoints \union setting /\ setting' = {}
          /\ UNCHANGED <<savedPrivilege, words, mPrivilege, disabled, missed, raised>>
          /\ consolePC = "setRecord"
      BY <2>5 DEF SetRecords
    <3>3. setting = {b} /\ Records(b.fAddress) = {}
      BY <1>0 DEF MemoryInv, SettingKept
    <3>4. \A q : Records(q)' = IF q = b.fAddress THEN {b} ELSE Records(q)
      BY <3>2, <3>3 DEF Records
    <3>5. BeingSet = {b.fAddress} /\ BeingSet' = {}
      BY <3>2, <3>3 DEF BeingSet
    <3>6. b.fAddress \notin disabled
      BY <1>0, <3>3 DEF MemoryInv, OnlyBreakpoints
    <3>7. WordsInPlace'
      <4> SUFFICES ASSUME NEW q \in Words, q \notin overwritten
                   PROVE  /\ Records(q)' = {} => words[q] = meant[q]
                          /\ \A c \in Records(q)' :
                               /\ c.fOriginalValue = meant[q]
                               /\ words[q] = IF q \in disabled THEN meant[q] ELSE c.fBPValue
        BY <2>1, <3>2 DEF WordsInPlace
      <4>1. CASE q = b.fAddress
        BY <1>0, <3>2, <3>4, <3>6, <4>1 DEF MemoryInv, SettingKept
      <4>2. CASE q # b.fAddress
        BY <1>0, <3>4, <3>5, <4>2 DEF MemoryInv, WordsInPlace
      <4>3. QED
        BY <4>1, <4>2
    <3>8. OneRecord'
      <4>1. \A c \in mBreakpoints : c.fAddress # b.fAddress
        BY <3>3 DEF Records
      <4>2. QED
        BY <1>0, <3>2, <3>3, <4>1 DEF MemoryInv, OneRecord
    <3>9. OnlyBreakpoints' /\ PrivilegeKept' /\ SettingKept'
      BY <1>0, <2>1, <3>2, <3>4 DEF MemoryInv, OnlyBreakpoints, PrivilegeKept,
                                    PrivilegeFollows, SettingKept
    <3>10. QED
      BY <3>2, <3>7, <3>8, <3>9
  <2>6. CASE ClearWrites
    <3>1. PICK b \in setting : words' = [words EXCEPT ![b.fAddress] = b.fOriginalValue]
      BY <2>6 DEF ClearWrites
    <3>2. /\ setting' = {}
          /\ UNCHANGED <<savedPrivilege, mBreakpoints, mPrivilege, disabled, missed, raised>>
      BY <2>6 DEF ClearWrites
    <3>3. setting = {b} /\ Records(b.fAddress) = {}
      BY <1>0 DEF MemoryInv, SettingKept
    <3>4. \A q : Records(q)' = Records(q)
      BY <3>2 DEF Records
    <3>5. BeingSet = {b.fAddress} /\ BeingSet' = {} /\ b.fAddress \in Words
      BY <1>0, <3>2, <3>3 DEF BeingSet, MemoryOK, SBreakpoint
    <3>6. WordsInPlace'
      <4> SUFFICES ASSUME NEW q \in Words, q \notin overwritten
                   PROVE  /\ Records(q) = {} => words'[q] = meant[q]
                          /\ \A c \in Records(q) :
                               /\ c.fOriginalValue = meant[q]
                               /\ words'[q] = IF q \in disabled THEN meant[q] ELSE c.fBPValue
        BY <2>1, <3>2, <3>4 DEF WordsInPlace
      <4>1. CASE q = b.fAddress
        BY <1>0, <3>1, <3>3, <4>1 DEF MemoryInv, MemoryOK, SettingKept
      <4>2. CASE q # b.fAddress
        <5>1. words'[q] = words[q]
          BY <1>0, <3>1, <3>5, <4>2 DEF MemoryOK
        <5>2. QED
          BY <1>0, <3>5, <4>2, <5>1 DEF MemoryInv, WordsInPlace
      <4>3. QED
        BY <4>1, <4>2
    <3>7. OneRecord' /\ OnlyBreakpoints' /\ PrivilegeKept' /\ SettingKept'
      BY <1>0, <2>1, <3>2, <3>4 DEF MemoryInv, OneRecord, OnlyBreakpoints, PrivilegeKept,
                                    PrivilegeFollows, SettingKept
    <3>8. QED
      BY <3>2, <3>6, <3>7
  <2>7. CASE RestoresPrivilege
    <3>1. /\ UNCHANGED <<setting, mBreakpoints, words, disabled, missed, raised>>
          /\ mPrivilege' = (mPrivilege /\ savedPrivilege) /\ savedPrivilege' = TRUE
          /\ consolePC \in {"restore", "restoreRun"}
      BY <2>7 DEF RestoresPrivilege
    <3>2. PrivilegeKept'
      <4>1. mPrivilege \in BOOLEAN /\ savedPrivilege \in BOOLEAN /\ userMode \in BOOLEAN
        BY <1>0 DEF MemoryOK
      <4>2. PrivilegeKept
        BY <1>0 DEF MemoryInv
      <4>3. QED
        BY <2>1, <3>1, <4>1, <4>2 DEF PrivilegeKept, PrivilegeFollows
    <3>3. WordsInPlace' /\ OneRecord' /\ OnlyBreakpoints'
      BY <1>0, <2>1, <3>1 DEF MemoryInv, WordsInPlace, BeingSet, OneRecord,
                              OnlyBreakpoints, Records
    <3>4. setting = {}
      BY <1>0, <3>1 DEF ConsoleInv
    <3>5. SettingKept'
      BY <3>1, <3>4 DEF SettingKept
    <3>6. QED
      BY <3>1, <3>2, <3>3, <3>5
  <2>8. ASSUME consolePC = "idle", Raises, raised' = raised
        PROVE  setting = {} /\ BeingSet = {} /\ PrivilegeKept'
    <3>1. setting = {} /\ savedPrivilege = TRUE
      BY <1>0, <2>8 DEF ConsoleInv, ConsoleCalls, MemoryOK
    <3>2. PrivilegeKept'
      <4>1. mPrivilege \in BOOLEAN /\ userMode \in BOOLEAN
        BY <1>0 DEF MemoryOK
      <4>2. raised \/ mPrivilege = ~userMode
        BY <1>0, <3>1 DEF MemoryInv, PrivilegeKept, PrivilegeFollows
      <4>3. savedPrivilege' = mPrivilege /\ mPrivilege' = TRUE
        BY <2>8 DEF Raises
      <4>4. QED
        BY <2>1, <2>8, <4>1, <4>2, <4>3 DEF PrivilegeKept, PrivilegeFollows
    <3>3. QED
      BY <3>1, <3>2 DEF BeingSet
  <2>9. ASSUME NEW v \in VAddrs, ClearBegins(v)
        PROVE  /\ WordsInPlace' /\ OneRecord' /\ OnlyBreakpoints' /\ PrivilegeKept'
               /\ SettingKept' /\ disabled' \ missed' \subseteq disabled \ missed
    <3>1. PICK p :
            /\ consolePC = "idle" /\ Raises /\ UNCHANGED <<words, raised>>
            /\ consolePC' \in {"restore", "clearWrite"}
            /\ setting' = Records(p) /\ mBreakpoints' = mBreakpoints \ Records(p)
            /\ disabled' = disabled \ {p} /\ missed' = missed \ {p}
      BY <2>9 DEF ClearBegins
    <3>2. setting = {} /\ BeingSet = {} /\ PrivilegeKept'
      BY <2>8, <3>1
    <3>3. \A q : Records(q)' = IF q = p THEN {} ELSE Records(q)
      BY <3>1 DEF Records
    <3>4. BeingSet' = IF Records(p) = {} THEN {} ELSE {p}
      BY <3>1 DEF BeingSet, Records
    <3>5. WordsInPlace'
      <4> SUFFICES ASSUME NEW q \in Words, q \notin overwritten, q \notin BeingSet'
                   PROVE  /\ Records(q)' = {} => words[q] = meant[q]
                          /\ \A c \in Records(q)' :
                               /\ c.fOriginalValue = meant[q]
                               /\ words[q] = IF q \in disabled' THEN meant[q] ELSE c.fBPValue
        BY <2>1, <3>1 DEF WordsInPlace
      <4>1. /\ Records(q) = {} => words[q] = meant[q]
            /\ \A c \in Records(q) :
                 /\ c.fOriginalValue = meant[q]
                 /\ words[q] = IF q \in disabled THEN meant[q] ELSE c.fBPValue
        BY <1>0, <3>2 DEF MemoryInv, WordsInPlace
      <4>2. CASE q = p
        BY <3>3, <3>4, <4>1, <4>2
      <4>3. CASE q # p
        BY <3>1, <3>3, <4>1, <4>3
      <4>4. QED
        BY <4>2, <4>3
    <3>6. OneRecord' /\ OnlyBreakpoints'
      BY <1>0, <3>1, <3>3 DEF MemoryInv, OneRecord, OnlyBreakpoints
    <3>7. SettingKept'
      <4>1. \A b, c \in setting' : b = c
        BY <1>0, <3>1 DEF MemoryInv, OneRecord, Records
      <4>2. ASSUME NEW b \in setting'
            PROVE  /\ Records(b.fAddress)' = {}
                   /\ b.fAddress \notin overwritten => b.fOriginalValue = meant[b.fAddress]
        <5>1. b \in Records(p) /\ b.fAddress = p /\ p \in Words
          BY <1>0, <3>1 DEF Records, MemoryOK, SBreakpoint
        <5>2. p \notin overwritten => b.fOriginalValue = meant[p]
          BY <1>0, <3>2, <5>1 DEF MemoryInv, WordsInPlace
        <5>3. QED
          BY <3>3, <5>1, <5>2
      <4>3. QED
        BY <2>1, <3>1, <4>1, <4>2 DEF SettingKept
    <3>8. QED
      BY <3>1, <3>2, <3>5, <3>6, <3>7
  <2>10. ASSUME NEW v \in VAddrs, NEW id \in IDs, SetBegins(v, id)
         PROVE  /\ WordsInPlace' /\ OneRecord' /\ OnlyBreakpoints' /\ PrivilegeKept'
                /\ SettingKept' /\ disabled' \ missed' \subseteq disabled \ missed
    <3>1. PICK p \in Words \union {Fault} :
            /\ consolePC = "idle" /\ Raises
            /\ UNCHANGED <<mBreakpoints, words, disabled, missed, raised>>
            /\ consolePC' \in {"setWrite", "restore", "restoreRun"}
            /\ \/ setting' = {}
               \/ /\ p \in Words /\ Records(p) = {}
                  /\ setting' = {[fAddress |-> p, fOriginalValue |-> words[p], fBPValue |-> id]}
      <4>1. PICK p \in Words \union {Fault} : SetBegins(v, id)!(p)
        BY <2>10 DEF SetBegins, Restoring
      <4>2. QED
        BY <4>1 DEF Restoring
    <3>2. setting = {} /\ BeingSet = {} /\ PrivilegeKept'
      BY <2>8, <3>1
    <3>3. \A q : Records(q)' = Records(q)
      BY <3>1 DEF Records
    <3>4. WordsInPlace'
      BY <1>0, <2>1, <3>1, <3>2, <3>3 DEF MemoryInv, WordsInPlace
    <3>5. OneRecord' /\ OnlyBreakpoints'
      BY <1>0, <3>1, <3>3 DEF MemoryInv, OneRecord, OnlyBreakpoints
    <3>6. SettingKept'
      <4>1. CASE setting' = {}
        BY <4>1 DEF SettingKept
      <4>2. CASE setting' # {}
        <5> DEFINE new == [fAddress |-> p, fOriginalValue |-> words[p], fBPValue |-> id]
        <5>1. p \in Words /\ Records(p) = {} /\ setting' = {new}
          BY <3>1, <4>2
        <5>2. p \notin overwritten => words[p] = meant[p]
          BY <1>0, <3>2, <5>1 DEF MemoryInv, WordsInPlace
        <5>3. new.fAddress = p /\ new.fOriginalValue = words[p] /\ consolePC' # "setRecord"
          BY <3>1
        <5> HIDE DEF new
        <5>4. QED
          BY <2>1, <3>1, <3>3, <5>1, <5>2, <5>3 DEF SettingKept
      <4>3. QED
        BY <4>1, <4>2
    <3>7. QED
      BY <3>1, <3>2, <3>4, <3>5, <3>6
  <2>11. QED
    BY <1>2, <2>4, <2>5, <2>6, <2>7, <2>9, <2>10 DEF CallStep
<1>3. QED
  BY <1>1, <1>2, ConsoleKinds

-----------------------------------------------------------------------------
\* The invariant.

LEMMA InitStep == Init => IInv
<1> SUFFICES ASSUME Init PROVE IInv
  OBVIOUS
<1>1. /\ words \in [Words -> Codes] /\ meant = words /\ mBreakpoints = {} /\ setting = {}
      /\ savedPrivilege = TRUE /\ torn = FALSE
  BY MonitorAssumption DEF Init
<1>2. \A p : Records(p) = {}
  BY <1>1 DEF Records
<1>3. ThreadsOK
  BY DEF Init, ThreadsOK, Commands, MonitorPCs, ConsolePCs
<1>4. MemoryOK
  BY <1>1 DEF Init, MemoryOK
<1>5. ConsoleInv /\ StepsAtPC /\ ~Overlap
  BY <1>1 DEF Init, ConsoleInv, StepsAtPC, SteppingOver, Overlap, MonitorCalls
<1>6. WordsInPlace /\ OneRecord /\ OnlyBreakpoints /\ SettingKept
  BY <1>1, <1>2 DEF Init, WordsInPlace, OneRecord, OnlyBreakpoints, SettingKept
<1>7. PrivilegeKept
  BY DEF Init, PrivilegeKept, PrivilegeFollows
<1>8. OneDisabled
  BY DEF Init, OneDisabled, SteppingOver
<1>9. QED
  BY <1>1, <1>3, <1>4, <1>5, <1>6, <1>7, <1>8 DEF IInv, Types, Sound, MemoryInv

LEMMA NextStep == IInv /\ [Next]_vars => IInv'
<1> SUFFICES ASSUME IInv, [Next]_vars PROVE IInv'
  OBVIOUS
<1>1. torn \in BOOLEAN /\ Types /\ (torn = FALSE => Sound)
  BY DEF IInv
<1>2. CASE UNCHANGED vars
  <2>1. /\ UNCHANGED <<mHalted, mCommand, monitorPC, consolePC, realPC, mRunning, mBPHalted>>
        /\ UNCHANGED <<consoleVars, memoryVars, programVars, torn, early>>
    BY <1>2 DEF vars, commandVars, haltVars
  <2>2. ThreadsOK'
    BY <1>1, <2>1 DEF Types, ThreadsOK, programVars
  <2>3. MemoryOK'
    BY <1>1, <2>1 DEF Types, MemoryOK, memoryVars, programVars, consoleVars
  <2>4. ConsoleInv' /\ StepsAtPC'
    BY <1>1, <2>1 DEF Types, ConsoleInv, StepsAtPC, SteppingOver, consoleVars
  <2>5. ASSUME Sound PROVE Sound'
    <3>1. MemoryInv'
      BY <2>1, <2>5, MemoryUnchanged DEF Sound, programVars
    <3>2. OneDisabled' /\ ~Overlap'
      BY <2>1, <2>5 DEF Sound, OneDisabled, SteppingOver, Overlap, memoryVars, programVars
    <3>3. QED
      BY <3>1, <3>2 DEF Sound
  <2>6. QED
    BY <1>1, <2>1, <2>2, <2>3, <2>4, <2>5 DEF IInv, Types
<1>3. CASE (MonitorNext \/ ConsoleNext) /\ torn' = (torn \/ Overlap')
  <2>1. Types'
    BY <1>1, <1>3, MonitorTypes, ConsoleTypes
  <2>2. torn' \in BOOLEAN /\ (torn' = FALSE => torn = FALSE /\ ~Overlap')
    BY <1>1, <1>3 DEF Overlap
  <2>3. torn' = FALSE => Sound'
    BY <1>1, <1>3, <2>2, MonitorSound, ConsoleSound
  <2>4. QED
    BY <2>1, <2>2, <2>3 DEF IInv
<1>4. QED
  BY <1>2, <1>3 DEF Next, Ended

LEMMA InvariantHolds == Spec => []IInv
<1>1. Init => IInv
  BY InitStep
<1>2. IInv /\ [Next]_vars => IInv'
  BY NextStep
<1>3. QED
  BY <1>1, <1>2, PTL DEF Spec

\* The fields of the monitor and of its memory keep their types, whatever overlaps.
THEOREM MonitorTypeCorrect == Spec => []TypeOK
<1>1. IInv => TypeOK
  BY DEF IInv, Types, TypeOK
<1>2. QED
  BY <1>1, InvariantHolds, PTL

\* Until two threads are in a call of TMemory at once, breakpoints set and cleared
\* while the program runs, hit and stepped over, hide nothing but themselves, the
\* stores into their own words and the modes entered while one is set or cleared.
THEOREM BreakpointsAlwaysTransparent == Spec => []BreakpointsAreTransparent
<1>1. IInv => BreakpointsAreTransparent
  <2> SUFFICES ASSUME IInv, torn = FALSE
               PROVE  /\ WordsInPlace /\ PrivilegeFollows
                      /\ disabled # missed => SteppingOver
    BY DEF BreakpointsAreTransparent, IInv
  <2>1. MemoryInv /\ OneDisabled
    BY DEF IInv, Sound
  <2>2. disabled # missed => SteppingOver
    BY <2>1 DEF MemoryInv, MemoryOK, OneDisabled
  <2>3. QED
    BY <2>1, <2>2 DEF MemoryInv, PrivilegeKept
<1>2. QED
  BY <1>1, InvariantHolds, PTL

-----------------------------------------------------------------------------
\* Stop of the monitor.  What it needs: its command is the last one, the monitor
\* is not halted while it runs, and nobody goes from the gap to RunEmulator once
\* Stop has looked, unless it looked too early.
StopInv ==
  /\ consolePC \in {"spin", "mutex", "signal", "ended"} => mCommand = "kExit"
  /\ monitorPC \in Running => mHalted = FALSE
  /\ consolePC = "mutex" /\ early = FALSE => monitorPC \notin Running \union {"begin"}

LEMMA StopMonitorStep ==
  ASSUME StopInv, MonitorNext
  PROVE  StopInv'
<1>1. UNCHANGED <<consolePC, early>> /\ mCommand' = mCommand
  BY MonitorMoves
<1>2. CASE RunEmulator
  BY <1>1, <1>2 DEF StopInv, RunEmulator, Goes, Running
<1>3. CASE AfterRun \/ ClearsTemporary
  BY <1>1, <1>3 DEF StopInv, AfterRun, ClearsTemporary, Halts, Goes, Running, commandVars
<1>4. CASE Wakes
  <2>1. /\ monitorPC' \in {"begin", "stepRead", "ended", "rest", "loading"}
        /\ monitorPC' = "begin" => mCommand = "kRun"
    BY <1>4 DEF Wakes, Goes
  <2>2. mHalted' = mHalted
    BY <1>4 DEF Wakes, commandVars
  <2>3. QED
    BY <1>1, <2>1, <2>2 DEF StopInv, Running
<1>5. ASSUME \/ Starts \/ ReadsInstruction \/ Calls \/ Disables \/ Enables \/ Steps
             \/ Run \/ Runs \/ RunEnds \/ \E saved \in Snapshots : LoadEmulatorState(saved)
      PROVE  StopInv'
  <2>1. mHalted' = mHalted
    BY <1>5 DEF Starts, LoadEmulatorState, ReadsInstruction, Calls, Disables, Enables,
                Steps, Run, Runs, RunEnds, commandVars
  <2>2. monitorPC' \in Running => monitorPC \in Running
    BY <1>5 DEF Starts, LoadEmulatorState, ReadsInstruction, Calls, Disables, Enables,
                Steps, Run, Runs, RunEnds, Goes, Running
  <2>3. monitorPC' # "begin"
    BY <1>5 DEF Starts, LoadEmulatorState, ReadsInstruction, Calls, Disables, Enables,
                Steps, Run, Runs, RunEnds, Goes
  <2>4. QED
    BY <1>1, <2>1, <2>2, <2>3 DEF StopInv
<1>6. QED
  BY <1>2, <1>3, <1>4, <1>5 DEF MonitorNext

LEMMA StopConsoleStep ==
  ASSUME StopInv, ConsoleNext
  PROVE  StopInv'
<1>1. CASE Stop
  BY <1>1 DEF StopInv, Stop
<1>2. CASE StopSpins
  <2>1. UNCHANGED <<mHalted, mCommand, monitorPC>>
    BY <1>2 DEF StopSpins, commandVars
  <2>2. /\ consolePC = "spin" /\ consolePC' = IF mHalted THEN "mutex" ELSE "spin"
        /\ early' = (mHalted /\ monitorPC = "begin")
    BY <1>2 DEF StopSpins
  <2>3. mHalted => monitorPC \notin Running
    BY DEF StopInv
  <2>4. QED
    BY <2>1, <2>2, <2>3 DEF StopInv
<1>3. CASE StopAcquiresMutex /\ UNCHANGED early
  BY <1>3 DEF StopInv, StopAcquiresMutex, commandVars, Running
<1>4. CASE StopSignals
  BY <1>4 DEF StopInv, StopSignals, SignalCondVar, commandVars, Running
<1>5. CASE \/ \E command \in {"kRun", "kStep", "kLoadState"} : Command(command)
           \/ Trace \/ StopEmulator \/ TraceOver \/ \E v \in VAddrs : SetPC(v)
  <2>1. /\ consolePC \in {"idle", "run"} /\ consolePC' = "idle" /\ mHalted' = mHalted
        /\ monitorPC' \in {monitorPC, "woken"}
    BY <1>5 DEF Command, Trace, StopEmulator, TraceOver, SetPC, SignalCondVar, commandVars
  <2>2. QED
    BY <2>1 DEF StopInv, Running
<1>6. CASE CallStep
  <2>1. UNCHANGED <<mHalted, mCommand, monitorPC>>
    BY <1>6, CallLeaves DEF commandVars
  <2>2. consolePC' \in {"idle", "run"} \union ConsoleCalls
    <3>1. CASE SetWrites \/ SetRecords \/ ClearWrites \/ RestoresPrivilege
      BY <3>1 DEF SetWrites, SetRecords, ClearWrites, RestoresPrivilege, Restoring, ConsoleCalls
    <3>2. CASE \E v \in VAddrs : ClearBegins(v)
      BY <3>2 DEF ClearBegins, ConsoleCalls
    <3>3. CASE \E v \in VAddrs : \E id \in IDs : SetBegins(v, id)
      BY <3>3 DEF SetBegins, Restoring, ConsoleCalls
    <3>4. QED
      BY <1>6, <3>1, <3>2, <3>3 DEF CallStep
  <2>3. QED
    BY <2>1, <2>2 DEF StopInv, ConsoleCalls
<1>7. QED
  BY <1>1, <1>2, <1>3, <1>4, <1>5, <1>6 DEF ConsoleNext, CallStep

\* Stop of the monitor waits for the mutex only when the loop will free it, but in
\* the gap before RunEmulator clears mHalted.
THEOREM StopAlwaysFindsTheLoop == Spec => []StopFindsTheLoop
<1>1. Init => StopInv
  BY DEF Init, StopInv, Running
<1>2. StopInv /\ [Next]_vars => StopInv'
  <2> SUFFICES ASSUME StopInv, [Next]_vars PROVE StopInv'
    OBVIOUS
  <2>1. CASE UNCHANGED vars
    BY <2>1 DEF StopInv, vars, commandVars
  <2>2. QED
    BY <2>1, StopMonitorStep, StopConsoleStep DEF Next, Ended
<1>3. StopInv => StopFindsTheLoop
  BY DEF StopInv, StopFindsTheLoop
<1>4. QED
  BY <1>1, <1>2, <1>3, PTL DEF Spec
=============================================================================
