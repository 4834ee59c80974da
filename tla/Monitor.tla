------------------------------- MODULE Monitor -------------------------------
(***************************************************************************)
(* TMonitor and the breakpoints of TMemory: the console thread takes the    *)
(* commands of the user, the monitor thread waits for them on a condition   *)
(* variable and runs or steps the emulator.                                 *)
(*                                                                          *)
(* mMutex is held by the monitor thread but while it waits; the console     *)
(* takes it in Stop only, and signals its other commands without it.  The   *)
(* monitor thread's reads and writes of the shared flags are actions of     *)
(* their own, as are those of Stop; another command of the console is one   *)
(* action, but for the breakpoints it sets and clears while the program     *)
(* runs: their accesses to the privilege, the words and the records take no  *)
(* lock, and the program goes on between them.                              *)
(*                                                                          *)
(* A word of memory is code of the program or a breakpoint instruction,     *)
(* which is its identifier.  The program (external) jumps, stores, changes  *)
(* its mappings and its mode.  Run and Step of the emulator are detailed in *)
(* EmulatorLoop: here, Run executes until mRunning is clear.                *)
(***************************************************************************)

CONSTANTS
  VAddrs,               \* the virtual addresses of words
  ROMWords, RAMWords,   \* the physical addresses that can have a breakpoint
  Mappings,             \* what the MMU may be told: a physical address or Fault
  Fault,
  Codes,                \* the words of the program
  Snapshots             \* the saved states

NULL  == "NULL"
Words == ROMWords \union RAMWords

\* kWatch1BP to kWatch3BP only print more than kWatch0BP.
IDs == {"kPermanentBP", "kTemporaryBP", "kWatch0BP"}

SBreakpoint == [fAddress : Words, fOriginalValue : Codes \union IDs, fBPValue : IDs]

Saved == [mapping : Mappings, pc : VAddrs, userMode : BOOLEAN, meant : [Words -> Codes],
          words : [Words -> Codes \union IDs], mBreakpoints : SUBSET SBreakpoint,
          mRunning : BOOLEAN, mBPHalted : IDs \union {NULL}]

\* A saved state in which every breakpoint is in place, over what the program wrote.
InPlace(saved) ==
  /\ \A b, c \in saved.mBreakpoints : b.fAddress = c.fAddress => b = c
  /\ \A p \in Words :
       LET records == {b \in saved.mBreakpoints : b.fAddress = p}
       IN  /\ records = {} => saved.words[p] = saved.meant[p]
           /\ \A b \in records :
                b.fOriginalValue = saved.meant[p] /\ saved.words[p] = b.fBPValue

ASSUME MonitorAssumption ==
  /\ Mappings \subseteq [VAddrs -> Words \union {Fault}]
  /\ Codes # {} /\ Codes \intersect IDs = {} /\ Fault \notin Words
  /\ Snapshots \subseteq {saved \in Saved : InPlace(saved)}

VARIABLES
  mHalted, mCommand,      \* TMonitor
  monitorPC, consolePC,   \* where the threads are
  realPC,                 \* where RunEmulator or StepEmulator disabled a breakpoint
  mRunning, mBPHalted,    \* TEmulator: mBPHalted is also mBPID when it is set
  mBreakpoints,           \* TMemory's array
  words,                  \* the content of the ROM and of the RAM
  mapping, pc, userMode, mPrivilege,
  \* Locals of the console's SetBreakpoint and ClearBreakpoint: the record to add, or
  \* the one removed, until both its word and the array are written; the privilege to
  \* give back, TRUE when there is none.
  setting, savedPrivilege,
  \* History: what the program has written; where it wrote over a breakpoint or
  \* over the word of `setting`; the breakpoints whose instruction is not in place,
  \* and those of them whose address was remapped since; the privilege is not that
  \* of the mode; two threads were in a call of TMemory at once; Stop read mHalted
  \* before RunEmulator, already begun, cleared it.
  meant, overwritten, disabled, missed, raised, torn, early

commandVars == <<mHalted, mCommand>>
haltVars    == <<mRunning, mBPHalted>>
consoleVars == <<setting, savedPrivilege>>
memoryVars  == <<mBreakpoints, words, mPrivilege, disabled, missed, raised>>
programVars == <<mapping, pc, userMode, meant, overwritten>>
vars == <<commandVars, monitorPC, consolePC, realPC, haltVars, consoleVars, memoryVars,
          programVars, torn, early>>

\* kSaveState is left out: it changes nothing here.
Commands == {"kNop", "kRun", "kStep", "kExit", "kLoadState"}

\* Where RunEmulator keeps the monitor thread after it has cleared mHalted.
Running == {"read", "disable", "disabling", "step", "enable", "enabling", "run", "running",
            "ran", "clearing"}

\* Where each thread is in a call of TMemory.
MonitorCalls == {"disabling", "enabling", "stepDisabling", "stepEnabling", "clearing",
                 "loading"}
ConsoleCalls == {"setWrite", "setRecord", "clearWrite", "restore", "restoreRun"}

MonitorPCs == {"start", "waiting", "woken", "rest", "begin", "stepRead", "stepDisable",
               "stepBP", "stepEnable", "stepOne", "ended"} \union Running \union MonitorCalls
ConsolePCs == {"idle", "run", "spin", "mutex", "signal", "ended"} \union ConsoleCalls

Init ==
  /\ mHalted = TRUE /\ mCommand = "kNop"
  /\ monitorPC = "start" /\ consolePC = "idle"
  /\ mRunning = FALSE /\ mBPHalted = NULL
  /\ mBreakpoints = {}
  /\ words = [p \in Words |-> CHOOSE c \in Codes : TRUE]
  /\ mapping \in Mappings /\ pc \in VAddrs /\ realPC = NULL
  /\ userMode = FALSE /\ mPrivilege = TRUE
  /\ setting = {} /\ savedPrivilege = TRUE
  /\ meant = words /\ overwritten = {} /\ disabled = {} /\ missed = {} /\ raised = FALSE
  /\ torn = FALSE /\ early = FALSE

\* The record of a physical address, if there is one.
Records(p) == {b \in mBreakpoints : b.fAddress = p}

\* The word that the console sets or clears.
BeingSet == {b.fAddress : b \in setting}

IsBP(v) == mapping[v] \in Words /\ words[mapping[v]] \in IDs

-----------------------------------------------------------------------------
\* The calls of TMemory of the monitor thread, on the word at a virtual address.  The
\* program waits for them: unless the console is in a call too, each is one step.  All
\* but one give back the privilege they found.

\* The word at v becomes that field of its record, if it has one.
Writes(v, field) ==
  words' = [q \in Words |-> IF q = mapping[v] /\ Records(q) # {}
                            THEN (CHOOSE b \in Records(q) : TRUE)[field] ELSE words[q]]

\* Mutant: the record goes and the instruction stays.
ClearBreakpoint_NoRestore(v) ==
  /\ mBreakpoints' = mBreakpoints \ Records(mapping[v])
  /\ disabled' = disabled \ {mapping[v]} /\ missed' = missed \ {mapping[v]}
  /\ UNCHANGED <<words, mPrivilege, raised>>

ClearBreakpoint(v) ==
  /\ Writes(v, "fOriginalValue")
  /\ mBreakpoints' = mBreakpoints \ Records(mapping[v])
  /\ disabled' = disabled \ {mapping[v]} /\ missed' = missed \ {mapping[v]}
  /\ UNCHANGED <<mPrivilege, raised>>

DisableBreakpoint(v) ==
  /\ Writes(v, "fOriginalValue")
  /\ disabled' = disabled \union {b.fAddress : b \in Records(mapping[v])}
  /\ UNCHANGED <<mBreakpoints, mPrivilege, missed, raised>>

\* In user mode it ends with the privilege it raised.
EnableBreakpoint(v) ==
  /\ Writes(v, "fBPValue")
  /\ mPrivilege' = TRUE
  /\ raised' = (raised \/ ~mPrivilege)
  /\ disabled' = disabled \ {mapping[v]} /\ missed' = missed \ {mapping[v]}
  /\ UNCHANGED mBreakpoints

-----------------------------------------------------------------------------
\* The program: one instruction, which is not a breakpoint.

\* A store to the ROM is ignored.
Stores ==
  \E p \in RAMWords, c \in Codes :
    /\ words' = [words EXCEPT ![p] = c] /\ meant' = [meant EXCEPT ![p] = c]
    /\ overwritten' = IF Records(p) # {} \/ p \in BeingSet THEN overwritten \union {p}
                                                          ELSE overwritten \ {p}
    /\ UNCHANGED <<mapping, userMode, mBreakpoints, mPrivilege, disabled, missed, raised>>

\* Only a privileged mode writes the registers of the MMU.
Remaps ==
  /\ ~userMode
  /\ mapping' \in Mappings
  /\ missed' = missed \union
                 IF realPC # NULL /\ mapping'[realPC] = mapping[realPC] THEN {} ELSE disabled
  /\ UNCHANGED <<userMode, meant, overwritten, mBreakpoints, words, mPrivilege, disabled,
                 raised>>

\* A call of the console that found user mode gives it back, whatever the mode is.
ChangesMode ==
  /\ userMode' = ~userMode
  /\ mPrivilege' = ~userMode'
  /\ raised' = (~savedPrivilege /\ ~userMode')
  /\ UNCHANGED <<mapping, meant, overwritten, mBreakpoints, words, disabled, missed>>

Jumps == UNCHANGED <<mapping, userMode, meant, overwritten, memoryVars>>

Instruction == pc' \in VAddrs /\ (Jumps \/ Stores \/ Remaps \/ ChangesMode)

-----------------------------------------------------------------------------
\* The monitor thread.

Goes(from, to) == monitorPC = from /\ monitorPC' = to

\* Run: the mutex is taken, and given back by the wait.
Starts ==
  /\ consolePC # "signal"
  /\ Goes("start", "waiting") \/ Goes("rest", "waiting")
  /\ UNCHANGED <<commandVars, consolePC, realPC, haltVars, memoryVars, programVars>>

Wakes ==
  /\ consolePC # "signal"
  /\ Goes("woken", CASE mCommand = "kRun"  -> "begin"
                     [] mCommand = "kStep" -> "stepRead"
                     [] mCommand = "kExit" -> "ended"
                     [] mCommand = "kNop"  -> "rest"
                     [] OTHER              -> "loading")
  /\ UNCHANGED <<commandVars, consolePC, realPC, haltVars, memoryVars, programVars>>

\* Memory with its breakpoints, MMU and processor.
LoadEmulatorState(saved) ==
  /\ Goes("loading", "rest")
  /\ mapping' = saved.mapping /\ pc' = saved.pc
  /\ words' = saved.words /\ mBreakpoints' = saved.mBreakpoints
  /\ userMode' = saved.userMode /\ mPrivilege' = ~saved.userMode
  /\ mRunning' = saved.mRunning /\ mBPHalted' = saved.mBPHalted
  /\ meant' = saved.meant
  /\ overwritten' = {} /\ disabled' = {} /\ missed' = {} /\ raised' = FALSE
  /\ UNCHANGED <<commandVars, consolePC, realPC>>

RunEmulator ==
  /\ Goes("begin", "read")
  /\ mHalted' = FALSE
  /\ UNCHANGED <<mCommand, consolePC, realPC, haltVars, memoryVars, programVars>>

\* Is there a breakpoint where the emulator is?
ReadsInstruction ==
  /\ \/ Goes("read", IF IsBP(pc) THEN "disable" ELSE "run")
     \/ Goes("stepRead", IF IsBP(pc) THEN "stepDisable" ELSE "stepOne")
  /\ realPC' = IF IsBP(pc) THEN pc ELSE NULL
  /\ UNCHANGED <<commandVars, consolePC, haltVars, memoryVars, programVars>>

\* A call of TMemory begins.
Calls ==
  /\ \/ Goes("disable", "disabling") \/ Goes("stepDisable", "stepDisabling")
     \/ Goes("enable", "enabling") \/ Goes("stepEnable", "stepEnabling")
  /\ UNCHANGED <<commandVars, consolePC, realPC, haltVars, memoryVars, programVars>>

Disables ==
  /\ Goes("disabling", "step") \/ Goes("stepDisabling", "stepBP")
  /\ DisableBreakpoint(realPC)
  /\ UNCHANGED <<commandVars, consolePC, realPC, haltVars, programVars>>

Enables ==
  /\ Goes("enabling", "run") \/ Goes("stepEnabling", "rest")
  /\ EnableBreakpoint(realPC)
  /\ realPC' = NULL
  /\ UNCHANGED <<commandVars, consolePC, haltVars, programVars>>

\* SoftwareBreakpoint and Breakpoint.
Hits ==
  /\ IsBP(pc)
  /\ mRunning' = FALSE /\ mBPHalted' = words[mapping[pc]]
  /\ UNCHANGED <<memoryVars, mapping, userMode, meant, overwritten>>

\* Step of the emulator.  A breakpoint that the console sets after the look is
\* skipped: here nobody takes the program counter back.
Steps ==
  /\ \/ Goes("step", "enable") \/ Goes("stepBP", "stepEnable") \/ Goes("stepOne", "rest")
  /\ \/ Hits /\ pc' \in VAddrs
     \/ ~IsBP(pc) /\ Instruction /\ mRunning' = TRUE /\ mBPHalted' = NULL
  /\ UNCHANGED <<commandVars, consolePC, realPC>>

\* Run of the emulator: it begins, executes and ends.
Run ==
  /\ Goes("run", "running")
  /\ mRunning' = TRUE /\ mBPHalted' = NULL
  /\ UNCHANGED <<commandVars, consolePC, realPC, memoryVars, programVars>>

Runs ==
  /\ mRunning
  /\ \/ Goes("running", "ran") /\ Hits /\ UNCHANGED pc
     \/ Goes("running", "running") /\ ~IsBP(pc) /\ Instruction /\ UNCHANGED haltVars
  /\ UNCHANGED <<commandVars, consolePC, realPC>>

RunEnds ==
  /\ Goes("running", "ran") /\ ~mRunning
  /\ UNCHANGED <<commandVars, consolePC, realPC, haltVars, memoryVars, programVars>>

Halts(from) == Goes(from, "rest") /\ mHalted' = TRUE /\ UNCHANGED mCommand

\* After the breakpoint, the program counter is taken back and ProcessBreakpoint
\* asked whether to stop.  A temporary one goes; a watch is stepped over.
AfterRun ==
  /\ \/ /\ mBPHalted \in {NULL, "kPermanentBP"}
        /\ Halts("ran") /\ UNCHANGED realPC
     \/ /\ mBPHalted = "kTemporaryBP"
        /\ Goes("ran", "clearing") /\ UNCHANGED <<commandVars, realPC>>
     \/ /\ mBPHalted = "kWatch0BP"
        /\ Goes("ran", "disable") /\ realPC' = pc /\ UNCHANGED commandVars
  /\ UNCHANGED <<consolePC, haltVars, memoryVars, programVars>>

ClearsTemporary ==
  /\ Halts("clearing")
  /\ ClearBreakpoint(pc)
  /\ UNCHANGED <<consolePC, realPC, haltVars, programVars>>

MonitorNext ==
  /\ UNCHANGED <<consoleVars, early>>
  /\ \/ Starts \/ Wakes \/ (\E saved \in Snapshots : LoadEmulatorState(saved))
     \/ RunEmulator \/ ReadsInstruction \/ Calls \/ Disables \/ Enables \/ Steps
     \/ Run \/ Runs \/ RunEnds \/ AfterRun \/ ClearsTemporary

-----------------------------------------------------------------------------
\* The console thread.

\* A signal that only a thread in the wait receives.
SignalCondVar ==
  monitorPC' = IF monitorPC = "waiting" THEN "woken" ELSE monitorPC

\* run, step and load ask for mHalted.
Command(command) ==
  /\ consolePC = "idle"
  /\ mHalted
  /\ mCommand' = command
  /\ SignalCondVar
  /\ UNCHANGED <<mHalted, consolePC, realPC, haltVars, consoleVars, memoryVars, programVars>>

\* SetBreakpoint and ClearBreakpoint of the console.  The first step goes as far as
\* the read of the word, or the removal of the record: what the program does between
\* two of its accesses could as well come before them or after them, but that it may
\* take the raised privilege away, and make TranslateR fault.

Raises == savedPrivilege' = mPrivilege /\ mPrivilege' = TRUE

TranslateR(v, p) ==
  p = mapping[v] \/ (p = Fault /\ monitorPC \in {"step", "stepBP", "stepOne", "running"})

\* Only trace and mr set a temporary breakpoint; they run afterwards.
Restoring(id) == IF id = "kTemporaryBP" THEN "restoreRun" ELSE "restore"

\* break, bp and watch; trace over a call, and mr, which alone asks for mHalted.
SetBegins(v, id) ==
  \E p \in Words \union {Fault} :
    LET new == p \in Words /\ Records(p) = {}
    IN  /\ consolePC = "idle" /\ TranslateR(v, p)
        /\ consolePC' = IF new THEN "setWrite" ELSE Restoring(id)
        /\ setting' = {[fAddress |-> q, fOriginalValue |-> words[q], fBPValue |-> id] :
                          q \in IF new THEN {p} ELSE {}}
        /\ Raises
        /\ UNCHANGED <<commandVars, monitorPC, realPC, haltVars, mBreakpoints, words,
                       disabled, missed, raised, programVars>>

SetWrites ==
  /\ consolePC = "setWrite" /\ consolePC' = "setRecord"
  /\ \E b \in setting : words' = [words EXCEPT ![b.fAddress] = b.fBPValue]
  /\ UNCHANGED <<commandVars, monitorPC, realPC, haltVars, consoleVars, mBreakpoints,
                 mPrivilege, disabled, missed, raised, programVars>>

SetRecords ==
  /\ consolePC = "setRecord"
  /\ \E b \in setting : consolePC' = Restoring(b.fBPValue)
  /\ mBreakpoints' = mBreakpoints \union setting
  /\ setting' = {}
  /\ UNCHANGED <<commandVars, monitorPC, realPC, haltVars, savedPrivilege, words, mPrivilege,
                 disabled, missed, raised, programVars>>

\* bc
ClearBegins(v) ==
  \E p \in Words \union {Fault} :
    /\ consolePC = "idle" /\ TranslateR(v, p)
    /\ consolePC' = IF Records(p) = {} THEN "restore" ELSE "clearWrite"
    /\ setting' = Records(p)
    /\ mBreakpoints' = mBreakpoints \ Records(p)
    /\ disabled' = disabled \ {p} /\ missed' = missed \ {p}
    /\ Raises
    /\ UNCHANGED <<commandVars, monitorPC, realPC, haltVars, words, raised, programVars>>

ClearWrites ==
  /\ consolePC = "clearWrite" /\ consolePC' = "restore"
  /\ \E b \in setting : words' = [words EXCEPT ![b.fAddress] = b.fOriginalValue]
  /\ setting' = {}
  /\ UNCHANGED <<commandVars, monitorPC, realPC, haltVars, savedPrivilege, mBreakpoints,
                 mPrivilege, disabled, missed, raised, programVars>>

RestoresPrivilege ==
  /\ \/ consolePC = "restore" /\ consolePC' = "idle"
     \/ consolePC = "restoreRun" /\ consolePC' = "run"
  /\ mPrivilege' = (mPrivilege /\ savedPrivilege)
  /\ savedPrivilege' = TRUE
  /\ UNCHANGED <<commandVars, monitorPC, realPC, haltVars, setting, mBreakpoints, words,
                 disabled, missed, raised, programVars>>

\* trace over a call, and mr, run once the breakpoint is set.
TraceOver ==
  /\ consolePC = "run" /\ consolePC' = "idle"
  /\ mCommand' = "kRun"
  /\ SignalCondVar
  /\ UNCHANGED <<mHalted, realPC, haltVars, consoleVars, memoryVars, programVars>>

Trace ==
  /\ consolePC = "idle"
  /\ mCommand' = "kStep"
  /\ SignalCondVar
  /\ UNCHANGED <<mHalted, consolePC, realPC, haltVars, consoleVars, memoryVars, programVars>>

\* pc=
SetPC(v) ==
  /\ consolePC = "idle"
  /\ mHalted
  /\ pc' = v
  /\ UNCHANGED <<commandVars, monitorPC, consolePC, realPC, haltVars, consoleVars,
                 memoryVars, mapping, userMode, meant, overwritten>>

\* stop: Stop of the emulator.
StopEmulator ==
  /\ consolePC = "idle"
  /\ ~mHalted
  /\ mRunning' = FALSE
  /\ UNCHANGED <<commandVars, monitorPC, consolePC, realPC, mBPHalted, consoleVars,
                 memoryVars, programVars>>

\* Stop of the monitor, once, after the last command: it stops the emulator until
\* mHalted is set, takes the mutex, signals and frees it.
Stop ==
  /\ consolePC = "idle" /\ consolePC' = "spin"
  /\ mCommand' = "kExit"
  /\ early' = FALSE
  /\ UNCHANGED <<mHalted, monitorPC, realPC, haltVars, consoleVars, memoryVars, programVars>>

\* Mutant: mHalted is not waited for.
StopSpins_Once ==
  /\ consolePC = "spin" /\ consolePC' = "mutex"
  /\ mRunning' = (mRunning /\ mHalted)
  /\ early' = (mHalted /\ monitorPC = "begin")
  /\ UNCHANGED <<commandVars, monitorPC, realPC, mBPHalted, consoleVars, memoryVars,
                 programVars>>

StopSpins ==
  /\ consolePC = "spin" /\ consolePC' = IF mHalted THEN "mutex" ELSE "spin"
  /\ mRunning' = (mRunning /\ mHalted)
  /\ early' = (mHalted /\ monitorPC = "begin")
  /\ UNCHANGED <<commandVars, monitorPC, realPC, mBPHalted, consoleVars, memoryVars,
                 programVars>>

StopAcquiresMutex ==
  /\ consolePC = "mutex" /\ consolePC' = "signal"
  /\ monitorPC \in {"start", "waiting", "woken", "ended"}
  /\ UNCHANGED <<commandVars, monitorPC, realPC, haltVars, consoleVars, memoryVars, programVars>>

StopSignals ==
  /\ consolePC = "signal" /\ consolePC' = "ended"
  /\ SignalCondVar
  /\ UNCHANGED <<commandVars, realPC, haltVars, consoleVars, memoryVars, programVars>>

ConsoleNext ==
  \/ Stop \/ StopSpins
  \/ /\ UNCHANGED early
     /\ \/ \E command \in {"kRun", "kStep", "kLoadState"} : Command(command)
        \/ Trace \/ StopEmulator \/ StopAcquiresMutex \/ StopSignals
        \/ SetWrites \/ SetRecords \/ ClearWrites \/ RestoresPrivilege \/ TraceOver
        \/ \E v \in VAddrs :
             ClearBegins(v) \/ SetPC(v) \/ \E id \in IDs : SetBegins(v, id)

\* The program ends.  The thread of the monitor still waits when Stop came before
\* its first wait.
Ended == consolePC = "ended" /\ monitorPC \in {"waiting", "ended"} /\ UNCHANGED vars

\* Two threads in a call at once: they move and free the array under one another.
Overlap == monitorPC \in MonitorCalls /\ consolePC \in ConsoleCalls

Next ==
  \/ (MonitorNext \/ ConsoleNext) /\ torn' = (torn \/ Overlap')
  \/ Ended

Spec == Init /\ [][Next]_vars

-----------------------------------------------------------------------------
ThreadsOK ==
  /\ mHalted \in BOOLEAN /\ mCommand \in Commands
  /\ monitorPC \in MonitorPCs /\ consolePC \in ConsolePCs
  /\ early \in BOOLEAN
  /\ realPC \in VAddrs \union {NULL} /\ pc \in VAddrs /\ mapping \in Mappings
  /\ mRunning \in BOOLEAN /\ mBPHalted \in IDs \union {NULL}

MemoryOK ==
  /\ mBreakpoints \subseteq SBreakpoint
  /\ words \in [Words -> Codes \union IDs] /\ meant \in [Words -> Codes]
  /\ setting \subseteq SBreakpoint /\ savedPrivilege \in BOOLEAN
  /\ userMode \in BOOLEAN /\ mPrivilege \in BOOLEAN /\ raised \in BOOLEAN
  /\ overwritten \subseteq Words /\ disabled \subseteq Words /\ missed \subseteq disabled

TypeOK == ThreadsOK /\ MemoryOK /\ torn \in BOOLEAN

\* The breakpoint at realPC is being stepped over.
SteppingOver ==
  monitorPC \in {"step", "enable", "enabling", "stepBP", "stepEnable", "stepEnabling"}

\* A word is what the program wrote, or the breakpoint in its record, which keeps
\* what the program wrote.
WordsInPlace ==
  \A p \in Words \ (overwritten \union BeingSet) :
    /\ Records(p) = {} => words[p] = meant[p]
    /\ \A b \in Records(p) :
         /\ b.fOriginalValue = meant[p]
         /\ words[p] = IF p \in disabled THEN meant[p] ELSE b.fBPValue

\* The privilege is that of the mode, but while a call of the console has raised it,
\* and where `raised` says.
PrivilegeFollows == raised \/ ~savedPrivilege \/ mPrivilege = ~userMode

\* The breakpoints of TMemory, set and cleared without a lock while the program runs,
\* and stepped over, for as long as no two threads were in a call at once: every word
\* is in place, but those the program wrote where a breakpoint is, or is being set or
\* cleared; none stays disabled once it is stepped over, unless the step remapped its
\* address; the privilege is that of the mode, until the next change of mode, unless
\* EnableBreakpoint raised it or the mode changed in a call of the console.
BreakpointsAreTransparent ==
  ~torn =>
    /\ WordsInPlace
    /\ disabled # missed => SteppingOver
    /\ PrivilegeFollows

\* Stop waits for the mutex when the loop is in its wait or about to be: never
\* while RunEmulator runs, which nobody would then end, unless it read mHalted in
\* the gap between the command and `mHalted = false`.
StopFindsTheLoop ==
  consolePC = "mutex" /\ ~early => monitorPC \notin Running
=============================================================================
