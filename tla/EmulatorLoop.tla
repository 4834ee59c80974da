---------------------------- MODULE EmulatorLoop ----------------------------
(***************************************************************************)
(* TEmulator::Run and Step, TJITGeneric::Run and Step: how the emulator     *)
(* thread learns of interrupts, pauses, breakpoints and stops.  Four flags  *)
(* and the pending interrupts are shared by three threads with no lock:     *)
(*                                                                          *)
(*   - the emulator thread executes pages of instructions as long as mSignal *)
(*     is set;                                                              *)
(*   - the timer thread sets and clears the pending interrupts and calls    *)
(*     SignalInterrupt for those the processor does not mask;               *)
(*   - a host thread calls Stop.                                            *)
(*                                                                          *)
(* Each read and each write of a shared variable is an action, unless no    *)
(* other thread can tell it from the next one.  What InterruptManager says  *)
(* of the lines and of the waits is reduced here to their effect.           *)
(*                                                                          *)
(* An instruction of a translated page calls the next one itself, until one *)
(* changes the program counter or the page ends: only then mSignal is read. *)
(* What an instruction clears in mSignal is seen when its page is left.     *)
(***************************************************************************)
EXTENDS Naturals

CONSTANT UnitsPerPage      \* the instructions of a page

ASSUME UnitsAssumption == UnitsPerPage \in Nat \ {0}

Kinds == {"FIQ", "IRQ"}   \* kFIQInterrupt, kIRQInterrupt

VARIABLES
  emuPC, stepping,       \* the emulator thread: where it is; in Step or in Run
  ahead,                 \* in a page: how many instructions follow this one
  theInterrupt,          \* its copy of the pending interrupts
  timerPC, timerKind,    \* the timer thread: where it is in FIQInterrupt, ..., if it is
  hostPC,                \* the host thread: where it is in Stop
  mSignal, mInterrupted, mRunning, mPaused,
  mPendingInterrupts,
  raised,                \* the lines of TInterruptManager with an enabled interrupt
  mCPSR,                 \* the interrupts that the I and F bits mask
  woken,                 \* the wait was signalled
  \* History: interrupts that were signalled since the emulator thread read
  \* the pending interrupts; that it then overwrote the signal; that an
  \* instruction asked for the monitor.
  signalled, overwritten, broke

flagVars == <<mSignal, mInterrupted, mRunning, mPaused>>
loopVars == <<emuPC, stepping, ahead, theInterrupt, timerPC, timerKind, hostPC, flagVars,
              mPendingInterrupts, raised, mCPSR, woken, signalled, overwritten, broke>>
\* What the emulator thread's own steps leave alone.
others == <<timerPC, timerKind, hostPC, mPendingInterrupts, raised>>
\* What they leave alone outside of a page.
outside == <<ahead, others>>

EmuPCs == {"halted", "check", "paused", "wait", "waiting", "waited", "look", "arm",
           "execute", "unit", "cpsr", "dispatch", "read", "ackRunning", "ackPaused",
           "ackSignal", "ackInterrupted", "take", "stepTake"}

\* The constructor sets mRunning and mPaused only: the other two start as the
\* memory was.
LoopInit ==
  /\ emuPC = "halted" /\ stepping = FALSE /\ ahead = 0 /\ theInterrupt = {}
  /\ timerPC = "idle" /\ timerKind = "none" /\ hostPC = "idle"
  /\ mSignal \in BOOLEAN /\ mInterrupted \in BOOLEAN
  /\ mRunning = FALSE /\ mPaused = FALSE
  /\ mPendingInterrupts = {} /\ raised = {} /\ mCPSR = Kinds
  /\ woken = FALSE
  /\ signalled = {} /\ overwritten = FALSE /\ broke = FALSE

Unmasked == mPendingInterrupts \ mCPSR

\* The history of the signals; once one is overwritten the others do not count.
Announces(kinds) == signalled' = IF overwritten THEN {} ELSE signalled \union kinds

WritesOver ==
  /\ overwritten' = (overwritten \/ signalled # {})
  /\ signalled' = {}

-----------------------------------------------------------------------------
\* The timer thread.

\* A device raises an interrupt; a register write of NewtonOS lowers its line
\* (WriteRegister below).
Raise(k) ==
  /\ raised' = raised \union {k}
  /\ UNCHANGED <<emuPC, stepping, ahead, theInterrupt, timerPC, timerKind, hostPC, flagVars,
                 mPendingInterrupts, mCPSR, woken, signalled, overwritten, broke>>

\* FIQInterrupt, IRQInterrupt: set, test the mask, signal by two writes.
Interrupt(k) ==
  /\ timerPC = "idle"
  /\ k \in raised
  /\ mPendingInterrupts' = mPendingInterrupts \union {k}
  /\ timerPC' = "test" /\ timerKind' = k
  /\ UNCHANGED <<emuPC, stepping, ahead, theInterrupt, hostPC, flagVars, raised, mCPSR, woken,
                 signalled, overwritten, broke>>

TestMask ==
  /\ timerPC = "test"
  /\ IF timerKind \in mCPSR THEN timerPC' = "idle" /\ timerKind' = "none"
     ELSE timerPC' = "signal" /\ UNCHANGED timerKind
  /\ UNCHANGED <<emuPC, stepping, ahead, theInterrupt, hostPC, flagVars,
                 mPendingInterrupts, raised, mCPSR, woken, signalled, overwritten, broke>>

SignalInterrupt ==
  /\ timerPC = "signal"
  /\ mSignal' = FALSE
  /\ Announces({timerKind})
  /\ timerPC' = "interrupted"
  /\ UNCHANGED <<emuPC, stepping, ahead, theInterrupt, timerKind, hostPC, mInterrupted,
                 mRunning, mPaused, mPendingInterrupts, raised, mCPSR, woken,
                 overwritten, broke>>

SetInterrupted ==
  /\ timerPC = "interrupted"
  /\ mInterrupted' = TRUE
  /\ timerPC' = "idle" /\ timerKind' = "none"
  /\ UNCHANGED <<emuPC, stepping, ahead, theInterrupt, hostPC, mSignal,
                 mRunning, mPaused, mPendingInterrupts, raised, mCPSR, woken, signalled,
                 overwritten, broke>>

\* ClearFIQInterrupt, ClearIRQInterrupt.
ClearInterrupt(k) ==
  /\ timerPC = "idle"
  /\ k \in mPendingInterrupts \ raised
  /\ mPendingInterrupts' = mPendingInterrupts \ {k}
  /\ UNCHANGED <<emuPC, stepping, ahead, theInterrupt, timerPC, timerKind, hostPC,
                 flagVars, raised, mCPSR, woken, signalled, overwritten, broke>>

-----------------------------------------------------------------------------
\* The host thread: Stop, write by write.

Stop ==
  /\ hostPC = "idle"
  /\ mSignal' = FALSE
  /\ hostPC' = "running"
  /\ UNCHANGED <<emuPC, stepping, ahead, theInterrupt, timerPC, timerKind, mInterrupted,
                 mRunning, mPaused, mPendingInterrupts, raised, mCPSR, woken, signalled,
                 overwritten, broke>>

StopRunning ==
  /\ hostPC = "running"
  /\ mRunning' = FALSE
  /\ hostPC' = "paused"
  /\ UNCHANGED <<emuPC, stepping, ahead, theInterrupt, timerPC, timerKind, mSignal,
                 mInterrupted, mPaused, mPendingInterrupts, raised, mCPSR, woken,
                 signalled, overwritten, broke>>

StopPaused ==
  /\ hostPC = "paused"
  /\ mPaused' = FALSE
  /\ hostPC' = "wake"
  /\ UNCHANGED <<emuPC, stepping, ahead, theInterrupt, timerPC, timerKind, mSignal,
                 mInterrupted, mRunning, mPendingInterrupts, raised, mCPSR, woken,
                 signalled, overwritten, broke>>

\* WakeEmulatorThread: a signal that only a thread in the wait receives.
WakeEmulatorThread ==
  /\ hostPC = "wake"
  /\ woken' = (emuPC = "waiting")
  /\ hostPC' = "idle"
  /\ UNCHANGED <<emuPC, stepping, ahead, theInterrupt, timerPC, timerKind, flagVars,
                 mPendingInterrupts, raised, mCPSR, signalled, overwritten, broke>>

-----------------------------------------------------------------------------
\* The emulator thread: TEmulator::Run.

Run ==
  /\ emuPC = "halted"
  /\ emuPC' = "check" /\ stepping' = FALSE
  /\ mRunning' = TRUE
  /\ broke' = FALSE
  /\ UNCHANGED <<theInterrupt, mSignal, mInterrupted, mPaused, mCPSR, woken,
                 signalled, overwritten, outside>>

\* Mutant: the loop has no condition.
GoesOn_Always == TRUE

GoesOn == mRunning

CheckRunning ==
  /\ emuPC = "check"
  /\ emuPC' = IF GoesOn THEN "paused" ELSE "halted"
  /\ UNCHANGED <<stepping, theInterrupt, flagVars, mCPSR, woken, signalled,
                 overwritten, broke, outside>>

CheckPaused ==
  /\ emuPC = "paused"
  /\ emuPC' = IF mPaused THEN "wait" ELSE "look"
  /\ UNCHANGED <<stepping, theInterrupt, flagVars, mCPSR, woken, signalled, overwritten,
                 broke, outside>>

\* It takes the mutex and waits.  Only from here on can it be woken.
WaitUntilInterrupt ==
  /\ emuPC = "wait"
  /\ emuPC' = "waiting"
  /\ woken' = FALSE
  /\ UNCHANGED <<stepping, theInterrupt, flagVars, mCPSR, signalled, overwritten,
                 broke, outside>>

\* WaitUntilInterrupt ends with an interrupt that is not masked by the masks
\* it was given: those that the processor does mask.
WaitReturns ==
  /\ emuPC = "waiting"
  /\ woken \/ mPendingInterrupts \intersect mCPSR # {}
  /\ mPaused' = FALSE
  /\ emuPC' = "waited"
  /\ woken' = FALSE
  /\ UNCHANGED <<stepping, theInterrupt, mSignal, mInterrupted, mRunning, mCPSR,
                 signalled, overwritten, broke, outside>>

AfterWait ==
  /\ emuPC = "waited"
  /\ emuPC' = IF mRunning THEN "look" ELSE "halted"
  /\ UNCHANGED <<stepping, theInterrupt, flagVars, mCPSR, woken, signalled,
                 overwritten, broke, outside>>

LookInterrupted ==
  /\ emuPC = "look"
  /\ emuPC' = IF mInterrupted THEN "execute" ELSE "arm"
  /\ UNCHANGED <<stepping, theInterrupt, flagVars, mCPSR, woken, signalled,
                 overwritten, broke, outside>>

ArmSignal ==
  /\ emuPC = "arm"
  /\ mSignal' = TRUE
  /\ WritesOver
  /\ emuPC' = "execute"
  /\ UNCHANGED <<stepping, theInterrupt, mInterrupted, mRunning, mPaused, mCPSR,
                 woken, broke, outside>>

-----------------------------------------------------------------------------
\* The emulator thread: TJITGeneric::Run and Step.  At "execute" mSignal is read
\* and a page entered, at "unit" an instruction of it executed.

EnterPage ==
  /\ emuPC = "execute" /\ mSignal
  /\ emuPC' = "unit"
  /\ ahead' \in 0 .. UnitsPerPage - 1
  /\ UNCHANGED <<stepping, theInterrupt, flagVars, mCPSR, woken, signalled, overwritten,
                 broke, others>>

\* Mutant: Step ends without a look at the interrupts.
AfterPage_Halts == IF stepping THEN "halted" ELSE "execute"

AfterPage == IF stepping THEN "stepTake" ELSE "execute"

\* The program counter was changed, or the page ends.
LeavesPage == emuPC' = AfterPage /\ ahead' = 0

\* The next instruction is called, or the page left.
Continues ==
  \/ ahead > 0 /\ ahead' = ahead - 1 /\ emuPC' = "unit"
  \/ LeavesPage

\* SetCPSR writes the mask, then looks at the pending interrupts.
SetCPSR(mask) ==
  /\ emuPC = "unit"
  /\ mCPSR' = mask
  /\ emuPC' = "cpsr"
  /\ UNCHANGED <<stepping, theInterrupt, flagVars, woken, signalled, overwritten,
                 broke, outside>>

\* Mutant: the new mask is not compared with the pending interrupts.
SignalsAfterCPSR_Never == FALSE

SignalsAfterCPSR == Unmasked # {}

TestPending ==
  /\ emuPC = "cpsr"
  /\ IF SignalsAfterCPSR
     THEN mSignal' = FALSE /\ mInterrupted' = TRUE
     ELSE UNCHANGED <<mSignal, mInterrupted>>
  /\ Announces(Unmasked)
  /\ Continues
  /\ UNCHANGED <<stepping, theInterrupt, mRunning, mPaused, mCPSR, woken,
                 overwritten, broke, others>>

\* SWI, undefined instructions and aborts mask the IRQ and look at nothing.
Exception ==
  /\ emuPC = "unit"
  /\ mCPSR' = mCPSR \union {"IRQ"}
  /\ LeavesPage
  /\ UNCHANGED <<stepping, theInterrupt, flagVars, woken, signalled, overwritten, broke,
                 others>>

\* A native primitive, whatever the program masks.
PauseSystem ==
  /\ emuPC = "unit"
  /\ mSignal' = FALSE /\ mPaused' = TRUE
  /\ LeavesPage
  /\ UNCHANGED <<stepping, theInterrupt, mInterrupted, mRunning, mCPSR, woken,
                 signalled, overwritten, broke, others>>

WriteRegister(k) ==
  /\ emuPC = "unit"
  /\ raised' = raised \ {k}
  /\ Continues
  /\ UNCHANGED <<stepping, theInterrupt, flagVars, mCPSR, woken, signalled,
                 overwritten, broke, timerPC, timerKind, hostPC, mPendingInterrupts>>

AnyOther ==
  /\ emuPC = "unit"
  /\ Continues
  /\ UNCHANGED <<stepping, theInterrupt, flagVars, mCPSR, woken, signalled, overwritten,
                 broke, others>>

\* A breakpoint instruction.
Breakpoint ==
  /\ emuPC = "unit"
  /\ mSignal' = FALSE /\ mRunning' = FALSE
  /\ broke' = TRUE
  /\ LeavesPage
  /\ UNCHANGED <<stepping, theInterrupt, mInterrupted, mPaused, mCPSR, woken,
                 signalled, overwritten, others>>

\* Called in the middle of an instruction, which goes on: a watchpoint at a load or
\* store, a device or a primitive; an unknown mode in SetCPSR.
BreakInMonitor ==
  /\ emuPC \in {"unit", "cpsr"}
  /\ mSignal' = FALSE /\ mRunning' = FALSE
  /\ broke' = TRUE
  /\ UNCHANGED <<emuPC, stepping, theInterrupt, mInterrupted, mPaused, mCPSR, woken,
                 signalled, overwritten, outside>>

\* mSignal is clear: no other page is entered.
SeeSignal ==
  /\ emuPC = "execute" /\ ~mSignal
  /\ emuPC' = "dispatch"
  /\ UNCHANGED <<stepping, theInterrupt, flagVars, mCPSR, woken, signalled,
                 overwritten, broke, outside>>

IsInterrupted ==
  /\ emuPC = "dispatch"
  /\ emuPC' = IF mInterrupted THEN "read" ELSE "check"
  /\ UNCHANGED <<stepping, theInterrupt, flagVars, mCPSR, woken, signalled,
                 overwritten, broke, outside>>

\* What is read of the pending interrupts.  A reset may be among them, and then the
\* others do not matter: the host asks for it with ResetInterrupt, which signals nothing.
MayRead == {mPendingInterrupts, {"Reset"}}

ReadPending ==
  /\ emuPC = "read"
  /\ theInterrupt' \in MayRead
  /\ signalled' = {} /\ overwritten' = FALSE
  /\ emuPC' = "ackRunning"
  /\ UNCHANGED <<stepping, flagVars, mCPSR, woken, broke, outside>>

\* Mutant: AckInterrupt lets the JIT run on whatever happened meanwhile.
StillRunning_Always == TRUE

StillRunning == mRunning

AckInterrupt ==
  /\ emuPC = "ackRunning"
  /\ emuPC' = IF StillRunning THEN "ackPaused" ELSE "ackInterrupted"
  /\ UNCHANGED <<stepping, theInterrupt, flagVars, mCPSR, woken, signalled,
                 overwritten, broke, outside>>

AckTestsPaused ==
  /\ emuPC = "ackPaused"
  /\ emuPC' = IF mPaused THEN "ackInterrupted" ELSE "ackSignal"
  /\ UNCHANGED <<stepping, theInterrupt, flagVars, mCPSR, woken, signalled,
                 overwritten, broke, outside>>

AckSetsSignal ==
  /\ emuPC = "ackSignal"
  /\ mSignal' = TRUE
  /\ WritesOver
  /\ emuPC' = "ackInterrupted"
  /\ UNCHANGED <<stepping, theInterrupt, mInterrupted, mRunning, mPaused, mCPSR,
                 woken, broke, outside>>

AckClearsInterrupted ==
  /\ emuPC = "ackInterrupted"
  /\ mInterrupted' = FALSE
  /\ WritesOver
  /\ emuPC' = "take"
  /\ UNCHANGED <<stepping, theInterrupt, mSignal, mRunning, mPaused, mCPSR,
                 woken, broke, outside>>

\* Reset and FIQ mask both, IRQ the IRQ.
MasksAfter(pending) ==
  IF "Reset" \in pending \/ "FIQ" \in pending \ mCPSR THEN Kinds
  ELSE IF "IRQ" \in pending \ mCPSR THEN mCPSR \union {"IRQ"}
  ELSE mCPSR

\* Of what was read one is taken.  A reset forgets all that is pending.
Takes(pending) ==
  /\ mCPSR' = MasksAfter(pending)
  /\ mPendingInterrupts' = IF "Reset" \in pending THEN {} ELSE mPendingInterrupts

TakeInterrupt ==
  /\ emuPC = "take"
  /\ Takes(theInterrupt)
  /\ theInterrupt' = {}
  /\ emuPC' = "execute"
  /\ UNCHANGED <<stepping, ahead, flagVars, woken, signalled, overwritten, broke,
                 timerPC, timerKind, hostPC, raised>>

\* One instruction, without a look at mSignal.
Step ==
  /\ emuPC = "halted"
  /\ emuPC' = "unit" /\ stepping' = TRUE
  /\ mRunning' = TRUE /\ mPaused' = FALSE
  /\ broke' = FALSE
  /\ UNCHANGED <<theInterrupt, mSignal, mInterrupted, mCPSR, woken, signalled,
                 overwritten, outside>>

Instruction ==
  \/ \E mask \in SUBSET Kinds : SetCPSR(mask)
  \/ \E k \in Kinds : WriteRegister(k)
  \/ Exception \/ PauseSystem \/ Breakpoint \/ BreakInMonitor \/ AnyOther

\* Step takes an interrupt without AckInterrupt.
StepTakes ==
  /\ emuPC = "stepTake"
  /\ \E pending \in MayRead : Takes(pending)
  /\ emuPC' = "halted" /\ stepping' = FALSE
  /\ UNCHANGED <<ahead, theInterrupt, flagVars, woken, signalled, overwritten, broke,
                 timerPC, timerKind, hostPC, raised>>

TimerStep == TestMask \/ SignalInterrupt \/ SetInterrupted
HostStep  == StopRunning \/ StopPaused \/ WakeEmulatorThread

\* The emulator thread between its instructions.
EmuStep ==
  \/ CheckRunning \/ CheckPaused \/ WaitUntilInterrupt \/ WaitReturns \/ AfterWait
  \/ LookInterrupted \/ ArmSignal \/ EnterPage \/ TestPending \/ SeeSignal
  \/ IsInterrupted \/ ReadPending \/ AckInterrupt \/ AckTestsPaused \/ AckSetsSignal
  \/ AckClearsInterrupted \/ TakeInterrupt \/ StepTakes

LoopNext ==
  \/ \E k \in Kinds : Raise(k) \/ Interrupt(k) \/ ClearInterrupt(k)
  \/ TimerStep
  \/ Stop \/ HostStep
  \/ Run \/ Step \/ Instruction \/ EmuStep

LoopSpec == LoopInit /\ [][LoopNext]_loopVars

\* The host schedules its threads; nobody has to call or to interrupt.
FairLoop ==
  /\ LoopSpec
  /\ WF_loopVars(TimerStep) /\ WF_loopVars(HostStep)
  /\ WF_loopVars(EmuStep \/ Instruction)

-----------------------------------------------------------------------------
\* Properties.

LoopTypeOK ==
  /\ emuPC \in EmuPCs /\ stepping \in BOOLEAN
  /\ stepping => emuPC \in {"unit", "cpsr", "stepTake"}
  /\ ahead \in 0 .. UnitsPerPage - 1
  /\ ahead > 0 => emuPC \in {"unit", "cpsr"} /\ ~stepping
  /\ theInterrupt \in SUBSET (Kinds \union {"Reset"})
  /\ timerPC \in {"idle", "test", "signal", "interrupted"} 
  /\ timerKind \in (IF timerPC = "idle" THEN {"none"} ELSE Kinds)
  /\ hostPC \in {"idle", "running", "paused", "wake"}
  /\ mSignal \in BOOLEAN /\ mInterrupted \in BOOLEAN
  /\ mRunning \in BOOLEAN /\ mPaused \in BOOLEAN
  /\ mPendingInterrupts \in SUBSET Kinds /\ raised \in SUBSET Kinds /\ mCPSR \in SUBSET Kinds
  /\ woken \in BOOLEAN
  /\ signalled \in SUBSET Kinds /\ overwritten \in BOOLEAN /\ broke \in BOOLEAN

\* SignalInterrupt against Run and AckInterrupt: the JIT never runs on, from page to
\* page, beside an interrupt that is pending and not masked, but where the emulator
\* thread has written mSignal or mInterrupted over a signal it had not looked at.
InterruptIsSeen ==
  emuPC \in {"execute", "unit"} /\ mSignal /\ timerPC = "idle" /\ Unmasked # {}
    => overwritten

\* Breakpoint and BreakInMonitor against AckInterrupt, SetCPSR and PauseSystem: once
\* an instruction has asked for the monitor its page may be executed to the end, but
\* no other is entered before the loop ends, whatever interrupts arrive and whatever
\* the rest of the page does.
NoPageAfterBreak == broke => ~(emuPC = "execute" /\ mSignal)

\* An interrupt the loop listens for.  While it executes that is one the processor
\* does not mask; in a pause it is one the processor masks, for Run hands the masks to
\* the wait inverted.
Attention ==
  IF emuPC = "waiting" THEN mPendingInterrupts \intersect mCPSR # {}
  ELSE timerPC = "signal"

\* Stop writes its flags between any two steps of Run, which may set mSignal again
\* or be about to wait: even so the loop ends, at the latest with an interrupt it
\* listens for.
StopEnds ==
  []<>Attention => [](~mRunning => <>(emuPC = "halted" \/ mRunning))
=============================================================================
