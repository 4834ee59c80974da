-------------------------- MODULE InterruptManager --------------------------
(***************************************************************************)
(* TInterruptManager: the thread that owns the emulated timers and drives   *)
(* the interrupt lines of the processor, with its two clients:              *)
(*                                                                          *)
(*   - the emulator thread (TEmulator::Run and Step), which resumes and     *)
(*     suspends the timer, writes the interrupt registers on behalf of      *)
(*     NewtonOS and sleeps in WaitUntilInterrupt;                           *)
(*   - the host threads, which raise interrupts and GPIO pins for the       *)
(*     emulated devices and stop the emulator.                              *)
(*                                                                          *)
(* mMutex protects the state.  Every critical section but the timer         *)
(* thread's is one action, enabled when the mutex is free.  The timer       *)
(* thread holds the mutex through TimerEvaluates and TimerSleeps, because   *)
(* the accesses made without the mutex (SetFIQMask, Stop) fall in between.  *)
(*                                                                          *)
(* A condition variable is a thread that sleeps on it and a flag that says  *)
(* it was signalled: it then waits for the mutex.  A signal sent to a       *)
(* thread that does not sleep is lost.                                      *)
(***************************************************************************)
EXTENDS TimerMatch, FiniteSets

CONSTANTS
  GPIOInt,      \* kGPIOIntMask
  DeviceInts,   \* the interrupts that devices raise directly
  Devices,      \* the host threads that raise interrupts
  CtrlValues,   \* the values NewtonOS writes to the interrupt control register
  FIQValues,    \* the values it writes to the FIQ mask
  MatchValues,  \* the values it writes to the match registers
  MaxStops      \* bound: calls of TEmulator::Stop by the host

Ints == Timers \union {GPIOInt} \union DeviceInts

ASSUME IntsAssumption ==
  /\ GPIOInt \notin Timers
  /\ CtrlValues \subseteq SUBSET Ints
  /\ FIQValues \subseteq SUBSET Ints
  /\ MatchValues \subseteq Ticks
  /\ MaxStops \in Nat

VARIABLES
  \* The timer thread.
  timerPC, timerSignalled,
  lastTicks,       \* ticks: the time of the last evaluation
  nextMatch,       \* the deadline of its sleep, or NoMatch: it sleeps forever
  fiqSeen,         \* gotAnInterrupt, after the FIQ half of the evaluation
  \* The emulator thread.
  emuPC, emuSignalled, emuRunning,
  \* The host threads: RaiseGPIO (one place per device) and Stop.
  gpioPC, stopPC, stops,
  \* The fields of TInterruptManager.
  mRunning, mExiting, mWaiting, mMaskIRQ, mMaskFIQ,
  mIntRaised, mIntCtrlReg, mFIQMask, mGPIORaised, mGPIOCtrlReg,
  mTimerDelta, mTimer, mMatchRegisters,
  \* The lines of the processor (mPendingInterrupts) and the host clock.
  fiqLine, irqLine, now,
  \* History: the FIQ mask was written since the last evaluation began.
  maskStale

timerVars == <<timerPC, timerSignalled, lastTicks, nextMatch, fiqSeen>>
emuVars   == <<emuPC, emuSignalled, emuRunning>>
hostVars  == <<gpioPC, stopPC, stops>>
waitVars  == <<mWaiting, mMaskIRQ, mMaskFIQ>>
regVars   == <<mIntRaised, mIntCtrlReg, mFIQMask, maskStale>>
gpioVars  == <<mGPIORaised, mGPIOCtrlReg>>
timeVars  == <<mTimerDelta, mTimer>>
lineVars  == <<fiqLine, irqLine>>
vars == <<timerVars, emuVars, hostVars, mRunning, mExiting, waitVars, regVars,
          gpioVars, timeVars, mMatchRegisters, lineVars, now>>

TimerPCs  == {"starting", "sleeping", "suspended", "evaluating", "exited"}
EmuSleeps == {"init", "resuming", "suspending", "waiting"}
EmuPCs    == EmuSleeps \union
             {"halted", "executing", "raisingGPIO", "pausing", "stopping",
              "destroying", "destroyed"}

TimerOK ==
  /\ timerPC \in TimerPCs
  /\ timerSignalled \in BOOLEAN
  /\ lastTicks \in Ticks
  /\ nextMatch \in Ticks \union {NoMatch}
  /\ fiqSeen \in BOOLEAN

EmuOK ==
  /\ emuPC \in EmuPCs
  /\ emuSignalled \in BOOLEAN
  /\ emuRunning \in BOOLEAN

HostOK ==
  /\ gpioPC \in [Devices -> {"idle", "raise", "wake"}]
  /\ stopPC \in {"idle", "wake"}
  /\ stops \in 0 .. MaxStops

WaitOK == mWaiting \in BOOLEAN /\ mMaskIRQ \in BOOLEAN /\ mMaskFIQ \in BOOLEAN

RegOK ==
  /\ mIntRaised \subseteq Ints
  /\ mIntCtrlReg \subseteq Ints
  /\ mFIQMask \subseteq Ints
  /\ maskStale \in BOOLEAN

GPIOOK == mGPIORaised \in BOOLEAN /\ mGPIOCtrlReg \in BOOLEAN

TimeOK == mTimerDelta \in Ticks /\ mTimer \in Ticks

LineOK == fiqLine \in BOOLEAN /\ irqLine \in BOOLEAN

TypeOK ==
  /\ TimerOK /\ EmuOK /\ HostOK
  /\ mRunning \in BOOLEAN /\ mExiting \in BOOLEAN
  /\ WaitOK /\ RegOK /\ GPIOOK /\ TimeOK /\ LineOK
  /\ mMatchRegisters \in [Timers -> Ticks]
  /\ now \in Ticks

Init ==
  /\ timerPC = "starting" /\ timerSignalled = FALSE
  /\ now \in Ticks
  /\ lastTicks = 0 /\ nextMatch = NoMatch /\ fiqSeen = FALSE
  \* TInterruptManager::Init created the thread and waits for its first signal.
  /\ emuPC = "init" /\ emuSignalled = FALSE /\ emuRunning = FALSE
  /\ gpioPC = [d \in Devices |-> "idle"] /\ stopPC = "idle" /\ stops = 0
  /\ mRunning = FALSE /\ mExiting = FALSE
  /\ mWaiting = FALSE /\ mMaskIRQ = FALSE /\ mMaskFIQ = FALSE
  /\ mIntRaised = {} /\ mIntCtrlReg = {} /\ mFIQMask = {} /\ maskStale = FALSE
  /\ mGPIORaised = FALSE /\ mGPIOCtrlReg = FALSE
  /\ mTimerDelta = 0 /\ mTimer = 0
  /\ mMatchRegisters = [k \in Timers |-> 0]
  /\ fiqLine = FALSE /\ irqLine = FALSE

-----------------------------------------------------------------------------
(* The mutex and the two condition variables.                              *)

MutexFree == timerPC # "evaluating"

\* Mutant: the signal only reaches the wait of the outer loop.
SignalTimer_OuterOnly ==
  timerSignalled' = (timerSignalled \/ timerPC = "suspended")

SignalTimer ==
  timerSignalled' = (timerSignalled \/ timerPC \in {"sleeping", "suspended"})

\* Mutant: the signal is meant for WaitUntilInterrupt only.
SignalEmulator_WaitOnly ==
  emuSignalled' = (emuSignalled \/ emuPC = "waiting")

SignalEmulator ==
  emuSignalled' = (emuSignalled \/ emuPC \in EmuSleeps)

-----------------------------------------------------------------------------
(* The timer thread: TInterruptManager::Run.                               *)

\* Mutant: the timer value is not saved when the timer thread stops.
SaveTimer_Missing(ticks) == mTimer' = mTimer

SaveTimer(ticks) == mTimer' = Minus(ticks, mTimerDelta)

HostMatches(delta) == [k \in Timers |-> Plus(mMatchRegisters[k], delta)]

FIQPending(raised) == raised \intersect mIntCtrlReg \intersect mFIQMask # {}
IRQPending(raised) == (raised \intersect mIntCtrlReg) \ mFIQMask # {}

\* The top of the inner loop, up to the FIQ line.
Evaluate(old, new, delta) ==
  LET host   == HostMatches(delta)
      raised == mIntRaised \union FiredTimers(mIntRaised, host, old, new)
  IN  /\ mIntRaised' = raised
      /\ nextMatch' = FindNext(raised, host, new)
      /\ lastTicks' = new
      /\ fiqLine' = FIQPending(raised)
      /\ fiqSeen' = (FIQPending(raised) /\ (~mWaiting \/ ~mMaskFIQ))
      /\ maskStale' = FALSE
      /\ timerPC' = "evaluating"
      /\ timerSignalled' = FALSE

\* The rest of the inner loop: the IRQ line, the sleeping emulator, the wait.
TimerSleeps ==
  /\ timerPC = "evaluating"
  /\ irqLine' = IRQPending(mIntRaised)
  /\ LET gotAnInterrupt ==
           fiqSeen \/ (IRQPending(mIntRaised) /\ (~mWaiting \/ ~mMaskIRQ))
     IN  IF gotAnInterrupt /\ mWaiting THEN SignalEmulator
                                       ELSE UNCHANGED emuSignalled
  /\ SaveTimer(lastTicks)
  /\ timerPC' = "sleeping"
  /\ UNCHANGED <<timerSignalled, lastTicks, nextMatch, fiqSeen, emuPC, emuRunning,
                 hostVars, mRunning, mExiting, waitVars, regVars, gpioVars,
                 mTimerDelta, mMatchRegisters, fiqLine, now>>

\* A signal ends the sleep.  So may the time-out, at any moment: the amount is
\* converted to nanoseconds rounded down, and the system may be early.
SleepEnds ==
  /\ timerPC = "sleeping"
  /\ timerSignalled \/ nextMatch # NoMatch

TimerContinues ==
  /\ SleepEnds
  /\ ~mExiting
  /\ mRunning
  /\ Evaluate(lastTicks, now, mTimerDelta)
  /\ UNCHANGED <<emuVars, hostVars, mRunning, mExiting, waitVars, mIntCtrlReg,
                 mFIQMask, gpioVars, timeVars, mMatchRegisters, irqLine, now>>

\* The inner loop ends because SuspendTimer cleared mRunning.
TimerSuspends ==
  /\ SleepEnds
  /\ ~mExiting
  /\ ~mRunning
  /\ SaveTimer(now)
  /\ SignalEmulator
  /\ timerPC' = "suspended"
  /\ timerSignalled' = FALSE
  /\ UNCHANGED <<lastTicks, nextMatch, fiqSeen, emuPC, emuRunning, hostVars, mRunning,
                 mExiting, waitVars, regVars, gpioVars, mTimerDelta,
                 mMatchRegisters, lineVars, now>>

OuterWaitEnds ==
  \/ timerPC = "starting"
  \/ timerPC = "suspended" /\ timerSignalled /\ ~mExiting

\* The top of the outer loop: the timer goes on from the value it had.
TimerRestarts ==
  /\ OuterWaitEnds
  /\ mRunning
  /\ mTimerDelta' = Minus(now, mTimer)
  /\ SignalEmulator
  /\ Evaluate(now, now, mTimerDelta')
  /\ UNCHANGED <<emuPC, emuRunning, hostVars, mRunning, mExiting, waitVars,
                 mIntCtrlReg, mFIQMask, gpioVars, mTimer, mMatchRegisters,
                 irqLine, now>>

TimerStaysSuspended ==
  /\ OuterWaitEnds
  /\ ~mRunning
  /\ mTimerDelta' = Minus(now, mTimer)
  /\ mTimer' = Minus(now, mTimerDelta')
  /\ SignalEmulator
  /\ timerPC' = "suspended"
  /\ timerSignalled' = FALSE
  /\ UNCHANGED <<lastTicks, nextMatch, fiqSeen, emuPC, emuRunning, hostVars, mRunning,
                 mExiting, waitVars, regVars, gpioVars, mMatchRegisters,
                 lineVars, now>>

TimerExits ==
  /\ SleepEnds \/ (timerPC = "suspended" /\ timerSignalled)
  /\ mExiting
  /\ mExiting' = FALSE
  /\ timerPC' = "exited"
  /\ UNCHANGED <<timerSignalled, lastTicks, nextMatch, fiqSeen, emuVars, hostVars,
                 mRunning, waitVars, regVars, gpioVars, timeVars, mMatchRegisters,
                 lineVars, now>>

TimerThread ==
  \/ TimerSleeps \/ TimerContinues \/ TimerSuspends
  \/ TimerRestarts \/ TimerStaysSuspended \/ TimerExits

-----------------------------------------------------------------------------
(* The emulator thread.                                                    *)

\* What no action of the emulator thread changes.
EmuKeeps == UNCHANGED <<timerPC, lastTicks, nextMatch, fiqSeen, hostVars,
                        timeVars, lineVars, now>>

\* Mutant: the operation does not wait for the timer thread to answer.
EmuWakes_NoWait(pc) ==
  /\ emuPC = pc
  /\ MutexFree
  /\ emuSignalled' = FALSE
  /\ UNCHANGED timerSignalled

\* The wait of emuPC = pc returns, with the mutex.
EmuWakes(pc) ==
  /\ emuPC = pc
  /\ emuSignalled
  /\ MutexFree
  /\ emuSignalled' = FALSE
  /\ UNCHANGED timerSignalled

InitReturns ==
  /\ EmuWakes("init")
  /\ emuPC' = "halted"
  /\ EmuKeeps
  /\ UNCHANGED <<emuRunning, mRunning, mExiting, waitVars, regVars, gpioVars,
                 mMatchRegisters>>

\* TEmulator::Run and Step begin with ResumeTimer.  Only this thread writes
\* mRunning, so its test before the mutex is taken is part of the action.
ResumeTimer ==
  /\ emuPC = "halted"
  /\ ~mRunning
  /\ MutexFree
  /\ emuRunning' = TRUE
  /\ mRunning' = TRUE
  /\ SignalTimer
  /\ emuPC' = "resuming"
  /\ EmuKeeps
  /\ UNCHANGED <<emuSignalled, mExiting, waitVars, regVars, gpioVars, mMatchRegisters>>

ResumeReturns ==
  /\ EmuWakes("resuming")
  /\ emuPC' = "executing"
  /\ EmuKeeps
  /\ UNCHANGED <<emuRunning, mRunning, mExiting, waitVars, regVars, gpioVars,
                 mMatchRegisters>>

\* The loop of TEmulator::Run found mRunning false, or broke out of the wait.
SuspendTimer ==
  /\ emuPC = "stopping" \/ (emuPC = "executing" /\ ~emuRunning)
  /\ mRunning
  /\ MutexFree
  /\ mRunning' = FALSE
  /\ SignalTimer
  /\ emuPC' = "suspending"
  /\ EmuKeeps
  /\ UNCHANGED <<emuSignalled, emuRunning, mExiting, waitVars, regVars, gpioVars,
                 mMatchRegisters>>

SuspendReturns ==
  /\ EmuWakes("suspending")
  /\ emuPC' = "halted"
  /\ EmuKeeps
  /\ UNCHANGED <<emuRunning, mRunning, mExiting, waitVars, regVars, gpioVars,
                 mMatchRegisters>>

\* NewtonOS called PauseSystem, and Run found mPaused set.
PauseSystem ==
  /\ emuPC = "executing"
  /\ emuRunning
  /\ emuPC' = "pausing"
  /\ EmuKeeps
  /\ UNCHANGED <<timerSignalled, emuSignalled, emuRunning, mRunning, mExiting,
                 waitVars, regVars, gpioVars, mMatchRegisters>>

\* Mutant: the wait is not announced to the threads that could end it.
NoteWait_NoFlag(iBit, fBit) ==
  /\ mMaskIRQ' = ~iBit
  /\ mMaskFIQ' = ~fBit
  /\ UNCHANGED mWaiting

\* TEmulator::Run passes the negation of the I and F bits of the CPSR.
NoteWait(iBit, fBit) ==
  /\ mWaiting' = TRUE
  /\ mMaskIRQ' = ~iBit
  /\ mMaskFIQ' = ~fBit

WaitUntilInterrupt(iBit, fBit) ==
  /\ emuPC = "pausing"
  /\ MutexFree
  /\ NoteWait(iBit, fBit)
  /\ SignalTimer
  /\ emuPC' = "waiting"
  /\ EmuKeeps
  /\ UNCHANGED <<emuSignalled, emuRunning, mRunning, mExiting, regVars, gpioVars,
                 mMatchRegisters>>

WaitReturns ==
  /\ EmuWakes("waiting")
  /\ mWaiting' = FALSE
  /\ emuPC' = IF emuRunning THEN "executing" ELSE "stopping"
  /\ EmuKeeps
  /\ UNCHANGED <<emuRunning, mRunning, mExiting, mMaskIRQ, mMaskFIQ, regVars,
                 gpioVars, mMatchRegisters>>

\* BreakInMonitor and Breakpoint: the emulated program stops the emulator.
BreakInMonitor ==
  /\ emuPC = "executing"
  /\ emuRunning
  /\ emuRunning' = FALSE
  /\ EmuKeeps
  /\ UNCHANGED <<timerSignalled, emuPC, emuSignalled, mRunning, mExiting, waitVars,
                 regVars, gpioVars, mMatchRegisters>>

-----------------------------------------------------------------------------
(* The registers, written by TMemory for the instruction being executed.   *)

RegisterWrite ==
  /\ emuPC = "executing"
  /\ EmuKeeps
  /\ UNCHANGED <<emuSignalled, emuRunning, mRunning, mExiting, waitVars>>

SetTimerMatchRegister(k, value) ==
  /\ RegisterWrite
  /\ MutexFree
  /\ mMatchRegisters' = [mMatchRegisters EXCEPT ![k] = value]
  /\ IF k \in mIntCtrlReg THEN SignalTimer ELSE UNCHANGED timerSignalled
  /\ UNCHANGED <<emuPC, regVars, gpioVars>>

SetIntCtrlReg(value) ==
  /\ RegisterWrite
  /\ MutexFree
  /\ value # mIntCtrlReg
  /\ mIntCtrlReg' = value
  /\ SignalTimer
  /\ UNCHANGED <<emuPC, mIntRaised, mFIQMask, maskStale, gpioVars, mMatchRegisters>>

ClearInterrupts(ints) ==
  /\ RegisterWrite
  /\ MutexFree
  /\ mIntRaised' = mIntRaised \ ints
  /\ SignalTimer
  /\ UNCHANGED <<emuPC, mIntCtrlReg, mFIQMask, maskStale, gpioVars, mMatchRegisters>>

\* Inline, without the mutex and without a signal.
SetFIQMask(value) ==
  /\ RegisterWrite
  /\ mFIQMask' = value
  /\ maskStale' = (maskStale \/ value # mFIQMask)
  /\ UNCHANGED <<emuPC, timerSignalled, mIntRaised, mIntCtrlReg, gpioVars,
                 mMatchRegisters>>

\* SetRealTimeClock, SetAlarm and SetIntEDReg1 to 3: their registers are read
\* by nothing else, but writing them wakes the timer thread.
WriteOtherRegister ==
  /\ RegisterWrite
  /\ MutexFree
  /\ SignalTimer
  /\ UNCHANGED <<emuPC, regVars, gpioVars, mMatchRegisters>>

\* The register and the test are outside the mutex; RaiseInterrupt takes it.
SetGPIOCtrlReg(value) ==
  /\ RegisterWrite
  /\ value # mGPIOCtrlReg
  /\ mGPIOCtrlReg' = value
  /\ emuPC' = IF value /\ mGPIORaised THEN "raisingGPIO" ELSE emuPC
  /\ UNCHANGED <<timerSignalled, mGPIORaised, regVars, mMatchRegisters>>

CtrlRaisesGPIO ==
  /\ emuPC = "raisingGPIO"
  /\ MutexFree
  /\ mIntRaised' = mIntRaised \union {GPIOInt}
  /\ SignalTimer
  /\ emuPC' = "executing"
  /\ EmuKeeps
  /\ UNCHANGED <<emuSignalled, emuRunning, mRunning, mExiting, waitVars, gpioVars,
                 mIntCtrlReg, mFIQMask, maskStale, mMatchRegisters>>

ClearGPIO ==
  /\ RegisterWrite
  /\ mGPIORaised' = FALSE
  /\ UNCHANGED <<emuPC, timerSignalled, mGPIOCtrlReg, regVars, mMatchRegisters>>

\* The destructor, once the emulator has halted and its clients are gone: it
\* spins until the timer thread has reset mExiting.
Destroy ==
  /\ emuPC = "halted"
  /\ stopPC = "idle"
  /\ \A d \in Devices : gpioPC[d] = "idle"
  /\ MutexFree
  /\ mExiting' = TRUE
  /\ SignalTimer
  /\ emuPC' = "destroying"
  /\ EmuKeeps
  /\ UNCHANGED <<emuSignalled, emuRunning, mRunning, waitVars, regVars, gpioVars,
                 mMatchRegisters>>

DestroyReturns ==
  /\ emuPC = "destroying"
  /\ ~mExiting
  /\ emuPC' = "destroyed"
  /\ EmuKeeps
  /\ UNCHANGED <<timerSignalled, emuSignalled, emuRunning, mRunning, mExiting,
                 waitVars, regVars, gpioVars, mMatchRegisters>>

EmuReturns ==
  \/ InitReturns \/ ResumeReturns \/ SuspendReturns \/ WaitReturns \/ DestroyReturns

EmulatorThread ==
  \/ EmuReturns
  \/ ResumeTimer \/ SuspendTimer
  \/ PauseSystem \/ BreakInMonitor
  \/ \E iBit, fBit \in BOOLEAN : WaitUntilInterrupt(iBit, fBit)
  \/ \E k \in Timers, value \in MatchValues : SetTimerMatchRegister(k, value)
  \/ \E value \in CtrlValues : SetIntCtrlReg(value)
  \/ \E i \in Ints : ClearInterrupts({i})
  \/ \E value \in FIQValues : SetFIQMask(value)
  \/ WriteOtherRegister
  \/ \E value \in BOOLEAN : SetGPIOCtrlReg(value)
  \/ CtrlRaisesGPIO \/ ClearGPIO
  \/ Destroy

-----------------------------------------------------------------------------
(* The host threads.                                                       *)

Constructed == emuPC \notin {"init", "destroying", "destroyed"}

HostKeeps == UNCHANGED <<timerPC, lastTicks, nextMatch, fiqSeen, emuPC, mRunning,
                         mExiting, waitVars, timeVars, mMatchRegisters, lineVars, now>>

RaiseInterrupt(ints) ==
  /\ MutexFree
  /\ mIntRaised' = mIntRaised \union ints
  /\ SignalTimer
  /\ UNCHANGED <<mIntCtrlReg, mFIQMask, maskStale>>

DeviceRaises(d, i) ==
  /\ Constructed
  /\ gpioPC[d] = "idle"
  /\ RaiseInterrupt({i})
  /\ HostKeeps
  /\ UNCHANGED <<hostVars, emuSignalled, emuRunning, gpioVars>>

RaiseGPIO(d) ==
  /\ Constructed
  /\ gpioPC[d] = "idle"
  /\ mGPIORaised' = TRUE
  /\ gpioPC' = [gpioPC EXCEPT ![d] = IF mGPIOCtrlReg THEN "raise" ELSE "idle"]
  /\ HostKeeps
  /\ UNCHANGED <<stopPC, stops, timerSignalled, emuSignalled, emuRunning, regVars,
                 mGPIOCtrlReg>>

GPIORaisesInterrupt(d) ==
  /\ gpioPC[d] = "raise"
  /\ RaiseInterrupt({GPIOInt})
  /\ gpioPC' = [gpioPC EXCEPT ![d] = "wake"]
  /\ HostKeeps
  /\ UNCHANGED <<stopPC, stops, emuSignalled, emuRunning, gpioVars>>

GPIOWakesEmulator(d) ==
  /\ gpioPC[d] = "wake"
  /\ MutexFree
  /\ IF mWaiting THEN SignalEmulator ELSE UNCHANGED emuSignalled
  /\ gpioPC' = [gpioPC EXCEPT ![d] = "idle"]
  /\ HostKeeps
  /\ UNCHANGED <<stopPC, stops, timerSignalled, emuRunning, regVars, gpioVars>>

\* TEmulator::Stop writes the flags of the emulator, then signals it, all
\* without the mutex.  The monitor calls it only while the emulator runs.
Stop ==
  /\ Constructed
  /\ emuPC # "halted"
  /\ stopPC = "idle"
  /\ stops < MaxStops
  /\ stops' = stops + 1
  /\ emuRunning' = FALSE
  /\ stopPC' = "wake"
  /\ HostKeeps
  /\ UNCHANGED <<gpioPC, timerSignalled, emuSignalled, regVars, gpioVars>>

WakeEmulatorThread ==
  /\ stopPC = "wake"
  /\ SignalEmulator
  /\ stopPC' = "idle"
  /\ HostKeeps
  /\ UNCHANGED <<gpioPC, stops, timerSignalled, emuRunning, regVars, gpioVars>>

HostThreads ==
  \/ \E d \in Devices, i \in DeviceInts : DeviceRaises(d, i)
  \/ \E d \in Devices :
       RaiseGPIO(d) \/ GPIORaisesInterrupt(d) \/ GPIOWakesEmulator(d)
  \/ Stop \/ WakeEmulatorThread

-----------------------------------------------------------------------------
\* The host clock.  The timer thread runs at least once in a full turn of the
\* 32-bit counter (19 minutes) when it sleeps until a match.
Tick ==
  /\ timerPC \in {"sleeping", "evaluating"} /\ nextMatch # NoMatch
        => Elapsed(lastTicks, now) < Modulus - 1
  /\ now' = Plus(now, 1)
  /\ UNCHANGED <<timerVars, emuVars, hostVars, mRunning, mExiting, waitVars, regVars,
                 gpioVars, timeVars, mMatchRegisters, lineVars>>

Next == TimerThread \/ EmulatorThread \/ HostThreads \/ Tick

Spec == Init /\ [][Next]_vars

\* Each thread goes on, and a thread that waits for the mutex gets it in the
\* end: the timer thread releases it for the length of every sleep.
Fairness ==
  /\ WF_vars(TimerThread)
  /\ SF_vars(EmuReturns)
  /\ SF_vars(SuspendTimer)
  /\ SF_vars(CtrlRaisesGPIO)
  /\ SF_vars(\E iBit, fBit \in BOOLEAN : WaitUntilInterrupt(iBit, fBit))
  /\ \A d \in Devices : SF_vars(GPIORaisesInterrupt(d)) /\ SF_vars(GPIOWakesEmulator(d))
  /\ WF_vars(WakeEmulatorThread)

FairSpec == Spec /\ Fairness

-----------------------------------------------------------------------------
(* Properties.                                                             *)

Asleep == timerPC = "sleeping" /\ ~timerSignalled

\* No signal is lost: while the timer thread sleeps with nothing to do, the
\* lines of the processor are those the registers ask for.  Every writer of a
\* register signals it, except SetFIQMask (history variable maskStale).
LinesAgree ==
  Asleep /\ ~maskStale =>
    /\ fiqLine = FIQPending(mIntRaised)
    /\ irqLine = IRQPending(mIntRaised)

\* The two threads never sleep on an interrupt that WaitUntilInterrupt was told
\* not to mask, whatever the order of the wait and of the interrupt.
NoSleepOnInterrupt ==
  Asleep /\ emuPC = "waiting" /\ ~emuSignalled =>
    /\ fiqLine => mMaskFIQ
    /\ irqLine => mMaskIRQ

\* What the timer thread knows in the middle of an evaluation, while it holds
\* the mutex: the FIQ line is up to date, and fiqSeen says whether the sleeping
\* emulator has to be told about it.
EvaluationInv ==
  timerPC = "evaluating" =>
    /\ fiqSeen = (fiqLine /\ (~mWaiting \/ ~mMaskFIQ))
    /\ ~maskStale => fiqLine = FIQPending(mIntRaised)

WaitInv == mWaiting = (emuPC = "waiting")

\* With TypeOK, the inductive invariant behind LinesAgree and NoSleepOnInterrupt.
SignalInv == EvaluationInv /\ WaitInv /\ LinesAgree /\ NoSleepOnInterrupt

\* The timer thread never sleeps past the match of an enabled timer, although
\* the registers change while it sleeps and the counter wraps.
NoOversleep ==
  Asleep =>
    \A k \in mIntCtrlReg \ mIntRaised :
      k \in Timers =>
        /\ nextMatch # NoMatch
        /\ Elapsed(lastTicks, nextMatch)
             <= Elapsed(lastTicks, HostMatches(mTimerDelta)[k])

\* The emulated time: mTimer while the timer thread is suspended, else the
\* host time shifted by mTimerDelta.
TimerValue ==
  IF timerPC \in {"starting", "suspended", "exited"} THEN mTimer
                                                    ELSE Minus(now, mTimerDelta)

\* Suspending and resuming never move the emulated time: it only follows the
\* host clock, and not while suspended.
TimeIsContinuous ==
  [][timerPC' # "exited" => TimerValue' \in {TimerValue, Plus(TimerValue, 1)}]_vars

\* What GetTimer reads in an emulated instruction advances with the clock only.
GetTimerIsSteady ==
  [][ emuPC = "executing" /\ emuPC' = "executing" =>
        Minus(now', mTimerDelta')
          \in {Minus(now, mTimerDelta), Plus(Minus(now, mTimerDelta), 1)} ]_vars

\* "Wait for the thread to have been resumed", "suspended", and the same for Init:
\* ResumeTimer returns to the emulator when the timer thread is in its inner loop,
\* SuspendTimer to the monitor when it has left it.
HandshakesWaitForThread ==
  /\ emuPC = "executing" => timerPC \in {"sleeping", "evaluating"}
  /\ emuPC = "halted"    => timerPC = "suspended"

\* Every handshake with the timer thread ends: the constructor, ResumeTimer,
\* SuspendTimer and the destructor return.
HandshakesEnd == \A pc \in {"init", "resuming", "suspending", "destroying"} :
                   emuPC = pc ~> emuPC # pc

\* An interrupt that is raised, enabled and not masked by the arguments of
\* WaitUntilInterrupt ends the wait.
InterruptEndsWait ==
  /\ (emuPC = "waiting" /\ IRQPending(mIntRaised) /\ ~mMaskIRQ) ~> emuPC # "waiting"
  /\ (emuPC = "waiting" /\ FIQPending(mIntRaised) /\ ~mMaskFIQ) ~> emuPC # "waiting"
=============================================================================
