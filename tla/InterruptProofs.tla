--------------------------- MODULE InterruptProofs --------------------------
(***************************************************************************)
(* The safety properties of InterruptManager, for every number of devices   *)
(* and timers, and every width of the counter:                              *)
(*                                                                          *)
(*   - LinesAgree and NoSleepOnInterrupt, from SignalInv, which adds what    *)
(*     the timer thread knows in the middle of an evaluation, while it holds *)
(*     the mutex: the FIQ line is up to date, and fiqSeen says whether the   *)
(*     sleeping emulator must be told of it;                                *)
(*   - FiresExactly and NextIsNearest of every call of FireTimersAndFindNext, *)
(*     from the arithmetic of the counter;                                   *)
(*   - TimeIsContinuous, from the types and the arithmetic of the counter;  *)
(*   - NoOversleep, from SleepInv: the deadline is right from the evaluation *)
(*     to the next signal;                                                  *)
(*   - HandshakesWaitForThread and GetTimerIsSteady, when the host does not *)
(*     stop the emulator, from HandshakeInv.                                *)
(***************************************************************************)
EXTENDS InterruptManager, TimerCalls, TLAPS

\* The sums and differences of tick values are tick values.
LEMMA PlusMinusType ==
  ASSUME NEW a \in Int, NEW b \in Int
  PROVE  Plus(a, b) \in Ticks /\ Minus(a, b) \in Ticks
BY ModulusAssumption DEF Plus, Minus, Ticks

-----------------------------------------------------------------------------
\* FireTimersAndFindNext: what it raises and what it returns.

\* The three cases of the code are one test on the elapsed ticks.
LEMMA MatchFiredIsReached ==
  ASSUME NEW o \in Ticks, NEW n \in Ticks, NEW v \in Ticks
  PROVE  MatchFired(o, n, v) <=> Reached(o, n, v)
BY ModulusAssumption DEF MatchFired, Reached, Elapsed, Ticks

\* Of two matches, GetNextTimer returns the one that now reaches first.
LEMMA GetNextTimerIsNearest ==
  ASSUME NEW t \in Ticks, NEW a \in Ticks, NEW b \in Ticks
  PROVE  /\ GetNextTimer(t, a, b) \in {a, b}
         /\ GetNextTimer(t, a, b) \in Ticks
         /\ Elapsed(t, GetNextTimer(t, a, b)) <= Elapsed(t, a)
         /\ Elapsed(t, GetNextTimer(t, a, b)) <= Elapsed(t, b)
BY ModulusAssumption DEF GetNextTimer, Elapsed, Ticks

\* What the chain has found after the timers below n: nothing if they are all
\* raised, else the nearest of the others.
ChainInv(n, found, r, h, t) ==
  LET left == {k \in Timers : k < n /\ k \notin r}
  IN  \/ left = {} /\ found = NoMatch
      \/ /\ found \in Ticks
         /\ \E k \in left : found = h[k]
         /\ \A k \in left : Elapsed(t, found) <= Elapsed(t, h[k])

LEMMA ChainStep ==
  ASSUME NEW n \in 0 .. 3, NEW found, NEW r, NEW h \in [Timers -> Ticks], NEW t \in Ticks,
         ChainInv(n, found, r, h, t)
  PROVE  ChainInv(n + 1, NextWith(n, found, r, h, t), r, h, t)
<1> DEFINE left(m) == {k \in Timers : k < m /\ k \notin r}
<1>0. \A k \in Timers : k \in Nat
  BY NumTimersAssumption DEF Timers
<1>1. CASE n \notin Timers \/ n \in r
  <2>1. left(n + 1) = left(n)
    <3>1. \A k \in Timers : (k < n + 1 /\ k \notin r) <=> (k < n /\ k \notin r)
      BY <1>0, <1>1
    <3>2. QED
      BY <3>1
  <2>2. QED
    BY <1>1, <2>1 DEF ChainInv, NextWith
<1>2. CASE n \in Timers /\ n \notin r
  <2>1. left(n + 1) = left(n) \union {n}
    <3>1. \A k \in Timers : k < n + 1 <=> (k < n \/ k = n)
      BY <1>0
    <3>2. QED
      BY <1>2, <3>1
  <2>2. h[n] \in Ticks /\ NoMatch \notin Ticks
    BY <1>2, ModulusAssumption DEF NoMatch, Ticks
  <2>3. Elapsed(t, h[n]) \in Int
    BY <2>2, ModulusAssumption DEF Elapsed, Ticks
  <2>4. CASE found = NoMatch
    <3>1. left(n) = {}
      BY <2>2, <2>4 DEF ChainInv
    <3>2. NextWith(n, found, r, h, t) = h[n]
      BY <1>2, <2>4 DEF NextWith
    <3>3. QED
      BY <2>1, <2>2, <2>3, <3>1, <3>2 DEF ChainInv
  <2>5. CASE found # NoMatch
    <3> DEFINE m == GetNextTimer(t, h[n], found)
    <3>1. /\ found \in Ticks
          /\ \E k \in left(n) : found = h[k]
          /\ \A k \in left(n) : Elapsed(t, found) <= Elapsed(t, h[k])
      BY <2>5 DEF ChainInv
    <3>2. /\ m \in {h[n], found} /\ m \in Ticks
          /\ Elapsed(t, m) <= Elapsed(t, h[n])
          /\ Elapsed(t, m) <= Elapsed(t, found)
      BY <2>2, <3>1, GetNextTimerIsNearest
    <3>3. NextWith(n, found, r, h, t) = m
      BY <1>2, <2>5 DEF NextWith
    <3>4. \A k \in left(n) : Elapsed(t, h[k]) \in Int
      BY ModulusAssumption DEF Elapsed, Ticks
    <3>5. Elapsed(t, m) \in Int /\ Elapsed(t, found) \in Int
      BY <3>1, <3>2, ModulusAssumption DEF Elapsed, Ticks
    <3>6. \A k \in left(n + 1) : Elapsed(t, m) <= Elapsed(t, h[k])
      BY <2>1, <3>1, <3>2, <3>4, <3>5
    <3>7. \E k \in left(n + 1) : m = h[k]
      BY <2>1, <3>1, <3>2, <1>2
    <3> HIDE DEF m
    <3>8. QED
      BY <3>2, <3>3, <3>6, <3>7 DEF ChainInv
  <2>6. QED
    BY <2>4, <2>5
<1>3. QED
  BY <1>1, <1>2

\* The chain as a whole.
LEMMA FindNextIsNearest ==
  ASSUME NEW r, NEW h \in [Timers -> Ticks], NEW t \in Ticks
  PROVE  /\ FindNext(r, h, t) \in Ticks \union {NoMatch}
         /\ Timers \ r = {} => FindNext(r, h, t) = NoMatch
         /\ Timers \ r # {} => IsNearest(t, FindNext(r, h, t), {h[k] : k \in Timers \ r})
<1> DEFINE n0 == NextWith(0, NoMatch, r, h, t)
           n1 == NextWith(1, n0, r, h, t)
           n2 == NextWith(2, n1, r, h, t)
           n3 == NextWith(3, n2, r, h, t)
<1>0. \A k \in Timers : k \in 0 .. 3
  BY NumTimersAssumption DEF Timers
<1>1. ChainInv(0, NoMatch, r, h, t)
  <2>1. {k \in Timers : k < 0 /\ k \notin r} = {}
    BY <1>0
  <2>2. QED
    BY <2>1 DEF ChainInv
<1>2. ChainInv(1, n0, r, h, t)
  BY <1>1, ChainStep, 0 + 1 = 1
<1>3. ChainInv(2, n1, r, h, t)
  <2> HIDE DEF n0
  <2> QED BY <1>2, ChainStep, 1 + 1 = 2
<1>4. ChainInv(3, n2, r, h, t)
  <2> HIDE DEF n1
  <2> QED BY <1>3, ChainStep, 2 + 1 = 3
<1>5. ChainInv(4, n3, r, h, t)
  <2> HIDE DEF n2
  <2> QED BY <1>4, ChainStep, 3 + 1 = 4
<1>6. FindNext(r, h, t) = n3
  BY DEF FindNext
<1> HIDE DEF n3
<1>7. {k \in Timers : k < 4 /\ k \notin r} = Timers \ r
  <2>1. \A k \in Timers : k < 4
    BY <1>0
  <2>2. QED
    BY <2>1
<1>8. QED
  BY <1>5, <1>6, <1>7 DEF ChainInv, IsNearest

\* The states of TimerCalls are calls, with the results of each.
CallTypeOK ==
  /\ host \in [Timers -> Ticks]
  /\ old \in Ticks
  /\ new \in Ticks

CallInv ==
  /\ CallTypeOK
  /\ fired = FiredTimers(raisedBefore, host, old, new)
  /\ next = FindNext(raisedBefore \union fired, host, new)

LEMMA CallInvariant == CallsSpec => []CallInv
<1>1. CallsInit => CallInv
  BY DEF CallsInit, CallInv, CallTypeOK
<1>2. CallInv /\ [CallsNext]_callVars => CallInv'
  BY DEF CallInv, CallTypeOK, CallsNext, callVars
<1>3. QED
  BY <1>1, <1>2, PTL DEF CallsSpec

\* The timers whose interrupt is raised are exactly those the counter went
\* through since the last call.
THEOREM FiresExactlyAlways == CallsSpec => []FiresExactly
<1>1. CallInv => FiresExactly
  <2> SUFFICES ASSUME CallInv PROVE FiresExactly
    OBVIOUS
  <2>1. \A k \in Timers : MatchFired(old, new, host[k]) <=> Reached(old, new, host[k])
    BY MatchFiredIsReached DEF CallInv, CallTypeOK
  <2>2. QED
    BY <2>1 DEF CallInv, FiresExactly, FiredTimers
<1>2. QED
  BY <1>1, CallInvariant, PTL

\* The sleep the call asks for ends at the first match to come.
THEOREM NextIsNearestAlways == CallsSpec => []NextIsNearest
<1>1. CallInv => NextIsNearest
  BY FindNextIsNearest DEF CallInv, CallTypeOK, NextIsNearest
<1>2. QED
  BY <1>1, CallInvariant, PTL

-----------------------------------------------------------------------------
\* The types.

\* A group of variables that does not change keeps its types.
LEMMA Keeps ==
  ASSUME TypeOK
  PROVE  /\ UNCHANGED timerVars => TimerOK'
         /\ UNCHANGED emuVars => EmuOK'
         /\ UNCHANGED hostVars => HostOK'
         /\ UNCHANGED waitVars => WaitOK'
         /\ UNCHANGED regVars => RegOK'
         /\ UNCHANGED gpioVars => GPIOOK'
         /\ UNCHANGED timeVars => TimeOK'
         /\ UNCHANGED lineVars => LineOK'
<1> USE DEF TypeOK
<1>1. UNCHANGED timerVars => TimerOK'
  BY DEF timerVars, TimerOK
<1>2. UNCHANGED emuVars => EmuOK'
  BY DEF emuVars, EmuOK
<1>3. UNCHANGED hostVars => HostOK'
  BY DEF hostVars, HostOK
<1>4. UNCHANGED waitVars => WaitOK'
  BY DEF waitVars, WaitOK
<1>5. UNCHANGED regVars => RegOK'
  BY DEF regVars, RegOK
<1>6. UNCHANGED gpioVars => GPIOOK'
  BY DEF gpioVars, GPIOOK
<1>7. UNCHANGED timeVars => TimeOK'
  BY DEF timeVars, TimeOK
<1>8. UNCHANGED lineVars => LineOK'
  BY DEF lineVars, LineOK
<1>9. QED
  BY <1>1, <1>2, <1>3, <1>4, <1>5, <1>6, <1>7, <1>8

\* No action leaves the types.
LEMMA TypeStep == TypeOK /\ [Next]_vars => TypeOK'
<1> SUFFICES ASSUME TypeOK, [Next]_vars PROVE TypeOK'
  OBVIOUS
<1> USE Keeps DEF TypeOK
<1>h. \A delta \in Ticks : HostMatches(delta) \in [Timers -> Ticks]
  <2> SUFFICES ASSUME NEW delta \in Ticks, NEW k \in Timers
               PROVE  Plus(mMatchRegisters[k], delta) \in Ticks
    BY DEF HostMatches
  <2>1. mMatchRegisters[k] \in Int /\ delta \in Int
    BY DEF Ticks
  <2>2. QED
    BY <2>1, PlusMinusType
<1>n. /\ Plus(now, 1) \in Ticks
      /\ Minus(now, mTimer) \in Ticks
      /\ Minus(now, mTimerDelta) \in Ticks
      /\ Minus(lastTicks, mTimerDelta) \in Ticks
      /\ Minus(now, Minus(now, mTimer)) \in Ticks
  <2>1. now \in Int /\ mTimer \in Int /\ mTimerDelta \in Int /\ lastTicks \in Int /\ 1 \in Int
    BY DEF Ticks, TimeOK, TimerOK
  <2>2. Minus(now, mTimer) \in Int
    BY <2>1, PlusMinusType DEF Ticks
  <2>3. QED
    BY <2>1, <2>2, PlusMinusType
<1>e. ASSUME NEW o \in Ticks, NEW n \in Ticks, NEW delta \in Ticks, Evaluate(o, n, delta)
      PROVE  /\ mIntRaised' \subseteq Ints
             /\ nextMatch' \in Ticks \union {NoMatch}
             /\ lastTicks' \in Ticks
             /\ fiqLine' \in BOOLEAN
             /\ fiqSeen' \in BOOLEAN
             /\ maskStale' \in BOOLEAN
             /\ timerPC' \in TimerPCs
             /\ timerSignalled' \in BOOLEAN
  <2>1. nextMatch' \in Ticks \union {NoMatch}
    BY <1>e, <1>h, FindNextIsNearest DEF Evaluate
  <2>2. QED
    BY <1>e, <2>1 DEF Evaluate, FiredTimers, FIQPending, Ints, TimerPCs, RegOK
<1>1. ASSUME TimerSleeps PROVE TypeOK'
  BY <1>1, <1>n DEF TimerSleeps, SaveTimer, SignalEmulator, IRQPending, TimerPCs, TimerOK, EmuOK, TimeOK, LineOK
<1>2. ASSUME TimerContinues PROVE TypeOK'
  <2>1. TimerOK' /\ RegOK' /\ LineOK'
    BY <1>2, <1>e DEF TimerContinues, TimerOK, RegOK, LineOK, TimeOK
  <2>2. QED
    BY <1>2, <2>1 DEF TimerContinues
<1>3. ASSUME TimerSuspends PROVE TypeOK'
  BY <1>3, <1>n DEF TimerSuspends, SaveTimer, SignalEmulator, TimerPCs, TimerOK, EmuOK, TimeOK
<1>4. ASSUME TimerRestarts PROVE TypeOK'
  <2>1. mTimerDelta' \in Ticks
    BY <1>4, <1>n DEF TimerRestarts
  <2>2. TimerOK' /\ RegOK' /\ LineOK'
    BY <1>4, <1>e, <2>1 DEF TimerRestarts, TimerOK, RegOK, LineOK
  <2>3. EmuOK' /\ TimeOK'
    BY <1>4, <2>1 DEF TimerRestarts, SignalEmulator, EmuOK, TimeOK
  <2>4. QED
    BY <1>4, <2>1, <2>2, <2>3 DEF TimerRestarts
<1>5. ASSUME TimerStaysSuspended PROVE TypeOK'
  <2>1. mTimerDelta' \in Ticks /\ mTimer' \in Ticks
    BY <1>5, <1>n DEF TimerStaysSuspended
  <2>2. QED
    BY <1>5, <2>1 DEF TimerStaysSuspended, SignalEmulator, TimerPCs, TimerOK, EmuOK, TimeOK
<1>6. ASSUME TimerExits PROVE TypeOK'
  BY <1>6, <1>n DEF TimerExits, TimerPCs, TimerOK
<1>7. ASSUME InitReturns PROVE TypeOK'
  BY <1>7 DEF InitReturns, EmuKeeps, EmuWakes, EmuPCs, EmuSleeps, TimerOK, EmuOK
<1>8. ASSUME ResumeReturns PROVE TypeOK'
  BY <1>8 DEF ResumeReturns, EmuKeeps, EmuWakes, EmuPCs, EmuSleeps, TimerOK, EmuOK
<1>9. ASSUME SuspendReturns PROVE TypeOK'
  BY <1>9 DEF SuspendReturns, EmuKeeps, EmuWakes, EmuPCs, EmuSleeps, TimerOK, EmuOK
<1>10. ASSUME WaitReturns PROVE TypeOK'
  BY <1>10 DEF WaitReturns, EmuKeeps, EmuWakes, EmuPCs, EmuSleeps, TimerOK, EmuOK, WaitOK
<1>11. ASSUME DestroyReturns PROVE TypeOK'
  BY <1>11 DEF DestroyReturns, EmuKeeps, EmuPCs, EmuSleeps, TimerOK, EmuOK
<1>12. ASSUME ResumeTimer PROVE TypeOK'
  BY <1>12 DEF ResumeTimer, EmuKeeps, SignalTimer, EmuPCs, EmuSleeps, TimerOK, EmuOK
<1>13. ASSUME SuspendTimer PROVE TypeOK'
  BY <1>13 DEF SuspendTimer, EmuKeeps, SignalTimer, EmuPCs, EmuSleeps, TimerOK, EmuOK
<1>14. ASSUME PauseSystem PROVE TypeOK'
  BY <1>14 DEF PauseSystem, EmuKeeps, EmuPCs, EmuSleeps, TimerOK, EmuOK
<1>15. ASSUME BreakInMonitor PROVE TypeOK'
  BY <1>15 DEF BreakInMonitor, EmuKeeps, EmuPCs, EmuSleeps, TimerOK, EmuOK
<1>16. ASSUME NEW iBit \in BOOLEAN, NEW fBit \in BOOLEAN, WaitUntilInterrupt(iBit, fBit) PROVE TypeOK'
  BY <1>16 DEF WaitUntilInterrupt, EmuKeeps, NoteWait, SignalTimer, EmuPCs, EmuSleeps, TimerOK, EmuOK, WaitOK
<1>17. ASSUME NEW k \in Timers, NEW value \in MatchValues, SetTimerMatchRegister(k, value) PROVE TypeOK'
  BY <1>17, IntsAssumption DEF SetTimerMatchRegister, EmuKeeps, RegisterWrite, SignalTimer, EmuPCs, EmuSleeps, TimerOK, EmuOK
<1>18. ASSUME NEW value \in CtrlValues, SetIntCtrlReg(value) PROVE TypeOK'
  BY <1>18, IntsAssumption DEF SetIntCtrlReg, EmuKeeps, RegisterWrite, SignalTimer, EmuPCs, EmuSleeps, TimerOK, EmuOK, RegOK
<1>19. ASSUME NEW i \in Ints, ClearInterrupts({i}) PROVE TypeOK'
  BY <1>19 DEF ClearInterrupts, EmuKeeps, RegisterWrite, SignalTimer, EmuPCs, EmuSleeps, TimerOK, EmuOK, RegOK
<1>20. ASSUME NEW value \in FIQValues, SetFIQMask(value) PROVE TypeOK'
  BY <1>20, IntsAssumption DEF SetFIQMask, EmuKeeps, RegisterWrite, EmuPCs, EmuSleeps, TimerOK, EmuOK, RegOK
<1>21. ASSUME WriteOtherRegister PROVE TypeOK'
  BY <1>21 DEF WriteOtherRegister, EmuKeeps, RegisterWrite, SignalTimer, EmuPCs, EmuSleeps, TimerOK, EmuOK
<1>22. ASSUME NEW value \in BOOLEAN, SetGPIOCtrlReg(value) PROVE TypeOK'
  BY <1>22 DEF SetGPIOCtrlReg, EmuKeeps, RegisterWrite, EmuPCs, EmuSleeps, TimerOK, EmuOK, GPIOOK
<1>23. ASSUME CtrlRaisesGPIO PROVE TypeOK'
  BY <1>23 DEF CtrlRaisesGPIO, EmuKeeps, SignalTimer, EmuPCs, EmuSleeps, Ints, TimerOK, EmuOK, RegOK
<1>24. ASSUME ClearGPIO PROVE TypeOK'
  BY <1>24 DEF ClearGPIO, EmuKeeps, RegisterWrite, EmuPCs, EmuSleeps, TimerOK, EmuOK, GPIOOK
<1>25. ASSUME Destroy PROVE TypeOK'
  BY <1>25 DEF Destroy, EmuKeeps, SignalTimer, EmuPCs, EmuSleeps, TimerOK, EmuOK
<1>26. ASSUME NEW d \in Devices, NEW i \in DeviceInts, DeviceRaises(d, i) PROVE TypeOK'
  BY <1>26 DEF DeviceRaises, HostKeeps, RaiseInterrupt, SignalTimer, Ints, TimerOK, EmuOK, HostOK, RegOK
<1>27. ASSUME NEW d \in Devices, RaiseGPIO(d) PROVE TypeOK'
  BY <1>27 DEF RaiseGPIO, HostKeeps, TimerOK, EmuOK, HostOK, GPIOOK
<1>28. ASSUME NEW d \in Devices, GPIORaisesInterrupt(d) PROVE TypeOK'
  BY <1>28 DEF GPIORaisesInterrupt, HostKeeps, RaiseInterrupt, SignalTimer, Ints, TimerOK, EmuOK, HostOK, RegOK
<1>29. ASSUME NEW d \in Devices, GPIOWakesEmulator(d) PROVE TypeOK'
  BY <1>29 DEF GPIOWakesEmulator, HostKeeps, SignalEmulator, TimerOK, EmuOK, HostOK
<1>30. ASSUME Stop PROVE TypeOK'
  <2>1. stops' \in 0 .. MaxStops
    BY <1>30, IntsAssumption DEF Stop, HostOK
  <2>2. HostOK' /\ TimerOK' /\ EmuOK'
    BY <1>30, <2>1 DEF Stop, HostKeeps, TimerOK, EmuOK, HostOK
  <2>3. QED
    BY <1>30, <2>2 DEF Stop, HostKeeps
<1>31. ASSUME WakeEmulatorThread PROVE TypeOK'
  BY <1>31 DEF WakeEmulatorThread, HostKeeps, SignalEmulator, TimerOK, EmuOK, HostOK
<1>32. ASSUME Tick PROVE TypeOK'
  BY <1>32, <1>n DEF Tick
<1>33. ASSUME UNCHANGED vars PROVE TypeOK'
  BY <1>33 DEF vars
<1>q. QED
  BY <1>1, <1>2, <1>3, <1>4, <1>5, <1>6, <1>7, <1>8, <1>9, <1>10, <1>11, <1>12, <1>13, <1>14, <1>15, <1>16, <1>17, <1>18, <1>19, <1>20, <1>21, <1>22, <1>23, <1>24, <1>25, <1>26, <1>27, <1>28, <1>29, <1>30, <1>31, <1>32, <1>33 DEF Next, TimerThread, EmulatorThread, EmuReturns, HostThreads

LEMMA TypeInit == Init => TypeOK
<1> SUFFICES ASSUME Init PROVE TypeOK
  OBVIOUS
<1>1. 0 \in Ticks /\ 0 \in 0 .. MaxStops
  BY ModulusAssumption, IntsAssumption DEF Ticks
<1>2. TimerOK /\ EmuOK
  BY <1>1 DEF Init, TimerOK, EmuOK, TimerPCs, EmuPCs, EmuSleeps
<1>3. HostOK /\ mMatchRegisters \in [Timers -> Ticks]
  BY <1>1 DEF Init, HostOK
<1>4. WaitOK /\ RegOK /\ GPIOOK /\ TimeOK /\ LineOK
  BY <1>1 DEF Init, WaitOK, RegOK, GPIOOK, TimeOK, LineOK
<1>5. QED
  BY <1>2, <1>3, <1>4 DEF Init, TypeOK

\* The fields keep their types: in particular every tick value stays within
\* the width of the counter, through all the sums and differences.
THEOREM TypeCorrect == Spec => []TypeOK
  BY TypeInit, TypeStep, PTL DEF Spec
-----------------------------------------------------------------------------

\* A step that leaves the registers, the lines and the timer thread where they
\* are can only take away a reason to sleep.
LEMMA QuietStep ==
  ASSUME SignalInv,
         UNCHANGED <<timerPC, fiqSeen>>, UNCHANGED waitVars, UNCHANGED regVars,
         UNCHANGED lineVars,
         timerSignalled => timerSignalled',
         (emuPC' = "waiting") <=> (emuPC = "waiting"),
         emuPC' = "waiting" /\ emuSignalled => emuSignalled'
  PROVE  SignalInv'
<1>1. /\ timerPC' = timerPC /\ fiqSeen' = fiqSeen
      /\ mWaiting' = mWaiting /\ mMaskIRQ' = mMaskIRQ /\ mMaskFIQ' = mMaskFIQ
      /\ fiqLine' = fiqLine /\ irqLine' = irqLine /\ maskStale' = maskStale
  BY DEF waitVars, regVars, lineVars
<1>2. /\ FIQPending(mIntRaised)' = FIQPending(mIntRaised)
      /\ IRQPending(mIntRaised)' = IRQPending(mIntRaised)
  BY DEF regVars, FIQPending, IRQPending
<1>3. EvaluationInv' /\ WaitInv'
  BY <1>1, <1>2 DEF SignalInv, EvaluationInv, WaitInv
<1>4. LinesAgree' /\ NoSleepOnInterrupt'
  BY <1>1, <1>2 DEF SignalInv, LinesAgree, NoSleepOnInterrupt, Asleep
<1>5. QED
  BY <1>3, <1>4 DEF SignalInv

\* A step that signals the timer thread, holding the mutex, may do anything to
\* the registers: the timer thread will evaluate them.
LEMMA SignalledStep ==
  ASSUME MutexFree, SignalTimer, timerPC' = timerPC,
         mWaiting' = (emuPC' = "waiting")
  PROVE  SignalInv'
BY DEF MutexFree, SignalTimer, SignalInv, EvaluationInv, WaitInv, LinesAgree,
       NoSleepOnInterrupt, Asleep

\* An evaluation establishes what the timer thread knows in the middle of it.
LEMMA EvaluateStep ==
  ASSUME SignalInv, NEW from \in Ticks, NEW to \in Ticks, NEW delta \in Ticks,
         Evaluate(from, to, delta), UNCHANGED waitVars,
         mIntCtrlReg' = mIntCtrlReg, mFIQMask' = mFIQMask, emuPC' = emuPC
  PROVE  SignalInv'
<1>1. timerPC' = "evaluating"
  BY DEF Evaluate
<1>2. mWaiting' = mWaiting /\ mMaskFIQ' = mMaskFIQ
  BY DEF waitVars
<1>3. FIQPending(mIntRaised)' = fiqLine'
  BY DEF Evaluate, FIQPending
<1>4. fiqSeen' = (fiqLine' /\ (~mWaiting \/ ~mMaskFIQ))
  BY DEF Evaluate
<1>5. QED
  BY <1>1, <1>2, <1>3, <1>4
     DEF SignalInv, EvaluationInv, WaitInv, LinesAgree, NoSleepOnInterrupt, Asleep

LEMMA SignalStep == TypeOK /\ SignalInv /\ [Next]_vars => SignalInv'
<1> SUFFICES ASSUME TypeOK, SignalInv, [Next]_vars PROVE SignalInv'
  OBVIOUS
<1>1. ASSUME TimerSleeps PROVE SignalInv'
  <2>1. irqLine' = IRQPending(mIntRaised)' /\ FIQPending(mIntRaised)' = FIQPending(mIntRaised)
    BY <1>1 DEF TimerSleeps, regVars, IRQPending, FIQPending
  <2>2. fiqSeen \/ (IRQPending(mIntRaised) /\ (~mWaiting \/ ~mMaskIRQ)) =>
          (emuPC = "waiting" => emuSignalled')
    BY <1>1 DEF TimerSleeps, SignalInv, WaitInv, SignalEmulator, EmuSleeps
  <2>3. timerPC = "evaluating" /\ timerPC' = "sleeping" /\ irqLine' = IRQPending(mIntRaised)
    BY <1>1 DEF TimerSleeps
  <2>4. /\ emuPC' = emuPC /\ mWaiting' = mWaiting /\ mMaskIRQ' = mMaskIRQ /\ mMaskFIQ' = mMaskFIQ
        /\ maskStale' = maskStale /\ fiqLine' = fiqLine
    BY <1>1 DEF TimerSleeps, regVars, waitVars
  <2>5. QED
    BY <2>1, <2>2, <2>3, <2>4 DEF SignalInv, EvaluationInv, WaitInv, LinesAgree, NoSleepOnInterrupt, Asleep
<1>2. ASSUME TimerContinues PROVE SignalInv'
  BY <1>2, EvaluateStep DEF TimerContinues, emuVars, waitVars, TypeOK, TimerOK, TimeOK
<1>3. ASSUME TimerSuspends PROVE SignalInv'
  BY <1>3 DEF TimerSuspends, SignalInv, EvaluationInv, WaitInv, LinesAgree, NoSleepOnInterrupt, Asleep, waitVars
<1>4. ASSUME TimerRestarts PROVE SignalInv'
  <2>1. now \in Ticks /\ mTimerDelta' \in Ticks
    BY <1>4, TypeStep DEF TypeOK, TimeOK
  <2>2. QED
    BY <1>4, <2>1, EvaluateStep DEF TimerRestarts, waitVars
<1>5. ASSUME TimerStaysSuspended PROVE SignalInv'
  BY <1>5 DEF TimerStaysSuspended, SignalInv, EvaluationInv, WaitInv, LinesAgree, NoSleepOnInterrupt, Asleep, waitVars
<1>6. ASSUME TimerExits PROVE SignalInv'
  BY <1>6 DEF TimerExits, SignalInv, EvaluationInv, WaitInv, LinesAgree, NoSleepOnInterrupt, Asleep, waitVars, emuVars
<1>7. ASSUME InitReturns PROVE SignalInv'
  BY <1>7, QuietStep DEF InitReturns, EmuKeeps, EmuWakes
<1>8. ASSUME ResumeReturns PROVE SignalInv'
  BY <1>8, QuietStep DEF ResumeReturns, EmuKeeps, EmuWakes
<1>9. ASSUME SuspendReturns PROVE SignalInv'
  BY <1>9, QuietStep DEF SuspendReturns, EmuKeeps, EmuWakes
<1>10. ASSUME WaitReturns PROVE SignalInv'
  <2>1. emuPC' # "waiting" /\ mWaiting' = FALSE
    BY <1>10 DEF WaitReturns
  <2>2. /\ timerPC' = timerPC /\ timerSignalled' = timerSignalled
        /\ fiqLine' = fiqLine /\ irqLine' = irqLine /\ maskStale' = maskStale
        /\ timerPC # "evaluating"
    BY <1>10 DEF WaitReturns, EmuKeeps, EmuWakes, MutexFree, regVars, lineVars
  <2>3. /\ FIQPending(mIntRaised)' = FIQPending(mIntRaised)
        /\ IRQPending(mIntRaised)' = IRQPending(mIntRaised)
    BY <1>10 DEF WaitReturns, regVars, FIQPending, IRQPending
  <2>4. EvaluationInv' /\ LinesAgree'
    BY <2>2, <2>3 DEF SignalInv, EvaluationInv, LinesAgree, Asleep
  <2>5. QED
    BY <2>1, <2>4 DEF SignalInv, WaitInv, NoSleepOnInterrupt
<1>11. ASSUME DestroyReturns PROVE SignalInv'
  BY <1>11, QuietStep DEF DestroyReturns, EmuKeeps
<1>12. ASSUME ResumeTimer PROVE SignalInv'
  BY <1>12, QuietStep DEF ResumeTimer, EmuKeeps, SignalTimer
<1>13. ASSUME SuspendTimer PROVE SignalInv'
  BY <1>13, QuietStep DEF SuspendTimer, EmuKeeps, SignalTimer
<1>14. ASSUME PauseSystem PROVE SignalInv'
  BY <1>14, QuietStep DEF PauseSystem, EmuKeeps
<1>15. ASSUME BreakInMonitor PROVE SignalInv'
  BY <1>15, QuietStep DEF BreakInMonitor, EmuKeeps
<1>16. ASSUME NEW iBit \in BOOLEAN, NEW fBit \in BOOLEAN, WaitUntilInterrupt(iBit, fBit) PROVE SignalInv'
  BY <1>16, SignalledStep DEF WaitUntilInterrupt, EmuKeeps, NoteWait
<1>17. ASSUME NEW k \in Timers, NEW value \in MatchValues, SetTimerMatchRegister(k, value) PROVE SignalInv'
  BY <1>17, QuietStep DEF SetTimerMatchRegister, EmuKeeps, RegisterWrite, SignalTimer
<1>18. ASSUME NEW value \in CtrlValues, SetIntCtrlReg(value) PROVE SignalInv'
  BY <1>18, SignalledStep DEF SetIntCtrlReg, EmuKeeps, RegisterWrite, SignalInv, WaitInv, waitVars
<1>19. ASSUME NEW i \in Ints, ClearInterrupts({i}) PROVE SignalInv'
  BY <1>19, SignalledStep DEF ClearInterrupts, EmuKeeps, RegisterWrite, SignalInv, WaitInv, waitVars
<1>20. ASSUME NEW value \in FIQValues, SetFIQMask(value) PROVE SignalInv'
  <2>1. /\ timerPC' = timerPC /\ fiqSeen' = fiqSeen /\ emuPC' = emuPC
        /\ timerSignalled' = timerSignalled /\ emuSignalled' = emuSignalled
        /\ mWaiting' = mWaiting /\ mMaskIRQ' = mMaskIRQ /\ mMaskFIQ' = mMaskFIQ
        /\ fiqLine' = fiqLine /\ irqLine' = irqLine
    BY <1>20 DEF SetFIQMask, RegisterWrite, EmuKeeps, waitVars, lineVars
  <2>2. ~maskStale' => /\ ~maskStale
                       /\ FIQPending(mIntRaised)' = FIQPending(mIntRaised)
                       /\ IRQPending(mIntRaised)' = IRQPending(mIntRaised)
    BY <1>20 DEF SetFIQMask, FIQPending, IRQPending, RegOK
  <2>3. QED
    BY <2>1, <2>2 DEF SignalInv, EvaluationInv, WaitInv, LinesAgree, NoSleepOnInterrupt, Asleep
<1>21. ASSUME WriteOtherRegister PROVE SignalInv'
  BY <1>21, QuietStep DEF WriteOtherRegister, EmuKeeps, RegisterWrite, SignalTimer
<1>22. ASSUME NEW value \in BOOLEAN, SetGPIOCtrlReg(value) PROVE SignalInv'
  BY <1>22, QuietStep DEF SetGPIOCtrlReg, EmuKeeps, RegisterWrite
<1>23. ASSUME CtrlRaisesGPIO PROVE SignalInv'
  BY <1>23, SignalledStep DEF CtrlRaisesGPIO, EmuKeeps, SignalInv, WaitInv, waitVars
<1>24. ASSUME ClearGPIO PROVE SignalInv'
  BY <1>24, QuietStep DEF ClearGPIO, EmuKeeps, RegisterWrite
<1>25. ASSUME Destroy PROVE SignalInv'
  BY <1>25, QuietStep DEF Destroy, EmuKeeps, SignalTimer
<1>26. ASSUME NEW d \in Devices, NEW i \in DeviceInts, DeviceRaises(d, i) PROVE SignalInv'
  BY <1>26, SignalledStep DEF DeviceRaises, HostKeeps, RaiseInterrupt, SignalInv, WaitInv, waitVars
<1>27. ASSUME NEW d \in Devices, RaiseGPIO(d) PROVE SignalInv'
  BY <1>27, QuietStep DEF RaiseGPIO, HostKeeps
<1>28. ASSUME NEW d \in Devices, GPIORaisesInterrupt(d) PROVE SignalInv'
  BY <1>28, SignalledStep DEF GPIORaisesInterrupt, HostKeeps, RaiseInterrupt, SignalInv, WaitInv, waitVars
<1>29. ASSUME NEW d \in Devices, GPIOWakesEmulator(d) PROVE SignalInv'
  BY <1>29, QuietStep DEF GPIOWakesEmulator, HostKeeps, SignalEmulator
<1>30. ASSUME Stop PROVE SignalInv'
  BY <1>30, QuietStep DEF Stop, HostKeeps
<1>31. ASSUME WakeEmulatorThread PROVE SignalInv'
  BY <1>31, QuietStep DEF WakeEmulatorThread, HostKeeps, SignalEmulator
<1>32. ASSUME Tick PROVE SignalInv'
  BY <1>32, QuietStep DEF Tick, timerVars, emuVars
<1>33. ASSUME UNCHANGED vars PROVE SignalInv'
  BY <1>33, QuietStep DEF vars, timerVars, emuVars
<1>q. QED
  BY <1>1, <1>2, <1>3, <1>4, <1>5, <1>6, <1>7, <1>8, <1>9, <1>10, <1>11, <1>12, <1>13, <1>14, <1>15, <1>16, <1>17, <1>18, <1>19, <1>20, <1>21, <1>22, <1>23, <1>24, <1>25, <1>26, <1>27, <1>28, <1>29, <1>30, <1>31, <1>32, <1>33
     DEF Next, TimerThread, EmulatorThread, EmuReturns, HostThreads

LEMMA SignalInit == Init => SignalInv
BY DEF Init, SignalInv, EvaluationInv, WaitInv, LinesAgree, NoSleepOnInterrupt, Asleep

LEMMA SignalAlways == Spec => []SignalInv
  BY TypeCorrect, SignalInit, SignalStep, PTL DEF Spec

\* No signal to the timer thread is lost: LinesAgree, for every configuration.
THEOREM LinesAgreeAlways == Spec => []LinesAgree
  BY SignalAlways, PTL DEF SignalInv

\* The two threads never sleep on an unmasked interrupt.
THEOREM NoSleepAlways == Spec => []NoSleepOnInterrupt
  BY SignalAlways, PTL DEF SignalInv
-----------------------------------------------------------------------------
\* What the three threads leave alone.

LEMMA EmulatorFrame == EmulatorThread => EmuKeeps
BY DEF EmulatorThread, EmuReturns, InitReturns, ResumeReturns, SuspendReturns,
       WaitReturns, DestroyReturns, ResumeTimer, SuspendTimer, PauseSystem,
       BreakInMonitor, WaitUntilInterrupt, SetTimerMatchRegister, SetIntCtrlReg,
       ClearInterrupts, SetFIQMask, WriteOtherRegister, SetGPIOCtrlReg,
       CtrlRaisesGPIO, ClearGPIO, Destroy, RegisterWrite

LEMMA HostFrame == HostThreads => HostKeeps
BY DEF HostThreads, DeviceRaises, RaiseGPIO, GPIORaisesInterrupt, GPIOWakesEmulator,
       Stop, WakeEmulatorThread

-----------------------------------------------------------------------------
\* The emulated time.

LEMMA MinusByCases ==
  ASSUME NEW a \in Ticks, NEW b \in Ticks
  PROVE  Minus(a, b) = IF b <= a THEN a - b ELSE a - b + Modulus
BY ModulusAssumption DEF Minus, Ticks

LEMMA PlusOne ==
  ASSUME NEW a \in Ticks
  PROVE  Plus(a, 1) = IF a = Modulus - 1 THEN 0 ELSE a + 1
BY ModulusAssumption DEF Plus, Ticks

\* A difference taken twice, and the difference a tick later.
LEMMA MinusTwice ==
  ASSUME NEW a \in Ticks, NEW b \in Ticks
  PROVE  Minus(a, Minus(a, b)) = b
<1> DEFINE d == Minus(a, b)
<1>1. d \in Ticks /\ d = IF b <= a THEN a - b ELSE a - b + Modulus
  BY PlusMinusType, MinusByCases DEF Ticks
<1> HIDE DEF d
<1>2. Minus(a, d) = IF d <= a THEN a - d ELSE a - d + Modulus
  BY <1>1, MinusByCases
<1>3. Minus(a, d) = b
  BY <1>1, <1>2, ModulusAssumption DEF Ticks
<1>4. QED
  BY <1>3 DEF d

LEMMA MinusTick ==
  ASSUME NEW a \in Ticks, NEW b \in Ticks
  PROVE  Minus(Plus(a, 1), b) = Plus(Minus(a, b), 1)
<1> DEFINE d == Minus(a, b)
           n == Plus(a, 1)
<1>1. d \in Ticks /\ n \in Ticks
  BY PlusMinusType, 1 \in Int DEF Ticks
<1>2. /\ d = IF b <= a THEN a - b ELSE a - b + Modulus
      /\ n = IF a = Modulus - 1 THEN 0 ELSE a + 1
  BY MinusByCases, PlusOne
<1> HIDE DEF d, n
<1>3. /\ Minus(n, b) = IF b <= n THEN n - b ELSE n - b + Modulus
      /\ Plus(d, 1) = IF d = Modulus - 1 THEN 0 ELSE d + 1
  BY <1>1, MinusByCases, PlusOne
<1>4. Minus(n, b) = Plus(d, 1)
  BY <1>1, <1>2, <1>3, ModulusAssumption DEF Ticks
<1>5. QED
  BY <1>4 DEF d, n

\* Whatever the timer thread was doing when it was suspended or resumed, the
\* emulated time goes on from where it was.
LEMMA TimeStep ==
  ASSUME TypeOK, [Next]_vars, timerPC' # "exited"
  PROVE  TimerValue' \in {TimerValue, Plus(TimerValue, 1)}
<1>t. now \in Ticks /\ mTimer \in Ticks /\ mTimerDelta \in Ticks
  BY DEF TypeOK, TimeOK
<1> DEFINE Same == TimerValue' = TimerValue
<1>1. CASE TimerSleeps
  BY <1>1 DEF TimerSleeps, TimerValue
<1>2. CASE TimerContinues
  BY <1>2 DEF TimerContinues, SleepEnds, Evaluate, TimerValue, timeVars
<1>3. CASE TimerSuspends
  BY <1>3 DEF TimerSuspends, SleepEnds, SaveTimer, TimerValue
<1>4. CASE TimerRestarts
  BY <1>4, <1>t, MinusTwice DEF TimerRestarts, OuterWaitEnds, Evaluate, TimerValue
<1>5. CASE TimerStaysSuspended
  BY <1>5, <1>t, MinusTwice DEF TimerStaysSuspended, OuterWaitEnds, TimerValue
<1>6. CASE TimerExits
  BY <1>6 DEF TimerExits
<1>7. CASE EmulatorThread \/ HostThreads
  BY <1>7, EmulatorFrame, HostFrame DEF EmuKeeps, HostKeeps, timeVars, TimerValue
<1>8. CASE Tick
  BY <1>8, <1>t, MinusTick DEF Tick, timerVars, timeVars, TimerValue
<1>9. CASE UNCHANGED vars
  BY <1>9 DEF vars, timerVars, timeVars, TimerValue
<1>10. QED
  BY <1>1, <1>2, <1>3, <1>4, <1>5, <1>6, <1>7, <1>8, <1>9 DEF Next, TimerThread

\* Suspending and resuming never move the emulated time.
THEOREM TimeAlwaysContinuous == Spec => TimeIsContinuous
<1>1. TypeOK /\ [Next]_vars =>
        [timerPC' # "exited" => TimerValue' \in {TimerValue, Plus(TimerValue, 1)}]_vars
  BY TimeStep
<1>2. QED
  BY <1>1, TypeCorrect, PTL DEF Spec, TimeIsContinuous

-----------------------------------------------------------------------------
\* The sleep of the timer thread.

\* The match m comes no later than timer k.
NotAfter(m, t, k, h) == m \in Ticks /\ Elapsed(t, m) <= Elapsed(t, h[k])

\* The chain finds a match that comes no later than that of any timer whose
\* interrupt is not raised.
LEMMA FindNextIsNearer ==
  ASSUME NEW r, NEW h \in [Timers -> Ticks], NEW t \in Ticks, NEW k \in Timers \ r
  PROVE  NotAfter(FindNext(r, h, t), t, k, h)
<1>1. IsNearest(t, FindNext(r, h, t), {h[j] : j \in Timers \ r})
  BY FindNextIsNearest
<1>2. FindNext(r, h, t) \in Ticks
  BY <1>1 DEF IsNearest
<1>3. QED
  BY <1>1, <1>2 DEF IsNearest, NotAfter

\* The deadline of the sleep is no later than the match of any enabled timer.
DeadlineOK ==
  \A k \in mIntCtrlReg \ mIntRaised :
    k \in Timers =>
      /\ nextMatch # NoMatch
      /\ Elapsed(lastTicks, nextMatch)
           <= Elapsed(lastTicks, HostMatches(mTimerDelta)[k])

\* From the evaluation, which holds the mutex, to the next signal.
SleepInv == timerPC = "evaluating" \/ Asleep => DeadlineOK

\* An evaluation finds the deadline from the registers of the moment.
LEMMA EvaluateSetsDeadline ==
  ASSUME TypeOK, NEW from \in Ticks, NEW to \in Ticks, mTimerDelta' \in Ticks,
         Evaluate(from, to, mTimerDelta'), UNCHANGED mMatchRegisters
  PROVE  DeadlineOK'
<1> DEFINE h == HostMatches(mTimerDelta')
<1>1. h \in [Timers -> Ticks] /\ h = HostMatches(mTimerDelta)'
  <2>1. \A k \in Timers : Plus(mMatchRegisters[k], mTimerDelta') \in Ticks
    BY PlusMinusType DEF TypeOK, Ticks
  <2>2. QED
    BY <2>1 DEF HostMatches
<1>2. lastTicks' = to /\ nextMatch' = FindNext(mIntRaised', h, to)
  BY DEF Evaluate
<1> HIDE DEF h
<1>3. \A k \in Timers \ mIntRaised' : NotAfter(nextMatch', to, k, h)
  BY <1>1, <1>2, FindNextIsNearer
<1>4. NoMatch \notin Ticks
  BY ModulusAssumption DEF NoMatch, Ticks
<1>5. QED
  BY <1>1, <1>2, <1>3, <1>4 DEF DeadlineOK, NotAfter

\* A step that leaves the timer thread, the match and interrupt registers where
\* they are, or signals the timer thread with the mutex held.
LEMMA QuietSleep ==
  ASSUME SleepInv, timerSignalled => timerSignalled',
         UNCHANGED <<timerPC, lastTicks, nextMatch, mIntRaised, mIntCtrlReg,
                     mTimerDelta, mMatchRegisters>>
  PROVE  SleepInv'
BY DEF SleepInv, Asleep, DeadlineOK, HostMatches

LEMMA SignalledSleep ==
  ASSUME MutexFree, SignalTimer, timerPC' = timerPC
  PROVE  SleepInv'
BY DEF MutexFree, SignalTimer, SleepInv, Asleep

\* A match register that is written without a signal is of a disabled timer.
LEMMA MatchSleep ==
  ASSUME TypeOK, SleepInv, NEW k \in Timers, NEW value \in MatchValues,
         SetTimerMatchRegister(k, value)
  PROVE  SleepInv'
<1>1. timerPC' = timerPC /\ MutexFree
  BY DEF SetTimerMatchRegister, RegisterWrite, EmuKeeps
<1>2. CASE k \in mIntCtrlReg
  BY <1>1, <1>2, SignalledSleep DEF SetTimerMatchRegister
<1>3. CASE k \notin mIntCtrlReg
  <2>1. UNCHANGED <<timerSignalled, lastTicks, nextMatch, mIntRaised, mIntCtrlReg,
                    mTimerDelta>>
    BY <1>3 DEF SetTimerMatchRegister, RegisterWrite, EmuKeeps, regVars, timeVars
  <2>2. \A j \in Timers \ {k} :
          HostMatches(mTimerDelta)[j]' = HostMatches(mTimerDelta)[j]
    BY <2>1 DEF SetTimerMatchRegister, HostMatches, TypeOK
  <2>3. DeadlineOK => DeadlineOK'
    BY <1>3, <2>1, <2>2 DEF DeadlineOK
  <2>4. QED
    BY <1>1, <2>1, <2>3 DEF SleepInv, Asleep
<1>4. QED
  BY <1>2, <1>3

LEMMA SleepStep == TypeOK /\ SleepInv /\ [Next]_vars => SleepInv'
<1> SUFFICES ASSUME TypeOK, SleepInv, [Next]_vars PROVE SleepInv'
  OBVIOUS
<1>1. CASE TimerSleeps
  BY <1>1 DEF TimerSleeps, SleepInv, Asleep, DeadlineOK, HostMatches, regVars
<1>2. CASE TimerContinues
  <2>1. mTimerDelta' = mTimerDelta /\ mTimerDelta \in Ticks /\ lastTicks \in Ticks /\ now \in Ticks
    BY <1>2 DEF TimerContinues, timeVars, TypeOK, TimeOK, TimerOK
  <2>2. Evaluate(lastTicks, now, mTimerDelta') /\ UNCHANGED mMatchRegisters
    BY <1>2, <2>1 DEF TimerContinues
  <2>3. QED
    BY <2>1, <2>2, EvaluateSetsDeadline DEF SleepInv
<1>3. CASE TimerRestarts
  <2>1. mTimerDelta' \in Ticks /\ now \in Ticks
    BY <1>3, TypeStep DEF TypeOK, TimeOK
  <2>2. Evaluate(now, now, mTimerDelta') /\ UNCHANGED mMatchRegisters
    BY <1>3 DEF TimerRestarts
  <2>3. QED
    BY <2>1, <2>2, EvaluateSetsDeadline DEF SleepInv
<1>4. CASE TimerSuspends \/ TimerStaysSuspended \/ TimerExits
  BY <1>4 DEF TimerSuspends, TimerStaysSuspended, TimerExits, SleepInv, Asleep
<1>5. ASSUME EmulatorThread PROVE SleepInv'
  <2>1. UNCHANGED <<timerPC, lastTicks, nextMatch, mTimerDelta>>
    BY <1>5, EmulatorFrame DEF EmuKeeps, timeVars
  <2>2. ASSUME NEW k \in Timers, NEW value \in MatchValues, SetTimerMatchRegister(k, value)
        PROVE  SleepInv'
    BY <2>2, MatchSleep
  <2>3. ASSUME NEW value \in CtrlValues, SetIntCtrlReg(value) PROVE SleepInv'
    BY <2>1, <2>3, SignalledSleep DEF SetIntCtrlReg
  <2>4. ASSUME NEW i \in Ints, ClearInterrupts({i}) PROVE SleepInv'
    BY <2>1, <2>4, SignalledSleep DEF ClearInterrupts
  <2>5. CASE CtrlRaisesGPIO
    BY <2>1, <2>5, SignalledSleep DEF CtrlRaisesGPIO
  <2>6. ASSUME NEW value \in FIQValues, SetFIQMask(value) PROVE SleepInv'
    BY <2>1, <2>6, QuietSleep DEF SetFIQMask
  <2>7. CASE \/ EmuReturns \/ ResumeTimer \/ SuspendTimer \/ PauseSystem \/ BreakInMonitor
             \/ \E iBit, fBit \in BOOLEAN : WaitUntilInterrupt(iBit, fBit)
             \/ WriteOtherRegister \/ \E value \in BOOLEAN : SetGPIOCtrlReg(value)
             \/ ClearGPIO \/ Destroy
    <3>1. UNCHANGED <<mIntRaised, mIntCtrlReg, mMatchRegisters>>
      BY <2>7 DEF EmuReturns, InitReturns, ResumeReturns, SuspendReturns, WaitReturns,
                  DestroyReturns, ResumeTimer, SuspendTimer, PauseSystem, BreakInMonitor,
                  WaitUntilInterrupt, WriteOtherRegister, SetGPIOCtrlReg, ClearGPIO,
                  Destroy, regVars
    <3>2. timerSignalled => timerSignalled'
      BY <2>7 DEF EmuReturns, InitReturns, ResumeReturns, SuspendReturns, WaitReturns,
                  DestroyReturns, ResumeTimer, SuspendTimer, PauseSystem, BreakInMonitor,
                  WaitUntilInterrupt, WriteOtherRegister, SetGPIOCtrlReg, ClearGPIO,
                  Destroy, EmuWakes, SignalTimer
    <3>3. QED
      BY <2>1, <3>1, <3>2, QuietSleep
  <2>8. QED
    BY <1>5, <2>2, <2>3, <2>4, <2>5, <2>6, <2>7 DEF EmulatorThread
<1>6. ASSUME HostThreads PROVE SleepInv'
  <2>1. UNCHANGED <<timerPC, lastTicks, nextMatch, mTimerDelta, mMatchRegisters>>
    BY <1>6, HostFrame DEF HostKeeps, timeVars
  <2>2. ASSUME NEW d \in Devices, NEW i \in DeviceInts, DeviceRaises(d, i) PROVE SleepInv'
    BY <2>1, <2>2, SignalledSleep DEF DeviceRaises, RaiseInterrupt
  <2>3. ASSUME NEW d \in Devices, GPIORaisesInterrupt(d) PROVE SleepInv'
    BY <2>1, <2>3, SignalledSleep DEF GPIORaisesInterrupt, RaiseInterrupt
  <2>4. ASSUME NEW d \in Devices, RaiseGPIO(d) \/ GPIOWakesEmulator(d) PROVE SleepInv'
    BY <2>1, <2>4, QuietSleep DEF RaiseGPIO, GPIOWakesEmulator, regVars
  <2>5. CASE Stop \/ WakeEmulatorThread
    BY <2>1, <2>5, QuietSleep DEF Stop, WakeEmulatorThread, regVars
  <2>6. QED
    BY <1>6, <2>2, <2>3, <2>4, <2>5 DEF HostThreads
<1>7. CASE Tick
  BY <1>7, QuietSleep DEF Tick, timerVars, regVars, timeVars
<1>8. CASE UNCHANGED vars
  BY <1>8, QuietSleep DEF vars, timerVars, regVars, timeVars
<1>9. QED
  BY <1>1, <1>2, <1>3, <1>4, <1>5, <1>6, <1>7, <1>8 DEF Next, TimerThread

\* The timer thread never sleeps past the match of an enabled timer.
THEOREM NeverOversleeps == Spec => []NoOversleep
<1>1. Init => SleepInv
  BY DEF Init, SleepInv, Asleep
<1>2. SleepInv => NoOversleep
  BY DEF SleepInv, DeadlineOK, NoOversleep
<1>3. QED
  BY <1>1, <1>2, SleepStep, TypeCorrect, PTL DEF Spec

-----------------------------------------------------------------------------
\* The handshakes, when the host does not stop the emulator: its signal could
\* answer one of them in the place of the timer thread.

InnerLoop == {"sleeping", "evaluating"}

\* What the emulator thread knows of the timer thread at each of its steps.
HandshakeInv ==
  /\ stopPC = "idle"
  /\ emuSignalled => emuPC \in EmuSleeps
  /\ mExiting => emuPC \in {"destroying", "destroyed"}
  /\ mRunning = (emuPC \in {"resuming", "executing", "raisingGPIO", "pausing",
                            "waiting", "stopping"})
  /\ emuPC = "init" =>
       timerPC = "suspended" \/ (timerPC = "starting" /\ ~emuSignalled)
  /\ emuPC = "resuming" =>
       timerPC \in InnerLoop \/ (timerPC = "suspended" /\ ~emuSignalled)
  /\ emuPC = "suspending" =>
       timerPC = "suspended" \/ (timerPC \in InnerLoop /\ ~emuSignalled)
  /\ emuPC = "halted" => timerPC = "suspended"
  /\ emuPC \in {"executing", "raisingGPIO", "pausing", "waiting", "stopping"} =>
       timerPC \in InnerLoop

\* No step of the timer thread breaks what the emulator knows: it leaves its
\* inner loop only when the emulator asked for it, and then signals it.
LEMMA HandshakeTimer ==
  ASSUME TypeOK, WaitInv, HandshakeInv, TimerThread
  PROVE  HandshakeInv'
<1> USE DEF HandshakeInv, InnerLoop, EmuSleeps
<1>1. emuPC' = emuPC /\ mRunning' = mRunning /\ stopPC' = stopPC
  BY DEF TimerThread, TimerSleeps, TimerContinues, TimerSuspends, TimerRestarts,
         TimerStaysSuspended, TimerExits, emuVars, hostVars
<1>2. CASE TimerSleeps
  BY <1>1, <1>2 DEF TimerSleeps, SignalEmulator, WaitInv
<1>3. CASE TimerContinues
  BY <1>1, <1>3 DEF TimerContinues, SleepEnds, Evaluate, emuVars
<1>4. CASE TimerSuspends
  BY <1>1, <1>4 DEF TimerSuspends, SleepEnds, SignalEmulator
<1>5. CASE TimerRestarts
  BY <1>1, <1>5 DEF TimerRestarts, OuterWaitEnds, SignalEmulator, Evaluate
<1>6. CASE TimerStaysSuspended
  BY <1>1, <1>6 DEF TimerStaysSuspended, OuterWaitEnds, SignalEmulator
<1>7. CASE TimerExits
  BY <1>1, <1>7 DEF TimerExits, emuVars
<1>8. QED
  BY <1>2, <1>3, <1>4, <1>5, <1>6, <1>7 DEF TimerThread

LEMMA HandshakeEmulator ==
  ASSUME TypeOK, HandshakeInv, EmulatorThread
  PROVE  HandshakeInv'
<1> USE DEF HandshakeInv, InnerLoop, EmuSleeps
<1>1. timerPC' = timerPC /\ stopPC' = stopPC
  BY EmulatorFrame DEF EmuKeeps, hostVars
<1>2. CASE InitReturns
  BY <1>1, <1>2 DEF InitReturns, EmuWakes
<1>3. CASE ResumeReturns
  BY <1>1, <1>3 DEF ResumeReturns, EmuWakes
<1>4. CASE SuspendReturns
  BY <1>1, <1>4 DEF SuspendReturns, EmuWakes
<1>5. CASE WaitReturns
  BY <1>1, <1>5 DEF WaitReturns, EmuWakes
<1>6. CASE DestroyReturns
  BY <1>1, <1>6 DEF DestroyReturns
<1>7. CASE ResumeTimer
  BY <1>1, <1>7 DEF ResumeTimer
<1>8. CASE SuspendTimer
  <2>1. emuPC \in {"stopping", "executing"}
    BY <1>8 DEF SuspendTimer
  <2>2. /\ emuPC' = "suspending" /\ ~mRunning' /\ mRunning' \in BOOLEAN
        /\ mExiting' = mExiting /\ emuSignalled' = emuSignalled
    BY <1>8 DEF SuspendTimer
  <2>3. ~emuSignalled /\ ~mExiting /\ timerPC \in InnerLoop
    BY <2>1
  <2>4. QED
    BY <1>1, <2>2, <2>3
<1>9. CASE PauseSystem \/ BreakInMonitor
  BY <1>1, <1>9 DEF PauseSystem, BreakInMonitor
<1>10. ASSUME NEW iBit, NEW fBit, WaitUntilInterrupt(iBit, fBit) PROVE HandshakeInv'
  BY <1>1, <1>10 DEF WaitUntilInterrupt
<1>11. CASE CtrlRaisesGPIO
  BY <1>1, <1>11 DEF CtrlRaisesGPIO
<1>12. CASE Destroy
  BY <1>1, <1>12 DEF Destroy
<1>13. ASSUME NEW value \in BOOLEAN, SetGPIOCtrlReg(value) PROVE HandshakeInv'
  BY <1>1, <1>13 DEF SetGPIOCtrlReg, RegisterWrite
<1>14. ASSUME RegisterWrite, emuPC' = emuPC PROVE HandshakeInv'
  BY <1>1, <1>14 DEF RegisterWrite
<1>15. QED
  BY <1>2, <1>3, <1>4, <1>5, <1>6, <1>7, <1>8, <1>9, <1>10, <1>11, <1>12, <1>13, <1>14
     DEF EmulatorThread, EmuReturns, SetTimerMatchRegister, SetIntCtrlReg,
         ClearInterrupts, SetFIQMask, WriteOtherRegister, ClearGPIO

LEMMA HandshakeHost ==
  ASSUME MaxStops = 0, TypeOK, WaitInv, HandshakeInv, HostThreads
  PROVE  HandshakeInv'
<1>1. timerPC' = timerPC /\ emuPC' = emuPC /\ mRunning' = mRunning /\ mExiting' = mExiting
  BY HostFrame DEF HostKeeps
<1>2. ~Stop /\ ~WakeEmulatorThread
  BY DEF Stop, WakeEmulatorThread, HandshakeInv, TypeOK, HostOK
<1>3. stopPC' = stopPC /\ (emuSignalled' # emuSignalled => emuPC = "waiting")
  BY <1>2 DEF HostThreads, DeviceRaises, RaiseGPIO, GPIORaisesInterrupt,
              GPIOWakesEmulator, WaitInv, hostVars
<1>4. QED
  BY <1>1, <1>3 DEF HandshakeInv, EmuSleeps

LEMMA HandshakeAlways ==
  ASSUME MaxStops = 0
  PROVE  Spec => []HandshakeInv
<1>1. Init => HandshakeInv
  <2> SUFFICES ASSUME Init PROVE HandshakeInv
    OBVIOUS
  <2>1. /\ emuPC = "init" /\ timerPC = "starting" /\ stopPC = "idle"
        /\ ~emuSignalled /\ ~mExiting /\ ~mRunning /\ mRunning \in BOOLEAN
    BY DEF Init
  <2>2. QED
    BY <2>1 DEF HandshakeInv
<1>2. TypeOK /\ SignalInv /\ HandshakeInv /\ [Next]_vars => HandshakeInv'
  <2> SUFFICES ASSUME TypeOK, SignalInv, HandshakeInv, [Next]_vars PROVE HandshakeInv'
    OBVIOUS
  <2>1. CASE TimerThread \/ EmulatorThread \/ HostThreads
    BY <2>1, HandshakeTimer, HandshakeEmulator, HandshakeHost DEF SignalInv
  <2>2. CASE Tick \/ UNCHANGED vars
    BY <2>2 DEF Tick, vars, timerVars, emuVars, hostVars, HandshakeInv
  <2>3. QED
    BY <2>1, <2>2 DEF Next
<1>3. QED
  BY <1>1, <1>2, TypeCorrect, SignalAlways, PTL DEF Spec

\* While the host does not stop the emulator, ResumeTimer returns when the timer
\* thread is in its inner loop and SuspendTimer when it has left it.
THEOREM HandshakesAlwaysWait == MaxStops = 0 => (Spec => []HandshakesWaitForThread)
<1> SUFFICES ASSUME MaxStops = 0 PROVE Spec => []HandshakesWaitForThread
  OBVIOUS
<1>1. HandshakeInv => HandshakesWaitForThread
  BY DEF HandshakeInv, HandshakesWaitForThread, InnerLoop
<1>2. QED
  BY <1>1, HandshakeAlways, PTL

\* So an emulated instruction reads a timer that only follows the host clock.
THEOREM GetTimerAlwaysSteady == MaxStops = 0 => (Spec => GetTimerIsSteady)
<1> SUFFICES ASSUME MaxStops = 0 PROVE Spec => GetTimerIsSteady
  OBVIOUS
<1>1. TypeOK /\ HandshakeInv /\ HandshakeInv' /\ [Next]_vars =>
        [emuPC = "executing" /\ emuPC' = "executing" =>
           Minus(now', mTimerDelta')
             \in {Minus(now, mTimerDelta), Plus(Minus(now, mTimerDelta), 1)}]_vars
  <2> SUFFICES ASSUME TypeOK, HandshakeInv, HandshakeInv', [Next]_vars,
                      emuPC = "executing", emuPC' = "executing"
               PROVE  Minus(now', mTimerDelta')
                        \in {Minus(now, mTimerDelta), Plus(Minus(now, mTimerDelta), 1)}
    OBVIOUS
  <2>1. timerPC \in InnerLoop /\ timerPC' \in InnerLoop
    BY DEF HandshakeInv
  <2>2. /\ TimerValue = Minus(now, mTimerDelta)
        /\ TimerValue' = Minus(now', mTimerDelta')
    BY <2>1 DEF TimerValue, InnerLoop
  <2>3. timerPC' # "exited"
    BY <2>1 DEF InnerLoop
  <2>4. QED
    BY <2>2, <2>3, TimeStep
<1>2. QED
  BY <1>1, TypeCorrect, HandshakeAlways, PTL DEF Spec, GetTimerIsSteady
=============================================================================
