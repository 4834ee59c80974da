----------------------------- MODULE MCMonitor -----------------------------
(***************************************************************************)
(* Two components that share no state, checked side by side: each run takes *)
(* one of them through all it can do while the other stands still.          *)
(*   - the calls of FireTimersAndFindNext;                                   *)
(*   - the monitor and its breakpoints: two addresses, a word of the ROM and  *)
(*     one of the RAM.                                                       *)
(***************************************************************************)
EXTENDS TimerCalls, Monitor, TLC

SmallMappings == {("v1" :> "rom") @@ ("v2" :> "ram"), ("v1" :> "fault") @@ ("v2" :> "ram")}

\* Saved in user mode, after a step, with a watch.
SavedWithWatch ==
  [mapping |-> ("v1" :> "rom") @@ ("v2" :> "ram"), pc |-> "v1", userMode |-> TRUE,
   meant |-> ("rom" :> "c1") @@ ("ram" :> "c2"),
   words |-> ("rom" :> "kWatch0BP") @@ ("ram" :> "c2"),
   mBreakpoints |->
     {[fAddress |-> "rom", fOriginalValue |-> "c1", fBPValue |-> "kWatch0BP"]},
   mRunning |-> TRUE, mBPHalted |-> "NULL"]

OneSnapshot == {SavedWithWatch}

-----------------------------------------------------------------------------
CallsIdle ==
  CallsInit /\ raisedBefore = {} /\ old = 0 /\ new = 0 /\ \A k \in Timers : host[k] = 0

MonitorIdle == Init /\ pc = "v1" /\ mapping["v1"] = "rom"

BothInit ==
  \/ CallsInit /\ MonitorIdle
  \/ CallsIdle /\ Init

\* The one that does not take part is where it started.
BothNext ==
  \/ MonitorIdle /\ CallsNext /\ UNCHANGED vars
  \/ CallsIdle /\ Next /\ UNCHANGED callVars

BothSpec == BothInit /\ [][BothNext]_<<callVars, vars>>

-----------------------------------------------------------------------------
\* What can no longer matter is left out of the fingerprints: the command, but for a
\* thread that is about to read it; the flags of the emulator, but where its loop and
\* RunEmulator read them; and, once two threads were in a call at once, the privilege
\* and the history, which no guard reads.
View ==
  <<callVars, mHalted, monitorPC, consolePC, realPC, setting, mBreakpoints, words, mapping,
    pc, userMode, torn, early,
    IF monitorPC = "woken" THEN mCommand ELSE "kNop",
    IF monitorPC = "running" THEN mRunning ELSE FALSE,
    IF monitorPC = "ran" THEN mBPHalted ELSE NULL,
    IF torn THEN <<>>
    ELSE <<mPrivilege, savedPrivilege, meant, overwritten, disabled, missed, raised>>>>
=============================================================================
