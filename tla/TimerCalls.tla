---------------------------- MODULE TimerCalls -----------------------------
(***************************************************************************)
(* Calls of FireTimersAndFindNext: a state is one call and its result, and   *)
(* the next call is made with what it left raised, at any later time.       *)
(***************************************************************************)
EXTENDS TimerMatch

VARIABLES
  raisedBefore,     \* the timers whose interrupt was raised before the call
  host,             \* their match registers, in ticks of the counter
  old, new,         \* the times of the last call and of this one
  fired, next       \* its results

callVars == <<raisedBefore, host, old, new, fired, next>>

CallsInit ==
  /\ raisedBefore \in SUBSET Timers
  /\ host \in [Timers -> Ticks]
  /\ old \in Ticks
  /\ new \in Ticks
  /\ fired = FiredTimers(raisedBefore, host, old, new)
  /\ next = FindNext(raisedBefore \union fired, host, new)

\* The next call is made at a later time with what this one left raised.
CallsNext ==
  /\ old' = new
  /\ new' \in Ticks
  /\ raisedBefore' = raisedBefore \union fired
  /\ UNCHANGED host
  /\ fired' = FiredTimers(raisedBefore', host, old', new')
  /\ next' = FindNext(raisedBefore' \union fired', host, new')

CallsSpec == CallsInit /\ [][CallsNext]_callVars

\* The comparisons by cases raise exactly the timers whose match the counter
\* went through, wrapping or not.
FiresExactly ==
  fired = {k \in Timers \ raisedBefore : Reached(old, new, host[k])}

\* The chain of GetNextTimer calls returns the match that comes first after
\* now, and no match only when every timer has its interrupt raised.
NextIsNearest ==
  LET left == Timers \ (raisedBefore \union fired)
  IN  IF left = {} THEN next = NoMatch
      ELSE IsNearest(new, next, {host[k] : k \in left})
=============================================================================
