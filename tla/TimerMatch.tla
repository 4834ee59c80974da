----------------------------- MODULE TimerMatch -----------------------------
(***************************************************************************)
(* The timer arithmetic of TInterruptManager.  The emulated machine has a   *)
(* few match registers that are compared with a free running tick counter. *)
(* All the quantities are KUInt32: the counter wraps, and so do the sums,   *)
(* at Modulus (2^32 in the program, a small number for TLC).                *)
(*                                                                          *)
(* FireTimersAndFindNext(old, new) answers two questions about the interval *)
(* that begins after the last evaluation and ends now: which matches fell   *)
(* in it, and which of the remaining ones comes first.                      *)
(***************************************************************************)
EXTENDS Integers

CONSTANTS
  Modulus,     \* number of values of the tick counter
  NumTimers    \* number of match registers (4 in the program, fewer for TLC)

ASSUME ModulusAssumption == Modulus \in Nat \ {0}
ASSUME NumTimersAssumption == NumTimers \in 1 .. 4

Ticks  == 0 .. Modulus - 1
Timers == 0 .. NumTimers - 1

\* "No next timer": FireTimersAndFindNext returns false.
NoMatch == -1

Plus(a, b)  == (a + b) % Modulus

\* Mutant: a signed difference.
Minus_Signed(a, b) == a - b

Minus(a, b) == (a - b) % Modulus

-----------------------------------------------------------------------------
(* The code.                                                               *)

\* Mutant: the case of the overflow is forgotten.
MatchFired_NoOverflow(old, new, value) ==
  \/ old < new /\ old < value /\ value <= new
  \/ old = new /\ value = new

\* The three cases of FireTimersAndFindNext: the counter advanced, it
\* overflowed, or it did not move.
MatchFired(old, new, value) ==
  \/ old < new /\ old < value /\ value <= new
  \/ old > new /\ (old < value \/ value <= new)
  \/ old = new /\ value = new

\* Mutant: the earlier register value wins, as if the counter never wrapped.
GetNextTimer_NoWrap(now, a, b) == IF a <= b THEN a ELSE b

GetNextTimer(now, a, b) ==
  LET lo == IF a <= b THEN a ELSE b
      hi == IF a <= b THEN b ELSE a
  IN  IF lo < now /\ now <= hi THEN hi ELSE lo

\* host[k] is the match of timer k as a host tick: match + delta.
FiredTimers(raised, host, old, new) ==
  {k \in Timers : k \notin raised /\ MatchFired(old, new, host[k])}

\* One timer of the chain: a timer whose interrupt is raised takes no part.
NextWith(k, next, raised, host, now) ==
  IF k \notin Timers \/ k \in raised THEN next
  ELSE IF next = NoMatch THEN host[k]
  ELSE GetNextTimer(now, host[k], next)

\* The chain of comparisons through timers 0, 1, 2 and 3.
FindNext(raised, host, now) ==
  LET n0 == NextWith(0, NoMatch, raised, host, now)
      n1 == NextWith(1, n0, raised, host, now)
      n2 == NextWith(2, n1, raised, host, now)
  IN  NextWith(3, n2, raised, host, now)

-----------------------------------------------------------------------------
(* The reference: ticks from one value of the counter to a later one.       *)

Elapsed(from, to) == IF from <= to THEN to - from ELSE to - from + Modulus

\* A match fired when the counter went through it since the last evaluation
\* (or stands on it, when the counter has not moved).
Reached(old, new, value) ==
  IF old = new THEN value = new
               ELSE Elapsed(old, value) \in 1 .. Elapsed(old, new)

IsNearest(now, value, others) ==
  /\ value \in others
  /\ \A other \in others : Elapsed(now, value) <= Elapsed(now, other)
=============================================================================
