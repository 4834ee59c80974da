---------------------------- MODULE MCInterrupts ----------------------------
(***************************************************************************)
(* Instances of InterruptManager for TLC: the values NewtonOS writes.       *)
(***************************************************************************)
EXTENDS InterruptManager

NoMasks    == {{}}
TimerMasks == {{}, Timers}
AllOnly    == {Ints}
FIQMasks   == {{}, {0}}
AllTicks   == Ticks
FewTicks   == {1}
=============================================================================
