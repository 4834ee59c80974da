------------------------------- MODULE MCBanks -------------------------------
(***************************************************************************)
(* Instances of RegisterBanks for TLC.                                      *)
(***************************************************************************)
EXTENDS RegisterBanks, FiniteSets, TLC

ReturnModes == {"usr", "sys"}
Aborts      == {"abt", "fiq"}
SafeLists   == {{14}, Registers}
Symmetric   == Permutations(Values)

Handlers == {m \in Exceptional : mSPSR[m] # Unknown}

\* Bound: aborts and FIQs inside one another, with R12 and R14; the other
\* exceptions one at a time, with the same R12 everywhere.
FewHandlers ==
  \/ Handlers \subseteq Aborts /\ mBackup["svc"][14] = mBackup["irq"][14]
  \/ /\ Cardinality(Handlers) = 1
     /\ \A b \in {"user", "fiq"} : mBackup[b][12] = mCurrentRegisters[12]
=============================================================================
