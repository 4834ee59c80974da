--------------------------- MODULE ProcessorModes ---------------------------
(***************************************************************************)
(* The modes of the ARM processor and the banks of registers they use.      *)
(***************************************************************************)
EXTENDS Integers

AllModes    == {"usr", "sys", "svc", "abt", "und", "irq", "fiq"}
Unknown     == "unknown"                     \* any other mode field
Exceptional == AllModes \ {"usr", "sys"}     \* the modes that have a SPSR
Banks       == {"user", "svc", "abt", "und", "irq", "fiq"}

\* The bank of R13 and R14: system mode has the registers of user mode.
HighBank(mode) == IF mode \in {"usr", "sys"} THEN "user" ELSE mode

\* R13 and R14 are banked in every mode, R8 to R12 in FIQ mode only.
BankFor(mode, r) ==
  IF r >= 13 THEN HighBank(mode) ELSE IF mode = "fiq" THEN "fiq" ELSE "user"
=============================================================================
