--------------------------- MODULE BankedRegisters ---------------------------
(***************************************************************************)
(* What the banked registers of the ARM promise: each bank has its own copy *)
(* of the registers it covers, an instruction sees the bank of the current  *)
(* mode, and changing mode changes nothing but which bank is seen.          *)
(***************************************************************************)
EXTENDS ProcessorModes

CONSTANTS
  Registers,   \* the banked registers, out of R8 to R14
  Values       \* what a register can hold

VARIABLES file, mode, spsr
vars == <<file, mode, spsr>>

Init ==
  /\ \E v \in Values : file = [b \in Banks |-> [r \in Registers |-> v]]
  /\ mode = "svc"
  /\ spsr = [m \in Exceptional |-> Unknown]

Write(r, v) ==
  /\ file' = [file EXCEPT ![BankFor(mode, r)][r] = v]
  /\ UNCHANGED <<mode, spsr>>

SwitchTo(m) ==
  /\ m \in AllModes
  /\ mode' = m
  /\ UNCHANGED <<file, spsr>>

\* An unknown mode is unpredictable, but spares the banks that are not in use.
SwitchToUnknown ==
  /\ \E low \in [Registers -> Values] :
       file' = [file EXCEPT !["fiq"] =
                  [r \in Registers |-> IF mode = "fiq" /\ r < 13 THEN low[r] ELSE @[r]]]
  /\ UNCHANGED <<mode, spsr>>

WriteSPSR(m) ==
  /\ mode \in Exceptional
  /\ spsr' = [spsr EXCEPT ![mode] = m]
  /\ UNCHANGED <<file, mode>>

\* An exception saves the mode it interrupts and its return address in the bank
\* of the mode it enters.
Enter(m, link) ==
  /\ file' = [file EXCEPT ![m][14] = link]
  /\ spsr' = [spsr EXCEPT ![m] = mode]
  /\ mode' = m

\* The user registers with the words of vals loaded in those of list; R13 and
\* R14 are unpredictable in the modes where they are the current registers.
Loaded(list, vals, kept) ==
  [file EXCEPT !["user"] =
     [r \in Registers |-> IF r \in list \ kept THEN vals[r] ELSE @[r]]]

Keepable == IF mode \in {"usr", "sys"} THEN {{}, {13}, {14}, {13, 14}} ELSE {{}}

LoadUser(list, vals) ==
  /\ \E kept \in Keepable : file' = Loaded(list, vals, kept)
  /\ UNCHANGED <<mode, spsr>>

\* The load faults after some of the words: a data abort.
LoadUserAborts(list, vals, link) ==
  /\ \E kept \in Keepable : file' = [Loaded(list, vals, kept) EXCEPT !["abt"][14] = link]
  /\ spsr' = [spsr EXCEPT !["abt"] = mode]
  /\ mode' = "abt"

Next ==
  \/ \E r \in Registers, v \in Values : Write(r, v)
  \/ \E m \in AllModes : SwitchTo(m)
  \/ SwitchToUnknown
  \/ \E m \in AllModes \union {Unknown} : WriteSPSR(m)
  \/ \E m \in Exceptional, link \in Values : Enter(m, link)
  \/ \E list \in SUBSET Registers, vals \in [Registers -> Values] :
       \/ LoadUser(list, vals)
       \/ \E link \in Values : LoadUserAborts(list, vals, link)

Spec == Init /\ [][Next]_vars
=============================================================================
