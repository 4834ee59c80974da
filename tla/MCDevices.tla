------------------------------ MODULE MCDevices ------------------------------
(***************************************************************************)
(* Three components that share no state, checked side by side: each run     *)
(* takes one of them through all it can do while the others stand still.    *)
(*   - the MMU: a page of a small page, one of the second quarter of a      *)
(*     large page, one of a section; two first level tables, one with a     *)
(*     coarse second level table, one with a fine one;                      *)
(*   - the ring buffer of the sound;                                        *)
(*   - a connection of the network.                                         *)
(***************************************************************************)
EXTENDS TranslationTables, CircleBuffer, UsermodeNetwork, TLC

-----------------------------------------------------------------------------
\* The second page shares its bucket with the first.
SmallPages == {2, 18, 1024}
SmallKeys  == SmallPages \union {NULL}
SmallHash  == (NULL :> 1) @@ (2 :> 0) @@ (18 :> 0) @@ (1024 :> 1)

One(type, domain, ap, base, table) ==
  [type |-> type, domain |-> domain, ap |-> ap, base |-> base, table |-> table]

Two(type, ap, base) ==
  [type |-> type, ap |-> [i \in 0 .. 3 |-> ap[i + 1]], base |-> base]

\* What differs between the memories: the second section of the first table,
\* and the entries 0 and 4 of the coarse table and 2 and 18 of the fine one.
Tabled(second, coarse0, coarse4, fine2, fine18) ==
  [level1 |->
     [b1 |-> [s \in Sections |-> IF s = 0 THEN One("coarse", "d1", 0, 0, "coarse")
                                 ELSE second],
      b2 |-> [s \in Sections |-> IF s = 0 THEN One("fine", "d2", 0, 0, "fine")
                                 ELSE One("external", "d1", 0, 0, "fine")]],
   level2 |->
     [coarse |-> [i \in Indexes |-> IF i = 0 THEN coarse0 ELSE coarse4],
      fine   |-> [i \in Indexes |-> IF i = 2 THEN fine2 ELSE fine18]]]

Small == Two("small", <<1, 2, 3, 0>>, 8)
Large == Two("large", <<2, 3, 0, 1>>, 64)
Mapped   == One("section", "d2", 2, 5120, "coarse")
Unmapped == One("fault", "d2", 0, 0, "coarse")

SmallMemories ==
  {Tabled(Mapped, Small, Large, Two("tiny", <<0, 1, 2, 3>>, 12), Large),
   Tabled(Unmapped, Two("tiny", <<0, 0, 1, 0>>, 16), Two("fault", <<0, 0, 0, 0>>, 0),
           Two("external", <<0, 0, 0, 0>>, 0), Two("small", <<1, 2, 2, 1>>, 20))}

Control(a1, m1, a2, m2) ==
  [d1 |-> [access |-> a1, manager |-> m1], d2 |-> [access |-> a2, manager |-> m2]]

SmallControls == {Control(TRUE, FALSE, TRUE, FALSE)}

SmallStates ==
  {[mMMUEnabled |-> TRUE, mCurrentAPMode |-> 6, mTTBase |-> "b2",
    mDomainAC |-> Control(TRUE, FALSE, FALSE, TRUE),
    mFaultStatus |-> "DomainPage",
    memory |-> Tabled(Mapped, Small, Large, Two("tiny", <<0, 1, 2, 3>>, 12), Large)]}

-----------------------------------------------------------------------------
DevicesInit == Init /\ RingInit /\ NetInit

\* The MMU where it started, with one of its tables.
MMUIdle ==
  /\ Init
  /\ mTTBase = CHOOSE base \in Bases : TRUE
  /\ memory = CHOOSE tables \in Memories : TRUE

\* Those that do not take part are where they started.
DevicesNext ==
  \/ RingInit /\ NetInit /\ Next /\ UNCHANGED ringVars /\ UNCHANGED netVars
  \/ MMUIdle /\ NetInit /\ RingNext /\ UNCHANGED vars /\ UNCHANGED netVars
  \/ MMUIdle /\ RingInit /\ NetNext /\ UNCHANGED vars /\ UNCHANGED ringVars

DevicesSpec == DevicesInit /\ [][DevicesNext]_<<vars, ringVars, netVars>>

SmallAmounts == 1 .. 4
=============================================================================
