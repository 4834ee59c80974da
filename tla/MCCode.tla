------------------------------- MODULE MCCode -------------------------------
(***************************************************************************)
(* An instance of CodeCache for TLC: the ROM is pages 0 to 2, the RAM page  *)
(* 3; the virtual page 4 may be the RAM as well.                            *)
(***************************************************************************)
EXTENDS CodeCache, TLC

Map(p, user) == [pa |-> p, user |-> user]

\* 3 and 4 share their buckets with pages of the ROM.
SmallHash == (0 :> 0) @@ (1 :> 1) @@ (2 :> 2) @@ (3 :> 0) @@ (4 :> 1)

Shared == [v \in 0 .. 4 |-> Map(IF v = 4 THEN 3 ELSE v, v # 3)]
Moved  == [Shared EXCEPT ![3] = Map(2, TRUE), ![4] = Fault]
SmallSpaces == {Shared, Moved}

Symmetric == Permutations(Contents)
=============================================================================
