----------------------------- MODULE EventQueue -----------------------------
(***************************************************************************)
(* What the platform manager promises of its events: NewtonOS takes them in *)
(* the order in which the host sent them, each of them once, and takes      *)
(* every one.                                                               *)
(***************************************************************************)
EXTENDS Sequences

CONSTANT Event   \* the events

VARIABLES
  waiting,       \* sent and not yet taken, the oldest first
  fetched        \* the last one that was taken

vars == <<waiting, fetched>>

Init == waiting = <<>> /\ fetched \in Event

Send(e) == waiting' = Append(waiting, e) /\ UNCHANGED fetched

Fetch ==
  /\ waiting # <<>>
  /\ fetched' = Head(waiting)
  /\ waiting' = Tail(waiting)

Next == Fetch \/ \E e \in Event : Send(e)

Spec == Init /\ [][Next]_vars

\* A waiting event is taken.
Live == WF_vars(Fetch)
=============================================================================
