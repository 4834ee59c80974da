----------------------------- MODULE SharedPins -----------------------------
(***************************************************************************)
(* PlatformManager beside the PCMCIA slots.  When a host thread removes a   *)
(* card, RemoveCard raises a pin of the register that the platform uses:    *)
(* mGPIORaised |= pin, with no lock, is a read and a write on each of the   *)
(* threads.                                                                 *)
(***************************************************************************)
EXTENDS PlatformManager

VARIABLE card   \* per pin of a slot: where its RemoveCard is, the pins it read

allVars == <<vars, card>>

CardInit == Init /\ card = [p \in OtherPins |-> [at |-> "idle", pins |-> {}]]

CardReadsPins(p) ==
  /\ card[p].at = "idle"
  /\ card' = [card EXCEPT ![p] = [at |-> "store", pins |-> mGPIORaised]]
  /\ UNCHANGED vars

CardRaisesPin(p) ==
  /\ card[p].at = "store"
  /\ mGPIORaised' = card[p].pins \union {p}
  /\ card' = [card EXCEPT ![p] = [at |-> "idle", pins |-> {}]]
  /\ UNCHANGED <<eventVars, bufferVars, mPowerOn, mQueueLockCount, host, sent,
                 emuVars, driverVars>>

CardNext ==
  \/ Next /\ UNCHANGED card
  \/ \E p \in OtherPins : CardReadsPins(p) \/ CardRaisesPin(p)

CardSpec == CardInit /\ [][CardNext]_allVars
=============================================================================
