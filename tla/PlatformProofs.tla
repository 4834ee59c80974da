--------------------------- MODULE PlatformProofs ---------------------------
(***************************************************************************)
(* The safety properties of PlatformManager, and that its array of events   *)
(* is the queue of EventQueue, for every number of host threads, classes of *)
(* events, sizes and growths of the two arrays:                             *)
(*                                                                          *)
(*   - TypeOK, from TInv: the cells between the cursors were written;       *)
(*   - NoForgottenEvent and LockIsBalanced, from PinInv: the locks in hand   *)
(*     are counted, and whoever leaves an event in the queue has its        *)
(*     announcement still to make;                                          *)
(*   - ImplementsQueue: a send appends to the waiting events, a fetch takes *)
(*     the first of them, and nothing else changes them;                    *)
(*   - BuffersFollowEvents, from BufferInv: an event has one place on its    *)
(*     way from the host thread to the reply, and each place that holds a   *)
(*     buffer has the one record of its identifier.  Identifiers come round *)
(*     after IDs sends, when a thread that has not sent its event yet could *)
(*     meet another one with its own: the theorem is about fewer sends.     *)
(***************************************************************************)
EXTENDS PlatformManager, SequenceTheorems, WellFoundedInduction, TLAPS

\* The cells between the cursors are events.
EventsWritten ==
  \A i \in mEventQueueCCrsr .. mEventQueuePCrsr - 1 : mEventQueue[i] \in Event

\* The cells below the count are records of buffers.
RecordsWritten == \A i \in 0 .. mBufferCount - 1 : mBufferQueue[i] \in Buffer

\* TypeOK with what makes it inductive: only written cells are read.
TInv == TypeOK /\ EventsWritten /\ RecordsWritten

\* A set of numbers that is not empty has a smallest one.
LEMMA SmallestOfNaturals ==
  ASSUME NEW S \in SUBSET Nat, S # {}
  PROVE  \E i \in S : \A j \in S : i <= j
<1>1. PICK i \in S : \A j \in S : ~ (<<j, i>> \in OpToRel(<, Nat))
  BY NatLessThanWellFounded, WFMin
<1>2. \A j \in S : ~ (j < i)
  BY <1>1 DEF OpToRel
<1> QED  BY <1>2

\* The loop over the buffers ends at a record with the identifier, if there is one.
LEMMA FirstIsARecord ==
  ASSUME NEW id, RecordsOf(id) # {}
  PROVE  FirstOf(id) \in RecordsOf(id)
<1>1. RecordsOf(id) \in SUBSET Nat  BY DEF RecordsOf
<1>2. \E i \in RecordsOf(id) : \A j \in RecordsOf(id) : i <= j
  BY <1>1, SmallestOfNaturals
<1> QED  BY <1>2 DEF FirstOf

\* realloc keeps the cells that still fit.
LEMMA ReallocKeeps ==
  ASSUME NEW S, NEW n \in Nat, NEW m \in Nat, NEW a \in [0 .. n - 1 -> S \union {Garbage}]
  PROVE  /\ Realloc(a, m) \in [0 .. m - 1 -> S \union {Garbage}]
         /\ \A i \in 0 .. n - 1 : i < m => Realloc(a, m)[i] = a[i]
BY DEF Realloc

\* After the growth there is a cell left, and no old cell is lost.
LEMMA GrownFits ==
  ASSUME NEW n \in Nat, NEW size \in Nat, n <= size, NEW increment \in Nat \ {0}
  PROVE  /\ Grown(n, size, increment) \in Nat
         /\ n < Grown(n, size, increment)
         /\ size <= Grown(n, size, increment)
BY DEF Grown

\* What the host threads send are events.
LEMMA EventTypes ==
  /\ \A c \in Classes : Plain(c) \in Event
  /\ NoEvent \in Event
  /\ \A e \in Event : e.class \in Classes /\ (e.buffer # NoBuffer => e.buffer \in 0 .. IDs - 1)
BY DEF Event, Plain, NoEvent, Classes

LEMMA HostType ==
  ASSUME host \in [Hosts -> [at : HostPCs, event : Event, pins : SUBSET Pins]],
         NEW h \in Hosts, NEW pc \in HostPCs, NEW e \in Event, NEW pins \in SUBSET Pins
  PROVE  [host EXCEPT ![h] = [at |-> pc, event |-> e, pins |-> pins]]
            \in [Hosts -> [at : HostPCs, event : Event, pins : SUBSET Pins]]
OBVIOUS

LEMMA TypeInit == Init => TInv
<1> SUFFICES ASSUME Init PROVE TInv  OBVIOUS
<1>1. TypeOK
  BY SizesAssumption, EventTypes, EmptySeq DEF Init, TypeOK, HostPCs, EmuPCs, Pins, Platform
<1> QED  BY <1>1 DEF Init, TInv, EventsWritten, RecordsWritten

\* TInv by the variables an action changes together.
EventsOK ==
  /\ mEventQueueSize \in Nat /\ mEventQueueSize >= EventQueueSize
  /\ mEventQueuePCrsr \in 0 .. mEventQueueSize - 1
  /\ mEventQueueCCrsr \in 0 .. mEventQueuePCrsr
  /\ mEventQueue \in [0 .. mEventQueueSize - 1 -> Event \union {Garbage}]
  /\ EventsWritten

BuffersOK ==
  /\ mBufferQueueSize \in Nat /\ mBufferCount \in 0 .. mBufferQueueSize - 1
  /\ mBufferQueue \in [0 .. mBufferQueueSize - 1 -> Buffer \union {Garbage}]
  /\ mBufferNextID \in 0 .. IDs - 1
  /\ RecordsWritten

ThreadsOK ==
  /\ mPowerOn \in BOOLEAN /\ mQueueLockCount \in Nat
  /\ mGPIORaised \in SUBSET Pins
  /\ sent \in Nat
  /\ emuPC \in EmuPCs /\ emuPin \in Pins /\ emuPins \in SUBSET Pins

HostsOK == host \in [Hosts -> [at : HostPCs, event : Event, pins : SUBSET Pins]]

DriverOK ==
  /\ mEvent \in Event /\ inFlight \in Seq(Event) /\ replies \in Nat
  /\ copied \in BufferClasses \union {NoBuffer, Garbage}

LEMMA Parts == TInv <=> EventsOK /\ BuffersOK /\ ThreadsOK /\ HostsOK /\ DriverOK
BY DEF TInv, TypeOK, EventsOK, BuffersOK, ThreadsOK, HostsOK, DriverOK

\* A host thread has an event to send.
LEMMA SendsStep ==
  ASSUME HostsOK, sent \in Nat, NEW h \in Hosts, NEW e \in Event, Sends(h, e)
  PROVE  HostsOK' /\ sent' \in Nat
<1>1. host' = [host EXCEPT ![h].at = "send", ![h].event = e]  BY DEF Sends
<1>2. "send" \in HostPCs  BY DEF HostPCs
<1>3. HostsOK'
  <2> DEFINE T == [at : HostPCs, event : Event, pins : SUBSET Pins]
  <2>1. [host[h] EXCEPT !.at = "send", !.event = e] \in T  BY <1>2 DEF HostsOK
  <2>2. host' = [host EXCEPT ![h] = [host[h] EXCEPT !.at = "send", !.event = e]]
    BY <1>1 DEF HostsOK
  <2> QED  BY <2>1, <2>2 DEF HostsOK
<1> QED  BY <1>3 DEF Sends

\* SendAEvent, with the growth of the queue: the event is in the cell the cursor was
\* at, and the waiting ones are where they were.
LEMMA InsertStep ==
  ASSUME EventsOK, NEW e \in Event, Insert(e), UNCHANGED mEventQueueCCrsr
  PROVE  /\ EventsOK'
         /\ mEventQueuePCrsr' = mEventQueuePCrsr + 1
         /\ \A i \in mEventQueueCCrsr .. mEventQueuePCrsr - 1 : mEventQueue'[i] = mEventQueue[i]
         /\ mEventQueue'[mEventQueuePCrsr] = e
<1> DEFINE a == [mEventQueue EXCEPT ![mEventQueuePCrsr] = e]
           size == Grown(mEventQueuePCrsr + 1, mEventQueueSize, EventQueueIncrement)
<1>1. /\ size \in Nat /\ mEventQueuePCrsr + 1 < size /\ mEventQueueSize <= size
  BY GrownFits, SizesAssumption DEF EventsOK
<1>2. a \in [0 .. mEventQueueSize - 1 -> Event \union {Garbage}]
  BY DEF EventsOK
<1>3. mEventQueue' = Realloc(a, size) /\ mEventQueueSize' = size /\ mEventQueuePCrsr' = mEventQueuePCrsr + 1
  BY DEF Insert
<1> HIDE DEF size
<1>4. /\ mEventQueue' \in [0 .. size - 1 -> Event \union {Garbage}]
      /\ \A i \in 0 .. mEventQueueSize - 1 : mEventQueue'[i] = a[i]
  <2> HIDE DEF a
  <2>1. \A i \in 0 .. mEventQueueSize - 1 : i < size  BY <1>1 DEF EventsOK
  <2> QED  BY <1>1, <1>2, <1>3, <2>1 DEF EventsOK, Realloc
<1>5. /\ \A i \in mEventQueueCCrsr .. mEventQueuePCrsr - 1 : mEventQueue'[i] = mEventQueue[i]
      /\ mEventQueue'[mEventQueuePCrsr] = e
  BY <1>4 DEF EventsOK
<1>6. EventsWritten'
  <2> SUFFICES ASSUME NEW i \in mEventQueueCCrsr' .. mEventQueuePCrsr' - 1
               PROVE  mEventQueue'[i] \in Event
    BY DEF EventsWritten
  <2>0. i \in mEventQueueCCrsr .. mEventQueuePCrsr  BY <1>3 DEF EventsOK
  <2>1. CASE i = mEventQueuePCrsr  BY <1>5, <2>1
  <2>2. CASE i # mEventQueuePCrsr
    <3>1. i \in mEventQueueCCrsr .. mEventQueuePCrsr - 1  BY <2>0, <2>2 DEF EventsOK
    <3> QED  BY <1>5, <3>1 DEF EventsOK, EventsWritten
  <2> QED  BY <2>1, <2>2
<1>7. mEventQueueSize' \in Nat /\ mEventQueueSize' >= EventQueueSize
  BY <1>1, <1>3, SizesAssumption DEF EventsOK
<1>8. mEventQueuePCrsr' \in 0 .. mEventQueueSize' - 1 /\ mEventQueueCCrsr' \in 0 .. mEventQueuePCrsr'
  BY <1>1, <1>3 DEF EventsOK
<1>9. EventsOK'  BY <1>3, <1>4, <1>6, <1>7, <1>8 DEF EventsOK
<1> QED  BY <1>3, <1>5, <1>9

\* An empty queue starts anew, in an array of the first size.
LEMMA ResetStep ==
  ASSUME EventsOK, FindNoEvent PROVE EventsOK'
<1>1. mEventQueue' \in [0 .. EventQueueSize - 1 -> Event \union {Garbage}]
  BY ReallocKeeps, SizesAssumption DEF EventsOK, FindNoEvent
<1> QED  BY <1>1, SizesAssumption DEF EventsOK, EventsWritten, FindNoEvent

\* AddBuffer, with the growth: the record is the last one, the others stay.
LEMMA AddStep ==
  ASSUME BuffersOK, NEW h, NEW c \in BufferClasses, AddBuffer(h, c)
  PROVE  /\ BuffersOK'
         /\ mBufferCount' = mBufferCount + 1
         /\ \A i \in 0 .. mBufferCount - 1 : mBufferQueue'[i] = mBufferQueue[i]
         /\ mBufferQueue'[mBufferCount] = [fID |-> mBufferNextID, fData |-> c]
<1> DEFINE r == [fID |-> mBufferNextID, fData |-> c]
           size == Grown(mBufferCount + 1, mBufferQueueSize, BufferQueueIncrement)
           a == Realloc(mBufferQueue, size)
<1>1. /\ size \in Nat /\ mBufferCount + 1 < size /\ mBufferQueueSize <= size
  BY GrownFits, SizesAssumption DEF BuffersOK
<1>2. /\ mBufferQueue' = [a EXCEPT ![mBufferCount] = r]
      /\ mBufferQueueSize' = size /\ mBufferCount' = mBufferCount + 1
      /\ mBufferNextID' = (mBufferNextID + 1) % IDs
  BY DEF AddBuffer
<1>3. r \in Buffer  BY DEF BuffersOK, Buffer
<1>4. mBufferNextID' \in 0 .. IDs - 1
  BY <1>2, SizesAssumption DEF BuffersOK
<1> HIDE DEF size, r
<1>5. /\ a \in [0 .. size - 1 -> Buffer \union {Garbage}]
      /\ \A i \in 0 .. mBufferQueueSize - 1 : a[i] = mBufferQueue[i]
  <2>1. \A i \in 0 .. mBufferQueueSize - 1 : i < size  BY <1>1 DEF BuffersOK
  <2> QED  BY <1>1, <2>1 DEF BuffersOK, Realloc, a
<1> HIDE DEF a
<1>6. /\ mBufferQueue' \in [0 .. size - 1 -> Buffer \union {Garbage}]
      /\ \A i \in 0 .. mBufferCount - 1 : mBufferQueue'[i] = mBufferQueue[i]
      /\ mBufferQueue'[mBufferCount] = r
  BY <1>1, <1>2, <1>3, <1>5 DEF BuffersOK
<1> QED  BY <1>1, <1>2, <1>3, <1>4, <1>6 DEF BuffersOK, RecordsWritten, r

\* DisposeBuffer moves the records after the one it removes down by one.
LEMMA RemoveStep ==
  ASSUME BuffersOK, NEW i \in 0 .. mBufferCount - 1, RemoveRecord(i),
         UNCHANGED <<mBufferQueueSize, mBufferNextID>>
  PROVE  /\ BuffersOK'
         /\ mBufferCount' = mBufferCount - 1
         /\ \A k \in 0 .. mBufferCount - 2 :
              mBufferQueue'[k] = IF k < i THEN mBufferQueue[k] ELSE mBufferQueue[k + 1]
<1>1. /\ mBufferCount' = mBufferCount - 1
      /\ mBufferQueue' \in [0 .. mBufferQueueSize - 1 -> Buffer \union {Garbage}]
      /\ \A k \in 0 .. mBufferCount - 2 :
            mBufferQueue'[k] = IF k < i THEN mBufferQueue[k] ELSE mBufferQueue[k + 1]
  BY DEF BuffersOK, RemoveRecord
<1> QED  BY <1>1 DEF BuffersOK, RecordsWritten

\* Each action keeps the types.
LEMMA TypeStep == TInv /\ [Next]_vars => TInv'
<1> SUFFICES ASSUME TInv, [Next]_vars PROVE TInv'  OBVIOUS
<1>p. EventsOK' /\ BuffersOK' /\ ThreadsOK' /\ HostsOK' /\ DriverOK' => TInv'
  BY DEF TInv, TypeOK, EventsOK, BuffersOK, ThreadsOK, HostsOK, DriverOK
<1>0. EventsOK /\ BuffersOK /\ ThreadsOK /\ HostsOK /\ DriverOK  BY Parts
<1>1. UNCHANGED eventVars => EventsOK'
  BY <1>0 DEF EventsOK, EventsWritten, eventVars
<1>2. UNCHANGED bufferVars => BuffersOK'
  BY <1>0 DEF BuffersOK, RecordsWritten, bufferVars
<1>3. UNCHANGED driverVars => DriverOK'
  BY <1>0 DEF DriverOK, driverVars
<1>4. UNCHANGED host => HostsOK'
  BY <1>0 DEF HostsOK
<1> USE DEF HostPCs, EmuPCs, Pins
<1>5. ASSUME NEW h \in Hosts, HostStep(h) PROVE TInv'
  <2>1. ASSUME NEW c \in PlainClasses, SendPlainEvent(h, c) PROVE TInv'
    <3>1. HostsOK' /\ ThreadsOK'
      <4>1. Plain(c) \in Event  BY EventTypes DEF Classes
      <4>2. HostsOK' /\ sent' \in Nat
        BY <1>0, <2>1, <4>1, SendsStep DEF SendPlainEvent, ThreadsOK
      <4> QED  BY <1>0, <2>1, <4>2 DEF SendPlainEvent, ThreadsOK, emuVars
    <3> QED  BY <1>1, <1>2, <1>3, <2>1, <3>1, <1>p DEF SendPlainEvent
  <2>2. ASSUME NEW c \in BufferClasses, AddBuffer(h, c) PROVE TInv'
    <3>1. [class |-> c, buffer |-> mBufferNextID] \in Event
      BY <1>0 DEF BuffersOK, Event, Classes
    <3>2. HostsOK' /\ ThreadsOK'
      <4>1. HostsOK' /\ sent' \in Nat
        BY <1>0, <2>2, <3>1, SendsStep DEF AddBuffer, ThreadsOK
      <4> QED  BY <1>0, <2>2, <4>1 DEF AddBuffer, ThreadsOK, emuVars
    <3>3. BuffersOK'  BY <1>0, <2>2, AddStep
    <3> QED  BY <1>1, <1>3, <2>2, <3>2, <3>3, <1>p DEF AddBuffer
  <2>3. CASE SendPowerSwitchEvent(h)
    <3>1. HostsOK' /\ ThreadsOK'
      BY <1>0, <2>3, EventTypes DEF SendPowerSwitchEvent, Sends, Goes, HostsOK, ThreadsOK, Classes, emuVars
    <3> QED  BY <1>1, <1>2, <1>3, <2>3, <3>1, <1>p DEF SendPowerSwitchEvent
  <2>4. CASE SendAEvent(h)
    <3>1. HostsOK' /\ ThreadsOK'
      BY <1>0, <2>4, EventTypes DEF SendAEvent, HostsOK, ThreadsOK, emuVars
    <3>2. EventsOK'
      <4>1. host[h].event \in Event  BY <1>0 DEF HostsOK
      <4> QED  BY <1>0, <2>4, <4>1, InsertStep DEF SendAEvent
    <3> QED  BY <1>2, <1>3, <2>4, <3>1, <3>2, <1>p DEF SendAEvent
  <2>5. CASE NotifyDriver(h)
    <3>1. HostsOK' /\ ThreadsOK'
      BY <1>0, <2>5 DEF NotifyDriver, Goes, HostsOK, ThreadsOK, emuVars
    <3> QED  BY <1>1, <1>2, <1>3, <2>5, <3>1, <1>p DEF NotifyDriver
  <2>6. CASE ReadPins(h)
    <3>1. HostsOK' /\ ThreadsOK'
      BY <1>0, <2>6 DEF ReadPins, HostsOK, ThreadsOK, emuVars
    <3> QED  BY <1>1, <1>2, <1>3, <2>6, <3>1, <1>p DEF ReadPins
  <2>7. CASE RaisePlatformInterrupt(h)
    <3>1. HostsOK' /\ ThreadsOK'
      BY <1>0, <2>7 DEF RaisePlatformInterrupt, HostsOK, ThreadsOK, emuVars
    <3> QED  BY <1>1, <1>2, <1>3, <2>7, <3>1, <1>p DEF RaisePlatformInterrupt
  <2> QED  BY <1>5, <2>1, <2>2, <2>3, <2>4, <2>5, <2>6, <2>7 DEF HostStep
<1>6. ASSUME NEW p \in Pins, TakeInterrupt(p) PROVE TInv'
  <2>1. ThreadsOK'  BY <1>0, <1>6 DEF TakeInterrupt, ThreadsOK
  <2> QED  BY <1>1, <1>2, <1>3, <1>4, <1>6, <2>1, <1>p DEF TakeInterrupt
<1>7. ASSUME Handler PROVE TInv'
  <2>1. CASE ClearGPIO
    <3>1. ThreadsOK'  BY <1>0, <2>1 DEF ClearGPIO, ThreadsOK
    <3> QED  BY <1>1, <1>2, <1>3, <1>4, <2>1, <3>1, <1>p DEF ClearGPIO
  <2>2. CASE LockEventQueue
    <3>1. ThreadsOK'  BY <1>0, <2>2 DEF LockEventQueue, ThreadsOK
    <3> QED  BY <1>1, <1>2, <1>3, <1>4, <2>2, <3>1, <1>p DEF LockEventQueue
  <2>3. CASE TakeEvent
    <3>1. ThreadsOK'  BY <1>0, <2>3 DEF TakeEvent, ThreadsOK
    <3>2. EventsOK'  BY <1>0, <2>3 DEF TakeEvent, EventsOK, EventsWritten
    <3>3. mEvent' \in Event  BY <1>0, <2>3 DEF TakeEvent, EventsOK, EventsWritten
    <3>4. DriverOK'  BY <1>0, <2>3, <3>3, AppendProperties DEF TakeEvent, DriverOK
    <3> QED  BY <1>2, <1>4, <2>3, <3>1, <3>2, <3>4, <1>p DEF TakeEvent
  <2>4. CASE FindNoEvent
    <3>1. ThreadsOK'  BY <1>0, <2>4 DEF FindNoEvent, AfterNoEvent, ThreadsOK
    <3>2. EventsOK'  BY <1>0, <2>4, ResetStep
    <3> QED  BY <1>2, <1>3, <1>4, <2>4, <3>1, <3>2, <1>p DEF FindNoEvent
  <2>5. CASE UnlockEventQueue
    <3>1. ThreadsOK'  BY <1>0, <2>5 DEF UnlockEventQueue, ThreadsOK
    <3>2. DriverOK'  BY <1>0, <2>5 DEF UnlockEventQueue, DriverOK
    <3> QED  BY <1>1, <1>2, <1>4, <2>5, <3>1, <3>2, <1>p DEF UnlockEventQueue
  <2>6. CASE TestQueue
    <3>1. ThreadsOK'  BY <1>0, <2>6 DEF TestQueue, ThreadsOK
    <3> QED  BY <1>1, <1>2, <1>3, <1>4, <2>6, <3>1, <1>p DEF TestQueue
  <2>7. CASE RaiseAgain
    <3>1. ThreadsOK'  BY <1>0, <2>7 DEF RaiseAgain, ThreadsOK
    <3> QED  BY <1>1, <1>2, <1>3, <1>4, <2>7, <3>1, <1>p DEF RaiseAgain
  <2> QED  BY <1>7, <2>1, <2>2, <2>3, <2>4, <2>5, <2>6, <2>7 DEF Handler
<1>8. ASSUME Newton PROVE TInv'
  <2>1. CASE AnswerPlainEvent
    <3>1. ThreadsOK'  BY <1>0, <2>1 DEF AnswerPlainEvent, ThreadsOK, emuVars
    <3>2. DriverOK'  BY <1>0, <2>1, HeadTailProperties DEF AnswerPlainEvent, DriverOK
    <3> QED  BY <1>1, <1>2, <1>4, <2>1, <3>1, <3>2, <1>p DEF AnswerPlainEvent
  <2>2. CASE CopyBufferData
    <3>1. ThreadsOK'  BY <1>0, <2>2 DEF CopyBufferData, ThreadsOK, emuVars
    <3>2. \A id : RecordsOf(id) # {} => mBufferQueue[FirstOf(id)].fData \in BufferClasses
      <4> SUFFICES ASSUME NEW id, RecordsOf(id) # {}
                   PROVE  mBufferQueue[FirstOf(id)].fData \in BufferClasses
        OBVIOUS
      <4>1. FirstOf(id) \in 0 .. mBufferCount - 1  BY FirstIsARecord DEF RecordsOf
      <4> QED  BY <1>0, <4>1 DEF BuffersOK, RecordsWritten, Buffer
    <3>3. DriverOK'  BY <1>0, <2>2, <3>2 DEF CopyBufferData, DriverOK
    <3> QED  BY <1>1, <1>2, <1>4, <2>2, <3>1, <3>3, <1>p DEF CopyBufferData
  <2>3. CASE DisposeBuffer
    <3>1. ThreadsOK'  BY <1>0, <2>3 DEF DisposeBuffer, ThreadsOK, emuVars
    <3>2. DriverOK'  BY <1>0, <2>3, HeadTailProperties DEF DisposeBuffer, DriverOK
    <3>3. BuffersOK'
      <4> DEFINE id == Head(inFlight).buffer
      <4>1. CASE RecordsOf(id) # {}
        <5>1. FirstOf(id) \in 0 .. mBufferCount - 1  BY <4>1, FirstIsARecord DEF RecordsOf
        <5> QED  BY <1>0, <2>3, <4>1, <5>1, RemoveStep DEF DisposeBuffer
      <4>2. CASE RecordsOf(id) = {}
        BY <1>2, <2>3, <4>2 DEF DisposeBuffer, bufferVars
      <4> QED  BY <4>1, <4>2
    <3> QED  BY <1>1, <1>4, <2>3, <3>1, <3>2, <3>3, <1>p DEF DisposeBuffer
  <2> QED  BY <1>8, <2>1, <2>2, <2>3 DEF Newton
<1>9. CASE SetPower
  <2>1. ThreadsOK'  BY <1>0, <1>9 DEF SetPower, ThreadsOK, emuVars
  <2> QED  BY <1>1, <1>2, <1>3, <1>4, <1>9, <2>1, <1>p DEF SetPower
<1>10. CASE UNCHANGED vars
  <2>1. ThreadsOK'  BY <1>0, <1>10 DEF vars, ThreadsOK, emuVars
  <2> QED  BY <1>1, <1>2, <1>3, <1>4, <1>10, <2>1, <1>p DEF vars
<1> QED  BY <1>5, <1>6, <1>7, <1>8, <1>9, <1>10 DEF Next

\* The fields of the manager keep their types: no cursor leaves its array and no
\* cell is read that was never written, whatever the sizes and the growths.
THEOREM TypeCorrect == Spec => []TypeOK
<1>1. TInv => TypeOK  BY DEF TInv
<1> QED  BY TypeInit, TypeStep, <1>1, PTL DEF Spec

-----------------------------------------------------------------------------
\* Every lock is held by a message that is not answered, a reply that has not
\* unlocked yet, or the handler.
LocksInHand ==
  mQueueLockCount =
    Len(inFlight) + replies + (IF emuPC \in {"get", "unlock"} THEN 1 ELSE 0)

\* Without other writers of the register, it holds the pin of the platform or none.
OnlyThePlatform ==
  /\ mGPIORaised \subseteq {Platform} /\ emuPins \subseteq {Platform}
  /\ \A h \in Hosts : host[h].pins \subseteq {Platform}
  /\ emuPC = "clear" => emuPin = Platform

\* The pin is raised or will be, or the handler will look at the queue, now or when
\* the reply unlocks it.
Announced ==
  \/ Platform \in mGPIORaised
  \/ \E h \in Hosts : host[h].at \in {"notify", "raise", "store"}
  \/ emuPC # "newton" \/ inFlight # <<>> \/ replies > 0

\* An event that waits is announced, in every state and not only when all is quiet.
NoneForgotten == mEventQueueCCrsr # mEventQueuePCrsr => Announced

PinInv == LocksInHand /\ OnlyThePlatform /\ NoneForgotten

LEMMA PinInit == Init => PinInv
BY EmptySeq DEF Init, PinInv, LocksInHand, OnlyThePlatform, NoneForgotten

LEMMA FlightLen ==
  ASSUME TInv
  PROVE  Len(inFlight) \in Nat /\ (inFlight # <<>> <=> Len(inFlight) > 0)
BY EmptySeq DEF TInv, TypeOK

\* A message that is sent, or answered, is counted.
LEMMA FlightGrows ==
  ASSUME TInv, TakeEvent
  PROVE  Len(inFlight') = Len(inFlight) + 1 /\ inFlight' # <<>>
<1>1. inFlight \in Seq(Event) /\ mEventQueue[mEventQueueCCrsr] \in Event
  BY DEF TInv, TypeOK, TakeEvent, EventsWritten
<1>2. inFlight' = Append(inFlight, mEventQueue[mEventQueueCCrsr])
  BY DEF TakeEvent
<1>3. Len(inFlight') = Len(inFlight) + 1
  BY <1>1, <1>2, AppendProperties
<1> QED  BY <1>3, FlightLen, EmptySeq

LEMMA FlightShrinks ==
  ASSUME TInv, AnswerPlainEvent \/ DisposeBuffer
  PROVE  Len(inFlight') = Len(inFlight) - 1
<1>1. inFlight \in Seq(Event)
  BY DEF TInv, TypeOK
<1>2. inFlight # <<>> /\ inFlight' = Tail(inFlight)
  BY DEF AnswerPlainEvent, DisposeBuffer
<1> QED  BY <1>1, <1>2, HeadTailProperties

\* Each action that locks, unlocks, sends a message or answers one keeps the count.
LEMMA LockStep ==
  ASSUME TInv, TInv', LocksInHand, [Next]_vars PROVE LocksInHand'
<1> USE FlightLen DEF LocksInHand
<1>0. replies \in Nat /\ Len(inFlight) \in Nat  BY DEF TInv, TypeOK
<1>1. ASSUME NEW h \in Hosts, HostStep(h) PROVE LocksInHand'
  BY <1>1 DEF HostStep, SendPlainEvent, AddBuffer, SendPowerSwitchEvent, SendAEvent, NotifyDriver, ReadPins,
     RaisePlatformInterrupt, emuVars, driverVars
<1>2. ASSUME NEW p \in Pins, TakeInterrupt(p) PROVE LocksInHand'
  BY <1>2 DEF TakeInterrupt, driverVars
<1>3. CASE ClearGPIO  BY <1>3 DEF ClearGPIO, driverVars
<1>4. CASE LockEventQueue  BY <1>4 DEF LockEventQueue, driverVars, TInv, TypeOK
<1>5. CASE TakeEvent
  <2>1. Len(inFlight') = Len(inFlight) + 1  BY <1>5, FlightGrows
  <2>2. emuPC = "get" /\ emuPC' = "newton" /\ UNCHANGED <<mQueueLockCount, replies>>
    BY <1>5 DEF TakeEvent
  <2> QED  BY <1>0, <2>1, <2>2
<1>6. CASE FindNoEvent  BY <1>6 DEF FindNoEvent, AfterNoEvent, driverVars
<1>7. CASE UnlockEventQueue
  <2>0. replies \in Nat /\ Len(inFlight) \in Nat  BY DEF TInv, TypeOK
  <2>1. CASE emuPC = "unlock" /\ UNCHANGED replies
    BY <1>7, <2>0, <2>1 DEF UnlockEventQueue
  <2>2. CASE emuPC = "newton" /\ replies > 0 /\ replies' = replies - 1
    BY <1>7, <2>0, <2>2 DEF UnlockEventQueue
  <2> QED  BY <1>7, <2>1, <2>2 DEF UnlockEventQueue
<1>8. CASE TestQueue  BY <1>8 DEF TestQueue, driverVars
<1>9. CASE RaiseAgain  BY <1>9 DEF RaiseAgain, driverVars
<1>10. CASE AnswerPlainEvent
  <2>1. Len(inFlight') = Len(inFlight) - 1  BY <1>10, FlightShrinks
  <2>2. replies' = replies + 1 /\ UNCHANGED <<mQueueLockCount, emuPC>>
    BY <1>10 DEF AnswerPlainEvent, emuVars
  <2> QED  BY <1>0, <2>1, <2>2
<1>11. CASE CopyBufferData  BY <1>11 DEF CopyBufferData, emuVars
<1>12. CASE DisposeBuffer
  <2>1. Len(inFlight') = Len(inFlight) - 1  BY <1>12, FlightShrinks
  <2>2. replies' = replies + 1 /\ UNCHANGED <<mQueueLockCount, emuPC>>
    BY <1>12 DEF DisposeBuffer, emuVars
  <2> QED  BY <1>0, <2>1, <2>2
<1>13. CASE SetPower  BY <1>13 DEF SetPower, emuVars, driverVars
<1>14. CASE UNCHANGED vars  BY <1>14 DEF vars, emuVars, driverVars
<1> QED  BY <1>1, <1>2, <1>3, <1>4, <1>5, <1>6, <1>7, <1>8, <1>9, <1>10, <1>11, <1>12, <1>13, <1>14
         DEF Next, Handler, Newton

LEMMA PlatformStep ==
  ASSUME TInv, OnlyThePlatform, [Next]_vars PROVE OnlyThePlatform'
<1> USE DEF OnlyThePlatform, TInv, TypeOK
<1>1. ASSUME NEW h \in Hosts, HostStep(h) PROVE OnlyThePlatform'
  <2>1. CASE RaisePlatformInterrupt(h)
    BY <2>1 DEF RaisePlatformInterrupt, emuVars
  <2>2. CASE ReadPins(h)
    BY <2>2 DEF ReadPins, emuVars
  <2>3. CASE SendAEvent(h) \/ NotifyDriver(h)
    BY <2>3 DEF SendAEvent, NotifyDriver, Goes, emuVars
  <2>4. ASSUME NEW e, Sends(h, e), UNCHANGED <<mGPIORaised, emuVars>> PROVE OnlyThePlatform'
    BY <2>4 DEF Sends, emuVars
  <2>5. CASE SendPowerSwitchEvent(h)
    BY <2>4, <2>5 DEF SendPowerSwitchEvent, Goes, emuVars
  <2>6. ASSUME NEW c, SendPlainEvent(h, c) \/ AddBuffer(h, c) PROVE OnlyThePlatform'
    BY <2>4, <2>6 DEF SendPlainEvent, AddBuffer
  <2> QED  BY <1>1, <2>1, <2>2, <2>3, <2>5, <2>6 DEF HostStep
<1>2. ASSUME NEW p \in Pins, TakeInterrupt(p) PROVE OnlyThePlatform'
  BY <1>2 DEF TakeInterrupt
<1>3. CASE Handler
  BY <1>3 DEF Handler, ClearGPIO, LockEventQueue, TakeEvent, FindNoEvent, AfterNoEvent, UnlockEventQueue, TestQueue, RaiseAgain
<1>4. CASE Newton \/ SetPower
  BY <1>4 DEF Newton, AnswerPlainEvent, CopyBufferData, DisposeBuffer, SetPower, emuVars
<1>5. CASE UNCHANGED vars  BY <1>5 DEF vars, emuVars
<1> QED  BY <1>1, <1>2, <1>3, <1>4, <1>5 DEF Next

\* A host thread that finds the queue locked leaves the announcement to whoever
\* holds a lock; the last unlock looks at the queue.
LEMMA NoneForgottenStep ==
  ASSUME TInv, TInv', PinInv, [Next]_vars PROVE NoneForgotten'
<1> USE FlightLen DEF NoneForgotten, Announced
<1>1. ASSUME NEW h \in Hosts, HostStep(h) PROVE NoneForgotten'
  <2>1. CASE \/ \E c \in PlainClasses : SendPlainEvent(h, c)
             \/ \E c \in BufferClasses : AddBuffer(h, c)
             \/ SendPowerSwitchEvent(h)
    BY <2>1 DEF SendPlainEvent, AddBuffer, SendPowerSwitchEvent, Sends, Goes, At, eventVars, emuVars, driverVars,
        TInv, TypeOK, PinInv
  <2>2. CASE SendAEvent(h)
    BY <2>2 DEF SendAEvent, At, TInv, TypeOK
  <2>3. CASE NotifyDriver(h)
    <3>1. CASE mQueueLockCount = 0
      <4>1. host'[h].at = "raise"
        BY <2>3, <3>1 DEF NotifyDriver, Goes, TInv, TypeOK
      <4> QED  BY <4>1
    <3>2. CASE mQueueLockCount # 0
      <4>1. emuPC # "newton" \/ inFlight # <<>> \/ replies > 0
        <5>1. Len(inFlight) \in Nat /\ replies \in Nat  BY DEF TInv, TypeOK
        <5> SUFFICES ASSUME emuPC = "newton", replies = 0 PROVE inFlight # <<>>
          BY <5>1
        <5>2. Len(inFlight) > 0  BY <3>2, <5>1 DEF PinInv, LocksInHand
        <5> QED  BY <5>2
      <4> QED  BY <2>3, <4>1 DEF NotifyDriver, emuVars, driverVars
    <3> QED  BY <3>1, <3>2
  <2>4. CASE ReadPins(h)
    BY <2>4 DEF ReadPins, At, eventVars, emuVars, driverVars, TInv, TypeOK, PinInv
  <2>5. CASE RaisePlatformInterrupt(h)
    BY <2>5 DEF RaisePlatformInterrupt
  <2> QED  BY <1>1, <2>1, <2>2, <2>3, <2>4, <2>5 DEF HostStep
<1>2. ASSUME NEW p \in Pins, TakeInterrupt(p) PROVE NoneForgotten'
  BY <1>2 DEF TakeInterrupt
<1>3. CASE ClearGPIO
  BY <1>3 DEF ClearGPIO, PinInv, OnlyThePlatform
<1>4. CASE LockEventQueue  BY <1>4 DEF LockEventQueue
<1>5. CASE TakeEvent
  BY <1>5, FlightGrows
<1>6. CASE FindNoEvent  BY <1>6 DEF FindNoEvent
<1>7. CASE UnlockEventQueue
  BY <1>7 DEF UnlockEventQueue, PinInv, LocksInHand, TInv, TypeOK, eventVars
<1>8. CASE TestQueue  BY <1>8 DEF TestQueue, EventsWait, eventVars
<1>9. CASE RaiseAgain  BY <1>9 DEF RaiseAgain
<1>10. CASE AnswerPlainEvent \/ DisposeBuffer
  BY <1>10 DEF AnswerPlainEvent, DisposeBuffer, TInv, TypeOK
<1>11. CASE CopyBufferData \/ SetPower \/ UNCHANGED vars
  BY <1>11 DEF CopyBufferData, SetPower, vars, eventVars, emuVars, driverVars, PinInv
<1> QED  BY <1>1, <1>2, <1>3, <1>4, <1>5, <1>6, <1>7, <1>8, <1>9, <1>10, <1>11
         DEF Next, Handler, Newton

\* No event is left in the queue when the host threads, the handler and the tasks of
\* NewtonOS are all at rest, however their steps were mixed.
THEOREM NoEventForgotten == Spec => []NoForgottenEvent
<1>1. TInv /\ PinInv => NoForgottenEvent
  <2> SUFFICES ASSUME TInv, PinInv, Quiet, mEventQueueCCrsr = mEventQueuePCrsr PROVE Waiting = <<>>
    BY DEF NoForgottenEvent, PinInv, NoneForgotten, Announced, Quiet
  <2> QED  BY DEF Waiting, TInv, TypeOK
<1>2. TInv /\ PinInv /\ [Next]_vars => PinInv'
  BY TypeStep, LockStep, PlatformStep, NoneForgottenStep DEF PinInv
<1> QED  BY TypeInit, TypeStep, PinInit, <1>1, <1>2, PTL DEF Spec

\* The lock count is back to zero when all is at rest: every LockEventQueue of the
\* handler has its UnlockEventQueue.
THEOREM LocksAreBalanced == Spec => []LockIsBalanced
<1>1. TInv /\ PinInv => LockIsBalanced
  BY EmptySeq DEF LockIsBalanced, Quiet, PinInv, LocksInHand
<1>2. TInv /\ PinInv /\ [Next]_vars => PinInv'
  BY TypeStep, LockStep, PlatformStep, NoneForgottenStep DEF PinInv
<1> QED  BY TypeInit, TypeStep, PinInit, <1>1, <1>2, PTL DEF Spec

-----------------------------------------------------------------------------
\* The waiting events as a sequence, for any array and cursors.
Filled(q, c, p, S) == \A i \in c .. p - 1 : q[i] \in S

Cells(q, c, p) == [i \in 1 .. p - c |-> q[c + i - 1]]

\* The array r has the cells of q from c to p, and e after them.
Extends(r, n, q, c, p, e, S) ==
  /\ c \in Nat /\ p \in Nat /\ c <= p /\ n \in Nat /\ n = p + 1 /\ e \in S
  /\ Filled(q, c, p, S) /\ r[p] = e
  /\ \A i \in c .. p - 1 : r[i] = q[i]

\* The sequence w is what the array holds between the cursors.
IsCells(w, q, c, p, S) ==
  /\ w \in Seq(S) /\ Len(w) = p - c
  /\ \A i \in 1 .. p - c : w[i] = q[c + i - 1]

LEMMA CellsAreASequence ==
  ASSUME NEW S, NEW c \in Nat, NEW p \in Nat, c <= p, NEW q,
         Filled(q, c, p, S)
  PROVE  IsCells(Cells(q, c, p), q, c, p, S)
<1> DEFINE n == p - c
           w == Cells(q, c, p)
<1>1. n \in Nat  OBVIOUS
<1>2. \A i \in 1 .. n : c + i - 1 \in c .. p - 1  OBVIOUS
<1>3. w \in [1 .. n -> S]  BY <1>2 DEF Cells, Filled
<1>4. w \in Seq(S)  BY <1>1, <1>3, SeqDef
<1>5. Len(w) = n
  <2> HIDE DEF w, n
  <2>1. DOMAIN w = 1 .. n /\ DOMAIN w = 1 .. Len(w) /\ Len(w) \in Nat
    BY <1>3, <1>4, LenProperties
  <2> QED  BY <1>1, <2>1
<1>6. \A i \in 1 .. n : w[i] = q[c + i - 1]  BY DEF Cells
<1> HIDE DEF w
<1>7. IsCells(w, q, c, p, S)  BY <1>4, <1>5, <1>6 DEF IsCells
<1> QED  BY <1>7 DEF w

\* A cell written at the end appends to the sequence.
LEMMA AppendCell ==
  ASSUME NEW S, NEW c, NEW p, NEW q, NEW r, NEW n, NEW e, Extends(r, n, q, c, p, e, S)
  PROVE  Cells(r, c, n) = Append(Cells(q, c, p), e)
<1> DEFINE s == Cells(q, c, p)
           t == Cells(r, c, n)
<1>0. /\ c \in Nat /\ p \in Nat /\ c <= p /\ n \in Nat /\ n = p + 1 /\ e \in S
      /\ Filled(q, c, p, S) /\ r[p] = e
      /\ \A i \in c .. p - 1 : r[i] = q[i]
  BY DEF Extends
<1>1. /\ s \in Seq(S) /\ Len(s) = p - c
      /\ \A i \in 1 .. p - c : s[i] = q[c + i - 1]
  <2>1. IsCells(s, q, c, p, S)  BY <1>0, CellsAreASequence
  <2> HIDE DEF s
  <2> QED  BY <1>0, <2>1 DEF IsCells
<1>2. Filled(r, c, n, S)
  <2> SUFFICES ASSUME NEW i \in c .. n - 1 PROVE r[i] \in S  BY DEF Filled
  <2>1. i # p => i \in c .. p - 1  BY <1>0
  <2> QED  BY <1>0, <2>1 DEF Filled
<1>3. /\ t \in Seq(S) /\ Len(t) = p + 1 - c
      /\ \A i \in 1 .. p + 1 - c : t[i] = r[c + i - 1]
  <2>1. c <= n  BY <1>0
  <2>2. IsCells(t, r, c, n, S)  BY <1>0, <1>2, <2>1, CellsAreASequence
  <2> HIDE DEF t
  <2> QED  BY <1>0, <2>2 DEF IsCells
<1> HIDE DEF s, t
<1>4. /\ Append(s, e) \in Seq(S) /\ Len(Append(s, e)) = p + 1 - c
      /\ \A i \in 1 .. p - c : Append(s, e)[i] = s[i]
      /\ Append(s, e)[p - c + 1] = e
  BY <1>0, <1>1, AppendProperties
<1>5. \A i \in 1 .. Len(t) : t[i] = Append(s, e)[i]
  <2> SUFFICES ASSUME NEW i \in 1 .. p + 1 - c PROVE t[i] = Append(s, e)[i]
    BY <1>0, <1>3
  <2>1. CASE i = p - c + 1  BY <1>0, <1>3, <1>4, <2>1
  <2>2. CASE i # p - c + 1
    <3>1. i \in 1 .. p - c /\ c + i - 1 \in c .. p - 1  BY <1>0, <2>2
    <3> QED  BY <1>0, <1>1, <1>3, <1>4, <3>1
  <2> QED  BY <2>1, <2>2
<1> QED  BY <1>0, <1>1, <1>3, <1>4, <1>5, SeqEqual DEF s, t

\* The cell read at the other end is the head, and leaves the tail.
LEMMA FirstCell ==
  ASSUME NEW S, NEW c \in Nat, NEW p \in Nat, c < p, NEW q,
         Filled(q, c, p, S)
  PROVE  /\ Cells(q, c, p) # <<>>
         /\ q[c] = Head(Cells(q, c, p))
         /\ Cells(q, c + 1, p) = Tail(Cells(q, c, p))
<1> DEFINE s == Cells(q, c, p)
           t == Cells(q, c + 1, p)
<1>1. /\ s \in Seq(S) /\ Len(s) = p - c
      /\ \A i \in 1 .. p - c : s[i] = q[c + i - 1]
  <2>1. c <= p  OBVIOUS
  <2>2. IsCells(s, q, c, p, S)  BY <2>1, CellsAreASequence
  <2> HIDE DEF s
  <2> QED  BY <2>2 DEF IsCells
<1>2. /\ t \in Seq(S) /\ Len(t) = p - c - 1
      /\ \A i \in 1 .. p - c - 1 : t[i] = q[c + i]
  <2>1. c + 1 \in Nat /\ c + 1 <= p /\ p - (c + 1) = p - c - 1  OBVIOUS
  <2>2. Filled(q, c + 1, p, S)  BY DEF Filled
  <2>3. IsCells(t, q, c + 1, p, S)  BY <2>1, <2>2, CellsAreASequence
  <2> HIDE DEF t
  <2> QED  BY <2>1, <2>3 DEF IsCells
<1> HIDE DEF s, t
<1>3. s # <<>>  BY <1>1, EmptySeq
<1>4. /\ Tail(s) \in Seq(S) /\ Len(Tail(s)) = p - c - 1
      /\ \A i \in 1 .. p - c - 1 : Tail(s)[i] = s[i + 1]
  BY <1>1, <1>3, HeadTailProperties
<1>5. q[c] = Head(s)
  <2>1. s[1] = q[c]  BY <1>1
  <2> QED  BY <1>1, <1>3, <2>1
<1>6. t = Tail(s)
  <2>1. \A i \in 1 .. Len(t) : t[i] = Tail(s)[i]  BY <1>1, <1>2, <1>4
  <2> QED  BY <1>2, <1>4, <2>1, SeqEqual
<1> QED  BY <1>3, <1>5, <1>6 DEF s, t

LEMMA NoCells == ASSUME NEW q, NEW c \in Nat PROVE Cells(q, c, c) = <<>>
BY DEF Cells

LEMMA WaitingIsCells == Waiting = Cells(mEventQueue, mEventQueueCCrsr, mEventQueuePCrsr)
BY DEF Waiting, Cells

\* Each step of the manager is one of the abstract queue or changes nothing there.
LEMMA QueueStep ==
  ASSUME TInv, TInv', [Next]_vars PROVE [Queue!Next]_(Queue!vars)
<1>0. /\ EventsOK /\ EventsWritten
      /\ mEventQueueCCrsr \in Nat /\ mEventQueuePCrsr \in Nat /\ mEventQueueCCrsr <= mEventQueuePCrsr
  BY Parts DEF EventsOK
<1>1. /\ Waiting = Cells(mEventQueue, mEventQueueCCrsr, mEventQueuePCrsr)
      /\ Filled(mEventQueue, mEventQueueCCrsr, mEventQueuePCrsr, Event)
  BY <1>0, WaitingIsCells DEF Filled, EventsWritten
<1>2. Waiting' = Cells(mEventQueue', mEventQueueCCrsr', mEventQueuePCrsr')  BY DEF Waiting, Cells
<1> HIDE DEF Waiting
<1>3. ASSUME UNCHANGED <<eventVars, mEvent>> PROVE UNCHANGED Queue!vars
  BY <1>1, <1>2, <1>3 DEF Queue!vars, eventVars
<1>4. ASSUME NEW h \in Hosts, SendAEvent(h) PROVE Queue!Next
  <2> DEFINE e == host[h].event
  <2>1. e \in Event /\ Insert(e) /\ UNCHANGED <<mEventQueueCCrsr, mEvent>>
    BY <1>4 DEF SendAEvent, driverVars, TInv, TypeOK
  <2> HIDE DEF e
  <2>2. /\ mEventQueuePCrsr' = mEventQueuePCrsr + 1
        /\ \A i \in mEventQueueCCrsr .. mEventQueuePCrsr - 1 : mEventQueue'[i] = mEventQueue[i]
        /\ mEventQueue'[mEventQueuePCrsr] = e
    BY <1>0, <2>1, InsertStep
  <2>3. Extends(mEventQueue', mEventQueuePCrsr', mEventQueue, mEventQueueCCrsr, mEventQueuePCrsr, e, Event)
    BY <1>0, <1>1, <2>1, <2>2 DEF Extends
  <2>4. Cells(mEventQueue', mEventQueueCCrsr, mEventQueuePCrsr')
           = Append(Cells(mEventQueue, mEventQueueCCrsr, mEventQueuePCrsr), e)
    BY <2>3, AppendCell
  <2>5. Waiting' = Append(Waiting, e)  BY <1>1, <1>2, <2>1, <2>4
  <2> QED  BY <2>1, <2>5 DEF Queue!Next, Queue!Send
<1>5. CASE TakeEvent
  <2>1. /\ mEventQueueCCrsr < mEventQueuePCrsr
        /\ mEvent' = mEventQueue[mEventQueueCCrsr]
        /\ mEventQueueCCrsr' = mEventQueueCCrsr + 1
        /\ UNCHANGED <<mEventQueue, mEventQueuePCrsr>>
    BY <1>0, <1>5 DEF TakeEvent
  <2>2. /\ Waiting # <<>> /\ mEvent' = Head(Waiting) /\ Waiting' = Tail(Waiting)
    BY <1>0, <1>1, <1>2, <2>1, FirstCell
  <2> QED  BY <2>2 DEF Queue!Next, Queue!Fetch
<1>6. CASE FindNoEvent
  <2>1. Waiting = <<>> /\ Waiting' = <<>>
    BY <1>0, <1>1, <1>2, <1>6, NoCells DEF FindNoEvent
  <2> QED  BY <1>6, <2>1 DEF FindNoEvent, driverVars, Queue!vars
<1>7. ASSUME NEW h \in Hosts, HostStep(h) PROVE [Queue!Next]_(Queue!vars)
  <2>1. SendAEvent(h) \/ UNCHANGED <<eventVars, mEvent>>
    BY <1>7 DEF HostStep, SendPlainEvent, AddBuffer, SendPowerSwitchEvent, NotifyDriver, ReadPins,
                RaisePlatformInterrupt, driverVars
  <2> QED  BY <1>3, <1>4, <2>1
<1>8. ASSUME \/ \E p \in Pins : TakeInterrupt(p)
             \/ ClearGPIO \/ LockEventQueue \/ UnlockEventQueue \/ TestQueue \/ RaiseAgain
             \/ Newton \/ SetPower \/ UNCHANGED vars
      PROVE  UNCHANGED <<eventVars, mEvent>>
  BY <1>8 DEF TakeInterrupt, ClearGPIO, LockEventQueue, UnlockEventQueue, TestQueue, RaiseAgain, Newton,
              AnswerPlainEvent, CopyBufferData, DisposeBuffer, SetPower, vars, driverVars
<1> QED  BY <1>3, <1>5, <1>6, <1>7, <1>8 DEF Next, Handler

\* The array with its cursors, its growth and its reset is a first-in first-out queue:
\* events are taken in the order of the calls of SendAEvent, each one once.
THEOREM QueueImplemented == Spec => ImplementsQueue
<1>1. Init => Queue!Init
  <2> SUFFICES ASSUME Init PROVE Queue!Init  OBVIOUS
  <2>1. Waiting = <<>>  BY WaitingIsCells, NoCells DEF Init
  <2> QED  BY <2>1, EventTypes DEF Init, Queue!Init
<1> QED  BY TypeInit, TypeStep, QueueStep, <1>1, PTL DEF Spec, ImplementsQueue, Queue!Spec

-----------------------------------------------------------------------------
\* Where an event can be: with a host thread that has not sent it yet, in a cell of the
\* queue, or among the messages to NewtonOS.
Places ==
  ({"host"} \X {h \in Hosts : At(h, "send")})
    \union ({"queue"} \X (mEventQueueCCrsr .. mEventQueuePCrsr - 1))
    \union ({"flight"} \X (1 .. Len(inFlight)))

EventAt(p) ==
  CASE p[1] = "host"   -> host[p[2]].event
    [] p[1] = "queue"  -> mEventQueue[p[2]]
    [] p[1] = "flight" -> inFlight[p[2]]

\* The places of the events that refer to a buffer.
Holding == [p \in {q \in Places : EventAt(q).buffer # NoBuffer} |-> EventAt(p)]

\* One record for each of these events, and one event for each record.
Matched(H, records, n) ==
  /\ \A p, q \in DOMAIN H : H[p].buffer = H[q].buffer => p = q
  /\ \A i, j \in 0 .. n - 1 : records[i].fID = records[j].fID => i = j
  /\ \A p \in DOMAIN H : \E i \in 0 .. n - 1 :
       records[i].fID = H[p].buffer /\ records[i].fData = H[p].class
  /\ \A i \in 0 .. n - 1 : \E p \in DOMAIN H : H[p].buffer = records[i].fID

\* The next identifier is larger than all that are in use.
IDsAreNew ==
  /\ sent <= MaxSends /\ mBufferNextID <= sent
  /\ \A i \in 0 .. mBufferCount - 1 : mBufferQueue[i].fID < mBufferNextID

\* NewtonOS copies the data of the first message.
CopiedIsFirst ==
  copied # NoBuffer => inFlight # <<>> /\ Head(inFlight).buffer # NoBuffer

BufferInv ==
  Matched(Holding, mBufferQueue, mBufferCount) /\ IDsAreNew /\ CopiedIsFirst

LEMMA BufferInit == Init => BufferInv
<1> SUFFICES ASSUME Init PROVE BufferInv  OBVIOUS
<1>1. Places = {}  BY EmptySeq DEF Init, Places, At
<1>2. DOMAIN Holding = {}  BY <1>1 DEF Holding
<1>3. Matched(Holding, mBufferQueue, mBufferCount)  BY <1>2 DEF Init, Matched
<1> QED  BY <1>3, SizesAssumption DEF Init, BufferInv, IDsAreNew, CopiedIsFirst

\* G is H with other places for the same events.
Moved(G, H) ==
  \E F \in [DOMAIN G -> DOMAIN H] :
    /\ \A p \in DOMAIN G : G[p] = H[F[p]]
    /\ \A p, q \in DOMAIN G : F[p] = F[q] => p = q
    /\ \A r \in DOMAIN H : \E p \in DOMAIN G : F[p] = r

\* Events that only move keep their records.
LEMMA MovedIsMatched ==
  ASSUME NEW G, NEW H, NEW records, NEW n, Moved(G, H), Matched(H, records, n)
  PROVE  Matched(G, records, n)
<1>1. PICK F \in [DOMAIN G -> DOMAIN H] :
         /\ \A p \in DOMAIN G : G[p] = H[F[p]]
         /\ \A p, q \in DOMAIN G : F[p] = F[q] => p = q
         /\ \A r \in DOMAIN H : \E p \in DOMAIN G : F[p] = r
  BY DEF Moved
<1>2. \A p, q \in DOMAIN G : G[p].buffer = G[q].buffer => p = q
  BY <1>1 DEF Matched
<1>3. \A p \in DOMAIN G : \E i \in 0 .. n - 1 :
        records[i].fID = G[p].buffer /\ records[i].fData = G[p].class
  BY <1>1 DEF Matched
<1>4. \A i \in 0 .. n - 1 : \E p \in DOMAIN G : G[p].buffer = records[i].fID
  BY <1>1 DEF Matched
<1> QED  BY <1>2, <1>3, <1>4 DEF Matched

\* A new event with a new record.
LEMMA MatchedWithMore ==
  ASSUME NEW G, NEW H, NEW old, NEW new, NEW n \in Nat, Matched(H, old, n),
         NEW p0, p0 \notin DOMAIN H, DOMAIN G = DOMAIN H \union {p0},
         \A p \in DOMAIN H : G[p] = H[p],
         \A i \in 0 .. n - 1 : new[i] = old[i] /\ old[i].fID # new[n].fID,
         new[n].fID = G[p0].buffer, new[n].fData = G[p0].class
  PROVE  Matched(G, new, n + 1)
<1>0. 0 .. (n + 1) - 1 = (0 .. n - 1) \union {n} /\ n \notin 0 .. n - 1  OBVIOUS
<1>1. \A p \in DOMAIN H : H[p].buffer # G[p0].buffer
  BY DEF Matched
<1>2. \A p, q \in DOMAIN G : G[p].buffer = G[q].buffer => p = q
  BY <1>1 DEF Matched
<1>3. \A i, j \in (0 .. n - 1) \union {n} : new[i].fID = new[j].fID => i = j
  BY DEF Matched
<1>4. \A p \in DOMAIN G : \E i \in (0 .. n - 1) \union {n} :
        new[i].fID = G[p].buffer /\ new[i].fData = G[p].class
  BY DEF Matched
<1>5. \A i \in (0 .. n - 1) \union {n} : \E p \in DOMAIN G : G[p].buffer = new[i].fID
  BY DEF Matched
<1> QED  BY <1>0, <1>2, <1>3, <1>4, <1>5 DEF Matched

\* An event that goes with its record.
LEMMA MatchedWithLess ==
  ASSUME NEW G, NEW H, NEW old, NEW new, NEW n \in Nat, Matched(H, old, n),
         NEW p0 \in DOMAIN H, DOMAIN G = DOMAIN H \ {p0},
         \A p \in DOMAIN G : G[p] = H[p],
         NEW i0 \in 0 .. n - 1, old[i0].fID = H[p0].buffer,
         \A k \in 0 .. n - 2 : new[k] = IF k < i0 THEN old[k] ELSE old[k + 1]
  PROVE  Matched(G, new, n - 1)
<1> DEFINE from(k) == IF k < i0 THEN k ELSE k + 1
<1>1. \A k \in 0 .. n - 2 : from(k) \in 0 .. n - 1 /\ from(k) # i0 /\ new[k] = old[from(k)]
  OBVIOUS
<1>2. \A k, l \in 0 .. n - 2 : from(k) = from(l) => k = l
  OBVIOUS
<1>3. \A i \in 0 .. n - 1 : i # i0 => \E k \in 0 .. n - 2 : from(k) = i
  <2> SUFFICES ASSUME NEW i \in 0 .. n - 1, i # i0 PROVE \E k \in 0 .. n - 2 : from(k) = i
    OBVIOUS
  <2>1. CASE i < i0
    <3>1. i \in 0 .. n - 2 /\ from(i) = i  BY <2>1
    <3> QED  BY <3>1
  <2>2. CASE i > i0
    <3>1. i - 1 \in 0 .. n - 2 /\ from(i - 1) = i  BY <2>2
    <3> QED  BY <3>1
  <2> QED  BY <2>1, <2>2
<1>0. 0 .. (n - 1) - 1 = 0 .. n - 2  OBVIOUS
<1> HIDE DEF from
<1>4. \A p, q \in DOMAIN G : G[p].buffer = G[q].buffer => p = q
  BY DEF Matched
<1>5. \A k, l \in 0 .. n - 2 : new[k].fID = new[l].fID => k = l
  BY <1>1, <1>2 DEF Matched
<1>6. \A p \in DOMAIN G : \E k \in 0 .. n - 2 :
        new[k].fID = G[p].buffer /\ new[k].fData = G[p].class
  <2> SUFFICES ASSUME NEW p \in DOMAIN G
               PROVE  \E k \in 0 .. n - 2 : new[k].fID = G[p].buffer /\ new[k].fData = G[p].class
    OBVIOUS
  <2>1. PICK i \in 0 .. n - 1 : old[i].fID = H[p].buffer /\ old[i].fData = H[p].class
    BY DEF Matched
  <2>2. i # i0  BY <2>1 DEF Matched
  <2>3. PICK k \in 0 .. n - 2 : from(k) = i  BY <1>3, <2>2
  <2> QED  BY <1>1, <2>1, <2>3
<1>7. \A k \in 0 .. n - 2 : \E p \in DOMAIN G : G[p].buffer = new[k].fID
  <2> SUFFICES ASSUME NEW k \in 0 .. n - 2 PROVE \E p \in DOMAIN G : G[p].buffer = new[k].fID
    OBVIOUS
  <2>1. PICK p \in DOMAIN H : H[p].buffer = old[from(k)].fID
    BY <1>1 DEF Matched
  <2>2. p # p0  BY <1>1, <2>1 DEF Matched
  <2> QED  BY <1>1, <2>1, <2>2
<1> QED  BY <1>0, <1>4, <1>5, <1>6, <1>7 DEF Matched

-----------------------------------------------------------------------------
\* What is in each place, before and after a step.
HoldsBuffer(h) == At(h, "send") /\ host[h].event.buffer # NoBuffer

LEMMA HoldingOfHost ==
  ASSUME NEW h
  PROVE  /\ <<"host", h>> \in DOMAIN Holding <=> h \in Hosts /\ HoldsBuffer(h)
         /\ EventAt(<<"host", h>>) = host[h].event
         /\ (<<"host", h>> \in DOMAIN Holding)' <=> h \in Hosts /\ HoldsBuffer(h)'
         /\ EventAt(<<"host", h>>)' = host'[h].event
BY DEF Holding, HoldsBuffer, Places, EventAt, At

LEMMA HoldingOfQueue ==
  ASSUME NEW i
  PROVE  /\ <<"queue", i>> \in DOMAIN Holding
              <=> /\ i \in mEventQueueCCrsr .. mEventQueuePCrsr - 1
                  /\ mEventQueue[i].buffer # NoBuffer
         /\ EventAt(<<"queue", i>>) = mEventQueue[i]
         /\ (<<"queue", i>> \in DOMAIN Holding)'
              <=> /\ i \in mEventQueueCCrsr' .. mEventQueuePCrsr' - 1
                  /\ mEventQueue'[i].buffer # NoBuffer
         /\ EventAt(<<"queue", i>>)' = mEventQueue'[i]
BY DEF Holding, Places, EventAt

LEMMA HoldingOfFlight ==
  ASSUME NEW k
  PROVE  /\ <<"flight", k>> \in DOMAIN Holding
              <=> k \in 1 .. Len(inFlight) /\ inFlight[k].buffer # NoBuffer
         /\ EventAt(<<"flight", k>>) = inFlight[k]
         /\ (<<"flight", k>> \in DOMAIN Holding)'
              <=> k \in 1 .. Len(inFlight') /\ inFlight'[k].buffer # NoBuffer
         /\ EventAt(<<"flight", k>>)' = inFlight'[k]
BY DEF Holding, Places, EventAt

IsPlace(p) ==
  \/ \E h : p = <<"host", h>>
  \/ \E i : p = <<"queue", i>>
  \/ \E k : p = <<"flight", k>>

LEMMA HoldingPlaces ==
  /\ \A p \in DOMAIN Holding : Holding[p] = EventAt(p) /\ IsPlace(p)
  /\ \A p \in DOMAIN Holding' : Holding'[p] = EventAt(p)' /\ IsPlace(p)
<1>1. \A p \in Places : IsPlace(p)  BY DEF Places, IsPlace
<1>2. \A p \in Places' : IsPlace(p)  BY DEF Places, IsPlace
<1> QED  BY <1>1, <1>2 DEF Holding

\* A step that changes neither the queue, the messages nor what the host threads hold.
LEMMA HostsHoldTheSame ==
  ASSUME UNCHANGED <<mEventQueue, mEventQueueCCrsr, mEventQueuePCrsr, inFlight>>,
         \A h \in Hosts : /\ HoldsBuffer(h)' <=> HoldsBuffer(h)
                          /\ HoldsBuffer(h) => host'[h].event = host[h].event
  PROVE  Holding' = Holding
<1>1. \A p \in DOMAIN Holding : p \in DOMAIN Holding' /\ EventAt(p)' = EventAt(p)
  <2> SUFFICES ASSUME NEW p \in DOMAIN Holding
               PROVE  p \in DOMAIN Holding' /\ EventAt(p)' = EventAt(p)
    OBVIOUS
  <2>1. ASSUME NEW h, p = <<"host", h>> PROVE p \in DOMAIN Holding' /\ EventAt(p)' = EventAt(p)
    BY <2>1, HoldingOfHost
  <2>2. ASSUME NEW i, p = <<"queue", i>> PROVE p \in DOMAIN Holding' /\ EventAt(p)' = EventAt(p)
    BY <2>2, HoldingOfQueue
  <2>3. ASSUME NEW k, p = <<"flight", k>> PROVE p \in DOMAIN Holding' /\ EventAt(p)' = EventAt(p)
    BY <2>3, HoldingOfFlight
  <2> QED  BY <2>1, <2>2, <2>3, HoldingPlaces DEF IsPlace
<1>2. \A p \in DOMAIN Holding' : p \in DOMAIN Holding
  <2> SUFFICES ASSUME NEW p \in DOMAIN Holding' PROVE p \in DOMAIN Holding
    OBVIOUS
  <2>1. ASSUME NEW h, p = <<"host", h>> PROVE p \in DOMAIN Holding
    BY <2>1, HoldingOfHost
  <2>2. ASSUME NEW i, p = <<"queue", i>> PROVE p \in DOMAIN Holding
    BY <2>2, HoldingOfQueue
  <2>3. ASSUME NEW k, p = <<"flight", k>> PROVE p \in DOMAIN Holding
    BY <2>3, HoldingOfFlight
  <2> QED  BY <2>1, <2>2, <2>3, HoldingPlaces DEF IsPlace
<1>3. DOMAIN Holding' = DOMAIN Holding  BY <1>1, <1>2
<1>4. /\ Holding = [p \in DOMAIN Holding |-> Holding[p]]
      /\ Holding' = [p \in DOMAIN Holding' |-> Holding'[p]]
  BY DEF Holding
<1>5. \A p \in DOMAIN Holding : Holding'[p] = Holding[p]
  <2> SUFFICES ASSUME NEW p \in DOMAIN Holding PROVE Holding'[p] = Holding[p]
    OBVIOUS
  <2>1. Holding[p] = EventAt(p)  BY HoldingPlaces
  <2>2. p \in DOMAIN Holding'  BY <1>1
  <2>3. Holding'[p] = EventAt(p)'  BY <2>2, HoldingPlaces DEF IsPlace
  <2> QED  BY <1>1, <2>1, <2>3
<1> QED  BY <1>3, <1>4, <1>5

\* An event that goes from the place a to the place b.
LEMMA OnePlaceMoves ==
  ASSUME NEW G, NEW H, NEW a, NEW b, a # b, b \notin DOMAIN H, a \notin DOMAIN G,
         b \in DOMAIN G <=> a \in DOMAIN H, b \in DOMAIN G => G[b] = H[a],
         \A p : p # a /\ p # b =>
           /\ p \in DOMAIN G <=> p \in DOMAIN H
           /\ p \in DOMAIN H => G[p] = H[p]
  PROVE  Moved(G, H)
<1> DEFINE F == [p \in DOMAIN G |-> IF p = b THEN a ELSE p]
<1>0. ASSUME NEW p, p # a, p # b
      PROVE  (p \in DOMAIN G <=> p \in DOMAIN H) /\ (p \in DOMAIN H => G[p] = H[p])
  BY <1>0
<1>1. \A p \in DOMAIN G : F[p] \in DOMAIN H /\ G[p] = H[F[p]]
  <2> SUFFICES ASSUME NEW p \in DOMAIN G PROVE F[p] \in DOMAIN H /\ G[p] = H[F[p]]
    OBVIOUS
  <2>1. CASE p = b  BY <2>1
  <2>2. CASE p # b
    <3>1. F[p] = p /\ p # a  BY <2>2
    <3> QED  BY <1>0, <2>2, <3>1
  <2> QED  BY <2>1, <2>2
<1>2. F \in [DOMAIN G -> DOMAIN H]  BY <1>1
<1>3. \A p, q \in DOMAIN G : F[p] = F[q] => p = q  OBVIOUS
<1>4. \A r \in DOMAIN H : \E p \in DOMAIN G : F[p] = r
  <2> SUFFICES ASSUME NEW r \in DOMAIN H PROVE \E p \in DOMAIN G : F[p] = r
    OBVIOUS
  <2>1. CASE r = a
    <3>1. b \in DOMAIN G /\ F[b] = r  BY <2>1
    <3> QED  BY <3>1
  <2>2. CASE r # a
    <3>1. r \in DOMAIN G  BY <1>0, <2>2
    <3>2. F[r] = r  BY <3>1
    <3> QED  BY <3>1, <3>2
  <2> QED  BY <2>1, <2>2
<1> HIDE DEF F
<1> QED  BY <1>1, <1>2, <1>3, <1>4 DEF Moved

\* The places but one.
Without(H, a) == [p \in DOMAIN H \ {a} |-> H[p]]

First == <<"flight", 1>>

\* The first message is answered: the others move up.
LEMMA TailMoves ==
  ASSUME inFlight \in Seq(Event), inFlight # <<>>, inFlight' = Tail(inFlight),
         UNCHANGED <<mEventQueue, mEventQueueCCrsr, mEventQueuePCrsr, host>>
  PROVE  Moved(Holding', Without(Holding, First))
<1> DEFINE D == DOMAIN Holding \ {First}
           to(p) == IF p[1] = "flight" THEN <<"flight", p[2] + 1>> ELSE p
           F == [p \in DOMAIN Holding' |-> to(p)]
<1>0. /\ Len(inFlight) \in Nat \ {0} /\ Len(inFlight') = Len(inFlight) - 1
      /\ \A k \in 1 .. Len(inFlight) - 1 : inFlight'[k] = inFlight[k + 1]
  BY HeadTailProperties, EmptySeq
<1>1. ASSUME NEW h PROVE /\ to(<<"host", h>>) = <<"host", h>>
                         /\ <<"host", h>> \in DOMAIN Holding' <=> <<"host", h>> \in D
                         /\ EventAt(<<"host", h>>)' = EventAt(<<"host", h>>)
  BY HoldingOfHost DEF First, HoldsBuffer, At
<1>2. ASSUME NEW i PROVE /\ to(<<"queue", i>>) = <<"queue", i>>
                         /\ <<"queue", i>> \in DOMAIN Holding' <=> <<"queue", i>> \in D
                         /\ EventAt(<<"queue", i>>)' = EventAt(<<"queue", i>>)
  BY HoldingOfQueue DEF First
<1>3. ASSUME NEW k, <<"flight", k>> \in DOMAIN Holding'
      PROVE  /\ to(<<"flight", k>>) = <<"flight", k + 1>> /\ k \in Nat
             /\ <<"flight", k + 1>> \in D
             /\ EventAt(<<"flight", k>>)' = EventAt(<<"flight", k + 1>>)
  <2>1. k \in 1 .. Len(inFlight) - 1 /\ inFlight'[k].buffer # NoBuffer
    BY <1>0, <1>3, HoldingOfFlight
  <2>2. k + 1 \in 1 .. Len(inFlight) /\ k + 1 # 1 /\ inFlight[k + 1].buffer # NoBuffer
    BY <1>0, <2>1
  <2>3. <<"flight", k + 1>> \in DOMAIN Holding  BY <2>2, HoldingOfFlight
  <2>4. EventAt(<<"flight", k>>)' = EventAt(<<"flight", k + 1>>)  BY <1>0, <2>1, HoldingOfFlight
  <2> QED  BY <2>1, <2>2, <2>3, <2>4 DEF First
<1>4. ASSUME NEW k, <<"flight", k>> \in D
      PROVE  /\ k \in Nat /\ k - 1 \in Nat /\ <<"flight", k - 1>> \in DOMAIN Holding'
             /\ to(<<"flight", k - 1>>) = <<"flight", k>>
  <2>1. k \in 2 .. Len(inFlight) /\ inFlight[k].buffer # NoBuffer
    <3>1. k \in 1 .. Len(inFlight) /\ inFlight[k].buffer # NoBuffer /\ k # 1
      BY <1>4, HoldingOfFlight DEF First
    <3> QED  BY <1>0, <3>1
  <2>2. k - 1 \in 1 .. Len(inFlight') /\ inFlight'[k - 1].buffer # NoBuffer /\ (k - 1) + 1 = k
    BY <1>0, <2>1
  <2>3. <<"flight", k - 1>> \in DOMAIN Holding'  BY <2>2, HoldingOfFlight
  <2> QED  BY <2>1, <2>2, <2>3
<1> HIDE DEF D, to
<1>5. \A p \in DOMAIN Holding' : to(p) \in D /\ EventAt(p)' = EventAt(to(p))
  <2> SUFFICES ASSUME NEW p \in DOMAIN Holding' PROVE to(p) \in D /\ EventAt(p)' = EventAt(to(p))
    OBVIOUS
  <2>1. ASSUME NEW h, p = <<"host", h>> PROVE to(p) \in D /\ EventAt(p)' = EventAt(to(p))
    BY <1>1, <2>1
  <2>2. ASSUME NEW i, p = <<"queue", i>> PROVE to(p) \in D /\ EventAt(p)' = EventAt(to(p))
    BY <1>2, <2>2
  <2>3. ASSUME NEW k, p = <<"flight", k>> PROVE to(p) \in D /\ EventAt(p)' = EventAt(to(p))
    BY <1>3, <2>3
  <2> QED  BY <2>1, <2>2, <2>3, HoldingPlaces DEF IsPlace
<1>6. \A p, q \in DOMAIN Holding' : to(p) = to(q) => p = q
  <2> SUFFICES ASSUME NEW p \in DOMAIN Holding', NEW q \in DOMAIN Holding', to(p) = to(q) PROVE p = q
    OBVIOUS
  <2>1. ASSUME NEW k, p = <<"flight", k>> PROVE p = q
    <3>1. to(p) = <<"flight", k + 1>> /\ k \in Nat  BY <1>3, <2>1
    <3>2. \E l : q = <<"flight", l>>
      <4>1. to(q) = q => q = <<"flight", k + 1>>  BY <3>1
      <4> QED  BY <1>1, <1>2, <4>1, HoldingPlaces DEF IsPlace
    <3>3. PICK l : q = <<"flight", l>>  BY <3>2
    <3>4. to(q) = <<"flight", l + 1>> /\ l \in Nat  BY <1>3, <3>3
    <3> QED  BY <2>1, <3>1, <3>3, <3>4
  <2>2. ASSUME to(p) = p PROVE p = q
    <3>1. ASSUME NEW l, q = <<"flight", l>> PROVE p = q
      <4>1. to(q) = <<"flight", l + 1>> /\ l \in Nat  BY <1>3, <3>1
      <4>2. to(p) = <<"flight", (l + 1) + 1>>  BY <1>3, <2>2, <4>1
      <4> QED  BY <4>1, <4>2
    <3>2. ASSUME to(q) = q PROVE p = q  BY <2>2, <3>2
    <3> QED  BY <1>1, <1>2, <3>1, <3>2, HoldingPlaces DEF IsPlace
  <2> QED  BY <1>1, <1>2, <2>1, <2>2, HoldingPlaces DEF IsPlace
<1>7. \A r \in D : \E p \in DOMAIN Holding' : to(p) = r
  <2> SUFFICES ASSUME NEW r \in D PROVE \E p \in DOMAIN Holding' : to(p) = r
    OBVIOUS
  <2>1. r \in DOMAIN Holding  BY DEF D
  <2>2. ASSUME NEW k, r = <<"flight", k>> PROVE \E p \in DOMAIN Holding' : to(p) = r
    BY <1>4, <2>2
  <2> QED  BY <1>1, <1>2, <2>1, <2>2, HoldingPlaces DEF IsPlace
<1>8. DOMAIN Without(Holding, First) = D /\ \A p \in D : Without(Holding, First)[p] = EventAt(p)
  <2>1. \A p \in D : Holding[p] = EventAt(p)  BY HoldingPlaces DEF D
  <2> QED  BY <2>1 DEF Without, D
<1>9. /\ F \in [DOMAIN Holding' -> D]
      /\ \A p \in DOMAIN Holding' : Holding'[p] = Without(Holding, First)[F[p]]
      /\ \A p, q \in DOMAIN Holding' : F[p] = F[q] => p = q
      /\ \A r \in D : \E p \in DOMAIN Holding' : F[p] = r
  <2>1. \A p \in DOMAIN Holding' : Holding'[p] = EventAt(p)'  BY HoldingPlaces
  <2>2. \A p \in DOMAIN Holding' : F[p] = to(p)  OBVIOUS
  <2>3. F \in [DOMAIN Holding' -> D]  BY <1>5
  <2> HIDE DEF F
  <2> QED  BY <1>5, <1>6, <1>7, <1>8, <2>1, <2>2, <2>3
<1> HIDE DEF F
<1> QED  BY <1>8, <1>9 DEF Moved

-----------------------------------------------------------------------------
\* The actions that create, move or dispose of events and records.
Held == Matched(Holding, mBufferQueue, mBufferCount)

LEMMA AddHeld ==
  ASSUME TInv, Held, IDsAreNew, NEW h \in Hosts, NEW c \in BufferClasses, AddBuffer(h, c)
  PROVE  Held'
<1> DEFINE e == [class |-> c, buffer |-> mBufferNextID]
           p0 == <<"host", h>>
<1>0. BuffersOK /\ HostsOK  BY Parts
<1>1. /\ mBufferCount \in Nat /\ mBufferCount' = mBufferCount + 1
      /\ \A i \in 0 .. mBufferCount - 1 : mBufferQueue'[i] = mBufferQueue[i]
      /\ mBufferQueue'[mBufferCount] = [fID |-> mBufferNextID, fData |-> c]
  BY <1>0, AddStep DEF BuffersOK
<1>2. /\ At(h, "idle") /\ host' = [host EXCEPT ![h].at = "send", ![h].event = e]
      /\ UNCHANGED <<mEventQueue, mEventQueueCCrsr, mEventQueuePCrsr, inFlight>>
      /\ mBufferNextID \in Nat /\ NoBuffer \notin Nat
  BY <1>0, ValuesAssumption DEF AddBuffer, Sends, eventVars, driverVars, BuffersOK
<1>3. /\ HoldsBuffer(h)' /\ host'[h].event = e /\ ~HoldsBuffer(h)
      /\ \A g \in Hosts \ {h} : host'[g] = host[g]
  BY <1>0, <1>2 DEF HoldsBuffer, At, HostsOK
<1>4. /\ p0 \notin DOMAIN Holding /\ p0 \in DOMAIN Holding' /\ Holding'[p0] = e
  BY <1>3, HoldingOfHost, HoldingPlaces
<1>5. ASSUME NEW p, p # p0
      PROVE  /\ p \in DOMAIN Holding' <=> p \in DOMAIN Holding
             /\ p \in DOMAIN Holding => EventAt(p)' = EventAt(p)
  <2>1. ASSUME NEW g, p = <<"host", g>>
        PROVE  /\ p \in DOMAIN Holding' <=> p \in DOMAIN Holding
               /\ p \in DOMAIN Holding => EventAt(p)' = EventAt(p)
    <3>1. g # h  BY <1>5, <2>1
    <3>2. g \in Hosts => host'[g] = host[g]  BY <1>3, <3>1
    <3> QED  BY <2>1, <3>2, HoldingOfHost DEF HoldsBuffer, At
  <2>2. ASSUME NEW i, p = <<"queue", i>>
        PROVE  /\ p \in DOMAIN Holding' <=> p \in DOMAIN Holding
               /\ p \in DOMAIN Holding => EventAt(p)' = EventAt(p)
    BY <1>2, <2>2, HoldingOfQueue
  <2>3. ASSUME NEW k, p = <<"flight", k>>
        PROVE  /\ p \in DOMAIN Holding' <=> p \in DOMAIN Holding
               /\ p \in DOMAIN Holding => EventAt(p)' = EventAt(p)
    BY <1>2, <2>3, HoldingOfFlight
  <2> QED  BY <2>1, <2>2, <2>3, HoldingPlaces DEF IsPlace
<1> HIDE DEF p0
<1>6. DOMAIN Holding' = DOMAIN Holding \union {p0}  BY <1>4, <1>5
<1>7. \A p \in DOMAIN Holding : Holding'[p] = Holding[p]
  <2> SUFFICES ASSUME NEW p \in DOMAIN Holding PROVE Holding'[p] = Holding[p]
    OBVIOUS
  <2>1. p # p0 /\ p \in DOMAIN Holding'  BY <1>4, <1>6
  <2>2. EventAt(p)' = EventAt(p)  BY <1>5, <2>1
  <2> QED  BY <2>1, <2>2, HoldingPlaces
<1>8. \A i \in 0 .. mBufferCount - 1 : mBufferQueue[i].fID # mBufferNextID
  <2> SUFFICES ASSUME NEW i \in 0 .. mBufferCount - 1 PROVE mBufferQueue[i].fID # mBufferNextID
    OBVIOUS
  <2>1. mBufferQueue[i].fID \in Nat  BY <1>0, SizesAssumption DEF BuffersOK, RecordsWritten, Buffer
  <2> QED  BY <1>2, <2>1 DEF IDsAreNew
<1>9. Matched(Holding', mBufferQueue', mBufferCount + 1)
  <2>1. /\ \A i \in 0 .. mBufferCount - 1 :
             mBufferQueue'[i] = mBufferQueue[i] /\ mBufferQueue[i].fID # mBufferQueue'[mBufferCount].fID
        /\ mBufferQueue'[mBufferCount].fID = Holding'[p0].buffer
        /\ mBufferQueue'[mBufferCount].fData = Holding'[p0].class
    BY <1>1, <1>4, <1>8
  <2> QED  BY <1>1, <1>4, <1>6, <1>7, <2>1, MatchedWithMore DEF Held
<1> QED  BY <1>1, <1>9 DEF Held

LEMMA SendHeld ==
  ASSUME TInv, Held, NEW h \in Hosts, SendAEvent(h)
  PROVE  Held'
<1> SUFFICES ASSUME NEW m, m = mEventQueuePCrsr PROVE Held'
  OBVIOUS
<1> DEFINE a == <<"host", h>>
           b == <<"queue", m>>
<1>0. EventsOK /\ HostsOK  BY Parts
<1>1. /\ mEventQueuePCrsr \in Nat /\ mEventQueueCCrsr \in 0 .. mEventQueuePCrsr
      /\ mEventQueuePCrsr' = mEventQueuePCrsr + 1 /\ mEventQueueCCrsr' = mEventQueueCCrsr
      /\ \A i \in mEventQueueCCrsr .. mEventQueuePCrsr - 1 : mEventQueue'[i] = mEventQueue[i]
      /\ mEventQueue'[mEventQueuePCrsr] = host[h].event
  <2>1. host[h].event \in Event /\ Insert(host[h].event) /\ UNCHANGED mEventQueueCCrsr
    BY <1>0 DEF SendAEvent, HostsOK
  <2> QED  BY <1>0, <2>1, InsertStep DEF EventsOK
<1>2. /\ At(h, "send") /\ ~At(h, "send")'
      /\ \A g \in Hosts \ {h} : host'[g] = host[g]
      /\ UNCHANGED <<inFlight, mBufferQueue, mBufferCount>>
  BY <1>0 DEF SendAEvent, At, HostsOK, driverVars, bufferVars
<1>3. a # b /\ b \notin DOMAIN Holding /\ a \notin DOMAIN Holding'
  BY <1>1, <1>2, HoldingOfHost, HoldingOfQueue DEF HoldsBuffer
<1>4. (b \in DOMAIN Holding' <=> a \in DOMAIN Holding) /\ EventAt(b)' = EventAt(a)
  <2>1. EventAt(a) = host[h].event /\ (a \in DOMAIN Holding <=> host[h].event.buffer # NoBuffer)
    BY <1>2, HoldingOfHost DEF HoldsBuffer
  <2>2. m \in mEventQueueCCrsr' .. mEventQueuePCrsr' - 1  BY <1>1
  <2>3. /\ EventAt(b)' = mEventQueue'[m]
        /\ b \in DOMAIN Holding' <=> mEventQueue'[m].buffer # NoBuffer
    BY <2>2, HoldingOfQueue
  <2> QED  BY <1>1, <2>1, <2>3
<1>5. ASSUME NEW p, p # a, p # b
      PROVE  /\ p \in DOMAIN Holding' <=> p \in DOMAIN Holding
             /\ p \in DOMAIN Holding => EventAt(p)' = EventAt(p)
  <2>1. ASSUME NEW g, p = <<"host", g>>
        PROVE  /\ p \in DOMAIN Holding' <=> p \in DOMAIN Holding
               /\ p \in DOMAIN Holding => EventAt(p)' = EventAt(p)
    <3>1. g # h  BY <1>5, <2>1
    <3>2. g \in Hosts => host'[g] = host[g]  BY <1>2, <3>1
    <3> QED  BY <2>1, <3>2, HoldingOfHost DEF HoldsBuffer, At
  <2>2. ASSUME NEW i, p = <<"queue", i>>
        PROVE  /\ p \in DOMAIN Holding' <=> p \in DOMAIN Holding
               /\ p \in DOMAIN Holding => EventAt(p)' = EventAt(p)
    <3>1. i # m  BY <1>5, <2>2
    <3>2. i \in mEventQueueCCrsr' .. mEventQueuePCrsr' - 1 <=> i \in mEventQueueCCrsr .. mEventQueuePCrsr - 1
      BY <1>1, <3>1
    <3> QED  BY <1>1, <2>2, <3>2, HoldingOfQueue
  <2>3. ASSUME NEW k, p = <<"flight", k>>
        PROVE  /\ p \in DOMAIN Holding' <=> p \in DOMAIN Holding
               /\ p \in DOMAIN Holding => EventAt(p)' = EventAt(p)
    BY <1>2, <2>3, HoldingOfFlight
  <2> QED  BY <2>1, <2>2, <2>3, HoldingPlaces DEF IsPlace
<1> HIDE DEF a, b
<1>6. Moved(Holding', Holding)
  <2>1. b \in DOMAIN Holding' => Holding'[b] = Holding[a]
    <3> SUFFICES ASSUME b \in DOMAIN Holding' PROVE Holding'[b] = Holding[a]
      OBVIOUS
    <3>1. Holding'[b] = EventAt(b)'  BY HoldingPlaces
    <3>2. Holding[a] = EventAt(a)  BY <1>4, HoldingPlaces
    <3> QED  BY <1>4, <3>1, <3>2
  <2>2. \A p : p # a /\ p # b =>
          /\ p \in DOMAIN Holding' <=> p \in DOMAIN Holding
          /\ p \in DOMAIN Holding => Holding'[p] = Holding[p]
    BY <1>5, HoldingPlaces
  <2> QED  BY <1>3, <1>4, <2>1, <2>2, OnePlaceMoves
<1> QED  BY <1>2, <1>6, MovedIsMatched DEF Held

LEMMA TakeHeld ==
  ASSUME TInv, Held, TakeEvent
  PROVE  Held'
<1> SUFFICES ASSUME NEW n, n = Len(inFlight) PROVE Held'
  OBVIOUS
<1> DEFINE a == <<"queue", mEventQueueCCrsr>>
           b == <<"flight", n + 1>>
<1>0. EventsOK /\ DriverOK  BY Parts
<1>1. /\ mEventQueuePCrsr \in Nat /\ mEventQueueCCrsr \in 0 .. mEventQueuePCrsr - 1
      /\ mEventQueueCCrsr' = mEventQueueCCrsr + 1
      /\ UNCHANGED <<mEventQueue, mEventQueuePCrsr, host, mBufferQueue, mBufferCount>>
  BY <1>0 DEF TakeEvent, EventsOK, bufferVars
<1>2. mEventQueue[mEventQueueCCrsr] \in Event  BY <1>0, <1>1 DEF EventsOK, EventsWritten
<1>3. /\ n \in Nat /\ Len(inFlight') = n + 1
      /\ \A k \in 1 .. n : inFlight'[k] = inFlight[k]
      /\ inFlight'[n + 1] = mEventQueue[mEventQueueCCrsr]
  <2>1. inFlight' = Append(inFlight, mEventQueue[mEventQueueCCrsr])  BY DEF TakeEvent
  <2> QED  BY <1>0, <1>2, <2>1, AppendProperties DEF DriverOK
<1>4. a # b /\ b \notin DOMAIN Holding /\ a \notin DOMAIN Holding'
  <2>1. n + 1 \notin 1 .. n /\ mEventQueueCCrsr \notin mEventQueueCCrsr' .. mEventQueuePCrsr' - 1
    BY <1>1, <1>3
  <2> QED  BY <2>1, HoldingOfFlight, HoldingOfQueue
<1>5. (b \in DOMAIN Holding' <=> a \in DOMAIN Holding) /\ EventAt(b)' = EventAt(a)
  <2>1. mEventQueueCCrsr \in mEventQueueCCrsr .. mEventQueuePCrsr - 1  BY <1>1
  <2>2. n + 1 \in 1 .. Len(inFlight')  BY <1>3
  <2>3. /\ EventAt(a) = mEventQueue[mEventQueueCCrsr]
        /\ a \in DOMAIN Holding <=> mEventQueue[mEventQueueCCrsr].buffer # NoBuffer
    BY <2>1, HoldingOfQueue
  <2>4. /\ EventAt(b)' = inFlight'[n + 1]
        /\ b \in DOMAIN Holding' <=> inFlight'[n + 1].buffer # NoBuffer
    BY <2>2, HoldingOfFlight
  <2> QED  BY <1>3, <2>3, <2>4
<1>6. ASSUME NEW p, p # a, p # b
      PROVE  /\ p \in DOMAIN Holding' <=> p \in DOMAIN Holding
             /\ p \in DOMAIN Holding => EventAt(p)' = EventAt(p)
  <2>1. ASSUME NEW g, p = <<"host", g>>
        PROVE  /\ p \in DOMAIN Holding' <=> p \in DOMAIN Holding
               /\ p \in DOMAIN Holding => EventAt(p)' = EventAt(p)
    BY <1>1, <2>1, HoldingOfHost DEF HoldsBuffer, At
  <2>2. ASSUME NEW i, p = <<"queue", i>>
        PROVE  /\ p \in DOMAIN Holding' <=> p \in DOMAIN Holding
               /\ p \in DOMAIN Holding => EventAt(p)' = EventAt(p)
    <3>1. i # mEventQueueCCrsr  BY <1>6, <2>2
    <3>2. i \in mEventQueueCCrsr' .. mEventQueuePCrsr' - 1 <=> i \in mEventQueueCCrsr .. mEventQueuePCrsr - 1
      BY <1>1, <3>1
    <3> QED  BY <1>1, <2>2, <3>2, HoldingOfQueue
  <2>3. ASSUME NEW k, p = <<"flight", k>>
        PROVE  /\ p \in DOMAIN Holding' <=> p \in DOMAIN Holding
               /\ p \in DOMAIN Holding => EventAt(p)' = EventAt(p)
    <3>1. k # n + 1  BY <1>6, <2>3
    <3>2. k \in 1 .. Len(inFlight') <=> k \in 1 .. n
      BY <1>3, <3>1
    <3> QED  BY <1>3, <2>3, <3>2, HoldingOfFlight
  <2> QED  BY <2>1, <2>2, <2>3, HoldingPlaces DEF IsPlace
<1> HIDE DEF a, b
<1>7. Moved(Holding', Holding)
  <2>1. b \in DOMAIN Holding' => Holding'[b] = Holding[a]
    <3> SUFFICES ASSUME b \in DOMAIN Holding' PROVE Holding'[b] = Holding[a]
      OBVIOUS
    <3>1. Holding'[b] = EventAt(b)'  BY HoldingPlaces
    <3>2. Holding[a] = EventAt(a)  BY <1>5, HoldingPlaces
    <3> QED  BY <1>5, <3>1, <3>2
  <2>2. \A p : p # a /\ p # b =>
          /\ p \in DOMAIN Holding' <=> p \in DOMAIN Holding
          /\ p \in DOMAIN Holding => Holding'[p] = Holding[p]
    BY <1>6, HoldingPlaces
  <2> QED  BY <1>4, <1>5, <2>1, <2>2, OnePlaceMoves
<1> QED  BY <1>1, <1>7, MovedIsMatched DEF Held

LEMMA ResetHeld ==
  ASSUME TInv, Held, FindNoEvent
  PROVE  Held'
<1>0. EventsOK  BY Parts
<1>1. /\ mEventQueueCCrsr .. mEventQueuePCrsr - 1 = {} /\ mEventQueueCCrsr' .. mEventQueuePCrsr' - 1 = {}
      /\ UNCHANGED <<host, inFlight, mBufferQueue, mBufferCount>>
  BY <1>0 DEF FindNoEvent, EventsOK, driverVars, bufferVars
<1>2. \A p : p \in Places' <=> p \in Places  BY <1>1 DEF Places, At
<1>3. \A p \in Places : EventAt(p)' = EventAt(p)  BY <1>1 DEF Places, EventAt
<1>4. Holding' = Holding  BY <1>2, <1>3 DEF Holding
<1> QED  BY <1>1, <1>4 DEF Held

LEMMA AnswerHeld ==
  ASSUME TInv, Held, AnswerPlainEvent
  PROVE  Held'
<1>0. DriverOK  BY Parts
<1>1. Moved(Holding', Without(Holding, First))
  BY <1>0, TailMoves DEF AnswerPlainEvent, DriverOK, eventVars
<1>2. First \notin DOMAIN Holding
  <2>1. inFlight[1].buffer = NoBuffer  BY <1>0 DEF AnswerPlainEvent, DriverOK
  <2> QED  BY <2>1, HoldingOfFlight DEF First
<1>3. Without(Holding, First) = Holding
  <2>1. Holding = [p \in DOMAIN Holding |-> Holding[p]]  BY DEF Holding
  <2> QED  BY <1>2, <2>1 DEF Without
<1>4. UNCHANGED <<mBufferQueue, mBufferCount>>  BY DEF AnswerPlainEvent, bufferVars
<1> QED  BY <1>1, <1>3, <1>4, MovedIsMatched DEF Held

LEMMA DisposeHeld ==
  ASSUME TInv, Held, CopiedIsFirst, DisposeBuffer
  PROVE  Held'
<1> DEFINE id == Head(inFlight).buffer
           i0 == FirstOf(id)
<1>0. DriverOK /\ BuffersOK  BY Parts
<1>1. Moved(Holding', Without(Holding, First))
  BY <1>0, TailMoves DEF DisposeBuffer, DriverOK, eventVars
<1>2. First \in DOMAIN Holding /\ Holding[First].buffer = id
  <2>1. /\ inFlight # <<>> /\ Len(inFlight) \in Nat /\ Len(inFlight) > 0
        /\ inFlight[1].buffer = id /\ id # NoBuffer
    BY <1>0, EmptySeq DEF DisposeBuffer, CopiedIsFirst, DriverOK
  <2>2. 1 \in 1 .. Len(inFlight)  BY <2>1
  <2>3. First \in DOMAIN Holding /\ EventAt(First) = inFlight[1]
    BY <2>1, <2>2, HoldingOfFlight DEF First
  <2> QED  BY <2>1, <2>3, HoldingPlaces
<1>3. RecordsOf(id) # {}
  BY <1>2 DEF Held, Matched, RecordsOf
<1>4. i0 \in 0 .. mBufferCount - 1 /\ mBufferQueue[i0].fID = id
  BY <1>3, FirstIsARecord DEF RecordsOf
<1>5. /\ mBufferCount' = mBufferCount - 1 /\ mBufferCount \in Nat
      /\ \A k \in 0 .. mBufferCount - 2 :
           mBufferQueue'[k] = IF k < i0 THEN mBufferQueue[k] ELSE mBufferQueue[k + 1]
  BY <1>0, <1>3, <1>4, RemoveStep DEF DisposeBuffer, BuffersOK
<1> HIDE DEF i0, id
<1>6. /\ DOMAIN Without(Holding, First) = DOMAIN Holding \ {First}
      /\ \A p \in DOMAIN Without(Holding, First) : Without(Holding, First)[p] = Holding[p]
  BY DEF Without
<1>7. Matched(Without(Holding, First), mBufferQueue', mBufferCount - 1)
  BY <1>2, <1>4, <1>5, <1>6, MatchedWithLess DEF Held
<1> QED  BY <1>1, <1>5, <1>7, MovedIsMatched DEF Held

-----------------------------------------------------------------------------
\* Every step keeps events and records together.
LEMMA HeldStep ==
  ASSUME TInv, BufferInv, [Next]_vars
  PROVE  Held'
<1>0. Held /\ IDsAreNew /\ CopiedIsFirst  BY DEF BufferInv, Held
<1>h. HostsOK /\ ThreadsOK  BY Parts
<1>1. ASSUME UNCHANGED <<mBufferQueue, mBufferCount, mEventQueue, mEventQueueCCrsr, mEventQueuePCrsr,
                         host, inFlight>>
      PROVE  Held'
  BY <1>0, <1>1, HostsHoldTheSame DEF Held, HoldsBuffer, At
<1>2. ASSUME NEW h \in Hosts, HostStep(h) PROVE Held'
  <2>1. ASSUME UNCHANGED <<mBufferQueue, mBufferCount, mEventQueue, mEventQueueCCrsr, mEventQueuePCrsr,
                           inFlight>>,
               \A g \in Hosts \ {h} : host'[g] = host[g],
               ~HoldsBuffer(h), ~HoldsBuffer(h)'
        PROVE  Held'
    <3>1. \A g \in Hosts : /\ HoldsBuffer(g)' <=> HoldsBuffer(g)
                           /\ HoldsBuffer(g) => host'[g].event = host[g].event
      BY <2>1 DEF HoldsBuffer, At
    <3>2. Holding' = Holding  BY <2>1, <3>1, HostsHoldTheSame
    <3> QED  BY <1>0, <2>1, <3>2 DEF Held
  <2>2. ASSUME NEW e, e.buffer = NoBuffer, Sends(h, e),
               UNCHANGED <<mBufferQueue, mBufferCount, mEventQueue, mEventQueueCCrsr, mEventQueuePCrsr,
                           inFlight>>
        PROVE  Held'
    <3>1. /\ \A g \in Hosts \ {h} : host'[g] = host[g]
          /\ host'[h].event = e /\ host[h].at = "idle"
      BY <1>h, <2>2 DEF Sends, At, HostsOK
    <3> QED  BY <2>1, <2>2, <3>1 DEF HoldsBuffer, At
  <2>3. ASSUME NEW pc \in HostPCs, pc # "send", ~At(h, "send"), Goes(h, pc),
               UNCHANGED <<mBufferQueue, mBufferCount, mEventQueue, mEventQueueCCrsr, mEventQueuePCrsr,
                           inFlight>>
        PROVE  Held'
    <3>1. /\ \A g \in Hosts \ {h} : host'[g] = host[g]
          /\ host'[h].at = pc
      BY <1>h, <2>3 DEF Goes, HostsOK
    <3> QED  BY <2>1, <2>3, <3>1 DEF HoldsBuffer, At
  <2>4. ASSUME NEW c \in PlainClasses, SendPlainEvent(h, c) PROVE Held'
    BY <2>2, <2>4 DEF SendPlainEvent, Plain, eventVars, bufferVars, driverVars
  <2>5. ASSUME NEW c \in BufferClasses, AddBuffer(h, c) PROVE Held'
    BY <1>0, <2>5, AddHeld
  <2>6. CASE SendPowerSwitchEvent(h)
    BY <2>2, <2>3, <2>6 DEF SendPowerSwitchEvent, Plain, eventVars, bufferVars, driverVars, At, HostPCs
  <2>7. CASE SendAEvent(h)  BY <1>0, <2>7, SendHeld
  <2>8. CASE NotifyDriver(h)
    BY <2>3, <2>8 DEF NotifyDriver, eventVars, bufferVars, driverVars, At, HostPCs
  <2>9. CASE ReadPins(h) \/ RaisePlatformInterrupt(h)
    <3>1. /\ \A g \in Hosts \ {h} : host'[g] = host[g]
          /\ host'[h].at \in {"store", "idle"} /\ host[h].at \in {"raise", "store"}
      BY <1>h, <2>9 DEF ReadPins, RaisePlatformInterrupt, At, HostsOK
    <3> QED  BY <2>1, <2>9, <3>1
             DEF ReadPins, RaisePlatformInterrupt, HoldsBuffer, At, eventVars, bufferVars, driverVars
  <2> QED  BY <1>2, <2>4, <2>5, <2>6, <2>7, <2>8, <2>9 DEF HostStep
<1>3. ASSUME \/ \E p \in Pins : TakeInterrupt(p)
             \/ ClearGPIO \/ LockEventQueue \/ UnlockEventQueue \/ TestQueue \/ RaiseAgain
             \/ CopyBufferData \/ SetPower \/ UNCHANGED vars
      PROVE  Held'
  BY <1>1, <1>3 DEF TakeInterrupt, ClearGPIO, LockEventQueue, UnlockEventQueue, TestQueue, RaiseAgain,
                    CopyBufferData, SetPower, vars, eventVars, bufferVars, driverVars
<1>4. CASE TakeEvent  BY <1>0, <1>4, TakeHeld
<1>5. CASE FindNoEvent  BY <1>0, <1>5, ResetHeld
<1>6. CASE AnswerPlainEvent  BY <1>0, <1>6, AnswerHeld
<1>7. CASE DisposeBuffer  BY <1>0, <1>7, DisposeHeld
<1> QED  BY <1>2, <1>3, <1>4, <1>5, <1>6, <1>7 DEF Next, Handler, Newton

\* With fewer sends than identifiers, the counter does not come round.
LEMMA IDsStep ==
  ASSUME MaxSends < IDs, TInv, IDsAreNew, [Next]_vars
  PROVE  IDsAreNew'
<1>0. BuffersOK /\ ThreadsOK /\ SizesAssumption  BY Parts, SizesAssumption
<1>1. ASSUME UNCHANGED <<sent, mBufferNextID, mBufferCount, mBufferQueue>> PROVE IDsAreNew'
  BY <1>1 DEF IDsAreNew
<1>2. ASSUME sent < MaxSends, sent' = sent + 1, UNCHANGED <<mBufferNextID, mBufferCount, mBufferQueue>>
      PROVE  IDsAreNew'
  BY <1>0, <1>2 DEF IDsAreNew, BuffersOK, ThreadsOK, SizesAssumption
<1>3. ASSUME NEW h, NEW c \in BufferClasses, AddBuffer(h, c) PROVE IDsAreNew'
  <2>1. /\ mBufferCount \in Nat /\ mBufferCount' = mBufferCount + 1
        /\ \A i \in 0 .. mBufferCount - 1 : mBufferQueue'[i] = mBufferQueue[i]
        /\ mBufferQueue'[mBufferCount] = [fID |-> mBufferNextID, fData |-> c]
    BY <1>0, <1>3, AddStep DEF BuffersOK
  <2>2. /\ sent < MaxSends /\ sent' = sent + 1
        /\ mBufferNextID' = (mBufferNextID + 1) % IDs
    BY <1>3 DEF AddBuffer, Sends
  <2>3. mBufferNextID \in Nat /\ mBufferNextID <= sent /\ sent \in Nat /\ IDs \in Nat /\ MaxSends \in Nat
    BY <1>0 DEF IDsAreNew, BuffersOK, ThreadsOK, SizesAssumption
  <2>4. mBufferNextID' = mBufferNextID + 1
    <3>1. mBufferNextID + 1 \in 0 .. IDs - 1  BY <2>2, <2>3
    <3> QED  BY <2>2, <2>3, <3>1
  <2>5. \A i \in 0 .. mBufferCount' - 1 : mBufferQueue'[i].fID < mBufferNextID'
    <3> SUFFICES ASSUME NEW i \in 0 .. mBufferCount' - 1 PROVE mBufferQueue'[i].fID < mBufferNextID'
      OBVIOUS
    <3>1. CASE i = mBufferCount  BY <2>1, <2>3, <2>4, <3>1
    <3>2. CASE i # mBufferCount
      <4>1. i \in 0 .. mBufferCount - 1  BY <2>1, <3>2
      <4>2. mBufferQueue[i].fID \in Nat  BY <1>0, <4>1 DEF BuffersOK, RecordsWritten, Buffer, SizesAssumption
      <4> QED  BY <2>1, <2>3, <2>4, <4>1, <4>2 DEF IDsAreNew
    <3> QED  BY <3>1, <3>2
  <2> QED  BY <2>2, <2>3, <2>4, <2>5 DEF IDsAreNew
<1>4. CASE DisposeBuffer
  <2> DEFINE id == Head(inFlight).buffer
             i0 == FirstOf(id)
  <2>1. CASE RecordsOf(id) = {}
    BY <1>1, <1>4, <2>1 DEF DisposeBuffer
  <2>2. CASE RecordsOf(id) # {}
    <3>1. i0 \in 0 .. mBufferCount - 1  BY <2>2, FirstIsARecord DEF RecordsOf
    <3>2. /\ mBufferCount' = mBufferCount - 1 /\ mBufferCount \in Nat
          /\ \A k \in 0 .. mBufferCount - 2 :
               mBufferQueue'[k] = IF k < i0 THEN mBufferQueue[k] ELSE mBufferQueue[k + 1]
      BY <1>0, <1>4, <2>2, <3>1, RemoveStep DEF DisposeBuffer, BuffersOK
    <3>3. UNCHANGED <<sent, mBufferNextID>>  BY <1>4 DEF DisposeBuffer
    <3> HIDE DEF i0
    <3>4. \A k \in 0 .. mBufferCount' - 1 : mBufferQueue'[k].fID < mBufferNextID
      BY <3>1, <3>2 DEF IDsAreNew
    <3> QED  BY <3>3, <3>4 DEF IDsAreNew
  <2> QED  BY <2>1, <2>2
<1>5. ASSUME NEW h \in Hosts, HostStep(h) PROVE IDsAreNew'
  <2>1. ASSUME NEW c, SendPlainEvent(h, c) PROVE IDsAreNew'
    BY <1>2, <2>1 DEF SendPlainEvent, Sends, bufferVars
  <2>2. CASE SendPowerSwitchEvent(h)
    BY <1>2, <2>2 DEF SendPowerSwitchEvent, Sends, bufferVars
  <2>3. CASE SendAEvent(h) \/ NotifyDriver(h) \/ ReadPins(h) \/ RaisePlatformInterrupt(h)
    BY <1>1, <2>3 DEF SendAEvent, NotifyDriver, ReadPins, RaisePlatformInterrupt, bufferVars
  <2> QED  BY <1>3, <1>5, <2>1, <2>2, <2>3 DEF HostStep
<1>6. ASSUME \/ \E p \in Pins : TakeInterrupt(p)
             \/ Handler \/ AnswerPlainEvent \/ CopyBufferData \/ SetPower \/ UNCHANGED vars
      PROVE  UNCHANGED <<sent, mBufferNextID, mBufferCount, mBufferQueue>>
  BY <1>6 DEF Handler, TakeInterrupt, ClearGPIO, LockEventQueue, TakeEvent, FindNoEvent, UnlockEventQueue,
              TestQueue, RaiseAgain, AnswerPlainEvent, CopyBufferData, SetPower, vars, bufferVars
<1> QED  BY <1>1, <1>4, <1>5, <1>6 DEF Next, Newton

LEMMA CopiedStep ==
  ASSUME TInv, CopiedIsFirst, [Next]_vars
  PROVE  CopiedIsFirst'
<1>0. EventsOK /\ DriverOK  BY Parts
<1>1. ASSUME UNCHANGED <<copied, inFlight>> PROVE CopiedIsFirst'
  BY <1>1 DEF CopiedIsFirst
<1>2. CASE TakeEvent
  <2>1. mEventQueue[mEventQueueCCrsr] \in Event
    BY <1>0, <1>2 DEF TakeEvent, EventsOK, EventsWritten
  <2>2. inFlight' = Append(inFlight, mEventQueue[mEventQueueCCrsr]) /\ copied' = copied
    BY <1>2 DEF TakeEvent
  <2>3. inFlight' # <<>> /\ (inFlight # <<>> => Head(inFlight') = Head(inFlight))
    BY <1>0, <2>1, <2>2, AppendProperties, HeadTailAppend DEF DriverOK
  <2> QED  BY <2>2, <2>3 DEF CopiedIsFirst
<1>3. CASE AnswerPlainEvent
  BY <1>3 DEF AnswerPlainEvent, CopiedIsFirst
<1>4. CASE CopyBufferData
  BY <1>4 DEF CopyBufferData, CopiedIsFirst
<1>5. CASE DisposeBuffer
  BY <1>5 DEF DisposeBuffer, CopiedIsFirst
<1>6. ASSUME NEW h \in Hosts, HostStep(h) PROVE UNCHANGED <<copied, inFlight>>
  BY <1>6 DEF HostStep, SendPlainEvent, AddBuffer, SendPowerSwitchEvent, SendAEvent, NotifyDriver, ReadPins,
              RaisePlatformInterrupt, driverVars
<1>7. ASSUME \/ \E p \in Pins : TakeInterrupt(p)
             \/ ClearGPIO \/ LockEventQueue \/ FindNoEvent \/ UnlockEventQueue \/ TestQueue \/ RaiseAgain
             \/ SetPower \/ UNCHANGED vars
      PROVE  UNCHANGED <<copied, inFlight>>
  BY <1>7 DEF TakeInterrupt, ClearGPIO, LockEventQueue, FindNoEvent, UnlockEventQueue, TestQueue, RaiseAgain,
              SetPower, vars, driverVars
<1> QED  BY <1>1, <1>2, <1>3, <1>4, <1>5, <1>6, <1>7 DEF Next, Handler, Newton

\* The events on their way are those in the places.
LEMMA OnTheirWayHasPlaces ==
  ASSUME TInv
  PROVE  \A e : e \in OnTheirWay <=> \E p \in Places : EventAt(p) = e
<1>0. EventsOK /\ DriverOK  BY Parts
<1> DEFINE n == mEventQueuePCrsr - mEventQueueCCrsr
<1>1. Len(Waiting) = n /\ n \in Nat /\ \A i \in 1 .. n : Waiting[i] = mEventQueue[mEventQueueCCrsr + i - 1]
  <2>1. /\ mEventQueueCCrsr \in Nat /\ mEventQueuePCrsr \in Nat /\ mEventQueueCCrsr <= mEventQueuePCrsr
        /\ Filled(mEventQueue, mEventQueueCCrsr, mEventQueuePCrsr, Event)
    BY <1>0 DEF EventsOK, EventsWritten, Filled
  <2>2. IsCells(Waiting, mEventQueue, mEventQueueCCrsr, mEventQueuePCrsr, Event)
    BY <2>1, WaitingIsCells, CellsAreASequence
  <2> QED  BY <2>1, <2>2 DEF IsCells
<1>2. \A e : e \in SeqRange(Waiting) <=>
         \E i \in mEventQueueCCrsr .. mEventQueuePCrsr - 1 : mEventQueue[i] = e
  <2> SUFFICES ASSUME NEW e
               PROVE  e \in SeqRange(Waiting) <=>
                        \E i \in mEventQueueCCrsr .. mEventQueuePCrsr - 1 : mEventQueue[i] = e
    OBVIOUS
  <2>1. ASSUME NEW i \in mEventQueueCCrsr .. mEventQueuePCrsr - 1
        PROVE  i - mEventQueueCCrsr + 1 \in 1 .. n /\ mEventQueueCCrsr + (i - mEventQueueCCrsr + 1) - 1 = i
    BY <1>0 DEF EventsOK
  <2>2. ASSUME NEW j \in 1 .. n
        PROVE  mEventQueueCCrsr + j - 1 \in mEventQueueCCrsr .. mEventQueuePCrsr - 1
    BY <1>0 DEF EventsOK
  <2>3. e \in SeqRange(Waiting) <=> \E j \in 1 .. n : Waiting[j] = e  BY <1>1 DEF SeqRange
  <2> QED  BY <1>1, <2>1, <2>2, <2>3
<1>3. \A e : e \in SeqRange(inFlight) <=> \E k \in 1 .. Len(inFlight) : inFlight[k] = e
  BY DEF SeqRange
<1>4. \A e : (\E p \in Places : EventAt(p) = e) <=>
         \/ \E h \in Hosts : At(h, "send") /\ host[h].event = e
         \/ \E i \in mEventQueueCCrsr .. mEventQueuePCrsr - 1 : mEventQueue[i] = e
         \/ \E k \in 1 .. Len(inFlight) : inFlight[k] = e
  <2>1. ASSUME NEW p \in Places
        PROVE  \/ \E h \in Hosts : At(h, "send") /\ host[h].event = EventAt(p)
               \/ \E i \in mEventQueueCCrsr .. mEventQueuePCrsr - 1 : mEventQueue[i] = EventAt(p)
               \/ \E k \in 1 .. Len(inFlight) : inFlight[k] = EventAt(p)
    BY DEF Places, EventAt
  <2>2. ASSUME NEW h \in Hosts, At(h, "send")
        PROVE  <<"host", h>> \in Places /\ EventAt(<<"host", h>>) = host[h].event
    BY <2>2 DEF Places, EventAt
  <2>3. ASSUME NEW i \in mEventQueueCCrsr .. mEventQueuePCrsr - 1
        PROVE  <<"queue", i>> \in Places /\ EventAt(<<"queue", i>>) = mEventQueue[i]
    BY DEF Places, EventAt
  <2>4. ASSUME NEW k \in 1 .. Len(inFlight)
        PROVE  <<"flight", k>> \in Places /\ EventAt(<<"flight", k>>) = inFlight[k]
    BY DEF Places, EventAt
  <2> HIDE DEF n
  <2> QED  BY <2>1, <2>2, <2>3, <2>4
<1> QED  BY <1>2, <1>3, <1>4 DEF OnTheirWay

LEMMA HeldFollows ==
  ASSUME TInv, Held
  PROVE  BuffersFollowEvents
<1>1. ASSUME NEW e \in OnTheirWay, e.buffer # NoBuffer
      PROVE  \E p \in DOMAIN Holding : Holding[p] = e
  BY <1>1, OnTheirWayHasPlaces DEF Holding
<1>2. ASSUME NEW p \in DOMAIN Holding PROVE Holding[p] \in OnTheirWay
  BY OnTheirWayHasPlaces DEF Holding
<1>3. ASSUME NEW e \in OnTheirWay, e.buffer # NoBuffer
      PROVE  \E i \in 0 .. mBufferCount - 1 : RecordsOf(e.buffer) = {i} /\ mBufferQueue[i].fData = e.class
  <2>1. PICK p \in DOMAIN Holding : Holding[p] = e  BY <1>1, <1>3
  <2>2. PICK i \in 0 .. mBufferCount - 1 :
          mBufferQueue[i].fID = e.buffer /\ mBufferQueue[i].fData = e.class
    BY <2>1 DEF Held, Matched
  <2>3. RecordsOf(e.buffer) = {i}  BY <2>2 DEF Held, Matched, RecordsOf
  <2> QED  BY <2>2, <2>3
<1>4. ASSUME NEW i \in 0 .. mBufferCount - 1 PROVE \E e \in OnTheirWay : e.buffer = mBufferQueue[i].fID
  BY <1>2 DEF Held, Matched
<1> QED  BY <1>3, <1>4 DEF BuffersFollowEvents

\* A buffer is there, once and with its data, for as long as its event is on its way,
\* and for no longer: NewtonOS finds it when it copies, and disposes of that one.
THEOREM BuffersAlwaysFollow ==
  MaxSends < IDs => (Spec => []BuffersFollowEvents)
<1>1. TInv /\ BufferInv => BuffersFollowEvents
  BY HeldFollows DEF BufferInv, Held
<1>2. MaxSends < IDs /\ TInv /\ BufferInv /\ [Next]_vars => BufferInv'
  <2> SUFFICES ASSUME MaxSends < IDs, TInv, BufferInv, [Next]_vars PROVE BufferInv'
    OBVIOUS
  <2>1. Held'  BY HeldStep
  <2>2. IDsAreNew'  BY IDsStep DEF BufferInv
  <2>3. CopiedIsFirst'  BY CopiedStep DEF BufferInv
  <2> QED  BY <2>1, <2>2, <2>3 DEF BufferInv, Held
<1>3. ASSUME MaxSends < IDs PROVE Spec => []BuffersFollowEvents
  <2>1. TInv /\ BufferInv /\ [Next]_vars => BufferInv'  BY <1>2, <1>3
  <2> QED  BY TypeInit, TypeStep, BufferInit, <1>1, <2>1, PTL DEF Spec
<1> QED  BY <1>3
=============================================================================
