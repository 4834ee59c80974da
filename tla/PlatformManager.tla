--------------------------- MODULE PlatformManager ---------------------------
(***************************************************************************)
(* TPlatformManager: the queue of events that host threads (windows, menus, *)
(* package installers) send to NewtonOS, the buffers some of them refer to, *)
(* the lock that keeps NewtonOS from being told of more, and the GPIO pin   *)
(* that tells it.  With it, its clients:                                    *)
(*                                                                          *)
(*   - host threads, each in the middle of at most one call;                *)
(*   - the emulator thread, which executes the interrupt handler and the    *)
(*     task of the platform driver (external: NewtonOS code that runs on    *)
(*     the emulator and makes these native calls).                          *)
(*                                                                          *)
(* mMutex protects the two queues: a section under it is one action.  The   *)
(* lock count and the register of pins are accessed without it, so every    *)
(* one of their reads and writes by a host thread is an action of its own.  *)
(***************************************************************************)
EXTENDS Naturals, Sequences

CONSTANTS
  Hosts,             \* the host threads that send events
  PlainClasses,      \* the classes of events that fit in the queue
  BufferClasses,     \* the classes of events that refer to a buffer
  NoBuffer,          \* the buffer of the others
  Garbage,           \* the content of memory that was never written
  OtherPins,         \* the pins of the other devices, in the same register
  EventQueueSize, EventQueueIncrement,    \* kDEFAULTEVENTQUEUESIZE, ...
  BufferQueueSize, BufferQueueIncrement,  \* kDEFAULTBUFFERQUEUESIZE, ...
  IDs,               \* the number of buffer identifiers, 2^32
  MaxSends           \* bound: calls of the host threads

Power == "powr"      \* the class of the event of the power switch
Platform == "platform"       \* the pin of RaisePlatformInterrupt
Pins == {Platform} \union OtherPins

ASSUME SizesAssumption ==
  /\ EventQueueSize \in Nat \ {0} /\ EventQueueIncrement \in Nat \ {0}
  /\ BufferQueueSize \in Nat \ {0} /\ BufferQueueIncrement \in Nat \ {0}
  /\ IDs \in Nat \ {0} /\ MaxSends \in Nat

ASSUME ValuesAssumption ==
  /\ Platform \notin OtherPins
  /\ NoBuffer \notin Nat
  /\ PlainClasses \intersect BufferClasses = {}

Classes == PlainClasses \union BufferClasses \union {Power}
Event   == [class : Classes, buffer : (0 .. IDs - 1) \union {NoBuffer}]
Buffer  == [fID : 0 .. IDs - 1, fData : BufferClasses]
Plain(c) == [class |-> c, buffer |-> NoBuffer]
NoEvent  == Plain(Power)   \* mEvent before the first event

VARIABLES
  \* The fields of TPlatformManager.
  mEventQueue, mEventQueueCCrsr, mEventQueuePCrsr, mEventQueueSize,
  mBufferQueue, mBufferCount, mBufferQueueSize, mBufferNextID,
  mPowerOn, mQueueLockCount,
  \* TInterruptManager's register.
  mGPIORaised,
  \* The host threads: where each is, the event it sends, the pins it read.
  host, sent,
  \* The emulator thread: where it is, the pin it clears, the pins it read.
  emuPC, emuPin, emuPins,
  \* The driver: its event, the messages it sent, the replies to them.
  mEvent, inFlight, replies,
  \* The data NewtonOS copied for the first message, or NoBuffer.
  copied

eventVars  == <<mEventQueue, mEventQueueCCrsr, mEventQueuePCrsr, mEventQueueSize>>
bufferVars == <<mBufferQueue, mBufferCount, mBufferQueueSize, mBufferNextID>>
emuVars    == <<emuPC, emuPin, emuPins>>
driverVars == <<mEvent, inFlight, replies, copied>>
vars == <<eventVars, bufferVars, mPowerOn, mQueueLockCount, mGPIORaised, host,
          sent, emuVars, driverVars>>

HostPCs == {"idle", "send", "notify", "raise", "store"}
EmuPCs  == {"newton", "clear", "lock", "get", "unlock", "test", "raise"}

Init ==
  /\ mEventQueue = [i \in 0 .. EventQueueSize - 1 |-> Garbage]
  /\ mEventQueueCCrsr = 0 /\ mEventQueuePCrsr = 0
  /\ mEventQueueSize = EventQueueSize
  /\ mBufferQueue = [i \in 0 .. BufferQueueSize - 1 |-> Garbage]
  /\ mBufferCount = 0 /\ mBufferQueueSize = BufferQueueSize
  /\ mBufferNextID = 0
  /\ mPowerOn = TRUE /\ mQueueLockCount = 0
  /\ mGPIORaised = {}
  /\ host = [h \in Hosts |-> [at |-> "idle", event |-> NoEvent, pins |-> {}]]
  /\ sent = 0
  /\ emuPC = "newton" /\ emuPin = Platform /\ emuPins = {}
  /\ mEvent = NoEvent /\ inFlight = <<>> /\ replies = 0 /\ copied = NoBuffer

\* Mutant: the queue gets new memory and not the old content.
Realloc_Fresh(array, size) ==
  IF DOMAIN array = 0 .. size - 1 THEN array ELSE [i \in 0 .. size - 1 |-> Garbage]

\* realloc: the old cells that still fit, and memory nobody wrote.
Realloc(array, size) ==
  [i \in 0 .. size - 1 |-> IF i \in DOMAIN array THEN array[i] ELSE Garbage]

\* Mutant: the queue grows when the cell is needed, after it was written.
Grown_Late(count, size, increment) == IF count > size THEN size + increment ELSE size

\* A queue grows as soon as its last cell is used.
Grown(count, size, increment) == IF count = size THEN size + increment ELSE size

-----------------------------------------------------------------------------
\* The host threads.

At(h, pc) == host[h].at = pc
Goes(h, pc) == host' = [host EXCEPT ![h].at = pc]

Sends(h, e) ==
  /\ At(h, "idle")
  /\ sent < MaxSends
  /\ sent' = sent + 1
  /\ host' = [host EXCEPT ![h].at = "send", ![h].event = e]

\* SendKeyEvent, SendBacklightEvent.
SendPlainEvent(h, c) ==
  /\ Sends(h, Plain(c))
  /\ UNCHANGED <<eventVars, bufferVars, mPowerOn, mQueueLockCount, mGPIORaised,
                 emuVars, driverVars>>

SendPowerSwitchEvent(h) ==
  /\ IF mPowerOn THEN Sends(h, Plain(Power))
                 ELSE /\ At(h, "idle") /\ sent < MaxSends
                      /\ Goes(h, "raise") /\ sent' = sent + 1
  /\ UNCHANGED <<eventVars, bufferVars, mPowerOn, mQueueLockCount, mGPIORaised,
                 emuVars, driverVars>>

\* SendBufferAEvent, up to SendAEvent.  The host has memory for fewer buffers
\* than there are identifiers.
AddBuffer(h, c) ==
  LET size == Grown(mBufferCount + 1, mBufferQueueSize, BufferQueueIncrement)
  IN  /\ mBufferCount + 1 < IDs
      /\ Sends(h, [class |-> c, buffer |-> mBufferNextID])
      /\ mBufferNextID' = (mBufferNextID + 1) % IDs
      /\ mBufferCount' = mBufferCount + 1
      /\ mBufferQueueSize' = size
      /\ mBufferQueue' = [Realloc(mBufferQueue, size) EXCEPT
                            ![mBufferCount] = [fID |-> mBufferNextID, fData |-> c]]
      /\ UNCHANGED <<eventVars, mPowerOn, mQueueLockCount, mGPIORaised, emuVars, driverVars>>

\* The array after one more event: it grows after the event is written.
Insert(e) ==
  LET size == Grown(mEventQueuePCrsr + 1, mEventQueueSize, EventQueueIncrement)
  IN  /\ mEventQueue' = Realloc([mEventQueue EXCEPT ![mEventQueuePCrsr] = e], size)
      /\ mEventQueueSize' = size
      /\ mEventQueuePCrsr' = mEventQueuePCrsr + 1

SendAEvent(h) ==
  /\ At(h, "send")
  /\ Insert(host[h].event)
  /\ host' = [host EXCEPT ![h].at = "notify", ![h].event = NoEvent]
  /\ UNCHANGED <<mEventQueueCCrsr, bufferVars, mPowerOn, mQueueLockCount,
                 mGPIORaised, sent, emuVars, driverVars>>

\* The end of SendAEvent, without the mutex.
NotifyDriver(h) ==
  /\ At(h, "notify")
  /\ Goes(h, IF mQueueLockCount = 0 THEN "raise" ELSE "idle")
  /\ UNCHANGED <<eventVars, bufferVars, mPowerOn, mQueueLockCount, mGPIORaised,
                 sent, emuVars, driverVars>>

\* RaisePlatformInterrupt: mGPIORaised |= the pin, a read and a write.
ReadPins(h) ==
  /\ At(h, "raise")
  /\ host' = [host EXCEPT ![h].at = "store", ![h].pins = mGPIORaised]
  /\ UNCHANGED <<eventVars, bufferVars, mPowerOn, mQueueLockCount, mGPIORaised,
                 sent, emuVars, driverVars>>

RaisePlatformInterrupt(h) ==
  /\ At(h, "store")
  /\ mGPIORaised' = host[h].pins \union {Platform}
  /\ host' = [host EXCEPT ![h].at = "idle", ![h].pins = {}]
  /\ UNCHANGED <<eventVars, bufferVars, mPowerOn, mQueueLockCount, sent, emuVars, driverVars>>

-----------------------------------------------------------------------------
\* The emulator thread.

\* NewtonOS finds a pin raised and clears it: mGPIORaised &= ~pin.
TakeInterrupt(p) ==
  /\ emuPC = "newton"
  /\ p \in mGPIORaised
  /\ emuPC' = "clear" /\ emuPin' = p /\ emuPins' = mGPIORaised
  /\ UNCHANGED <<eventVars, bufferVars, mPowerOn, mQueueLockCount, mGPIORaised,
                 host, sent, driverVars>>

ClearGPIO ==
  /\ emuPC = "clear"
  /\ mGPIORaised' = emuPins \ {emuPin}
  /\ emuPC' = IF emuPin = Platform THEN "lock" ELSE "newton"
  /\ emuPin' = Platform /\ emuPins' = {}
  /\ UNCHANGED <<eventVars, bufferVars, mPowerOn, mQueueLockCount, host, sent,
                 driverVars>>

LockEventQueue ==
  /\ emuPC = "lock"
  /\ mQueueLockCount' = mQueueLockCount + 1
  /\ emuPC' = "get"
  /\ UNCHANGED <<eventVars, bufferVars, mPowerOn, mGPIORaised, host, sent, emuPin, emuPins, driverVars>>

\* GetNextEvent.  The driver sends the event at once to the port it names,
\* which keeps the queue locked until the reply.
TakeEvent ==
  /\ emuPC = "get"
  /\ mEventQueueCCrsr # mEventQueuePCrsr
  /\ mEvent' = mEventQueue[mEventQueueCCrsr]
  /\ inFlight' = Append(inFlight, mEvent')
  /\ mEventQueueCCrsr' = mEventQueueCCrsr + 1
  /\ emuPC' = "newton"
  /\ UNCHANGED <<mEventQueue, mEventQueuePCrsr, mEventQueueSize, bufferVars,
                 mPowerOn, mQueueLockCount, mGPIORaised, host, sent, emuPin,
                 emuPins, replies, copied>>

\* Mutant: the handler that finds no event leaves the queue locked.
AfterNoEvent_Locked == "newton"

AfterNoEvent == "unlock"

FindNoEvent ==
  /\ emuPC = "get"
  /\ mEventQueueCCrsr = mEventQueuePCrsr
  /\ mEventQueueCCrsr' = 0 /\ mEventQueuePCrsr' = 0
  /\ mEventQueueSize' = EventQueueSize
  /\ mEventQueue' = Realloc(mEventQueue, EventQueueSize)
  /\ emuPC' = AfterNoEvent
  /\ UNCHANGED <<bufferVars, mPowerOn, mQueueLockCount, mGPIORaised, host, sent,
                 emuPin, emuPins, driverVars>>

\* UnlockEventQueue, by the handler that found no event or by the driver's
\* task that got a reply.
UnlockEventQueue ==
  /\ \/ emuPC = "unlock" /\ UNCHANGED replies
     \/ emuPC = "newton" /\ replies > 0 /\ replies' = replies - 1
  /\ mQueueLockCount' = IF mQueueLockCount # 0 THEN mQueueLockCount - 1 ELSE 0
  /\ emuPC' = IF mQueueLockCount = 1 THEN "test" ELSE "newton"
  /\ UNCHANGED <<eventVars, bufferVars, mPowerOn, mGPIORaised, host, sent, emuPin, emuPins, mEvent, inFlight, copied>>

\* Mutant: unlocking the queue announces nothing.
EventsWait_Never == FALSE

EventsWait == mEventQueuePCrsr # mEventQueueCCrsr

\* Its end, without the mutex.
TestQueue ==
  /\ emuPC = "test"
  /\ IF EventsWait
     THEN emuPC' = "raise" /\ emuPins' = mGPIORaised
     ELSE emuPC' = "newton" /\ UNCHANGED emuPins
  /\ UNCHANGED <<eventVars, bufferVars, mPowerOn, mQueueLockCount, mGPIORaised,
                 host, sent, emuPin, driverVars>>

RaiseAgain ==
  /\ emuPC = "raise"
  /\ mGPIORaised' = emuPins \union {Platform}
  /\ emuPC' = "newton" /\ emuPins' = {}
  /\ UNCHANGED <<eventVars, bufferVars, mPowerOn, mQueueLockCount, host, sent,
                 emuPin, driverVars>>

\* NewtonOS turns the machine off and on.
SetPower ==
  /\ emuPC = "newton"
  /\ mPowerOn' = ~mPowerOn
  /\ UNCHANGED <<eventVars, bufferVars, mQueueLockCount, mGPIORaised, host, sent,
                 emuVars, driverVars>>

\* NewtonOS handles the first message (external).  An event without a buffer
\* is only answered; the data of another are copied, then disposed of.
AnswerPlainEvent ==
  /\ emuPC = "newton"
  /\ inFlight # <<>> /\ Head(inFlight).buffer = NoBuffer
  /\ inFlight' = Tail(inFlight) /\ replies' = replies + 1
  /\ UNCHANGED <<eventVars, bufferVars, mPowerOn, mQueueLockCount, mGPIORaised,
                 host, sent, emuVars, mEvent, copied>>

\* The records with an identifier; the code takes the first.
RecordsOf(id) == {i \in 0 .. mBufferCount - 1 : mBufferQueue[i].fID = id}
FirstOf(id)   == CHOOSE i \in RecordsOf(id) : \A j \in RecordsOf(id) : i <= j

\* "Copy some buffer data (and remove the buffer)", says TPlatformManager.h:190: it
\* removes nothing, and its caller, which may copy by pieces, disposes of the buffer.
CopyBufferData ==
  LET id == Head(inFlight).buffer
  IN  /\ emuPC = "newton"
      /\ inFlight # <<>> /\ id # NoBuffer /\ copied = NoBuffer
      /\ copied' = IF RecordsOf(id) # {} THEN mBufferQueue[FirstOf(id)].fData
                                         ELSE Garbage
      /\ UNCHANGED <<eventVars, bufferVars, mPowerOn, mQueueLockCount,
                     mGPIORaised, host, sent, emuVars, mEvent, inFlight,
                     replies>>

\* Mutant: the record is freed and stays in the array.
RemoveRecord_NoMove(i) ==
  mBufferCount' = mBufferCount - 1 /\ UNCHANGED mBufferQueue

\* memmove takes mBufferCount - i records from i + 1, one more than there are.
RemoveRecord(i) ==
  /\ mBufferQueue' = [k \in DOMAIN mBufferQueue |->
                        IF k \in i .. mBufferCount - 1 THEN mBufferQueue[k + 1]
                                                       ELSE mBufferQueue[k]]
  /\ mBufferCount' = mBufferCount - 1

DisposeBuffer ==
  LET id == Head(inFlight).buffer
  IN  /\ emuPC = "newton"
      /\ inFlight # <<>> /\ copied # NoBuffer
      /\ IF RecordsOf(id) # {} THEN RemoveRecord(FirstOf(id))
                               ELSE UNCHANGED <<mBufferQueue, mBufferCount>>
      /\ copied' = NoBuffer
      /\ inFlight' = Tail(inFlight) /\ replies' = replies + 1
      /\ UNCHANGED <<eventVars, mBufferQueueSize, mBufferNextID, mPowerOn,
                     mQueueLockCount, mGPIORaised, host, sent, emuVars,
                     mEvent>>

HostStep(h) ==
  \/ \E c \in PlainClasses : SendPlainEvent(h, c)
  \/ \E c \in BufferClasses : AddBuffer(h, c)
  \/ SendPowerSwitchEvent(h)
  \/ SendAEvent(h) \/ NotifyDriver(h) \/ ReadPins(h) \/ RaisePlatformInterrupt(h)

Handler ==
  \/ ClearGPIO \/ LockEventQueue \/ TakeEvent \/ FindNoEvent
  \/ UnlockEventQueue \/ TestQueue \/ RaiseAgain

Newton == AnswerPlainEvent \/ CopyBufferData \/ DisposeBuffer

Next ==
  \/ \E h \in Hosts : HostStep(h)
  \/ \E p \in Pins : TakeInterrupt(p)
  \/ Handler \/ Newton \/ SetPower

Spec == Init /\ [][Next]_vars

\* A call that began goes on, the emulator thread executes NewtonOS, and
\* NewtonOS serves its interrupts and its messages.  Nobody has to call.
Fairness ==
  /\ \A h \in Hosts :
       WF_vars(SendAEvent(h) \/ NotifyDriver(h) \/ ReadPins(h)
               \/ RaisePlatformInterrupt(h))
  /\ WF_vars(TakeInterrupt(Platform))
  /\ WF_vars(Handler)
  /\ WF_vars(Newton)

FairSpec == Spec /\ Fairness

-----------------------------------------------------------------------------
\* Properties.

TypeOK ==
  /\ mEventQueueSize \in Nat /\ mEventQueueSize >= EventQueueSize
  /\ mEventQueuePCrsr \in 0 .. mEventQueueSize - 1
  /\ mEventQueueCCrsr \in 0 .. mEventQueuePCrsr
  /\ mEventQueue \in [0 .. mEventQueueSize - 1 -> Event \union {Garbage}]
  /\ mBufferQueueSize \in Nat /\ mBufferCount \in 0 .. mBufferQueueSize - 1
  /\ mBufferQueue \in [0 .. mBufferQueueSize - 1 -> Buffer \union {Garbage}]
  /\ mBufferNextID \in 0 .. IDs - 1
  /\ mPowerOn \in BOOLEAN /\ mQueueLockCount \in Nat
  /\ mGPIORaised \in SUBSET Pins
  /\ host \in [Hosts -> [at : HostPCs, event : Event, pins : SUBSET Pins]]
  /\ sent \in Nat
  /\ emuPC \in EmuPCs /\ emuPin \in Pins /\ emuPins \in SUBSET Pins
  /\ mEvent \in Event /\ inFlight \in Seq(Event) /\ replies \in Nat
  /\ copied \in BufferClasses \union {NoBuffer, Garbage}

\* The events between the cursors.
Waiting == [i \in 1 .. mEventQueuePCrsr - mEventQueueCCrsr |->
              mEventQueue[mEventQueueCCrsr + i - 1]]

\* The array and its cursors, through growth, reset and shrinking, are a queue
\* from which NewtonOS takes every event once, in the order of the sends.
Queue == INSTANCE EventQueue WITH waiting <- Waiting, fetched <- mEvent
ImplementsQueue == Queue!Spec

\* Under fair scheduling NewtonOS takes every event, whatever the order of the
\* host's test of the lock and the driver's locking and unlocking.
EventsArrive == Queue!Live

\* Nobody is at work on an event that was sent: no host thread in the middle
\* of a call, no handler, no message on its way.
Quiet ==
  /\ \A h \in Hosts : host[h].at \in {"idle", "send"}
  /\ emuPC = "newton" /\ inFlight = <<>> /\ replies = 0

\* When all is quiet, events that wait have their pin raised: none is left
\* behind by SendAEvent, which tests the lock without the mutex after it has
\* freed it, nor by UnlockEventQueue.
NoForgottenEvent ==
  Quiet /\ Waiting # <<>> => Platform \in mGPIORaised

\* When all is quiet the queue is unlocked: the handler and the driver's task
\* undo every lock, those of the events that overlap as well.
LockIsBalanced == Quiet => mQueueLockCount = 0

SeqRange(s) == {s[i] : i \in 1 .. Len(s)}

\* The events that NewtonOS has still to handle.
OnTheirWay ==
  SeqRange(Waiting) \union SeqRange(inFlight)
    \union {host[h].event : h \in {g \in Hosts : At(g, "send")}}

\* AddBuffer, DisposeBuffer and the array that they grow and compact: a buffer
\* is there, once, with the data of its event, until the event is handled, and
\* no other buffer is.  The copies of its data leave it there, for the driver copies
\* by pieces, though TPlatformManager.h:190 has CopyBufferData remove it.
BuffersFollowEvents ==
  /\ \A e \in OnTheirWay : e.buffer # NoBuffer =>
       \E i \in 0 .. mBufferCount - 1 :
         /\ RecordsOf(e.buffer) = {i}
         /\ mBufferQueue[i].fData = e.class
  /\ \A i \in 0 .. mBufferCount - 1 :
       \E e \in OnTheirWay : e.buffer = mBufferQueue[i].fID
=============================================================================
