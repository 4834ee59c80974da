---------------------------- MODULE CircleBuffer ----------------------------
(***************************************************************************)
(* TCircleBuffer: the ring of bytes between the emulated sound chip, which  *)
(* produces, and the audio callback of the host, which consumes.  The two   *)
(* call it under one mutex (TPortAudioSoundManager's mDataMutex), so each   *)
(* call is one action.                                                      *)
(*                                                                          *)
(* A byte is its place in the stream: the k-th byte produced is k.  The     *)
(* cursors run from 0 to the size, both included; equal cursors mean an     *)
(* empty buffer.                                                            *)
(***************************************************************************)
EXTENDS Integers

CONSTANTS
  Capacity,     \* inInitialCapacity
  Word,         \* KUIntPtr is counted modulo Word
  Amounts,      \* the sizes of the calls
  MaxProduced   \* bound: bytes produced

\* No amount of memory comes near the width of a pointer.
ASSUME CircleAssumption ==
  /\ Capacity \in Nat \ {0} /\ MaxProduced \in Nat
  /\ Amounts \subseteq Nat \ {0}
  /\ Word \in Nat /\ \A n \in Amounts : 2 * (Capacity + MaxProduced + n) < Word

VARIABLES
  mBuffer, mProducerCrsr, mConsumerCrsr, mBufferSize,
  produced, consumed,   \* the number of bytes that went in and came out
  outBuffer,            \* what the last Consume copied: places 1, 2, ...
  exceeded              \* history: a call the code does not handle was made

ringVars == <<mBuffer, mProducerCrsr, mConsumerCrsr, mBufferSize, produced,
              consumed, outBuffer, exceeded>>

RingInit ==
  /\ mBuffer = [i \in 0 .. Capacity - 1 |-> 0]
  /\ mProducerCrsr = 0 /\ mConsumerCrsr = 0 /\ mBufferSize = Capacity
  /\ produced = 0 /\ consumed = 0
  /\ outBuffer = [k \in {} |-> 0]
  /\ exceeded = FALSE

Least(a, b) == IF a < b THEN a ELSE b

\* Mutant: the wrapped buffer counts as if it were not.
Available_NoWrap == IF mConsumerCrsr <= mProducerCrsr
                    THEN mProducerCrsr - mConsumerCrsr
                    ELSE mBufferSize - mConsumerCrsr

AvailableBytes ==
  IF mConsumerCrsr <= mProducerCrsr
  THEN mProducerCrsr - mConsumerCrsr
  ELSE mBufferSize + mProducerCrsr - mConsumerCrsr

\* When the data wrap, the difference is negative: a huge number of bytes.
AmountFree ==
  IF mConsumerCrsr <= mProducerCrsr
  THEN mBufferSize - (mProducerCrsr - mConsumerCrsr)
  ELSE (Word + mProducerCrsr - mConsumerCrsr) % Word

\* The cell of the k-th byte to consume, k = 0, 1, ...
Cell(k) == IF mConsumerCrsr + k < mBufferSize
           THEN mConsumerCrsr + k
           ELSE mConsumerCrsr + k - mBufferSize

-----------------------------------------------------------------------------
\* The calls after which the cursors or the bytes are wrong: a Produce that
\* fills a buffer whose consumer has moved, or one that reaches the consumer
\* from behind, which AmountFree should have seen; a Consume of more than
\* there is when the data wrap.
ProduceExceeds(n) ==
  \/ /\ mConsumerCrsr <= mProducerCrsr
     /\ mConsumerCrsr > 0 /\ n = mBufferSize - (mProducerCrsr - mConsumerCrsr)
  \/ mConsumerCrsr > mProducerCrsr /\ mProducerCrsr + n >= mConsumerCrsr

ConsumeExceeds(n) == mConsumerCrsr > mProducerCrsr /\ n > AvailableBytes

\* The bytes and the cursors after the unread ones were moved to the start of
\* a buffer of the given size.
Compacted(size) ==
  [i \in 0 .. size - 1 |-> IF i < AvailableBytes THEN mBuffer[Cell(i)] ELSE 0]

\* The n bytes that follow the last one produced, written from a cursor on, in
\* a buffer of the given size.
Written(buffer, size, cursor, n) ==
  [i \in 0 .. size - 1 |->
     IF i \in cursor .. cursor + n - 1 THEN produced + (i - cursor) + 1
     ELSE IF i + size \in cursor .. cursor + n - 1
          THEN produced + (i + size - cursor) + 1
          ELSE buffer[i]]

Advanced(size, cursor, n) ==
  IF cursor + n > size THEN cursor + n - size ELSE cursor + n

\* Mutant: the bytes are kept where they were when the buffer grows.
Enlarge_InPlace(n) ==
  LET size == mBufferSize + n
  IN  /\ mBuffer' = [i \in 0 .. size - 1 |->
                       IF i < mBufferSize THEN mBuffer[i] ELSE produced + 1]
      /\ mBufferSize' = size
      /\ mProducerCrsr' = mProducerCrsr + n
      /\ UNCHANGED mConsumerCrsr

Enlarge(n) ==
  LET size == mBufferSize + n - AmountFree
  IN  /\ mBuffer' = Written(Compacted(size), size, AvailableBytes, n)
      /\ mBufferSize' = size
      /\ mProducerCrsr' = Advanced(size, AvailableBytes, n)
      /\ mConsumerCrsr' = 0

Produce(n) ==
  /\ produced + n <= MaxProduced
  /\ IF n > AmountFree
     THEN Enlarge(n)
     ELSE /\ mBuffer' = Written(mBuffer, mBufferSize, mProducerCrsr, n)
          /\ mProducerCrsr' = IF mConsumerCrsr <= mProducerCrsr
                              THEN Advanced(mBufferSize, mProducerCrsr, n)
                              ELSE mProducerCrsr + n
          /\ UNCHANGED <<mBufferSize, mConsumerCrsr>>
  /\ produced' = produced + n
  /\ exceeded' = ProduceExceeds(n)
  /\ UNCHANGED <<consumed, outBuffer>>

\* Consume moves its cursor by what was asked for when the data wrap, by what
\* there is when they do not.
Consume(n) ==
  LET amount == Least(n, AvailableBytes)
      moved  == IF mConsumerCrsr <= mProducerCrsr THEN amount ELSE n
  IN  /\ outBuffer' = [k \in 1 .. amount |-> mBuffer[Cell(k - 1)]]
      /\ mConsumerCrsr' = IF amount + mConsumerCrsr > mBufferSize
                          THEN n - (mBufferSize - mConsumerCrsr)
                          ELSE mConsumerCrsr + moved
      /\ consumed' = consumed + amount
      /\ exceeded' = ConsumeExceeds(n)
      /\ UNCHANGED <<mBuffer, mProducerCrsr, mBufferSize, produced>>

\* Nothing is said of the buffer after a call it does not handle.
RingNext == ~exceeded /\ \E n \in Amounts : Produce(n) \/ Consume(n)

RingSpec == RingInit /\ [][RingNext]_ringVars

-----------------------------------------------------------------------------
\* Properties.

RingTypeOK ==
  /\ mBufferSize \in Nat \ {0}
  /\ mBuffer \in [0 .. mBufferSize - 1 -> Nat]
  /\ mProducerCrsr \in Nat /\ mConsumerCrsr \in Nat
  /\ produced \in 0 .. MaxProduced /\ consumed \in Nat
  /\ exceeded \in BOOLEAN

\* The buffer holds the bytes that were produced and not consumed, in order.
HoldsTheUnread ==
  /\ mProducerCrsr <= mBufferSize /\ mConsumerCrsr <= mBufferSize
  /\ AvailableBytes = produced - consumed
  /\ \A k \in 0 .. produced - consumed - 1 : mBuffer[Cell(k)] = consumed + k + 1

\* TCircleBuffer keeps the bytes, in order, while it wraps, fills, empties and
\* grows, up to the first of the three calls it does not handle, and each of
\* these does lose or repeat bytes.
UnreadBytesAreKept == HoldsTheUnread <=> ~exceeded

\* Consume hands over the bytes that follow the last it handed over.
BytesComeOutInOrder ==
  [][~exceeded' => \A k \in 1 .. consumed' - consumed : outBuffer'[k] = consumed + k]_ringVars
=============================================================================
