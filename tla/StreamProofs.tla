---------------------------- MODULE StreamProofs ----------------------------
(***************************************************************************)
(* The two streams of bytes: the ring of the sound and a connection of the  *)
(* network.                                                                 *)
(*                                                                          *)
(* TCircleBuffer keeps the unread bytes, for any capacity and any sizes of  *)
(* its calls, until one of the calls that it does not handle; and each of   *)
(* these does break it.  The invariant adds to the property that the buffer *)
(* never grows beyond what the bytes produced need (Limits): the number of  *)
(* free bytes of a buffer that wraps, computed modulo the width of a        *)
(* pointer, exceeds any amount, and such a buffer never grows.              *)
(*                                                                          *)
(* TCPPacketHandler gives NewtonOS the peer's bytes, none missing, closes   *)
(* the connection when both sides have, and acknowledges its FIN, for any   *)
(* number of bytes, packets and sockets.  The invariant follows a segment   *)
(* through the pipe (Delivery): what is missing is in the pipe, in one      *)
(* packet, before any FIN; and the handler's count of what NewtonOS sent    *)
(* is NewtonOS's own, less the FIN (Acknowledgement).                       *)
(***************************************************************************)
EXTENDS CircleBuffer, UsermodeNetwork, SequenceTheorems, TLAPS

Limits ==
  /\ mBufferSize <= Capacity + MaxProduced
  /\ consumed <= produced

RingInv == RingTypeOK /\ UnreadBytesAreKept /\ (~exceeded => Limits)

-----------------------------------------------------------------------------
\* The state before a call that the code may still handle.
Good == RingTypeOK /\ HoldsTheUnread /\ Limits

LEMMA FreeBytes ==
  ASSUME Good, NEW n \in Amounts
  PROVE  /\ AmountFree \in Int
         /\ mConsumerCrsr > mProducerCrsr => n <= AmountFree
         /\ mConsumerCrsr <= mProducerCrsr =>
              AmountFree = mBufferSize - (mProducerCrsr - mConsumerCrsr)
<1>1. /\ mBufferSize \in Nat /\ mProducerCrsr \in Nat /\ mConsumerCrsr \in Nat
      /\ mConsumerCrsr <= mBufferSize /\ mBufferSize <= Capacity + MaxProduced
  BY DEF Good, RingTypeOK, HoldsTheUnread, Limits
<1>2. /\ n \in Nat \ {0} /\ Word \in Nat /\ Capacity \in Nat /\ MaxProduced \in Nat
      /\ 2 * (Capacity + MaxProduced + n) < Word
  BY CircleAssumption
<1>3. CASE mConsumerCrsr > mProducerCrsr
  <2> DEFINE free == Word + mProducerCrsr - mConsumerCrsr
  <2>1. free \in 0 .. Word - 1 /\ n <= free
    BY <1>1, <1>2, <1>3
  <2>2. free % Word = free
    <3> HIDE DEF free
    <3> QED BY <1>2, <2>1
  <2> QED BY <1>1, <1>3, <2>1, <2>2 DEF AmountFree
<1>4. CASE mConsumerCrsr <= mProducerCrsr
  BY <1>1, <1>4 DEF AmountFree
<1> QED BY <1>1, <1>3, <1>4

LEMMA EnlargeStep ==
  ASSUME Good, NEW n \in Amounts, Produce(n), n > AmountFree
  PROVE  Good' /\ ~exceeded'
<1> DEFINE P == mProducerCrsr
           C == mConsumerCrsr
           size == P - C + n
<1>1. /\ mBufferSize \in Nat \ {0} /\ P \in Nat /\ C \in Nat /\ n \in Nat \ {0}
      /\ produced \in Nat /\ consumed \in Nat /\ MaxProduced \in Nat /\ Capacity \in Nat
      /\ P <= mBufferSize /\ C <= mBufferSize
      /\ mBuffer \in [0 .. mBufferSize - 1 -> Nat]
  BY CircleAssumption DEF Good, RingTypeOK, HoldsTheUnread
<1>2. C <= P /\ AmountFree = mBufferSize - (P - C)
  BY <1>1, FreeBytes
<1>3. AvailableBytes = P - C /\ P - C = produced - consumed
  BY <1>2 DEF AvailableBytes, Good, HoldsTheUnread
<1>4. mBufferSize + n - AmountFree = size
  BY <1>1, <1>2
<1>5. /\ mBuffer' = Written(Compacted(size), size, P - C, n)
      /\ mBufferSize' = size
      /\ mProducerCrsr' = Advanced(size, P - C, n) /\ mConsumerCrsr' = 0
      /\ produced' = produced + n /\ consumed' = consumed /\ produced + n <= MaxProduced
  BY <1>3, <1>4 DEF Produce, Enlarge
<1>6. mProducerCrsr' = size
  BY <1>1, <1>2, <1>5 DEF Advanced
<1>7. \A k \in 0 .. P - C - 1 : Compacted(size)[k] = consumed + k + 1
  <2> TAKE k \in 0 .. P - C - 1
  <2>1. mBuffer[Cell(k)] = consumed + k + 1
    BY <1>1, <1>3 DEF Good, HoldsTheUnread
  <2>2. k \in 0 .. size - 1 /\ k < AvailableBytes
    BY <1>1, <1>3
  <2> QED BY <2>1, <2>2 DEF Compacted
<1>8. \A k \in 0 .. size - 1 : mBuffer'[k] = consumed + k + 1
  <2> TAKE k \in 0 .. size - 1
  <2>1. CASE k < P - C
    BY <1>1, <1>2, <1>5, <1>7, <2>1 DEF Written
  <2>2. CASE k >= P - C
    BY <1>1, <1>2, <1>3, <1>5, <2>2 DEF Written
  <2> QED BY <1>1, <2>1, <2>2
<1>9. mBuffer' \in [0 .. size - 1 -> Nat]
  <2>1. mBuffer' = [k \in 0 .. size - 1 |-> mBuffer'[k]]
    BY <1>5 DEF Written
  <2> QED BY <1>1, <1>8, <2>1
<1>10. ~exceeded' /\ exceeded' \in BOOLEAN
  <2>1. ProduceExceeds(n) = FALSE
    BY <1>1, <1>2 DEF ProduceExceeds
  <2>2. exceeded' = ProduceExceeds(n)
    BY DEF Produce
  <2> QED BY <2>1, <2>2
<1>11. RingTypeOK'
  BY <1>1, <1>2, <1>5, <1>6, <1>9, <1>10 DEF RingTypeOK
<1>12. Limits'
  BY <1>1, <1>2, <1>3, <1>5 DEF Limits, Good
<1>13. AvailableBytes' = size /\ \A k \in 0 .. size - 1 : Cell(k)' = k
  BY <1>1, <1>2, <1>5, <1>6 DEF AvailableBytes, Cell
<1>14. HoldsTheUnread'
  BY <1>1, <1>2, <1>3, <1>5, <1>6, <1>8, <1>13 DEF HoldsTheUnread
<1> QED BY <1>10, <1>11, <1>12, <1>14 DEF Good

\* The bytes are written behind the producer, perhaps around the end.
LEMMA WriteStep ==
  ASSUME Good, NEW n \in Amounts, Produce(n), ~(n > AmountFree)
  PROVE  RingTypeOK' /\ (~exceeded' => Good') /\ (exceeded' => ~HoldsTheUnread')
<1> DEFINE P == mProducerCrsr
           C == mConsumerCrsr
           size == mBufferSize
<1>1. /\ size \in Nat \ {0} /\ P \in Nat /\ C \in Nat /\ n \in Nat \ {0}
      /\ produced \in Nat /\ consumed \in Nat /\ MaxProduced \in Nat /\ Capacity \in Nat
      /\ P <= size /\ C <= size
      /\ mBuffer \in [0 .. size - 1 -> Nat]
  BY CircleAssumption DEF Good, RingTypeOK, HoldsTheUnread
<1>2. /\ mBuffer' = Written(mBuffer, size, P, n)
      /\ mProducerCrsr' = IF C <= P /\ P + n > size THEN P + n - size ELSE P + n
      /\ mBufferSize' = size /\ mConsumerCrsr' = C
      /\ produced' = produced + n /\ consumed' = consumed /\ produced + n <= MaxProduced
      /\ exceeded' = ProduceExceeds(n)
  BY DEF Produce, Advanced
<1>3. C <= P => n <= size - (P - C)
  BY <1>1, FreeBytes
<1>4. /\ AvailableBytes = produced - consumed
      /\ AvailableBytes = IF C <= P THEN P - C ELSE size + P - C
      /\ \A k \in 0 .. produced - consumed - 1 : mBuffer[Cell(k)] = consumed + k + 1
  BY DEF Good, HoldsTheUnread, AvailableBytes
<1>5. /\ exceeded' \in BOOLEAN
      /\ C <= P => (exceeded' <=> C > 0 /\ n = size - (P - C))
      /\ ~(C <= P) => (exceeded' <=> P + n >= C)
  <2>1. /\ C <= P => (ProduceExceeds(n) <=> C > 0 /\ n = size - (P - C))
        /\ ~(C <= P) => (ProduceExceeds(n) <=> P + n >= C)
    BY <1>1 DEF ProduceExceeds
  <2>2. ProduceExceeds(n) \in BOOLEAN
    BY DEF ProduceExceeds
  <2>3. exceeded' = ProduceExceeds(n)
    BY <1>2
  <2> QED BY <2>1, <2>2, <2>3, Zenon
<1>10. \A i \in 0 .. size - 1 :
         /\ P <= i /\ i < P + n => mBuffer'[i] = produced + (i - P) + 1
         /\ i < P /\ i + size < P + n => mBuffer'[i] = produced + (i + size - P) + 1
  BY <1>1, <1>2 DEF Written
<1>6. mBuffer' \in [0 .. size - 1 -> Nat]
  <2>1. \A i \in 0 .. size - 1 : mBuffer'[i] \in Nat
    BY <1>1, <1>2 DEF Written
  <2>2. mBuffer' = [i \in 0 .. size - 1 |-> mBuffer'[i]]
    BY <1>2 DEF Written
  <2> QED BY <2>1, <2>2
<1>7. RingTypeOK'
  BY <1>1, <1>2, <1>5, <1>6 DEF RingTypeOK
<1>8. ASSUME exceeded' PROVE ~HoldsTheUnread'
  <2>1. AvailableBytes' # produced' - consumed'
    BY <1>1, <1>2, <1>4, <1>5, <1>8 DEF AvailableBytes
  <2> QED BY <2>1 DEF HoldsTheUnread
<1>9. ASSUME ~exceeded' PROVE Good'
  <2>1. Limits'
    BY <1>1, <1>2 DEF Good, Limits
  <2>2. AvailableBytes' = AvailableBytes + n /\ mProducerCrsr' <= size
    BY <1>1, <1>2, <1>3, <1>4, <1>5, <1>9 DEF AvailableBytes
  <2>3. \A k \in 0 .. AvailableBytes - 1 : mBuffer'[Cell(k)] = mBuffer[Cell(k)]
    BY <1>1, <1>2, <1>3, <1>4, <1>5, <1>9 DEF Written, Cell
  <2>4. \A k \in AvailableBytes .. AvailableBytes + n - 1 :
          mBuffer'[Cell(k)] = consumed + k + 1
    <3> TAKE k \in AvailableBytes .. AvailableBytes + n - 1
    <3> DEFINE j == k - AvailableBytes
    <3>1. j \in 0 .. n - 1 /\ k \in Int /\ consumed + k = produced + j
      BY <1>1, <1>4
    <3> HIDE DEF j
    <3>2. CASE P + j < size
      <4>1. Cell(k) = P + j
        BY <1>1, <1>3, <1>4, <1>5, <1>9, <3>1, <3>2 DEF Cell, j
      <4> DEFINE i == P + j
      <4>2. i \in 0 .. size - 1 /\ P <= i /\ i < P + n /\ i - P = j
        BY <1>1, <3>1, <3>2
      <4>3. mBuffer'[i] = produced + (i - P) + 1
        BY <1>10, <4>2
      <4> QED BY <1>1, <3>1, <4>1, <4>2, <4>3
    <3>3. CASE ~(P + j < size)
      <4>1. C <= P /\ Cell(k) = P + j - size /\ P + j - size < P
        BY <1>1, <1>3, <1>4, <1>5, <1>9, <3>1, <3>3 DEF Cell, j
      <4> DEFINE i == P + j - size
      <4>2. i \in 0 .. size - 1 /\ i < P /\ i + size < P + n /\ i + size - P = j
        BY <1>1, <3>1, <3>3, <4>1
      <4>3. mBuffer'[i] = produced + (i + size - P) + 1
        BY <1>10, <4>2
      <4> QED BY <1>1, <3>1, <4>1, <4>2, <4>3
    <3> QED BY <3>2, <3>3
  <2>5. \A k \in 0 .. produced' - consumed' - 1 : mBuffer'[Cell(k)] = consumed + k + 1
    BY <1>1, <1>2, <1>4, <2>3, <2>4
  <2>6. \A k : Cell(k)' = Cell(k)
    BY <1>2 DEF Cell
  <2>7. HoldsTheUnread'
    BY <1>1, <1>2, <1>4, <2>2, <2>5, <2>6 DEF HoldsTheUnread
  <2> QED BY <1>7, <2>1, <2>7 DEF Good
<1> QED BY <1>7, <1>8, <1>9

\* The bytes are copied from the consumer's cursor on.
LEMMA ConsumeStep ==
  ASSUME Good, NEW n \in Amounts, Consume(n)
  PROVE  /\ RingTypeOK' /\ (~exceeded' => Good') /\ (exceeded' => ~HoldsTheUnread')
         /\ \A k \in 1 .. consumed' - consumed : outBuffer'[k] = consumed + k
<1> DEFINE P == mProducerCrsr
           C == mConsumerCrsr
           size == mBufferSize
           amount == Least(n, AvailableBytes)
<1>1. /\ size \in Nat \ {0} /\ P \in Nat /\ C \in Nat /\ n \in Nat \ {0}
      /\ produced \in Nat /\ consumed \in Nat /\ P <= size /\ C <= size
      /\ consumed <= produced
  BY CircleAssumption DEF Good, RingTypeOK, HoldsTheUnread, Limits
<1>2. /\ AvailableBytes = produced - consumed
      /\ AvailableBytes = IF C <= P THEN P - C ELSE size + P - C
      /\ \A k \in 0 .. produced - consumed - 1 : mBuffer[Cell(k)] = consumed + k + 1
  BY DEF Good, HoldsTheUnread, AvailableBytes
<1>3. /\ amount \in Nat /\ amount <= AvailableBytes /\ amount <= n
      /\ amount = n \/ amount = AvailableBytes
      /\ n <= AvailableBytes => amount = n
  BY <1>1, <1>2 DEF Least
<1> HIDE DEF amount
<1>4. /\ mConsumerCrsr' = IF amount + C > size THEN n - (size - C)
                          ELSE IF C <= P THEN C + amount ELSE C + n
      /\ mProducerCrsr' = P /\ mBufferSize' = size /\ mBuffer' = mBuffer
      /\ produced' = produced /\ consumed' = consumed + amount
      /\ outBuffer' = [k \in 1 .. amount |-> mBuffer[Cell(k - 1)]]
      /\ exceeded' = ConsumeExceeds(n)
  BY DEF Consume, amount
<1>5. exceeded' \in BOOLEAN /\ (exceeded' <=> C > P /\ n > AvailableBytes)
  BY <1>4 DEF ConsumeExceeds
<1>6. RingTypeOK'
  BY <1>1, <1>3, <1>4, <1>5 DEF RingTypeOK, Good
<1>7. ASSUME exceeded' PROVE ~HoldsTheUnread'
  <2>1. amount = AvailableBytes /\ amount + C = size + P /\ C > P
    BY <1>1, <1>2, <1>3, <1>5, <1>7
  <2>2. mConsumerCrsr' > size \/ AvailableBytes' # produced' - consumed'
    BY <1>1, <1>2, <1>3, <1>4, <1>5, <1>7, <2>1 DEF AvailableBytes
  <2> QED BY <1>1, <1>4, <1>6, <2>2 DEF HoldsTheUnread, RingTypeOK
<1>8. ASSUME ~exceeded' PROVE Good'
  <2>1. Limits'
    BY <1>1, <1>2, <1>3, <1>4 DEF Good, Limits
  <2>2. AvailableBytes' = AvailableBytes - amount /\ mConsumerCrsr' <= size
    BY <1>1, <1>2, <1>3, <1>4, <1>5, <1>8 DEF AvailableBytes
  <2>3. \A k \in 0 .. AvailableBytes - amount - 1 : mBuffer[Cell(k)'] = mBuffer[Cell(k + amount)]
    BY <1>1, <1>2, <1>3, <1>4, <1>5, <1>8 DEF Cell
  <2>4. \A k \in 0 .. AvailableBytes - amount - 1 :
          mBuffer[Cell(k + amount)] = consumed + amount + k + 1
    <3> TAKE k \in 0 .. AvailableBytes - amount - 1
    <3>1. k + amount \in 0 .. produced - consumed - 1
      BY <1>1, <1>2, <1>3
    <3> QED BY <1>1, <1>2, <1>3, <3>1
  <2>5. HoldsTheUnread'
    BY <1>1, <1>2, <1>3, <1>4, <2>2, <2>3, <2>4 DEF HoldsTheUnread
  <2> QED BY <1>6, <2>1, <2>5 DEF Good
<1>9. \A k \in 1 .. consumed' - consumed : outBuffer'[k] = consumed + k
  <2> TAKE k \in 1 .. consumed' - consumed
  <2>1. k - 1 \in 0 .. produced - consumed - 1 /\ k \in 1 .. amount
    BY <1>1, <1>2, <1>3, <1>4
  <2> QED BY <1>1, <1>2, <1>4, <2>1
<1> QED BY <1>6, <1>7, <1>8, <1>9

-----------------------------------------------------------------------------

LEMMA RingInitStep == RingInit => RingInv
<1> SUFFICES ASSUME RingInit PROVE RingInv
  OBVIOUS
<1>1. Capacity \in Nat \ {0} /\ MaxProduced \in Nat
  BY CircleAssumption
<1>2. RingTypeOK /\ Limits /\ ~exceeded
  <2>1. mBuffer \in [0 .. mBufferSize - 1 -> Nat]
    BY DEF RingInit
  <2>2. exceeded = FALSE
    BY DEF RingInit
  <2>3. /\ mBufferSize = Capacity /\ mProducerCrsr = 0 /\ mConsumerCrsr = 0
        /\ produced = 0 /\ consumed = 0
    BY DEF RingInit
  <2>4. exceeded \in BOOLEAN /\ ~exceeded
    BY <2>2
  <2>5. /\ mBufferSize \in Nat \ {0} /\ mProducerCrsr \in Nat /\ mConsumerCrsr \in Nat
        /\ produced \in 0 .. MaxProduced /\ consumed \in Nat /\ Limits
    BY <1>1, <2>3 DEF Limits
  <2> QED BY <2>1, <2>4, <2>5 DEF RingTypeOK
<1>3. HoldsTheUnread
  BY <1>1 DEF RingInit, HoldsTheUnread, AvailableBytes
<1> QED BY <1>2, <1>3 DEF RingInv, UnreadBytesAreKept

\* A call that the code may handle, made in a state it left.
LEMMA NextIsGood ==
  ASSUME RingInv, RingNext
  PROVE  Good /\ \E n \in Amounts : Produce(n) \/ Consume(n)
BY DEF RingNext, RingInv, UnreadBytesAreKept, Good

LEMMA RingStep == RingInv /\ [RingNext]_ringVars => RingInv'
<1> SUFFICES ASSUME RingInv, [RingNext]_ringVars PROVE RingInv'
  OBVIOUS
<1>1. CASE RingNext
  <2>1. PICK n \in Amounts : Produce(n) \/ Consume(n)
    BY <1>1, NextIsGood
  <2>2. Good
    BY <1>1, NextIsGood
  <2>3. RingTypeOK' /\ (~exceeded' => Good') /\ (exceeded' => ~HoldsTheUnread')
    BY <2>1, <2>2, EnlargeStep, WriteStep, ConsumeStep DEF Good
  <2> QED BY <2>3 DEF RingInv, UnreadBytesAreKept, Good
<1>2. CASE UNCHANGED ringVars
  BY <1>2 DEF ringVars, RingInv, RingTypeOK, UnreadBytesAreKept,
    HoldsTheUnread, AvailableBytes, Cell, Limits
<1> QED BY <1>1, <1>2

LEMMA RingInvariantHolds == RingSpec => []RingInv
<1>1. RingInit => RingInv
  BY RingInitStep
<1>2. RingInv /\ [RingNext]_ringVars => RingInv'
  BY RingStep
<1> QED BY <1>1, <1>2, PTL DEF RingSpec

\* For every capacity, every width of a pointer that the sizes do not reach and
\* every sequence of Produce and Consume, the buffer holds the unread bytes in
\* order until a call that TCircleBuffer does not handle, and no longer after it.
THEOREM UnreadBytesAlwaysKept == RingSpec => []UnreadBytesAreKept
<1>1. RingInv => UnreadBytesAreKept
  BY DEF RingInv
<1> QED BY <1>1, RingInvariantHolds, PTL

\* What Consume hands over follows what it handed over before.
THEOREM BytesAlwaysInOrder == RingSpec => BytesComeOutInOrder
<1> DEFINE InOrder == \A k \in 1 .. consumed' - consumed : outBuffer'[k] = consumed + k
<1>1. RingInv /\ [RingNext]_ringVars => [~exceeded' => InOrder]_ringVars
  <2> SUFFICES ASSUME RingInv, RingNext PROVE InOrder
    OBVIOUS
  <2>1. Good
    BY NextIsGood
  <2>2. PICK n \in Amounts : Produce(n) \/ Consume(n)
    BY NextIsGood
  <2>3. CASE Produce(n)
    <3>1. consumed' = consumed /\ consumed \in Nat
      BY <2>1, <2>3 DEF Produce, Good, RingTypeOK
    <3> QED BY <3>1
  <2>4. CASE Consume(n)
    BY <2>1, <2>4, ConsumeStep
  <2> QED BY <2>2, <2>3, <2>4
<1> QED BY <1>1, RingInvariantHolds, PTL DEF RingSpec, BytesComeOutInOrder

-----------------------------------------------------------------------------
\* The network.

Newton == [conn : {"closed", "synSent", "open", "done"},
           sndNxt : Nat, sndUna : Nat, rcvNxt : Nat,
           finSent : BOOLEAN, finRcvd : BOOLEAN, ackDue : BOOLEAN]

NetTInv ==
  /\ NetTypeOK
  /\ newton \in Newton /\ got \in Seq(Nat)
  /\ sentNxt \in Nat /\ ackedNxt \in Nat
  /\ reused \in BOOLEAN /\ dropped \in BOOLEAN

\* Before the first socket is connected only SYNs were sent.
Fresh ==
  /\ state \in {"none", "kStateDisconnected"} /\ mySeqNr = 0 /\ theirSeqNr = 0
  /\ pipe = <<>> /\ received = 0 /\ got = <<>>
  /\ newton.conn \in {"closed", "synSent"}
  /\ newton.rcvNxt = 0 /\ newton.sndUna = 0 /\ ~newton.finRcvd
  /\ sentNxt = 0 /\ ackedNxt = 0 /\ ~reused /\ ~dropped

\* NewtonOS sends nothing but its SYN until it has received the peer's; the
\* handler waits for NewtonOS to close only when the peer has.
Phases ==
  /\ connects = 0 => Fresh
  /\ connects > 0 => newton.conn # "closed"
  /\ newton.conn = "closed" => newton.sndNxt = 0 /\ ~newton.finSent
  /\ newton.conn = "synSent" => newton.sndNxt = 1 /\ ~newton.finSent
  /\ newton.sndUna <= newton.sndNxt
  /\ newton.conn = "done" => newton.finRcvd /\ newton.sndUna = newton.sndNxt
  /\ state \in {"kStatePeerDiscWaitForACK", "kStatePeerDiscWaitForFIN"} =>
       peerClosed /\ received = peerSent

-----------------------------------------------------------------------------
\* The numbers a packet of the handler covers; it carries what is missing if
\* these are the numbers NewtonOS waits for, up to the last.
Size(p) == p.len + (IF p.flag = "SYN" THEN 1 ELSE 0)

Carries(p, next, last) == p.seq = next /\ p.seq + Size(p) = last

\* The socket has given all the peer sent.
Ended == peerClosed /\ received = peerSent

\* The numbers NewtonOS has received are those of its bytes, after the SYN.
Counted ==
  /\ sentNxt = received + 1
  /\ state = "kStateConnected" => theirSeqNr = ackedNxt
  /\ ackedNxt <= newton.rcvNxt
  /\ newton.conn = "synSent" =>
       newton.rcvNxt = 0 /\ ~newton.finRcvd /\ got = <<>> /\ sentNxt = 1
  /\ newton.conn # "synSent" =>
       newton.rcvNxt = Len(got) + (IF newton.finRcvd THEN 2 ELSE 1)
  /\ Len(got) <= received /\ got = Bytes(1, Len(got))
  /\ newton.finRcvd => Ended /\ Len(got) = received

\* What the pipe holds when NewtonOS waits for number next and the last that
\* was sent is before last: what NewtonOS has received, or all that is missing.
Fits(p, next, last) ==
  /\ p.flag # "" => p.len = 0
  /\ Size(p) > 0 => p.seq + Size(p) <= next \/ Carries(p, next, last)
  /\ p.len > 0 => p.from = p.seq

\* No FIN is before what is missing, nor before the end of the peer's stream.
Fills(conn, q, next, last, ended) ==
  /\ conn = "synSent" => q # <<>> /\ q[1].flag = "SYN" /\ q[1].seq = 0 /\ q[1].ack = 1
  /\ \A i \in 1 .. Len(q) : Fits(q[i], next, last)
  /\ \A i \in 1 .. Len(q) : q[i].flag = "SYN" => i = 1 /\ conn = "synSent"
  /\ \A i \in 1 .. Len(q) : q[i].flag = "FIN" =>
       ended /\ (next < last => \E j \in 1 .. i - 1 : Carries(q[j], next, last))
  /\ next < last => \E j \in 1 .. Len(q) : Carries(q[j], next, last)

Filled == Fills(newton.conn, pipe, newton.rcvNxt, sentNxt, Ended)

Delivery == connects = 1 /\ ~reused => Counted /\ Filled

-----------------------------------------------------------------------------
\* The handler counts what NewtonOS sent, less the FIN; once it is gone the last
\* number is acknowledged.
Acknowledgement ==
  connects = 1 /\ ~dropped =>
    /\ state \notin {"none", "kStateDisconnected"} =>
         mySeqNr = IF newton.finSent THEN newton.sndNxt - 1 ELSE newton.sndNxt
    /\ state = "none" =>
         /\ newton.finSent /\ newton.conn # "synSent"
         /\ \/ newton.sndUna = newton.sndNxt
            \/ \E i \in DOMAIN pipe : pipe[i].ack = newton.sndNxt

NetInv == NetTInv /\ Phases /\ Delivery /\ Acknowledgement

-----------------------------------------------------------------------------
\* What NewtonOS does when it sends packet p: its SYN; an acknowledgement, with
\* data or without; its FIN, the first time or again.
Sending(p) ==
  /\ p \in Packet /\ p.ack = newton.rcvNxt /\ got' = got /\ newton' \in Newton
  /\ newton'.rcvNxt = newton.rcvNxt /\ newton'.sndUna = newton.sndUna
  /\ newton'.finRcvd = newton.finRcvd
  /\ \/ /\ newton.conn \in {"closed", "synSent"} /\ newton'.conn = "synSent"
        /\ newton'.sndNxt = 1 /\ newton'.finSent = newton.finSent
        /\ p.seq = 0 /\ p.len = 0 /\ p.flag = "SYN"
     \/ /\ newton.conn = "open" /\ newton'.conn = "open"
        /\ newton'.sndNxt = newton.sndNxt + p.len
        /\ newton'.finSent = newton.finSent
        /\ p.len > 0 => ~newton.finSent
        /\ p.flag = ""
     \/ /\ newton.conn = "open" /\ newton'.conn = "open"
        /\ newton'.sndNxt = IF newton.finSent THEN newton.sndNxt ELSE newton.sndNxt + 1
        /\ newton'.finSent
        /\ p.len = 0 /\ p.flag = "FIN"

NewtonSends ==
  Opens \/ Acks \/ (\E n \in 1 .. MaxBytes : SendsData(n)) \/ Closes \/ RepeatsFin

LEMMA SendsPacket ==
  ASSUME NetTInv, NewtonSends
  PROVE  \E p \in Packet : SendPacket(p) /\ Sending(p)
<1> DEFINE P(flag, seq, from, len) ==
      [flag |-> flag, seq |-> seq, ack |-> newton.rcvNxt, from |-> from, len |-> len]
<1>1. newton \in Newton
  BY DEF NetTInv
<1>2. /\ newton.sndNxt \in Nat /\ newton.rcvNxt \in Nat /\ newton.sndUna \in Nat
  BY <1>1 DEF Newton
<1>3. CASE Opens
  <2>1. SendPacket(P("SYN", 0, 0, 0)) /\ got' = got
    BY <1>3 DEF Opens, Sends
  <2>2. /\ newton.conn \in {"closed", "synSent"}
        /\ newton' = [newton EXCEPT !.conn = "synSent", !.sndNxt = 1]
    BY <1>3 DEF Opens
  <2>3. newton' \in Newton
    BY <1>1, <2>2 DEF Newton
  <2>4. /\ newton'.conn = "synSent" /\ newton'.sndNxt = 1
        /\ UNCHANGED <<newton.rcvNxt, newton.sndUna, newton.finSent, newton.finRcvd>>
    BY <1>1, <2>2 DEF Newton
  <2>5. P("SYN", 0, 0, 0) \in Packet
    BY <1>2 DEF Packet
  <2>6. Sending(P("SYN", 0, 0, 0))
    BY <2>1, <2>2, <2>3, <2>4, <2>5 DEF Sending
  <2> QED BY <2>1, <2>5, <2>6
<1>4. CASE Acks
  <2>1. SendPacket(P("", newton.sndNxt, 0, 0)) /\ got' = got
    BY <1>4 DEF Acks, Sends
  <2>2. newton.conn = "open" /\ newton' = [newton EXCEPT !.ackDue = FALSE]
    BY <1>4 DEF Acks
  <2>3. newton' \in Newton
    BY <1>1, <2>2 DEF Newton
  <2>4. UNCHANGED <<newton.conn, newton.sndNxt, newton.rcvNxt, newton.sndUna,
                    newton.finSent, newton.finRcvd>>
    BY <1>1, <2>2 DEF Newton
  <2>5. P("", newton.sndNxt, 0, 0) \in Packet
    BY <1>2 DEF Packet
  <2>6. Sending(P("", newton.sndNxt, 0, 0))
    <3> DEFINE p == P("", newton.sndNxt, 0, 0)
    <3>1. p.ack = newton.rcvNxt /\ p.len = 0 /\ p.flag = ""
      OBVIOUS
    <3> HIDE DEF p
    <3>2. newton.sndNxt = newton.sndNxt + p.len /\ ~(p.len > 0)
      <4>1. p.len = 0
        BY <3>1
      <4> QED BY <1>2, <4>1
    <3> QED BY <2>1, <2>2, <2>3, <2>4, <2>5, <3>1, <3>2 DEF Sending
  <2> QED BY <2>1, <2>5, <2>6
<1>5. CASE \E n \in 1 .. MaxBytes : SendsData(n)
  <2>1. PICK n \in 1 .. MaxBytes : SendsData(n)
    BY <1>5
  <2>2. n \in Nat /\ n > 0
    BY BoundsAssumption
  <2>3. SendPacket(P("", newton.sndNxt, newton.sndNxt, n)) /\ got' = got
    BY <2>1 DEF SendsData, Sends
  <2>4. newton.conn = "open" /\ ~newton.finSent
    BY <2>1 DEF SendsData
  <2>5. newton' = [newton EXCEPT !.sndNxt = newton.sndNxt + n, !.ackDue = FALSE]
    BY <2>1 DEF SendsData
  <2> DEFINE m == newton.sndNxt + n
  <2>6. m \in Nat
    BY <1>2, <2>2
  <2>7. newton' \in Newton
    <3>1. newton' = [newton EXCEPT !.sndNxt = m, !.ackDue = FALSE]
      BY <2>5
    <3> HIDE DEF m
    <3> QED BY <1>1, <2>6, <3>1 DEF Newton
  <2>8. /\ newton'.sndNxt = m
        /\ UNCHANGED <<newton.conn, newton.rcvNxt, newton.sndUna, newton.finSent,
                       newton.finRcvd>>
    BY <1>1, <2>5 DEF Newton
  <2>9. P("", newton.sndNxt, newton.sndNxt, n) \in Packet
    BY <1>2, <2>2 DEF Packet
  <2>10. Sending(P("", newton.sndNxt, newton.sndNxt, n))
    BY <1>2, <2>3, <2>4, <2>7, <2>8, <2>9 DEF Sending
  <2> QED BY <2>3, <2>9, <2>10
<1>6. CASE Closes
  <2>1. SendPacket(P("FIN", newton.sndNxt, 0, 0)) /\ got' = got
    BY <1>6 DEF Closes, Sends
  <2>2. newton.conn = "open" /\ ~newton.finSent
    BY <1>6 DEF Closes
  <2>3. newton' = [newton EXCEPT !.sndNxt = newton.sndNxt + 1, !.finSent = TRUE,
                                 !.ackDue = FALSE]
    BY <1>6 DEF Closes
  <2>4. newton' \in Newton
    <3> DEFINE m == newton.sndNxt + 1
    <3>1. m \in Nat
      BY <1>2
    <3>2. newton' = [newton EXCEPT !.sndNxt = m, !.finSent = TRUE, !.ackDue = FALSE]
      BY <2>3
    <3> HIDE DEF m
    <3> QED BY <1>1, <3>1, <3>2 DEF Newton
  <2>5. /\ newton'.sndNxt = newton.sndNxt + 1 /\ newton'.finSent = TRUE
        /\ UNCHANGED <<newton.conn, newton.rcvNxt, newton.sndUna, newton.finRcvd>>
    BY <1>1, <2>3 DEF Newton
  <2>6. P("FIN", newton.sndNxt, 0, 0) \in Packet
    BY <1>2 DEF Packet
  <2>7. Sending(P("FIN", newton.sndNxt, 0, 0))
    BY <1>2, <2>1, <2>2, <2>4, <2>5, <2>6 DEF Sending
  <2> QED BY <2>1, <2>6, <2>7
<1>7. CASE RepeatsFin
  <2>1. SendPacket(P("FIN", newton.sndNxt - 1, 0, 0)) /\ got' = got
    BY <1>7 DEF RepeatsFin, Sends
  <2>2. /\ newton.conn = "open" /\ newton.finSent /\ newton.sndUna < newton.sndNxt
        /\ newton' = newton
    BY <1>7 DEF RepeatsFin
  <2>3. newton.sndNxt - 1 \in Nat
    BY <1>2, <2>2
  <2>4. P("FIN", newton.sndNxt - 1, 0, 0) \in Packet
    BY <1>2, <2>3 DEF Packet
  <2>5. Sending(P("FIN", newton.sndNxt - 1, 0, 0))
    BY <1>1, <1>2, <2>1, <2>2, <2>4 DEF Sending
  <2> QED BY <2>1, <2>4, <2>5
<1> QED BY <1>3, <1>4, <1>5, <1>6, <1>7 DEF NewtonSends

\* What an open connection of NewtonOS makes of packet p: `new' bytes of it that
\* it had not received, its FIN if `fin', and the acknowledgement.
Taking(p, new, fin) ==
  /\ new \in Nat /\ fin \in BOOLEAN
  /\ new > 0 => new = p.len - (newton.rcvNxt - p.seq)
  /\ new > 0 <=> p.flag # "SYN" /\ p.seq <= newton.rcvNxt /\ newton.rcvNxt < p.seq + p.len
  /\ fin <=> p.flag = "FIN" /\ ~newton.finRcvd /\ p.seq + p.len = newton.rcvNxt + new
  /\ got' = got \o Bytes(p.from + (newton.rcvNxt - p.seq), new)
  /\ newton'.rcvNxt = newton.rcvNxt + new + (IF fin THEN 1 ELSE 0)
  /\ newton'.finRcvd = (newton.finRcvd \/ fin)
  /\ newton'.sndUna = IF p.ack \in newton.sndUna .. newton.sndNxt THEN p.ack
                      ELSE newton.sndUna
  /\ newton'.sndNxt = newton.sndNxt /\ newton'.finSent = newton.finSent
  /\ newton'.conn \in {"open", "done"}
  /\ newton'.conn = "done" => newton'.sndUna = newton.sndNxt /\ newton'.finRcvd

\* What Receives does with the head p of the pipe.
Receiving(p) ==
  \/ /\ newton.conn = "synSent" /\ p.flag = "SYN" /\ p.ack = newton.sndNxt
     /\ newton'.conn = "open" /\ newton'.sndUna = p.ack /\ newton'.rcvNxt = p.seq + 1
     /\ newton'.sndNxt = newton.sndNxt /\ newton'.finSent = newton.finSent
     /\ newton'.finRcvd = newton.finRcvd
     /\ got' = got
  \/ newton.conn = "open" /\ \E new, fin : Taking(p, new, fin)
  \/ /\ newton.conn # "open"
     /\ ~(newton.conn = "synSent" /\ p.flag = "SYN" /\ p.ack = newton.sndNxt)
     /\ newton' = newton /\ got' = got

LEMMA ReceivesPacket ==
  ASSUME NetTInv, Receives
  PROVE  /\ pipe # <<>> /\ pipe' = Tail(pipe) /\ Head(pipe) \in Packet
         /\ newton' \in Newton /\ Receiving(Head(pipe))
         /\ UNCHANGED <<handlerVars, peerVars, received, connects, history>>
<1> DEFINE p     == Head(pipe)
           known == newton.rcvNxt - p.seq
           new   == IF p.flag = "SYN" \/ known < 0 \/ p.len < known THEN 0
                    ELSE p.len - known
           next  == newton.rcvNxt + new
           fin   == p.flag = "FIN" /\ ~newton.finRcvd /\ p.seq + p.len = next
           una   == IF p.ack \in newton.sndUna .. newton.sndNxt THEN p.ack
                    ELSE newton.sndUna
           done  == una = newton.sndNxt /\ newton.finSent /\ (newton.finRcvd \/ fin)
<1>1. /\ pipe # <<>> /\ pipe' = Tail(pipe)
      /\ UNCHANGED <<handlerVars, peerVars, received, connects, history>>
  BY DEF Receives
<1>2. p \in Packet
  BY <1>1 DEF NetTInv, NetTypeOK
<1>3. p.seq \in Nat /\ p.ack \in Nat /\ p.from \in Nat /\ p.len \in Nat
  <2> HIDE DEF p
  <2> QED BY <1>2 DEF Packet
<1>4. newton \in Newton
  BY DEF NetTInv
<1>5. newton.sndNxt \in Nat /\ newton.rcvNxt \in Nat /\ newton.sndUna \in Nat
  BY <1>4 DEF Newton
<1>6. CASE newton.conn = "synSent" /\ p.flag = "SYN" /\ p.ack = newton.sndNxt
  <2>1. /\ newton' = [newton EXCEPT !.conn = "open", !.sndUna = p.ack,
                                    !.rcvNxt = p.seq + 1, !.ackDue = TRUE]
        /\ got' = got
    BY <1>6 DEF Receives
  <2> HIDE DEF p, known, new, next, fin, una, done
  <2>2. newton' \in Newton
    <3> DEFINE m == p.seq + 1
    <3>1. m \in Nat
      BY <1>3
    <3>2. newton' = [newton EXCEPT !.conn = "open", !.sndUna = p.ack, !.rcvNxt = m,
                                   !.ackDue = TRUE]
      BY <2>1
    <3> HIDE DEF m
    <3> QED BY <1>3, <1>4, <3>1, <3>2 DEF Newton
  <2>3. /\ newton'.conn = "open" /\ newton'.sndUna = p.ack /\ newton'.rcvNxt = p.seq + 1
        /\ UNCHANGED <<newton.sndNxt, newton.finSent, newton.finRcvd>>
    BY <1>4, <2>1 DEF Newton
  <2>4. Receiving(p)
    BY <1>6, <2>1, <2>3 DEF Receiving
  <2> QED BY <1>1, <1>2, <2>2, <2>4 DEF p
<1>7. CASE newton.conn = "open"
  <2>1. /\ newton' = [newton EXCEPT
                        !.conn = IF done THEN "done" ELSE "open",
                        !.sndUna = una,
                        !.rcvNxt = IF fin THEN next + 1 ELSE next,
                        !.finRcvd = @ \/ fin,
                        !.ackDue = @ \/ p.len > 0 \/ p.flag # ""]
        /\ got' = got \o Bytes(p.from + known, new)
    BY <1>7 DEF Receives
  <2>2. new \in Nat /\ fin \in BOOLEAN /\ una \in Nat /\ done \in BOOLEAN /\ next \in Nat
    <3>1. new \in Nat
      <4> HIDE DEF p, next, fin, una, done
      <4> QED BY <1>3, <1>5
    <3>2. una \in Nat
      <4> HIDE DEF p, new, fin, done
      <4> QED BY <1>3, <1>5
    <3>3. next \in Nat
      <4> HIDE DEF p, new, fin, una, done
      <4> QED BY <1>5, <3>1
    <3> QED BY <3>1, <3>2, <3>3
  <2>3. /\ new > 0 => new = p.len - (newton.rcvNxt - p.seq)
        /\ new > 0 <=> /\ p.flag # "SYN" /\ p.seq <= newton.rcvNxt
                       /\ newton.rcvNxt < p.seq + p.len
    <3> HIDE DEF p, next, fin, una, done
    <3>1. new > 0 => new = p.len - (newton.rcvNxt - p.seq)
      BY <1>3, <1>5
    <3>2. new > 0 => /\ p.flag # "SYN" /\ p.seq <= newton.rcvNxt
                     /\ newton.rcvNxt < p.seq + p.len
      BY <1>3, <1>5
    <3>3. p.flag # "SYN" /\ p.seq <= newton.rcvNxt /\ newton.rcvNxt < p.seq + p.len
            => new > 0
      BY <1>3, <1>5
    <3> QED BY <3>1, <3>2, <3>3
  <2>4. /\ newton' \in Newton
        /\ newton'.rcvNxt = newton.rcvNxt + new + (IF fin THEN 1 ELSE 0)
        /\ newton'.finRcvd = (newton.finRcvd \/ fin) /\ newton'.sndUna = una
        /\ newton'.sndNxt = newton.sndNxt /\ newton'.finSent = newton.finSent
        /\ newton'.conn = IF done THEN "done" ELSE "open"
    <3> DEFINE c == IF done THEN "done" ELSE "open"
               n == IF fin THEN next + 1 ELSE next
               f == newton.finRcvd \/ fin
               a == newton.ackDue \/ p.len > 0 \/ p.flag # ""
    <3>1. /\ c \in {"open", "done"} /\ n \in Nat /\ f \in BOOLEAN /\ a \in BOOLEAN
          /\ n = newton.rcvNxt + new + (IF fin THEN 1 ELSE 0)
      <4>1. next = newton.rcvNxt + new
        OBVIOUS
      <4> HIDE DEF p, new, next, fin, una, done
      <4> QED BY <1>5, <2>2, <4>1
    <3>2. newton' = [newton EXCEPT !.conn = c, !.sndUna = una, !.rcvNxt = n,
                                   !.finRcvd = f, !.ackDue = a]
      BY <2>1
    <3> HIDE DEF c, n, f, a, una
    <3>3. newton' \in Newton
      BY <1>4, <2>2, <3>1, <3>2 DEF Newton
    <3>4. /\ newton'.conn = c /\ newton'.sndUna = una /\ newton'.rcvNxt = n
          /\ newton'.finRcvd = f
          /\ newton'.sndNxt = newton.sndNxt /\ newton'.finSent = newton.finSent
      BY <1>4, <3>1, <3>2 DEF Newton
    <3> QED BY <3>1, <3>3, <3>4 DEF c, f
  <2>6. Taking(p, new, fin)
    <3>1. done => una = newton.sndNxt /\ (newton.finRcvd \/ fin)
      OBVIOUS
    <3> HIDE DEF done
    <3>2. /\ newton'.conn \in {"open", "done"}
          /\ newton'.conn = "done" => newton'.sndUna = newton.sndNxt /\ newton'.finRcvd
      BY <2>4, <3>1, Zenon
    <3> QED BY <2>1, <2>2, <2>3, <2>4, <3>2, Zenon DEF Taking
  <2> HIDE DEF new, fin
  <2> QED BY <1>1, <1>2, <1>7, <2>4, <2>6 DEF Receiving
<1>8. CASE /\ newton.conn # "open"
           /\ ~(newton.conn = "synSent" /\ p.flag = "SYN" /\ p.ack = newton.sndNxt)
  <2>1. newton' = newton /\ got' = got
    BY <1>8 DEF Receives
  <2> QED BY <1>1, <1>2, <1>4, <1>8, <2>1 DEF Receiving
<1> QED BY <1>6, <1>7, <1>8

-----------------------------------------------------------------------------
\* Types.

LEMMA EnqueueAppends ==
  ASSUME NetTInv, NEW flag \in {"", "SYN", "FIN"}, NEW seq \in Nat, NEW ack \in Nat,
         NEW from \in Nat, NEW len \in Nat, Enqueue(flag, seq, ack, from, len)
  PROVE  pipe' \in Seq(Packet)
<1> DEFINE r == [flag |-> flag, seq |-> seq, ack |-> ack, from |-> from, len |-> len]
<1>1. r \in Packet
  BY DEF Packet
<1>2. pipe' = Append(pipe, r) /\ pipe \in Seq(Packet)
  BY DEF Enqueue, Queued, NetTInv, NetTypeOK
<1> QED BY <1>1, <1>2, AppendProperties

\* What a step leaves well typed: the handler, the pipe and the socket.
LEMMA SendPacketTypes ==
  ASSUME NetTInv, NEW p \in Packet, SendPacket(p)
  PROVE  NetTypeOK' /\ <<sentNxt, ackedNxt, reused, dropped>>' \in Nat \X Nat \X BOOLEAN \X BOOLEAN
<1>1. /\ state \in HandlerStates /\ mySeqNr \in Nat /\ theirSeqNr \in Nat
      /\ pipe \in Seq(Packet) /\ peerSent \in 0 .. MaxBytes /\ received \in 0 .. peerSent
      /\ peerClosed \in BOOLEAN /\ connects \in 0 .. MaxConnects
      /\ sentNxt \in Nat /\ ackedNxt \in Nat /\ reused \in BOOLEAN /\ dropped \in BOOLEAN
  BY DEF NetTInv, NetTypeOK
<1>2. p.seq \in Nat /\ p.ack \in Nat /\ p.len \in Nat
  BY DEF Packet
<1>3. MaxBytes \in Nat /\ MaxConnects \in Nat
  BY BoundsAssumption
<1>4. CASE Connect(p)
  <2> DEFINE seq == IF state = "none" THEN p.seq ELSE mySeqNr
             ack == IF state = "none" THEN p.ack ELSE theirSeqNr
  <2>1. seq \in Nat /\ ack \in Nat
    BY <1>1, <1>2
  <2>2. UNCHANGED <<ackedNxt, reused, dropped>> /\ theirSeqNr' = ack
    BY <1>4 DEF Connect
  <2>3. CASE /\ state' = "kStateDisconnected" /\ mySeqNr' = seq
             /\ UNCHANGED <<pipe, peerVars, received, connects, sentNxt>>
    BY <1>1, <2>1, <2>2, <2>3 DEF NetTypeOK, HandlerStates, peerVars
  <2>4. CASE /\ connects < MaxConnects /\ connects' = connects + 1
             /\ state' = "kStateConnected" /\ mySeqNr' = seq + 1
             /\ Enqueue("SYN", ack, seq + 1, 0, 0)
             /\ peerSent' = 0 /\ peerClosed' = FALSE /\ received' = 0
             /\ sentNxt' = ack + 1
    <3> HIDE DEF seq, ack
    <3>1. mySeqNr' \in Nat /\ sentNxt' \in Nat /\ connects' \in 0 .. MaxConnects
      BY <1>1, <1>3, <2>1, <2>4
    <3>2. pipe' \in Seq(Packet)
      <4>1. seq + 1 \in Nat
        BY <2>1
      <4> QED BY <2>1, <2>4, <4>1, EnqueueAppends
    <3>3. peerSent' \in 0 .. MaxBytes /\ received' \in 0 .. peerSent'
      BY <1>3, <2>4
    <3> QED BY <1>1, <2>1, <2>2, <2>4, <3>1, <3>2, <3>3 DEF NetTypeOK, HandlerStates
  <2> QED BY <1>4, <2>3, <2>4 DEF Connect
<1>5. CASE TakeAck(p)
  BY <1>1, <1>2, <1>5 DEF TakeAck, Acknowledged, NetTypeOK, peerVars
<1>6. CASE Write(p)
  <2>1. mySeqNr' = mySeqNr + p.len /\ mySeqNr + p.len \in Nat
    <3>1. mySeqNr \in Nat
      BY <1>1
    <3>2. mySeqNr' = mySeqNr + p.len
      BY <1>6 DEF Write
    <3> QED BY <1>2, <3>1, <3>2
  <2>2. Enqueue("", theirSeqNr, mySeqNr + p.len, 0, 0)
    BY <1>6 DEF Write
  <2>3. pipe' \in Seq(Packet)
    BY <1>1, <2>1, <2>2, EnqueueAppends
  <2> QED BY <1>1, <1>6, <2>1, <2>3 DEF Write, NetTypeOK, peerVars
<1>7. CASE TakeFinAck(p)
  BY <1>1, <1>2, <1>7 DEF TakeFinAck, NetTypeOK, HandlerStates, peerVars
<1>8. CASE Reopen(p)
  BY <1>1, <1>2, <1>8 DEF Reopen, NetTypeOK, HandlerStates, peerVars
<1>9. CASE RemovePacketHandler(p)
  <2>1. Enqueue("", p.ack, LastAck, 0, 0)
    BY <1>9 DEF RemovePacketHandler
  <2>3. LastAck \in Nat
    BY <1>1 DEF LastAck
  <2>2. pipe' \in Seq(Packet)
    BY <1>2, <2>1, <2>3, EnqueueAppends
  <2> QED BY <1>1, <1>2, <1>9, <2>2
      DEF RemovePacketHandler, NetTypeOK, HandlerStates, peerVars, history
<1> QED BY <1>4, <1>5, <1>6, <1>7, <1>8, <1>9 DEF SendPacket

\* The data that the timer reads: bytes received + 1, ..., received + n.
LEMMA TimerReceivesBytes ==
  ASSUME NetTInv, TimerReceives
  PROVE  \E n \in 1 .. peerSent - received :
           /\ n \in Nat \ {0} /\ received + n <= peerSent
           /\ Enqueue("", theirSeqNr, mySeqNr, received + 1, n)
           /\ received' = received + n /\ sentNxt' = theirSeqNr + n
<1>1. PICK n \in 1 .. peerSent - received :
        /\ Enqueue("", theirSeqNr, mySeqNr, received + 1, n)
        /\ received' = received + n /\ sentNxt' = theirSeqNr + n
  BY DEF TimerReceives
<1>2. n \in Nat \ {0} /\ received + n <= peerSent
  BY BoundsAssumption DEF NetTInv, NetTypeOK
<1> QED BY <1>1, <1>2

LEMMA NetTypesInit == NetInit => NetTInv
<1> SUFFICES ASSUME NetInit PROVE NetTInv
  OBVIOUS
<1>1. MaxBytes \in Nat /\ MaxConnects \in Nat
  BY BoundsAssumption
<1>2. newton \in Newton
  BY DEF NetInit, Newton
<1>3. state \in HandlerStates /\ peerClosed \in BOOLEAN
  BY DEF NetInit, HandlerStates
<1>4. /\ mySeqNr \in Nat /\ theirSeqNr \in Nat /\ peerSent \in 0 .. MaxBytes
      /\ received \in 0 .. peerSent /\ connects \in 0 .. MaxConnects
      /\ sentNxt \in Nat /\ ackedNxt \in Nat
  BY <1>1 DEF NetInit
<1>5. pipe \in Seq(Packet) /\ got \in Seq(Nat)
  BY DEF NetInit
<1>6. reused \in BOOLEAN /\ dropped \in BOOLEAN
  BY DEF NetInit
<1> QED BY <1>2, <1>3, <1>4, <1>5, <1>6 DEF NetTInv, NetTypeOK

LEMMA NetTypesStep == NetTInv /\ [NetNext]_netVars => NetTInv'
<1> SUFFICES ASSUME NetTInv, [NetNext]_netVars PROVE NetTInv'
  OBVIOUS
<1>1. /\ state \in HandlerStates /\ mySeqNr \in Nat /\ theirSeqNr \in Nat
      /\ pipe \in Seq(Packet) /\ peerSent \in 0 .. MaxBytes /\ received \in 0 .. peerSent
      /\ peerClosed \in BOOLEAN /\ connects \in 0 .. MaxConnects
      /\ sentNxt \in Nat /\ ackedNxt \in Nat /\ reused \in BOOLEAN /\ dropped \in BOOLEAN
      /\ newton \in Newton /\ got \in Seq(Nat)
  BY DEF NetTInv, NetTypeOK
<1>2. MaxBytes \in Nat
  BY BoundsAssumption
<1>3. CASE NewtonSends
  <2>1. PICK p \in Packet : SendPacket(p) /\ Sending(p)
    BY <1>3, SendsPacket
  <2>2. newton' \in Newton /\ got' = got
    BY <2>1 DEF Sending
  <2>3. NetTypeOK' /\ sentNxt' \in Nat /\ ackedNxt' \in Nat /\ reused' \in BOOLEAN
          /\ dropped' \in BOOLEAN
    BY <2>1, SendPacketTypes
  <2> QED BY <1>1, <2>2, <2>3 DEF NetTInv
<1>4. CASE TimerReceives
  <2>1. PICK n \in 1 .. peerSent - received :
          /\ n \in Nat \ {0} /\ received + n <= peerSent
          /\ Enqueue("", theirSeqNr, mySeqNr, received + 1, n)
          /\ received' = received + n /\ sentNxt' = theirSeqNr + n
    BY <1>4, TimerReceivesBytes
  <2>2. received + 1 \in Nat /\ received' \in 0 .. peerSent /\ sentNxt' \in Nat
    <3>1. /\ peerSent \in 0 .. MaxBytes /\ received \in 0 .. peerSent
          /\ theirSeqNr \in Nat
      BY <1>1
    <3>2. /\ n \in Nat /\ received + n <= peerSent
          /\ received' = received + n /\ sentNxt' = theirSeqNr + n
      BY <2>1
    <3> QED BY <1>2, <3>1, <3>2
  <2>3. pipe' \in Seq(Packet)
    BY <1>1, <2>1, <2>2, EnqueueAppends
  <2>4. /\ UNCHANGED <<handlerVars, peerVars, connects, newton, got, ackedNxt, dropped>>
        /\ reused' = (reused \/ ackedNxt < sentNxt)
    BY <1>4 DEF TimerReceives
  <2> QED BY <1>1, <2>2, <2>3, <2>4 DEF NetTInv, NetTypeOK, handlerVars, peerVars
<1>5. CASE TimerSeesEnd
  <2>1. Enqueue("FIN", theirSeqNr, mySeqNr, 0, 0)
    BY <1>5 DEF TimerSeesEnd
  <2>2. pipe' \in Seq(Packet)
    BY <1>1, <2>1, EnqueueAppends
  <2> QED BY <1>1, <1>5, <2>2
      DEF TimerSeesEnd, NetTInv, NetTypeOK, HandlerStates, peerVars, history
<1>6. CASE PeerSends
  <2>1. peerSent' \in 0 .. MaxBytes /\ received \in 0 .. peerSent'
    BY <1>1, <1>2, <1>6 DEF PeerSends
  <2> QED BY <1>1, <1>6, <2>1 DEF PeerSends, NetTInv, NetTypeOK, handlerVars, history
<1>7. CASE PeerCloses
  BY <1>1, <1>7 DEF PeerCloses, NetTInv, NetTypeOK, handlerVars, history
<1>8. CASE Receives
  <2>1. /\ pipe # <<>> /\ pipe' = Tail(pipe) /\ Head(pipe) \in Packet
        /\ newton' \in Newton /\ Receiving(Head(pipe))
        /\ UNCHANGED <<handlerVars, peerVars, received, connects, history>>
    BY <1>8, ReceivesPacket
  <2>2. pipe' \in Seq(Packet)
    BY <1>1, <2>1, HeadTailProperties
  <2>3. got' \in Seq(Nat)
    <3> DEFINE p == Head(pipe)
    <3>1. p.seq \in Nat /\ p.from \in Nat /\ p.len \in Nat
      <4> HIDE DEF p
      <4>1. p \in Packet
        BY <2>1 DEF p
      <4> QED BY <4>1 DEF Packet
    <3>2. newton.rcvNxt \in Nat
      BY <1>1 DEF Newton
    <3>3. CASE got' = got
      BY <1>1, <3>3
    <3>4. CASE \E new, fin : Taking(p, new, fin)
      <4> HIDE DEF p
      <4>1. PICK new, fin : Taking(p, new, fin)
        BY <3>4
      <4>2. /\ new \in Nat /\ got' = got \o Bytes(p.from + (newton.rcvNxt - p.seq), new)
            /\ new > 0 => p.seq <= newton.rcvNxt
        BY <4>1, Zenon DEF Taking
      <4>3. Bytes(p.from + (newton.rcvNxt - p.seq), new) \in Seq(Nat)
        <5> DEFINE b == p.from + (newton.rcvNxt - p.seq)
        <5>1. b \in Int /\ (new > 0 => b \in Nat)
          BY <3>1, <3>2, <4>2
        <5> HIDE DEF b
        <5>2. \A i \in 1 .. new : b + i - 1 \in Nat
          BY <4>2, <5>1
        <5> QED BY <4>2, <5>2 DEF Bytes, b
      <4> QED BY <1>1, <4>2, <4>3, ConcatProperties
    <3> QED BY <2>1, <3>3, <3>4 DEF Receiving
  <2> QED BY <1>1, <2>1, <2>2, <2>3 DEF NetTInv, NetTypeOK, handlerVars, peerVars, history
<1>9. CASE UNCHANGED netVars
  BY <1>9, <1>1 DEF netVars, handlerVars, peerVars, history, NetTInv, NetTypeOK
<1> QED BY <1>3, <1>4, <1>5, <1>6, <1>7, <1>8, <1>9 DEF NetNext, NewtonSends

-----------------------------------------------------------------------------
\* Phases.

\* What the handler does with a packet, as far as the phases are concerned.
LEMMA SendPacketPhases ==
  ASSUME NetTInv, NEW p \in Packet, SendPacket(p)
  PROVE  /\ \/ /\ UNCHANGED <<peerVars, received, connects>>
               /\ state' \in {"kStatePeerDiscWaitForACK", "kStatePeerDiscWaitForFIN"} =>
                    state = "kStatePeerDiscWaitForACK"
            \/ connects' = connects + 1 /\ state' = "kStateConnected"
         /\ state \in {"none", "kStateDisconnected"} => Connect(p)
<1>1. CASE Connect(p)
  BY <1>1 DEF Connect
<1>2. CASE TakeAck(p)
  BY <1>2 DEF TakeAck
<1>3. CASE Write(p)
  BY <1>3 DEF Write
<1>4. CASE TakeFinAck(p)
  BY <1>4 DEF TakeFinAck
<1>5. CASE Reopen(p)
  BY <1>5 DEF Reopen
<1>6. CASE RemovePacketHandler(p)
  BY <1>6 DEF RemovePacketHandler
<1> QED BY <1>1, <1>2, <1>3, <1>4, <1>5, <1>6 DEF SendPacket

LEMMA FreshConnect ==
  ASSUME NetTInv, Fresh, NEW p \in Packet, Connect(p), Sending(p), connects' = connects
  PROVE  Fresh'
<1>1. newton.conn \in {"closed", "synSent"} /\ newton.rcvNxt = 0
  BY DEF Fresh
<1>2. /\ p.ack = 0 /\ p.seq = 0 /\ got' = got
      /\ newton'.conn = "synSent" /\ newton'.rcvNxt = 0
      /\ newton'.sndUna = newton.sndUna /\ newton'.finRcvd = newton.finRcvd
  BY <1>1 DEF Sending
<1>3. connects \in Nat
  BY BoundsAssumption DEF NetTInv, NetTypeOK
<1>4. /\ state' = "kStateDisconnected" /\ theirSeqNr' = 0 /\ mySeqNr' = 0
      /\ UNCHANGED <<pipe, received, sentNxt, ackedNxt, reused, dropped>>
  <2>1. connects' # connects + 1
    BY <1>3
  <2>2. mySeqNr = 0 /\ theirSeqNr = 0
    BY DEF Fresh
  <2> QED BY <1>2, <2>1, <2>2 DEF Connect
<1> QED BY <1>2, <1>4 DEF Fresh

\* NewtonOS, whatever the handler does with its packet.
LEMMA SendingPhases ==
  ASSUME NetTInv, Phases, NEW p \in Packet, Sending(p)
  PROVE  /\ newton'.conn \in {"synSent", "open"}
         /\ newton'.conn = "synSent" => newton'.sndNxt = 1 /\ ~newton'.finSent
         /\ newton'.sndUna <= newton'.sndNxt
<1>1. newton.sndNxt \in Nat /\ newton.sndUna \in Nat
  BY DEF NetTInv, Newton
<1>2. newton.sndUna <= newton.sndNxt
  BY DEF Phases
<1>3. CASE newton.conn \in {"closed", "synSent"}
  <2>1. ~newton.finSent /\ newton.sndNxt <= 1
    BY <1>3 DEF Phases
  <2>2. /\ newton'.conn = "synSent" /\ newton'.sndNxt = 1
        /\ newton'.finSent = newton.finSent /\ newton'.sndUna = newton.sndUna
    BY <1>3 DEF Sending
  <2>3. newton'.sndUna <= newton'.sndNxt
    BY <1>1, <1>2, <2>1, <2>2
  <2> QED BY <2>1, <2>2, <2>3
<1>4. CASE newton.conn \notin {"closed", "synSent"}
  <2>1. newton'.conn = "open" /\ newton'.sndUna = newton.sndUna
    BY <1>4 DEF Sending
  <2>2. \/ newton'.sndNxt = newton.sndNxt + p.len
        \/ newton'.sndNxt = newton.sndNxt
        \/ newton'.sndNxt = newton.sndNxt + 1
    BY <1>4 DEF Sending
  <2>3. p.len \in Nat
    BY DEF Packet
  <2>4. newton'.sndUna <= newton'.sndNxt
    BY <1>1, <1>2, <2>1, <2>2, <2>3
  <2> QED BY <2>1, <2>4
<1> QED BY <1>3, <1>4

LEMMA ReceivingPhases ==
  ASSUME NetTInv, Phases, NEW p \in Packet, Receiving(p)
  PROVE  /\ newton.conn # "closed" => newton'.conn # "closed"
         /\ newton'.conn = "closed" => newton'.sndNxt = 0 /\ ~newton'.finSent
         /\ newton'.conn = "synSent" => newton'.sndNxt = 1 /\ ~newton'.finSent
         /\ newton'.sndUna <= newton'.sndNxt
         /\ newton'.conn = "done" => newton'.finRcvd /\ newton'.sndUna = newton'.sndNxt
<1>1. newton.sndNxt \in Nat /\ newton.sndUna \in Nat
  BY DEF NetTInv, Newton
<1>2. newton.sndUna <= newton.sndNxt
  BY DEF Phases
<1>3. CASE /\ newton.conn = "synSent" /\ p.flag = "SYN" /\ p.ack = newton.sndNxt
           /\ newton'.conn = "open" /\ newton'.sndUna = p.ack
           /\ newton'.sndNxt = newton.sndNxt /\ newton'.finSent = newton.finSent
  <2>1. newton'.sndUna = newton'.sndNxt /\ newton'.sndNxt \in Nat
    BY <1>1, <1>3
  <2>2. newton'.sndUna <= newton'.sndNxt
    BY <2>1
  <2> QED BY <1>3, <2>2
<1>4. CASE newton.conn = "open" /\ \E new, fin : Taking(p, new, fin)
  <2>1. PICK new, fin : Taking(p, new, fin)
    BY <1>4
  <2>2. /\ newton'.sndUna = IF p.ack \in newton.sndUna .. newton.sndNxt THEN p.ack
                            ELSE newton.sndUna
        /\ newton'.sndNxt = newton.sndNxt
    BY <2>1 DEF Taking
  <2>3. newton'.sndUna <= newton'.sndNxt
    BY <1>1, <1>2, <2>2
  <2>4. /\ newton'.conn \in {"open", "done"}
        /\ newton'.conn = "done" => newton'.sndUna = newton'.sndNxt /\ newton'.finRcvd
    BY <2>1 DEF Taking
  <2> QED BY <2>3, <2>4
<1>5. CASE newton' = newton
  BY <1>5 DEF Phases
<1> QED BY <1>3, <1>4, <1>5 DEF Receiving

LEMMA PhasesInit == NetInit => Phases
BY DEF NetInit, Phases, Fresh

LEMMA PhasesStep == NetTInv /\ Phases /\ [NetNext]_netVars => Phases'
<1> SUFFICES ASSUME NetTInv, Phases, [NetNext]_netVars PROVE Phases'
  OBVIOUS
<1>1. connects \in Nat
  BY BoundsAssumption DEF NetTInv, NetTypeOK
<1>2. /\ connects > 0 => newton.conn # "closed"
      /\ newton.conn = "closed" => newton.sndNxt = 0 /\ ~newton.finSent
      /\ newton.conn = "synSent" => newton.sndNxt = 1 /\ ~newton.finSent
      /\ newton.sndUna <= newton.sndNxt
      /\ newton.conn = "done" => newton.finRcvd /\ newton.sndUna = newton.sndNxt
  BY DEF Phases
<1>3. /\ connects = 0 => Fresh
      /\ state \in {"kStatePeerDiscWaitForACK", "kStatePeerDiscWaitForFIN"} =>
           peerClosed /\ received = peerSent
  BY DEF Phases
<1>4. CASE NewtonSends
  <2>1. PICK p \in Packet : SendPacket(p) /\ Sending(p)
    BY <1>4, SendsPacket
  <2>2. /\ newton'.conn \in {"synSent", "open"}
        /\ newton'.conn = "synSent" => newton'.sndNxt = 1 /\ ~newton'.finSent
        /\ newton'.sndUna <= newton'.sndNxt
    BY <2>1, SendingPhases
  <2>3. /\ \/ /\ UNCHANGED <<peerVars, received, connects>>
              /\ state' \in {"kStatePeerDiscWaitForACK", "kStatePeerDiscWaitForFIN"} =>
                   state = "kStatePeerDiscWaitForACK"
           \/ connects' = connects + 1 /\ state' = "kStateConnected"
        /\ state \in {"none", "kStateDisconnected"} => Connect(p)
    BY <2>1, SendPacketPhases
  <2>4. connects' = 0 => Fresh'
    <3> SUFFICES ASSUME connects' = 0 PROVE Fresh'
      OBVIOUS
    <3>1. connects' = connects /\ connects = 0
      BY <1>1, <2>3
    <3>2. Fresh
      BY <1>3, <3>1
    <3>3. Connect(p)
      BY <2>3, <3>2 DEF Fresh
    <3> QED BY <2>1, <3>1, <3>2, <3>3, FreshConnect
  <2>5. state' \in {"kStatePeerDiscWaitForACK", "kStatePeerDiscWaitForFIN"} =>
          peerClosed' /\ received' = peerSent'
    BY <1>3, <2>3 DEF peerVars
  <2> QED BY <2>2, <2>4, <2>5 DEF Phases
<1>5. CASE TimerReceives
  <2>1. /\ state = "kStateConnected"
        /\ UNCHANGED <<handlerVars, connects, newton>>
    BY <1>5 DEF TimerReceives
  <2>2. connects # 0
    BY <1>3, <2>1 DEF Fresh
  <2> QED BY <1>2, <2>1, <2>2 DEF Phases, handlerVars
<1>6. CASE TimerSeesEnd
  <2>1. /\ state = "kStateConnected" /\ peerClosed /\ received = peerSent
        /\ UNCHANGED <<peerVars, received, connects, newton>>
    BY <1>6 DEF TimerSeesEnd
  <2>2. connects # 0
    BY <1>3, <2>1 DEF Fresh
  <2> QED BY <1>2, <2>1, <2>2 DEF Phases, peerVars
<1>7. CASE PeerSends
  <2>1. /\ connects > 0 /\ ~peerClosed /\ peerClosed' = peerClosed
        /\ UNCHANGED <<state, connects, newton>>
    BY <1>7 DEF PeerSends, handlerVars
  <2> QED BY <1>1, <1>2, <1>3, <2>1 DEF Phases
<1>8. CASE PeerCloses
  <2>1. /\ connects > 0 /\ peerClosed' = TRUE
        /\ UNCHANGED <<state, connects, newton, received, peerSent>>
    BY <1>8 DEF PeerCloses, handlerVars
  <2> QED BY <1>1, <1>2, <1>3, <2>1 DEF Phases
<1>9. CASE Receives
  <2> DEFINE p == Head(pipe)
  <2>1. /\ pipe # <<>> /\ p \in Packet /\ Receiving(p)
        /\ UNCHANGED <<handlerVars, peerVars, received, connects, history>>
    BY <1>9, ReceivesPacket
  <2>2. connects # 0
    BY <1>3, <2>1 DEF Fresh
  <2> HIDE DEF p
  <2>3. /\ newton.conn # "closed" => newton'.conn # "closed"
        /\ newton'.conn = "closed" => newton'.sndNxt = 0 /\ ~newton'.finSent
        /\ newton'.conn = "synSent" => newton'.sndNxt = 1 /\ ~newton'.finSent
        /\ newton'.sndUna <= newton'.sndNxt
        /\ newton'.conn = "done" => newton'.finRcvd /\ newton'.sndUna = newton'.sndNxt
    BY <2>1, ReceivingPhases
  <2> QED BY <1>1, <1>2, <1>3, <2>1, <2>2, <2>3 DEF Phases, handlerVars, peerVars
<1>10. CASE UNCHANGED netVars
  BY <1>10 DEF netVars, handlerVars, peerVars, history, Phases, Fresh
<1> QED BY <1>4, <1>5, <1>6, <1>7, <1>8, <1>9, <1>10 DEF NetNext, NewtonSends

-----------------------------------------------------------------------------
\* Acknowledgement.

\* What NewtonOS has sent but its FIN.
SentBeforeFin == IF newton.finSent THEN newton.sndNxt - 1 ELSE newton.sndNxt

LEMMA SendingCounts ==
  ASSUME NetTInv, Phases, connects > 0, NEW p \in Packet, Sending(p)
  PROVE  SentBeforeFin' = SentBeforeFin + p.len
<1>1. newton.sndNxt \in Nat /\ p.len \in Nat
  BY DEF NetTInv, Newton, Packet
<1>2. newton.conn # "closed"
  BY DEF Phases
<1>3. newton.conn = "synSent" => newton.sndNxt = 1 /\ ~newton.finSent
  BY DEF Phases
<1>4. CASE newton.conn = "synSent"
  <2>1. newton'.sndNxt = newton.sndNxt /\ p.len = 0 /\ ~newton'.finSent /\ ~newton.finSent
    BY <1>3, <1>4 DEF Sending
  <2>2. SentBeforeFin' = newton'.sndNxt /\ SentBeforeFin = newton.sndNxt
    BY <2>1 DEF SentBeforeFin
  <2> QED BY <1>1, <2>1, <2>2
<1>5. CASE /\ newton'.sndNxt = newton.sndNxt + p.len
           /\ newton'.finSent = newton.finSent /\ (p.len > 0 => ~newton.finSent)
  <2>1. CASE newton.finSent
    <3>1. p.len = 0
      BY <1>1, <1>5, <2>1
    <3>2. SentBeforeFin' = newton'.sndNxt - 1 /\ SentBeforeFin = newton.sndNxt - 1
      BY <1>5, <2>1 DEF SentBeforeFin
    <3>3. newton'.sndNxt = newton.sndNxt + p.len
      BY <1>5
    <3> QED BY <1>1, <3>1, <3>2, <3>3
  <2>2. CASE ~newton.finSent
    BY <1>5, <2>2 DEF SentBeforeFin
  <2> QED BY <2>1, <2>2
<1>6. CASE /\ newton'.sndNxt = IF newton.finSent THEN newton.sndNxt ELSE newton.sndNxt + 1
           /\ newton'.finSent /\ p.len = 0
  <2>1. SentBeforeFin' = newton'.sndNxt - 1
    BY <1>6 DEF SentBeforeFin
  <2>2. CASE newton.finSent
    BY <1>1, <1>6, <2>1, <2>2 DEF SentBeforeFin
  <2>3. CASE ~newton.finSent
    <3>1. newton'.sndNxt = newton.sndNxt + 1 /\ SentBeforeFin = newton.sndNxt /\ p.len = 0
      BY <1>6, <2>3 DEF SentBeforeFin
    <3> QED BY <1>1, <2>1, <3>1
  <2> QED BY <2>2, <2>3
<1> QED BY <1>2, <1>4, <1>5, <1>6 DEF Sending

\* Of the connection that the handler forgot.
Acked == \/ newton.sndUna = newton.sndNxt
         \/ \E i \in DOMAIN pipe : pipe[i].ack = newton.sndNxt

LEMMA SendPacketAcknowledges ==
  ASSUME NetTInv, Phases, Acknowledgement, NEW p \in Packet, SendPacket(p), Sending(p)
  PROVE  Acknowledgement'
<1> SUFFICES ASSUME connects' = 1, ~dropped'
             PROVE  /\ state' \notin {"none", "kStateDisconnected"} =>
                         mySeqNr' = SentBeforeFin'
                    /\ state' = "none" =>
                         newton'.finSent /\ newton'.conn # "synSent" /\ Acked'
  BY DEF Acknowledgement, SentBeforeFin, Acked
<1>1. connects \in Nat /\ p.len \in Nat /\ mySeqNr \in Nat /\ SentBeforeFin \in Int
  <2>1. connects \in Nat /\ mySeqNr \in Nat
    BY BoundsAssumption DEF NetTInv, NetTypeOK
  <2>2. newton.sndNxt \in Nat
    BY DEF NetTInv, Newton
  <2>3. SentBeforeFin \in Int
    BY <2>2 DEF SentBeforeFin
  <2>4. p.len \in Nat
    BY DEF Packet
  <2> QED BY <2>1, <2>3, <2>4
<1>2. CASE Connect(p)
  <2>1. CASE state' = "kStateDisconnected"
    BY <2>1
  <2>2. CASE connects' = connects + 1 /\ state' = "kStateConnected"
    <3>1. connects = 0
      BY <1>1, <2>2
    <3>2. Fresh
      BY <3>1 DEF Phases
    <3>3. p.seq = 0 /\ newton'.sndNxt = 1 /\ newton'.finSent = newton.finSent
      BY <3>2 DEF Fresh, Sending
    <3>4. ~newton.finSent
      BY <3>2 DEF Fresh, Phases
    <3>5. mySeqNr' = 1
      <4>1. state' # "kStateDisconnected"
        BY <2>2
      <4>2. mySeqNr' = (IF state = "none" THEN p.seq ELSE mySeqNr) + 1
        BY <1>2, <4>1 DEF Connect
      <4>3. mySeqNr = 0
        BY <3>2 DEF Fresh
      <4> QED BY <3>3, <4>2, <4>3
    <3>6. SentBeforeFin' = 1
      BY <3>3, <3>4 DEF SentBeforeFin
    <3> QED BY <2>2, <3>5, <3>6
  <2> QED BY <1>2, <2>1, <2>2 DEF Connect
<1>3. CASE ~Connect(p)
  <2>1. /\ state \notin {"none", "kStateDisconnected"} /\ connects = 1 /\ ~dropped
        /\ \/ state' # "none" /\ mySeqNr' = mySeqNr /\ p.len = 0
           \/ state' # "none" /\ mySeqNr' = mySeqNr + p.len
           \/ RemovePacketHandler(p)
    <3>1. CASE TakeAck(p)
      BY <3>1 DEF TakeAck
    <3>2. CASE Write(p)
      BY <3>2 DEF Write
    <3>3. CASE TakeFinAck(p)
      <4>1. /\ state \notin {"none", "kStateDisconnected"} /\ state' # "none"
            /\ connects = 1 /\ mySeqNr' = mySeqNr
        BY <3>3 DEF TakeFinAck
      <4>2. ~dropped /\ ~(p.len > 0)
        BY <3>3 DEF TakeFinAck
      <4>3. p.len = 0
        BY <1>1, <4>2
      <4> QED BY <4>1, <4>2, <4>3
    <3>4. CASE Reopen(p)
      <4>1. /\ state \notin {"none", "kStateDisconnected"} /\ state' # "none"
            /\ connects = 1 /\ mySeqNr' = mySeqNr
        BY <3>4 DEF Reopen
      <4>2. ~dropped /\ ~(p.len > 0)
        BY <3>4 DEF Reopen
      <4>3. p.len = 0
        BY <1>1, <4>2
      <4> QED BY <4>1, <4>2, <4>3
    <3>5. CASE RemovePacketHandler(p)
      BY <3>5 DEF RemovePacketHandler, history
    <3> QED BY <1>3, <3>1, <3>2, <3>3, <3>4, <3>5 DEF SendPacket
  <2>2. mySeqNr = SentBeforeFin
    BY <2>1 DEF Acknowledgement, SentBeforeFin
  <2>3. SentBeforeFin' = SentBeforeFin + p.len
    BY <1>1, <2>1, SendingCounts
  <2>4. CASE state' # "none" /\ mySeqNr' = mySeqNr /\ p.len = 0
    <3>1. mySeqNr' = SentBeforeFin'
      BY <1>1, <2>2, <2>3, <2>4
    <3> QED BY <2>4, <3>1
  <2>5. CASE state' # "none" /\ mySeqNr' = mySeqNr + p.len
    BY <2>2, <2>3, <2>5
  <2>6. CASE RemovePacketHandler(p)
    <3>1. /\ state' = "none" /\ p.flag = "FIN"
          /\ Enqueue("", p.ack, mySeqNr + 1, 0, 0)
      BY <2>6 DEF RemovePacketHandler, EndsWith, LastAck
    <3>2. newton'.finSent /\ newton'.conn = "open" /\ p.len = 0
      BY <3>1 DEF Sending
    <3>3. newton'.sndNxt \in Nat
      BY DEF Sending, Newton
    <3>4. mySeqNr + 1 = newton'.sndNxt
      <4>1. SentBeforeFin' = newton'.sndNxt - 1
        BY <3>2 DEF SentBeforeFin
      <4>2. p.len = 0
        BY <3>2
      <4> QED BY <1>1, <2>2, <2>3, <3>3, <4>1, <4>2
    <3>5. \E i \in DOMAIN pipe' : pipe'[i].ack = newton'.sndNxt
      <4> DEFINE r == [flag |-> "", seq |-> p.ack, ack |-> mySeqNr + 1, from |-> 0,
                       len |-> 0]
      <4>1. pipe' = Append(pipe, r) /\ pipe \in Seq(Packet)
        BY <3>1 DEF Enqueue, Queued, NetTInv, NetTypeOK
      <4>2. r.ack = newton'.sndNxt
        BY <3>4
      <4> HIDE DEF r
      <4>3. Len(pipe) + 1 \in DOMAIN pipe' /\ pipe'[Len(pipe) + 1] = r
        BY <4>1
      <4> QED BY <4>2, <4>3
    <3> QED BY <3>1, <3>2, <3>5 DEF Acked
  <2> QED BY <2>1, <2>4, <2>5, <2>6
<1> QED BY <1>2, <1>3

LEMMA ReceivesAcknowledgement ==
  ASSUME NetTInv, Phases, Acknowledgement, Receives
  PROVE  Acknowledgement'
<1> DEFINE p == Head(pipe)
<1>1. /\ pipe # <<>> /\ pipe' = Tail(pipe) /\ p \in Packet /\ Receiving(p)
      /\ UNCHANGED <<handlerVars, peerVars, received, connects, history>>
  BY ReceivesPacket
<1>2. pipe \in Seq(Packet) /\ newton.sndNxt \in Nat /\ newton.sndUna \in Nat
  BY DEF NetTInv, NetTypeOK, Newton
<1>3. newton.sndUna <= newton.sndNxt
  BY DEF Phases
<1> SUFFICES ASSUME connects' = 1, ~dropped'
             PROVE  /\ state' \notin {"none", "kStateDisconnected"} =>
                         mySeqNr' = SentBeforeFin'
                    /\ state' = "none" =>
                         newton'.finSent /\ newton'.conn # "synSent" /\ Acked'
  BY DEF Acknowledgement, SentBeforeFin, Acked
<1>4. newton'.sndNxt = newton.sndNxt /\ newton'.finSent = newton.finSent
  BY <1>1 DEF Receiving, Taking
<1>5. /\ state' = state /\ mySeqNr' = mySeqNr /\ connects = 1 /\ ~dropped
      /\ SentBeforeFin' = SentBeforeFin
  BY <1>1, <1>4 DEF handlerVars, history, SentBeforeFin
<1>6. ASSUME state = "none" PROVE newton'.finSent /\ newton'.conn # "synSent" /\ Acked'
  <2>1. newton.finSent /\ newton.conn # "synSent" /\ Acked
    BY <1>5, <1>6 DEF Acknowledgement, Acked
  <2>2. /\ newton'.conn # "synSent"
        /\ \/ newton'.sndUna = IF p.ack \in newton.sndUna .. newton.sndNxt THEN p.ack
                               ELSE newton.sndUna
           \/ newton'.sndUna = newton.sndUna /\ newton.conn # "open"
    BY <1>1, <2>1 DEF Receiving, Taking
  <2>3. CASE newton.conn # "open"
    <3>1. newton.conn = "done"
      <4>1. newton.conn # "closed"
        BY <1>5 DEF Phases
      <4> QED BY <2>1, <2>3, <4>1 DEF NetTInv, Newton
    <3>2. newton.sndUna = newton.sndNxt
      BY <3>1 DEF Phases
    <3>3. newton' = newton
      BY <1>1, <2>1, <2>3 DEF Receiving
    <3> QED BY <2>1, <3>2, <3>3 DEF Acked
  <2>4. CASE newton.conn = "open"
    <3>1. newton'.sndUna = IF p.ack \in newton.sndUna .. newton.sndNxt THEN p.ack
                           ELSE newton.sndUna
      BY <2>2, <2>4
    <3>2. CASE newton.sndUna = newton.sndNxt \/ p.ack = newton.sndNxt
      <4>1. newton'.sndUna = newton.sndNxt
        <5> HIDE DEF p
        <5> QED BY <1>2, <1>3, <3>1, <3>2
      <4> QED BY <1>4, <2>1, <2>2, <4>1 DEF Acked
    <3>3. CASE newton.sndUna # newton.sndNxt /\ p.ack # newton.sndNxt
      <4>1. PICK i \in DOMAIN pipe : pipe[i].ack = newton.sndNxt
        BY <2>1, <3>3 DEF Acked
      <4>2. i # 1 /\ i \in 1 .. Len(pipe)
        BY <1>1, <1>2, <3>3, <4>1
      <4>3. i - 1 \in DOMAIN pipe' /\ pipe'[i - 1] = pipe[i]
        BY <1>1, <1>2, <4>2
      <4> QED BY <1>4, <2>1, <2>2, <4>1, <4>3 DEF Acked
    <3> QED BY <3>2, <3>3
  <2> QED BY <2>3, <2>4
<1>7. state \notin {"none", "kStateDisconnected"} => mySeqNr = SentBeforeFin
  BY <1>5 DEF Acknowledgement, SentBeforeFin
<1> QED BY <1>5, <1>6, <1>7

LEMMA AcknowledgementInit == NetInit => Acknowledgement
BY DEF NetInit, Acknowledgement

LEMMA AcknowledgementStep ==
  NetTInv /\ Phases /\ Acknowledgement /\ [NetNext]_netVars => Acknowledgement'
<1> SUFFICES ASSUME NetTInv, Phases, Acknowledgement, [NetNext]_netVars
             PROVE  Acknowledgement'
  OBVIOUS
<1>1. CASE NewtonSends
  BY <1>1, SendsPacket, SendPacketAcknowledges
<1>2. CASE TimerReceives
  BY <1>2 DEF TimerReceives, Acknowledgement, handlerVars
<1>3. CASE TimerSeesEnd
  BY <1>3 DEF TimerSeesEnd, Acknowledgement, history
<1>4. CASE PeerSends
  BY <1>4 DEF PeerSends, Acknowledgement, handlerVars, history
<1>5. CASE PeerCloses
  BY <1>5 DEF PeerCloses, Acknowledgement, handlerVars, history
<1>6. CASE Receives
  BY <1>6, ReceivesAcknowledgement
<1>7. CASE UNCHANGED netVars
  BY <1>7 DEF netVars, handlerVars, history, Acknowledgement
<1> QED BY <1>1, <1>2, <1>3, <1>4, <1>5, <1>6, <1>7 DEF NetNext, NewtonSends

-----------------------------------------------------------------------------
\* Delivery: the pipe.

LEMMA PacketNumbers ==
  ASSUME NEW p \in Packet
  PROVE  p.seq \in Nat /\ p.ack \in Nat /\ p.from \in Nat /\ p.len \in Nat
BY DEF Packet

LEMMA SizeOf ==
  ASSUME NEW p \in Packet
  PROVE  /\ Size(p) \in Nat
         /\ p.flag = "SYN" => Size(p) = p.len + 1
         /\ p.flag # "SYN" => Size(p) = p.len
<1>1. p.len \in Nat
  BY PacketNumbers
<1>2. CASE p.flag = "SYN"
  <2>1. Size(p) = p.len + 1
    BY <1>2 DEF Size
  <2> QED BY <1>1, <1>2, <2>1
<1>3. CASE p.flag # "SYN"
  <2>1. Size(p) = p.len + 0
    BY <1>3 DEF Size
  <2>2. Size(p) = p.len
    BY <1>1, <2>1
  <2> QED BY <1>1, <1>3, <2>2
<1> QED BY <1>2, <1>3

\* A packet that carries nothing, put behind the others.
LEMMA FillsAppend ==
  ASSUME NEW conn, NEW q \in Seq(Packet), NEW next \in Nat, NEW last \in Nat,
         NEW ended \in BOOLEAN, Fills(conn, q, next, last, ended),
         NEW r \in Packet, r.flag # "SYN", r.len = 0, r.flag = "FIN" => ended
  PROVE  Fills(conn, Append(q, r), next, last, ended)
<1> DEFINE s == Append(q, r)
<1>1. /\ Len(s) = Len(q) + 1 /\ Len(q) \in Nat
      /\ \A i \in 1 .. Len(q) : s[i] = q[i]
      /\ s[Len(q) + 1] = r
  OBVIOUS
<1> HIDE DEF s
<1>2. /\ conn = "synSent" => q # <<>> /\ q[1].flag = "SYN" /\ q[1].seq = 0 /\ q[1].ack = 1
      /\ \A i \in 1 .. Len(q) : Fits(q[i], next, last)
      /\ \A i \in 1 .. Len(q) : q[i].flag = "SYN" => i = 1 /\ conn = "synSent"
      /\ \A i \in 1 .. Len(q) : q[i].flag = "FIN" =>
           ended /\ (next < last => \E j \in 1 .. i - 1 : Carries(q[j], next, last))
      /\ next < last => \E j \in 1 .. Len(q) : Carries(q[j], next, last)
  BY DEF Fills
<1>3. Fits(r, next, last)
  <2>1. Size(r) = 0
    BY SizeOf
  <2> QED BY <2>1 DEF Fits
<1>4. conn = "synSent" => s # <<>> /\ s[1].flag = "SYN" /\ s[1].seq = 0 /\ s[1].ack = 1
  <2> SUFFICES ASSUME conn = "synSent"
               PROVE  s # <<>> /\ s[1].flag = "SYN" /\ s[1].seq = 0 /\ s[1].ack = 1
    OBVIOUS
  <2>1. q # <<>> /\ q[1].flag = "SYN" /\ q[1].seq = 0 /\ q[1].ack = 1
    BY <1>2
  <2>2. 1 \in 1 .. Len(q)
    BY <2>1
  <2>3. s[1] = q[1] /\ s # <<>>
    BY <1>1, <2>2
  <2> QED BY <2>1, <2>3
<1>5. \A i \in 1 .. Len(s) : i \in 1 .. Len(q) \/ i = Len(q) + 1
  BY <1>1
<1>6. \A i \in 1 .. Len(s) : Fits(s[i], next, last)
  BY <1>1, <1>2, <1>3, <1>5
<1>7. \A i \in 1 .. Len(s) : s[i].flag = "SYN" => i = 1 /\ conn = "synSent"
  BY <1>1, <1>2, <1>5
<1>8. ASSUME NEW i \in 1 .. Len(s), next < last, i = Len(q) + 1 \/ s[i].flag = "FIN"
      PROVE  \E j \in 1 .. i - 1 : Carries(s[j], next, last)
  <2>1. PICK j \in 1 .. Len(q) : Carries(q[j], next, last) /\ j < i
    <3>1. CASE i = Len(q) + 1
      <4>1. PICK j \in 1 .. Len(q) : Carries(q[j], next, last)
        BY <1>2, <1>8
      <4> QED BY <1>1, <3>1, <4>1
    <3>2. CASE i \in 1 .. Len(q) /\ s[i].flag = "FIN"
      <4>1. PICK j \in 1 .. i - 1 : Carries(q[j], next, last)
        BY <1>1, <1>2, <1>8, <3>2
      <4> QED BY <1>1, <3>2, <4>1
    <3>3. i \in 1 .. Len(q) => i # Len(q) + 1
      BY <1>1
    <3> QED BY <1>5, <1>8, <3>1, <3>2, <3>3
  <2>2. j \in 1 .. i - 1 /\ s[j] = q[j]
    BY <1>1, <2>1
  <2> QED BY <2>1, <2>2
<1>9. \A i \in 1 .. Len(s) : s[i].flag = "FIN" =>
        ended /\ (next < last => \E j \in 1 .. i - 1 : Carries(s[j], next, last))
  <2>1. \A i \in 1 .. Len(s) : s[i].flag = "FIN" => ended
    BY <1>1, <1>2, <1>5
  <2> QED BY <1>8, <2>1
<1>10. next < last => \E j \in 1 .. Len(s) : Carries(s[j], next, last)
  <2> SUFFICES ASSUME next < last PROVE \E j \in 1 .. Len(s) : Carries(s[j], next, last)
    OBVIOUS
  <2>1. PICK j \in 1 .. Len(q) : Carries(q[j], next, last)
    BY <1>2
  <2>2. j \in 1 .. Len(s) /\ s[j] = q[j]
    BY <1>1
  <2> QED BY <2>1, <2>2
<1> QED BY <1>4, <1>6, <1>7, <1>9, <1>10 DEF Fills, s

\* The peer's stream ends.
LEMMA FillsEnded ==
  ASSUME NEW conn, NEW q, NEW next, NEW last, NEW ended, NEW ended2, ended => ended2,
         Fills(conn, q, next, last, ended)
  PROVE  Fills(conn, q, next, last, ended2)
BY DEF Fills

\* A segment of the n bytes from number next on.
Data(r, next, n) == r.flag = "" /\ r.len = n /\ r.seq = next /\ r.from = next

\* All was received, and n more bytes are sent.
LEMMA FillsBytes ==
  ASSUME NEW conn, conn # "synSent", NEW q \in Seq(Packet), NEW next \in Nat,
         NEW n \in Nat \ {0}, NEW ended \in BOOLEAN, Fills(conn, q, next, next, FALSE),
         NEW r \in Packet, Data(r, next, n)
  PROVE  Fills(conn, Append(q, r), next, next + n, ended)
<1> DEFINE s == Append(q, r)
<1>1. /\ Len(s) = Len(q) + 1 /\ Len(q) \in Nat
      /\ \A i \in 1 .. Len(q) : s[i] = q[i]
      /\ s[Len(q) + 1] = r
  OBVIOUS
<1> HIDE DEF s
<1>2. /\ \A i \in 1 .. Len(q) : Fits(q[i], next, next)
      /\ \A i \in 1 .. Len(q) : q[i].flag # "SYN" /\ q[i].flag # "FIN"
  BY DEF Fills
<1>3. Carries(r, next, next + n) /\ Fits(r, next, next + n)
  <2>1. Size(r) = n
    BY SizeOf DEF Data
  <2>2. r.seq = next
    BY DEF Data
  <2>3. Carries(r, next, next + n)
    BY <2>1, <2>2 DEF Carries
  <2> QED BY <2>2, <2>3 DEF Fits, Data
<1>4. ASSUME NEW i \in 1 .. Len(q) PROVE Fits(q[i], next, next + n)
  <2> DEFINE z == Size(q[i])
             a == q[i].seq
  <2>1. z \in Nat /\ a \in Nat
    <3>1. q[i] \in Packet
      OBVIOUS
    <3> QED BY <3>1, SizeOf, PacketNumbers
  <2>2. Fits(q[i], next, next)
    BY <1>2
  <2>3. z > 0 => a + z <= next
    <3>1. z > 0 => a + z <= next \/ (a = next /\ a + z = next)
      BY <2>2 DEF Fits, Carries
    <3> HIDE DEF z, a
    <3> QED BY <2>1, <3>1
  <2> QED BY <2>2, <2>3 DEF Fits
<1>5. \A i \in 1 .. Len(s) : i \in 1 .. Len(q) \/ i = Len(q) + 1
  BY <1>1
<1>6. \A i \in 1 .. Len(s) : Fits(s[i], next, next + n)
  BY <1>1, <1>3, <1>4, <1>5
<1>7. \A i \in 1 .. Len(s) : s[i].flag # "SYN" /\ s[i].flag # "FIN"
  BY <1>1, <1>2, <1>5 DEF Data
<1>8. \E j \in 1 .. Len(s) : Carries(s[j], next, next + n)
  <2>1. Len(q) + 1 \in 1 .. Len(s) /\ s[Len(q) + 1] = r
    BY <1>1
  <2> QED BY <1>3, <2>1
<1> QED BY <1>6, <1>7, <1>8 DEF Fills, s

\* A packet is taken from the pipe, and either nothing is missing after it or it
\* changed nothing and did not carry what was missing.
LEMMA FillsTail ==
  ASSUME NEW conn, NEW conn2, conn2 # "synSent", NEW q \in Seq(Packet), q # <<>>,
         NEW next \in Nat, NEW next2 \in Nat, NEW last \in Nat, NEW ended,
         Fills(conn, q, next, last, ended), next <= next2,
         \/ next2 >= last
         \/ next2 = next /\ ~Carries(q[1], next, last)
  PROVE  Fills(conn2, Tail(q), next2, last, ended)
<1> DEFINE s == Tail(q)
<1>1. /\ Len(q) = Len(s) + 1 /\ Len(s) \in Nat
      /\ \A i \in 1 .. Len(s) : /\ s[i] = q[i + 1] /\ q[i + 1] \in Packet
                                /\ i + 1 \in 1 .. Len(q)
  OBVIOUS
<1> HIDE DEF s
<1>2. /\ \A i \in 1 .. Len(q) : Fits(q[i], next, last)
      /\ \A i \in 1 .. Len(q) : q[i].flag = "SYN" => i = 1
      /\ \A i \in 1 .. Len(q) : q[i].flag = "FIN" =>
           ended /\ (next < last => \E j \in 1 .. i - 1 : Carries(q[j], next, last))
      /\ next < last => \E j \in 1 .. Len(q) : Carries(q[j], next, last)
  BY DEF Fills
<1>3. ASSUME NEW i \in 1 .. Len(s) PROVE Fits(s[i], next2, last)
  <2>1. Size(q[i + 1]) \in Nat /\ q[i + 1].seq \in Nat
    BY <1>1, SizeOf, PacketNumbers
  <2>2. Fits(q[i + 1], next, last)
    BY <1>1, <1>2
  <2> DEFINE z == Size(q[i + 1])
             a == q[i + 1].seq
  <2>3. z > 0 => a + z <= next2 \/ Carries(q[i + 1], next2, last)
    <3>1. z > 0 => a + z <= next \/ (a = next /\ a + z = last)
      BY <2>2 DEF Fits, Carries
    <3> HIDE DEF z, a
    <3>2. z \in Nat /\ a \in Nat
      BY <2>1 DEF z, a
    <3>3. z > 0 => a + z <= next2 \/ (a = next2 /\ a + z = last)
      BY <3>1, <3>2
    <3> QED BY <3>3 DEF Carries, z, a
  <2>4. Fits(q[i + 1], next2, last)
    BY <2>2, <2>3 DEF Fits
  <2> QED BY <1>1, <2>4
<1>4. \A i \in 1 .. Len(s) : s[i].flag # "SYN"
  <2> SUFFICES ASSUME NEW i \in 1 .. Len(s) PROVE s[i].flag # "SYN"
    OBVIOUS
  <2>1. i + 1 # 1 /\ i + 1 \in 1 .. Len(q) /\ s[i] = q[i + 1]
    BY <1>1
  <2> QED BY <1>2, <2>1
<1>5. ASSUME NEW k \in 1 .. Len(q), Carries(q[k], next, last), next2 < last
      PROVE  k - 1 \in 1 .. Len(s) /\ Carries(s[k - 1], next2, last)
  <2>1. next2 = next /\ ~Carries(q[1], next, last)
    BY <1>5
  <2>2. k - 1 \in 1 .. Len(s) /\ (k - 1) + 1 = k
    BY <1>1, <1>5, <2>1
  <2>3. s[k - 1] = q[k]
    BY <1>1, <2>2
  <2> QED BY <1>5, <2>1, <2>2, <2>3
<1>6. ASSUME NEW i \in 1 .. Len(s), s[i].flag = "FIN"
      PROVE  ended /\ (next2 < last => \E j \in 1 .. i - 1 : Carries(s[j], next2, last))
  <2>1. /\ i + 1 \in 1 .. Len(q)
        /\ ended
        /\ next < last => \E j \in 1 .. (i + 1) - 1 : Carries(q[j], next, last)
    BY <1>1, <1>2, <1>6
  <2>2. ASSUME next2 < last PROVE \E j \in 1 .. i - 1 : Carries(s[j], next2, last)
    <3>1. next < last
      BY <2>2
    <3>2. PICK k \in 1 .. (i + 1) - 1 : Carries(q[k], next, last)
      BY <2>1, <3>1
    <3>3. k \in 1 .. Len(q) /\ k - 1 < i /\ k \in Int
      BY <1>1, <2>1
    <3>4. k - 1 \in 1 .. Len(s) /\ Carries(s[k - 1], next2, last)
      BY <1>5, <2>2, <3>2, <3>3
    <3>5. k - 1 \in 1 .. i - 1
      BY <1>1, <3>3, <3>4
    <3> QED BY <3>4, <3>5
  <2> QED BY <2>1, <2>2
<1>7. ASSUME next2 < last PROVE \E j \in 1 .. Len(s) : Carries(s[j], next2, last)
  <2>1. next < last
    BY <1>7
  <2>2. PICK k \in 1 .. Len(q) : Carries(q[k], next, last)
    BY <1>2, <2>1
  <2> QED BY <1>5, <1>7, <2>2
<1> QED BY <1>3, <1>4, <1>6, <1>7 DEF Fills, s

LEMMA BytesFollow ==
  ASSUME NEW l \in Nat, NEW n \in Nat
  PROVE  /\ Bytes(1, l) \o Bytes(l + 1, n) = Bytes(1, l + n)
         /\ Bytes(1, l) \in Seq(Nat) /\ Len(Bytes(1, l)) = l
<1>1. Bytes(1, l) \in Seq(Nat) /\ Len(Bytes(1, l)) = l
  BY DEF Bytes
<1>2. Bytes(l + 1, n) \in Seq(Nat) /\ Len(Bytes(l + 1, n)) = n
  BY DEF Bytes
<1>3. Bytes(1, l + n) \in Seq(Nat) /\ Len(Bytes(1, l + n)) = l + n
  BY DEF Bytes
<1> DEFINE b == Bytes(1, l)
           d == Bytes(l + 1, n)
           c == b \o d
<1>4. c \in Seq(Nat) /\ Len(c) = l + n
  <2> HIDE DEF b, d
  <2>1. /\ b \in Seq(Nat) /\ Len(b) = l /\ d \in Seq(Nat) /\ Len(d) = n
    BY <1>1, <1>2 DEF b, d
  <2> QED BY <2>1, ConcatProperties
<1>5. \A i \in 1 .. l + n : c[i] = IF i <= l THEN b[i] ELSE d[i - l]
  <2> HIDE DEF b, d
  <2>1. /\ b \in Seq(Nat) /\ Len(b) = l /\ d \in Seq(Nat) /\ Len(d) = n
    BY <1>1, <1>2 DEF b, d
  <2>2. \A i \in 1 .. Len(b) + Len(d) : c[i] = IF i <= Len(b) THEN b[i] ELSE d[i - Len(b)]
    BY <2>1, ConcatProperties
  <2> QED BY <2>1, <2>2
<1>6. \A i \in 1 .. l + n : c[i] = Bytes(1, l + n)[i]
  <2> TAKE i \in 1 .. l + n
  <2> HIDE DEF c
  <2>1. Bytes(1, l + n)[i] = i
    BY DEF Bytes
  <2>2. CASE i <= l
    <3>1. b[i] = i
      BY <2>2 DEF Bytes
    <3> QED BY <1>5, <2>1, <2>2, <3>1
  <2>3. CASE i > l
    <3>1. i - l \in 1 .. n
      BY <2>3
    <3>2. d[i - l] = i
      BY <3>1 DEF Bytes
    <3> HIDE DEF b, d
    <3> QED BY <1>5, <2>1, <2>3, <3>2
  <2> QED BY <2>2, <2>3
<1>7. c = Bytes(1, l + n)
  <2> HIDE DEF b, d, c
  <2> QED BY <1>3, <1>4, <1>6, SeqEqual
<1> QED BY <1>1, <1>7

-----------------------------------------------------------------------------
\* Delivery: the steps.

LEMMA ConnectDelivers ==
  ASSUME NetTInv, Fresh, NEW p \in Packet, Connect(p), Sending(p),
         connects' = connects + 1
  PROVE  Counted' /\ Filled'
<1> DEFINE r == [flag |-> "SYN", seq |-> 0, ack |-> 1, from |-> 0, len |-> 0]
<1>1. /\ newton.conn \in {"closed", "synSent"} /\ newton.rcvNxt = 0 /\ ~newton.finRcvd
      /\ pipe = <<>> /\ got = <<>> /\ ackedNxt = 0 /\ mySeqNr = 0 /\ theirSeqNr = 0
  BY DEF Fresh
<1>2. /\ p.ack = 0 /\ p.seq = 0 /\ got' = <<>> /\ newton'.conn = "synSent"
      /\ newton'.rcvNxt = 0 /\ ~newton'.finRcvd
  BY <1>1 DEF Sending
<1>3. connects' # connects
  <2>1. connects \in Nat
    BY BoundsAssumption DEF NetTInv, NetTypeOK
  <2> QED BY <2>1
<1>4. /\ theirSeqNr' = 0 /\ ackedNxt' = 0 /\ received' = 0
      /\ Enqueue("SYN", 0, 0 + 1, 0, 0) /\ sentNxt' = 0 + 1
  <2>1. (IF state = "none" THEN p.seq ELSE mySeqNr) = 0
    BY <1>1, <1>2
  <2>2. (IF state = "none" THEN p.ack ELSE theirSeqNr) = 0
    BY <1>1, <1>2
  <2> QED BY <1>1, <1>3, <2>1, <2>2 DEF Connect
<1>5. pipe' = <<r>> /\ sentNxt' = 1
  BY <1>1, <1>4 DEF Enqueue, Queued
<1>6. Counted'
  <2>1. Bytes(1, 0) = <<>> /\ Len(<<>>) = 0
    BY DEF Bytes
  <2> QED BY <1>2, <1>4, <1>5, <2>1 DEF Counted
<1>7. Filled'
  <2>1. Size(r) = 1 /\ r.seq = 0 /\ r.len = 0 /\ r.flag = "SYN" /\ r.ack = 1
    BY DEF Size
  <2> HIDE DEF r
  <2>2. Carries(r, 0, 1)
    <3>1. Size(r) = 1 /\ r.seq = 0
      BY <2>1
    <3> QED BY <3>1 DEF Carries
  <2>3. Fits(r, 0, 1)
    <3>1. r.len = 0
      BY <2>1
    <3> QED BY <2>2, <3>1 DEF Fits
  <2> DEFINE q == <<r>>
  <2>4. Len(q) = 1 /\ q[1] = r /\ q # <<>>
    OBVIOUS
  <2> HIDE DEF q
  <2>5. \A i \in 1 .. Len(q) : i = 1
    BY <2>4
  <2>6. \A e : Fills("synSent", q, 0, 1, e)
    BY <2>1, <2>2, <2>3, <2>4, <2>5 DEF Fills
  <2>7. pipe' = q
    BY <1>5 DEF q
  <2> QED BY <1>2, <1>5, <2>6, <2>7 DEF Filled
<1> QED BY <1>6, <1>7

\* What the handler does with a packet of a connection it has.
LEMMA SendPacketSends ==
  ASSUME NetTInv, NEW p \in Packet, SendPacket(p), connects' = connects,
         state = "kStateConnected" => theirSeqNr = ackedNxt
  PROVE  /\ UNCHANGED <<peerVars, received, sentNxt, reused>>
         /\ state' = "kStateConnected" => theirSeqNr' = ackedNxt'
         /\ ackedNxt' \in {ackedNxt, p.ack}
         /\ \/ pipe' = pipe
            \/ \E r \in Packet : r.flag = "" /\ r.len = 0 /\ pipe' = Append(pipe, r)
<1>1. connects \in Nat /\ mySeqNr \in Nat /\ theirSeqNr \in Nat
  BY BoundsAssumption DEF NetTInv, NetTypeOK
<1>2. ASSUME NEW seq \in Nat, NEW ack \in Nat, Enqueue("", seq, ack, 0, 0)
      PROVE  \E r \in Packet : r.flag = "" /\ r.len = 0 /\ pipe' = Append(pipe, r)
  <2> DEFINE r == [flag |-> "", seq |-> seq, ack |-> ack, from |-> 0, len |-> 0]
  <2>1. r \in Packet
    BY DEF Packet
  <2>2. pipe' = Append(pipe, r)
    BY <1>2 DEF Enqueue, Queued
  <2>3. r.flag = "" /\ r.len = 0
    OBVIOUS
  <2> HIDE DEF r
  <2> QED BY <2>1, <2>2, <2>3
<1>3. CASE Connect(p)
  <2>1. connects' # connects + 1
    BY <1>1
  <2> QED BY <1>3, <2>1 DEF Connect
<1>4. CASE TakeAck(p)
  BY <1>4 DEF TakeAck, Acknowledged
<1>5. CASE Write(p)
  <2>1. Enqueue("", theirSeqNr, mySeqNr + p.len, 0, 0)
    BY <1>5 DEF Write
  <2>2. mySeqNr + p.len \in Nat
    BY <1>1, PacketNumbers
  <2>3. \E r \in Packet : r.flag = "" /\ r.len = 0 /\ pipe' = Append(pipe, r)
    BY <1>1, <1>2, <2>1, <2>2
  <2> QED BY <1>5, <2>3 DEF Write
<1>6. CASE TakeFinAck(p)
  BY <1>6 DEF TakeFinAck
<1>7. CASE Reopen(p)
  BY <1>7 DEF Reopen
<1>8. CASE RemovePacketHandler(p)
  <2>1. Enqueue("", p.ack, mySeqNr + 1, 0, 0)
    BY <1>8 DEF RemovePacketHandler, LastAck
  <2>2. mySeqNr + 1 \in Nat /\ p.ack \in Nat
    BY <1>1, PacketNumbers
  <2>3. \E r \in Packet : r.flag = "" /\ r.len = 0 /\ pipe' = Append(pipe, r)
    BY <1>2, <2>1, <2>2
  <2> QED BY <1>8, <2>3 DEF RemovePacketHandler, history
<1> QED BY <1>3, <1>4, <1>5, <1>6, <1>7, <1>8 DEF SendPacket

\* What the proofs need to know of the types.
LEMMA NetNumbers ==
  ASSUME NetTInv
  PROVE  /\ Len(got) \in Nat /\ newton.rcvNxt \in Nat /\ newton.sndNxt \in Nat
         /\ sentNxt \in Nat /\ ackedNxt \in Nat /\ theirSeqNr \in Nat
         /\ received \in Nat /\ peerSent \in Nat /\ connects \in Nat
         /\ received <= peerSent
<1>1. Len(got) \in Nat
  BY DEF NetTInv
<1>2. newton.rcvNxt \in Nat /\ newton.sndNxt \in Nat
  BY DEF NetTInv, Newton
<1>3. sentNxt \in Nat /\ ackedNxt \in Nat /\ theirSeqNr \in Nat
  BY DEF NetTInv, NetTypeOK
<1>4. /\ received \in Nat /\ peerSent \in Nat /\ connects \in Nat
      /\ received <= peerSent
  BY BoundsAssumption DEF NetTInv, NetTypeOK
<1> QED BY <1>1, <1>2, <1>3, <1>4

LEMMA NetShapes ==
  ASSUME NetTInv
  PROVE  pipe \in Seq(Packet) /\ got \in Seq(Nat) /\ Ended \in BOOLEAN
BY DEF Ended, NetTInv, NetTypeOK

LEMMA SendDelivers ==
  ASSUME NetTInv, Phases, connects = 1, Counted, Filled,
         NEW p \in Packet, SendPacket(p), Sending(p), connects' = 1
  PROVE  Counted' /\ Filled'
<1>1. /\ newton'.conn = newton.conn /\ newton'.rcvNxt = newton.rcvNxt
      /\ newton'.finRcvd = newton.finRcvd /\ got' = got /\ p.ack = newton.rcvNxt
  <2>1. newton.conn # "closed"
    BY DEF Phases
  <2> QED BY <2>1 DEF Sending
<1>2. /\ UNCHANGED <<peerVars, received, sentNxt, reused>>
      /\ state' = "kStateConnected" => theirSeqNr' = ackedNxt'
      /\ ackedNxt' \in {ackedNxt, p.ack}
      /\ \/ pipe' = pipe
         \/ \E r \in Packet : r.flag = "" /\ r.len = 0 /\ pipe' = Append(pipe, r)
  BY SendPacketSends DEF Counted
<1>3. Ended' = Ended
  BY <1>2 DEF Ended, peerVars
<1>4. Counted'
  <2>1. ackedNxt' <= newton'.rcvNxt
    <3>1. ackedNxt' \in {ackedNxt, newton.rcvNxt} /\ newton'.rcvNxt = newton.rcvNxt
      BY <1>1, <1>2
    <3>2. ackedNxt <= newton.rcvNxt
      BY DEF Counted
    <3> QED BY <3>1, <3>2, NetNumbers
  <2> QED BY <1>1, <1>2, <1>3, <2>1 DEF Counted
<1>5. Fills(newton.conn, pipe', newton.rcvNxt, sentNxt, Ended)
  <2>1. CASE pipe' = pipe
    BY <2>1 DEF Filled
  <2>2. CASE \E r \in Packet : r.flag = "" /\ r.len = 0 /\ pipe' = Append(pipe, r)
    <3>1. PICK r \in Packet : r.flag = "" /\ r.len = 0 /\ pipe' = Append(pipe, r)
      BY <2>2
    <3>2. Fills(newton.conn, Append(pipe, r), newton.rcvNxt, sentNxt, Ended)
      BY <3>1, NetNumbers, NetShapes, FillsAppend DEF Filled
    <3> QED BY <3>1, <3>2
  <2> QED BY <1>2, <2>1, <2>2
<1> QED BY <1>1, <1>2, <1>3, <1>4, <1>5 DEF Filled

LEMMA TimerReceivesDelivers ==
  ASSUME NetTInv, Phases, connects = 1, ~reused', Counted, Filled, TimerReceives
  PROVE  Counted' /\ Filled'
<1>1. PICK n \in 1 .. peerSent - received :
        /\ n \in Nat \ {0} /\ received + n <= peerSent
        /\ Enqueue("", theirSeqNr, mySeqNr, received + 1, n)
        /\ received' = received + n /\ sentNxt' = theirSeqNr + n
  BY TimerReceivesBytes
<1>2. /\ state = "kStateConnected" /\ ~(ackedNxt < sentNxt)
      /\ UNCHANGED <<handlerVars, peerVars, newton, got, ackedNxt>>
  BY DEF TimerReceives
<1>3. /\ sentNxt = received + 1 /\ theirSeqNr = ackedNxt /\ ackedNxt <= newton.rcvNxt
      /\ newton.conn = "synSent" => newton.rcvNxt = 0 /\ sentNxt = 1
      /\ newton.conn # "synSent" =>
           newton.rcvNxt = Len(got) + (IF newton.finRcvd THEN 2 ELSE 1)
      /\ Len(got) <= received /\ got = Bytes(1, Len(got))
      /\ newton.finRcvd => received = peerSent
  BY <1>2 DEF Counted, Ended
<1>4. received # peerSent /\ ~newton.finRcvd /\ ~Ended
  <2>1. received # peerSent
    <3>1. n \in Nat \ {0} /\ received + n <= peerSent
      BY <1>1
    <3> QED BY <3>1, NetNumbers
  <2> QED BY <1>3, <2>1 DEF Ended
<1>5. /\ newton.conn # "synSent" /\ newton.rcvNxt = Len(got) + 1
      /\ theirSeqNr = received + 1 /\ newton.rcvNxt = received + 1
      /\ sentNxt = received + 1 /\ Len(got) = received
  <2>1. newton.conn # "synSent"
    BY <1>2, <1>3, NetNumbers
  <2>2. newton.rcvNxt = Len(got) + 1
    BY <1>3, <1>4, <2>1
  <2>3. theirSeqNr = ackedNxt /\ sentNxt = received + 1 /\ Len(got) <= received
        /\ ackedNxt <= newton.rcvNxt /\ ~(ackedNxt < sentNxt)
    BY <1>2, <1>3
  <2>4. theirSeqNr = received + 1 /\ newton.rcvNxt = received + 1 /\ Len(got) = received
    BY <2>2, <2>3, NetNumbers
  <2> QED BY <2>1, <2>2, <2>3, <2>4
<1>6. Counted'
  <2>1. sentNxt' = received' + 1 /\ Len(got) <= received'
    <3>1. n \in Nat /\ received' = received + n /\ sentNxt' = theirSeqNr + n
      BY <1>1
    <3>2. theirSeqNr = received + 1 /\ Len(got) = received
      BY <1>5
    <3> QED BY <3>1, <3>2, NetNumbers
  <2>2. newton' = newton /\ got' = got /\ theirSeqNr' = theirSeqNr /\ ackedNxt' = ackedNxt
    BY <1>2 DEF handlerVars
  <2> QED BY <1>3, <1>4, <1>5, <2>1, <2>2 DEF Counted
<1>7. Filled'
  <2> DEFINE next == newton.rcvNxt
             r == [flag |-> "", seq |-> theirSeqNr, ack |-> mySeqNr,
                   from |-> received + 1, len |-> n]
  <2>1. pipe' = Append(pipe, r)
    BY <1>1 DEF Enqueue, Queued
  <2>2. r \in Packet
    <3>1. mySeqNr \in Nat
      BY DEF NetTInv, NetTypeOK
    <3>2. received + 1 \in Nat /\ theirSeqNr \in Nat /\ n \in Nat
      <4>1. n \in Nat
        BY <1>1
      <4> QED BY <4>1, NetNumbers
    <3> QED BY <3>1, <3>2 DEF Packet
  <2>3. Data(r, next, n)
    BY <1>5 DEF Data
  <2>4. next \in Nat /\ sentNxt = next /\ sentNxt' = next + n /\ n \in Nat \ {0}
    BY <1>1, <1>5, NetNumbers
  <2>5. Fills(newton.conn, pipe, next, next, FALSE)
    <3>1. Fills(newton.conn, pipe, newton.rcvNxt, sentNxt, Ended)
      BY DEF Filled
    <3>2. Ended = FALSE
      BY <1>4, NetShapes
    <3>3. sentNxt = newton.rcvNxt
      BY <1>5
    <3> QED BY <3>1, <3>2, <3>3
  <2>6. pipe \in Seq(Packet) /\ Ended' \in BOOLEAN
    <3>1. Ended' \in BOOLEAN
      BY <1>2 DEF Ended, peerVars, NetTInv, NetTypeOK
    <3> QED BY <3>1, NetShapes
  <2> HIDE DEF r, next
  <2>7. Fills(newton.conn, Append(pipe, r), next, next + n, Ended')
    BY <1>5, <2>2, <2>3, <2>4, <2>5, <2>6, FillsBytes
  <2> QED BY <1>2, <2>1, <2>4, <2>7 DEF Filled, next
<1> QED BY <1>6, <1>7

LEMMA TimerSeesEndDelivers ==
  ASSUME NetTInv, Phases, connects = 1, Counted, Filled, TimerSeesEnd
  PROVE  Counted' /\ Filled'
<1>1. /\ Ended /\ Enqueue("FIN", theirSeqNr, mySeqNr, 0, 0)
      /\ state' = "kStatePeerDiscWaitForACK"
      /\ UNCHANGED <<peerVars, received, newton, got, history>>
  BY DEF TimerSeesEnd, Ended
<1>2. Ended' = Ended
  BY <1>1 DEF Ended, peerVars
<1>3. Counted'
  BY <1>1, <1>2 DEF Counted, history
<1> DEFINE r == [flag |-> "FIN", seq |-> theirSeqNr, ack |-> mySeqNr, from |-> 0, len |-> 0]
<1>4. pipe' = Append(pipe, r)
  BY <1>1 DEF Enqueue, Queued
<1>5. r \in Packet
  BY DEF Packet, NetTInv, NetTypeOK
<1>6. r.flag # "SYN" /\ r.len = 0
  OBVIOUS
<1> HIDE DEF r
<1>7. Fills(newton.conn, Append(pipe, r), newton.rcvNxt, sentNxt, Ended)
  BY <1>1, <1>5, <1>6, NetNumbers, NetShapes, FillsAppend DEF Filled
<1>8. Filled'
  BY <1>1, <1>2, <1>4, <1>7 DEF Filled, history
<1> QED BY <1>3, <1>8

LEMMA PeerDelivers ==
  ASSUME Counted, Filled, PeerSends \/ PeerCloses
  PROVE  Counted' /\ Filled'
<1>1. /\ UNCHANGED <<handlerVars, pipe, received, newton, got, history>>
      /\ Ended => Ended'
  BY DEF PeerSends, PeerCloses, Ended
<1>2. Counted'
  BY <1>1 DEF Counted, handlerVars, history
<1>3. Fills(newton.conn, pipe, newton.rcvNxt, sentNxt, Ended')
  BY <1>1, FillsEnded DEF Filled
<1> QED BY <1>1, <1>2, <1>3 DEF Filled, history

\* What a packet of the pipe gives an open connection: all that was missing; or
\* the FIN; or nothing, and it carries nothing that is missing.
LEMMA TakesAll ==
  ASSUME NEW p \in Packet, NEW next \in Nat, NEW last \in Nat, NEW new \in Nat,
         Fits(p, next, last), p.flag # "SYN",
         new > 0 => new = p.len - (next - p.seq),
         new > 0 <=> p.flag # "SYN" /\ p.seq <= next /\ next < p.seq + p.len
  PROVE  /\ new > 0 => /\ p.flag # "FIN" /\ p.from = next /\ p.seq = next
                       /\ next + new = last
         /\ new = 0 /\ Carries(p, next, last) => next = last
<1>1. p.seq \in Nat /\ p.len \in Nat /\ Size(p) = p.len
  BY PacketNumbers, SizeOf
<1> DEFINE a == p.seq
           l == p.len
<1>2. new > 0 <=> a <= next /\ next < a + l
  OBVIOUS
<1>3. new > 0 => new = l - (next - a)
  OBVIOUS
<1>4. a \in Nat /\ l \in Nat
  BY <1>1
<1>5. l > 0 => a + l <= next \/ (a = next /\ a + l = last)
  BY <1>1 DEF Fits, Carries
<1>6. Carries(p, next, last) => a = next /\ a + l = last
  BY <1>1 DEF Carries
<1>7. /\ p.flag # "" => l = 0
      /\ l > 0 => p.from = a
  BY DEF Fits
<1> HIDE DEF a, l
<1>8. new > 0 => l > 0 /\ a = next /\ next + new = last
  BY ONLY <1>2, <1>3, <1>4, <1>5, next \in Nat, last \in Nat, new \in Nat
<1>9. new = 0 /\ Carries(p, next, last) => next = last
  BY ONLY <1>2, <1>4, <1>6, next \in Nat, last \in Nat, new \in Nat
<1>10. new > 0 => l # 0
  BY <1>8, <1>4
<1> QED BY <1>7, <1>8, <1>9, <1>10 DEF a

LEMMA ReceivesDelivers ==
  ASSUME NetTInv, Phases, connects = 1, Counted, Filled, Receives
  PROVE  Counted' /\ Filled'
<1> DEFINE p == Head(pipe)
           next == newton.rcvNxt
           last == sentNxt
           len == Len(got)
<1>1. /\ pipe # <<>> /\ pipe' = Tail(pipe) /\ p \in Packet /\ Receiving(p)
      /\ UNCHANGED <<handlerVars, peerVars, received, connects, history>>
  BY ReceivesPacket
<1>2. /\ Ended' = Ended /\ received' = received /\ state' = state /\ sentNxt' = sentNxt
      /\ theirSeqNr' = theirSeqNr /\ ackedNxt' = ackedNxt
  BY <1>1 DEF Ended, handlerVars, peerVars, history
<1>3. p = pipe[1] /\ 1 \in 1 .. Len(pipe)
  BY <1>1, NetShapes
<1>4. /\ Fits(p, next, last)
      /\ newton.conn = "synSent" => p.flag = "SYN" /\ p.seq = 0 /\ p.ack = 1
      /\ p.flag = "SYN" => newton.conn = "synSent"
      /\ p.flag = "FIN" => Ended /\ ~(next < last)
  <2>1. p.flag = "FIN" => Ended /\ (next < last => \E j \in 1 .. 1 - 1 :
                                        Carries(pipe[j], next, last))
    BY <1>3 DEF Filled, Fills
  <2>2. \A j : j \notin 1 .. 1 - 1
    OBVIOUS
  <2> QED BY <1>3, <2>1, <2>2 DEF Filled, Fills
<1>5. /\ last = received + 1 /\ ackedNxt <= next
      /\ newton.conn = "synSent" => next = 0 /\ ~newton.finRcvd /\ got = <<>> /\ last = 1
      /\ newton.conn # "synSent" => next = len + (IF newton.finRcvd THEN 2 ELSE 1)
      /\ len <= received /\ got = Bytes(1, len)
      /\ newton.finRcvd => Ended /\ len = received
      /\ state = "kStateConnected" => theirSeqNr = ackedNxt
  BY DEF Counted
<1>6. /\ next \in Nat /\ last \in Nat /\ len \in Nat /\ received \in Nat
      /\ ackedNxt \in Nat
  BY NetNumbers
\* A conclusion for the pipe.
<1>7. ASSUME newton'.conn # "synSent", newton'.rcvNxt \in Nat, next <= newton'.rcvNxt,
             \/ newton'.rcvNxt >= last
             \/ newton'.rcvNxt = next /\ ~Carries(p, next, last)
      PROVE  Filled'
  <2> DEFINE next2 == newton'.rcvNxt
             conn2 == newton'.conn
             conn == newton.conn
  <2>1. Fills(conn, pipe, next, last, Ended)
    BY DEF Filled
  <2>2. next2 >= last \/ (next2 = next /\ ~Carries(pipe[1], next, last))
    BY <1>3, <1>7
  <2>3. pipe \in Seq(Packet) /\ pipe # <<>>
    BY <1>1, NetShapes
  <2>4. next2 \in Nat /\ next <= next2 /\ conn2 # "synSent"
    BY <1>7
  <2> HIDE DEF next, last, next2, conn2, conn, p
  <2>5. Fills(conn2, Tail(pipe), next2, last, Ended)
    BY <1>6, <2>1, <2>2, <2>3, <2>4, FillsTail
  <2> QED BY <1>1, <1>2, <2>5 DEF Filled, next2, conn2, last
<1>8. CASE newton.conn = "synSent"
  <2>1. newton.sndNxt = 1
    BY <1>8 DEF Phases
  <2>2. /\ newton'.conn = "open" /\ newton'.rcvNxt = 0 + 1
        /\ newton'.finRcvd = newton.finRcvd /\ got' = got
    BY <1>1, <1>4, <1>8, <2>1 DEF Receiving
  <2>3. next = 0 /\ last = 1 /\ ~newton.finRcvd /\ got = <<>> /\ len = 0
    BY <1>5, <1>8
  <2>4. newton'.rcvNxt = 1
    BY <2>2
  <2>5. Filled'
    <3>1. next <= newton'.rcvNxt /\ newton'.rcvNxt >= last /\ newton'.rcvNxt \in Nat
      BY <2>3, <2>4
    <3> QED BY <1>7, <2>2, <3>1
  <2>6. Counted'
    <3>1. ackedNxt' <= newton'.rcvNxt /\ newton'.rcvNxt = Len(got') + 1
      <4>1. ackedNxt' = ackedNxt /\ ackedNxt <= 0 /\ Len(got') = 0
        BY <1>2, <1>5, <2>2, <2>3
      <4> QED BY <1>6, <2>4, <4>1
    <3> QED BY <1>2, <1>5, <2>2, <2>3, <3>1 DEF Counted
  <2> QED BY <2>5, <2>6
<1>9. CASE newton.conn = "open"
  <2>1. PICK new, fin : Taking(p, new, fin)
    BY <1>1, <1>9 DEF Receiving
  <2>2. /\ new \in Nat /\ fin \in BOOLEAN
        /\ new > 0 => new = p.len - (next - p.seq)
        /\ new > 0 <=> p.flag # "SYN" /\ p.seq <= next /\ next < p.seq + p.len
        /\ fin <=> p.flag = "FIN" /\ ~newton.finRcvd /\ p.seq + p.len = next + new
        /\ got' = got \o Bytes(p.from + (next - p.seq), new)
        /\ newton'.rcvNxt = next + new + (IF fin THEN 1 ELSE 0)
        /\ newton'.finRcvd = (newton.finRcvd \/ fin)
        /\ newton'.conn # "synSent"
    BY <2>1 DEF Taking
  <2>3. p.flag # "SYN" /\ newton.conn # "synSent"
    BY <1>4, <1>9
  <2>4. /\ new > 0 => /\ p.flag # "FIN" /\ p.from = next /\ p.seq = next
                      /\ next + new = last
        /\ new = 0 /\ Carries(p, next, last) => next = last
    <3> HIDE DEF p, next, last
    <3> QED BY <1>1, <1>4, <1>6, <2>2, <2>3, TakesAll
  <2>5. next = len + (IF newton.finRcvd THEN 2 ELSE 1)
    BY <1>5, <2>3
  <2>6. CASE new > 0
    <3>1. ~fin /\ p.from = next /\ p.seq = next /\ next + new = last
      BY <2>2, <2>4, <2>6
    <3>2. newton'.rcvNxt = next + new /\ newton'.finRcvd = newton.finRcvd
      <4>1. newton'.rcvNxt = next + new + 0
        BY <2>2, <3>1
      <4>2. newton'.finRcvd = newton.finRcvd
        BY <2>2, <3>1 DEF NetTInv, Newton
      <4> QED BY <1>6, <2>2, <4>1, <4>2
    <3>3. ~newton.finRcvd
      <4> SUFFICES ASSUME newton.finRcvd PROVE FALSE
        OBVIOUS
      <4>1. next = len + 2 /\ len = received /\ last = received + 1 /\ next + new = last
        BY <1>5, <2>5, <3>1
      <4>2. new \in Nat
        BY <2>2
      <4> HIDE DEF next, last, len
      <4> QED BY <1>6, <4>1, <4>2
    <3>4. next = len + 1
      BY <2>5, <3>3
    <3>5. p.from + (next - p.seq) = len + 1
      <4> DEFINE from == p.from
                 seq == p.seq
      <4>1. from = next /\ seq = next
        BY <3>1
      <4> HIDE DEF from, seq, next, len
      <4>2. from + (next - seq) = len + 1
        BY <1>6, <3>4, <4>1
      <4> QED BY <4>2 DEF from, seq
    <3>6. got' = Bytes(1, len + new) /\ Len(got') = len + new
      <4>1. got' = Bytes(1, len) \o Bytes(len + 1, new)
        BY <1>5, <2>2, <3>5
      <4>2. new \in Nat /\ len + new \in Nat
        BY <1>6, <2>2
      <4> HIDE DEF len
      <4>3. got' = Bytes(1, len + new)
        BY <1>6, <4>1, <4>2, BytesFollow
      <4>4. Len(Bytes(1, len + new)) = len + new
        BY <4>2, BytesFollow
      <4> QED BY <4>3, <4>4
    <3>7. /\ len + new = received /\ newton'.rcvNxt = len + new + 1
          /\ ackedNxt <= newton'.rcvNxt /\ newton'.rcvNxt = last
          /\ next <= newton'.rcvNxt /\ newton'.rcvNxt \in Nat
      <4>1. next + new = last /\ last = received + 1 /\ newton'.rcvNxt = next + new
            /\ ackedNxt <= next
        BY <1>5, <3>1, <3>2
      <4>2. new \in Nat
        BY <2>2
      <4> HIDE DEF next, last, len
      <4> QED BY <1>6, <3>4, <4>1, <4>2
    <3>8. Filled'
      <4>1. newton'.rcvNxt >= last
        BY <1>6, <3>7
      <4> QED BY <1>7, <2>2, <3>7, <4>1
    <3>9. Counted'
      <4>1. ~newton'.finRcvd /\ newton'.conn # "synSent"
        BY <2>2, <3>2, <3>3
      <4>2. Len(got') <= received /\ newton'.rcvNxt = Len(got') + 1
            /\ got' = Bytes(1, Len(got'))
        BY <1>6, <3>6, <3>7
      <4>3. ackedNxt <= newton'.rcvNxt
        BY <3>7
      <4> QED BY <1>2, <1>5, <4>1, <4>2, <4>3 DEF Counted
    <3> QED BY <3>8, <3>9
  <2>7. CASE new = 0
    <3>1. got' = got
      <4>1. Bytes(p.from + (next - p.seq), 0) = <<>>
        BY DEF Bytes
      <4>2. got' = got \o <<>>
        BY <2>2, <2>7, <4>1
      <4> QED BY <4>2, NetShapes, ConcatEmptySeq
    <3>2. newton'.rcvNxt = next + (IF fin THEN 1 ELSE 0)
      <4>1. newton'.rcvNxt = next + new + (IF fin THEN 1 ELSE 0)
        BY <2>2
      <4> HIDE DEF next
      <4> QED BY <1>6, <2>7, <4>1
    <3>3. CASE fin
      <4>1. p.flag = "FIN" /\ ~newton.finRcvd
        BY <2>2, <3>3
      <4>2. Ended /\ ~(next < last) /\ next = len + 1
        BY <1>4, <2>5, <4>1
      <4>3. newton'.rcvNxt = next + 1
        BY <3>2, <3>3
      <4>4. /\ len = received /\ newton'.rcvNxt = len + 2 /\ newton'.rcvNxt >= last
            /\ ackedNxt <= newton'.rcvNxt /\ next <= newton'.rcvNxt
            /\ newton'.rcvNxt \in Nat
        <5>1. last = received + 1 /\ ackedNxt <= next /\ len <= received
          BY <1>5
        <5>2. ~(next < last) /\ next = len + 1
          BY <4>2
        <5> HIDE DEF next, last, len
        <5> QED BY <1>6, <4>3, <5>1, <5>2
      <4>5. Filled'
        BY <1>7, <2>2, <4>4
      <4>6. newton'.finRcvd
        BY <2>2, <3>3
      <4>7. Counted'
        BY <1>2, <1>5, <2>2, <3>1, <4>2, <4>4, <4>6 DEF Counted
      <4> QED BY <4>5, <4>7
    <3>4. CASE ~fin
      <4>1. newton'.rcvNxt = next
        <5>1. newton'.rcvNxt = next + 0
          BY <3>2, <3>4
        <5> HIDE DEF next
        <5> QED BY <1>6, <5>1
      <4>2. newton'.finRcvd = newton.finRcvd
        BY <2>2, <3>4 DEF NetTInv, Newton
      <4>3. newton'.rcvNxt >= last \/ ~Carries(p, next, last)
        <5>1. Carries(p, next, last) => next = last
          BY <2>4, <2>7
        <5> HIDE DEF p, next, last
        <5> QED BY <1>6, <4>1, <5>1
      <4>4. Filled'
        BY <1>6, <1>7, <2>2, <4>1, <4>3
      <4>5. Counted'
        BY <1>2, <1>5, <2>2, <2>5, <3>1, <4>1, <4>2 DEF Counted
      <4> QED BY <4>4, <4>5
    <3> QED BY <2>2, <3>3, <3>4
  <2> QED BY <2>2, <2>6, <2>7
<1>10. CASE newton.conn = "done"
  <2>1. newton' = newton /\ got' = got
    BY <1>1, <1>10 DEF Receiving
  <2>2. newton.finRcvd
    BY <1>10 DEF Phases
  <2>3. next = len + 2 /\ len = received /\ last = received + 1
    BY <1>5, <1>10, <2>2
  <2>4. newton'.rcvNxt >= last /\ next <= newton'.rcvNxt /\ newton'.rcvNxt \in Nat
    BY <1>6, <2>1, <2>3
  <2>5. Filled'
    BY <1>7, <1>10, <2>1, <2>4
  <2>6. Counted'
    BY <1>2, <1>5, <2>1 DEF Counted
  <2> QED BY <2>5, <2>6
<1>11. newton.conn \in {"synSent", "open", "done"}
  <2>1. newton.conn # "closed"
    BY DEF Phases
  <2> QED BY <2>1 DEF NetTInv, Newton
<1> QED BY <1>8, <1>9, <1>10, <1>11

LEMMA SendPacketReused ==
  ASSUME NEW p \in Packet, SendPacket(p)
  PROVE  reused' = reused
BY DEF SendPacket, Connect, TakeAck, Write, TakeFinAck, Reopen, RemovePacketHandler, history

LEMMA DeliveryInit == NetInit => Delivery
BY DEF NetInit, Delivery

LEMMA DeliveryStep == NetTInv /\ Phases /\ Delivery /\ [NetNext]_netVars => Delivery'
<1> SUFFICES ASSUME NetTInv, Phases, Delivery, [NetNext]_netVars,
                    connects' = 1, ~reused'
             PROVE  Counted' /\ Filled'
  BY DEF Delivery
<1>1. CASE NewtonSends
  <2>1. PICK p \in Packet : SendPacket(p) /\ Sending(p)
    BY <1>1, SendsPacket
  <2>2. /\ connects' = connects \/ connects' = connects + 1
        /\ state \in {"none", "kStateDisconnected"} => Connect(p)
    BY <2>1, SendPacketPhases
  <2>3. CASE connects = 1
    <3>1. reused' = reused
      BY <2>1, SendPacketReused
    <3> QED BY <2>1, <2>3, <3>1, SendDelivers DEF Delivery
  <2>4. CASE connects # 1
    <3>1. connects = 0 /\ connects' = connects + 1
      BY <2>2, <2>4, NetNumbers
    <3>2. Fresh
      BY <3>1 DEF Phases
    <3>3. Connect(p)
      BY <2>2, <3>2 DEF Fresh
    <3> QED BY <2>1, <3>1, <3>2, <3>3, ConnectDelivers
  <2> QED BY <2>3, <2>4
<1>2. CASE TimerReceives
  <2>1. connects = 1 /\ ~reused
    BY <1>2 DEF TimerReceives
  <2> QED BY <1>2, <2>1, TimerReceivesDelivers DEF Delivery
<1>3. CASE TimerSeesEnd
  <2>1. connects = 1 /\ ~reused
    BY <1>3 DEF TimerSeesEnd, history
  <2> QED BY <1>3, <2>1, TimerSeesEndDelivers DEF Delivery
<1>4. CASE PeerSends \/ PeerCloses
  <2>1. connects = 1 /\ ~reused
    BY <1>4 DEF PeerSends, PeerCloses, history
  <2> QED BY <1>4, <2>1, PeerDelivers DEF Delivery
<1>5. CASE Receives
  <2>1. connects = 1 /\ ~reused
    BY <1>5 DEF Receives, history
  <2> QED BY <1>5, <2>1, ReceivesDelivers DEF Delivery
<1>6. CASE UNCHANGED netVars
  <2>1. /\ connects = 1 /\ ~reused /\ newton' = newton /\ pipe' = pipe
        /\ sentNxt' = sentNxt /\ Ended' = Ended
    BY <1>6 DEF netVars, handlerVars, peerVars, history, Ended
  <2>2. Counted /\ Filled
    BY <2>1 DEF Delivery
  <2>3. Counted'
    BY <1>6, <2>2 DEF Counted, netVars, handlerVars, peerVars, history, Ended
  <2> QED BY <2>1, <2>2, <2>3 DEF Filled
<1> QED BY <1>1, <1>2, <1>3, <1>4, <1>5, <1>6 DEF NetNext, NewtonSends

-----------------------------------------------------------------------------

LEMMA NetInvariantHolds == NetSpec => []NetInv
<1>1. NetInit => NetInv
  BY NetTypesInit, PhasesInit, DeliveryInit, AcknowledgementInit DEF NetInv
<1>2. NetInv /\ [NetNext]_netVars => NetInv'
  BY NetTypesStep, PhasesStep, DeliveryStep, AcknowledgementStep DEF NetInv
<1> QED BY <1>1, <1>2, PTL DEF NetSpec

\* For every number of bytes, packets and sockets: as long as every segment was
\* acknowledged, by a packet without data, when the timer read the next one,
\* NewtonOS has received the peer's bytes in order, none missing.
THEOREM AckedSegmentsAlwaysArrive == NetSpec => []AckedSegmentsArrive
<1>1. NetInv => AckedSegmentsArrive
  BY DEF NetInv, Delivery, Counted, AckedSegmentsArrive, IsPrefix
<1> QED BY <1>1, NetInvariantHolds, PTL

\* When the handler has forgotten the connection, the FIN of NewtonOS is
\* acknowledged or the acknowledgement is in the pipe, unless data came for the
\* ACK of a FIN.
THEOREM FinAlwaysAcknowledged == NetSpec => []FinIsAcknowledged
<1>1. NetInv => FinIsAcknowledged
  BY DEF NetInv, Acknowledgement, FinIsAcknowledged
<1> QED BY <1>1, NetInvariantHolds, PTL

\* The handler forgets the connection when NewtonOS has sent its FIN and all of
\* the peer's stream was read, and not before.
THEOREM AlwaysClosedByBoth == NetSpec => ClosedByBoth
<1> DEFINE Both == state # "none" /\ state' = "none" =>
                     newton'.finSent /\ peerClosed /\ received = peerSent
<1>1. NetInv /\ [NetNext]_netVars => [Both]_netVars
  <2> SUFFICES ASSUME NetInv, NetNext, state # "none", state' = "none"
               PROVE  newton'.finSent /\ peerClosed /\ received = peerSent
    OBVIOUS
  <2>1. NewtonSends
    BY DEF NetNext, NewtonSends, TimerReceives, TimerSeesEnd, PeerSends, PeerCloses,
      Receives, handlerVars
  <2>2. PICK p \in Packet : SendPacket(p) /\ Sending(p)
    BY <2>1, SendsPacket DEF NetInv
  <2>3. RemovePacketHandler(p)
    BY <2>2 DEF SendPacket, Connect, TakeAck, Write, TakeFinAck, Reopen
  <2>4. p.flag = "FIN" /\ state = "kStatePeerDiscWaitForFIN"
    BY <2>3 DEF RemovePacketHandler, EndsWith
  <2>5. newton'.finSent
    BY <2>2, <2>4 DEF Sending
  <2> QED BY <2>4, <2>5 DEF NetInv, Phases
<1> QED BY <1>1, NetInvariantHolds, PTL DEF NetSpec, ClosedByBoth
=============================================================================
