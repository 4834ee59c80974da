--------------------------- MODULE UsermodeNetwork ---------------------------
(***************************************************************************)
(* TUsermodeNetwork and its TCPPacketHandler: one TCP connection that       *)
(* NewtonOS opens to a peer.  Its packets are handled in the native call    *)
(* that sends them; the answers wait in a pipe until NewtonOS reads them;   *)
(* the timer of the driver polls the socket.  Every call comes from the     *)
(* emulator thread: what varies is their order.                             *)
(*                                                                          *)
(* External: the TCP of NewtonOS, which acknowledges what it has received   *)
(* in order, with a packet of its own or with its data, and repeats its SYN *)
(* and FIN; the socket, which may fail to connect; the peer.  The k-th byte *)
(* of the peer is k; what NewtonOS sends is only counted.                   *)
(***************************************************************************)
EXTENDS Integers, Sequences

CONSTANTS
  MaxBytes,      \* bound: bytes in each direction
  MaxPipe,       \* bound: packets in the pipe
  MaxConnects    \* bound: sockets that are connected

ASSUME BoundsAssumption == {MaxBytes, MaxPipe, MaxConnects} \subseteq Nat

VARIABLES
  state, mySeqNr, theirSeqNr,       \* the handler; "none" when there is none
  pipe,                             \* mLastPacket, ..., mFirstPacket
  peerSent, received, peerClosed,   \* the socket: bytes, end of the stream
  connects,                         \* sockets that were connected
  newton,                           \* the TCP of NewtonOS
  got,                              \* the bytes it received
  \* History: the end of the last segment the handler sent; the last number a
  \* packet without data acknowledged; that a segment was read from the socket
  \* between the two; that data came for the ACK of a FIN.
  sentNxt, ackedNxt, reused, dropped

handlerVars == <<state, mySeqNr, theirSeqNr>>
peerVars    == <<peerSent, peerClosed>>
history     == <<sentNxt, ackedNxt, reused, dropped>>
netVars == <<handlerVars, pipe, peerVars, received, connects, newton, got,
             history>>

HandlerStates == {"none", "kStateDisconnected", "kStateConnected",
                  "kStatePeerDiscWaitForACK", "kStatePeerDiscWaitForFIN"}

\* A packet of either side: bytes `from', ..., `from + len - 1' of a stream.
Packet == [flag : {"", "SYN", "FIN"}, seq : Nat, ack : Nat, from : Nat, len : Nat]

NetInit ==
  /\ state = "none" /\ mySeqNr = 0 /\ theirSeqNr = 0
  /\ pipe = <<>>
  /\ peerSent = 0 /\ received = 0 /\ peerClosed = FALSE
  /\ connects = 0
  /\ newton = [conn |-> "closed", sndNxt |-> 0, sndUna |-> 0, rcvNxt |-> 0,
               finSent |-> FALSE, finRcvd |-> FALSE, ackDue |-> FALSE]
  /\ got = <<>>
  /\ sentNxt = 0 /\ ackedNxt = 0 /\ reused = FALSE /\ dropped = FALSE

Bytes(from, n) == [i \in 1 .. n |-> from + i - 1]

\* The packets are read from mLastPacket.
Queued(packet) == Append(pipe, packet)

\* NewPacket, then Enqueue.
Enqueue(flag, seq, ack, from, len) ==
  /\ Len(pipe) < MaxPipe
  /\ pipe' = Queued([flag |-> flag, seq |-> seq, ack |-> ack, from |-> from,
                      len |-> len])

-----------------------------------------------------------------------------
\* TCPPacketHandler::send(p), after canHandle if there is no handler.

\* connect() fails, and the handler stays; or it succeeds, with the peer at the
\* start of both streams.
Connect(p) ==
  LET seq == IF state = "none" THEN p.seq ELSE mySeqNr
      ack == IF state = "none" THEN p.ack ELSE theirSeqNr
  IN  /\ state \in {"none", "kStateDisconnected"}
      /\ theirSeqNr' = ack
      /\ \/ /\ state' = "kStateDisconnected" /\ mySeqNr' = seq
            /\ UNCHANGED <<pipe, peerVars, received, connects, sentNxt>>
         \/ /\ connects < MaxConnects /\ connects' = connects + 1
            /\ state' = "kStateConnected" /\ mySeqNr' = seq + 1
            /\ Enqueue("SYN", ack, seq + 1, 0, 0)
            /\ peerSent' = 0 /\ peerClosed' = FALSE /\ received' = 0
            /\ sentNxt' = ack + 1
      /\ UNCHANGED <<ackedNxt, reused, dropped>>

\* Mutant: the acknowledgement is not noted.
Acknowledged_Stale(p) == theirSeqNr

Acknowledged(p) == p.ack

TakeAck(p) ==
  /\ state = "kStateConnected" /\ p.len = 0
  /\ theirSeqNr' = Acknowledged(p)
  /\ ackedNxt' = p.ack
  /\ UNCHANGED <<state, mySeqNr, pipe, peerVars, received, connects,
                 sentNxt, reused, dropped>>

\* write's result is not looked at: what the socket did not take is lost.  Nor
\* is p.ack.
Write(p) ==
  /\ state = "kStateConnected" /\ p.len > 0
  /\ mySeqNr' = mySeqNr + p.len
  /\ Enqueue("", theirSeqNr, mySeqNr + p.len, 0, 0)
  /\ UNCHANGED <<state, theirSeqNr, peerVars, received, connects, sentNxt, ackedNxt,
                 reused, dropped>>

\* Any packet counts as the ACK of the FIN, one with data as well.
TakeFinAck(p) ==
  /\ state = "kStatePeerDiscWaitForACK"
  /\ theirSeqNr' = p.ack
  /\ state' = "kStatePeerDiscWaitForFIN"
  /\ dropped' = (dropped \/ p.len > 0)
  /\ UNCHANGED <<mySeqNr, pipe, peerVars, received, connects, sentNxt,
                 ackedNxt, reused>>

\* Mutant: whatever follows the ACK closes the connection.
EndsWith_Any(p) == TRUE

EndsWith(p) == p.flag = "FIN"

\* A packet without FIN reopens the socket, which is connected still.
Reopen(p) ==
  /\ state = "kStatePeerDiscWaitForFIN" /\ ~EndsWith(p)
  /\ theirSeqNr' = p.ack
  /\ state' = "kStateConnected"
  /\ dropped' = (dropped \/ p.len > 0)
  /\ ackedNxt' = p.ack
  /\ UNCHANGED <<mySeqNr, pipe, peerVars, received, connects, sentNxt,
                 reused>>

\* Mutant: the FIN is not counted.
LastAck_NoFin == mySeqNr

LastAck == mySeqNr + 1

RemovePacketHandler(p) ==
  /\ state = "kStatePeerDiscWaitForFIN" /\ EndsWith(p)
  /\ theirSeqNr' = p.ack
  /\ Enqueue("", p.ack, LastAck, 0, 0)
  /\ state' = "none"
  /\ UNCHANGED <<mySeqNr, peerVars, received, connects, history>>

SendPacket(p) ==
  \/ Connect(p) \/ TakeAck(p) \/ Write(p)
  \/ TakeFinAck(p) \/ Reopen(p) \/ RemovePacketHandler(p)

-----------------------------------------------------------------------------
\* TCPPacketHandler::timer: recv returns data, or the end of the stream, or
\* nothing.  theirSeqNr stays until NewtonOS has acknowledged the data.

TimerReceives ==
  /\ state = "kStateConnected"
  /\ \E n \in 1 .. peerSent - received :
       /\ Enqueue("", theirSeqNr, mySeqNr, received + 1, n)
       /\ received' = received + n
       /\ sentNxt' = theirSeqNr + n
  /\ reused' = (reused \/ ackedNxt < sentNxt)
  /\ UNCHANGED <<handlerVars, peerVars, connects, newton, got, ackedNxt,
                 dropped>>

TimerSeesEnd ==
  /\ state = "kStateConnected"
  /\ peerClosed /\ received = peerSent
  /\ Enqueue("FIN", theirSeqNr, mySeqNr, 0, 0)
  /\ state' = "kStatePeerDiscWaitForACK"
  /\ UNCHANGED <<mySeqNr, theirSeqNr, peerVars, received, connects,
                 newton, got, history>>

-----------------------------------------------------------------------------
\* The peer.

PeerSends ==
  /\ connects > 0 /\ ~peerClosed /\ peerSent < MaxBytes
  /\ peerSent' = peerSent + 1
  /\ UNCHANGED <<handlerVars, pipe, peerClosed, received, connects,
                 newton, got, history>>

PeerCloses ==
  /\ connects > 0 /\ ~peerClosed
  /\ peerClosed' = TRUE
  /\ UNCHANGED <<handlerVars, pipe, peerSent, received, connects, newton,
                 got, history>>

-----------------------------------------------------------------------------
\* NewtonOS.

Sends(flag, seq, from, len) ==
  /\ SendPacket([flag |-> flag, seq |-> seq, ack |-> newton.rcvNxt,
                 from |-> from, len |-> len])
  /\ UNCHANGED got

Opens ==
  /\ newton.conn \in {"closed", "synSent"}
  /\ Sends("SYN", 0, 0, 0)
  /\ newton' = [newton EXCEPT !.conn = "synSent", !.sndNxt = 1]

Acks ==
  /\ newton.conn = "open" /\ newton.ackDue
  /\ Sends("", newton.sndNxt, 0, 0)
  /\ newton' = [newton EXCEPT !.ackDue = FALSE]

SendsData(n) ==
  /\ newton.conn = "open" /\ ~newton.finSent /\ newton.sndNxt + n <= MaxBytes + 1
  /\ Sends("", newton.sndNxt, newton.sndNxt, n)
  /\ newton' = [newton EXCEPT !.sndNxt = @ + n, !.ackDue = FALSE]

\* Its FIN comes without data.  The handler would not count data that come with it.
Closes ==
  /\ newton.conn = "open" /\ ~newton.finSent
  /\ Sends("FIN", newton.sndNxt, 0, 0)
  /\ newton' = [newton EXCEPT !.sndNxt = @ + 1, !.finSent = TRUE, !.ackDue = FALSE]

RepeatsFin ==
  /\ newton.conn = "open" /\ newton.finSent /\ newton.sndUna < newton.sndNxt
  /\ Sends("FIN", newton.sndNxt - 1, 0, 0)
  /\ UNCHANGED newton

\* ReceiveData, then what TCP does with the packet: it takes the bytes it has
\* not received, and the FIN if nothing is missing before it.
Receives ==
  LET p     == Head(pipe)
      known == newton.rcvNxt - p.seq
      new   == IF p.flag = "SYN" \/ known < 0 \/ p.len < known THEN 0 ELSE p.len - known
      next  == newton.rcvNxt + new
      fin   == p.flag = "FIN" /\ ~newton.finRcvd /\ p.seq + p.len = next
      una   == IF p.ack \in newton.sndUna .. newton.sndNxt THEN p.ack ELSE newton.sndUna
      done  == una = newton.sndNxt /\ newton.finSent /\ (newton.finRcvd \/ fin)
  IN  /\ pipe # <<>>
      /\ pipe' = Tail(pipe)
      /\ CASE newton.conn = "synSent" /\ p.flag = "SYN" /\ p.ack = newton.sndNxt ->
                /\ newton' = [newton EXCEPT !.conn = "open", !.sndUna = p.ack,
                                            !.rcvNxt = p.seq + 1, !.ackDue = TRUE]
                /\ UNCHANGED got
           [] newton.conn = "open" ->
                /\ newton' = [newton EXCEPT
                     !.conn = IF done THEN "done" ELSE "open",
                     !.sndUna = una,
                     !.rcvNxt = IF fin THEN next + 1 ELSE next,
                     !.finRcvd = @ \/ fin,
                     !.ackDue = @ \/ p.len > 0 \/ p.flag # ""]
                /\ got' = got \o Bytes(p.from + known, new)
           [] OTHER -> UNCHANGED <<newton, got>>
      /\ UNCHANGED <<handlerVars, peerVars, received, connects, history>>

NetNext ==
  \/ TimerReceives \/ TimerSeesEnd
  \/ PeerSends \/ PeerCloses
  \/ Opens \/ Acks \/ (\E n \in 1 .. MaxBytes : SendsData(n)) \/ Closes
  \/ RepeatsFin \/ Receives

NetSpec == NetInit /\ [][NetNext]_netVars

-----------------------------------------------------------------------------
\* Properties.

NetTypeOK ==
  /\ state \in HandlerStates /\ mySeqNr \in Nat /\ theirSeqNr \in Nat
  /\ pipe \in Seq(Packet)
  /\ peerSent \in 0 .. MaxBytes /\ received \in 0 .. peerSent
  /\ peerClosed \in BOOLEAN /\ connects \in 0 .. MaxConnects

IsPrefix(s, n) == Len(s) <= n /\ s = Bytes(1, Len(s))

\* "we only emulate a perfectly working connection" (the comment of
\* TCPPacketHandler): NewtonOS receives the peer's bytes in order, none missing,
\* as long as every segment was acknowledged, by a packet without data, when
\* the next one was read from the socket.
AckedSegmentsArrive == connects = 1 /\ ~reused => IsPrefix(got, received)

\* Once the handler is gone nobody answers NewtonOS any more: its FIN, and all
\* before it, is acknowledged or the acknowledgement is in the pipe, unless its
\* data came for the ACK of a FIN.
FinIsAcknowledged ==
  connects = 1 /\ state = "none" /\ ~dropped =>
    \/ newton.sndUna = newton.sndNxt
    \/ \E i \in DOMAIN pipe : pipe[i].ack = newton.sndNxt

\* The handler forgets the connection only when both sides have closed it and
\* all the peer sent was read from the socket.
ClosedByBoth ==
  [][state # "none" /\ state' = "none" =>
       newton'.finSent /\ peerClosed /\ received = peerSent]_netVars
=============================================================================
