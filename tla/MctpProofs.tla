------------------------------ MODULE MctpProofs ------------------------------
(***************************************************************************)
(* Theorems about MctpReassembler: what the receiver may be handed, for    *)
(* any number of messages of any size.                                     *)
(***************************************************************************)
EXTENDS MctpReassembler, SequenceTheorems, TLAPS

\* Every message has at least one fragment.
LEMMA PacketCountType ==
  ASSUME NEW size \in Nat
  PROVE  PacketCount(size) \in Nat /\ PacketCount(size) >= 1
BY DEF PacketCount, Mtu

\* Fragments carry byte ranges.
LEMMA PieceType ==
  ASSUME NEW m \in 1..Messages, NEW k \in Nat
  PROVE  Piece(m, k) \in Pieces
BY SizeAssumption, MessagesAssumption DEF Piece, Pieces, AtMost, Mtu

\* Putting fragments together gives a sequence of that many.
LEMMA PrefixType ==
  ASSUME NEW m \in 1..Messages, NEW n \in Nat
  PROVE  Prefix(m, n) \in Seq(Pieces) /\ Len(Prefix(m, n)) = n
<1>1. \A i \in 1..n : Piece(m, i - 1) \in Pieces
  <2> TAKE i \in 1..n
  <2>1. i - 1 \in Nat
    OBVIOUS
  <2> QED
    BY <2>1, PieceType
<1> QED
  BY <1>1 DEF Prefix

\* The next fragment extends a prefix by one.
LEMMA PrefixExtended ==
  ASSUME NEW m \in 1..Messages, NEW n \in Nat
  PROVE  Append(Prefix(m, n), Piece(m, n)) = Prefix(m, n + 1)
<1> DEFINE left  == Append(Prefix(m, n), Piece(m, n))
           right == Prefix(m, n + 1)
<1>1. left \in Seq(Pieces) /\ Len(left) = n + 1
  BY PrefixType, PieceType
<1>2. right \in Seq(Pieces) /\ Len(right) = n + 1
  BY PrefixType
<1>3. \A i \in 1..(n + 1) : left[i] = right[i]
  <2> TAKE i \in 1..(n + 1)
  <2>1. right[i] = Piece(m, i - 1)
    BY DEF Prefix
  <2>2. CASE i = n + 1
    BY <2>1, <2>2, PrefixType, PieceType
  <2>3. CASE i # n + 1
    <3>1. i \in 1..n
      BY <2>3
    <3>2. left[i] = Prefix(m, n)[i]
      BY <3>1, PrefixType, PieceType
    <3> QED
      BY <2>1, <3>1, <3>2 DEF Prefix
  <2> QED
    BY <2>2, <2>3
<1> QED
  BY <1>1, <1>2, <1>3, SeqEqual

-----------------------------------------------------------------------------
(* The invariant.                                                           *)

\* Where the sender stands.
Sender ==
  /\ current = 0 => next = 0
  /\ current > 0 => next <= PacketCount(Size[current])

\* The receiver holds the first n fragments of message m and waits for the next.
Holds(m, n) ==
  /\ assembly.active
  /\ assembly.expected = n % 4
  /\ assembly.tag = (m - 1) % 8
  /\ assembly.payload = Prefix(m, n)
  /\ n < PacketCount(Size[m])

\* At least lost packets lie between the last fragment held and the next sent.
Behind(m, n) ==
  IF m = current THEN next = n + lost ELSE lost >= (current - m) + next

Assembling ==
  \/ assembly = Empty
  \/ \E m \in 1..current, n \in Nat \ {0} : Holds(m, n) /\ Behind(m, n)

\* The receiver has kept up with a message of which nothing was lost.
KeptUp ==
  intact /\ current > 0 /\ next > 0 =>
    IF next = PacketCount(Size[current])
    THEN delivered = Whole(current)
    ELSE Holds(current, next)

StreamInv == TypeOK /\ Sender /\ Assembling /\ KeptUp /\ OnlyWhatWasSent

-----------------------------------------------------------------------------
(* One packet.                                                              *)

Packets ==
  [som : BOOLEAN, eom : BOOLEAN, sequence : 0..3, tag : 0..7, payload : Pieces]

Assemblies ==
  [active : BOOLEAN, expected : 0..3, tag : 0..7, payload : Seq(Pieces)]

\* addPacket() drops the assembly, completes a message or takes the packet.
LEMMA AddPacketOutcomes ==
  ASSUME NEW rx \in Assemblies, NEW packet \in Packets, NEW late \in BOOLEAN
  PROVE  LET begun  == Begin(rx, packet)
             result == AddPacket(rx, packet, late)
             accept == ~TimedOut(rx, late) /\ Fits(begun, packet)
         IN  \/ ~accept /\ result = [rx |-> Empty, message |-> <<>>]
             \/ /\ accept /\ packet.eom
                /\ result = [rx |-> Empty, message |-> Append(begun.payload, packet.payload)]
             \/ /\ accept /\ ~packet.eom
                /\ result = [rx |-> [active |-> TRUE, expected |-> (begun.expected + 1) % 4,
                                     tag |-> begun.tag,
                                     payload |-> Append(begun.payload, packet.payload)],
                             message |-> <<>>]
<1> DEFINE begun == Begin(rx, packet)
<1>1. CASE TimedOut(rx, late) \/ ~Fits(begun, packet)
  BY <1>1 DEF AddPacket
<1>2. CASE ~TimedOut(rx, late) /\ Fits(begun, packet)
  <2>1. Extend(begun, packet) =
          [active |-> TRUE, expected |-> (begun.expected + 1) % 4, tag |-> begun.tag,
           payload |-> Append(begun.payload, packet.payload)]
    BY DEF Extend
  <2>2. Extend(begun, packet).payload = Append(begun.payload, packet.payload)
    BY <2>1
  <2>3. packet.eom \in BOOLEAN
    BY DEF Packets
  <2> QED
    BY <1>2, <2>1, <2>2, <2>3 DEF AddPacket
<1> QED
  BY <1>1, <1>2

\* Between two messages the sender has a current one with a fragment left.
LEMMA Sending ==
  ASSUME StreamInv, ~AllSent
  PROVE  current \in 1..Messages /\ next \in Nat /\ next < PacketCount(Size[current])
<1>1. current \in 1..Messages
  BY MessagesAssumption DEF StreamInv, TypeOK, Sender, AllSent
<1>2. PacketCount(Size[current]) \in Nat
  BY <1>1, SizeAssumption, PacketCountType
<1> QED
  BY <1>1, <1>2 DEF StreamInv, TypeOK, Sender, AllSent

\* What the sender sends next is a packet.
LEMMA FragmentType ==
  ASSUME StreamInv, ~AllSent
  PROVE  Fragment(current, next) \in Packets
<1>1. Piece(current, next) \in Pieces
  BY Sending, PieceType
<1>2. (current - 1) % 8 \in 0..7 /\ next % 4 \in 0..3
  BY Sending, MessagesAssumption
<1> QED
  BY <1>1, <1>2 DEF Fragment, Packets

\* The heart of the matter: a packet that fits is the very next of the message
\* being assembled.
LEMMA FitsMeansNext ==
  ASSUME StreamInv, ~AllSent, MaxLoss < 4,
         Fits(Begin(assembly, Fragment(current, next)), Fragment(current, next))
  PROVE  LET begun == Begin(assembly, Fragment(current, next))
         IN  /\ begun.payload = Prefix(current, next)
             /\ begun.expected = next % 4
             /\ begun.tag = (current - 1) % 8
<1> DEFINE packet == Fragment(current, next)
<1>0. current \in 1..Messages /\ next \in Nat /\ current \in Nat
  BY Sending, MessagesAssumption
<1>1. CASE next = 0
  <2>1. Prefix(current, 0) = <<>>
    BY <1>0, PrefixType
  <2> QED
    BY <1>0, <1>1, <2>1 DEF Begin, Fragment
<1>2. CASE next # 0
  <2>1. Begin(assembly, packet) = assembly
    BY <1>2 DEF Begin, Fragment
  <2>2. assembly.active /\ assembly.tag = (current - 1) % 8 /\ assembly.expected = next % 4
    BY <2>1 DEF Fits, Fragment
  <2>3. PICK m \in 1..current, n \in Nat \ {0} : Holds(m, n) /\ Behind(m, n)
    BY <2>2 DEF StreamInv, Assembling, Empty
  <2>4. lost \in 0..3
    BY MaxLossAssumption DEF StreamInv, TypeOK
  <2>5. (m - 1) % 8 = (current - 1) % 8 /\ n % 4 = next % 4
    BY <2>2, <2>3 DEF Holds
  <2>6. m = current
    <3> SUFFICES ASSUME m # current PROVE FALSE
      OBVIOUS
    <3>1. lost >= (current - m) + next
      BY <2>3 DEF Behind
    <3>2. current - m \in 1..3
      BY <1>0, <2>4, <3>1
    <3> QED
      BY <1>0, <2>5, <3>2
  <2>7. next = n + lost
    BY <2>3, <2>6 DEF Behind
  <2>8. n = next
    BY <1>0, <2>4, <2>5, <2>7
  <2> QED
    BY <2>1, <2>2, <2>3, <2>6, <2>8 DEF Holds
<1> QED
  BY <1>1, <1>2

\* As long as nothing was lost the next packet fits.
LEMMA IntactFits ==
  ASSUME StreamInv, ~AllSent, intact
  PROVE  Fits(Begin(assembly, Fragment(current, next)), Fragment(current, next))
<1>1. CASE next = 0
  BY <1>1 DEF Begin, Fragment, Fits
<1>2. CASE next # 0
  <2>1. Holds(current, next)
    BY <1>2, Sending DEF StreamInv, KeptUp
  <2> QED
    BY <1>2, <2>1 DEF Begin, Fragment, Fits, Holds
<1> QED
  BY <1>1, <1>2

-----------------------------------------------------------------------------
(* The steps.                                                               *)

LEMMA InitStream ==
  ASSUME Init
  PROVE  StreamInv
BY MessagesAssumption, MaxLossAssumption
   DEF Init, StreamInv, TypeOK, Sender, Assembling, KeptUp, OnlyWhatWasSent, Empty

\* A new message leaves whatever was being assembled behind it.
LEMMA SendMessageStream ==
  ASSUME StreamInv, SendMessage
  PROVE  StreamInv'
<1>0. /\ current \in 0..Messages /\ current' = current + 1 /\ current' \in 1..Messages
      /\ next \in Nat /\ next' = 0 /\ lost \in Nat
      /\ UNCHANGED <<lost, assembly, delivered>>
  BY MessagesAssumption, MaxLossAssumption DEF StreamInv, TypeOK, SendMessage
<1>1. TypeOK'
  BY <1>0 DEF StreamInv, TypeOK, SendMessage
<1>2. Sender'
  <2>1. PacketCount(Size[current']) \in Nat
    BY <1>0, SizeAssumption, PacketCountType
  <2> QED
    BY <1>0, <2>1 DEF Sender
<1>3. Assembling'
  <2> SUFFICES ASSUME NEW m \in 1..current, NEW n \in Nat \ {0},
                      Holds(m, n), Behind(m, n)
               PROVE  Assembling'
    BY <1>0 DEF StreamInv, Assembling
  <2>1. m \in 1..current' /\ m # current' /\ current \in 1..Messages
    BY <1>0, MessagesAssumption
  <2>2. PacketCount(Size[current]) \in Nat /\ PacketCount(Size[current]) >= 1
    BY <2>1, SizeAssumption, PacketCountType
  <2>3. next = PacketCount(Size[current])
    BY <2>1 DEF SendMessage, AllSent
  <2>4. lost >= current + 1 - m
    <3>1. CASE m = current
      BY <1>0, <2>2, <2>3, <3>1 DEF Holds, Behind
    <3>2. CASE m # current
      BY <1>0, <2>2, <2>3, <3>2 DEF Behind
    <3> QED
      BY <3>1, <3>2
  <2>5. Behind(m, n)'
    BY <1>0, <2>1, <2>4 DEF Behind
  <2>6. Holds(m, n)'
    BY <1>0 DEF Holds
  <2> QED
    BY <2>1, <2>5, <2>6 DEF Assembling
<1>4. KeptUp'
  BY <1>0 DEF KeptUp
<1>5. OnlyWhatWasSent'
  BY <1>0 DEF StreamInv, OnlyWhatWasSent
<1> QED
  BY <1>1, <1>2, <1>3, <1>4, <1>5 DEF StreamInv

\* A lost packet leaves the receiver one further behind.
LEMMA LoseStream ==
  ASSUME StreamInv, Lose
  PROVE  StreamInv'
<1>0. /\ current \in 1..Messages /\ next \in Nat /\ lost \in Nat
      /\ next < PacketCount(Size[current])
      /\ next' = next + 1 /\ lost' = lost + 1
      /\ UNCHANGED <<current, assembly, delivered>>
  BY Sending, MaxLossAssumption DEF StreamInv, TypeOK, Lose
<1>1. TypeOK'
  <2>1. lost' \in 0..MaxLoss
    BY <1>0, MaxLossAssumption DEF Lose
  <2>2. next' \in Nat
    BY <1>0
  <2>3. intact' = FALSE
    BY DEF Lose
  <2> QED
    BY <1>0, <2>1, <2>2, <2>3 DEF StreamInv, TypeOK
<1>2. Sender'
  <2>1. PacketCount(Size[current]) \in Nat
    BY <1>0, SizeAssumption, PacketCountType
  <2> QED
    BY <1>0, <2>1, MessagesAssumption DEF Sender
<1>3. Assembling'
  <2> SUFFICES ASSUME NEW m \in 1..current, NEW n \in Nat \ {0},
                      Holds(m, n), Behind(m, n)
               PROVE  Assembling'
    BY <1>0 DEF StreamInv, Assembling
  <2>1. Behind(m, n)'
    BY <1>0, MessagesAssumption DEF Behind
  <2>2. Holds(m, n)'
    BY <1>0 DEF Holds
  <2> QED
    BY <1>0, <2>1, <2>2 DEF Assembling
<1>4. KeptUp'
  BY DEF KeptUp, Lose
<1>5. OnlyWhatWasSent'
  BY <1>0 DEF StreamInv, OnlyWhatWasSent
<1> QED
  BY <1>1, <1>2, <1>3, <1>4, <1>5 DEF StreamInv

\* A packet that arrives is taken only where it belongs.
LEMMA ArriveStream ==
  ASSUME StreamInv, Arrive, MaxLoss < 4
  PROVE  StreamInv'
<1> DEFINE packet == Fragment(current, next)
           begun  == Begin(assembly, packet)
           count  == PacketCount(Size[current])
<1>0. /\ current \in 1..Messages /\ next \in Nat /\ count \in Nat
      /\ next < count
      /\ next' = next + 1 /\ lost' = 0 /\ current' = current /\ ~AllSent
  BY Sending, SizeAssumption, PacketCountType DEF Arrive
<1>1. PICK late \in BOOLEAN :
        LET result == AddPacket(assembly, packet, late)
        IN  /\ assembly' = result.rx
            /\ delivered' = IF result.message = <<>> THEN delivered ELSE result.message
            /\ intact' = (intact /\ ~TimedOut(assembly, late))
  BY DEF Arrive
<1>a. PICK c \in 1..Messages, k \in Nat : c = current /\ k = next + 1
  BY <1>0
<1> DEFINE accept == ~TimedOut(assembly, late) /\ Fits(begun, packet)
           longer == Prefix(current, next + 1)
<1>2. assembly \in Assemblies /\ packet \in Packets
  BY <1>0, FragmentType DEF StreamInv, TypeOK, Assemblies
<1>3. longer \in Seq(Pieces) /\ longer # <<>>
  <2>1. next + 1 \in Nat /\ next + 1 # 0
    BY <1>0
  <2>2. longer \in Seq(Pieces) /\ Len(longer) = next + 1
    BY <1>0, <2>1, PrefixType
  <2> QED
    BY <2>1, <2>2
<1>4. accept => Append(begun.payload, packet.payload) = longer
  <2> SUFFICES ASSUME accept PROVE Append(begun.payload, packet.payload) = longer
    OBVIOUS
  <2>1. begun.payload = Prefix(current, next)
    BY <1>0, FitsMeansNext
  <2>2. packet.payload = Piece(current, next)
    BY DEF Fragment
  <2> QED
    BY <1>0, <2>1, <2>2, PrefixExtended
<1>5. packet.eom = (next + 1 = count)
  BY DEF Fragment
<1>6. \/ /\ ~accept /\ assembly' = Empty /\ delivered' = delivered
      \/ /\ accept /\ next + 1 = count
         /\ assembly' = Empty /\ delivered' = longer
      \/ /\ accept /\ next + 1 # count
         /\ assembly' = [active |-> TRUE, expected |-> (begun.expected + 1) % 4,
                         tag |-> begun.tag, payload |-> longer]
         /\ delivered' = delivered
  <2> DEFINE result == AddPacket(assembly, packet, late)
             taken  == [active |-> TRUE, expected |-> (begun.expected + 1) % 4,
                        tag |-> begun.tag, payload |-> longer]
  <2>1. \/ ~accept /\ result = [rx |-> Empty, message |-> <<>>]
        \/ accept /\ packet.eom /\ result = [rx |-> Empty, message |-> longer]
        \/ accept /\ ~packet.eom /\ result = [rx |-> taken, message |-> <<>>]
    BY <1>2, <1>4, AddPacketOutcomes
  <2>2. assembly' = result.rx
        /\ delivered' = IF result.message = <<>> THEN delivered ELSE result.message
    BY <1>1
  <2> HIDE DEF accept, longer, taken, result
  <2>3. CASE ~accept /\ result = [rx |-> Empty, message |-> <<>>]
    BY <2>2, <2>3
  <2>4. CASE accept /\ packet.eom /\ result = [rx |-> Empty, message |-> longer]
    BY <1>3, <1>5, <2>2, <2>4
  <2>5. CASE accept /\ ~packet.eom /\ result = [rx |-> taken, message |-> <<>>]
    BY <1>5, <2>2, <2>5 DEF taken
  <2> QED
    BY <2>1, <2>3, <2>4, <2>5
<1>7. intact' => accept
  BY <1>0, <1>1, IntactFits
<1>8. accept => begun.expected = next % 4 /\ begun.tag = (current - 1) % 8
  BY <1>0, FitsMeansNext
<1>9. TypeOK'
  <2>1. assembly' \in Assemblies /\ delivered' \in Seq(Pieces)
    <3>1. Empty \in Assemblies
      BY DEF Empty, Assemblies
    <3>2. ((next % 4) + 1) % 4 \in 0..3 /\ (current - 1) % 8 \in 0..7
      BY <1>0, MessagesAssumption
    <3>3. delivered \in Seq(Pieces)
      BY DEF StreamInv, TypeOK
    <3>4. CASE accept /\ next + 1 # count
      <4>1. [active |-> TRUE, expected |-> ((next % 4) + 1) % 4, tag |-> (current - 1) % 8,
             payload |-> longer] \in Assemblies
        BY <1>3, <3>2 DEF Assemblies
      <4> QED
        BY <1>6, <1>8, <3>3, <3>4, <4>1
    <3>5. CASE ~(accept /\ next + 1 # count)
      BY <1>3, <1>6, <3>1, <3>3, <3>5
    <3> QED
      BY <3>4, <3>5
  <2>2. intact' \in BOOLEAN
    BY <1>1 DEF StreamInv, TypeOK
  <2> QED
    BY <1>0, <2>1, <2>2, MessagesAssumption, MaxLossAssumption DEF TypeOK, Assemblies
<1>10. Sender'
  BY <1>0, MessagesAssumption DEF Sender
<1>11. accept /\ k # count => Holds(c, k)'
  <2> SUFFICES ASSUME accept, k # count PROVE Holds(c, k)'
    OBVIOUS
  <2>1. ((next % 4) + 1) % 4 = (next + 1) % 4
    BY <1>0
  <2>2. assembly' = [active |-> TRUE, expected |-> k % 4, tag |-> (c - 1) % 8,
                     payload |-> Prefix(c, k)]
    BY <1>6, <1>8, <1>a, <2>1
  <2>3. k < PacketCount(Size[c])
    BY <1>0, <1>a
  <2> QED
    BY <2>2, <2>3 DEF Holds
<1>12. Assembling'
  <2>1. CASE accept /\ k # count
    <3>1. Behind(c, k)'
      BY <1>0, <1>a DEF Behind
    <3>2. c \in 1..current' /\ k \in Nat \ {0}
      BY <1>0, <1>a
    <3> QED
      BY <1>11, <2>1, <3>1, <3>2 DEF Assembling
  <2>2. CASE ~(accept /\ k # count)
    BY <1>6, <1>a, <2>2 DEF Assembling
  <2> QED
    BY <2>1, <2>2
<1>13. KeptUp'
  <2> SUFFICES ASSUME intact'
               PROVE  IF k = count THEN delivered' = Whole(c) ELSE Holds(c, k)'
    BY <1>0, <1>a DEF KeptUp, Holds
  <2>1. CASE k = count
    BY <1>6, <1>7, <1>a, <2>1 DEF Whole
  <2>2. CASE k # count
    BY <1>7, <1>11, <2>2
  <2> QED
    BY <2>1, <2>2
<1>14. OnlyWhatWasSent'
  <2>1. CASE delivered' = delivered
    BY <1>0, <2>1 DEF StreamInv, OnlyWhatWasSent
  <2>2. CASE delivered' = longer /\ next + 1 = count
    <3>1. current' \in 1..current' /\ delivered' = Whole(current')
      BY <1>0, <2>2 DEF Whole
    <3> QED
      BY <3>1 DEF OnlyWhatWasSent, Whole
  <2> QED
    BY <1>6, <2>1, <2>2
<1> QED
  BY <1>9, <1>10, <1>12, <1>13, <1>14 DEF StreamInv

LEMMA StreamInvariant ==
  ASSUME MaxLoss < 4
  PROVE  Spec => []StreamInv
<1>1. StreamInv /\ [Next]_vars => StreamInv'
  <2> SUFFICES ASSUME StreamInv, [Next]_vars PROVE StreamInv'
    OBVIOUS
  <2>1. CASE SendMessage
    BY <2>1, SendMessageStream
  <2>2. CASE Lose
    BY <2>2, LoseStream
  <2>3. CASE Arrive
    BY <2>3, ArriveStream
  <2>4. CASE UNCHANGED vars
    BY <2>4 DEF vars, StreamInv, TypeOK, Sender, Assembling, Holds, Behind, KeptUp,
                OnlyWhatWasSent
  <2> QED
    BY <2>1, <2>2, <2>3, <2>4 DEF Next, Finished
<1> QED
  BY <1>1, InitStream, PTL DEF Spec

-----------------------------------------------------------------------------
\* Losing at most three packets in a row, the receiver is only ever handed a
\* message that was sent, whole: the two bits of sequence number and the three of
\* tag that addPacket() compares are enough (lines 26 to 36).
THEOREM OnlySentIsDelivered ==
  ASSUME MaxLoss < 4
  PROVE  Spec => [](TypeOK /\ OnlyWhatWasSent)
<1>1. StreamInv => TypeOK /\ OnlyWhatWasSent
  BY DEF StreamInv
<1> QED
  BY <1>1, StreamInvariant, PTL

\* A message none of whose packets is lost or late is handed on, whatever an
\* earlier, abandoned assembly left in the receiver (lines 10 to 21).
THEOREM IntactDelivered ==
  ASSUME MaxLoss < 4
  PROVE  Spec => []IntactIsDelivered
<1>1. StreamInv => IntactIsDelivered
  <2> SUFFICES ASSUME StreamInv, intact, current > 0, AllSent
               PROVE  delivered = Whole(current)
    BY DEF IntactIsDelivered
  <2>1. current \in 1..Messages /\ next = PacketCount(Size[current])
    BY MessagesAssumption DEF StreamInv, TypeOK, AllSent
  <2>2. next > 0
    <3>1. Size[current] \in Nat
      BY <2>1, SizeAssumption
    <3> QED
      BY <2>1, <3>1, PacketCountType
  <2> QED
    BY <2>1, <2>2 DEF StreamInv, KeptUp
<1> QED
  BY <1>1, StreamInvariant, PTL
=============================================================================
