---------------------------- MODULE MctpReassembler ----------------------------
(***************************************************************************)
(* libs/mctp of mini-openbmc-platform-service: fragmentMessage() of        *)
(* mctp_packet.cpp and the Reassembler, joined by a stream that may lose   *)
(* or delay packets but keeps their order.                                 *)
(*                                                                         *)
(* The sender is one UdsMctpClient: its messages get successive 3-bit tags *)
(* (nextTag_), their fragments a 2-bit sequence.                           *)
(***************************************************************************)
EXTENDS Reassembler

CONSTANTS
  Messages,  \* how many messages are sent
  Size,      \* the payload size of each, in bytes
  MaxLoss    \* packets the stream may lose in a row

ASSUME MessagesAssumption == Messages \in Nat
ASSUME SizeAssumption == Size \in [1..Messages -> Nat]
ASSUME MaxLossAssumption == MaxLoss \in Nat

Mtu == 64

-----------------------------------------------------------------------------
(* fragmentMessage().                                                       *)

AtMost(bound, n) == IF n < bound THEN n ELSE bound

PacketCount(size) == IF size = 0 THEN 1 ELSE (size + Mtu - 1) \div Mtu

\* The bytes [from, to) of message m that its fragment k carries.
Piece(m, k) ==
  [of |-> m, from |-> AtMost(Size[m], k * Mtu), to |-> AtMost(Size[m], k * Mtu + Mtu)]

Fragment(m, k) ==
  [som |-> k = 0, eom |-> k + 1 = PacketCount(Size[m]), sequence |-> k % 4,
   tag |-> (m - 1) % 8, payload |-> Piece(m, k)]

\* The first n fragments of message m put together.
Prefix(m, n) == [i \in 1..n |-> Piece(m, i - 1)]

\* What a receiver should be handed for message m.
Whole(m) == Prefix(m, PacketCount(Size[m]))

-----------------------------------------------------------------------------
VARIABLES
  current,    \* the message being sent, 0 before the first
  next,       \* the fragment of the current message that is sent next
  lost,       \* how many packets were lost since the last one that arrived
  assembly,   \* the receiver's Reassembler
  delivered,  \* the last message it completed
  intact      \* history: no packet of the current message was lost or timed out

vars == <<current, next, lost, assembly, delivered, intact>>

Init ==
  /\ current = 0
  /\ next = 0
  /\ lost = 0
  /\ assembly = Empty
  /\ delivered = <<>>
  /\ intact = TRUE

AllSent == next = IF current = 0 THEN 0 ELSE PacketCount(Size[current])

SendMessage ==
  /\ AllSent
  /\ current < Messages
  /\ current' = current + 1
  /\ next' = 0
  /\ intact' = TRUE
  /\ UNCHANGED <<lost, assembly, delivered>>

Lose ==
  /\ ~AllSent
  /\ lost < MaxLoss
  /\ lost' = lost + 1
  /\ next' = next + 1
  /\ intact' = FALSE
  /\ UNCHANGED <<current, assembly, delivered>>

Arrive ==
  /\ ~AllSent
  /\ \E late \in BOOLEAN :
       LET result == AddPacket(assembly, Fragment(current, next), late)
       IN  /\ assembly' = result.rx
           /\ delivered' = IF result.message = <<>> THEN delivered ELSE result.message
           /\ intact' = (intact /\ ~TimedOut(assembly, late))
  /\ lost' = 0
  /\ next' = next + 1
  /\ UNCHANGED current

\* Every message was sent.
Finished == AllSent /\ current = Messages /\ UNCHANGED vars

Next == SendMessage \/ Lose \/ Arrive \/ Finished

Spec == Init /\ [][Next]_vars

-----------------------------------------------------------------------------
(* Properties                                                               *)

Pieces == [of : Nat, from : Nat, to : Nat]

TypeOK ==
  /\ current \in 0..Messages
  /\ next \in Nat
  /\ lost \in 0..MaxLoss
  /\ assembly \in [active : BOOLEAN, expected : 0..3, tag : 0..7, payload : Seq(Pieces)]
  /\ delivered \in Seq(Pieces)
  /\ intact \in BOOLEAN

\* Whatever is lost or late, a message that is handed on is one that was sent,
\* with all its bytes in order: two tags that are eight messages apart and two
\* sequence numbers that are four fragments apart are never taken for each
\* other while MaxLoss is below four (lines 27 to 39).
OnlyWhatWasSent ==
  delivered # <<>> =>
    \E m \in 1..current : delivered = Whole(m)

\* A message whose packets all arrive in time is handed on, whatever was left of
\* earlier ones: an abandoned assembly never costs more than the packet that
\* reveals its timeout (lines 9 to 22).
IntactIsDelivered ==
  intact /\ current > 0 /\ AllSent => delivered = Whole(current)
=============================================================================
