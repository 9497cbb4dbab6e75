------------------------------ MODULE Reassembler ------------------------------
(***************************************************************************)
(* The class Reassembler of libs/mctp in mini-openbmc-platform-service as  *)
(* functions of its state.  A packet is a record with the fields som, eom, *)
(* sequence, tag and payload; addPacket() compares tagOwner and            *)
(* messageType as it does the tag, which stands for all three.             *)
(***************************************************************************)
EXTENDS Integers, Sequences

\* After the constructor and after reset().
Empty == [active |-> FALSE, expected |-> 0, tag |-> 0, payload |-> <<>>]

\* Mutation of Begin: the fragments collected so far are kept.
BeginKeeps(rx, packet) ==
  IF packet.som
  THEN [active |-> TRUE, expected |-> packet.sequence, tag |-> packet.tag,
        payload |-> rx.payload]
  ELSE rx

\* A start of message discards whatever was being assembled.
Begin(rx, packet) ==
  IF packet.som
  THEN [active |-> TRUE, expected |-> packet.sequence, tag |-> packet.tag,
        payload |-> <<>>]
  ELSE rx

TimedOut(rx, late) == rx.active /\ late

\* Mutation of Fits: the tag is not compared.
FitsAnyTag(rx, packet) == rx.active /\ packet.sequence = rx.expected

Fits(rx, packet) ==
  rx.active /\ packet.tag = rx.tag /\ packet.sequence = rx.expected

Extend(rx, packet) ==
  [active |-> TRUE, expected |-> (rx.expected + 1) % 4, tag |-> rx.tag,
   payload |-> Append(rx.payload, packet.payload)]

\* addPacket(): the state it leaves, and the message it completes, if any.
\* late says that the timeout has passed since the last packet was taken.
AddPacket(rx, packet, late) ==
  LET begun == Begin(rx, packet)
      taken == Extend(begun, packet)
  IN  IF TimedOut(rx, late) \/ ~Fits(begun, packet)
      THEN [rx |-> Empty, message |-> <<>>]
      ELSE IF packet.eom THEN [rx |-> Empty, message |-> taken.payload]
      ELSE [rx |-> taken, message |-> <<>>]

=============================================================================
