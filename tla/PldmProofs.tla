------------------------------ MODULE PldmProofs ------------------------------
(***************************************************************************)
(* Theorems about PldmExchange, for every choice of commands and faults    *)
(* and every length of the accept queue: what a thread of the sensor       *)
(* service takes for the answer to its request, and what a confirmed       *)
(* setFault says about the endpoint agent.                                 *)
(***************************************************************************)
EXTENDS PldmExchange, SequenceTheorems, TLAPS

-----------------------------------------------------------------------------
(* The values of the variables.                                             *)

Connections == [request : AllRequests, client : Callers \cup {Nobody}]

Behaviors == (TransportFaults \ {"malformed_response"}) \cup {"none"}

Agents == [up : BOOLEAN, transport : TransportFaults \cup {""}, behavior : Behaviors,
           fault : [Eids -> Faults \cup {"", "none"}]]

Places == {"idle", "locking", "connecting", "receiving"}

\* The threads and the agent.
Typing ==
  /\ call \in [Callers -> [at : Places, request : AllRequests \cup {NoRequest},
                           answer : Seq(Pieces)]]
  /\ \A t \in Callers :
       /\ call[t].request \in Requests(t) \cup {NoRequest}
       /\ call[t].at # "idle" => call[t].request \in Requests(t)
  /\ queue \in Seq(Connections)
  /\ serving \in Seq(Connections)
  /\ hungUp \in BOOLEAN
  /\ agent \in Agents

-----------------------------------------------------------------------------
(* The exchange.                                                            *)

\* Packet i of a response, as it should be.
Packet(response, i) ==
  [som |-> i = 1, eom |-> i = PartsOf(response), sequence |-> i - 1, tag |-> 0,
   payload |-> [of |-> response, part |-> i]]

\* Its second packet with the sequence number of a third.
Skewed(response) == [Packet(response, 2) EXCEPT !.sequence = 2]

\* The Reassembler with the first of two packets.
Half(response) ==
  [active |-> TRUE, expected |-> 1, tag |-> 0, payload |-> <<[of |-> response, part |-> 1]>>]

\* What is left of a response on its way to the client.
InFlight(response) ==
  \/ /\ rx = Empty
     /\ ~response.padded
     /\ inbox = PacketsOf(response)
  \/ /\ rx = Half(response)
     /\ ~response.padded
     /\ PartsOf(response) = 2
     /\ inbox = <<Packet(response, 2)>>
  \/ /\ rx = Empty
     /\ response.padded
     /\ \/ inbox = <<Packet(response, 2), Packet(response, 1)>>
        \/ inbox = <<Packet(response, 1), Skewed(response)>>
        \/ inbox = <<Packet(response, 1)>>
  \/ /\ rx = Half(response)
     /\ response.padded
     /\ inbox = <<Skewed(response)>> \/ inbox = <<>>

\* The agent is as the fault f left it, unless it is gone or was started anew.
InForce(f) == ~agent.up \/ agent = FreshAgent \/ Shows(agent, f)

\* One thread at a time holds mctpMutex_.
OneExchange == \A t, u \in Callers : InExchange(t) /\ InExchange(u) => t = u

NothingArrives == inbox = <<>> /\ rx = Empty

\* A connection that its client still holds is the last of the queue, carries the
\* request of a thread that waits for the answer, and nothing was sent over it.
LiveIsLast ==
  \A i \in DOMAIN queue :
    LET t == queue[i].client
    IN  t # Nobody => /\ i = Len(queue)
                      /\ call[t].at = "receiving"
                      /\ queue[i].request = call[t].request
                      /\ NothingArrives

\* What arrives answers the request of the thread that waits; every connection was
\* served before, and the fault it sets, if it says so, is in force.
Arriving ==
  \/ NothingArrives
  \/ /\ queue = <<>>
     /\ \E t \in Callers, response \in Responses :
          /\ call[t].at = "receiving"
          /\ response.request = call[t].request
          /\ InFlight(response)
          /\ response.request.command = "setFault" /\ response.completion = "success"
               => InForce(response.request.fault)

PldmInv ==
  /\ Typing
  /\ OneExchange
  /\ LiveIsLast
  /\ Arriving
  /\ AnswersAreGenuine
  /\ ConfirmedFaultHolds

-----------------------------------------------------------------------------
(* Requests, faults and responses.                                          *)

\* A request asks, or sets a fault.
LEMMA RequestKinds ==
  ASSUME NEW r \in AllRequests
  PROVE  r \in Inquiries \/ \E f \in Faults \cup {"none"} : r = SetFault(f)
BY DEF AllRequests, Requests

\* Only the thread that serves D-Bus sets faults.
LEMMA PollAsks ==
  ASSUME NEW r \in Requests("poll")
  PROVE  r.command # "setFault"
BY CommandsAssumption DEF Requests, Inquiries

\* The fields of a request, and of none.
LEMMA RequestFields ==
  ASSUME NEW r \in AllRequests
  PROVE  /\ r # NoRequest
         /\ r.eid \in Eids
         /\ r.command = "setFault" => r.fault \in Faults \cup {"none"} /\ r = SetFault(r.fault)
<1>1. CASE r \in Inquiries
  <2>1. r.command \in Commands /\ r.eid \in Eids
    BY <1>1 DEF Inquiries
  <2>2. r.command # "" /\ r.command # "setFault"
    BY <2>1, CommandsAssumption
  <2>3. NoRequest.command = ""
    BY DEF NoRequest
  <2> QED
    BY <2>1, <2>2, <2>3
<1>2. ASSUME NEW f \in Faults \cup {"none"}, r = SetFault(f)
      PROVE  /\ r # NoRequest
             /\ r.eid \in Eids
             /\ r.command = "setFault"
                  => r.fault \in Faults \cup {"none"} /\ r = SetFault(r.fault)
  BY <1>2 DEF SetFault, NoRequest, Eids
<1> QED
  BY <1>1, <1>2, RequestKinds

\* The handler leaves an agent whose faults are among those that are set.
LEMMA InstallType ==
  ASSUME NEW a \in Agents, NEW f \in Faults \cup {"none"}
  PROVE  /\ Install(a, f) \in Agents
         /\ Install(a, f).up = a.up
         /\ Shows(Install(a, f), f)
<1>1. CASE f \in TransportFaults
  <2>1. Install(a, f) = [a EXCEPT !.transport = f, !.behavior = Behavior(f)]
    BY <1>1 DEF Install
  <2>2. Behavior(f) \in Behaviors
    BY <1>1 DEF Behavior, Behaviors
  <2> QED
    BY <1>1, <2>1, <2>2 DEF Agents, Shows
<1>2. CASE f \notin TransportFaults
  <2>1. Install(a, f) = [a EXCEPT !.transport = "", !.behavior = "none",
                                  !.fault = [e \in Eids |-> f]]
    BY <1>2 DEF Install
  <2> QED
    BY <1>2, <2>1 DEF Agents, Shows, Behaviors
<1> QED
  BY <1>1, <1>2

\* A responder answers with a completion code, and refuses setFault only under one of
\* two faults.
LEMMA CompletionType ==
  ASSUME NEW f, NEW r
  PROVE  Completion(f, r) \in {"success", "invalidCommand", "error", "unavailable"}
BY DEF Completion

\* handle(): an inquiry leaves the agent alone, a setFault that succeeds leaves it in
\* the state that was asked for.
LEMMA HandleFacts ==
  ASSUME NEW a \in Agents, NEW r \in AllRequests
  PROVE  LET h == Handle(a, r)
         IN  /\ h.agent \in Agents
             /\ h.response \in Responses
             /\ h.response.request = r /\ h.response.padded = FALSE
             /\ r.command # "setFault" => h.agent = a
             /\ r.command = "setFault" /\ h.response.completion = "success"
                  => Shows(h.agent, r.fault)
<1> DEFINE control   == r.command = "setFault"
           installed == IF control THEN Install(a, r.fault) ELSE a
           code      == Completion(installed.fault[r.eid], r)
           response(c) == [request |-> r, completion |-> c, padded |-> FALSE]
           h == Handle(a, r)
<1>1. \A c \in {"success", "invalidCommand", "error", "unavailable", "garbage"} :
         /\ response(c) \in Responses
         /\ response(c).request = r /\ response(c).padded = FALSE
         /\ response(c).completion = c
  BY DEF Responses
<1>2. code \in {"success", "invalidCommand", "error", "unavailable"}
  BY CompletionType
<1>3. CASE ~control
  <2>1. h.agent = a
    BY <1>3 DEF Handle
  <2>2. h.response = response("garbage") \/ h.response = response(code)
    BY <1>3 DEF Handle
  <2> HIDE DEF h, response
  <2> QED
    BY <1>1, <1>2, <1>3, <2>1, <2>2 DEF h
<1>4. CASE control
  <2>1. /\ h.agent = IF code = "success" THEN [installed EXCEPT !.fault[r.eid] = r.fault]
                     ELSE installed
        /\ h.response = response(code)
    BY <1>4 DEF Handle
  <2>2. /\ installed \in Agents /\ Shows(installed, r.fault)
        /\ r.fault \in Faults \cup {"none"} /\ r.eid \in Eids
    BY <1>4, InstallType, RequestFields
  <2>3. /\ [installed EXCEPT !.fault[r.eid] = r.fault] \in Agents
        /\ Shows([installed EXCEPT !.fault[r.eid] = r.fault], r.fault)
    <3> HIDE DEF installed
    <3> QED
      BY <2>2 DEF Agents, Shows
  <2> HIDE DEF h, response, installed, code
  <2> QED
    BY <1>1, <1>2, <1>4, <2>1, <2>2, <2>3 DEF h
<1> QED
  BY <1>3, <1>4

\* The packets of a response, written out.
LEMMA PacketsWritten ==
  ASSUME NEW response
  PROVE  /\ PartsOf(response) \in {1, 2}
         /\ PartsOf(response) = 1 => PacketsOf(response) = <<Packet(response, 1)>>
         /\ PartsOf(response) = 2 =>
              PacketsOf(response) = <<Packet(response, 1), Packet(response, 2)>>
<1>1. PartsOf(response) \in {1, 2}
  BY DEF PartsOf
<1>2. PacketsOf(response) = [i \in 1..PartsOf(response) |-> Packet(response, i)]
  BY DEF PacketsOf, Packet
<1>3. CASE PartsOf(response) = 1
  <2>1. 1..1 = {1}
    OBVIOUS
  <2> QED
    BY <1>1, <1>2, <1>3, <2>1
<1>4. CASE PartsOf(response) = 2
  <2>1. 1..2 = {1, 2}
    OBVIOUS
  <2> QED
    BY <1>1, <1>2, <1>4, <2>1
<1> QED
  BY <1>1, <1>3, <1>4

\* What the server sends of a response, whatever its behaviour, is on its way to a
\* client that has received nothing.
LEMMA SentFacts ==
  ASSUME NEW b \in Behaviors, NEW response \in Responses, response.padded = FALSE
  PROVE  \/ Sent(b, response) = <<>>
         \/ Sent(b, response) = PacketsOf(response)
         \/ LET p == [response EXCEPT !.padded = TRUE]
            IN  \/ Sent(b, response) = <<Packet(p, 2), Packet(p, 1)>>
                \/ Sent(b, response) = <<Packet(p, 1), Skewed(p)>>
                \/ Sent(b, response) = <<Packet(p, 1)>>
<1> DEFINE p == [response EXCEPT !.padded = TRUE]
<1>1. p.padded = TRUE
  BY DEF Responses
<1>2. PartsOf(p) = 2
  BY <1>1 DEF PartsOf
<1> HIDE DEF p
<1>3. PacketsOf(p) = <<Packet(p, 1), Packet(p, 2)>>
  BY <1>2, PacketsWritten
<1>4. PacketsOf(p)[1] = Packet(p, 1) /\ PacketsOf(p)[2] = Packet(p, 2)
  BY <1>3
<1>5. b \in {"none", "packet_loss", "out_of_order_packet", "sequence_mismatch",
             "timeout_before_eom"}
  BY DEF Behaviors, TransportFaults
<1>6. CASE b = "none"
  BY <1>6 DEF Sent
<1>7. CASE b = "packet_loss"
  BY <1>7 DEF Sent
<1>8. CASE b = "out_of_order_packet"
  BY <1>4, <1>8 DEF Sent, p
<1>9. CASE b = "sequence_mismatch"
  BY <1>4, <1>9 DEF Sent, p, Skewed
<1>10. CASE b = "timeout_before_eom"
  BY <1>4, <1>10 DEF Sent, p
<1> QED
  BY <1>5, <1>6, <1>7, <1>8, <1>9, <1>10 DEF p

-----------------------------------------------------------------------------
(* One packet.                                                              *)

\* Two pieces, one after the other.
LEMMA TwoPieces ==
  ASSUME NEW x, NEW y
  PROVE  Append(<<x>>, y) = <<x, y>>
<1> DEFINE S     == {x, y}
           left  == Append(<<x>>, y)
           right == <<x, y>>
<1>1. x \in S /\ y \in S
  OBVIOUS
<1> HIDE DEF S
<1>2. /\ left \in Seq(S) /\ right \in Seq(S)
      /\ Len(left) = 2 /\ Len(right) = 2
      /\ left[1] = x /\ left[2] = y
  BY <1>1
<1>3. right[1] = x /\ right[2] = y
  OBVIOUS
<1> HIDE DEF left, right
<1>4. \A i \in 1..Len(left) : left[i] = right[i]
  <2>1. 1..2 = {1, 2}
    OBVIOUS
  <2> QED
    BY <1>2, <1>3, <2>1
<1>5. left = right
  BY <1>2, <1>4, SeqEqual
<1> QED
  BY <1>5 DEF left, right

\* The fields of the first packet of a response, of the second, and of the second
\* with the wrong sequence number.
LEMMA PacketFields ==
  ASSUME NEW response
  PROVE  /\ Packet(response, 1).som
         /\ Packet(response, 1).eom <=> PartsOf(response) = 1
         /\ Packet(response, 1).sequence = 0 /\ Packet(response, 1).tag = 0
         /\ Packet(response, 1).payload = [of |-> response, part |-> 1]
         /\ Packet(response, 2).som = FALSE
         /\ Packet(response, 2).eom <=> PartsOf(response) = 2
         /\ Packet(response, 2).sequence = 1 /\ Packet(response, 2).tag = 0
         /\ Packet(response, 2).payload = [of |-> response, part |-> 2]
         /\ Skewed(response).som = FALSE /\ Skewed(response).sequence = 2
<1>1. Packet(response, 1).som
  BY Zenon DEF Packet
<1>2. Packet(response, 1).eom <=> PartsOf(response) = 1
  BY Zenon DEF Packet
<1>3. /\ Packet(response, 1).sequence = 0 /\ Packet(response, 1).tag = 0
      /\ Packet(response, 1).payload = [of |-> response, part |-> 1]
      /\ Packet(response, 2).sequence = 1 /\ Packet(response, 2).tag = 0
      /\ Packet(response, 2).payload = [of |-> response, part |-> 2]
  BY DEF Packet
<1>4. Packet(response, 2).som = FALSE
  <2>1. Packet(response, 2).som = (2 = 1)
    BY Zenon DEF Packet
  <2>2. (2 = 1) = FALSE
    OBVIOUS
  <2> QED
    BY <2>1, <2>2
<1>5. Packet(response, 2).eom <=> PartsOf(response) = 2
  BY Zenon DEF Packet
<1>6. Skewed(response).som = FALSE /\ Skewed(response).sequence = 2
  <2>1. Skewed(response).som = Packet(response, 2).som
    BY Zenon DEF Skewed, Packet
  <2>2. Skewed(response).sequence = 2
    BY DEF Skewed, Packet
  <2> QED
    BY <1>4, <2>1, <2>2
<1> QED
  BY <1>1, <1>2, <1>3, <1>4, <1>5, <1>6

\* The first packet starts a message, and is one where it is also the last.
LEMMA FirstPacket ==
  ASSUME NEW response, NEW late \in BOOLEAN
  PROVE  AddPacket(Empty, Packet(response, 1), late) =
           IF PartsOf(response) = 1
           THEN [rx |-> Empty, message |-> <<[of |-> response, part |-> 1]>>]
           ELSE [rx |-> Half(response), message |-> <<>>]
<1> DEFINE packet == Packet(response, 1)
           begun == Begin(Empty, packet)
<1>1. /\ packet.som /\ packet.sequence = 0 /\ packet.tag = 0
      /\ packet.payload = [of |-> response, part |-> 1]
      /\ packet.eom <=> PartsOf(response) = 1
  BY PacketFields
<1>2. begun = [active |-> TRUE, expected |-> 0, tag |-> 0, payload |-> <<>>]
  BY <1>1 DEF Begin
<1>3. ~TimedOut(Empty, late) /\ Fits(begun, packet)
  <2>1. ~Empty.active
    BY DEF Empty
  <2>2. begun.active /\ begun.expected = 0 /\ begun.tag = 0
    BY <1>2
  <2> HIDE DEF packet, begun
  <2> QED
    BY <1>1, <2>1, <2>2 DEF TimedOut, Fits
<1>4. Extend(begun, packet) = Half(response)
  <2>1. begun.expected = 0 /\ begun.tag = 0 /\ begun.payload = <<>>
    BY <1>2
  <2>2. Append(<<>>, packet.payload) = <<[of |-> response, part |-> 1]>> /\ (0 + 1) % 4 = 1
    BY <1>1
  <2> HIDE DEF packet, begun
  <2> QED
    BY <2>1, <2>2 DEF Extend, Half
<1>5. Half(response).payload = <<[of |-> response, part |-> 1]>>
  BY DEF Half
<1> HIDE DEF packet, begun
<1> QED
  BY <1>1, <1>3, <1>4, <1>5 DEF AddPacket, begun, packet

\* A second packet with nothing before it is dropped.
LEMMA StrayPacket ==
  ASSUME NEW response, NEW late \in BOOLEAN
  PROVE  AddPacket(Empty, Packet(response, 2), late) = [rx |-> Empty, message |-> <<>>]
<1>1. ~Packet(response, 2).som
  BY PacketFields
<1>2. ~Fits(Begin(Empty, Packet(response, 2)), Packet(response, 2))
  BY <1>1 DEF Begin, Fits, Empty
<1> QED
  BY <1>2 DEF AddPacket

\* The second of two completes the message, unless it is late.
LEMMA SecondPacket ==
  ASSUME NEW response, PartsOf(response) = 2, NEW late \in BOOLEAN
  PROVE  AddPacket(Half(response), Packet(response, 2), late) =
           IF late
           THEN [rx |-> Empty, message |-> <<>>]
           ELSE [rx |-> Empty, message |-> << [of |-> response, part |-> 1],
                                              [of |-> response, part |-> 2] >>]
<1> DEFINE packet == Packet(response, 2)
           half == Half(response)
<1>1. /\ ~packet.som /\ packet.eom /\ packet.sequence = 1 /\ packet.tag = 0
      /\ packet.payload = [of |-> response, part |-> 2]
  BY PacketFields
<1>2. /\ half.active /\ half.expected = 1 /\ half.tag = 0
      /\ half.payload = <<[of |-> response, part |-> 1]>>
  BY DEF Half
<1> HIDE DEF packet, half
<1>3. Begin(half, packet) = half
  BY <1>1 DEF Begin
<1>4. Fits(half, packet) /\ (TimedOut(half, late) <=> late)
  BY <1>1, <1>2 DEF Fits, TimedOut
<1>5. Extend(half, packet).payload =
        << [of |-> response, part |-> 1], [of |-> response, part |-> 2] >>
  <2>1. Extend(half, packet).payload = Append(half.payload, packet.payload)
    BY DEF Extend
  <2> QED
    BY <1>1, <1>2, <2>1, TwoPieces
<1> QED
  BY <1>1, <1>3, <1>4, <1>5 DEF AddPacket, packet, half

\* One with the wrong sequence number is dropped with what came before.
LEMMA SkewedPacket ==
  ASSUME NEW response, NEW late \in BOOLEAN
  PROVE  AddPacket(Half(response), Skewed(response), late) = [rx |-> Empty, message |-> <<>>]
<1>1. ~Skewed(response).som /\ Skewed(response).sequence = 2
  BY PacketFields
<1>2. ~Fits(Begin(Half(response), Skewed(response)), Skewed(response))
  BY <1>1 DEF Begin, Fits, Half
<1> QED
  BY <1>2 DEF AddPacket

\* What the receiver makes of the next packet: the whole response, nothing, or the
\* first half of it.
LEMMA NextPacket ==
  ASSUME NEW response \in Responses, InFlight(response), inbox # <<>>, NEW late \in BOOLEAN
  PROVE  LET result == AddPacket(rx, Head(inbox), late)
         IN  \/ /\ result.message # <<>>
                /\ ~response.padded
                /\ result.message =
                     [i \in 1..PartsOf(response) |-> [of |-> response, part |-> i]]
             \/ result.message = <<>> /\ result.rx = Empty
             \/ /\ result.message = <<>>
                /\ result.rx = Half(response)
                /\ ~response.padded =>
                     PartsOf(response) = 2 /\ Tail(inbox) = <<Packet(response, 2)>>
                /\ response.padded => Tail(inbox) = <<Skewed(response)>> \/ Tail(inbox) = <<>>
<1> DEFINE result == AddPacket(rx, Head(inbox), late)
<1>0. response.padded => PartsOf(response) = 2
  BY DEF PartsOf
<1>1. PartsOf(response) = 1 =>
        [i \in 1..PartsOf(response) |-> [of |-> response, part |-> i]]
          = <<[of |-> response, part |-> 1]>>
  <2>1. 1..1 = {1}
    OBVIOUS
  <2> QED
    BY <2>1
<1>2. PartsOf(response) = 2 =>
        [i \in 1..PartsOf(response) |-> [of |-> response, part |-> i]]
          = << [of |-> response, part |-> 1], [of |-> response, part |-> 2] >>
  <2>1. 1..2 = {1, 2}
    OBVIOUS
  <2> QED
    BY <2>1
<1>3. CASE rx = Empty /\ ~response.padded /\ inbox = PacketsOf(response)
  <2>1. CASE PartsOf(response) = 1
    <3>1. Head(inbox) = Packet(response, 1)
      BY <1>3, <2>1, PacketsWritten
    <3>2. result = [rx |-> Empty, message |-> <<[of |-> response, part |-> 1]>>]
      BY <1>3, <2>1, <3>1, FirstPacket
    <3>3. result.message = <<[of |-> response, part |-> 1]>>
      BY <3>2
    <3>4. <<[of |-> response, part |-> 1]>> # <<>>
      OBVIOUS
    <3> QED
      BY <1>1, <1>3, <2>1, <3>3, <3>4
  <2>2. CASE PartsOf(response) = 2
    <3>1. inbox = <<Packet(response, 1), Packet(response, 2)>>
      BY <1>3, <2>2, PacketsWritten
    <3>2. Head(inbox) = Packet(response, 1) /\ Tail(inbox) = <<Packet(response, 2)>>
      BY <3>1
    <3>3. result = [rx |-> Half(response), message |-> <<>>]
      BY <1>3, <2>2, <3>2, FirstPacket
    <3> QED
      BY <1>3, <2>2, <3>2, <3>3
  <2> QED
    BY <2>1, <2>2, PacketsWritten
<1>4. CASE /\ rx = Half(response) /\ ~response.padded /\ PartsOf(response) = 2
           /\ inbox = <<Packet(response, 2)>>
  <2>1. Head(inbox) = Packet(response, 2)
    BY <1>4
  <2>2. CASE late
    <3>1. result = [rx |-> Empty, message |-> <<>>]
      BY <1>4, <2>1, <2>2, SecondPacket
    <3> QED
      BY <3>1
  <2>3. CASE ~late
    <3>1. result.message = << [of |-> response, part |-> 1], [of |-> response, part |-> 2] >>
      BY <1>4, <2>1, <2>3, SecondPacket
    <3>2. << [of |-> response, part |-> 1], [of |-> response, part |-> 2] >> # <<>>
      OBVIOUS
    <3> QED
      BY <1>2, <1>4, <3>1, <3>2
  <2> QED
    BY <2>2, <2>3
<1>5. CASE /\ rx = Empty /\ response.padded
           /\ inbox = <<Packet(response, 2), Packet(response, 1)>>
  <2>1. Head(inbox) = Packet(response, 2)
    BY <1>5
  <2> QED
    BY <1>5, <2>1, StrayPacket
<1>6. CASE /\ rx = Empty /\ response.padded
           /\ inbox = <<Packet(response, 1), Skewed(response)>>
  <2>1. Head(inbox) = Packet(response, 1) /\ Tail(inbox) = <<Skewed(response)>>
    BY <1>6
  <2>2. result = [rx |-> Half(response), message |-> <<>>]
    BY <1>0, <1>6, <2>1, FirstPacket
  <2> QED
    BY <1>6, <2>1, <2>2
<1>7. CASE rx = Empty /\ response.padded /\ inbox = <<Packet(response, 1)>>
  <2>1. Head(inbox) = Packet(response, 1) /\ Tail(inbox) = <<>>
    BY <1>7
  <2>2. result = [rx |-> Half(response), message |-> <<>>]
    BY <1>0, <1>7, <2>1, FirstPacket
  <2> QED
    BY <1>7, <2>1, <2>2
<1>8. CASE rx = Half(response) /\ response.padded /\ inbox = <<Skewed(response)>>
  <2>1. Head(inbox) = Skewed(response)
    BY <1>8
  <2> QED
    BY <1>8, <2>1, SkewedPacket
<1> QED
  BY <1>3, <1>4, <1>5, <1>6, <1>7, <1>8 DEF InFlight

-----------------------------------------------------------------------------
(* Types.                                                                   *)

\* The packets of a response are packets.
LEMMA PacketType ==
  ASSUME NEW response \in Responses
  PROVE  /\ Packet(response, 2) \in Packets /\ Skewed(response) \in Packets
         /\ Packet(response, 1) \in Packets
         /\ \A i \in {1, 2} : [of |-> response, part |-> i] \in Pieces
<1>1. \A i \in {1, 2} : [of |-> response, part |-> i] \in Pieces
  BY DEF Pieces
<1>2. \A i \in {1, 2} : Packet(response, i) \in Packets
  <2> TAKE i \in {1, 2}
  <2>1. (i = 1) \in BOOLEAN /\ (i = PartsOf(response)) \in BOOLEAN /\ i - 1 \in 0..2
    OBVIOUS
  <2> QED
    BY <1>1, <2>1 DEF Packet, Packets
<1>3. Skewed(response) \in Packets
  BY <1>2 DEF Skewed, Packets
<1> QED
  BY <1>1, <1>2, <1>3

\* Threads and agent, receiver and packets keep to the values the code gives them.
LEMMA InvType == PldmInv => TypeOK
<1> SUFFICES ASSUME PldmInv PROVE TypeOK
  OBVIOUS
<1>1. rx = Empty \/ \E response \in Responses : rx = Half(response)
  BY DEF PldmInv, Arriving, NothingArrives, InFlight
<1>2. rx.active \in BOOLEAN /\ rx.expected \in 0..3 /\ rx.payload \in Seq(Pieces)
  <2>1. CASE rx = Empty
    BY <2>1 DEF Empty
  <2>2. ASSUME NEW response \in Responses, rx = Half(response)
        PROVE  rx.active \in BOOLEAN /\ rx.expected \in 0..3 /\ rx.payload \in Seq(Pieces)
    <3>1. [of |-> response, part |-> 1] \in Pieces
      BY PacketType
    <3>2. rx.active = TRUE /\ rx.expected = 1
      BY <2>2 DEF Half
    <3>3. rx.payload = <<[of |-> response, part |-> 1]>>
      BY <2>2 DEF Half
    <3>4. <<[of |-> response, part |-> 1]>> \in Seq(Pieces)
      BY <3>1
    <3>5. rx.payload \in Seq(Pieces)
      BY <3>3, <3>4
    <3>6. rx.active \in BOOLEAN
      BY <3>2, Zenon
    <3>7. rx.expected \in 0..3
      BY <3>2
    <3> QED
      BY <3>5, <3>6, <3>7
  <2> QED
    BY <1>1, <2>1, <2>2
<1>3. inbox \in Seq(Packets)
  <2>1. CASE inbox = <<>>
    BY <2>1
  <2>2. ASSUME NEW response \in Responses, InFlight(response) PROVE inbox \in Seq(Packets)
    <3> DEFINE p == Packet(response, 1)
               q == Packet(response, 2)
               k == Skewed(response)
    <3>1. p \in Packets /\ q \in Packets /\ k \in Packets
      BY PacketType
    <3>2. inbox \in {<<p>>, <<q>>, <<k>>, <<p, q>>, <<q, p>>, <<p, k>>, <<>>}
      BY <2>2, PacketsWritten DEF InFlight
    <3> HIDE DEF p, q, k
    <3>3. /\ <<p>> \in Seq(Packets) /\ <<q>> \in Seq(Packets) /\ <<k>> \in Seq(Packets)
          /\ <<p, q>> \in Seq(Packets) /\ <<q, p>> \in Seq(Packets)
          /\ <<p, k>> \in Seq(Packets) /\ <<>> \in Seq(Packets)
      BY <3>1
    <3> QED
      BY <3>2, <3>3, Zenon
  <2> QED
    BY <2>1, <2>2 DEF PldmInv, Arriving, NothingArrives
<1>4. serving = <<>> \/ serving[1].client \in Callers \cup {Nobody}
  <2> SUFFICES ASSUME serving # <<>> PROVE serving[1].client \in Callers \cup {Nobody}
    OBVIOUS
  <2>1. serving \in Seq(Connections)
    BY DEF PldmInv, Typing
  <2>2. serving[1] \in Connections
    BY <2>1
  <2> QED
    BY <2>2 DEF Connections
<1>5. queue \in Seq([request : AllRequests, client : Callers \cup {Nobody}])
  BY DEF PldmInv, Typing, Connections
<1> QED
  BY <1>2, <1>3, <1>4, <1>5
     DEF PldmInv, Typing, TypeOK, Places, Agents, Behaviors

\* A client that closes its end leaves the requests where they are.
LEMMA ClosedFacts ==
  ASSUME NEW t \in Callers, NEW q \in Seq(Connections)
  PROVE  LET c == ClosedBy(t, q)
         IN  /\ c \in Seq(Connections)
             /\ Len(c) = Len(q) /\ DOMAIN c = DOMAIN q
             /\ \A i \in DOMAIN q :
                  /\ c[i].request = q[i].request
                  /\ c[i].client = IF q[i].client = t THEN Nobody ELSE q[i].client
<1> DEFINE c == ClosedBy(t, q)
<1>1. \A i \in DOMAIN q : q[i] \in Connections
  OBVIOUS
<1>2. \A i \in DOMAIN q :
        c[i] = IF q[i].client = t THEN [q[i] EXCEPT !.client = Nobody] ELSE q[i]
  BY DEF ClosedBy
<1>3. \A i \in DOMAIN q :
         /\ c[i] \in Connections
         /\ c[i].request = q[i].request
         /\ c[i].client = IF q[i].client = t THEN Nobody ELSE q[i].client
  <2> TAKE i \in DOMAIN q
  <2>1. CASE q[i].client = t
    BY <1>1, <1>2, <2>1 DEF Connections
  <2>2. CASE q[i].client # t
    BY <1>1, <1>2, <2>2
  <2> QED
    BY <2>1, <2>2
<1>4. DOMAIN q = 1..Len(q) /\ Len(q) \in Nat
  OBVIOUS
<1>5. c \in [1..Len(q) -> Connections]
  BY <1>3, <1>4 DEF ClosedBy
<1>6. c \in Seq(Connections) /\ Len(c) = Len(q)
  BY <1>4, <1>5
<1> QED
  BY <1>3, <1>4, <1>5, <1>6

-----------------------------------------------------------------------------
(* The end of an exchange.                                                  *)

\* The thread that returns takes its connections with it; what it takes for an answer
\* is one, and the fault it has thereby confirmed is in force.
LEMMA ReturnKeeps ==
  ASSUME PldmInv, NEW t \in Callers, InExchange(t),
         NEW answer \in Seq(Pieces), Return(t, answer), agent' = agent,
         answer # Failed =>
           LET response == answer[1].of
           IN  /\ response.request = call[t].request
               /\ ~response.padded
               /\ answer = [i \in 1..PartsOf(response) |-> [of |-> response, part |-> i]]
               /\ queue = <<>>
               /\ call[t].request.command = "setFault" /\ response.completion = "success"
                    => InForce(call[t].request.fault)
  PROVE  PldmInv'
<1> USE DEF PldmInv
<1>1. /\ call'[t].at = "idle" /\ call'[t].answer = answer
      /\ call'[t].request = call[t].request
      /\ \A u \in Callers \ {t} : call'[u] = call[u]
      /\ call' \in [Callers -> [at : Places, request : AllRequests \cup {NoRequest},
                                answer : Seq(Pieces)]]
  <2> DEFINE c == [call[t] EXCEPT !.at = "idle", !.answer = answer]
             C == [at : Places, request : AllRequests \cup {NoRequest}, answer : Seq(Pieces)]
  <2>1. call \in [Callers -> C] /\ call[t] \in C
    BY DEF Typing
  <2>2. /\ c \in C /\ c.at = "idle" /\ c.answer = answer
        /\ c.request = call[t].request
    BY <2>1 DEF Places
  <2>3. call' = [call EXCEPT ![t] = c]
    BY <2>1 DEF Return
  <2> HIDE DEF c, C
  <2>4. call' \in [Callers -> C] /\ call'[t] = c /\ \A u \in Callers \ {t} : call'[u] = call[u]
    BY <2>1, <2>2, <2>3
  <2> QED
    BY <2>2, <2>4 DEF C
<1>2. /\ queue' = ClosedBy(t, queue) /\ serving' = ClosedBy(t, serving)
      /\ rx' = Empty /\ inbox' = <<>> /\ hungUp' = FALSE
  BY DEF Return
<1>3. queue \in Seq(Connections) /\ serving \in Seq(Connections)
  BY DEF Typing
<1>4. queue' \in Seq(Connections) /\ serving' \in Seq(Connections)
      /\ DOMAIN queue' = DOMAIN queue
      /\ \A i \in DOMAIN queue :
           /\ queue'[i].request = queue[i].request
           /\ queue'[i].client = IF queue[i].client = t THEN Nobody ELSE queue[i].client
  BY <1>2, <1>3, ClosedFacts
<1>5. Typing'
  <2>1. \A u \in Callers :
          /\ call'[u].request \in Requests(u) \cup {NoRequest}
          /\ call'[u].at # "idle" => call'[u].request \in Requests(u)
    BY <1>1 DEF Typing
  <2> QED
    BY <1>1, <1>2, <1>4, <2>1 DEF Typing
<1>6. OneExchange'
  BY <1>1 DEF OneExchange, InExchange
<1>7. LiveIsLast'
  <2> SUFFICES ASSUME NEW i \in DOMAIN queue PROVE queue'[i].client = Nobody
    BY <1>4 DEF LiveIsLast
  <2>1. queue[i] \in Connections
    BY <1>3
  <2>2. queue[i].client \in Callers \cup {Nobody}
    BY <2>1 DEF Connections
  <2>3. queue[i].client # Nobody => call[queue[i].client].at = "receiving"
    BY DEF LiveIsLast
  <2>4. queue[i].client # Nobody => queue[i].client = t
    BY <2>2, <2>3 DEF OneExchange, InExchange
  <2> QED
    BY <1>4, <2>4
<1>8. Arriving'
  BY <1>2 DEF Arriving, NothingArrives
<1>9. AnswersAreGenuine'
  <2> SUFFICES ASSUME NEW u \in Callers, Answered(u)'
               PROVE  LET response == call'[u].answer[1].of
                      IN  /\ response.request = call'[u].request
                          /\ ~response.padded
                          /\ call'[u].answer =
                               [i \in 1..PartsOf(response) |-> [of |-> response, part |-> i]]
    BY DEF AnswersAreGenuine
  <2>1. CASE u = t
    BY <1>1, <2>1 DEF Answered
  <2>2. CASE u # t
    <3>1. call'[u] = call[u] /\ Answered(u)
      BY <1>1, <2>2 DEF Answered
    <3> QED
      BY <3>1 DEF AnswersAreGenuine
  <2> QED
    BY <2>1, <2>2
<1>10. ConfirmedFaultHolds'
  <2> SUFFICES ASSUME Answered("dbus")', call'["dbus"].request.command = "setFault",
                      call'["dbus"].answer[1].of.completion = "success"
               PROVE  /\ \A i \in DOMAIN queue : queue'[i].request.command # "setFault"
                      /\ InForce(call'["dbus"].request.fault)
    BY <1>4 DEF ConfirmedFaultHolds, CompletionOf, InForce, Shows
  <2>1. CASE t = "dbus"
    BY <1>1, <2>1 DEF Answered
  <2>2. CASE t # "dbus"
    <3>1. call'["dbus"] = call["dbus"]
      BY <1>1, <2>2 DEF Callers
    <3>2. Answered("dbus")
      BY <3>1 DEF Answered
    <3> QED
      BY <1>4, <3>1, <3>2 DEF ConfirmedFaultHolds, CompletionOf, InForce
  <2> QED
    BY <2>1, <2>2
<1> QED
  BY <1>5, <1>6, <1>7, <1>8, <1>9, <1>10

\* What it returns when it fails is no answer.
LEMMA FailureReturned ==
  ASSUME PldmInv, NEW t \in Callers, InExchange(t), Return(t, Failed), agent' = agent
  PROVE  PldmInv'
<1>1. Failed \in Seq(Pieces)
  <2> DEFINE response == [request |-> NoRequest, completion |-> "failed", padded |-> FALSE]
             piece    == [of |-> response, part |-> 0]
  <2>1. response \in Responses
    BY DEF Responses
  <2> HIDE DEF response
  <2>2. piece \in Pieces
    BY <2>1 DEF Pieces
  <2> HIDE DEF piece
  <2>3. <<piece>> \in Seq(Pieces)
    BY <2>2
  <2> QED
    BY <2>3 DEF Failed, piece, response
<1> QED
  BY <1>1, ReturnKeeps

-----------------------------------------------------------------------------
(* The client.                                                              *)

\* A thread that is on the way to the socket changes only its own place.
LEMMA OnTheWay ==
  ASSUME PldmInv, NEW t \in Callers, call[t].at \in {"idle", "locking"},
         NEW c \in [at : {"locking", "connecting"}, request : Requests(t),
                    answer : Seq(Pieces)],
         call' = [call EXCEPT ![t] = c],
         c.at = "connecting" => MutexFree,
         UNCHANGED <<rx, queue, serving, inbox, hungUp, agent>>
  PROVE  PldmInv'
<1> USE DEF PldmInv
<1>1. call'[t] = c /\ \A u \in Callers \ {t} : call'[u] = call[u]
  BY DEF Typing
<1>2. Typing'
  <2>1. c \in [at : Places, request : AllRequests \cup {NoRequest}, answer : Seq(Pieces)]
    BY DEF Places, AllRequests
  <2> QED
    BY <1>1, <2>1 DEF Typing
<1>3. OneExchange'
  BY <1>1 DEF OneExchange, InExchange, MutexFree
<1>4. \A u \in Callers : call[u].at = "receiving" => call'[u] = call[u]
  BY <1>1
<1>5. LiveIsLast'
  <2> SUFFICES ASSUME NEW i \in DOMAIN queue, queue[i].client # Nobody
               PROVE  /\ i = Len(queue)
                      /\ call'[queue[i].client].at = "receiving"
                      /\ queue[i].request = call'[queue[i].client].request
                      /\ NothingArrives
    BY DEF LiveIsLast, NothingArrives
  <2>1. queue[i] \in Connections
    BY DEF Typing
  <2>2. queue[i].client \in Callers
    BY <2>1 DEF Connections
  <2> QED
    BY <1>4, <2>2 DEF LiveIsLast
<1>6. Arriving'
  BY <1>4 DEF Arriving, NothingArrives, InFlight, InForce
<1>7. AnswersAreGenuine'
  BY <1>1 DEF AnswersAreGenuine, Answered
<1>8. ConfirmedFaultHolds'
  <2>1. CASE t = "dbus"
    BY <1>1, <2>1 DEF ConfirmedFaultHolds, Answered
  <2>2. CASE t # "dbus"
    <3>1. call'["dbus"] = call["dbus"]
      BY <1>1, <2>2 DEF Callers
    <3> QED
      BY <3>1 DEF ConfirmedFaultHolds, Answered, CompletionOf
  <2> QED
    BY <2>1, <2>2
<1> QED
  BY <1>2, <1>3, <1>5, <1>6, <1>7, <1>8

\* The connection goes to the end of the queue; nobody else's is alive in it.
LEMMA ConnectKeeps ==
  ASSUME PldmInv, NEW t \in Callers, Connect(t)
  PROVE  PldmInv'
<1> USE DEF PldmInv
<1>1. /\ call[t].at = "connecting"
      /\ call' = [call EXCEPT ![t].at = "receiving"]
      /\ queue' = Append(queue, [request |-> call[t].request, client |-> t])
      /\ UNCHANGED <<rx, serving, inbox, hungUp, agent>>
  BY DEF Connect
<1>2. /\ call'[t].at = "receiving" /\ call'[t].request = call[t].request
      /\ \A u \in Callers \ {t} : call'[u] = call[u]
      /\ call' \in [Callers -> [at : Places, request : AllRequests \cup {NoRequest},
                                answer : Seq(Pieces)]]
  BY <1>1 DEF Typing, Places
<1>3. call[t].request \in Requests(t) /\ call[t].request \in AllRequests
  BY <1>1 DEF Typing, AllRequests
<1> DEFINE e == [request |-> call[t].request, client |-> t]
<1>4. e \in Connections /\ e.request = call[t].request /\ e.client = t
  BY <1>3 DEF Connections
<1>5. queue \in Seq(Connections)
  BY DEF Typing
<1> HIDE DEF e
<1>6. /\ queue' \in Seq(Connections)
      /\ Len(queue') = Len(queue) + 1
      /\ \A i \in DOMAIN queue : queue'[i] = queue[i]
      /\ queue'[Len(queue) + 1] = e
      /\ \A i \in DOMAIN queue' : i \in DOMAIN queue \/ i = Len(queue) + 1
  BY <1>1, <1>4, <1>5 DEF e
<1>7. \A u \in Callers : call[u].at # "receiving"
  BY <1>1 DEF OneExchange, InExchange
<1>8. \A i \in DOMAIN queue : queue[i].client = Nobody
  <2> TAKE i \in DOMAIN queue
  <2>1. queue[i] \in Connections
    BY <1>5
  <2> QED
    BY <1>7, <2>1 DEF Connections, LiveIsLast
<1>9. NothingArrives
  BY <1>7 DEF Arriving
<1>10. Typing'
  <2>1. \A u \in Callers :
          /\ call'[u].request \in Requests(u) \cup {NoRequest}
          /\ call'[u].at # "idle" => call'[u].request \in Requests(u)
    BY <1>2, <1>3 DEF Typing
  <2> QED
    BY <1>1, <1>2, <1>6, <2>1 DEF Typing
<1>11. OneExchange'
  BY <1>1, <1>2 DEF OneExchange, InExchange
<1>12. NothingArrives'
  BY <1>1, <1>9 DEF NothingArrives
<1>13. LiveIsLast'
  <2> SUFFICES ASSUME NEW i \in DOMAIN queue', queue'[i].client # Nobody
               PROVE  /\ i = Len(queue')
                      /\ call'[queue'[i].client].at = "receiving"
                      /\ queue'[i].request = call'[queue'[i].client].request
    BY <1>12 DEF LiveIsLast
  <2>1. i = Len(queue) + 1
    BY <1>6, <1>8
  <2>2. queue'[i] = e
    BY <1>6, <2>1
  <2> QED
    BY <1>2, <1>4, <1>6, <2>1, <2>2
<1>14. AnswersAreGenuine'
  <2>1. \A u \in Callers : Answered(u)' => call'[u] = call[u] /\ Answered(u)
    BY <1>2 DEF Answered
  <2> QED
    BY <2>1 DEF AnswersAreGenuine
<1>15. ConfirmedFaultHolds'
  <2> SUFFICES ASSUME Answered("dbus")', call'["dbus"].request.command = "setFault",
                      call'["dbus"].answer[1].of.completion = "success"
               PROVE  /\ \A i \in DOMAIN queue' : queue'[i].request.command # "setFault"
                      /\ InForce(call'["dbus"].request.fault)
    BY <1>1 DEF ConfirmedFaultHolds, CompletionOf, InForce
  <2>1. t = "poll"
    BY <1>2 DEF Answered, Callers
  <2>2. call'["dbus"] = call["dbus"]
    BY <1>2, <2>1 DEF Callers
  <2>3. e.request.command # "setFault"
    BY <1>3, <1>4, <2>1, PollAsks
  <2> QED
    BY <1>6, <2>2, <2>3 DEF ConfirmedFaultHolds, Answered, CompletionOf, InForce
<1> QED
  BY <1>10, <1>11, <1>12, <1>13, <1>14, <1>15 DEF Arriving

\* A packet is taken, or the exchange ends.
LEMMA ReceiveKeeps ==
  ASSUME PldmInv, NEW t \in Callers, Receive(t)
  PROVE  PldmInv'
<1>1. call[t].at = "receiving" /\ inbox # <<>> /\ agent' = agent
  BY DEF Receive
<1>2. PICK late \in BOOLEAN :
        LET result == AddPacket(rx, Head(inbox), late)
        IN  IF result.message # <<>>
            THEN Return(t, IF Accepts(t, result.message) THEN result.message ELSE Failed)
            ELSE IF result.rx = Empty THEN Return(t, Failed)
            ELSE /\ rx' = result.rx
                 /\ inbox' = Tail(inbox)
                 /\ UNCHANGED <<call, queue, serving, hungUp>>
  BY DEF Receive
<1> DEFINE result == AddPacket(rx, Head(inbox), late)
<1>3. PICK u \in Callers, response \in Responses :
        /\ call[u].at = "receiving"
        /\ response.request = call[u].request
        /\ InFlight(response)
        /\ response.request.command = "setFault" /\ response.completion = "success"
             => InForce(response.request.fault)
  BY <1>1 DEF PldmInv, Arriving, NothingArrives
<1>4. u = t /\ InExchange(t) /\ queue = <<>>
  BY <1>1, <1>3 DEF PldmInv, OneExchange, InExchange, Arriving, NothingArrives
<1>5. \/ /\ result.message # <<>>
         /\ ~response.padded
         /\ result.message =
              [i \in 1..PartsOf(response) |-> [of |-> response, part |-> i]]
      \/ result.message = <<>> /\ result.rx = Empty
      \/ /\ result.message = <<>>
         /\ result.rx = Half(response)
         /\ ~response.padded =>
              PartsOf(response) = 2 /\ Tail(inbox) = <<Packet(response, 2)>>
         /\ response.padded => Tail(inbox) = <<Skewed(response)>> \/ Tail(inbox) = <<>>
  BY <1>1, <1>3, NextPacket
<1> HIDE DEF result
<1>6. CASE /\ result.message # <<>>
           /\ ~response.padded
           /\ result.message =
                [i \in 1..PartsOf(response) |-> [of |-> response, part |-> i]]
  <2>1. Return(t, IF Accepts(t, result.message) THEN result.message ELSE Failed)
    BY <1>2, <1>6 DEF result
  <2>2. CASE ~Accepts(t, result.message)
    BY <1>1, <1>4, <2>1, <2>2, FailureReturned
  <2>3. CASE Accepts(t, result.message)
    <3>1. PartsOf(response) \in {1, 2}
      BY PacketsWritten
    <3>2. result.message[1].of = response
      BY <1>6, <3>1
    <3>3. result.message \in Seq(Pieces)
      <4>1. \A i \in 1..PartsOf(response) : [of |-> response, part |-> i] \in Pieces
        <5>1. \A i \in 1..PartsOf(response) : i \in {1, 2}
          BY <3>1
        <5> QED
          BY <5>1, PacketType
      <4> QED
        BY <1>6, <3>1, <4>1
    <3>4. Return(t, result.message)
      BY <2>1, <2>3
    <3> QED
      BY <1>1, <1>3, <1>4, <1>6, <3>2, <3>3, <3>4, ReturnKeeps
  <2> QED
    BY <2>2, <2>3
<1>7. CASE result.message = <<>> /\ result.rx = Empty
  <2>1. Return(t, Failed)
    BY <1>2, <1>7 DEF result
  <2> QED
    BY <1>1, <1>4, <2>1, FailureReturned
<1>8. CASE /\ result.message = <<>>
           /\ result.rx = Half(response)
           /\ ~response.padded =>
                PartsOf(response) = 2 /\ Tail(inbox) = <<Packet(response, 2)>>
           /\ response.padded => Tail(inbox) = <<Skewed(response)>> \/ Tail(inbox) = <<>>
  <2>1. Half(response) # Empty
    <3>1. Half(response).active = TRUE /\ Empty.active = FALSE
      BY DEF Half, Empty
    <3> QED
      BY <3>1
  <2>2. /\ rx' = Half(response) /\ inbox' = Tail(inbox)
        /\ UNCHANGED <<call, queue, serving, hungUp, agent>>
    BY <1>1, <1>2, <1>8, <2>1 DEF result
  <2>3. InFlight(response)'
    BY <1>8, <2>2 DEF InFlight
  <2>4. Arriving'
    BY <1>3, <1>4, <2>2, <2>3 DEF Arriving, InForce
  <2>5. LiveIsLast'
    BY <1>4, <2>2 DEF LiveIsLast
  <2> QED
    BY <2>2, <2>4, <2>5 DEF PldmInv, Typing, OneExchange, InExchange, AnswersAreGenuine,
                            ConfirmedFaultHolds, Answered, CompletionOf
<1> QED
  BY <1>5, <1>6, <1>7, <1>8

-----------------------------------------------------------------------------
(* The server.                                                              *)

\* Whatever the behaviour, it sends packets.
LEMMA SentType ==
  ASSUME NEW b \in Behaviors, NEW response \in Responses, response.padded = FALSE
  PROVE  Sent(b, response) \in Seq(Packets)
<1> DEFINE p == [response EXCEPT !.padded = TRUE]
<1>1. p \in Responses
  BY DEF Responses
<1> HIDE DEF p
<1>2. /\ Packet(p, 1) \in Packets /\ Packet(p, 2) \in Packets /\ Skewed(p) \in Packets
      /\ Packet(response, 1) \in Packets /\ Packet(response, 2) \in Packets
  BY <1>1, PacketType
<1>3. PacketsOf(response) \in Seq(Packets)
  <2> DEFINE x == Packet(response, 1)
             y == Packet(response, 2)
  <2>1. PacketsOf(response) = <<x>> \/ PacketsOf(response) = <<x, y>>
    BY PacketsWritten
  <2> HIDE DEF x, y
  <2>2. <<x>> \in Seq(Packets) /\ <<x, y>> \in Seq(Packets)
    BY <1>2 DEF x, y
  <2> QED
    BY <2>1, <2>2
<1>4. /\ <<Packet(p, 2), Packet(p, 1)>> \in Seq(Packets)
      /\ <<Packet(p, 1), Skewed(p)>> \in Seq(Packets)
      /\ <<Packet(p, 1)>> \in Seq(Packets)
      /\ <<>> \in Seq(Packets)
  BY <1>2
<1> QED
  BY <1>3, <1>4, SentFacts DEF p

\* What it sends to a client that has received nothing is on its way.
LEMMA SentArrives ==
  ASSUME NEW b \in Behaviors, NEW response \in Responses, response.padded = FALSE,
         rx' = Empty, inbox' = Sent(b, response)
  PROVE  \/ NothingArrives'
         \/ \E p \in Responses : /\ p.request = response.request
                                 /\ p.completion = response.completion
                                 /\ InFlight(p)'
<1> DEFINE p == [response EXCEPT !.padded = TRUE]
<1>1. /\ p \in Responses /\ p.request = response.request
      /\ p.completion = response.completion /\ p.padded = TRUE
  BY DEF Responses
<1> HIDE DEF p
<1>2. CASE Sent(b, response) = <<>>
  BY <1>2 DEF NothingArrives
<1>3. CASE Sent(b, response) = PacketsOf(response)
  <2>1. InFlight(response)'
    BY <1>3 DEF InFlight
  <2> QED
    BY <2>1
<1>4. CASE \/ Sent(b, response) = <<Packet(p, 2), Packet(p, 1)>>
           \/ Sent(b, response) = <<Packet(p, 1), Skewed(p)>>
           \/ Sent(b, response) = <<Packet(p, 1)>>
  <2>1. InFlight(p)'
    BY <1>1, <1>4 DEF InFlight
  <2> QED
    BY <1>1, <2>1
<1> QED
  BY <1>2, <1>3, <1>4, SentFacts DEF p

\* A connection is served: the abandoned ones first, the live one last.
LEMMA ServeKeeps ==
  ASSUME PldmInv, Serve
  PROVE  PldmInv'
<1> DEFINE connection == Head(queue)
           handled    == Handle(agent, connection.request)
           behavior   == BehaviorFor(agent, handled.agent)
<1>1. /\ queue # <<>>
      /\ agent' = handled.agent
      /\ queue' = Tail(queue)
      /\ serving' = IF Sleeps(behavior, connection) THEN <<connection>> ELSE <<>>
      /\ IF Reaches(connection)
         THEN /\ inbox' = inbox \o Sent(behavior, handled.response)
              /\ hungUp' = ~Sleeps(behavior, connection)
         ELSE UNCHANGED <<inbox, hungUp>>
      /\ UNCHANGED <<call, rx>>
  BY DEF Serve
<1> HIDE DEF handled, behavior, connection
<1>2. queue \in Seq(Connections) /\ agent \in Agents /\ hungUp \in BOOLEAN
  BY DEF PldmInv, Typing
<1>3. /\ connection \in Connections /\ connection = queue[1] /\ 1 \in DOMAIN queue
      /\ Tail(queue) \in Seq(Connections) /\ Len(Tail(queue)) = Len(queue) - 1
      /\ \A i \in DOMAIN Tail(queue) : i + 1 \in DOMAIN queue /\ Tail(queue)[i] = queue[i + 1]
  BY <1>1, <1>2 DEF connection
<1>4. connection.request \in AllRequests /\ connection.client \in Callers \cup {Nobody}
  BY <1>3 DEF Connections
<1>5. /\ handled.agent \in Agents
      /\ handled.response \in Responses
      /\ handled.response.request = connection.request
      /\ handled.response.padded = FALSE
      /\ connection.request.command # "setFault" => handled.agent = agent
      /\ connection.request.command = "setFault" /\ handled.response.completion = "success"
           => Shows(handled.agent, connection.request.fault)
  <2> DEFINE r == connection.request
  <2>1. r \in AllRequests
    BY <1>4
  <2>2. handled = Handle(agent, r)
    BY DEF handled
  <2> HIDE DEF r
  <2>3. /\ handled.agent \in Agents
        /\ handled.response \in Responses
        /\ handled.response.request = r /\ handled.response.padded = FALSE
        /\ r.command # "setFault" => handled.agent = agent
        /\ r.command = "setFault" /\ handled.response.completion = "success"
             => Shows(handled.agent, r.fault)
    BY <1>2, <2>1, <2>2, HandleFacts
  <2> QED
    BY <2>3 DEF r
<1>6. behavior \in Behaviors
  BY <1>2 DEF behavior, BehaviorFor, Agents, Behaviors
<1>7. NothingArrives
  BY <1>1 DEF PldmInv, Arriving
<1>8. Typing'
  <2>1. hungUp' \in BOOLEAN
    <3>1. (~Sleeps(behavior, connection)) \in BOOLEAN
      OBVIOUS
    <3> QED
      BY <1>1, <1>2, <3>1
  <2>2. serving' \in Seq(Connections)
    BY <1>1, <1>3
  <2> QED
    BY <1>1, <1>3, <1>5, <2>1, <2>2 DEF PldmInv, Typing
<1>9. OneExchange' /\ AnswersAreGenuine'
  BY <1>1 DEF PldmInv, OneExchange, InExchange, AnswersAreGenuine, Answered
<1>10. ConfirmedFaultHolds'
  <2> SUFFICES ASSUME Answered("dbus"), call["dbus"].request.command = "setFault",
                      CompletionOf("dbus") = "success"
               PROVE  /\ \A i \in DOMAIN queue' : queue'[i].request.command # "setFault"
                      /\ InForce(call["dbus"].request.fault)'
    BY <1>1 DEF ConfirmedFaultHolds, Answered, CompletionOf, InForce
  <2>1. /\ \A i \in DOMAIN queue : queue[i].request.command # "setFault"
        /\ InForce(call["dbus"].request.fault)
    BY DEF PldmInv, ConfirmedFaultHolds, InForce
  <2>2. agent' = agent
    BY <1>1, <1>3, <1>5, <2>1
  <2>3. \A i \in DOMAIN queue' : queue'[i].request.command # "setFault"
    BY <1>1, <1>3, <2>1
  <2> QED
    BY <1>1, <2>1, <2>2, <2>3 DEF InForce
<1>11. CASE ~Reaches(connection)
  <2>1. NothingArrives'
    BY <1>1, <1>7, <1>11 DEF NothingArrives
  <2>2. LiveIsLast'
    <3> SUFFICES ASSUME NEW i \in DOMAIN queue', queue'[i].client # Nobody
                 PROVE  /\ i = Len(queue')
                        /\ call[queue'[i].client].at = "receiving"
                        /\ queue'[i].request = call[queue'[i].client].request
      BY <1>1, <2>1 DEF LiveIsLast
    <3>1. i + 1 \in DOMAIN queue /\ queue'[i] = queue[i + 1]
      BY <1>1, <1>3
    <3>2. i + 1 = Len(queue)
      BY <3>1 DEF PldmInv, LiveIsLast
    <3>3. i = Len(queue')
      BY <1>1, <1>2, <1>3, <3>2
    <3> QED
      BY <3>1, <3>3 DEF PldmInv, LiveIsLast
  <2> QED
    BY <1>8, <1>9, <1>10, <2>1, <2>2 DEF PldmInv, Arriving
<1>12. CASE Reaches(connection)
  <2> DEFINE t == connection.client
  <2>1. /\ t \in Callers /\ 1 = Len(queue) /\ call[t].at = "receiving"
        /\ connection.request = call[t].request
    BY <1>3, <1>4, <1>12 DEF PldmInv, LiveIsLast, Reaches
  <2>2. queue' = <<>>
    BY <1>1, <1>2, <1>3, <2>1
  <2>3. inbox' = Sent(behavior, handled.response) /\ rx' = Empty
    <3>1. Sent(behavior, handled.response) \in Seq(Packets)
      BY <1>5, <1>6, SentType
    <3>2. inbox' = <<>> \o Sent(behavior, handled.response)
      BY <1>1, <1>7, <1>12 DEF NothingArrives
    <3>3. <<>> \o Sent(behavior, handled.response) = Sent(behavior, handled.response)
      BY <3>1, ConcatSimplifications
    <3> QED
      BY <1>1, <1>7, <3>2, <3>3 DEF NothingArrives
  <2>4. LiveIsLast'
    BY <2>2 DEF LiveIsLast
  <2>5. CASE NothingArrives'
    BY <1>8, <1>9, <1>10, <2>4, <2>5 DEF PldmInv, Arriving
  <2>6. CASE ~NothingArrives'
    <3>1. PICK p \in Responses : /\ p.request = connection.request
                                 /\ p.completion = handled.response.completion
                                 /\ InFlight(p)'
      BY <1>5, <1>6, <2>3, <2>6, SentArrives
    <3>2. p.request.command = "setFault" /\ p.completion = "success"
            => InForce(p.request.fault)'
      BY <1>1, <1>5, <3>1 DEF InForce
    <3>3. call'[t].at = "receiving" /\ p.request = call'[t].request
      BY <1>1, <2>1, <3>1
    <3>4. Arriving'
      BY <2>1, <2>2, <3>1, <3>2, <3>3 DEF Arriving
    <3> QED
      BY <1>8, <1>9, <1>10, <2>4, <3>4 DEF PldmInv
  <2> QED
    BY <2>5, <2>6
<1> QED
  BY <1>11, <1>12

\* The end of a sleep tells the client no more than that the connection is closed.
LEMMA WakeKeeps ==
  ASSUME PldmInv, Wake
  PROVE  PldmInv'
<1>1. UNCHANGED <<call, rx, queue, inbox, agent>> /\ serving' = <<>>
  BY DEF Wake, Served
<1>2. hungUp' \in BOOLEAN /\ serving' \in Seq(Connections)
  BY <1>1 DEF Wake
<1> QED
  BY <1>1, <1>2 DEF PldmInv, Typing, OneExchange, InExchange, LiveIsLast, Arriving,
                    NothingArrives, InFlight, InForce, AnswersAreGenuine,
                    ConfirmedFaultHolds, Answered, CompletionOf

\* An agent that is gone has no faults and no queue, a new one has no faults.
LEMMA RestartKeeps ==
  ASSUME PldmInv, AgentStops \/ AgentStarts
  PROVE  PldmInv'
<1>1. /\ UNCHANGED <<call, rx, serving, inbox>>
      /\ queue' = <<>> \/ queue' = queue
      /\ agent' = [agent EXCEPT !.up = FALSE] \/ agent' = FreshAgent
  BY DEF AgentStops, AgentStarts
<1>2. agent' \in Agents /\ \A f : InForce(f)'
  <2>1. agent \in Agents
    BY DEF PldmInv, Typing
  <2>2. CASE agent' = FreshAgent
    BY <2>2 DEF Agents, FreshAgent, InForce, Behaviors
  <2>3. CASE agent' = [agent EXCEPT !.up = FALSE]
    <3>1. agent' \in Agents /\ agent'.up = FALSE
      BY <2>1, <2>3 DEF Agents
    <3> QED
      BY <3>1 DEF InForce
  <2> QED
    BY <1>1, <2>2, <2>3
<1>3. hungUp' \in BOOLEAN
  <2>1. CASE AgentStops
    BY <2>1, Zenon DEF AgentStops
  <2>2. CASE AgentStarts
    BY <2>2 DEF AgentStarts, PldmInv, Typing
  <2> QED
    BY <2>1, <2>2
<1>4. Typing'
  <2>1. queue' \in Seq(Connections)
    <3>1. queue \in Seq(Connections) /\ <<>> \in Seq(Connections)
      BY DEF PldmInv, Typing
    <3> QED
      BY <1>1, <3>1
  <2> QED
    BY <1>1, <1>2, <1>3, <2>1 DEF PldmInv, Typing
<1>5. LiveIsLast'
  BY <1>1 DEF PldmInv, LiveIsLast, NothingArrives
<1>6. Arriving'
  <2>1. CASE NothingArrives
    BY <1>1, <2>1 DEF Arriving, NothingArrives
  <2>2. CASE ~NothingArrives
    <3>1. PICK t \in Callers, response \in Responses :
            /\ call[t].at = "receiving"
            /\ response.request = call[t].request
            /\ InFlight(response)
      BY <2>2 DEF PldmInv, Arriving
    <3>2. InFlight(response)'
      BY <1>1, <3>1 DEF InFlight
    <3>3. queue' = <<>>
      BY <1>1, <2>2 DEF PldmInv, Arriving
    <3> QED
      BY <1>1, <1>2, <3>1, <3>2, <3>3 DEF Arriving
  <2> QED
    BY <2>1, <2>2
<1>7. OneExchange' /\ AnswersAreGenuine'
  BY <1>1 DEF PldmInv, OneExchange, InExchange, AnswersAreGenuine, Answered
<1>8. ConfirmedFaultHolds'
  BY <1>1, <1>2 DEF PldmInv, ConfirmedFaultHolds, Answered, CompletionOf, InForce
<1> QED
  BY <1>4, <1>5, <1>6, <1>7, <1>8 DEF PldmInv

-----------------------------------------------------------------------------
(* The theorems.                                                            *)

\* Nothing is asked, queued or set at first.
LEMMA InitInv == Init => PldmInv
<1> SUFFICES ASSUME Init PROVE PldmInv
  OBVIOUS
<1>1. /\ call = [t \in Callers |-> [at |-> "idle", request |-> NoRequest, answer |-> <<>>]]
      /\ queue = <<>> /\ serving = <<>> /\ NothingArrives /\ hungUp = FALSE
      /\ agent = FreshAgent
  BY DEF Init, NothingArrives, None
<1>2. agent \in Agents
  BY <1>1 DEF Agents, FreshAgent, Behaviors
<1>3. call \in [Callers -> [at : Places, request : AllRequests \cup {NoRequest},
                            answer : Seq(Pieces)]]
  BY <1>1 DEF Places
<1>4. Typing
  <2>1. queue \in Seq(Connections) /\ serving \in Seq(Connections)
    BY <1>1
  <2>2. \A t \in Callers : call[t].request = NoRequest /\ call[t].at = "idle"
    BY <1>1
  <2> QED
    BY <1>1, <1>2, <1>3, <2>1, <2>2 DEF Typing
<1>5. \A t \in Callers : ~Answered(t) /\ ~InExchange(t)
  BY <1>1 DEF Answered, None, InExchange
<1>6. "dbus" \in Callers
  BY DEF Callers
<1> QED
  BY <1>1, <1>4, <1>5, <1>6 DEF PldmInv, OneExchange, LiveIsLast, Arriving,
                                AnswersAreGenuine, ConfirmedFaultHolds

\* Every step keeps the invariant.
LEMMA NextInv ==
  ASSUME PldmInv, [Next]_vars
  PROVE  PldmInv'
<1>1. CASE UNCHANGED vars
  BY <1>1 DEF vars, PldmInv, Typing, OneExchange, InExchange, LiveIsLast, Arriving,
              NothingArrives, InFlight, InForce, AnswersAreGenuine,
              ConfirmedFaultHolds, Answered, CompletionOf
<1>2. ASSUME NEW t \in Callers, NEW r \in Requests(t), Request(t, r) PROVE PldmInv'
  <2> DEFINE c == [at |-> "locking", request |-> r, answer |-> None]
  <2>1. /\ call[t].at = "idle" /\ call' = [call EXCEPT ![t] = c]
        /\ UNCHANGED <<rx, queue, serving, inbox, hungUp, agent>>
    BY <1>2 DEF Request
  <2>2. c \in [at : {"locking", "connecting"}, request : Requests(t), answer : Seq(Pieces)]
        /\ c.at = "locking"
    BY DEF None
  <2> HIDE DEF c
  <2> QED
    BY <2>1, <2>2, OnTheWay
<1>3. ASSUME NEW t \in Callers, Client(t) PROVE PldmInv'
  <2>1. CASE Lock(t)
    <3>1. /\ call[t].at = "locking" /\ MutexFree
          /\ call' = [call EXCEPT ![t].at = "connecting"]
          /\ UNCHANGED <<rx, queue, serving, inbox, hungUp, agent>>
      BY <2>1 DEF Lock
    <3> DEFINE c == [call[t] EXCEPT !.at = "connecting"]
    <3>2. call[t] \in [at : Places, request : AllRequests \cup {NoRequest},
                       answer : Seq(Pieces)]
          /\ call[t].request \in Requests(t)
      BY <3>1 DEF PldmInv, Typing
    <3>3. /\ c \in [at : {"locking", "connecting"}, request : Requests(t),
                    answer : Seq(Pieces)]
          /\ c.at = "connecting"
      BY <3>2
    <3>4. call' = [call EXCEPT ![t] = c]
      BY <3>1
    <3> HIDE DEF c
    <3> QED
      BY <3>1, <3>3, <3>4, OnTheWay
  <2>2. CASE Connect(t)
    BY <2>2, ConnectKeeps
  <2>3. CASE ConnectFails(t)
    BY <2>3, FailureReturned DEF ConnectFails, InExchange
  <2>4. CASE TimeOut(t)
    BY <2>4, FailureReturned DEF TimeOut, InExchange
  <2>5. CASE ConnectionClosed(t)
    BY <2>5, FailureReturned DEF ConnectionClosed, InExchange
  <2>6. CASE Receive(t)
    BY <2>6, ReceiveKeeps
  <2> QED
    BY <1>3, <2>1, <2>2, <2>3, <2>4, <2>5, <2>6 DEF Client
<1>4. CASE Serve
  BY <1>4, ServeKeeps
<1>5. CASE Wake
  BY <1>5, WakeKeeps
<1>6. CASE AgentStops \/ AgentStarts
  BY <1>6, RestartKeeps
<1> QED
  BY <1>1, <1>2, <1>3, <1>4, <1>5, <1>6 DEF Next, Server

\* Typing, mutual exclusion, the order of the queue and what is in flight, in every
\* reachable state.
THEOREM ExchangeInvariant == Spec => []PldmInv
<1>1. Init => PldmInv
  BY InitInv
<1>2. PldmInv /\ [Next]_vars => PldmInv'
  BY NextInv
<1> QED
  BY <1>1, <1>2, PTL DEF Spec

\* Both threads, the receiver, the connections and the agent keep to their values.
THEOREM PldmTypeCorrect == Spec => []TypeOK
BY ExchangeInvariant, InvType, PTL

\* Whatever faults are injected, however often the agent restarts and however late the
\* packets are, what requestPldm() returns as an answer is the complete response to the
\* request it was called with.
THEOREM AnswersAlwaysGenuine == Spec => []AnswersAreGenuine
<1>1. PldmInv => AnswersAreGenuine
  BY DEF PldmInv
<1> QED
  BY <1>1, ExchangeInvariant, PTL

\* For any length of the accept queue: when a setFault is confirmed, all the requests
\* that timed out before it were served before it, so that nothing undoes it.
THEOREM ConfirmedAlwaysHolds == Spec => []ConfirmedFaultHolds
<1>1. PldmInv => ConfirmedFaultHolds
  BY DEF PldmInv
<1> QED
  BY <1>1, ExchangeInvariant, PTL

-----------------------------------------------------------------------------
(* An exchange as its callers see it.                                       *)

\* A thread that moves changes its own view only.
LEMMA ViewMoves ==
  ASSUME NEW t \in Callers, \A u \in Callers \ {t} : call'[u] = call[u],
         NEW c, c = [at |-> Phase(t)', request |-> call'[t].request, outcome |-> Outcome(t)']
  PROVE  CallView' = [CallView EXCEPT ![t] = c]
<1>1. \A u \in Callers \ {t} : CallView'[u] = CallView[u]
  BY DEF CallView, Phase, Outcome, CompletionOf
<1>2. CallView'[t] = c
  BY DEF CallView
<1>3. CallView' = [u \in Callers |-> CallView'[u]]
  BY DEF CallView
<1>4. [CallView EXCEPT ![t] = c] = [u \in Callers |-> IF u = t THEN c ELSE CallView[u]]
  BY DEF CallView
<1> QED
  BY <1>1, <1>2, <1>3, <1>4

\* Whatever was received of it, the response on its way keeps its completion code.
SeenOnItsWay ==
  /\ NothingArrives => OnItsWay = <<>>
  /\ \A response \in Responses : InFlight(response) => OnItsWay = <<response.completion>>

LEMMA AlwaysSeen == SeenOnItsWay
<1>1. NothingArrives => OnItsWay = <<>>
  BY DEF NothingArrives, OnItsWay, Empty
<1>2. ASSUME NEW response \in Responses, InFlight(response)
      PROVE  OnItsWay = <<response.completion>>
  <2> DEFINE p == Packet(response, 1)
             q == Packet(response, 2)
             k == Skewed(response)
  <2>1. Half(response).payload = <<[of |-> response, part |-> 1]>>
    BY DEF Half
  <2>2. Half(response).payload # <<>> /\ Half(response).payload[1].of = response
    BY <2>1
  <2>3. CASE rx = Half(response)
    BY <2>2, <2>3 DEF OnItsWay
  <2>4. CASE rx = Empty
    <3>1. Half(response) # Empty
      <4>1. Empty.payload = <<>>
        BY DEF Empty
      <4> QED
        BY <2>2, <4>1
    <3>2. p.payload.of = response /\ q.payload.of = response
      <4>1. /\ p.payload = [of |-> response, part |-> 1]
            /\ q.payload = [of |-> response, part |-> 2]
        BY PacketFields
      <4> HIDE DEF p, q
      <4> QED
        BY <4>1
    <3>3. inbox \in {<<p>>, <<p, q>>, <<q, p>>, <<p, k>>}
      BY <1>2, <2>4, <3>1, PacketsWritten DEF InFlight
    <3> HIDE DEF p, q, k
    <3>4. inbox # <<>> /\ inbox[1].payload.of = response
      BY <3>2, <3>3
    <3>5. rx.payload = <<>>
      BY <2>4 DEF Empty
    <3> QED
      BY <3>4, <3>5 DEF OnItsWay
  <2> QED
    BY <1>2, <2>3, <2>4 DEF InFlight
<1> QED
  BY <1>1, <1>2 DEF SeenOnItsWay

LEMMA NextSeen == SeenOnItsWay'
BY AlwaysSeen, PTL

LEMMA FlightSeen ==
  ASSUME NEW response \in Responses
  PROVE  /\ InFlight(response) => OnItsWay = <<response.completion>>
         /\ InFlight(response)' => OnItsWay' = <<response.completion>>
BY AlwaysSeen, NextSeen DEF SeenOnItsWay

LEMMA NothingSeen ==
  /\ NothingArrives => OnItsWay = <<>>
  /\ NothingArrives' => OnItsWay' = <<>>
BY AlwaysSeen, NextSeen DEF SeenOnItsWay

\* Who holds the mutex is alone with the agent.
LEMMA HolderAlone ==
  ASSUME PldmInv, NEW t \in Callers, InExchange(t)
  PROVE  Calls!Alone(t)
BY DEF PldmInv, OneExchange, InExchange, Calls!Alone, CallView, Phase, Typing, Places

\* The end of an exchange, with an answer or without.
LEMMA ReturnEnds ==
  ASSUME PldmInv, NEW t \in Callers, InExchange(t), NEW answer, answer # <<>>,
         Return(t, answer), agent' = agent
  PROVE  Calls!End(t, answer[1].of.completion)
<1>1. /\ call'[t].at = "idle" /\ call'[t].answer = answer
      /\ call'[t].request = call[t].request
      /\ \A u \in Callers \ {t} : call'[u] = call[u]
  BY DEF Return, PldmInv, Typing
<1> DEFINE c == [at |-> "idle", request |-> call[t].request,
                 outcome |-> answer[1].of.completion]
<1>2. c = [at |-> Phase(t)', request |-> call'[t].request, outcome |-> Outcome(t)']
  BY <1>1 DEF Phase, Outcome, CompletionOf, None
<1>3. CallView' = [CallView EXCEPT ![t] = c]
  BY <1>1, <1>2, ViewMoves
<1>4. CallView[t].request = call[t].request
  BY DEF CallView
<1>5. OnItsWay' = <<>> /\ queue' = ClosedBy(t, queue)
  BY DEF Return, OnItsWay, Empty
<1> QED
  BY <1>3, <1>4, <1>5, HolderAlone DEF Calls!End, Calls!GivenUpBy, ClosedBy

LEMMA FailureSeen ==
  ASSUME PldmInv, NEW t \in Callers, InExchange(t), Return(t, Failed), agent' = agent
  PROVE  Calls!Fail(t)
<1>1. Failed # <<>> /\ Failed[1].of.completion = "failed"
  BY DEF Failed
<1>2. Calls!End(t, "failed")
  BY <1>1, ReturnEnds
<1>3. CallView[t].at \in {"asking", "waiting"}
  BY DEF CallView, Phase, InExchange
<1> QED
  BY <1>2, <1>3 DEF Calls!Fail

\* A request is made, first of the mutex, then of the agent.
LEMMA RequestSeen ==
  ASSUME PldmInv, NEW t \in Callers, NEW r \in Requests(t), Request(t, r)
  PROVE  Calls!Ask(t, r)
<1>1. /\ call[t].at = "idle"
      /\ call'[t] = [at |-> "locking", request |-> r, answer |-> None]
      /\ \A u \in Callers \ {t} : call'[u] = call[u]
      /\ UNCHANGED <<rx, queue, inbox, agent>>
  BY DEF Request, PldmInv, Typing
<1> DEFINE c == [at |-> "asking", request |-> r, outcome |-> "none"]
<1>2. c = [at |-> Phase(t)', request |-> call'[t].request, outcome |-> Outcome(t)']
  BY <1>1 DEF Phase, Outcome
<1>3. CallView' = [CallView EXCEPT ![t] = c]
  BY <1>1, <1>2, ViewMoves
<1>4. CallView[t].at = "idle" /\ OnItsWay' = OnItsWay
  BY <1>1 DEF CallView, Phase, OnItsWay
<1> QED
  BY <1>1, <1>3, <1>4 DEF Calls!Ask

LEMMA LockSeen ==
  ASSUME PldmInv, NEW t \in Callers, Lock(t)
  PROVE  UNCHANGED <<CallView, queue, OnItsWay, agent>>
<1>1. /\ call[t].at = "locking" /\ call'[t].at = "connecting"
      /\ call'[t].request = call[t].request /\ call'[t].answer = call[t].answer
      /\ \A u \in Callers \ {t} : call'[u] = call[u]
      /\ UNCHANGED <<rx, queue, inbox, agent>>
  BY DEF Lock, PldmInv, Typing
<1>2. \A u \in Callers : /\ Phase(u)' = Phase(u) /\ call'[u].request = call[u].request
                         /\ Outcome(u)' = Outcome(u)
  BY <1>1 DEF Phase, Outcome, CompletionOf
<1> QED
  BY <1>1, <1>2 DEF CallView, OnItsWay

LEMMA ConnectSeen ==
  ASSUME PldmInv, NEW t \in Callers, Connect(t)
  PROVE  Calls!Order(t)
<1>1. /\ call[t].at = "connecting" /\ call'[t].at = "receiving" /\ agent.up
      /\ call'[t].request = call[t].request /\ call'[t].answer = call[t].answer
      /\ \A u \in Callers \ {t} : call'[u] = call[u]
      /\ queue' = Append(queue, [request |-> call[t].request, client |-> t])
      /\ UNCHANGED <<rx, inbox, agent>>
  BY DEF Connect, PldmInv, Typing
<1> DEFINE c == [at |-> "waiting", request |-> call[t].request, outcome |-> Outcome(t)]
<1>2. c = [at |-> Phase(t)', request |-> call'[t].request, outcome |-> Outcome(t)']
  BY <1>1 DEF Phase, Outcome, CompletionOf
<1>3. CallView' = [CallView EXCEPT ![t] = c]
  BY <1>1, <1>2, ViewMoves
<1>4. /\ c = [CallView[t] EXCEPT !.at = "waiting"]
      /\ CallView[t].at = "asking" /\ CallView[t].request = call[t].request
  BY <1>1 DEF CallView, Phase
<1>5. OnItsWay = <<>> /\ OnItsWay' = OnItsWay
  <2>1. \A u \in Callers : call[u].at # "receiving"
    BY <1>1 DEF PldmInv, OneExchange, InExchange
  <2>2. NothingArrives
    BY <2>1 DEF PldmInv, Arriving
  <2> QED
    BY <1>1, <2>2, NothingSeen DEF OnItsWay
<1>6. Calls!Alone(t)
  BY <1>1, HolderAlone DEF InExchange
<1> QED
  BY <1>1, <1>3, <1>4, <1>5, <1>6 DEF Calls!Order

\* A packet is one of those on their way, or ends the exchange.
LEMMA ReceiveSeen ==
  ASSUME PldmInv, NEW t \in Callers, Receive(t)
  PROVE  Calls!Answer(t) \/ Calls!Fail(t) \/ UNCHANGED <<CallView, queue, OnItsWay, agent>>
<1>1. call[t].at = "receiving" /\ inbox # <<>> /\ agent' = agent /\ InExchange(t)
  BY DEF Receive, InExchange
<1>2. PICK late \in BOOLEAN :
        LET result == AddPacket(rx, Head(inbox), late)
        IN  IF result.message # <<>>
            THEN Return(t, IF Accepts(t, result.message) THEN result.message ELSE Failed)
            ELSE IF result.rx = Empty THEN Return(t, Failed)
            ELSE /\ rx' = result.rx
                 /\ inbox' = Tail(inbox)
                 /\ UNCHANGED <<call, queue, serving, hungUp>>
  BY DEF Receive
<1> DEFINE result == AddPacket(rx, Head(inbox), late)
<1>3. PICK response \in Responses : InFlight(response)
  BY <1>1 DEF PldmInv, Arriving, NothingArrives
<1>4. \/ /\ result.message # <<>>
         /\ result.message =
              [i \in 1..PartsOf(response) |-> [of |-> response, part |-> i]]
      \/ result.message = <<>> /\ result.rx = Empty
      \/ /\ result.message = <<>>
         /\ result.rx = Half(response)
         /\ ~response.padded =>
              PartsOf(response) = 2 /\ Tail(inbox) = <<Packet(response, 2)>>
         /\ response.padded => Tail(inbox) = <<Skewed(response)>> \/ Tail(inbox) = <<>>
  BY <1>1, <1>3, NextPacket
<1> HIDE DEF result
<1>5. OnItsWay = <<response.completion>>
  BY <1>3, FlightSeen
<1>6. CASE /\ result.message # <<>>
           /\ result.message =
                [i \in 1..PartsOf(response) |-> [of |-> response, part |-> i]]
  <2>1. Return(t, IF Accepts(t, result.message) THEN result.message ELSE Failed)
    BY <1>2, <1>6 DEF result
  <2>2. result.message[1].of = response
    <3>1. PartsOf(response) \in {1, 2}
      BY PacketsWritten
    <3> QED
      BY <1>6, <3>1
  <2>3. CASE ~Accepts(t, result.message)
    BY <1>1, <2>1, <2>3, FailureSeen
  <2>4. CASE Accepts(t, result.message)
    <3>1. response.completion # "garbage"
      BY <2>2, <2>4 DEF Accepts
    <3>2. Calls!End(t, response.completion)
      BY <1>1, <1>6, <2>1, <2>2, <2>4, ReturnEnds
    <3>3. CallView[t].at = "waiting"
      BY <1>1 DEF CallView, Phase
    <3>4. OnItsWay # <<>> /\ OnItsWay[1] = response.completion
      BY <1>5
    <3> QED
      BY <3>1, <3>2, <3>3, <3>4 DEF Calls!Answer
  <2> QED
    BY <2>3, <2>4
<1>7. CASE result.message = <<>> /\ result.rx = Empty
  <2>1. Return(t, Failed)
    BY <1>2, <1>7 DEF result
  <2> QED
    BY <1>1, <2>1, FailureSeen
<1>8. CASE /\ result.message = <<>>
           /\ result.rx = Half(response)
           /\ ~response.padded =>
                PartsOf(response) = 2 /\ Tail(inbox) = <<Packet(response, 2)>>
           /\ response.padded => Tail(inbox) = <<Skewed(response)>> \/ Tail(inbox) = <<>>
  <2>1. Half(response) # Empty
    <3>1. Half(response).active = TRUE /\ Empty.active = FALSE
      BY DEF Half, Empty
    <3> QED
      BY <3>1
  <2>2. /\ rx' = Half(response) /\ inbox' = Tail(inbox)
        /\ UNCHANGED <<call, queue, agent>>
    BY <1>1, <1>2, <1>8, <2>1 DEF result
  <2>3. InFlight(response)'
    BY <1>8, <2>2 DEF InFlight
  <2>4. OnItsWay' = <<response.completion>>
    BY <2>3, FlightSeen
  <2>5. CallView' = CallView
    BY <2>2 DEF CallView, Phase, Outcome, CompletionOf
  <2> QED
    BY <1>5, <2>2, <2>4, <2>5
<1> QED
  BY <1>4, <1>6, <1>7, <1>8

\* The server handles the oldest request, and replies to whoever still waits for it.
LEMMA ServeSeen ==
  ASSUME PldmInv, Serve
  PROVE  Calls!Execute
<1> DEFINE connection == Head(queue)
           handled    == Handle(agent, connection.request)
           behavior   == BehaviorFor(agent, handled.agent)
<1>1. /\ queue # <<>> /\ agent.up
      /\ agent' = handled.agent
      /\ queue' = Tail(queue)
      /\ IF Reaches(connection) THEN inbox' = inbox \o Sent(behavior, handled.response)
                                ELSE inbox' = inbox
      /\ UNCHANGED <<call, rx>>
  BY DEF Serve
<1>2. CallView' = CallView
  BY <1>1 DEF CallView, Phase, Outcome, CompletionOf
<1>3. NothingArrives
  BY <1>1 DEF PldmInv, Arriving
<1>4. OnItsWay = <<>>
  BY <1>3, NothingSeen
<1> SUFFICES \/ OnItsWay' = <<>>
             \/ connection.client # Nobody /\ OnItsWay' = <<handled.response.completion>>
  BY <1>1, <1>2, <1>4 DEF Calls!Execute
<1>5. CASE ~Reaches(connection)
  <2>1. NothingArrives'
    BY <1>1, <1>3, <1>5 DEF NothingArrives
  <2> QED
    BY <2>1, NothingSeen
<1>6. CASE Reaches(connection)
  <2>1. queue \in Seq(Connections) /\ agent \in Agents
    BY DEF PldmInv, Typing
  <2>2. connection \in Connections
    BY <1>1, <2>1
  <2> DEFINE r == connection.request
  <2>3. r \in AllRequests
    BY <2>2 DEF Connections
  <2>4. handled = Handle(agent, r)
    OBVIOUS
  <2> HIDE DEF handled, connection, r
  <2>5. /\ handled.agent \in Agents /\ handled.response \in Responses
        /\ handled.response.padded = FALSE
    BY <2>1, <2>3, <2>4, HandleFacts
  <2>6. behavior \in Behaviors
    BY <2>1 DEF BehaviorFor, Agents, Behaviors
  <2> HIDE DEF behavior
  <2>7. inbox' = Sent(behavior, handled.response) /\ rx' = Empty
    <3>1. Sent(behavior, handled.response) \in Seq(Packets)
      BY <2>5, <2>6, SentType
    <3>2. inbox' = <<>> \o Sent(behavior, handled.response)
      BY <1>1, <1>3, <1>6 DEF NothingArrives, behavior
    <3>3. <<>> \o Sent(behavior, handled.response) = Sent(behavior, handled.response)
      BY <3>1, ConcatSimplifications
    <3> QED
      BY <1>1, <1>3, <3>2, <3>3 DEF NothingArrives
  <2>8. CASE NothingArrives'
    BY <2>8, NothingSeen
  <2>9. CASE ~NothingArrives'
    <3>1. PICK p \in Responses : p.completion = handled.response.completion /\ InFlight(p)'
      BY <2>5, <2>6, <2>7, <2>9, SentArrives
    <3>2. OnItsWay' = <<p.completion>>
      BY <3>1, FlightSeen
    <3> QED
      BY <1>6, <3>1, <3>2 DEF Reaches, connection
  <2> QED
    BY <2>8, <2>9
<1> QED
  BY <1>5, <1>6

\* What only the server and the connections know of is not seen, restarts are.
LEMMA AgentSeen ==
  ASSUME PldmInv, Wake \/ AgentStops \/ AgentStarts
  PROVE  Calls!Stop \/ Calls!Start \/ UNCHANGED <<CallView, queue, OnItsWay, agent>>
<1>1. UNCHANGED <<call, rx, inbox>>
  BY DEF Wake, AgentStops, AgentStarts
<1>2. UNCHANGED <<CallView, OnItsWay>>
  BY <1>1 DEF CallView, Phase, Outcome, CompletionOf, OnItsWay
<1>3. CASE Wake
  BY <1>2, <1>3 DEF Wake
<1>4. CASE AgentStops
  BY <1>2, <1>4 DEF AgentStops, Calls!Stop
<1>5. CASE AgentStarts
  BY <1>2, <1>5 DEF AgentStarts, Calls!Start
<1> QED
  BY <1>3, <1>4, <1>5

\* Every step of the sockets is one that the callers were promised, or none they see.
LEMMA StepSeen ==
  ASSUME PldmInv, [Next]_vars
  PROVE  [Calls!CallsNext]_(Calls!callsVars)
<1> SUFFICES Calls!CallsNext \/ UNCHANGED <<CallView, queue, OnItsWay, agent>>
  BY DEF Calls!callsVars
<1>1. CASE UNCHANGED vars
  BY <1>1 DEF vars, CallView, Phase, Outcome, CompletionOf, OnItsWay
<1>2. ASSUME NEW t \in Callers, NEW r \in Requests(t), Request(t, r)
      PROVE  Calls!CallsNext
  <2>1. r \in AllRequests
    BY <1>2 DEF AllRequests
  <2> QED
    BY <1>2, <2>1, RequestSeen DEF Calls!CallsNext
<1>3. ASSUME NEW t \in Callers, Client(t)
      PROVE  Calls!CallsNext \/ UNCHANGED <<CallView, queue, OnItsWay, agent>>
  <2>1. CASE Lock(t)
    BY <2>1, LockSeen
  <2>2. CASE Connect(t)
    BY <2>2, ConnectSeen DEF Calls!CallsNext
  <2>3. CASE ConnectFails(t) \/ TimeOut(t) \/ ConnectionClosed(t)
    <3>1. InExchange(t) /\ Return(t, Failed) /\ agent' = agent
      BY <2>3 DEF ConnectFails, TimeOut, ConnectionClosed, InExchange
    <3> QED
      BY <3>1, FailureSeen DEF Calls!CallsNext
  <2>4. CASE Receive(t)
    BY <2>4, ReceiveSeen DEF Calls!CallsNext
  <2> QED
    BY <1>3, <2>1, <2>2, <2>3, <2>4 DEF Client
<1>4. CASE Serve
  BY <1>4, ServeSeen DEF Calls!CallsNext
<1>5. CASE Wake \/ AgentStops \/ AgentStarts
  BY <1>5, AgentSeen DEF Calls!CallsNext
<1> QED
  BY <1>1, <1>2, <1>3, <1>4, <1>5 DEF Next, Server

\* Sockets, packets, timeouts, injected transport faults and restarts together keep the
\* contract of EndpointCalls: in order, at most once, and an answer only to one's own
\* request.
THEOREM ExchangeImplementsCalls == Spec => ImplementsCalls
<1>1. Init => Calls!CallsInit
  <2> SUFFICES ASSUME Init PROVE Calls!CallsInit
    OBVIOUS
  <2>1. CallView = [t \in Callers |-> [at |-> "idle", request |-> NoRequest,
                                       outcome |-> "none"]]
    BY DEF Init, CallView, Phase, Outcome
  <2>2. OnItsWay = <<>>
    BY NothingSeen DEF Init, NothingArrives
  <2> QED
    BY <2>1, <2>2 DEF Init, Calls!CallsInit
<1> QED
  BY <1>1, StepSeen, ExchangeInvariant, PTL DEF Spec, ImplementsCalls, Calls!CallsSpec
=============================================================================
