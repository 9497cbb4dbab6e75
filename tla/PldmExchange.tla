----------------------------- MODULE PldmExchange -----------------------------
(***************************************************************************)
(* PLDM requests over MCTP in mini-openbmc-platform-service: the threads   *)
(* of the sensor service in requestPldm() and UdsMctpClient::request(),    *)
(* the one thread of UdsMctpServer::run() with the handler of the endpoint *)
(* agent, and the Unix socket between the two processes.                   *)
(*                                                                         *)
(* Time is abstracted: a timeout may strike whenever the client has        *)
(* nothing to receive, and the sleeps of the injected faults are as long   *)
(* as it takes.  Every call has a connection of its own, so its tag is     *)
(* always the expected one and is left out.                                *)
(***************************************************************************)
EXTENDS Reassembler, FiniteSets

CONSTANTS
  Commands,  \* commands other than setFault that the sensor service sends
  Faults,    \* faults it installs
  Backlog    \* connections that wait to be accepted before connect() blocks

TransportFaults ==
  {"packet_loss", "out_of_order_packet", "sequence_mismatch", "timeout_before_eom",
   "malformed_response"}

EndpointFaults == {"unsupported_command", "bad_completion_code", "sensor_unavailable"}

Eids == {"gpu", "nic"}

ASSUME CommandsAssumption == Commands \subseteq {"getTid", "getPdr", "getSensorReading"}
ASSUME FaultsAssumption == Faults \subseteq TransportFaults \cup EndpointFaults
ASSUME BacklogAssumption == Backlog \in Nat \ {0}

\* setFault always goes to the GPU's EID; "none" is how a fault is cleared.
SetFault(f) == [command |-> "setFault", eid |-> "gpu", fault |-> f]

Inquiries == [command : Commands, eid : Eids, fault : {""}]

\* The polling thread only asks; the thread that runs discovery and then serves
\* D-Bus also sets faults.
Callers == {"poll", "dbus"}

Requests(t) ==
  IF t = "poll" THEN Inquiries
  ELSE Inquiries \cup {SetFault(f) : f \in Faults \cup {"none"}}

Nobody == "nobody"  \* the client of a connection that it has closed
NoRequest == [command |-> "", eid |-> "gpu", fault |-> ""]

-----------------------------------------------------------------------------
(* The endpoint agent.                                                      *)

\* A new agent process.
FreshAgent ==
  [up |-> TRUE, transport |-> "", behavior |-> "none", fault |-> [e \in Eids |-> ""]]

\* What the server does for a transport fault; malformed responses are made by the
\* handler.
Behavior(f) == IF f = "malformed_response" THEN "none" ELSE f

\* Mutation of Install: the transport fault is not cleared.
InstallKeepsTransport(a, f) ==
  IF f \in TransportFaults
  THEN [a EXCEPT !.transport = f, !.behavior = Behavior(f)]
  ELSE [a EXCEPT !.behavior = "none", !.fault = [e \in Eids |-> f]]

\* A transport fault leaves the endpoints alone, any other replaces it.
Install(a, f) ==
  IF f \in TransportFaults
  THEN [a EXCEPT !.transport = f, !.behavior = Behavior(f)]
  ELSE [a EXCEPT !.transport = "", !.behavior = "none", !.fault = [e \in Eids |-> f]]

\* Completion code of a responder whose fault is f.
Completion(f, r) ==
  CASE r.command = "getTid" -> "success"
    [] f = "unsupported_command" -> "invalidCommand"
    [] f = "bad_completion_code" -> "error"
    [] f = "sensor_unavailable" /\ r.command = "getSensorReading" -> "unavailable"
    [] OTHER -> "success"

\* handle(): the agent it leaves and its response.  The responder of the GPU
\* stores the fault once more, unless an older fault makes it refuse the command.
Handle(a, r) ==
  LET control   == r.command = "setFault"
      installed == IF control THEN Install(a, r.fault) ELSE a
      code      == Completion(installed.fault[r.eid], r)
      response(c) == [request |-> r, completion |-> c, padded |-> FALSE]
  IN  IF a.transport = "malformed_response" /\ ~control
      THEN [agent |-> a, response |-> response("garbage")]
      ELSE [agent |-> IF control /\ code = "success"
                      THEN [installed EXCEPT !.fault[r.eid] = r.fault]
                      ELSE installed,
            response |-> response(code)]

\* The answer to the request that changes the behaviour is sent without fault.
BehaviorFor(before, after) ==
  IF before.behavior = after.behavior THEN before.behavior ELSE "none"

\* The longest record of the GPU, its third, needs two packets; every other response
\* fits into one.
PartsOf(response) ==
  IF \/ response.padded
     \/ /\ response.request.command = "getPdr"
        /\ response.request.eid = "gpu"
        /\ response.completion = "success"
  THEN 2 ELSE 1

PacketsOf(response) ==
  [i \in 1..PartsOf(response) |->
     [som |-> i = 1, eom |-> i = PartsOf(response), sequence |-> i - 1, tag |-> 0,
      payload |-> [of |-> response, part |-> i]]]

\* sendPacketsWithBehavior(): what goes out before it sleeps or returns.
Sent(behavior, response) ==
  LET p == PacketsOf([response EXCEPT !.padded = TRUE])
  IN  CASE behavior = "none" -> PacketsOf(response)
        [] behavior = "packet_loss" -> <<>>
        [] behavior = "out_of_order_packet" -> <<p[2], p[1]>>
        [] behavior = "sequence_mismatch" -> <<p[1], [p[2] EXCEPT !.sequence = 2]>>
        [] behavior = "timeout_before_eom" -> <<p[1]>>

-----------------------------------------------------------------------------
VARIABLES
  call,      \* where each thread is, its request and the answer to it
  rx,        \* the Reassembler of the call in progress
  queue,     \* connections not yet accepted, each a request and its client
  serving,   \* the connection over which the server sleeps, as a sequence
  inbox,     \* packets the client in progress has not received
  hungUp,    \* its connection was closed by the server
  agent      \* the agent's faults

vars == <<call, rx, queue, serving, inbox, hungUp, agent>>

\* An answer is a message, the sequence of the pieces that were put together.
None == <<>>
Failed ==
  <<[of |-> [request |-> NoRequest, completion |-> "failed", padded |-> FALSE], part |-> 0]>>

Init ==
  /\ call = [t \in Callers |-> [at |-> "idle", request |-> NoRequest, answer |-> None]]
  /\ rx = Empty
  /\ queue = <<>>
  /\ serving = <<>>
  /\ inbox = <<>>
  /\ hungUp = FALSE
  /\ agent = FreshAgent

-----------------------------------------------------------------------------
(* The client.                                                              *)

InExchange(t) == call[t].at \in {"connecting", "receiving"}

MutexFree == \A t \in Callers : ~InExchange(t)

\* The connections with those of client t closed at its end.
ClosedBy(t, connections) ==
  [i \in DOMAIN connections |->
     IF connections[i].client = t THEN [connections[i] EXCEPT !.client = Nobody]
     ELSE connections[i]]

\* request() returns, requestPldm() releases mctpMutex_.
Return(t, answer) ==
  /\ call' = [call EXCEPT ![t].at = "idle", ![t].answer = answer]
  /\ rx' = Empty
  /\ queue' = ClosedBy(t, queue)
  /\ serving' = ClosedBy(t, serving)
  /\ inbox' = <<>>
  /\ hungUp' = FALSE

Request(t, r) ==
  /\ call[t].at = "idle"
  /\ call' = [call EXCEPT ![t] = [at |-> "locking", request |-> r, answer |-> None]]
  /\ UNCHANGED <<rx, queue, serving, inbox, hungUp, agent>>

Lock(t) ==
  /\ call[t].at = "locking"
  /\ MutexFree
  /\ call' = [call EXCEPT ![t].at = "connecting"]
  /\ UNCHANGED <<rx, queue, serving, inbox, hungUp, agent>>

Connect(t) ==
  /\ call[t].at = "connecting"
  /\ agent.up
  /\ Len(queue) < Backlog
  /\ call' = [call EXCEPT ![t].at = "receiving"]
  /\ queue' = Append(queue, [request |-> call[t].request, client |-> t])
  /\ UNCHANGED <<rx, serving, inbox, hungUp, agent>>

ConnectFails(t) ==
  /\ call[t].at = "connecting"
  /\ ~agent.up
  /\ Return(t, Failed)
  /\ UNCHANGED agent

\* Nothing to receive.
Silent == inbox = <<>> /\ ~hungUp

TimeOut(t) ==
  /\ call[t].at = "receiving"
  /\ Silent
  /\ Return(t, Failed)
  /\ UNCHANGED agent

\* recv() returns 0 when the server has closed and all packets were read.
ConnectionClosed(t) ==
  /\ call[t].at = "receiving"
  /\ inbox = <<>>
  /\ hungUp
  /\ Return(t, Failed)
  /\ UNCHANGED agent

\* Mutation of Accepts: what cannot be decoded is taken for a response.
AcceptsUndecoded(t, message) ==
  message[1].of.request.command = call[t].request.command

\* decode() and the comparison of the headers in requestPldm().
Accepts(t, message) ==
  /\ message[1].of.completion # "garbage"
  /\ message[1].of.request.command = call[t].request.command

Receive(t) ==
  /\ call[t].at = "receiving"
  /\ inbox # <<>>
  /\ \E late \in BOOLEAN :
       LET result == AddPacket(rx, Head(inbox), late)
       IN  IF result.message # <<>>
           THEN Return(t, IF Accepts(t, result.message) THEN result.message ELSE Failed)
           ELSE IF result.rx = Empty THEN Return(t, Failed)
           ELSE /\ rx' = result.rx
                /\ inbox' = Tail(inbox)
                /\ UNCHANGED <<call, queue, serving, hungUp>>
  /\ UNCHANGED agent

-----------------------------------------------------------------------------
(* The server.                                                              *)

\* Mutation of Reaches: a response goes to whoever is waiting for one.
ReachesAnyone(connection) == \E t \in Callers : call[t].at = "receiving"

\* The client has not closed its end.
Reaches(connection) == connection.client # Nobody

\* Whether the server then sleeps over its connection: for timeout_before_eom only
\* once the packet could be sent.
Sleeps(behavior, connection) ==
  behavior = "packet_loss" \/ (behavior = "timeout_before_eom" /\ Reaches(connection))

\* accept4(), the handler, the response and, unless it sleeps, close().
Serve ==
  /\ agent.up
  /\ serving = <<>>
  /\ queue # <<>>
  /\ LET connection == Head(queue)
         handled    == Handle(agent, connection.request)
         behavior   == BehaviorFor(agent, handled.agent)
     IN  /\ agent' = handled.agent
         /\ queue' = Tail(queue)
         /\ serving' = IF Sleeps(behavior, connection) THEN <<connection>> ELSE <<>>
         /\ IF Reaches(connection)
            THEN /\ inbox' = inbox \o Sent(behavior, handled.response)
                 /\ hungUp' = ~Sleeps(behavior, connection)
            ELSE UNCHANGED <<inbox, hungUp>>
  /\ UNCHANGED <<call, rx>>

\* Mutation of Served: the connection is not closed after the sleep.
ServedLeftOpen == serving

Served == <<>>

\* The sleep of an injected fault ends and the connection is closed.
Wake ==
  /\ serving # <<>>
  /\ serving' = Served
  /\ hungUp' = (hungUp \/ Reaches(serving[1]))
  /\ UNCHANGED <<call, rx, queue, inbox, agent>>

\* stop() closes the listening socket and with it the connections that wait; a
\* response that sleeps is finished first.  A crash is the same, with Wake at once.
AgentStops ==
  /\ agent.up
  /\ agent' = [agent EXCEPT !.up = FALSE]
  /\ queue' = <<>>
  /\ hungUp' = (hungUp \/ \E i \in DOMAIN queue : Reaches(queue[i]))
  /\ UNCHANGED <<call, rx, serving, inbox>>

\* A new process, once the old one is gone.
AgentStarts ==
  /\ ~agent.up
  /\ serving = <<>>
  /\ agent' = FreshAgent
  /\ UNCHANGED <<call, rx, queue, serving, inbox, hungUp>>

-----------------------------------------------------------------------------
Client(t) ==
  \/ Lock(t)
  \/ Connect(t)
  \/ ConnectFails(t)
  \/ TimeOut(t)
  \/ ConnectionClosed(t)
  \/ Receive(t)

Server == Serve \/ Wake

Next ==
  \/ \E t \in Callers : \E r \in Requests(t) : Request(t, r)
  \/ \E t \in Callers : Client(t)
  \/ Server
  \/ AgentStops
  \/ AgentStarts

Spec == Init /\ [][Next]_vars

\* The operating system runs the client's threads once they hold the mutex.
ClientFairness == \A t \in Callers : WF_vars(Client(t) /\ InExchange(t))

ClientSpec == Spec /\ ClientFairness

\* A prompt run: the agent stays up, nobody is late, and a client gives up only
\* when the server sleeps over its own connection.
PromptTimeOut ==
  serving # <<>> /\ \E t \in Callers : serving[1].client = t /\ TimeOut(t)

PromptNext ==
  \/ \E t \in Callers : \E r \in Requests(t) : Request(t, r)
  \/ \E t \in Callers : Lock(t) \/ Connect(t) \/ ConnectionClosed(t) \/ Receive(t)
  \/ PromptTimeOut
  \/ Server

PromptSpec == Init /\ [][PromptNext]_vars

-----------------------------------------------------------------------------
(* Properties                                                               *)

AllRequests == UNION {Requests(t) : t \in Callers}

Responses == [request : AllRequests \cup {NoRequest},
              completion : {"success", "invalidCommand", "error", "unavailable",
                            "garbage", "failed"},
              padded : BOOLEAN]

Pieces == [of : Responses, part : 0..2]

Packets == [som : BOOLEAN, eom : BOOLEAN, sequence : 0..2, tag : {0}, payload : Pieces]

TypeOK ==
  /\ \A t \in Callers :
       /\ call[t].at \in {"idle", "locking", "connecting", "receiving"}
       /\ call[t].request \in Requests(t) \cup {NoRequest}
       /\ call[t].answer \in Seq(Pieces)
  /\ rx.active \in BOOLEAN /\ rx.expected \in 0..3 /\ rx.payload \in Seq(Pieces)
  /\ queue \in Seq([request : AllRequests, client : Callers \cup {Nobody}])
  /\ serving = <<>> \/ serving[1].client \in Callers \cup {Nobody}
  /\ inbox \in Seq(Packets)
  /\ hungUp \in BOOLEAN
  /\ agent.transport \in TransportFaults \cup {""}
  /\ agent.behavior \in (TransportFaults \ {"malformed_response"}) \cup {"none"}
  /\ agent.fault \in [Eids -> Faults \cup {"", "none"}]

Answered(t) == call[t].at = "idle" /\ call[t].answer \notin {None, Failed}

CompletionOf(t) == call[t].answer[1].of.completion

\* The completion that is on its way to the client.
OnItsWay ==
  IF rx.payload # <<>> THEN <<rx.payload[1].of.completion>>
  ELSE IF inbox # <<>> THEN <<inbox[1].payload.of.completion>>
  ELSE <<>>

Phase(t) ==
  CASE call[t].at = "idle" -> "idle"
    [] call[t].at \in {"locking", "connecting"} -> "asking"
    [] call[t].at = "receiving" -> "waiting"

Outcome(t) == IF call[t].answer = None THEN "none" ELSE CompletionOf(t)

CallView ==
  [t \in Callers |-> [at |-> Phase(t), request |-> call[t].request, outcome |-> Outcome(t)]]

Calls == INSTANCE EndpointCalls WITH
  call   <- CallView,
  orders <- queue,
  reply  <- OnItsWay

\* For its callers an exchange is one of EndpointCalls: connections are served in the
\* order in which they were made, each at most once and some too late, and a thread
\* gets the completion of its own request or none (uds_mctp_transport.cpp:203 to 238,
\* sensor_manager.cpp:540 to 571).
ImplementsCalls == Calls!CallsSpec

\* What the agent's state is once f was set.
Shows(a, f) ==
  IF f \in TransportFaults
  THEN a.transport = f /\ a.behavior = Behavior(f)
  ELSE a.transport = "" /\ a.behavior = "none" /\ \A e \in Eids : a.fault[e] = f

\* An answer is the complete response to the very request that was made: nothing of
\* another call, nothing padded, reordered or cut short by an injected fault
\* (uds_mctp_transport.cpp:68, sensor_manager.cpp:557).
AnswersAreGenuine ==
  \A t \in Callers : Answered(t) =>
    LET response == call[t].answer[1].of
    IN  /\ response.request = call[t].request
        /\ ~response.padded
        /\ call[t].answer = [i \in 1..PartsOf(response) |-> [of |-> response, part |-> i]]

\* Once a setFault is confirmed, the agent is in the state it asked for, unless it
\* was restarted: no older request that timed out can still come and undo it
\* (uds_mctp_transport.cpp:203, endpoint_agent.cpp:55 to 73).
ConfirmedFaultHolds ==
  /\ Answered("dbus")
  /\ call["dbus"].request.command = "setFault"
  /\ CompletionOf("dbus") = "success"
  => /\ \A i \in DOMAIN queue : queue[i].request.command # "setFault"
     /\ ~agent.up \/ agent = FreshAgent \/ Shows(agent, call["dbus"].request.fault)

\* A thread that holds mctpMutex_ gives it back, also when it has to wait for room
\* in the accept queue, provided the agent is scheduled (sensor_manager.cpp:540).
ExchangeEnds ==
  WF_vars(Server) => \A t \in Callers : InExchange(t) ~> ~InExchange(t)

\* When setEndpointFault() reports that the injection failed, be it that the endpoint
\* "rejected" it (sensor_manager.cpp:517) or that no answer came, the fault is not in
\* force.
FailedIsNotInForce ==
  /\ call["dbus"].at = "idle"
  /\ call["dbus"].request.command = "setFault"
  /\ call["dbus"].answer = Failed \/ CompletionOf("dbus") # "success"
  => ~Shows(agent, call["dbus"].request.fault)
=============================================================================
