----------------------------- MODULE EndpointCalls -----------------------------
(***************************************************************************)
(* What requestPldm() promises to the threads of the sensor service,       *)
(* whatever happens to packets, connections and timers: one request at a   *)
(* time is waited for; the agent handles a request at most once, and all   *)
(* in the order in which they were made, perhaps after the caller gave up; *)
(* and an answer is the outcome of handling that very request.             *)
(***************************************************************************)
EXTENDS Sequences

CONSTANTS
  Callers,        \* the threads that call
  AllRequests,    \* what they ask for
  NoRequest,      \* and what they have asked for before their first call
  Nobody,         \* the client of an order that was given up
  FreshAgent,     \* the agent when it starts
  Handle(_, _)    \* the agent a request leaves behind, and its response

VARIABLES
  call,     \* where each thread is, its request and how that ended
  orders,   \* requests the agent has not handled, each with its client
  reply,    \* the completion on its way to the client that waits, as a sequence
  agent

callsVars == <<call, orders, reply, agent>>

CallsInit ==
  /\ call = [t \in Callers |-> [at |-> "idle", request |-> NoRequest, outcome |-> "none"]]
  /\ orders = <<>>
  /\ reply = <<>>
  /\ agent = FreshAgent

\* No other thread waits for the agent.
Alone(t) == \A u \in Callers \ {t} : call[u].at # "waiting"

Ask(t, r) ==
  /\ call[t].at = "idle"
  /\ call' = [call EXCEPT ![t] = [at |-> "asking", request |-> r, outcome |-> "none"]]
  /\ UNCHANGED <<orders, reply, agent>>

Order(t) ==
  /\ call[t].at = "asking"
  /\ agent.up
  /\ Alone(t)
  /\ reply = <<>>
  /\ call' = [call EXCEPT ![t].at = "waiting"]
  /\ orders' = Append(orders, [request |-> call[t].request, client |-> t])
  /\ UNCHANGED <<reply, agent>>

\* The reply may be lost, and nobody gets one to an order that was given up.
Execute ==
  /\ agent.up
  /\ orders # <<>>
  /\ LET order   == Head(orders)
         handled == Handle(agent, order.request)
     IN  /\ agent' = handled.agent
         /\ \/ UNCHANGED reply
            \/ order.client # Nobody /\ reply' = <<handled.response.completion>>
  /\ orders' = Tail(orders)
  /\ UNCHANGED call

\* The orders with those of t given up.
GivenUpBy(t) ==
  [i \in DOMAIN orders |->
     IF orders[i].client = t THEN [orders[i] EXCEPT !.client = Nobody] ELSE orders[i]]

End(t, outcome) ==
  /\ Alone(t)
  /\ call' = [call EXCEPT ![t] = [at |-> "idle", request |-> call[t].request,
                                  outcome |-> outcome]]
  /\ orders' = GivenUpBy(t)
  /\ reply' = <<>>
  /\ UNCHANGED agent

Answer(t) ==
  /\ call[t].at = "waiting"
  /\ reply # <<>>
  /\ reply[1] # "garbage"
  /\ End(t, reply[1])

Fail(t) ==
  /\ call[t].at \in {"asking", "waiting"}
  /\ End(t, "failed")

\* The agent may go at any time, and loses what it has not handled.
Stop ==
  /\ agent.up
  /\ agent' = [agent EXCEPT !.up = FALSE]
  /\ orders' = <<>>
  /\ UNCHANGED <<call, reply>>

Start ==
  /\ ~agent.up
  /\ agent' = FreshAgent
  /\ UNCHANGED <<call, orders, reply>>

CallsNext ==
  \/ \E t \in Callers :
       \/ \E r \in AllRequests : Ask(t, r)
       \/ Order(t) \/ Answer(t) \/ Fail(t)
  \/ Execute \/ Stop \/ Start

CallsSpec == CallsInit /\ [][CallsNext]_callsVars
=============================================================================
