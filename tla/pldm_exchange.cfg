\* Both threads, four faults, responses of one and of two packets, an accept queue
\* that can be full behind a sleeping server, agent restarts, and an agent that may
\* stop doing anything at any moment.
SPECIFICATION ClientSpec
CONSTANTS
  Commands = {"getPdr"}
  Faults = {"out_of_order_packet", "timeout_before_eom", "malformed_response", "unsupported_command"}
  Backlog = 2
INVARIANTS
  AnswersAreGenuine
  ConfirmedFaultHolds
PROPERTIES
  ExchangeEnds
  ImplementsCalls
