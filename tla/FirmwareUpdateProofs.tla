------------------------- MODULE FirmwareUpdateProofs -------------------------
(***************************************************************************)
(* What holds of FirmwareUpdateManager for every set of requests and every *)
(* interleaving: type correctness, ownership of the worker thread, and     *)
(* safety of clients that wait for their answers.                          *)
(***************************************************************************)
EXTENDS FirmwareUpdateManager, TLAPS, SequenceTheorems

-----------------------------------------------------------------------------
(* The workflow script consists of known steps only.                        *)

\* The empty script.
LEMMA NoSteps == <<>> \in Seq(Steps)
OBVIOUS

\* setStatus() is two steps: store, then notify.
LEMMA SetStatusType ==
  ASSUME NEW s \in States, NEW b \in BOOLEAN
  PROVE  SetStatus(s, b) \in Seq(Steps)
BY DEF SetStatus, Steps

\* Logging a known event is a step.
LEMMA LogType ==
  ASSUME NEW e \in Events
  PROVE  Log(e) \in Steps
BY DEF Log, Steps

\* Scripts can be written out.
LEMMA TwoSteps ==
  ASSUME NEW a \in Steps, NEW b \in Steps
  PROVE  <<a, b>> \in Seq(Steps)
OBVIOUS

\* Each failure branch of runUpdateWorkflow() is a script.
LEMMA FailureType ==
  ASSUME NEW e \in Events
  PROVE  Failure(e) \in Seq(Steps)
<1>1. Log(e) \in Steps /\ Log("FW_ROLLBACK_TRIGGERED") \in Steps
  BY LogType DEF Events
<1>2. SetStatus("Rollback", FALSE) \in Seq(Steps)
  BY SetStatusType DEF States
<1>3. <<Log(e), Log("FW_ROLLBACK_TRIGGERED")>> \in Seq(Steps)
  BY <1>1, TwoSteps
<1> QED
  BY <1>2, <1>3, ConcatProperties DEF Failure

\* What follows a successful verification is a script.
LEMMA InstallType == Install \in Seq(Steps)
<1>1. /\ SetStatus("Installing", TRUE) \in Seq(Steps)
      /\ SetStatus("RebootPending", TRUE) \in Seq(Steps)
      /\ SetStatus("Completed", FALSE) \in Seq(Steps)
  BY SetStatusType DEF States
<1>2. <<Log("FW_UPDATE_COMPLETED")>> \in Seq(Steps)
  BY LogType DEF Events
<1> DEFINE a == SetStatus("Installing", TRUE)
           b == SetStatus("RebootPending", TRUE)
           c == SetStatus("Completed", FALSE)
<1>3. a \o b \in Seq(Steps)
  BY <1>1, ConcatProperties
<1>4. (a \o b) \o c \in Seq(Steps)
  BY <1>1, <1>3, ConcatProperties
<1>5. ((a \o b) \o c) \o <<Log("FW_UPDATE_COMPLETED")>> \in Seq(Steps)
  BY <1>2, <1>4, ConcatProperties
<1> QED
  BY <1>5 DEF Install

\* Whatever the image, runUpdateWorkflow only logs, sets states and notifies.
\* So is the whole workflow, for whatever image URI.
LEMMA WorkflowType == \A u : Workflow(u) \in Seq(Steps)
<1> SUFFICES ASSUME NEW u PROVE Workflow(u) \in Seq(Steps)
  OBVIOUS
<1>1. /\ SetStatus("Downloading", TRUE) \in Seq(Steps)
      /\ SetStatus("Verifying", TRUE) \in Seq(Steps)
      /\ SetStatus("Installing", TRUE) \in Seq(Steps)
  BY SetStatusType DEF States
<1>2. /\ << <<"clearStop">>, Log("FW_UPDATE_STARTED")>> \in Seq(Steps)
      /\ << <<"checkStop">>, Log("FW_VERIFY_STARTED")>> \in Seq(Steps)
      /\ <<Log("FW_INSTALL_STARTED")>> \in Seq(Steps)
  BY LogType DEF Events, Steps
<1>3. Failure("FW_VERIFY_FAILED") \in Seq(Steps) /\ Failure("FW_UPDATE_FAILED") \in Seq(Steps)
  BY FailureType DEF Events
<1>4. SetStatus("Installing", TRUE) \o Failure("FW_UPDATE_FAILED") \in Seq(Steps)
  BY <1>1, <1>3, ConcatProperties
<1> DEFINE InstallPart == IF u = "install-fail"
                          THEN SetStatus("Installing", TRUE) \o Failure("FW_UPDATE_FAILED")
                          ELSE Install
           VerifyPart  == IF u = "bad" THEN Failure("FW_VERIFY_FAILED")
                          ELSE <<Log("FW_INSTALL_STARTED")>> \o InstallPart
           a == << <<"clearStop">>, Log("FW_UPDATE_STARTED")>>
           b == SetStatus("Downloading", TRUE)
           c == << <<"checkStop">>, Log("FW_VERIFY_STARTED")>>
           d == SetStatus("Verifying", TRUE)
<1>5. InstallPart \in Seq(Steps)
  BY <1>4, InstallType
<1>6. <<Log("FW_INSTALL_STARTED")>> \o InstallPart \in Seq(Steps)
  BY <1>2, <1>5, ConcatProperties
<1>7. VerifyPart \in Seq(Steps)
  BY <1>3, <1>6
<1>8. Workflow(u) = (((a \o b) \o c) \o d) \o VerifyPart
  BY DEF Workflow
<1> HIDE DEF VerifyPart, a, b, c, d
<1>9. a \in Seq(Steps) /\ b \in Seq(Steps) /\ c \in Seq(Steps) /\ d \in Seq(Steps)
  BY <1>1, <1>2 DEF a, b, c, d
<1>10. a \o b \in Seq(Steps)
  BY <1>9, ConcatProperties
<1>11. (a \o b) \o c \in Seq(Steps)
  BY <1>9, <1>10, ConcatProperties
<1>12. ((a \o b) \o c) \o d \in Seq(Steps)
  BY <1>9, <1>11, ConcatProperties
<1> QED
  BY <1>7, <1>8, <1>12, ConcatProperties

\* What a "set" step carries can be stored in status_.
LEMMA SetStep ==
  ASSUME NEW x \in Steps, x[1] = "set"
  PROVE  x[2] \in States /\ x[3] \in BOOLEAN
BY DEF Steps

\* What a worker about to execute a step has at the head of its script.
LEMMA ExecutesType ==
  ASSUME TypeOK, NEW w \in Requests, NEW step, Executes(w, step)
  PROVE  /\ Head(todo[w]) \in Steps
         /\ Head(todo[w])[1] = step
         /\ Tail(todo[w]) \in Seq(Steps)
<1>1. todo[w] \in Seq(Steps) /\ todo[w] # <<>>
  BY DEF TypeOK, Executes
<1> QED
  BY <1>1, HeadTailProperties DEF Executes

-----------------------------------------------------------------------------
(* Type correctness.                                                        *)

\* The initial state has the types.
LEMMA InitType == Init => TypeOK
<1> SUFFICES ASSUME Init PROVE TypeOK
  OBVIOUS
<1>1. todo \in [Requests -> Seq(Steps)]
  BY NoSteps DEF Init
<1> QED
  BY <1>1 DEF Init, TypeOK, Codes, States

\* startUpdate(), step by step, keeps the types.
LEMMA SessionType ==
  ASSUME TypeOK, NEW r \in Requests, Session(r)
  PROVE  TypeOK'
<1> USE DEF TypeOK, At, Goto, Codes, sessionVars, workerVars, mainVars
<1>1. CASE RejectEmptyUri(r)
  BY <1>1 DEF RejectEmptyUri, Answer
<1>2. CASE CheckBusy(r)
  BY <1>2 DEF CheckBusy, Answer
<1>3. CASE TestJoinable(r)
  BY <1>3 DEF TestJoinable
<1>4. CASE Join(r)
  BY <1>4 DEF Join, Terminate
<1>5. CASE JoinReturns(r)
  BY <1>5 DEF JoinReturns
<1>6. CASE RecordAccepted(r)
  BY <1>6 DEF RecordAccepted
<1>7. CASE CreateThread(r)
  BY <1>7, WorkflowType DEF CreateThread
<1>8. CASE AssignThread(r)
  BY <1>8 DEF AssignThread, Answer, Terminate
<1> QED
  BY <1>1, <1>2, <1>3, <1>4, <1>5, <1>6, <1>7, <1>8 DEF Session

\* The worker keeps the types.
LEMMA WorkerType ==
  ASSUME TypeOK, NEW w \in Requests, Worker(w)
  PROVE  TypeOK'
<1> USE DEF sessionVars, mainVars
<1>1. ASSUME NEW step, Executes(w, step), Advance(w)
      PROVE  todo' \in [Requests -> Seq(Steps)]
  BY <1>1, ExecutesType DEF TypeOK, Advance
<1>2. CASE ClearStop(w)
  <2>1. todo' \in [Requests -> Seq(Steps)]
    BY <1>1, <1>2 DEF ClearStop
  <2> QED
    BY <1>2, <2>1 DEF ClearStop, TypeOK
<1>3. CASE LogEvent(w)
  <2>1. todo' \in [Requests -> Seq(Steps)]
    BY <1>1, <1>3 DEF LogEvent
  <2> QED
    BY <1>3, <2>1 DEF LogEvent, TypeOK
<1>4. CASE SetStatusLocked(w)
  <2>1. todo' \in [Requests -> Seq(Steps)]
    BY <1>1, <1>4 DEF SetStatusLocked
  <2>2. Head(todo[w])[2] \in States /\ Head(todo[w])[3] \in BOOLEAN
    BY <1>4, ExecutesType, SetStep DEF SetStatusLocked
  <2> QED
    BY <1>4, <2>1, <2>2 DEF SetStatusLocked, TypeOK
<1>5. CASE NotifyStateChange(w)
  <2>1. todo' \in [Requests -> Seq(Steps)]
    BY <1>1, <1>5 DEF NotifyStateChange
  <2> QED
    BY <1>5, <2>1 DEF NotifyStateChange, TypeOK
<1>6. CASE CheckStop(w)
  <2>1. todo' \in [Requests -> Seq(Steps)]
    BY <1>1, <1>6, NoSteps DEF CheckStop, TypeOK
  <2> QED
    BY <1>6, <2>1 DEF CheckStop, TypeOK
<1>7. CASE Return(w)
  BY <1>7 DEF Return, TypeOK
<1> QED
  BY <1>2, <1>3, <1>4, <1>5, <1>6, <1>7 DEF Worker

\* Every step keeps the types.
LEMMA NextType ==
  ASSUME TypeOK, [Next]_vars
  PROVE  TypeOK'
<1> USE DEF sessionVars, workerVars, mainVars
<1>1. CASE UNCHANGED vars
  BY <1>1 DEF vars, TypeOK
<1>2. ASSUME NEW r \in Requests, Post(r) PROVE TypeOK'
  BY <1>2 DEF Post, TypeOK, Goto
<1>3. ASSUME NEW r \in Requests, Session(r) PROVE TypeOK'
  BY <1>3, SessionType
<1>4. ASSUME NEW r \in Requests, Worker(r) PROVE TypeOK'
  BY <1>4, WorkerType
<1>5. CASE StopServer
  BY <1>5 DEF StopServer, TypeOK
<1>6. CASE RequestStop
  BY <1>6 DEF RequestStop, TypeOK
<1>7. CASE DestructorJoin
  BY <1>7 DEF DestructorJoin, Terminate, TypeOK
<1>8. CASE DestructorJoinReturns
  BY <1>8 DEF DestructorJoinReturns, TypeOK
<1>9. CASE Exit
  BY <1>9 DEF Exit, TypeOK
<1>10. CASE UseAfterDestroy
  BY <1>10 DEF UseAfterDestroy, Terminate, TypeOK
<1>11. CASE Quiescent
  BY <1>11, <1>1 DEF Quiescent
<1> QED
  BY <1>1, <1>2, <1>3, <1>4, <1>5, <1>6, <1>7, <1>8, <1>9, <1>10, <1>11
     DEF Next, Destructor

\* Every member and every thread of the manager keeps to its values, whatever
\* the requests, the images and the interleaving.
THEOREM TypeCorrect == Spec => []TypeOK
<1>1. Init => TypeOK
  BY InitType
<1>2. TypeOK /\ [Next]_vars => TypeOK'
  BY NextType
<1> QED
  BY <1>1, <1>2, PTL DEF Spec

-----------------------------------------------------------------------------
(* Ownership of the worker thread.                                          *)

\* Only AssignThread, JoinReturns and DestructorJoinReturns write workerThread_,
\* only CreateThread starts a worker and only AssignThread ends an assignment.
LEMMA NextOwned ==
  ASSUME TypeOK, WorkerOwned, [Next]_vars
  PROVE  WorkerOwned'
<1> USE DEF sessionVars, workerVars, mainVars, Alive, Running
<1>1. CASE UNCHANGED vars
  BY <1>1 DEF vars, WorkerOwned
<1>2. ASSUME NEW r \in Requests, Post(r) PROVE WorkerOwned'
  BY <1>2 DEF Post, At, Goto, WorkerOwned, TypeOK
<1>3. ASSUME NEW r \in Requests, Session(r) PROVE WorkerOwned'
  <2> USE <1>3 DEF At, Goto, WorkerOwned, TypeOK
  <2>1. CASE RejectEmptyUri(r)
    BY <2>1 DEF RejectEmptyUri, Answer
  <2>2. CASE CheckBusy(r)
    BY <2>2 DEF CheckBusy, Answer
  <2>3. CASE TestJoinable(r)
    BY <2>3 DEF TestJoinable
  <2>4. CASE Join(r)
    BY <2>4 DEF Join, Terminate
  <2>5. CASE JoinReturns(r)
    BY <2>5 DEF JoinReturns, Joined
  <2>6. CASE RecordAccepted(r)
    BY <2>6 DEF RecordAccepted
  <2>7. CASE CreateThread(r)
    BY <2>7 DEF CreateThread
  <2>8. CASE AssignThread(r)
    <3>1. CASE workerThread # None
      BY <2>8, <3>1 DEF AssignThread, Terminate
    <3>2. CASE workerThread = None
      <4>1. \A w \in Requests : thread[w] = "running" => session[w] = "assign"
        BY <2>8, <3>2, NoneAssumption DEF AssignThread
      <4>2. /\ workerThread' = r
            /\ thread' = thread
            /\ session' = [session EXCEPT ![r] = "done"]
        BY <2>8, <3>2 DEF AssignThread, Answer
      <4> QED
        BY <4>1, <4>2
    <3> QED
      BY <3>1, <3>2
  <2> QED
    BY <2>1, <2>2, <2>3, <2>4, <2>5, <2>6, <2>7, <2>8 DEF Session
<1>4. ASSUME NEW w \in Requests, Worker(w) PROVE WorkerOwned'
  BY <1>4 DEF Worker, ClearStop, LogEvent, SetStatusLocked, NotifyStateChange,
              CheckStop, Return, WorkerOwned, TypeOK
<1>5. CASE StopServer
  BY <1>5 DEF StopServer, WorkerOwned
<1>6. CASE RequestStop
  BY <1>6 DEF RequestStop, WorkerOwned
<1>7. CASE DestructorJoin
  BY <1>7 DEF DestructorJoin, Terminate, WorkerOwned
<1>8. CASE DestructorJoinReturns
  BY <1>8 DEF DestructorJoinReturns, WorkerOwned
<1>9. CASE Exit
  BY <1>9 DEF Exit, WorkerOwned
<1>10. CASE UseAfterDestroy
  BY <1>10 DEF UseAfterDestroy, Terminate, WorkerOwned
<1>11. CASE Quiescent
  BY <1>11, <1>1 DEF Quiescent
<1> QED
  BY <1>1, <1>2, <1>3, <1>4, <1>5, <1>6, <1>7, <1>8, <1>9, <1>10, <1>11
     DEF Next, Destructor

\* No worker is ever left running unowned: every interleaving of any number of
\* sessions, the worker and the destructor keeps the running worker reachable
\* through workerThread_ or in the hands of its creator.
THEOREM WorkerAlwaysOwned == Spec => []WorkerOwned
<1>1. Init => WorkerOwned
  BY DEF Init, WorkerOwned, Running
<1>2. TypeOK /\ WorkerOwned /\ [Next]_vars => WorkerOwned'
  BY NextOwned
<1> QED
  BY <1>1, <1>2, TypeCorrect, PTL DEF Spec

\* Two workflows run together only while one creator stands before the
\* assignment on line 52 that ends the process.
THEOREM OverlapAlwaysFatal == Spec => []OverlapIsFatal
<1>1. WorkerOwned => OverlapIsFatal
  BY DEF WorkerOwned, OverlapIsFatal, Running
<1> QED
  BY <1>1, WorkerAlwaysOwned, PTL

-----------------------------------------------------------------------------
(* Clients that wait for every answer.                                      *)

\* The handle is empty from the join to the assignment, and full while its
\* worker is waited for.
HandleKept ==
  \A r \in Requests :
    /\ session[r] \in {"record", "create", "assign"} => workerThread = None
    /\ session[r] \in {"join", "joining"} => workerThread # None

\* The inductive invariant of serial clients.
SerialInv ==
  /\ TypeOK
  /\ WorkerOwned
  /\ Serial
  /\ HandleKept
  /\ NeverAborts
  /\ owner = "gone" => Running = {}

\* The invariant of serial clients holds initially.
LEMMA InitSerial == Init => SerialInv
BY InitType DEF Init, SerialInv, WorkerOwned, Running, Serial, InStartUpdate,
                HandleKept, NeverAborts

\* What only sessions in startUpdate() and the destructor can do to a handle
\* that is in use, they cannot do together.
LEMMA SerialSession ==
  ASSUME SerialInv, NEW r \in Requests, Session(r)
  PROVE  HandleKept' /\ NeverAborts'
<1> USE DEF SerialInv, TypeOK, At, Goto, Serial, InStartUpdate, HandleKept,
            NeverAborts, sessionVars, workerVars, mainVars
<1>1. CASE RejectEmptyUri(r)
  BY <1>1 DEF RejectEmptyUri, Answer
<1>2. CASE CheckBusy(r)
  <2>1. \E place \in {"done", "joinable?"} : session' = [session EXCEPT ![r] = place]
    BY <1>2 DEF CheckBusy, Answer
  <2>2. UNCHANGED <<workerThread, process>>
    BY <1>2 DEF CheckBusy
  <2> QED
    BY <2>1, <2>2
<1>3. CASE TestJoinable(r)
  BY <1>3 DEF TestJoinable
<1>4. CASE Join(r)
  <2>1. ~JoinFails
    BY <1>4 DEF Join, JoinFails, JoinInProgress, Joining, Alive
  <2> QED
    BY <1>4, <2>1 DEF Join
<1>5. CASE JoinReturns(r)
  BY <1>5 DEF JoinReturns
<1>6. CASE RecordAccepted(r)
  BY <1>6 DEF RecordAccepted
<1>7. CASE CreateThread(r)
  BY <1>7 DEF CreateThread
<1>8. CASE AssignThread(r)
  <2>1. session[r] = "assign" /\ workerThread = None
    BY <1>8 DEF AssignThread
  <2>2. session' = [session EXCEPT ![r] = "done"] /\ process' = process
    BY <1>8, <2>1 DEF AssignThread, Answer
  <2>3. \A s \in Requests : s # r => session[s] \in {"new", "done"}
    BY <2>1
  <2> QED
    BY <2>2, <2>3
<1> QED
  BY <1>1, <1>2, <1>3, <1>4, <1>5, <1>6, <1>7, <1>8 DEF Session

\* A session runs only in a live process, and never takes the handle away.
LEMMA SerialSessionAlive ==
  ASSUME NEW r \in Requests, Session(r)
  PROVE  Alive /\ owner' = owner
BY DEF Session, RejectEmptyUri, CheckBusy, TestJoinable, Join, JoinReturns,
       RecordAccepted, CreateThread, AssignThread, At, Terminate, mainVars

\* Every step allowed to serial clients keeps their invariant.
LEMMA NextSerial ==
  ASSUME SerialInv, [Next /\ Serial']_vars
  PROVE  SerialInv'
<1> USE DEF sessionVars, workerVars, mainVars
<1>1. TypeOK' /\ WorkerOwned'
  BY NextType, NextOwned DEF SerialInv
<1>2. Serial'
  BY DEF SerialInv, Serial, vars, InStartUpdate
<1>3. (HandleKept /\ NeverAborts /\ (owner = "gone" => Running = {}))'
  <2> USE DEF SerialInv, HandleKept, NeverAborts, Running
  <2>1. CASE UNCHANGED vars
    BY <2>1 DEF vars
  <2>2. ASSUME NEW r \in Requests, Post(r)
        PROVE  (HandleKept /\ NeverAborts /\ (owner = "gone" => Running = {}))'
    BY <2>2 DEF Post, At, Goto, TypeOK
  <2>3. ASSUME NEW r \in Requests, Session(r)
        PROVE  (HandleKept /\ NeverAborts /\ (owner = "gone" => Running = {}))'
    BY <2>3, SerialSession, SerialSessionAlive DEF Alive
  <2>4. ASSUME NEW w \in Requests, Worker(w)
        PROVE  (HandleKept /\ NeverAborts /\ (owner = "gone" => Running = {}))'
    BY <2>4 DEF Worker, ClearStop, LogEvent, SetStatusLocked, NotifyStateChange,
                CheckStop, Return, Executes, Alive
  <2>5. CASE StopServer
    BY <2>5 DEF StopServer
  <2>6. CASE RequestStop
    BY <2>6 DEF RequestStop
  <2>7. CASE DestructorJoin
    <3>1. \A r \in Requests : ~InStartUpdate(r)
      BY <2>7 DEF DestructorJoin, Serial
    <3>2. workerThread = None \/ ~JoinFails
      BY <2>7, <3>1 DEF DestructorJoin, JoinFails, JoinInProgress, Joining, InStartUpdate
    <3>3. workerThread = None => Running = {}
      BY <2>7, <3>1, NoneAssumption DEF DestructorJoin, WorkerOwned, InStartUpdate
    <3> QED
      BY <2>7, <3>2, <3>3 DEF DestructorJoin
  <2>8. CASE DestructorJoinReturns
    <3>1. \A r \in Requests : ~InStartUpdate(r)
      BY <2>8 DEF DestructorJoinReturns, Serial
    <3>2. Running = {}
      BY <2>8, <3>1 DEF DestructorJoinReturns, Joined, WorkerOwned, InStartUpdate
    <3> QED
      BY <2>8, <3>1, <3>2 DEF DestructorJoinReturns, InStartUpdate
  <2>9. CASE Exit
    BY <2>9 DEF Exit
  <2>10. CASE UseAfterDestroy
    BY <2>10 DEF UseAfterDestroy, Serial, InStartUpdate
  <2>11. CASE Quiescent
    BY <2>11, <2>1 DEF Quiescent
  <2> QED
    BY <2>1, <2>2, <2>3, <2>4, <2>5, <2>6, <2>7, <2>8, <2>9, <2>10, <2>11
       DEF Next, Destructor
<1> QED
  BY <1>1, <1>2, <1>3 DEF SerialInv

\* With serial clients the handle that startUpdate() found unusable stays so until
\* it is assigned, in every reachable state.
THEOREM SerialInvariant == SerialSpec => []SerialInv
<1>1. Init => SerialInv
  BY InitSerial
<1>2. SerialInv /\ [Next /\ Serial']_vars => SerialInv'
  BY NextSerial
<1> QED
  BY <1>1, <1>2, PTL DEF SerialSpec

\* A client that waits for each answer never makes the process abort, whatever
\* the worker and the shutdown do meanwhile: join() on line 43 finds a worker to
\* wait for, and the assignment on line 52 an empty handle.
THEOREM SerialNeverAborts == SerialSpec => []NeverAborts
BY SerialInvariant, PTL DEF SerialInv

\* For such a client the promise of line 35 holds: one workflow at a time.
THEOREM SerialOneWorkflow == SerialSpec => []OneWorkflowAtATime
<1>1. SerialInv => OneWorkflowAtATime
  BY NoneAssumption DEF SerialInv, WorkerOwned, OneWorkflowAtATime, Running, HandleKept,
                        Serial, InStartUpdate
<1> QED
  BY <1>1, SerialInvariant, PTL

-----------------------------------------------------------------------------
(* What is left of a workflow.                                              *)

\* Every state that is stored is announced next.
Announced(q) ==
  \A i \in DOMAIN q : q[i][1] = "set" => i + 1 \in DOMAIN q /\ q[i + 1] = <<"notify">>

\* A step that clears the busy flag is still to come.
Lowers(q) == \E i \in DOMAIN q : q[i][1] = "set" /\ q[i][3] = FALSE

\* After every step that raises the busy flag one that clears it follows.
BusyEnds(q) ==
  \A i \in DOMAIN q : q[i][1] = "set" /\ q[i][3] = TRUE =>
    \E j \in DOMAIN q : j > i /\ q[j][1] = "set" /\ q[j][3] = FALSE

\* What workers have before them, and who has anything before it.
ScriptsKept ==
  \A w \in Requests :
    /\ Announced(todo[w])
    /\ BusyEnds(todo[w])
    /\ session[w] \notin {"assign", "done"} => todo[w] = <<>>

\* Only the destructor requests the stop.
StopIsFinal == stopRequested => owner \in {"destroying", "joining", "gone"}

\* While the busy flag is up, a running worker still has to clear it, or the
\* destructor may have told it to leave early.
BusyHasOwner ==
  Alive /\ status.busy =>
    \/ \E w \in Running : Lowers(todo[w])
    \/ owner \in {"destroying", "joining"}

ScriptInv == TypeOK /\ ScriptsKept /\ StopIsFinal /\ BusyHasOwner /\ SubscribersUpToDate

\* Scripts put together announce what each announces.
LEMMA AnnouncedConcat ==
  ASSUME NEW a \in Seq(Steps), NEW b \in Seq(Steps), Announced(a), Announced(b)
  PROVE  Announced(a \o b)
<1> DEFINE c == a \o b
<1>1. /\ c \in Seq(Steps)
      /\ Len(c) = Len(a) + Len(b)
      /\ \A i \in 1..Len(c) : c[i] = IF i <= Len(a) THEN a[i] ELSE b[i - Len(a)]
  BY ConcatProperties
<1> HIDE DEF c
<1>2. ASSUME NEW i \in DOMAIN c, c[i][1] = "set"
      PROVE  i + 1 \in DOMAIN c /\ c[i + 1] = <<"notify">>
  <2>1. CASE i <= Len(a)
    <3>1. i \in DOMAIN a /\ a[i][1] = "set"
      BY <1>1, <1>2, <2>1
    <3>2. i + 1 \in DOMAIN a /\ a[i + 1] = <<"notify">>
      BY <3>1 DEF Announced
    <3> QED
      BY <1>1, <3>2
  <2>2. CASE i > Len(a)
    <3>1. i - Len(a) \in DOMAIN b /\ b[i - Len(a)][1] = "set"
      BY <1>1, <1>2, <2>2
    <3>2. (i - Len(a)) + 1 \in DOMAIN b /\ b[(i - Len(a)) + 1] = <<"notify">>
      BY <3>1 DEF Announced
    <3>3. i + 1 \in 1..Len(c) /\ ~(i + 1 <= Len(a)) /\ (i + 1) - Len(a) = (i - Len(a)) + 1
      BY <1>1, <1>2, <2>2, <3>2
    <3> QED
      BY <1>1, <3>2, <3>3
  <2> QED
    BY <1>1, <1>2, <2>1, <2>2
<1> QED
  BY <1>2 DEF Announced, c

\* Whatever precedes a script that ends with the busy flag down, so does the whole.
LEMMA LoweredConcat ==
  ASSUME NEW a \in Seq(Steps), NEW b \in Seq(Steps), BusyEnds(b), Lowers(b)
  PROVE  BusyEnds(a \o b) /\ Lowers(a \o b)
<1> DEFINE c == a \o b
<1>1. /\ c \in Seq(Steps)
      /\ Len(c) = Len(a) + Len(b)
      /\ \A i \in 1..Len(c) : c[i] = IF i <= Len(a) THEN a[i] ELSE b[i - Len(a)]
  BY ConcatProperties
<1> HIDE DEF c
<1>2. \A j \in DOMAIN b : Len(a) + j \in DOMAIN c /\ c[Len(a) + j] = b[j]
  BY <1>1
<1>3. PICK l \in DOMAIN b : b[l][1] = "set" /\ b[l][3] = FALSE
  BY DEF Lowers
<1>4. Lowers(c)
  BY <1>2, <1>3 DEF Lowers
<1>5. ASSUME NEW i \in DOMAIN c, c[i][1] = "set", c[i][3] = TRUE
      PROVE  \E j \in DOMAIN c : j > i /\ c[j][1] = "set" /\ c[j][3] = FALSE
  <2>1. CASE i <= Len(a)
    <3>1. Len(a) + l > i
      BY <1>1, <1>3, <2>1
    <3> QED
      BY <1>2, <1>3, <3>1
  <2>2. CASE i > Len(a)
    <3>1. i - Len(a) \in DOMAIN b /\ b[i - Len(a)] = c[i]
      BY <1>1, <2>2
    <3>2. PICK j \in DOMAIN b : j > i - Len(a) /\ b[j][1] = "set" /\ b[j][3] = FALSE
      BY <1>5, <3>1 DEF BusyEnds
    <3>3. Len(a) + j > i
      BY <1>1, <2>2, <3>2
    <3> QED
      BY <1>2, <3>2, <3>3
  <2>3. i <= Len(a) \/ i > Len(a)
    BY <1>1
  <2> QED
    BY <2>1, <2>2, <2>3
<1> QED
  BY <1>4, <1>5 DEF BusyEnds, c

\* setStatus() announces what it stores.
LEMMA SetStatusAnnounced ==
  ASSUME NEW s \in States, NEW b \in BOOLEAN
  PROVE  Announced(SetStatus(s, b))
BY DEF Announced, SetStatus

\* So does a script that stores nothing.
LEMMA NothingStored ==
  ASSUME NEW q \in Seq(Steps), \A i \in DOMAIN q : q[i][1] # "set"
  PROVE  Announced(q)
BY DEF Announced

\* Where setStatus() clears the busy flag, it is down at the end.
LEMMA SetStatusLowers ==
  ASSUME NEW s \in States
  PROVE  BusyEnds(SetStatus(s, FALSE)) /\ Lowers(SetStatus(s, FALSE))
<1> DEFINE q == SetStatus(s, FALSE)
<1>1. q \in Seq(Steps) /\ Len(q) = 2 /\ q[1] = <<"set", s, FALSE>> /\ q[2] = <<"notify">>
  BY SetStatusType DEF SetStatus
<1> HIDE DEF q
<1>2. DOMAIN q = {1, 2}
  BY <1>1
<1>3. q[1][1] = "set" /\ q[1][3] = FALSE /\ q[2][1] = "notify"
  BY <1>1
<1> QED
  BY <1>2, <1>3 DEF BusyEnds, Lowers, q

\* A script of which every worker may execute the rest.
Tidy(q) == q \in Seq(Steps) /\ Announced(q) /\ BusyEnds(q) /\ Lowers(q)

\* A tidy script may be put after any that announces its states.
LEMMA TidyConcat ==
  ASSUME NEW a \in Seq(Steps), Announced(a), NEW b, Tidy(b)
  PROVE  Tidy(a \o b)
BY AnnouncedConcat, LoweredConcat, ConcatProperties DEF Tidy

\* Both failures of the workflow end with the busy flag down.
LEMMA FailureTidy ==
  ASSUME NEW e \in Events
  PROVE  Tidy(Failure(e))
<1> DEFINE a == <<Log(e), Log("FW_ROLLBACK_TRIGGERED")>>
           b == SetStatus("Rollback", FALSE)
<1>1. a \in Seq(Steps) /\ Announced(a)
  <2>1. Log(e) \in Steps /\ Log("FW_ROLLBACK_TRIGGERED") \in Steps
    BY LogType DEF Events
  <2>2. \A i \in DOMAIN a : a[i][1] # "set"
    BY DEF Log
  <2> QED
    BY <2>1, <2>2, TwoSteps, NothingStored
<1>2. Tidy(b)
  BY SetStatusType, SetStatusAnnounced, SetStatusLowers DEF Tidy, States
<1> HIDE DEF a, b
<1> QED
  BY <1>1, <1>2, TidyConcat DEF Failure, a, b

\* So does the installation.
LEMMA InstallTidy == Tidy(Install)
<1> DEFINE a == SetStatus("Installing", TRUE)
           b == SetStatus("RebootPending", TRUE)
           c == SetStatus("Completed", FALSE)
           d == <<Log("FW_UPDATE_COMPLETED")>>
<1>1. /\ a \in Seq(Steps) /\ Announced(a)
      /\ b \in Seq(Steps) /\ Announced(b)
      /\ c \in Seq(Steps) /\ Announced(c)
  BY SetStatusType, SetStatusAnnounced DEF States
<1>2. d \in Seq(Steps) /\ Announced(d)
  <2>1. d \in Seq(Steps)
    BY LogType DEF Events
  <2>2. \A i \in DOMAIN d : d[i][1] # "set"
    BY DEF Log
  <2> QED
    BY <2>1, <2>2, NothingStored
<1>3. Tidy(c \o d)
  <2>1. /\ Len(c) = 2 /\ c[1] = <<"set", "Completed", FALSE>> /\ c[2] = <<"notify">>
        /\ Len(d) = 1 /\ d[1] = <<"log", "FW_UPDATE_COMPLETED">>
    BY DEF SetStatus, Log
  <2> HIDE DEF c, d
  <2> DEFINE e == c \o d
  <2>2. /\ e \in Seq(Steps) /\ Len(e) = Len(c) + Len(d)
        /\ \A i \in 1..Len(e) : e[i] = IF i <= Len(c) THEN c[i] ELSE d[i - Len(c)]
    BY <1>1, <1>2, ConcatProperties
  <2>3. Announced(e)
    BY <1>1, <1>2, AnnouncedConcat
  <2> HIDE DEF e
  <2>4. DOMAIN e = {1, 2, 3}
    BY <2>1, <2>2
  <2>5. e[1] = c[1] /\ e[2] = c[2] /\ e[3] = d[1]
    <3>1. Len(c) = 2 /\ Len(e) = 3
      BY <2>1, <2>2
    <3>2. \A i \in 1..3 : e[i] = IF i <= 2 THEN c[i] ELSE d[i - 2]
      BY <2>2, <3>1
    <3>3. 1 \in 1..3 /\ 2 \in 1..3 /\ 3 \in 1..3 /\ 3 - 2 = 1
      OBVIOUS
    <3> QED
      BY <3>2, <3>3
  <2>6. e[1][1] = "set" /\ e[1][3] = FALSE /\ e[2][1] = "notify" /\ e[3][1] = "log"
    BY <2>1, <2>5
  <2>7. BusyEnds(e) /\ Lowers(e)
    BY <2>4, <2>6 DEF BusyEnds, Lowers
  <2> QED
    BY <2>2, <2>3, <2>7 DEF Tidy, e
<1>4. Install = a \o (b \o (c \o d))
  <2>1. Install = ((a \o b) \o c) \o d
    BY DEF Install
  <2> HIDE DEF a, b, c, d
  <2> DEFINE ab == a \o b
  <2>2. ab \in Seq(Steps)
    BY <1>1, ConcatProperties
  <2>3. (ab \o c) \o d = ab \o (c \o d)
    <3> HIDE DEF ab
    <3> QED
      BY <1>1, <1>2, <2>2, ConcatAssociative
  <2> DEFINE cd == c \o d
  <2>4. cd \in Seq(Steps)
    BY <1>1, <1>2, ConcatProperties
  <2>5. (a \o b) \o cd = a \o (b \o cd)
    <3> HIDE DEF cd
    <3> QED
      BY <1>1, <2>4, ConcatAssociative
  <2> QED
    BY <2>1, <2>3, <2>5
<1> HIDE DEF a, b, c, d
<1> QED
  BY <1>1, <1>3, <1>4, TidyConcat

\* Whatever the image, the workflow announces every state it stores and leaves the
\* busy flag down.
LEMMA WorkflowTidy == \A u : Tidy(Workflow(u))
<1> SUFFICES ASSUME NEW u PROVE Tidy(Workflow(u))
  OBVIOUS
<1> DEFINE InstallPart == IF u = "install-fail"
                          THEN SetStatus("Installing", TRUE) \o Failure("FW_UPDATE_FAILED")
                          ELSE Install
           VerifyPart  == IF u = "bad" THEN Failure("FW_VERIFY_FAILED")
                          ELSE <<Log("FW_INSTALL_STARTED")>> \o InstallPart
           a == << <<"clearStop">>, Log("FW_UPDATE_STARTED")>>
           b == SetStatus("Downloading", TRUE)
           c == << <<"checkStop">>, Log("FW_VERIFY_STARTED")>>
           d == SetStatus("Verifying", TRUE)
<1>1. /\ b \in Seq(Steps) /\ Announced(b)
      /\ d \in Seq(Steps) /\ Announced(d)
      /\ SetStatus("Installing", TRUE) \in Seq(Steps)
      /\ Announced(SetStatus("Installing", TRUE))
  BY SetStatusType, SetStatusAnnounced DEF States
<1>2. a \in Seq(Steps) /\ Announced(a) /\ c \in Seq(Steps) /\ Announced(c)
  <2>1. /\ <<"clearStop">> \in Steps /\ Log("FW_UPDATE_STARTED") \in Steps
        /\ <<"checkStop">> \in Steps /\ Log("FW_VERIFY_STARTED") \in Steps
    BY LogType DEF Events, Steps
  <2>2. a \in Seq(Steps) /\ c \in Seq(Steps)
    BY <2>1, TwoSteps
  <2>3. (\A i \in DOMAIN a : a[i][1] # "set") /\ (\A i \in DOMAIN c : c[i][1] # "set")
    BY DEF Log
  <2> QED
    BY <2>2, <2>3, NothingStored
<1>3. <<Log("FW_INSTALL_STARTED")>> \in Seq(Steps) /\ Announced(<<Log("FW_INSTALL_STARTED")>>)
  <2>1. <<Log("FW_INSTALL_STARTED")>> \in Seq(Steps)
    BY LogType DEF Events
  <2>2. \A i \in DOMAIN <<Log("FW_INSTALL_STARTED")>> :
           <<Log("FW_INSTALL_STARTED")>>[i][1] # "set"
    BY DEF Log
  <2> QED
    BY <2>1, <2>2, NothingStored
<1>4. Tidy(InstallPart)
  <2>1. Tidy(SetStatus("Installing", TRUE) \o Failure("FW_UPDATE_FAILED"))
    BY <1>1, FailureTidy, TidyConcat DEF Events
  <2> QED
    BY <2>1, InstallTidy
<1>5. Tidy(<<Log("FW_INSTALL_STARTED")>> \o InstallPart)
  <2> HIDE DEF InstallPart
  <2> QED
    BY <1>3, <1>4, TidyConcat
<1>6. Tidy(VerifyPart)
  BY <1>5, FailureTidy DEF Events
<1>7. Workflow(u) = (((a \o b) \o c) \o d) \o VerifyPart
  BY DEF Workflow
<1> HIDE DEF VerifyPart, a, b, c, d
<1>8. a \o b \in Seq(Steps) /\ Announced(a \o b)
  BY <1>1, <1>2, AnnouncedConcat, ConcatProperties
<1>9. (a \o b) \o c \in Seq(Steps) /\ Announced((a \o b) \o c)
  BY <1>2, <1>8, AnnouncedConcat, ConcatProperties
<1>10. ((a \o b) \o c) \o d \in Seq(Steps) /\ Announced(((a \o b) \o c) \o d)
  BY <1>1, <1>9, AnnouncedConcat, ConcatProperties
<1> QED
  BY <1>6, <1>7, <1>10, TidyConcat

\* The rest of a script, once its first step was executed.
LEMMA RestOfScript ==
  ASSUME NEW q \in Seq(Steps), q # <<>>, Announced(q), BusyEnds(q)
  PROVE  /\ Announced(Tail(q)) /\ BusyEnds(Tail(q))
         /\ Head(q)[1] = "set" => Tail(q) # <<>> /\ Head(Tail(q)) = <<"notify">>
         /\ Head(q)[1] = "set" /\ Head(q)[3] = TRUE => Lowers(Tail(q))
         /\ Head(q)[1] # "set" /\ Lowers(q) => Lowers(Tail(q))
<1> DEFINE t == Tail(q)
<1>1. /\ t \in Seq(Steps) /\ Len(t) = Len(q) - 1 /\ Len(q) \in Nat \ {0}
      /\ \A i \in 1..Len(t) : t[i] = q[i + 1]
  BY HeadTailProperties, EmptySeq
<1>2. Head(q) = q[1] /\ 1 \in DOMAIN q
  BY <1>1
<1> HIDE DEF t
<1>3. \A i \in DOMAIN t : i + 1 \in DOMAIN q /\ t[i] = q[i + 1]
  BY <1>1
<1>4. \A i \in DOMAIN q : i > 1 => i - 1 \in DOMAIN t /\ t[i - 1] = q[i]
  BY <1>1
<1>5. Announced(t)
  <2> SUFFICES ASSUME NEW i \in DOMAIN t, t[i][1] = "set"
               PROVE  i + 1 \in DOMAIN t /\ t[i + 1] = <<"notify">>
    BY DEF Announced
  <2>1. (i + 1) + 1 \in DOMAIN q /\ q[(i + 1) + 1] = <<"notify">>
    BY <1>3 DEF Announced
  <2> QED
    BY <1>1, <2>1
<1>6. BusyEnds(t)
  <2> SUFFICES ASSUME NEW i \in DOMAIN t, t[i][1] = "set", t[i][3] = TRUE
               PROVE  \E j \in DOMAIN t : j > i /\ t[j][1] = "set" /\ t[j][3] = FALSE
    BY DEF BusyEnds
  <2>1. PICK j \in DOMAIN q : j > i + 1 /\ q[j][1] = "set" /\ q[j][3] = FALSE
    BY <1>3 DEF BusyEnds
  <2>2. j - 1 \in DOMAIN t /\ t[j - 1] = q[j] /\ j - 1 > i
    BY <1>1, <1>4, <2>1
  <2> QED
    BY <2>1, <2>2
<1>7. ASSUME Head(q)[1] = "set" PROVE t # <<>> /\ Head(t) = <<"notify">>
  <2>1. 1 + 1 \in DOMAIN q /\ q[1 + 1] = <<"notify">>
    BY <1>2, <1>7 DEF Announced
  <2>2. 1 \in DOMAIN t /\ t[1] = <<"notify">>
    BY <1>1, <2>1
  <2> QED
    BY <1>1, <2>2
<1>8. ASSUME Head(q)[1] = "set", Head(q)[3] = TRUE PROVE Lowers(t)
  <2>1. PICK j \in DOMAIN q : j > 1 /\ q[j][1] = "set" /\ q[j][3] = FALSE
    BY <1>2, <1>8 DEF BusyEnds
  <2> QED
    BY <1>4, <2>1 DEF Lowers
<1>9. ASSUME Head(q)[1] # "set", Lowers(q) PROVE Lowers(t)
  <2>1. PICK j \in DOMAIN q : q[j][1] = "set" /\ q[j][3] = FALSE
    BY <1>9 DEF Lowers
  <2>2. j > 1
    BY <1>1, <1>2, <1>9, <2>1
  <2> QED
    BY <1>4, <2>1, <2>2 DEF Lowers
<1> QED
  BY <1>5, <1>6, <1>7, <1>8, <1>9 DEF t

\* Nothing is left to announce or to lower.
LEMMA NothingLeft == Announced(<<>>) /\ BusyEnds(<<>>)
BY DEF Announced, BusyEnds


-----------------------------------------------------------------------------
(* The busy flag and the subscribers.                                       *)

\* A worker about to execute a step has a script, and what follows is one.
LEMMA ExecutesScript ==
  ASSUME TypeOK, ScriptsKept, NEW w \in Requests, NEW step, Executes(w, step)
  PROVE  /\ todo[w] \in Seq(Steps) /\ todo[w] # <<>>
         /\ Announced(Tail(todo[w])) /\ BusyEnds(Tail(todo[w]))
         /\ step = "set" => Tail(todo[w]) # <<>> /\ Head(Tail(todo[w])) = <<"notify">>
         /\ step = "set" /\ Head(todo[w])[3] = TRUE => Lowers(Tail(todo[w]))
         /\ step # "set" /\ Lowers(todo[w]) => Lowers(Tail(todo[w]))
         /\ session[w] \in {"assign", "done"}
<1>1. todo[w] \in Seq(Steps) /\ todo[w] # <<>> /\ Head(todo[w])[1] = step
  BY DEF TypeOK, Executes
<1>2. Announced(todo[w]) /\ BusyEnds(todo[w])
  BY DEF ScriptsKept
<1>3. session[w] \in {"assign", "done"}
  BY <1>1 DEF ScriptsKept
<1> QED
  BY <1>1, <1>2, <1>3, RestOfScript

\* Initially no worker has a script, and nothing is stored or stopped.
LEMMA InitScripts == Init => ScriptInv
<1> SUFFICES ASSUME Init PROVE ScriptInv
  OBVIOUS
<1>1. \A w \in Requests : todo[w] = <<>>
  BY DEF Init
<1>2. ScriptsKept
  BY <1>1, NothingLeft DEF ScriptsKept
<1>3. ~status.busy /\ published = status.state /\ ~stopRequested
  BY DEF Init
<1> QED
  BY <1>2, <1>3, InitType DEF ScriptInv, StopIsFinal, BusyHasOwner, SubscribersUpToDate

\* Sessions hand out whole scripts, and only to workers that had none.
LEMMA SessionScripts ==
  ASSUME ScriptInv, NEW r \in Requests, Session(r)
  PROVE  ScriptsKept' /\ StopIsFinal' /\ BusyHasOwner' /\ SubscribersUpToDate'
<1> USE DEF ScriptInv, sessionVars, workerVars, mainVars
<1>1. ASSUME UNCHANGED <<thread, todo, published, stopRequested, owner>>,
             status'.busy = status.busy, status'.state = status.state,
             process' = process \/ process' = "aborted",
             NEW place, session[r] \notin {"assign", "done"} \/ place = "done",
             session' = session \/ session' = [session EXCEPT ![r] = place]
      PROVE  ScriptsKept' /\ StopIsFinal' /\ BusyHasOwner' /\ SubscribersUpToDate'
  <2>1. ScriptsKept'
    BY <1>1 DEF ScriptsKept, TypeOK
  <2>2. StopIsFinal'
    BY <1>1 DEF StopIsFinal
  <2>3. BusyHasOwner'
    BY <1>1 DEF BusyHasOwner, Alive, Running
  <2>4. SubscribersUpToDate'
    BY <1>1 DEF SubscribersUpToDate
  <2> QED
    BY <2>1, <2>2, <2>3, <2>4
<1>2. CASE RejectEmptyUri(r)
  BY <1>1, <1>2 DEF RejectEmptyUri, Answer, At, Goto
<1>3. CASE CheckBusy(r)
  <2>1. \E place \in {"done", "joinable?"} : session' = [session EXCEPT ![r] = place]
    BY <1>3 DEF CheckBusy, Answer, Goto
  <2>2. session[r] = "check" /\ UNCHANGED <<workerVars, status, stopRequested, mainVars>>
    BY <1>3 DEF CheckBusy, At
  <2> QED
    BY <1>1, <2>1, <2>2
<1>4. CASE TestJoinable(r)
  BY <1>1, <1>4 DEF TestJoinable, At, Goto
<1>5. CASE Join(r)
  <2>1. CASE JoinFails
    BY <1>1, <1>5, <2>1 DEF Join, Terminate, At
  <2>2. CASE ~JoinFails
    BY <1>1, <1>5, <2>2 DEF Join, At, Goto
  <2> QED
    BY <2>1, <2>2
<1>6. CASE JoinReturns(r)
  BY <1>1, <1>6 DEF JoinReturns, At, Goto
<1>7. CASE RecordAccepted(r)
  <2>1. status'.busy = status.busy /\ status'.state = status.state
    BY <1>7 DEF RecordAccepted, TypeOK
  <2> QED
    BY <1>1, <1>7, <2>1 DEF RecordAccepted, At, Goto
<1>8. CASE CreateThread(r)
  <2>1. /\ session[r] = "create"
        /\ thread' = [thread EXCEPT ![r] = "running"]
        /\ todo' = [todo EXCEPT ![r] = Workflow(uri[r])]
        /\ session' = [session EXCEPT ![r] = "assign"]
        /\ UNCHANGED <<status, published, stopRequested, owner, process>>
    BY <1>8 DEF CreateThread, At, Goto
  <2>2. Tidy(Workflow(uri[r]))
    BY WorkflowTidy
  <2>3. todo[r] = <<>>
    BY <2>1 DEF ScriptsKept
  <2>4. /\ todo'[r] = Workflow(uri[r]) /\ session'[r] = "assign" /\ thread'[r] = "running"
        /\ \A w \in Requests \ {r} : /\ todo'[w] = todo[w] /\ session'[w] = session[w]
                                     /\ thread'[w] = thread[w]
    BY <2>1 DEF TypeOK
  <2>5. ScriptsKept'
    BY <2>2, <2>4 DEF ScriptsKept, Tidy
  <2>6. StopIsFinal'
    BY <2>1 DEF StopIsFinal
  <2>7. BusyHasOwner'
    <3>1. r \in Running' /\ Lowers(todo'[r])
      BY <2>2, <2>4 DEF Running, Tidy
    <3> QED
      BY <3>1 DEF BusyHasOwner
  <2>8. SubscribersUpToDate'
    BY <2>1, <2>3, <2>4 DEF SubscribersUpToDate
  <2> QED
    BY <2>5, <2>6, <2>7, <2>8
<1>9. CASE AssignThread(r)
  <2>1. CASE workerThread # None
    BY <1>1, <1>9, <2>1 DEF AssignThread, Terminate, At
  <2>2. CASE workerThread = None
    BY <1>1, <1>9, <2>2 DEF AssignThread, Answer, Goto, At
  <2> QED
    BY <2>1, <2>2
<1> QED
  BY <1>2, <1>3, <1>4, <1>5, <1>6, <1>7, <1>8, <1>9 DEF Session

\* A worker keeps its script well formed, and clears the flag before it returns.
LEMMA WorkerScripts ==
  ASSUME ScriptInv, NEW w \in Requests, Worker(w)
  PROVE  ScriptsKept' /\ StopIsFinal' /\ BusyHasOwner' /\ SubscribersUpToDate'
<1> USE DEF ScriptInv, sessionVars, workerVars, mainVars
<1>1. ASSUME NEW step, Executes(w, step), Advance(w), session' = session
      PROVE  /\ ScriptsKept'
             /\ todo'[w] = Tail(todo[w])
             /\ \A v \in Requests \ {w} : todo'[v] = todo[v]
  <2>1. todo'[w] = Tail(todo[w]) /\ \A v \in Requests \ {w} : todo'[v] = todo[v]
    BY <1>1 DEF Advance, TypeOK
  <2>2. ScriptsKept'
    BY <1>1, <2>1, ExecutesScript DEF ScriptsKept
  <2> QED
    BY <2>1, <2>2
<1>2. ASSUME NEW step, step # "set", Executes(w, step), Advance(w),
             UNCHANGED <<session, thread, owner, process, status>>
      PROVE  BusyHasOwner'
  <2>1. \A v \in Requests : Lowers(todo[v]) => Lowers(todo'[v])
    BY <1>1, <1>2, ExecutesScript
  <2> QED
    BY <1>2, <2>1 DEF BusyHasOwner, Alive, Running
<1>3. ASSUME NEW step, step # "notify", Executes(w, step), Advance(w),
             UNCHANGED <<session, published, status>>
      PROVE  SubscribersUpToDate'
  <2>1. todo[w] # <<>> /\ Head(todo[w]) # <<"notify">>
    BY <1>3 DEF Executes
  <2>2. \A v \in Requests \ {w} : todo'[v] = todo[v]
    BY <1>1, <1>3
  <2> QED
    BY <1>3, <2>1, <2>2 DEF SubscribersUpToDate
<1>4. CASE ClearStop(w)
  BY <1>1, <1>2, <1>3, <1>4 DEF ClearStop, StopIsFinal
<1>5. CASE LogEvent(w)
  BY <1>1, <1>2, <1>3, <1>5 DEF LogEvent, StopIsFinal
<1>6. CASE SetStatusLocked(w)
  <2>1. /\ Executes(w, "set") /\ Advance(w)
        /\ UNCHANGED <<session, thread, published, stopRequested, owner, process>>
        /\ status'.busy = Head(todo[w])[3]
        /\ Head(todo[w])[3] \in BOOLEAN
    <3>1. Head(todo[w])[3] \in BOOLEAN
      BY <1>6, ExecutesType, SetStep DEF SetStatusLocked
    <3> QED
      BY <1>6, <3>1 DEF SetStatusLocked, TypeOK
  <2>2. ScriptsKept' /\ todo'[w] = Tail(todo[w])
    BY <1>1, <2>1
  <2>3. StopIsFinal'
    BY <2>1 DEF StopIsFinal
  <2>4. BusyHasOwner'
    <3>1. ASSUME Head(todo[w])[3] = TRUE PROVE w \in Running' /\ Lowers(todo'[w])
      BY <2>1, <2>2, <3>1, ExecutesScript DEF Running, Executes
    <3> QED
      BY <2>1, <3>1 DEF BusyHasOwner
  <2>5. SubscribersUpToDate'
    BY <2>1, <2>2, ExecutesScript DEF SubscribersUpToDate
  <2> QED
    BY <2>2, <2>3, <2>4, <2>5
<1>7. CASE NotifyStateChange(w)
  <2>1. SubscribersUpToDate'
    BY <1>7 DEF NotifyStateChange, SubscribersUpToDate
  <2> QED
    BY <1>1, <1>2, <1>7, <2>1 DEF NotifyStateChange, StopIsFinal
<1>8. CASE CheckStop(w)
  <2>1. CASE stopRequested
    <3>1. /\ Executes(w, "checkStop")
          /\ todo'[w] = <<>> /\ \A v \in Requests \ {w} : todo'[v] = todo[v]
          /\ UNCHANGED <<session, thread, published, status, stopRequested, owner, process>>
      BY <1>8, <2>1 DEF CheckStop, TypeOK
    <3>2. ScriptsKept'
      BY <3>1, NothingLeft DEF ScriptsKept
    <3>3. StopIsFinal'
      BY <3>1 DEF StopIsFinal
    <3>4. BusyHasOwner'
      BY <2>1, <3>1 DEF StopIsFinal, BusyHasOwner, Alive
    <3>5. SubscribersUpToDate'
      <4>1. todo[w] # <<>> /\ Head(todo[w]) # <<"notify">>
        BY <3>1 DEF Executes
      <4> QED
        BY <3>1, <4>1 DEF SubscribersUpToDate
    <3> QED
      BY <3>2, <3>3, <3>4, <3>5
  <2>2. CASE ~stopRequested
    BY <1>1, <1>2, <1>3, <1>8, <2>2 DEF CheckStop, StopIsFinal
  <2> QED
    BY <2>1, <2>2
<1>9. CASE Return(w)
  <2>1. ~Lowers(todo[w])
    BY <1>9 DEF Return, Lowers
  <2>2. \A v \in Running : v # w => v \in Running'
    BY <1>9 DEF Return, Running, TypeOK
  <2>3. UNCHANGED <<session, todo, published, status, stopRequested, owner, process>>
    BY <1>9 DEF Return
  <2> QED
    BY <2>1, <2>2, <2>3 DEF ScriptsKept, StopIsFinal, BusyHasOwner, SubscribersUpToDate,
                            Alive
<1> QED
  BY <1>4, <1>5, <1>6, <1>7, <1>8, <1>9 DEF Worker

\* Every step keeps the scripts, the flag and the subscribers in order.
LEMMA NextScripts ==
  ASSUME ScriptInv, [Next]_vars
  PROVE  ScriptInv'
<1> USE DEF sessionVars, workerVars, mainVars
<1>0. TypeOK'
  BY NextType DEF ScriptInv
<1>1. ScriptsKept' /\ StopIsFinal' /\ BusyHasOwner' /\ SubscribersUpToDate'
  <2> USE DEF ScriptInv, ScriptsKept, StopIsFinal, BusyHasOwner, SubscribersUpToDate,
              Alive, Running
  <2>1. CASE UNCHANGED vars
    BY <2>1 DEF vars
  <2>2. ASSUME NEW r \in Requests, Post(r)
        PROVE  ScriptsKept' /\ StopIsFinal' /\ BusyHasOwner' /\ SubscribersUpToDate'
    BY <2>2 DEF Post, At, Goto, TypeOK
  <2>3. ASSUME NEW r \in Requests, Session(r)
        PROVE  ScriptsKept' /\ StopIsFinal' /\ BusyHasOwner' /\ SubscribersUpToDate'
    BY <2>3, SessionScripts
  <2>4. ASSUME NEW w \in Requests, Worker(w)
        PROVE  ScriptsKept' /\ StopIsFinal' /\ BusyHasOwner' /\ SubscribersUpToDate'
    BY <2>4, WorkerScripts
  <2>5. CASE StopServer
    BY <2>5 DEF StopServer
  <2>6. CASE RequestStop
    BY <2>6 DEF RequestStop
  <2>7. CASE DestructorJoin
    BY <2>7 DEF DestructorJoin, Terminate
  <2>8. CASE DestructorJoinReturns
    BY <2>8 DEF DestructorJoinReturns
  <2>9. CASE Exit
    BY <2>9 DEF Exit
  <2>10. CASE UseAfterDestroy
    BY <2>10 DEF UseAfterDestroy, Terminate
  <2>11. CASE Quiescent
    BY <2>11, <2>1 DEF Quiescent
  <2> QED
    BY <2>1, <2>2, <2>3, <2>4, <2>5, <2>6, <2>7, <2>8, <2>9, <2>10, <2>11
       DEF Next, Destructor
<1> QED
  BY <1>0, <1>1 DEF ScriptInv

\* The scripts, the stop flag, the busy flag and the broadcast state agree in every
\* reachable state.
THEOREM ScriptInvariant == Spec => []ScriptInv
<1>1. Init => ScriptInv
  BY InitScripts
<1>2. ScriptInv /\ [Next]_vars => ScriptInv'
  BY NextScripts
<1> QED
  BY <1>1, <1>2, PTL DEF Spec

\* The busy flag is never leaked: as long as it is up some worker runs that will clear
\* it, however many workers overlap and whatever becomes of the images, unless the
\* destructor has told it to leave.
THEOREM BusyNeverLeaked == Spec => []BusyNotLeaked
<1>1. ScriptInv => BusyNotLeaked
  BY DEF ScriptInv, BusyHasOwner, BusyNotLeaked
<1> QED
  BY <1>1, ScriptInvariant, PTL

\* With no callback pending the last broadcast state is the current one, also when the
\* setStatus() of two workers interleave.
THEOREM SubscribersAlwaysUpToDate == Spec => []SubscribersUpToDate
<1>1. ScriptInv => SubscribersUpToDate
  BY DEF ScriptInv
<1> QED
  BY <1>1, ScriptInvariant, PTL

-----------------------------------------------------------------------------
(* The event log of clients that wait for their answers.                    *)

\* The events of a worker that runs are the last of the log; one that was not
\* created has none.
LogTail ==
  /\ log \in Seq(Requests \X Events)
  /\ \A i \in DOMAIN log :
       session[log[i][1]] \in {"assign", "done"}
  /\ \A i, j \in DOMAIN log : i < j /\ log[i][1] \in Running => log[j][1] = log[i][1]

LogInv == SerialInv /\ ScriptInv /\ LogTail /\ WorkflowsNotInterleaved

\* Where a worker or a session leaves the log alone, all that may change is that a
\* worker returns or that one without events starts.
LEMMA LogUntouched ==
  ASSUME LogTail, WorkflowsNotInterleaved, log' = log,
         \A r \in Requests : session[r] \in {"assign", "done"}
                               => session'[r] \in {"assign", "done"},
         \A r \in Running' : r \in Running \/ session[r] = "create"
  PROVE  LogTail' /\ WorkflowsNotInterleaved'
<1>1. WorkflowsNotInterleaved'
  BY DEF WorkflowsNotInterleaved
<1>2. \A i \in DOMAIN log : log[i][1] \in Requests
  BY DEF LogTail
<1> QED
  BY <1>1, <1>2 DEF LogTail

\* An event is appended by the one worker that runs.
LEMMA LogAppended ==
  ASSUME LogInv, NEW w \in Requests, LogEvent(w)
  PROVE  LogTail' /\ WorkflowsNotInterleaved'
<1>1. /\ Executes(w, "log")
      /\ log' = Append(log, <<w, Head(todo[w])[2]>>)
      /\ session' = session /\ thread' = thread
  BY DEF LogEvent, sessionVars
<1>2. w \in Running /\ Alive
  BY <1>1 DEF Executes, Running
<1>3. \A v \in Running : v = w
  BY <1>2, NoneAssumption DEF LogInv, SerialInv, WorkerOwned, HandleKept, Serial,
                              InStartUpdate, Running
<1>4. session[w] \in {"assign", "done"}
  BY <1>1, ExecutesScript DEF LogInv, ScriptInv
<1>5. Head(todo[w])[2] \in Events
  <2>1. Head(todo[w]) \in Steps /\ Head(todo[w])[1] = "log"
    BY <1>1, ExecutesType DEF LogInv, SerialInv
  <2> QED
    BY <2>1 DEF Steps
<1> DEFINE e == <<w, Head(todo[w])[2]>>
<1>6. e \in Requests \X Events /\ e[1] = w
  BY <1>5
<1>7. log \in Seq(Requests \X Events)
  BY DEF LogInv, LogTail
<1> HIDE DEF e
<1>8. /\ log' \in Seq(Requests \X Events)
      /\ Len(log') = Len(log) + 1
      /\ \A i \in 1..Len(log) : log'[i] = log[i]
      /\ log'[Len(log) + 1] = e
  BY <1>1, <1>6, <1>7, AppendProperties DEF e
<1>9. \A i \in DOMAIN log' : i \in DOMAIN log \/ i = Len(log')
  BY <1>7, <1>8
<1>10. /\ \A i \in DOMAIN log : i \in 1..Len(log) /\ i < Len(log') /\ log'[i] = log[i]
       /\ log'[Len(log')] = e
  BY <1>7, <1>8
<1>11. \A i, j \in DOMAIN log' : i < j /\ log'[i][1] \in Running => log'[j][1] = log'[i][1]
  <2> SUFFICES ASSUME NEW i \in DOMAIN log', NEW j \in DOMAIN log', i < j,
                      log'[i][1] \in Running
               PROVE  log'[j][1] = log'[i][1]
    OBVIOUS
  <2>1. i \in Nat /\ j \in Nat /\ j <= Len(log')
    BY <1>8
  <2>2. i \in DOMAIN log
    BY <1>9, <2>1
  <2>3. log'[i][1] = w
    BY <1>3
  <2> QED
    BY <1>6, <1>9, <1>10, <2>2, <2>3 DEF LogInv, LogTail
<1>12. \A i \in DOMAIN log' : session'[log'[i][1]] \in {"assign", "done"}
  BY <1>1, <1>4, <1>6, <1>9, <1>10 DEF LogInv, LogTail
<1>13. LogTail'
  BY <1>1, <1>8, <1>11, <1>12 DEF LogTail, Running
<1>14. WorkflowsNotInterleaved'
  <2> SUFFICES ASSUME NEW i \in 1..Len(log'), NEW j \in 1..Len(log'), NEW k \in 1..Len(log'),
                      i < j, j < k, log'[i][1] = log'[k][1]
               PROVE  log'[j][1] = log'[i][1]
    BY DEF WorkflowsNotInterleaved
  <2>1. i \in 1..Len(log) /\ j \in 1..Len(log) /\ Len(log) \in Nat
    BY <1>7, <1>8
  <2>2. CASE k \in 1..Len(log)
    BY <1>8, <2>1, <2>2 DEF LogInv, WorkflowsNotInterleaved
  <2>3. CASE k = Len(log')
    <3>1. log[i][1] = w /\ w \in Running
      BY <1>2, <1>6, <1>8, <1>10, <2>1, <2>3
    <3>2. i \in DOMAIN log /\ j \in DOMAIN log
      BY <1>7, <2>1
    <3> QED
      BY <1>8, <2>1, <3>1, <3>2 DEF LogInv, LogTail
  <2> QED
    BY <1>8, <2>1, <2>2, <2>3
<1> QED
  BY <1>13, <1>14

\* Every step allowed to serial clients keeps the events of a workflow together.
LEMMA NextLog ==
  ASSUME LogInv, [Next /\ Serial']_vars
  PROVE  LogInv'
<1> USE DEF sessionVars, workerVars, mainVars
<1>0. SerialInv' /\ ScriptInv'
  BY NextSerial, NextScripts DEF LogInv
<1>1. LogTail' /\ WorkflowsNotInterleaved'
  <2> USE DEF LogInv
  <2> DEFINE Grows == \A r \in Requests : session[r] \in {"assign", "done"}
                                            => session'[r] \in {"assign", "done"}
             Starts == \A r \in Running' : r \in Running \/ session[r] = "create"
  <2>0. ASSUME UNCHANGED <<session, thread, log>> PROVE LogTail' /\ WorkflowsNotInterleaved'
    BY <2>0, LogUntouched DEF Running
  <2>1. CASE UNCHANGED vars
    BY <2>0, <2>1 DEF vars
  <2>2. ASSUME NEW r \in Requests, Post(r) PROVE LogTail' /\ WorkflowsNotInterleaved'
    <3>1. log' = log /\ thread' = thread /\ Grows
      BY <2>2 DEF Post, At, Goto, SerialInv, TypeOK
    <3> QED
      BY <3>1, LogUntouched DEF Running
  <2>3. ASSUME NEW r \in Requests, Session(r) PROVE LogTail' /\ WorkflowsNotInterleaved'
    <3>1. log' = log /\ Starts
      BY <2>3 DEF Session, RejectEmptyUri, CheckBusy, TestJoinable, Join, JoinReturns,
                  RecordAccepted, CreateThread, AssignThread, Terminate, At, Running,
                  SerialInv, TypeOK
    <3>2. Grows
      BY <2>3 DEF Session, RejectEmptyUri, CheckBusy, TestJoinable, Join, JoinReturns,
                  RecordAccepted, CreateThread, AssignThread, Terminate, At, Goto, Answer,
                  SerialInv, TypeOK
    <3> QED
      BY <3>1, <3>2, LogUntouched
  <2>4. ASSUME NEW w \in Requests, Worker(w) PROVE LogTail' /\ WorkflowsNotInterleaved'
    <3>1. CASE LogEvent(w)
      BY <3>1, LogAppended
    <3>2. CASE ~LogEvent(w)
      <4>1. log' = log /\ session' = session
        BY <2>4, <3>2 DEF Worker, ClearStop, SetStatusLocked, NotifyStateChange, CheckStop,
                          Return
      <4>2. Starts
        BY <2>4, <3>2 DEF Worker, ClearStop, SetStatusLocked, NotifyStateChange, CheckStop,
                          Return, Running, SerialInv, TypeOK
      <4> QED
        BY <4>1, <4>2, LogUntouched
    <3> QED
      BY <3>1, <3>2
  <2>5. CASE StopServer \/ Destructor \/ Exit \/ UseAfterDestroy \/ Quiescent
    <3>1. UNCHANGED <<session, thread, log>>
      BY <2>5 DEF StopServer, Destructor, RequestStop, DestructorJoin,
                  DestructorJoinReturns, Exit, UseAfterDestroy, Quiescent, Terminate, vars
    <3> QED
      BY <2>0, <3>1
  <2> QED
    BY <2>1, <2>2, <2>3, <2>4, <2>5 DEF Next
<1> QED
  BY <1>0, <1>1 DEF LogInv

\* For clients that wait for their answers the event log shows one workflow after the
\* other: the join on line 43 also waits for the event that line 113 logs after the
\* busy flag went down.
THEOREM SerialLogInOrder == SerialSpec => []WorkflowsNotInterleaved
<1>1. Init => LogInv
  <2> SUFFICES ASSUME Init PROVE LogTail /\ WorkflowsNotInterleaved
    BY InitSerial, InitScripts DEF LogInv
  <2>1. log = <<>>
    BY DEF Init
  <2>2. log \in Seq(Requests \X Events) /\ Len(log) = 0
    BY <2>1
  <2> QED
    BY <2>1, <2>2 DEF LogTail, WorkflowsNotInterleaved
<1>2. LogInv /\ [Next /\ Serial']_vars => LogInv'
  BY NextLog
<1>3. LogInv => WorkflowsNotInterleaved
  BY DEF LogInv
<1> QED
  BY <1>1, <1>2, <1>3, PTL DEF SerialSpec

=============================================================================
