------------------------ MODULE FirmwareUpdateManager ------------------------
(***************************************************************************)
(* services/FirmwareUpdateManager.cpp of openbmc-ai-server-management-     *)
(* stack: the firmware update workflow that one background thread runs and *)
(* that HTTP sessions start.                                               *)
(*                                                                         *)
(* Three kinds of threads meet in this class:                              *)
(*   - HTTP sessions (RedfishApiServer::handleSession, one detached thread *)
(*     per connection) call startUpdate();                                 *)
(*   - the worker thread that an accepted startUpdate() creates runs       *)
(*     runUpdateWorkflow();                                                *)
(*   - the main thread stops the HTTP server and later runs the            *)
(*     destructor.                                                         *)
(* mutex_ protects status_ and stateChangeCallback_ only.  workerThread_,  *)
(* a std::thread, is read, joined and assigned outside any lock.           *)
(***************************************************************************)
EXTENDS Naturals, Sequences, FiniteSets

CONSTANTS
  Requests,   \* the SimpleUpdate requests; each is one HTTP session, and its
              \* name also names the worker thread it may create
  Uris,       \* the classes of image_uri that are posted
  None        \* the empty std::thread handle

ASSUME UrisAssumption == Uris \subseteq {"good", "bad", "install-fail", ""}
ASSUME NoneAssumption == None \notin Requests

VARIABLES
  session,        \* where each HTTP session is inside startUpdate()
  uri,            \* the image_uri it posted
  reply,          \* the HTTP status it was answered with
  thread,         \* life of the worker thread each session may create
  todo,           \* the steps that worker has yet to execute
  workerThread,   \* member workerThread_: the joinable worker, or None
  status,         \* member status_
  stopRequested,  \* member stopRequested_
  published,      \* the FirmwareState last broadcast by the callback
  log,            \* FW_* events in the order EventLogger stored them
  owner,          \* progress of the main thread through shutdown
  process         \* the fate of the operating-system process

vars == <<session, uri, reply, thread, todo, workerThread, status,
          stopRequested, published, log, owner, process>>

sessionVars == <<session, uri, reply>>
workerVars  == <<thread, todo, published, log>>
mainVars    == <<owner, process>>

States == {"Idle", "Downloading", "Verifying", "Installing", "RebootPending",
           "Completed", "Rollback"}

-----------------------------------------------------------------------------
(* runUpdateWorkflow: the sequence of steps that other threads can observe. *)
(* The sleeps between the stages are the gaps between two steps.            *)

Log(event) == <<"log", event>>

\* Mutation of SetStatus: the callback runs before the locked assignment.
NotifyThenSetStatus(state, busy) == << <<"notify">>, <<"set", state, busy>> >>

SetStatus(state, busy) == << <<"set", state, busy>>, <<"notify">> >>

\* Mutation of Failure: the rollback leaves the busy flag up.
FailureStaysBusy(event) ==
  <<Log(event), Log("FW_ROLLBACK_TRIGGERED")>> \o SetStatus("Rollback", TRUE)

Failure(event) ==
  <<Log(event), Log("FW_ROLLBACK_TRIGGERED")>> \o SetStatus("Rollback", FALSE)

Install ==
  SetStatus("Installing", TRUE)
    \o SetStatus("RebootPending", TRUE) \o SetStatus("Completed", FALSE)
    \o <<Log("FW_UPDATE_COMPLETED")>>

Workflow(u) ==
  << <<"clearStop">>, Log("FW_UPDATE_STARTED")>> \o SetStatus("Downloading", TRUE)
  \o << <<"checkStop">>, Log("FW_VERIFY_STARTED")>> \o SetStatus("Verifying", TRUE)
  \o IF u = "bad" THEN Failure("FW_VERIFY_FAILED")
     ELSE <<Log("FW_INSTALL_STARTED")>>
          \o IF u = "install-fail"
             THEN SetStatus("Installing", TRUE) \o Failure("FW_UPDATE_FAILED")
             ELSE Install

-----------------------------------------------------------------------------
Init ==
  /\ session = [r \in Requests |-> "new"]
  /\ uri = [r \in Requests |-> ""]
  /\ reply = [r \in Requests |-> "none"]
  /\ thread = [r \in Requests |-> "absent"]
  /\ todo = [r \in Requests |-> <<>>]
  /\ workerThread = None
  /\ status = [state |-> "Idle", imageUri |-> "", lastResult |-> "Idle", busy |-> FALSE]
  /\ stopRequested = FALSE
  /\ published = "Idle"
  /\ log = <<>>
  /\ owner = "serving"
  /\ process = "running"

Alive == process = "running" /\ owner # "gone"

At(r, where) == Alive /\ session[r] = where

Goto(r, where) == session' = [session EXCEPT ![r] = where]

\* startUpdate returned: handleSession answers and the session ends.
Answer(r, code) ==
  /\ reply' = [reply EXCEPT ![r] = code]
  /\ Goto(r, "done")

\* std::terminate: an uncaught std::system_error of join(), or the assignment
\* to a std::thread that is still joinable.
Terminate ==
  /\ process' = "aborted"
  /\ UNCHANGED <<sessionVars, workerVars, workerThread, status, stopRequested, owner>>

Joining == {r \in Requests : session[r] = "joining"}

JoinInProgress == Joining # {} \/ owner = "joining"

\* The pthread_join behind join() fails when the handle is empty by now, or
\* when another thread is already joining the same worker.
JoinFails == workerThread = None \/ JoinInProgress

-----------------------------------------------------------------------------
(* startUpdate, one action per stretch between two synchronisations.        *)

\* The session arrives while the acceptor is open.
Post(r) ==
  /\ At(r, "new")
  /\ owner = "serving"
  /\ \E u \in Uris : uri' = [uri EXCEPT ![r] = u]
  /\ Goto(r, "check")
  /\ UNCHANGED <<reply, workerVars, workerThread, status, stopRequested, mainVars>>

RejectEmptyUri(r) ==
  /\ At(r, "check")
  /\ uri[r] = ""
  /\ Answer(r, "409")
  /\ UNCHANGED <<uri, workerVars, workerThread, status, stopRequested, mainVars>>

\* The first lock_guard block.
CheckBusy(r) ==
  /\ At(r, "check")
  /\ uri[r] # ""
  /\ IF status.busy THEN Answer(r, "409")
                    ELSE Goto(r, "joinable?") /\ UNCHANGED reply
  /\ UNCHANGED <<uri, workerVars, workerThread, status, stopRequested, mainVars>>

TestJoinable(r) ==
  /\ At(r, "joinable?")
  /\ Goto(r, IF workerThread = None THEN "record" ELSE "join")
  /\ UNCHANGED <<uri, reply, workerVars, workerThread, status, stopRequested, mainVars>>

Join(r) ==
  /\ At(r, "join")
  /\ IF JoinFails
     THEN Terminate
     ELSE /\ Goto(r, "joining")
          /\ UNCHANGED <<uri, reply, workerVars, workerThread, status,
                         stopRequested, mainVars>>

\* Mutation of Joined: the old worker is detached instead of waited for.
DetachedInstead == TRUE

\* The worker that workerThread_ stands for has returned.
Joined == workerThread # None /\ thread[workerThread] = "returned"

JoinReturns(r) ==
  /\ At(r, "joining")
  /\ Joined
  /\ workerThread' = None
  /\ Goto(r, "record")
  /\ UNCHANGED <<uri, reply, workerVars, status, stopRequested, mainVars>>

\* The second lock_guard block: state and busy are left as they were.
RecordAccepted(r) ==
  /\ At(r, "record")
  /\ status' = [status EXCEPT !.imageUri = uri[r], !.lastResult = "Update accepted"]
  /\ Goto(r, "create")
  /\ UNCHANGED <<uri, reply, workerVars, workerThread, stopRequested, mainVars>>

\* The temporary std::thread: the worker starts to run before the handle of
\* the previous one is overwritten.
CreateThread(r) ==
  /\ At(r, "create")
  /\ thread' = [thread EXCEPT ![r] = "running"]
  /\ todo' = [todo EXCEPT ![r] = Workflow(uri[r])]
  /\ Goto(r, "assign")
  /\ UNCHANGED <<uri, reply, published, log, workerThread, status, stopRequested, mainVars>>

\* workerThread_ = std::move(temporary), then the 202 answer.
AssignThread(r) ==
  /\ At(r, "assign")
  /\ IF workerThread # None
     THEN Terminate
     ELSE /\ workerThread' = r
          /\ Answer(r, "202")
          /\ UNCHANGED <<uri, workerVars, status, stopRequested, mainVars>>

Session(r) ==
  \/ RejectEmptyUri(r) \/ CheckBusy(r) \/ TestJoinable(r) \/ Join(r)
  \/ JoinReturns(r) \/ RecordAccepted(r) \/ CreateThread(r) \/ AssignThread(r)

-----------------------------------------------------------------------------
(* The worker thread.                                                       *)

Executes(w, step) ==
  /\ Alive
  /\ thread[w] = "running"
  /\ todo[w] # <<>>
  /\ Head(todo[w])[1] = step

Advance(w) == todo' = [todo EXCEPT ![w] = Tail(@)]

ClearStop(w) ==
  /\ Executes(w, "clearStop")
  /\ stopRequested' = FALSE
  /\ Advance(w)
  /\ UNCHANGED <<sessionVars, thread, published, log, workerThread, status, mainVars>>

LogEvent(w) ==
  /\ Executes(w, "log")
  /\ log' = Append(log, <<w, Head(todo[w])[2]>>)
  /\ Advance(w)
  /\ UNCHANGED <<sessionVars, thread, published, workerThread, status, stopRequested, mainVars>>

\* Mutation of LockFree: startUpdate and the destructor join with mutex_ held.
LockFreeUnlessJoining == ~JoinInProgress

\* No thread waits for anything while it holds mutex_.
LockFree == TRUE

SetStatusLocked(w) ==
  /\ Executes(w, "set")
  /\ LockFree
  /\ status' = [status EXCEPT !.state = Head(todo[w])[2],
                              !.lastResult = Head(todo[w])[2],
                              !.busy = Head(todo[w])[3]]
  /\ Advance(w)
  /\ UNCHANGED <<sessionVars, thread, published, log, workerThread, stopRequested, mainVars>>

\* The callback makes the D-Bus bridge broadcast FirmwareState; sd-bus reads
\* the value through the property getter, that is from status_ at that moment.
\* That the bridge stops broadcasting once Application::stop has run is left
\* out: from then on nobody is left to be told.
NotifyStateChange(w) ==
  /\ Executes(w, "notify")
  /\ published' = status.state
  /\ Advance(w)
  /\ UNCHANGED <<sessionVars, thread, log, workerThread, status, stopRequested, mainVars>>

CheckStop(w) ==
  /\ Executes(w, "checkStop")
  /\ IF stopRequested THEN todo' = [todo EXCEPT ![w] = <<>>] ELSE Advance(w)
  /\ UNCHANGED <<sessionVars, thread, published, log, workerThread, status,
                 stopRequested, mainVars>>

Return(w) ==
  /\ Alive
  /\ thread[w] = "running"
  /\ todo[w] = <<>>
  /\ thread' = [thread EXCEPT ![w] = "returned"]
  /\ UNCHANGED <<sessionVars, todo, published, log, workerThread, status,
                 stopRequested, mainVars>>

Worker(w) ==
  \/ ClearStop(w) \/ LogEvent(w) \/ SetStatusLocked(w) \/ NotifyStateChange(w)
  \/ CheckStop(w) \/ Return(w)

-----------------------------------------------------------------------------
(* The main thread: Application::stop closes the acceptor, then the         *)
(* destructor of Application reaches ~FirmwareUpdateManager.  Sessions are  *)
(* detached, so nothing waits for those still inside startUpdate().         *)

StopServer ==
  /\ Alive
  /\ owner = "serving"
  /\ owner' = "stopped"
  /\ UNCHANGED <<sessionVars, workerVars, workerThread, status, stopRequested, process>>

RequestStop ==
  /\ Alive
  /\ owner = "stopped"
  /\ stopRequested' = TRUE
  /\ owner' = "destroying"
  /\ UNCHANGED <<sessionVars, workerVars, workerThread, status, process>>

DestructorJoin ==
  /\ Alive
  /\ owner = "destroying"
  /\ IF workerThread # None /\ JoinFails
     THEN Terminate
     ELSE /\ owner' = IF workerThread = None THEN "gone" ELSE "joining"
          /\ UNCHANGED <<sessionVars, workerVars, workerThread, status,
                         stopRequested, process>>

DestructorJoinReturns ==
  /\ Alive
  /\ owner = "joining"
  /\ Joined
  /\ workerThread' = None
  /\ owner' = "gone"
  /\ UNCHANGED <<sessionVars, workerVars, status, stopRequested, process>>

Destructor == RequestStop \/ DestructorJoin \/ DestructorJoinReturns

\* main() returns; whatever detached threads were doing ends with the process.
Exit ==
  /\ process = "running"
  /\ owner = "gone"
  /\ process' = "exited"
  /\ UNCHANGED <<sessionVars, workerVars, workerThread, status, stopRequested, owner>>

\* A session or a worker that outlives the object uses freed memory.
UseAfterDestroy ==
  /\ process = "running"
  /\ owner = "gone"
  /\ \E r \in Requests : session[r] \notin {"new", "done"} \/ thread[r] = "running"
  /\ Terminate

\* The service idles with every request answered, or the process has ended.
Quiescent ==
  /\ \/ process # "running"
     \/ \A r \in Requests : session[r] = "done" /\ thread[r] # "running"
  /\ UNCHANGED vars

Next ==
  \/ \E r \in Requests : Post(r) \/ Session(r) \/ Worker(r)
  \/ StopServer
  \/ Destructor
  \/ Exit
  \/ UseAfterDestroy
  \/ Quiescent

Spec == Init /\ [][Next]_vars

\* Threads that can run are scheduled; sleeps and joins end.
Fairness ==
  /\ \A r \in Requests : WF_vars(Session(r)) /\ WF_vars(Worker(r))
  /\ WF_vars(Destructor)

FairSpec == Spec /\ Fairness

-----------------------------------------------------------------------------
(* A client that waits for each answer before it posts again, and a         *)
(* shutdown that starts only when no session is inside startUpdate().       *)

InStartUpdate(r) == session[r] \notin {"new", "done"}

Serial ==
  /\ \A r, s \in Requests : InStartUpdate(r) /\ InStartUpdate(s) => r = s
  /\ owner # "serving" => \A r \in Requests : ~InStartUpdate(r)

SerialSpec == Init /\ [][Next /\ Serial']_vars

FairSerialSpec == SerialSpec /\ Fairness
-----------------------------------------------------------------------------
(* Properties                                                               *)

Codes == {"none", "202", "409"}

Events == {"FW_UPDATE_STARTED", "FW_VERIFY_STARTED", "FW_VERIFY_FAILED",
           "FW_ROLLBACK_TRIGGERED", "FW_INSTALL_STARTED", "FW_UPDATE_FAILED",
           "FW_UPDATE_COMPLETED"}

Steps == {<<"clearStop">>, <<"notify">>, <<"checkStop">>}
           \cup {<<"log", e>> : e \in Events}
           \cup {<<"set", s, b>> : s \in States, b \in BOOLEAN}

\* Every member and every thread keeps to the values the code gives it; the
\* handle names a worker that was created.
TypeOK ==
  /\ session \in [Requests -> {"new", "check", "joinable?", "join", "joining",
                               "record", "create", "assign", "done"}]
  /\ uri \in [Requests -> Uris \cup {""}]
  /\ reply \in [Requests -> Codes]
  /\ thread \in [Requests -> {"absent", "running", "returned"}]
  /\ workerThread \in Requests \cup {None}
  /\ todo \in [Requests -> Seq(Steps)]
  /\ status \in [state : States, imageUri : Uris \cup {""},
                 lastResult : States \cup {"Update accepted"}, busy : BOOLEAN]
  /\ stopRequested \in BOOLEAN
  /\ published \in States
  /\ owner \in {"serving", "stopped", "destroying", "joining", "gone"}
  /\ process \in {"running", "aborted", "exited"}

Running == {w \in Requests : thread[w] = "running"}

\* While the object lives, a worker thread that has not returned is owned: it
\* is the one workerThread_ stands for, or its creator is about to store it.
\* startUpdate() joins the previous worker before it replaces it (line 41-44),
\* so no workflow is ever left running behind the manager's back.
WorkerOwned ==
  Alive => \A w \in Running : workerThread = w \/ session[w] = "assign"

\* A created worker whose creator cannot store it dooms the process: two
\* workflows run together only on the way to std::terminate (line 52).
OverlapIsFatal ==
  Alive => \A v, w \in Running : v = w \/ session[v] = "assign" \/ session[w] = "assign"

\* At most one workflow runs at a time (comment on line 35).
OneWorkflowAtATime == Alive => \A v, w \in Running : v = w

\* Clients that wait for their answers never make the process abort.
NeverAborts == process # "aborted"

\* The busy flag is never left up once no workflow runs, or every later update
\* would be refused: all ends of runUpdateWorkflow but the stop request
\* (line 80) clear it, and that one belongs to the destructor.
BusyNotLeaked ==
  Alive /\ status.busy => Running # {} \/ owner \in {"destroying", "joining"}

\* With no callback pending, D-Bus subscribers were told the current state:
\* setStatus notifies after the locked assignment (lines 118-125).
SubscribersUpToDate ==
  (\A w \in Requests : todo[w] = <<>> \/ Head(todo[w]) # <<"notify">>)
    => published = status.state

\* The events of two workflows are never interleaved in the event log: the
\* join on line 43 also waits for the event logged after busy went down
\* (line 113).
WorkflowsNotInterleaved ==
  \A i, j, k \in 1..Len(log) :
     i < j /\ j < k /\ log[i][1] = log[k][1] => log[j][1] = log[i][1]

\* Every posted request is answered unless the process ends first: the wait for
\* the previous worker (line 43) is finite because no lock is held during it.
EveryRequestAnswered ==
  \A r \in Requests : InStartUpdate(r) ~> (session[r] = "done" \/ ~Alive)

\* The destructor returns even when the worker erases its stop request by
\* starting late (line 71 after line 16); it then waits for a whole workflow.
ShutdownCompletes == owner = "destroying" ~> ~Alive

\* What the comment on line 35 promises: while a workflow runs, a second
\* request does not get past the busy check.
SecondRequestRefused ==
  [][\A r \in Requests :
       session[r] = "check" /\ session'[r] = "joinable?" => Running = {}]_vars
=============================================================================
