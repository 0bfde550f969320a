---------------------------- MODULE InProcessApi ----------------------------
(***************************************************************************)
(* The RGP API inside of an application                                    *)
(* (src/source/DevDriverAPI/RGPClientInProcessModel.cpp): its worker       *)
(* thread, which answers Halted messages and collects traces through the   *)
(* clients of RgpTrace and DriverControl, the application's thread that    *)
(* triggers captures and finishes, the driver with both servers, and other *)
(* tools that control the driver at the same time.                         *)
(***************************************************************************)
EXTENDS RgpTrace, DriverControl

CONSTANTS
  Api,   \* the tool that is the API
  Plans  \* bound: for one behaviour, whether the application uses the API and
         \* ends, how many captures it triggers, how many requests time out,
         \* how many orders the other tools give, and which

ASSUME ApiAssumption ==
  /\ Api \in Controls /\ Tools = {Api}
  /\ Plans \subseteq [api : BOOLEAN, ends : BOOLEAN, captures : Nat, late : Nat,
                     orders : 0..MaxOrders, requests : SUBSET Requests]

VARIABLES
  plan,             \* the plan of this behaviour
  worker,           \* where the worker thread is
  workerState,      \* g_workerState
  result,           \* the result of ProcessHaltedMessage in WorkerInit
  profilingEnabled, \* m_profilingEnabled
  captured,         \* m_profileCaptured
  file,             \* the chunks in the file of the last trace
  shutdown,         \* m_requestingShutdown
  user,             \* where the application's thread is
  captures,         \* how many captures were triggered
  late              \* how many requests have timed out

workerVars == <<worker, workerState, result, profilingEnabled, file>>
userVars == <<shutdown, user, captures>>
apiVars == <<workerVars, captured, userVars, late>>
vars == <<plan, rgpVars, calls, controlVars, orders, apiVars>>

Panels == Controls \ {Api}

\* An application that does not use the API is one that has finished with it.
ApiInit ==
  /\ plan \in Plans
  /\ Init /\ ControlInit
  /\ worker = (IF plan.api THEN "Dispatch" ELSE "Ended")
  /\ workerState = (IF plan.api THEN "Init" ELSE "Done")
  /\ user = (IF plan.api THEN "Free" ELSE "Finished")
  /\ result = FALSE /\ profilingEnabled = FALSE
  /\ captured = FALSE /\ file = <<>> /\ shutdown = FALSE
  /\ captures = 0 /\ late = 0

-----------------------------------------------------------------------------
(* The worker thread.                                                      *)

WorkerAt(label) == worker = label
WorkerTo(label) == worker' = label

KeepRgp == UNCHANGED rgpVars
KeepControl == UNCHANGED controlVars
KeepFlags == UNCHANGED <<workerState, result, profilingEnabled, captured, file>>

\* RGPWorkerThreadFunc; in the idle state it only sleeps.
Dispatch ==
  /\ WorkerAt("Dispatch")
  /\ \/ workerState = "Init" /\ WorkerTo("Listen") /\ UNCHANGED workerState
     \/ workerState = "Capturing" /\ WorkerTo("Connect")
        /\ UNCHANGED workerState
     \/ workerState = "Finished" /\ WorkerTo("Ended") /\ workerState' = "Done"
  /\ KeepRgp /\ KeepControl
  /\ UNCHANGED <<result, profilingEnabled, captured, file>>

\* Mutant: does not look at the shutdown request.
ListenEndsOnSuccess ==
  /\ WorkerAt("Listen") /\ result
  /\ WorkerTo("Dispatch") /\ workerState' = "Idle"
  /\ KeepRgp /\ KeepControl
  /\ UNCHANGED <<result, profilingEnabled, captured, file>>

\* WorkerInit: after a Halted message it takes every other one that waits,
\* before it looks at the result and at the shutdown request.
ListenEnds ==
  /\ WorkerAt("Listen") /\ (result \/ shutdown)
  /\ WorkerTo("Dispatch") /\ workerState' = "Idle"
  /\ KeepRgp /\ KeepControl
  /\ UNCHANGED <<result, profilingEnabled, captured, file>>

TakeHalted ==
  /\ WorkerAt("More") \/ (WorkerAt("Listen") /\ ~result /\ ~shutdown)
  /\ WorkerTo("Connect")
  /\ ReadHalted
  /\ KeepRgp /\ KeepFlags

NoMore ==
  /\ WorkerAt("More") /\ mails = 0
  /\ WorkerTo("Listen")
  /\ KeepRgp /\ KeepControl /\ KeepFlags

\* The two connections are one step: no message thread serves both sessions
\* at once, so what one of them does can be put before or after it.
ConnectProtocolClients ==
  /\ WorkerAt("Connect")
  /\ WorkerTo(IF workerState = "Init" THEN "Query" ELSE "BeginTrace")
  /\ ConnectControl(Api) /\ ConnectClient(Api)
  /\ KeepFlags

\* A worker that has collected a trace is idle after it.
DisconnectProtocolClients ==
  /\ WorkerAt("Leave")
  /\ IF workerState = "Init" THEN WorkerTo("More") /\ UNCHANGED workerState
     ELSE WorkerTo("Dispatch") /\ workerState' = "Idle"
  /\ LeaveControl(Api) /\ Leave(Api)
  /\ UNCHANGED <<result, profilingEnabled, captured, file>>

\* EnableRgpProfiling: the answer to the query decides nothing.
EnableRgpProfiling ==
  /\ \/ /\ WorkerAt("Query") /\ WorkerTo("QueryAnswer")
        /\ AskProfiling(Api, "QueryProfilingStatusRequest")
        /\ profilingEnabled' = FALSE
     \/ /\ WorkerAt("QueryAnswer") /\ WorkerTo("Enable")
        /\ TakeProfiling(Api)
        /\ UNCHANGED profilingEnabled
     \/ /\ WorkerAt("Enable") /\ WorkerTo("EnableAnswer")
        /\ AskProfiling(Api, "EnableProfilingRequest")
        /\ UNCHANGED profilingEnabled
     \/ /\ WorkerAt("EnableAnswer") /\ WorkerTo("Resume")
        /\ TakeProfiling(Api)
        /\ profilingEnabled' = EnableSucceeded(Api)
  /\ KeepControl
  /\ UNCHANGED <<workerState, result, captured, file>>

ResumeDriver ==
  /\ \/ /\ WorkerAt("Resume") /\ WorkerTo("ResumeAnswer")
        /\ Ask(Api, "ResumeDriver", 0)
        /\ UNCHANGED result
     \/ /\ WorkerAt("ResumeAnswer") /\ WorkerTo("Poll")
        /\ TakeReply(Api)
        /\ result' = Says(Api, "ResumeDriver", {"Success"})
  /\ KeepRgp
  /\ UNCHANGED <<workerState, profilingEnabled, captured, file>>

\* WaitForDriverInitialization asks until the driver runs or its time is over.
Poll ==
  /\ \/ /\ WorkerAt("Poll") /\ WorkerTo("PollAnswer")
        /\ Ask(Api, "QueryDriverStatus", 0)
        /\ UNCHANGED result
     \/ /\ WorkerAt("PollAnswer")
        /\ TakeReply(Api)
        /\ IF Says(Api, "QueryDriverStatus", DriverStatus \ {"Running", "Paused"})
           THEN WorkerTo("Poll") /\ UNCHANGED result
           ELSE /\ WorkerTo("Leave")
                /\ result' = (result /\
                     Says(Api, "QueryDriverStatus", {"Running", "Paused"}))
  /\ KeepRgp
  /\ UNCHANGED <<workerState, profilingEnabled, captured, file>>

PollTimesOut ==
  /\ WorkerAt("Poll") /\ WorkerTo("Leave")
  /\ result' = FALSE
  /\ KeepRgp /\ KeepControl
  /\ UNCHANGED <<workerState, profilingEnabled, captured, file>>

\* CollectRgpTrace: begin, wait for the end, read the chunks into the file.
RequestAndWait ==
  /\ \/ WorkerAt("BeginTrace") /\ RequestTrace(Api)
        /\ WorkerTo(IF client'[Api].state = "Error" THEN "Leave" ELSE "EndTrace")
     \/ WorkerAt("EndTrace") /\ (TakeHeader(Api) \/ SkipHeader(Api))
        /\ WorkerTo(IF client'[Api].state = "Error" THEN "Leave" ELSE "Read")
  /\ KeepControl /\ KeepFlags

ReadsChunks ==
  /\ WorkerAt("Read")
  /\ \/ TakeChunk(Api) \/ TakeSentinel(Api) \/ TakeChunkOrSentinel(Api)
     \/ TimeOut(Api)
  /\ file' = client'[Api].received
  /\ WorkerTo(IF client'[Api].whole \/ client'[Api].state = "Error"
              THEN "Leave" ELSE "Read")
  /\ KeepControl
  /\ UNCHANGED <<workerState, result, profilingEnabled>>

\* Mutant: a trace that ends is a trace that was captured.
ReadToAnyEnd ==
  ReadsChunks /\ captured' = (captured \/ worker' = "Leave")

ReadTrace ==
  ReadsChunks /\ captured' = (captured \/ client'[Api].whole)

\* EndTrace gives up after gs_ENDTRACE_TIMEOUT, and the trace goes on.
EndTraceTimesOut ==
  /\ WorkerAt("EndTrace") /\ WorkerTo("Leave")
  /\ KeepRgp /\ KeepControl /\ KeepFlags

\* A request times out: the worker goes on, and the answer will be taken for
\* that of the next request.
AnswerIsLate ==
  /\ late < plan.late /\ late' = late + 1
  /\ \/ /\ TimeOut(Api) /\ KeepControl /\ UNCHANGED result
        /\ \/ WorkerAt("QueryAnswer") /\ WorkerTo("Enable")
           \/ WorkerAt("EnableAnswer") /\ WorkerTo("Resume")
     \/ /\ ReplyTimesOut(Api) /\ KeepRgp /\ result' = FALSE
        /\ \/ WorkerAt("ResumeAnswer") /\ WorkerTo("Poll")
           \/ WorkerAt("PollAnswer") /\ WorkerTo("Leave")
  /\ UNCHANGED <<workerState, profilingEnabled, captured, file>>

Worker ==
  /\ \/ /\ \/ Dispatch \/ ListenEnds \/ TakeHalted \/ NoMore
           \/ ConnectProtocolClients \/ DisconnectProtocolClients
           \/ EnableRgpProfiling \/ ResumeDriver \/ Poll \/ PollTimesOut
           \/ RequestAndWait \/ ReadTrace \/ EndTraceTimesOut
        /\ UNCHANGED late
     \/ AnswerIsLate
  /\ UNCHANGED <<plan, calls, orders, userVars>>

-----------------------------------------------------------------------------
(* The application's thread.                                               *)

UserKeeps ==
  UNCHANGED <<plan, rgpVars, calls, controlVars, orders, worker, result,
              profilingEnabled, file, late>>

\* TriggerCapture; the flag of the last capture is cleared after the unlock.
TriggerCapture ==
  /\ user = "Free" /\ captures < plan.captures
  /\ profilingEnabled /\ workerState = "Idle"
  /\ workerState' = "Capturing" /\ user' = "Clear" /\ captures' = captures + 1
  /\ UserKeeps /\ UNCHANGED <<captured, shutdown>>

ClearCaptured ==
  /\ user = "Clear" /\ user' = "Free"
  /\ captured' = FALSE
  /\ UserKeeps /\ UNCHANGED <<workerState, shutdown, captures>>

Finish ==
  /\ plan.ends
  /\ user = "Free" /\ user' = "Finishing"
  /\ shutdown' = TRUE
  /\ UserKeeps /\ UNCHANGED <<workerState, captured, captures>>

FinishLoop ==
  /\ user = "Finishing"
  /\ \/ workerState = "Idle" /\ workerState' = "Finished" /\ UNCHANGED user
     \/ workerState = "Done" /\ user' = "Finished" /\ UNCHANGED workerState
  /\ UserKeeps /\ UNCHANGED <<captured, shutdown, captures>>

User == TriggerCapture \/ ClearCaptured \/ Finish \/ FinishLoop

-----------------------------------------------------------------------------
(* The driver's threads, and the other tools.                              *)

\* The driver initializes, or makes one call of RGP in a frame.  It allows
\* traces before it looks for a halt.
Driver ==
  /\ \/ Initialize /\ KeepRgp
     \/ FinalizeServers /\ Finalize
     \/ At("Halt") /\ halts = 2 /\ EnableTraces /\ KeepControl
     \/ Frame /\ (KeepRgp \/ BeginTrace \/ EndsTrace
                  \/ \E k \in 1..MaxChunks : WriteTraceData(k))
  /\ UNCHANGED <<plan, calls, orders, apiVars>>

\* The message thread does one thing at a time, for a session of either
\* protocol; an operation on the event goes before everything else.
Serve ==
  /\ \/ handler = "None" /\ (UpdateSession(Api) \/ SessionTerminated(Api))
        /\ KeepControl
     \/ SetEvent /\ KeepRgp
     \/ \E t \in Controls : (UpdateControl(t) \/ ControlTerminated(t)) /\ KeepRgp
  /\ UNCHANGED <<plan, calls, orders, apiVars>>

PanelGoesOn ==
  /\ \E t \in Panels : TakeReply(t) \/ LeaveControl(t)
  /\ KeepRgp /\ UNCHANGED <<plan, calls, orders, apiVars>>

PanelIsLate ==
  /\ late < plan.late /\ late' = late + 1
  /\ \E t \in Panels : ReplyTimesOut(t)
  /\ KeepRgp /\ UNCHANGED <<plan, calls, orders, workerVars, captured, userVars>>

\* Every tool session and every request of a panel counts as an order.
PanelBegins ==
  /\ orders < plan.orders /\ orders' = orders + 1
  /\ \E t \in Panels : \/ ConnectControl(t)
                       \/ \E c \in plan.requests : Order(t, c)
  /\ KeepRgp /\ UNCHANGED <<plan, calls, apiVars>>

ApiNext ==
  \/ Worker \/ User \/ Driver \/ Serve
  \/ PanelGoesOn \/ PanelIsLate \/ PanelBegins

\* Threads run, calls of the clients return or give up, time passes while the
\* worker polls, and a tool does not keep its session for ever.
ApiFairness ==
  /\ WF_vars(Worker) /\ SF_vars(Worker /\ PollTimesOut)
  /\ WF_vars(ClearCaptured \/ FinishLoop)
  /\ WF_vars(Driver) /\ WF_vars(Serve) /\ WF_vars(PanelGoesOn)

ApiSpec == ApiInit /\ [][ApiNext]_vars /\ ApiFairness
-----------------------------------------------------------------------------
WorkerLabels == {"Dispatch", "Listen", "More", "Connect", "Leave",
  "Query", "QueryAnswer", "Enable",
  "EnableAnswer", "Resume", "ResumeAnswer", "Poll", "PollAnswer", "BeginTrace",
  "EndTrace", "Read", "Ended"}

ApiTypeOK ==
  /\ TypeOK /\ ControlTypeOK
  /\ worker \in WorkerLabels
  /\ workerState \in {"Init", "Capturing", "Idle", "Finished", "Done"}
  /\ {result, profilingEnabled, captured, shutdown} \subseteq BOOLEAN
  /\ file \in Seq(0..MaxChunks)
  /\ user \in {"Free", "Clear", "Finishing", "Finished"}
  /\ plan \in Plans
  /\ captures \in 0..plan.captures /\ late \in 0..plan.late

\* TriggerCapture (RGPClientInProcessModel.cpp:848) goes by m_profilingEnabled:
\* what the API believes of the driver is so, whichever requests timed out and
\* whoever resumed the driver while the API was configuring it.
BeliefIsRight == profilingEnabled => profiling = "Enabled"

\* A capture that is reported to the application is the whole trace that the
\* driver wrote, also if an earlier capture has failed or a request of it has
\* timed out.
CapturedIsWhole ==
  captured /\ user # "Clear" /\ workerState = "Idle" => file = written[Api]

\* HandleDriverHalt (driverControlServer.cpp:674): the driver gets on with its
\* initialization, whether a tool answers its Halted messages, leaves in the
\* middle of it, or none comes.
DriverStarts == driver \in HaltLabels ~> driver \notin HaltLabels

\* RGPClientInProcessModel.cpp:156: Finish returns, whatever the worker is
\* waiting for.
FinishReturns == user = "Finishing" ~> user = "Finished"
=============================================================================
