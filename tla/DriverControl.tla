---------------------------- MODULE DriverControl ----------------------------
(***************************************************************************)
(* The driver control protocol: the status of the driver, which the        *)
(* driver's own thread and the message thread of its process both change   *)
(* (src/protocols/driverControlServer.cpp), and the clients in the tools   *)
(* (src/protocols/driverControlClient.cpp).                                *)
(*                                                                         *)
(* No lock guards m_driverStatus.  A step is a test of the status with the *)
(* write it guards, or one operation on m_driverResumedEvent, so that the  *)
(* other thread acts between a new status and the event that goes with it. *)
(***************************************************************************)
EXTENDS Integers, Sequences

CONSTANTS
  Controls,        \* the tools, each with at most one session at a time
  ControlVersion,  \* the protocol version that the session of a tool has
  StepCounts,      \* the numbers of frames a tool may ask for
  StartTimeout,    \* kDefaultDriverStartTimeoutMs, in waits of the driver
  MaxMails,        \* bound: Halted messages that nobody has read
  MaxOrders        \* bound: requests in a behaviour

DRIVERCONTROL_INITIALIZATION_STATUS_VERSION == 2

ASSUME ControlAssumption ==
  /\ ControlVersion \in [Controls -> 1..2]
  /\ StepCounts \subseteq Nat \ {0}
  /\ {StartTimeout, MaxMails, MaxOrders} \subseteq Nat

VARIABLES
  driver,      \* where the driver's thread is
  halts,       \* calls of HandleDriverHalt that Finalize still makes
  waited,      \* how often the driver has waited in this halt
  status,      \* m_driverStatus
  resumed,     \* m_driverResumedEvent is signaled
  handler,     \* what the message thread still does to that event
  stepCounter, \* m_stepCounter
  initStep,    \* m_initStepRequested
  control,     \* the DriverControlSession of a tool's session
  caller,      \* the call a tool's client waits in
  request,     \* requests the server has not received
  reply,       \* answers a client has not received
  mails,       \* Halted messages sent to the tools and not read
  orders       \* how many requests were sent

driverVars == <<driver, halts, waited, initStep, mails>>
statusVars == <<status, resumed, handler, stepCounter>>
sessionVars == <<control, caller, request, reply>>
controlVars == <<driverVars, statusVars, sessionVars>>

DriverStatus == {"PlatformInit", "HaltedOnPlatformInit", "EarlyDeviceInit",
                 "HaltedOnDeviceInit", "LateDeviceInit", "Running", "Paused"}

Requests == {"PauseDriver", "ResumeDriver", "QueryDriverStatus", "StepDriver"}

\* count is the frames of a step request, answer what an answer says.
ControlPayload == [command : Requests, count : StepCounts \cup {0},
                   answer : {"None", "Success", "Error"} \cup DriverStatus]
Ordered(c, n) == [command |-> c, count |-> n, answer |-> "None"]

\* The labels of the driver's thread: HandleDriverHalt, FinalizeServers,
\* FinishDriverInitialization, the driver at work, and WaitForDriverResume.
HaltLabels == {"Halt", "HaltClear", "HaltBranch", "HaltLoop", "HaltTimeUp",
               "HaltSignal", "HaltSleep"}
Labels == HaltLabels \cup {"Finalize", "Finish", "FinishPause", "FinishClear",
  "Frame", "StepPause", "StepClear", "Check", "PauseLoop", "PauseSleep"}

Halted == {"HaltedOnPlatformInit", "HaltedOnDeviceInit"}

Closed == [state |-> "None", payload |-> Ordered("QueryDriverStatus", 0)]

ControlInit ==
  /\ driver = "Halt" /\ halts = 2 /\ waited = 0
  /\ status = "PlatformInit" /\ resumed = TRUE /\ handler = "None"
  /\ stepCounter = 0 /\ initStep = FALSE
  /\ control = [t \in Controls |-> Closed]
  /\ caller = [t \in Controls |-> "Closed"]
  /\ request = [t \in Controls |-> <<>>]
  /\ reply = [t \in Controls |-> <<>>]
  /\ mails = 0 /\ orders = 0

\* m_numSessions == 0.
NoSessions == \A t \in Controls : control[t].state = "None"

-----------------------------------------------------------------------------
(* PauseDriver and ResumeDriver, whichever thread calls them.               *)

Pausable == {"Running", "EarlyDeviceInit", "PlatformInit"}
PausedStatus ==
  CASE status = "Running" -> "Paused"
    [] status = "EarlyDeviceInit" -> "HaltedOnDeviceInit"
    [] status = "PlatformInit" -> "HaltedOnPlatformInit"

Resumable == {"Paused"} \cup Halted
ResumedStatus ==
  CASE status = "Paused" -> "Running"
    [] status = "HaltedOnDeviceInit" -> "LateDeviceInit"
    [] status = "HaltedOnPlatformInit" -> "EarlyDeviceInit"

\* The driver calls PauseDriver: it goes on at clear to clear the event, and
\* to next if there is nothing to pause.
DriverPauses(clear, next) ==
  IF status \in Pausable
  THEN status' = PausedStatus /\ driver' = clear
  ELSE driver' = next /\ UNCHANGED status

\* The message thread resumes: the event is signaled in its next step.
HandlerResumes == status' = ResumedStatus /\ handler' = "Signal"

-----------------------------------------------------------------------------
(* The driver's thread.                                                    *)

At(label) == driver = label
Goto(label) == driver' = label

\* A Halted message reaches whoever it is sent to, unless nobody reads them.
SendHalted == mails' = IF mails < MaxMails THEN mails + 1 ELSE mails

\* HandleDriverHalt: whether a client asks for a halt is up to the clients.
Halt ==
  /\ At("Halt")
  /\ IF status = "EarlyDeviceInit" /\ initStep
     THEN initStep' = FALSE /\ DriverPauses("HaltClear", "HaltBranch")
     ELSE /\ UNCHANGED initStep
          /\ \/ status \in {"EarlyDeviceInit", "PlatformInit"}
                /\ DriverPauses("HaltClear", "HaltBranch")
             \/ Goto("HaltBranch") /\ UNCHANGED status
  /\ UNCHANGED <<halts, waited, mails, resumed, handler, stepCounter, sessionVars>>

\* The next HandleDriverHalt of Finalize, or what follows the last one.
NextHalt ==
  /\ halts' = halts - 1
  /\ driver' = IF halts > 1 THEN "Halt" ELSE "Finalize"

\* Without a halt the initialization goes on to its next phase.
HaltBranch ==
  /\ At("HaltBranch")
  /\ IF status \in Halted
     THEN Goto("HaltLoop") /\ waited' = 0 /\ UNCHANGED <<halts, status>>
     ELSE /\ status' = IF status = "EarlyDeviceInit" THEN "LateDeviceInit"
                       ELSE "EarlyDeviceInit"
          /\ NextHalt /\ UNCHANGED waited
  /\ UNCHANGED <<initStep, mails, resumed, handler, stepCounter, sessionVars>>

\* Mutant: waits for a tool as long as it takes.
HaltLoopForEver ==
  /\ At("HaltLoop") /\ Goto("HaltSleep")
  /\ IF NoSessions THEN SendHalted ELSE UNCHANGED mails
  /\ UNCHANGED <<halts, waited, initStep, statusVars, sessionVars>>

HaltLoop ==
  /\ At("HaltLoop")
  /\ CASE ~NoSessions -> Goto("HaltSleep") /\ UNCHANGED mails
       [] NoSessions /\ waited > StartTimeout -> Goto("HaltTimeUp") /\ UNCHANGED mails
       [] OTHER -> Goto("HaltSleep") /\ SendHalted
  /\ UNCHANGED <<halts, waited, initStep, statusVars, sessionVars>>

HaltTimeUp ==
  /\ At("HaltTimeUp")
  /\ IF status \in Resumable
     THEN status' = ResumedStatus /\ Goto("HaltSignal") /\ UNCHANGED halts
     ELSE NextHalt /\ UNCHANGED status
  /\ UNCHANGED <<waited, initStep, mails, resumed, handler, stepCounter, sessionVars>>

HaltSignal ==
  /\ At("HaltSignal")
  /\ resumed' = TRUE /\ NextHalt
  /\ UNCHANGED <<waited, initStep, mails, status, handler, stepCounter, sessionVars>>

HaltSleep ==
  /\ At("HaltSleep")
  /\ IF resumed THEN NextHalt /\ UNCHANGED waited
     ELSE /\ Goto("HaltLoop") /\ UNCHANGED halts
          /\ waited' = IF waited > StartTimeout THEN waited ELSE waited + 1
  /\ UNCHANGED <<initStep, mails, statusVars, sessionVars>>

\* DevDriverServer::Finalize, driver control first.
FinalizeServers ==
  /\ At("Finalize") /\ Goto("Finish")
  /\ UNCHANGED <<halts, waited, initStep, mails, statusVars, sessionVars>>

FinishDriverInitialization ==
  /\ At("Finish")
  /\ IF status = "LateDeviceInit"
     THEN status' = "Running" /\ Goto(IF initStep THEN "FinishPause" ELSE "Frame")
     ELSE Goto("Frame") /\ UNCHANGED status
  /\ UNCHANGED <<halts, waited, initStep, mails, resumed, handler, stepCounter,
                 sessionVars>>

\* The rest of FinishDriverInitialization, and the last frame of a step.
PauseDriver ==
  /\ \/ At("FinishPause") /\ DriverPauses("FinishClear", "Frame")
     \/ At("StepPause") /\ DriverPauses("StepClear", "Check")
  /\ UNCHANGED <<halts, waited, initStep, mails, resumed, handler, stepCounter,
                 sessionVars>>

\* Mutant: waits without a look at the status.
ClearEventThenWait ==
  /\ \/ At("HaltClear") /\ Goto("HaltLoop")
     \/ At("FinishClear") /\ Goto("PauseLoop")
     \/ At("StepClear") /\ Goto("PauseLoop")
  /\ resumed' = FALSE
  /\ UNCHANGED <<halts, waited, initStep, mails, status, handler, stepCounter,
                 sessionVars>>

ClearEvent ==
  /\ \/ At("HaltClear") /\ Goto("HaltBranch")
     \/ At("FinishClear") /\ Goto("Frame")
     \/ At("StepClear") /\ Goto("Check")
  /\ resumed' = FALSE
  /\ UNCHANGED <<halts, waited, initStep, mails, status, handler, stepCounter,
                 sessionVars>>

\* Mutant: counts every frame.
CountEveryFrame ==
  /\ At("Frame")
  /\ IF status = "Running"
     THEN /\ stepCounter' = stepCounter - 1
          /\ Goto(IF stepCounter = 1 THEN "StepPause" ELSE "Check")
     ELSE Goto("Check") /\ UNCHANGED stepCounter
  /\ UNCHANGED <<halts, waited, initStep, mails, status, resumed, handler,
                 sessionVars>>

\* The driver has done what it does in a frame and calls WaitForDriverResume;
\* only the frames of a step are counted.
Frame ==
  /\ At("Frame")
  /\ IF status = "Running" /\ stepCounter > 0
     THEN /\ stepCounter' = stepCounter - 1
          /\ Goto(IF stepCounter = 1 THEN "StepPause" ELSE "Check")
     ELSE Goto("Check") /\ UNCHANGED stepCounter
  /\ UNCHANGED <<halts, waited, initStep, mails, status, resumed, handler,
                 sessionVars>>

Check ==
  /\ At("Check")
  /\ Goto(IF status = "Paused" THEN "PauseLoop" ELSE "Frame")
  /\ UNCHANGED <<halts, waited, initStep, mails, statusVars, sessionVars>>

PauseLoop ==
  /\ At("PauseLoop") /\ Goto("PauseSleep")
  /\ IF NoSessions THEN SendHalted ELSE UNCHANGED mails
  /\ UNCHANGED <<halts, waited, initStep, statusVars, sessionVars>>

PauseSleep ==
  /\ At("PauseSleep")
  /\ Goto(IF resumed THEN "Frame" ELSE "PauseLoop")
  /\ UNCHANGED <<halts, waited, initStep, mails, statusVars, sessionVars>>

Initialize ==
  \/ Halt \/ HaltBranch \/ HaltLoop \/ HaltTimeUp \/ HaltSignal \/ HaltSleep
  \/ FinishDriverInitialization \/ PauseDriver \/ ClearEvent
  \/ Check \/ PauseLoop \/ PauseSleep

DriverThread == Initialize \/ FinalizeServers \/ Frame

-----------------------------------------------------------------------------
(* The message thread: UpdateSession of the server.                        *)

MessageThread == handler = "None" /\ UNCHANGED <<driver, halts, waited, mails>>

ReceiveRequest(t) ==
  /\ MessageThread
  /\ control[t].state = "ReceivePayload" /\ request[t] # <<>>
  /\ control' = [control EXCEPT ![t] = [state |-> "ProcessPayload",
                                        payload |-> Head(request[t])]]
  /\ request' = [request EXCEPT ![t] = Tail(@)]
  /\ UNCHANGED <<initStep, statusVars, caller, reply>>

Handles(t, c) ==
  /\ MessageThread
  /\ control[t].state = "ProcessPayload" /\ control[t].payload.command = c
  /\ UNCHANGED <<resumed, caller, request, reply>>

AnswerWith(t, value) ==
  control' = [control EXCEPT ![t].state = "SendPayload", ![t].payload.answer = value]

PauseDriverRequest(t) ==
  /\ Handles(t, "PauseDriver")
  /\ IF status = "Running"
     THEN status' = "Paused" /\ handler' = "Clear" /\ AnswerWith(t, "Success")
     ELSE AnswerWith(t, "Error") /\ UNCHANGED <<status, handler>>
  /\ UNCHANGED <<stepCounter, initStep>>

ResumeDriverRequest(t) ==
  /\ Handles(t, "ResumeDriver")
  /\ IF status \in Resumable
     THEN HandlerResumes /\ AnswerWith(t, "Success")
     ELSE AnswerWith(t, "Error") /\ UNCHANGED <<status, handler>>
  /\ UNCHANGED <<stepCounter, initStep>>

\* Old versions do not know the phases of the initialization.
QueryDriverStatusRequest(t) ==
  /\ Handles(t, "QueryDriverStatus")
  /\ AnswerWith(t,
       IF /\ ControlVersion[t] < DRIVERCONTROL_INITIALIZATION_STATUS_VERSION
          /\ status \in {"EarlyDeviceInit", "LateDeviceInit"}
       THEN "Running" ELSE status)
  /\ UNCHANGED <<status, handler, stepCounter, initStep>>

\* A step of a halted driver is not answered, and the request is looked at
\* again in the next update.
StepDriverRequest(t) ==
  /\ Handles(t, "StepDriver")
  /\ CASE status = "Paused" /\ stepCounter = 0 ->
            /\ stepCounter' = control[t].payload.count
            /\ control' = [control EXCEPT ![t].state = "StepDriver"]
            /\ HandlerResumes /\ UNCHANGED initStep
       [] status \in Halted ->
            initStep' = TRUE /\ HandlerResumes /\ UNCHANGED <<stepCounter, control>>
       [] OTHER -> /\ AnswerWith(t, "Error")
                   /\ UNCHANGED <<status, handler, stepCounter, initStep>>

\* What is left in the payload is of no use to anyone.
SendReply(t) ==
  /\ MessageThread
  /\ control[t].state = "SendPayload"
  /\ control' = [control EXCEPT ![t] = [Closed EXCEPT !.state = "ReceivePayload"]]
  /\ reply' = [reply EXCEPT ![t] = Append(@, control[t].payload)]
  /\ UNCHANGED <<initStep, statusVars, caller, request>>

StepDone(t) ==
  /\ MessageThread
  /\ control[t].state = "StepDriver"
  /\ status = "Paused" /\ stepCounter = 0
  /\ AnswerWith(t, "Success")
  /\ UNCHANGED <<initStep, statusVars, caller, request, reply>>

UpdateControl(t) ==
  \/ ReceiveRequest(t) \/ PauseDriverRequest(t) \/ ResumeDriverRequest(t)
  \/ QueryDriverStatusRequest(t) \/ StepDriverRequest(t)
  \/ SendReply(t) \/ StepDone(t)

\* The operation on the event that follows a new status.
SetEvent ==
  /\ handler # "None" /\ handler' = "None"
  /\ resumed' = (handler = "Signal")
  /\ UNCHANGED <<driverVars, status, stepCounter, sessionVars>>

ControlTerminated(t) ==
  /\ MessageThread
  /\ control[t].state # "None" /\ caller[t] = "Closed"
  /\ control' = [control EXCEPT ![t] = Closed]
  /\ request' = [request EXCEPT ![t] = <<>>]
  /\ reply' = [reply EXCEPT ![t] = <<>>]
  /\ UNCHANGED <<initStep, statusVars, caller>>

-----------------------------------------------------------------------------
(* The clients.                                                            *)

ClientKeeps == UNCHANGED <<driverVars, statusVars>>

ConnectControl(t) ==
  /\ caller[t] = "Closed" /\ control[t].state = "None"
  /\ caller' = [caller EXCEPT ![t] = "None"]
  /\ control' = [control EXCEPT ![t].state = "ReceivePayload"]
  /\ ClientKeeps /\ UNCHANGED <<request, reply>>

Ask(t, c, n) ==
  /\ caller[t] = "None" /\ request[t] = <<>>
  /\ caller' = [caller EXCEPT ![t] = c]
  /\ request' = [request EXCEPT ![t] = <<Ordered(c, n)>>]
  /\ ClientKeeps /\ UNCHANGED <<control, reply>>

TakeReply(t) ==
  /\ caller[t] \in Requests /\ reply[t] # <<>>
  /\ caller' = [caller EXCEPT ![t] = "None"]
  /\ reply' = [reply EXCEPT ![t] = Tail(@)]
  /\ ClientKeeps /\ UNCHANGED <<control, request>>

\* What the answer to the call says of it.
Says(t, c, answers) ==
  Head(reply[t]).command = c /\ Head(reply[t]).answer \in answers

\* The call gives up; its answer is left to the next one.
ReplyTimesOut(t) ==
  /\ caller[t] \in Requests /\ reply[t] = <<>>
  /\ caller' = [caller EXCEPT ![t] = "None"]
  /\ ClientKeeps /\ UNCHANGED <<control, request, reply>>

\* Disconnect between two calls, or the end of the process in a call.
LeaveControl(t) ==
  /\ caller[t] # "Closed"
  /\ caller' = [caller EXCEPT ![t] = "Closed"]
  /\ ClientKeeps /\ UNCHANGED <<control, request, reply>>

\* A Halted message is read from the message channel of a tool.
ReadHalted ==
  /\ mails > 0 /\ mails' = mails - 1
  /\ UNCHANGED <<driver, halts, waited, initStep, statusVars, sessionVars>>

Order(t, c) ==
  IF c = "StepDriver" THEN \E n \in StepCounts : Ask(t, c, n) ELSE Ask(t, c, 0)

-----------------------------------------------------------------------------
ControlNext ==
  \/ /\ \/ DriverThread \/ SetEvent
        \/ \E t \in Controls :
             \/ UpdateControl(t) \/ ControlTerminated(t)
             \/ ConnectControl(t) \/ TakeReply(t) \/ ReplyTimesOut(t)
             \/ LeaveControl(t)
        \/ ReadHalted
     /\ UNCHANGED orders
  \/ /\ orders < MaxOrders /\ orders' = orders + 1
     /\ \E t \in Controls, c \in Requests : Order(t, c)

ControlSpec == ControlInit /\ [][ControlNext]_<<controlVars, orders>>
-----------------------------------------------------------------------------
ControlTypeOK ==
  /\ driver \in Labels /\ halts \in 0..2 /\ waited \in 0..(StartTimeout + 1)
  /\ status \in DriverStatus /\ resumed \in BOOLEAN
  /\ handler \in {"None", "Signal", "Clear"}
  /\ stepCounter \in Nat /\ initStep \in BOOLEAN
  /\ control \in [Controls -> [
       state : {"None", "ReceivePayload", "ProcessPayload", "SendPayload",
                "StepDriver"},
       payload : ControlPayload]]
  /\ caller \in [Controls -> Requests \cup {"Closed", "None"}]
  /\ request \in [Controls -> Seq(ControlPayload)]
  /\ reply \in [Controls -> Seq(ControlPayload)]
  /\ mails \in 0..MaxMails /\ orders \in 0..MaxOrders

\* HandleDriverHalt and WaitForDriverResume (driverControlServer.cpp:698, 530):
\* a driver that sleeps without being signaled sleeps for a status that a tool
\* can see and resume it from, or it is about to be signaled.  A resume request
\* between the new status and the cleared event does not put it to sleep.
NoLostWakeup ==
  driver \in {"HaltLoop", "HaltSleep", "PauseLoop", "PauseSleep"} /\ ~resumed
  => status \in Resumable \/ handler = "Signal"
=============================================================================
