--------------------------- MODULE InProcessProofs ---------------------------
(***************************************************************************)
(* Proofs about DriverControl and InProcessApi.                            *)
(*                                                                         *)
(* Of driver control: for any number of tools, any requests and any        *)
(* timeout, the variables keep their types and the driver does not sleep   *)
(* for a wake-up that was lost.                                            *)
(*                                                                         *)
(* Of the API: what these proofs and RgpTraceProofs show of each protocol  *)
(* holds when the worker of the API, the application and other tools use   *)
(* both on one driver, what the API believes of the driver is so, and what *)
(* it captures are whole traces.                                           *)
(***************************************************************************)
EXTENDS InProcessApi, RgpTraceProofs

-----------------------------------------------------------------------------
(* Driver control by itself.                                               *)

Asleep == driver \in {"HaltLoop", "HaltSleep", "PauseLoop", "PauseSleep"}

\* Stronger than NoLostWakeup: while the message thread is about to clear the
\* event, the event that is still signaled does not count.
Awakable ==
  Asleep /\ (~resumed \/ handler = "Clear")
  => status \in Resumable \/ handler = "Signal"

ControlSteps ==
  \/ DriverThread \/ SetEvent \/ ReadHalted
  \/ \E t \in Controls :
       \/ UpdateControl(t) \/ ControlTerminated(t) \/ ConnectControl(t)
       \/ TakeReply(t) \/ ReplyTimesOut(t) \/ LeaveControl(t)
       \/ \E c \in Requests : Order(t, c)

ControlSessions == [
  state : {"None", "ReceivePayload", "ProcessPayload", "SendPayload",
           "StepDriver"},
  payload : ControlPayload]

DriverTypes ==
  /\ driver \in Labels /\ halts \in 0..2 /\ waited \in 0..(StartTimeout + 1)
  /\ initStep \in BOOLEAN /\ mails \in 0..MaxMails

\* A halt is one of those that Finalize has left.
HaltsLeft == driver \in HaltLabels => halts > 0

StatusTypes ==
  /\ status \in DriverStatus /\ resumed \in BOOLEAN
  /\ handler \in {"None", "Signal", "Clear"} /\ stepCounter \in Nat

ToolTypes ==
  /\ control \in [Controls -> ControlSessions]
  /\ caller \in [Controls -> Requests \cup {"Closed", "None"}]
  /\ request \in [Controls -> Seq(ControlPayload)]
  /\ reply \in [Controls -> Seq(ControlPayload)]

LEMMA TypeParts ==
  ControlTypeOK <=> DriverTypes /\ StatusTypes /\ ToolTypes
                    /\ orders \in 0..MaxOrders
BY Zenon DEF ControlTypeOK, DriverTypes, StatusTypes, ToolTypes, ControlSessions

-----------------------------------------------------------------------------
(* Types.                                                                  *)

\* Pausing and resuming lead to a status.
LEMMA NewStatus ==
  /\ status \in Pausable => PausedStatus \in DriverStatus
  /\ status \in Resumable => ResumedStatus \in DriverStatus
  /\ status = "Running" => PausedStatus = "Paused"
BY DEF Pausable, PausedStatus, Resumable, ResumedStatus, Halted, DriverStatus

\* The driver's thread.
LEMMA DriverThreadType ==
  ASSUME DriverTypes, StatusTypes, ToolTypes, HaltsLeft, DriverThread
  PROVE  DriverTypes' /\ StatusTypes' /\ ToolTypes' /\ HaltsLeft'
<1>1. UNCHANGED sessionVars
  BY DEF DriverThread, Initialize, Halt, HaltBranch, HaltLoop, HaltTimeUp,
         HaltSignal, HaltSleep, FinishDriverInitialization, PauseDriver,
         ClearEvent, Check, PauseLoop, PauseSleep, FinalizeServers, Frame
<1>2. ToolTypes'
  BY <1>1 DEF ToolTypes, sessionVars
<1> USE DEF DriverTypes, StatusTypes, HaltsLeft, At, Goto, Labels, HaltLabels
<1>3. CASE Halt
  BY <1>3, <1>2, NewStatus DEF Halt, DriverPauses
<1>4. CASE HaltBranch
  BY <1>4, <1>2, ControlAssumption DEF HaltBranch, NextHalt, DriverStatus
<1>5. CASE HaltLoop
  <2>1. mails' \in 0..MaxMails /\ driver' \in HaltLabels
        /\ UNCHANGED <<halts, waited, initStep, statusVars>>
    BY <1>5, ControlAssumption DEF HaltLoop, SendHalted
  <2>2. driver \in HaltLabels
    BY <1>5 DEF HaltLoop
  <2>3. QED
    BY <1>2, <2>1, <2>2 DEF statusVars
<1>6. CASE HaltTimeUp
  BY <1>6, <1>2, NewStatus DEF HaltTimeUp, NextHalt
<1>7. CASE HaltSignal
  BY <1>7, <1>2 DEF HaltSignal, NextHalt
<1>8. CASE HaltSleep
  BY <1>8, <1>2, ControlAssumption DEF HaltSleep, NextHalt, statusVars
<1>9. CASE FinalizeServers \/ FinishDriverInitialization
  BY <1>9, <1>2 DEF FinalizeServers, FinishDriverInitialization, statusVars,
                    DriverStatus
<1>10. CASE PauseDriver
  BY <1>10, <1>2, NewStatus DEF PauseDriver, DriverPauses
<1>11. CASE ClearEvent
  BY <1>11, <1>2 DEF ClearEvent
<1>12. CASE Frame
  BY <1>12, <1>2 DEF Frame
<1>13. CASE Check \/ PauseSleep
  BY <1>13, <1>2 DEF Check, PauseSleep, statusVars
<1>14. CASE PauseLoop
  <2>1. mails' \in 0..MaxMails /\ driver' = "PauseSleep"
        /\ UNCHANGED <<halts, waited, initStep, statusVars>>
    BY <1>14, ControlAssumption DEF PauseLoop, SendHalted
  <2>2. QED
    BY <1>2, <2>1 DEF statusVars
<1>15. QED
  BY <1>3, <1>4, <1>5, <1>6, <1>7, <1>8, <1>9, <1>10, <1>11, <1>12, <1>13,
     <1>14 DEF DriverThread, Initialize

\* The payload of a session is answered in place.
LEMMA AnswerType ==
  ASSUME ToolTypes, NEW t \in Controls, NEW value,
         AnswerWith(t, value), value \in {"None", "Success", "Error"} \cup DriverStatus
  PROVE  control' \in [Controls -> ControlSessions]
<1> DEFINE c1 == [control[t] EXCEPT !.state = "SendPayload"]
           p1 == [c1.payload EXCEPT !.answer = value]
           c2 == [c1 EXCEPT !.payload = p1]
<1>1. control[t] \in ControlSessions
  BY DEF ToolTypes
<1>2. c1 \in ControlSessions /\ c1.payload \in ControlPayload
  BY <1>1 DEF ControlSessions
<1>3. p1 \in ControlPayload
  <2> HIDE DEF c1
  <2>1. QED
    BY <1>2 DEF ControlPayload
<1>4. c2 \in ControlSessions
  <2> HIDE DEF c1, p1
  <2>1. QED
    BY <1>2, <1>3 DEF ControlSessions
<1>5. control' = [control EXCEPT ![t] = c2]
  BY DEF AnswerWith, ToolTypes
<1> HIDE DEF c2
<1>6. QED
  BY <1>4, <1>5 DEF ToolTypes

\* The message thread, in the update of one session.
LEMMA UpdateControlType ==
  ASSUME DriverTypes, StatusTypes, ToolTypes, NEW t \in Controls,
         UpdateControl(t) \/ ControlTerminated(t)
  PROVE  /\ DriverTypes' /\ StatusTypes' /\ ToolTypes'
         /\ UNCHANGED <<driver, halts>>
<1>1. /\ control[t] \in ControlSessions /\ control[t].payload \in ControlPayload
      /\ control[t].payload.count \in StepCounts \cup {0}
  BY DEF ToolTypes, ControlSessions, ControlPayload
<1>2. UNCHANGED <<driver, halts, waited, mails, caller>>
  BY DEF UpdateControl, ControlTerminated, ReceiveRequest, PauseDriverRequest,
         ResumeDriverRequest, QueryDriverStatusRequest, StepDriverRequest,
         SendReply, StepDone, Handles, MessageThread
<1>3. initStep' \in BOOLEAN
  BY DEF DriverTypes, UpdateControl, ControlTerminated, ReceiveRequest,
         PauseDriverRequest, ResumeDriverRequest, QueryDriverStatusRequest,
         StepDriverRequest, SendReply, StepDone
<1>4. DriverTypes'
  BY <1>2, <1>3 DEF DriverTypes
<1>5. StatusTypes'
  <2> USE DEF StatusTypes
  <2>1. CASE ReceiveRequest(t) \/ SendReply(t) \/ StepDone(t) \/ ControlTerminated(t)
    BY <2>1 DEF ReceiveRequest, SendReply, StepDone, ControlTerminated, statusVars
  <2>2. CASE PauseDriverRequest(t) \/ ResumeDriverRequest(t)
             \/ QueryDriverStatusRequest(t)
    BY <2>2, NewStatus DEF PauseDriverRequest, ResumeDriverRequest, HandlerResumes,
       QueryDriverStatusRequest, Handles, DriverStatus
  <2>3. CASE StepDriverRequest(t)
    <3>1. stepCounter' \in Nat
      BY <1>1, <2>3, ControlAssumption DEF StepDriverRequest
    <3>2. /\ status' \in DriverStatus /\ resumed' \in BOOLEAN
          /\ handler' \in {"None", "Signal", "Clear"}
      BY <2>3, NewStatus DEF StepDriverRequest, HandlerResumes, Handles,
         Resumable, Halted
    <3>3. QED
      BY <3>1, <3>2
  <2>4. QED
    BY <2>1, <2>2, <2>3, UpdateControl(t) \/ ControlTerminated(t) DEF UpdateControl
<1>6. control' \in [Controls -> ControlSessions]
  <2>1. CASE ReceiveRequest(t)
    <3>1. request[t] \in Seq(ControlPayload) /\ request[t] # <<>>
      BY <2>1 DEF ToolTypes, ReceiveRequest
    <3>2. Head(request[t]) \in ControlPayload
      BY <3>1
    <3>3. [state |-> "ProcessPayload", payload |-> Head(request[t])]
            \in ControlSessions
      BY <3>2 DEF ControlSessions
    <3>4. QED
      BY <2>1, <3>3 DEF ToolTypes, ReceiveRequest
  <2>2. CASE \/ PauseDriverRequest(t) \/ ResumeDriverRequest(t)
             \/ QueryDriverStatusRequest(t) \/ StepDone(t)
    <3>1. PICK value : AnswerWith(t, value)
                       /\ value \in {"None", "Success", "Error"} \cup DriverStatus
      BY <2>2 DEF PauseDriverRequest, ResumeDriverRequest, StatusTypes,
         QueryDriverStatusRequest, StepDone, DriverStatus
    <3>2. QED
      BY <3>1, AnswerType
  <2>3. CASE StepDriverRequest(t)
    <3>1. CASE control' = control
      BY <3>1 DEF ToolTypes
    <3>2. CASE AnswerWith(t, "Error")
      BY <3>2, AnswerType
    <3>3. CASE control' = [control EXCEPT ![t].state = "StepDriver"]
      <4>1. [control[t] EXCEPT !.state = "StepDriver"] \in ControlSessions
        BY <1>1 DEF ControlSessions
      <4>2. QED
        BY <3>3, <4>1 DEF ToolTypes
    <3>4. QED
      BY <2>3, <3>1, <3>2, <3>3 DEF StepDriverRequest
  <2>4. CASE SendReply(t) \/ ControlTerminated(t)
    <3>1. Closed \in ControlSessions
          /\ [Closed EXCEPT !.state = "ReceivePayload"] \in ControlSessions
      BY DEF Closed, ControlSessions, ControlPayload, Ordered, Requests
    <3>2. QED
      BY <2>4, <3>1 DEF ToolTypes, SendReply, ControlTerminated
  <2>5. QED
    BY <2>1, <2>2, <2>3, <2>4, UpdateControl(t) \/ ControlTerminated(t)
       DEF UpdateControl
<1>7. request' \in [Controls -> Seq(ControlPayload)]
  <2>1. CASE ReceiveRequest(t)
    <3>1. Tail(request[t]) \in Seq(ControlPayload)
      BY <2>1 DEF ToolTypes, ReceiveRequest
    <3>2. QED
      BY <2>1, <3>1 DEF ToolTypes, ReceiveRequest
  <2>2. CASE ControlTerminated(t)
    BY <2>2 DEF ToolTypes, ControlTerminated
  <2>3. CASE ~ReceiveRequest(t) /\ ~ControlTerminated(t)
    BY <2>3 DEF ToolTypes, UpdateControl, PauseDriverRequest,
       ResumeDriverRequest, QueryDriverStatusRequest, StepDriverRequest,
       SendReply, StepDone, Handles
  <2>4. QED
    BY <2>1, <2>2, <2>3
<1>8. reply' \in [Controls -> Seq(ControlPayload)]
  <2>1. CASE SendReply(t)
    <3>1. Append(reply[t], control[t].payload) \in Seq(ControlPayload)
      BY <1>1 DEF ToolTypes
    <3>2. QED
      BY <2>1, <3>1 DEF ToolTypes, SendReply
  <2>2. CASE ControlTerminated(t)
    BY <2>2 DEF ToolTypes, ControlTerminated
  <2>3. CASE ~SendReply(t) /\ ~ControlTerminated(t)
    BY <2>3 DEF ToolTypes, UpdateControl, ReceiveRequest, PauseDriverRequest,
       ResumeDriverRequest, QueryDriverStatusRequest, StepDriverRequest,
       StepDone, Handles
  <2>4. QED
    BY <2>1, <2>2, <2>3
<1>9. QED
  BY <1>2, <1>4, <1>5, <1>6, <1>7, <1>8 DEF ToolTypes

\* The tools.
LEMMA ToolStepType ==
  ASSUME DriverTypes, StatusTypes, ToolTypes, NEW t \in Controls,
         \/ ConnectControl(t) \/ TakeReply(t) \/ ReplyTimesOut(t)
         \/ LeaveControl(t) \/ \E c \in Requests : Order(t, c)
  PROVE  DriverTypes' /\ StatusTypes' /\ ToolTypes' /\ UNCHANGED <<driver, halts>>
<1>1. UNCHANGED <<driverVars, statusVars>>
  BY DEF ConnectControl, TakeReply, ReplyTimesOut, LeaveControl, Order, Ask,
         ClientKeeps
<1>2. DriverTypes' /\ StatusTypes' /\ UNCHANGED <<driver, halts>>
  BY <1>1 DEF DriverTypes, StatusTypes, driverVars, statusVars
<1>3. CASE ConnectControl(t)
  <2>1. [control[t] EXCEPT !.state = "ReceivePayload"] \in ControlSessions
    BY DEF ToolTypes, ControlSessions
  <2>2. QED
    BY <1>2, <1>3, <2>1 DEF ToolTypes, ConnectControl
<1>4. CASE TakeReply(t)
  <2>1. Tail(reply[t]) \in Seq(ControlPayload)
    BY <1>4 DEF ToolTypes, TakeReply
  <2>2. QED
    BY <1>2, <1>4, <2>1 DEF ToolTypes, TakeReply
<1>5. CASE ReplyTimesOut(t) \/ LeaveControl(t)
  BY <1>2, <1>5 DEF ToolTypes, ReplyTimesOut, LeaveControl
<1>6. ASSUME NEW c \in Requests, Order(t, c)
      PROVE  ToolTypes'
  <2>1. PICK n \in StepCounts \cup {0} : Ask(t, c, n)
    BY <1>6 DEF Order
  <2>2. Ordered(c, n) \in ControlPayload
    BY DEF Ordered, ControlPayload
  <2>3. <<Ordered(c, n)>> \in Seq(ControlPayload)
    BY <2>2
  <2>4. QED
    BY <2>1, <2>3 DEF ToolTypes, Ask
<1>7. QED
  BY <1>2, <1>3, <1>4, <1>5, <1>6

TypedControl == DriverTypes /\ StatusTypes /\ ToolTypes /\ HaltsLeft

\* Every step, of whichever thread, keeps the types.
LEMMA ControlStepType ==
  ASSUME TypedControl, ControlSteps
  PROVE  TypedControl'
<1> USE DEF TypedControl
<1>1. CASE DriverThread
  BY <1>1, DriverThreadType
<1>2. CASE SetEvent
  BY <1>2 DEF SetEvent, DriverTypes, StatusTypes, ToolTypes, HaltsLeft,
              driverVars, sessionVars
<1>3. CASE ReadHalted
  BY <1>3, ControlAssumption
     DEF ReadHalted, DriverTypes, StatusTypes, ToolTypes, HaltsLeft,
         statusVars, sessionVars
<1>4. ASSUME NEW t \in Controls, UpdateControl(t) \/ ControlTerminated(t)
      PROVE  TypedControl'
  BY <1>4, UpdateControlType DEF HaltsLeft
<1>5. ASSUME NEW t \in Controls,
             \/ ConnectControl(t) \/ TakeReply(t) \/ ReplyTimesOut(t)
             \/ LeaveControl(t) \/ \E c \in Requests : Order(t, c)
      PROVE  TypedControl'
  BY <1>5, ToolStepType DEF HaltsLeft
<1>6. QED
  BY <1>1, <1>2, <1>3, <1>4, <1>5 DEF ControlSteps

-----------------------------------------------------------------------------
(* The wake-up.                                                            *)

\* The message thread changes the status only between two operations on the
\* event, and leaves a driver that sleeps a status it can be resumed from.
LEMMA UpdateAwakable ==
  ASSUME Awakable, NEW t \in Controls, UpdateControl(t) \/ ControlTerminated(t)
  PROVE  Awakable'
<1>1. UNCHANGED <<driver, resumed>> /\ handler = "None"
  BY DEF UpdateControl, ControlTerminated, ReceiveRequest, PauseDriverRequest,
         ResumeDriverRequest, QueryDriverStatusRequest, StepDriverRequest,
         SendReply, StepDone, Handles, MessageThread, statusVars
<1>2. \/ UNCHANGED <<status, handler>>
      \/ handler' = "Signal"
      \/ status' = "Paused"
  <2>1. CASE \/ ReceiveRequest(t) \/ SendReply(t) \/ StepDone(t)
             \/ ControlTerminated(t) \/ QueryDriverStatusRequest(t)
    BY <2>1 DEF ReceiveRequest, SendReply, StepDone, ControlTerminated,
       QueryDriverStatusRequest, statusVars
  <2>2. CASE PauseDriverRequest(t) \/ ResumeDriverRequest(t)
    BY <2>2 DEF PauseDriverRequest, ResumeDriverRequest, HandlerResumes
  <2>3. CASE StepDriverRequest(t)
    BY <2>3, Zenon DEF StepDriverRequest, HandlerResumes
  <2>4. QED
    BY <2>1, <2>2, <2>3, UpdateControl(t) \/ ControlTerminated(t) DEF UpdateControl
<1>3. QED
  BY <1>1, <1>2 DEF Awakable, Asleep, Resumable

\* The driver falls asleep after a look at the status, and what it does in its
\* sleep changes neither the status nor the event.
LEMMA DriverAwakable ==
  ASSUME Awakable, DriverThread
  PROVE  Awakable'
<1>1. CASE \/ Halt \/ HaltTimeUp \/ HaltSignal \/ FinishDriverInitialization
           \/ FinalizeServers \/ PauseDriver \/ ClearEvent \/ Frame
  <2>1. ~Asleep'
    BY <1>1 DEF Halt, HaltTimeUp, HaltSignal, FinishDriverInitialization,
       FinalizeServers, PauseDriver, ClearEvent, Frame, DriverPauses, NextHalt,
       Asleep, At, Goto
  <2>2. QED
    BY <2>1 DEF Awakable
<1>2. CASE HaltBranch
  BY <1>2 DEF HaltBranch, NextHalt, Awakable, Asleep, Resumable, At, Goto
<1>3. CASE Check
  BY <1>3 DEF Check, Awakable, Asleep, Resumable, At, Goto, statusVars
<1>4. CASE HaltLoop \/ HaltSleep \/ PauseLoop \/ PauseSleep
  <2>1. Asleep /\ UNCHANGED statusVars
    BY <1>4 DEF HaltLoop, HaltSleep, PauseLoop, PauseSleep, Asleep, At
  <2>2. QED
    BY <2>1 DEF Awakable, statusVars
<1>5. QED
  BY <1>1, <1>2, <1>3, <1>4, DriverThread DEF DriverThread, Initialize

LEMMA ControlStepAwakable ==
  ASSUME TypedControl, Awakable, ControlSteps
  PROVE  Awakable'
<1>1. CASE DriverThread
  BY <1>1, DriverAwakable
<1>2. CASE SetEvent
  <2>1. UNCHANGED <<driver, status>> /\ (handler = "Signal" => resumed' = TRUE)
        /\ handler' = "None" /\ handler \in {"Signal", "Clear"}
    BY <1>2 DEF SetEvent, driverVars, TypedControl, StatusTypes
  <2>2. QED
    BY <2>1 DEF Awakable, Asleep
<1>3. CASE ReadHalted
  BY <1>3 DEF ReadHalted, Awakable, Asleep, statusVars
<1>4. ASSUME NEW t \in Controls, UpdateControl(t) \/ ControlTerminated(t)
      PROVE  Awakable'
  BY <1>4, UpdateAwakable
<1>5. ASSUME NEW t \in Controls,
             \/ ConnectControl(t) \/ TakeReply(t) \/ ReplyTimesOut(t)
             \/ LeaveControl(t) \/ \E c \in Requests : Order(t, c)
      PROVE  Awakable'
  <2>1. UNCHANGED <<driverVars, statusVars>>
    BY <1>5 DEF ConnectControl, TakeReply, ReplyTimesOut, LeaveControl, Order,
       Ask, ClientKeeps
  <2>2. QED
    BY <2>1 DEF Awakable, Asleep, driverVars, statusVars
<1>6. QED
  BY <1>1, <1>2, <1>3, <1>4, <1>5 DEF ControlSteps

-----------------------------------------------------------------------------
LEMMA ControlInitRight == ControlInit => TypedControl /\ Awakable
<1> SUFFICES ASSUME ControlInit PROVE TypedControl /\ Awakable
  OBVIOUS
<1>1. DriverTypes /\ HaltsLeft
  <2>1. 0 \in 0..(StartTimeout + 1) /\ 0 \in 0..MaxMails /\ 2 \in 0..2
    BY ControlAssumption
  <2>2. /\ driver = "Halt" /\ halts = 2 /\ waited = 0
        /\ initStep = FALSE /\ mails = 0
    BY DEF ControlInit
  <2>3. "Halt" \in Labels /\ 2 \in 1..2 /\ FALSE \in BOOLEAN
    BY DEF Labels, HaltLabels
  <2>4. halts > 0
    BY <2>2
  <2>5. /\ driver \in Labels /\ halts \in 0..2 /\ waited \in 0..(StartTimeout + 1)
        /\ initStep \in BOOLEAN /\ mails \in 0..MaxMails
    BY <2>1, <2>2, <2>3, Zenon
  <2>6. QED
    BY <2>4, <2>5 DEF DriverTypes, HaltsLeft
<1>2. StatusTypes /\ Awakable
  BY DEF ControlInit, StatusTypes, Awakable, Asleep, DriverStatus
<1>3. Closed \in ControlSessions
  BY DEF Closed, ControlSessions, ControlPayload, Ordered, Requests
<1>4. ToolTypes
  BY <1>3 DEF ControlInit, ToolTypes
<1>5. QED
  BY <1>1, <1>2, <1>4 DEF TypedControl

LEMMA ControlNextRight ==
  ASSUME TypedControl, Awakable, orders \in 0..MaxOrders,
         [ControlNext]_<<controlVars, orders>>
  PROVE  TypedControl' /\ Awakable' /\ orders' \in 0..MaxOrders
<1>1. CASE ControlNext
  <2>1. ControlSteps
    BY <1>1 DEF ControlNext, ControlSteps
  <2>2. orders' \in 0..MaxOrders
    BY <1>1, ControlAssumption DEF ControlNext
  <2>3. QED
    BY <2>1, <2>2, ControlStepType, ControlStepAwakable
<1>2. CASE UNCHANGED <<controlVars, orders>>
  BY <1>2 DEF TypedControl, DriverTypes, StatusTypes, ToolTypes, HaltsLeft,
     Awakable, Asleep, controlVars, driverVars, statusVars, sessionVars
<1>3. QED
  BY <1>1, <1>2

\* In every behaviour of the driver, the message thread and the tools the
\* variables keep their types, and a sleeping driver can be resumed or is
\* about to be signaled, also if the event is going to be cleared.
THEOREM ControlInductive ==
  ControlSpec => [](TypedControl /\ Awakable /\ orders \in 0..MaxOrders)
<1>1. ControlInit => orders \in 0..MaxOrders
  BY ControlAssumption DEF ControlInit
<1>2. ControlInit => TypedControl /\ Awakable
  BY ControlInitRight
<1>3. TypedControl /\ Awakable /\ orders \in 0..MaxOrders
        /\ [ControlNext]_<<controlVars, orders>>
      => (TypedControl /\ Awakable /\ orders \in 0..MaxOrders)'
  BY ControlNextRight
<1>4. QED
  BY <1>1, <1>2, <1>3, PTL DEF ControlSpec

\* Every variable has its type; in particular Finalize makes no more calls of
\* HandleDriverHalt than it has left.
THEOREM ControlTypeCorrect == ControlSpec => []ControlTypeOK
<1>1. TypedControl /\ orders \in 0..MaxOrders => ControlTypeOK
  BY TypeParts DEF TypedControl
<1>2. QED
  BY <1>1, ControlInductive, PTL

\* No driver sleeps without a signal in a status from which no tool could
\* resume it (driverControlServer.cpp:530, 663 and 698).
THEOREM ControlWakeup == ControlSpec => []NoLostWakeup
<1>1. Awakable => NoLostWakeup
  BY DEF Awakable, Asleep, NoLostWakeup
<1>2. QED
  BY <1>1, ControlInductive, PTL

-----------------------------------------------------------------------------
(* The composition, and the steps of its parts.                            *)

\* The steps of the trace protocol that the composition takes.
RgpSteps ==
  \/ \E t \in Tools : \/ ClientStep(t) \/ BeginCall(t)
                      \/ UpdateSession(t) \/ SessionTerminated(t)
  \/ EnableTraces \/ Finalize \/ BeginTrace \/ EndsTrace
  \/ \E k \in 1..MaxChunks : WriteTraceData(k)

-----------------------------------------------------------------------------
(* The steps of the composition are steps of its parts.                    *)

\* The calls of the worker, apart from those it makes on the other protocol.
LEMMA WorkerIsClient ==
  ASSUME Worker
  PROVE  /\ RgpSteps \/ UNCHANGED rgpVars
         /\ ControlSteps \/ UNCHANGED controlVars
<1> USE ApiAssumption DEF KeepRgp, KeepControl
<1>1. Api \in Tools /\ Api \in Controls
  OBVIOUS
<1>2. CASE Dispatch \/ ListenEnds \/ PollTimesOut \/ EndTraceTimesOut \/ NoMore
  BY <1>2 DEF Dispatch, ListenEnds, PollTimesOut, EndTraceTimesOut, NoMore
<1>3. CASE TakeHalted
  BY <1>3 DEF TakeHalted, ControlSteps
<1>4. CASE ConnectProtocolClients
  BY <1>1, <1>4 DEF ConnectProtocolClients, RgpSteps, BeginCall, ControlSteps
<1>5. CASE DisconnectProtocolClients
  BY <1>1, <1>5 DEF DisconnectProtocolClients, RgpSteps, ClientStep, ControlSteps
<1>6. CASE EnableRgpProfiling
  BY <1>1, <1>6 DEF EnableRgpProfiling, RgpSteps, BeginCall, Asks, ClientStep,
                    TakePayload
<1>7. ASSUME NEW c \in {"ResumeDriver", "QueryDriverStatus"}, Ask(Api, c, 0)
      PROVE  ControlSteps
  <2>1. c \in Requests /\ Order(Api, c)
    BY <1>7 DEF Requests, Order
  <2>2. QED
    BY <1>1, <2>1 DEF ControlSteps
<1>8. CASE ResumeDriver \/ Poll
  <2>1. ControlSteps
    BY <1>1, <1>7, <1>8 DEF ResumeDriver, Poll, ControlSteps
  <2>2. QED
    BY <1>8, <2>1 DEF ResumeDriver, Poll
<1>9. CASE RequestAndWait \/ ReadTrace
  <2>1. RequestTrace(Api) \/ ClientStep(Api)
    BY <1>9 DEF RequestAndWait, ReadTrace, ReadsChunks, ClientStep, TakePayload
  <2>2. UNCHANGED controlVars
    BY <1>9 DEF RequestAndWait, ReadTrace, ReadsChunks
  <2>3. QED
    BY <1>1, <2>1, <2>2 DEF RgpSteps, BeginCall
<1>10. CASE AnswerIsLate
  <2>1. \/ TimeOut(Api) /\ UNCHANGED controlVars
        \/ ReplyTimesOut(Api) /\ UNCHANGED rgpVars
    BY <1>10 DEF AnswerIsLate
  <2>2. QED
    BY <1>1, <2>1 DEF RgpSteps, ClientStep, ControlSteps
<1>11. QED
  BY <1>2, <1>3, <1>4, <1>5, <1>6, <1>8, <1>9, <1>10 DEF Worker

\* Whoever acts, each protocol takes one of its own steps or none.
LEMMA PartsStep ==
  ASSUME ApiNext, plan \in Plans
  PROVE  /\ RgpSteps \/ UNCHANGED rgpVars
         /\ ControlSteps \/ UNCHANGED controlVars
         /\ UNCHANGED calls
<1> USE ApiAssumption DEF KeepRgp, KeepControl
<1>1. CASE Worker
  BY <1>1, WorkerIsClient DEF Worker
<1>2. CASE User
  BY <1>2 DEF User, TriggerCapture, ClearCaptured, Finish, FinishLoop, UserKeeps
<1>3. CASE Driver
  BY <1>3 DEF Driver, RgpSteps, ControlSteps, DriverThread
<1>4. CASE Serve
  BY <1>4 DEF Serve, RgpSteps, ControlSteps
<1>5. CASE PanelGoesOn \/ PanelIsLate
  BY <1>5 DEF PanelGoesOn, PanelIsLate, Panels, ControlSteps
<1>6. CASE PanelBegins
  <2>1. plan.requests \subseteq Requests
    OBVIOUS
  <2>2. QED
    BY <1>6, <2>1 DEF PanelBegins, Panels, ControlSteps
<1>7. QED
  BY <1>1, <1>2, <1>3, <1>4, <1>5, <1>6 DEF ApiNext

-----------------------------------------------------------------------------
(* The trace protocol in the composition.                                  *)

LEMMA TracePart ==
  ASSUME TypeOK, Owned, RgpSteps \/ UNCHANGED rgpVars, UNCHANGED calls
  PROVE  TypeOK' /\ Owned'
<1>1. calls' \in 0..MaxCalls
  BY DEF TypeOK
<1>2. ASSUME NEW t \in Tools,
             ClientStep(t) \/ UpdateSession(t) \/ SessionTerminated(t)
      PROVE  TypeOK' /\ Owned'
  BY <1>2, ClientStepRight, UpdateSessionRight, SessionTerminatedRight
<1>3. ASSUME NEW t \in Tools, BeginCall(t)
      PROVE  TypeOK' /\ Owned'
  <2>1. CASE ConnectClient(t)
    BY <1>1, <2>1, ConnectClientType, ConnectClientOwned
  <2>2. ASSUME NEW c \in Asks, AskProfiling(t, c)
        PROVE  TypeOK' /\ Owned'
    BY <1>1, <2>2, AskProfilingType, ClientOwned
  <2>3. CASE RequestTrace(t)
    BY <1>1, <2>3, RequestTraceType, ClientOwned
  <2>4. QED
    BY <1>3, <2>1, <2>2, <2>3 DEF BeginCall
<1>4. CASE EnableTraces \/ Finalize \/ BeginTrace \/ AbortTrace
  BY <1>4, DriverFlagsRight, BeginOrAbortRight
<1>5. CASE EndTrace
  BY <1>5, EndTraceRight
<1>6. ASSUME NEW k \in 1..MaxChunks, WriteTraceData(k)
      PROVE  TypeOK' /\ Owned'
  BY <1>6, WriteTraceDataRight
<1>7. CASE UNCHANGED rgpVars
  <2>1. TypeOK'
    BY <1>7 DEF TypeOK, rgpVars
  <2>2. Owned'
    BY <1>7, OwnedFrame DEF rgpVars, serverVars
  <2>3. QED
    BY <2>1, <2>2
<1>8. QED
  BY <1>2, <1>3, <1>4, <1>5, <1>6, <1>7 DEF RgpSteps, EndsTrace

-----------------------------------------------------------------------------
(* What the API believes: the answer that profiling is enabled is on its   *)
(* way only when it is, and nothing disables it again.                     *)

Grant == Payload("EnableProfilingResponse", "Success", 0)

NoGrant(payloads) == \A i \in 1..Len(payloads) : payloads[i] # Grant

Unasked ==
  \A t \in Tools : NoGrant(toServer[t]) /\ NoGrant(session[t].chunks)

Ungranted ==
  profiling # "Enabled" =>
    \A t \in Tools : NoGrant(toClient[t]) /\ session[t].payload # Grant

Granted == Unasked /\ Ungranted

LEMMA NoGrantAppend ==
  ASSUME NEW s \in Seq(Payloads), NoGrant(s), NEW p, p # Grant
  PROVE  NoGrant(Append(s, p))
BY DEF NoGrant

LEMMA NoGrantTail ==
  ASSUME NEW s \in Seq(Payloads), NoGrant(s), s # <<>>
  PROVE  NoGrant(Tail(s)) /\ Head(s) # Grant
BY DEF NoGrant

LEMMA NoGrantConcat ==
  ASSUME NEW s \in Seq(Payloads), NEW r \in Seq(Payloads), NoGrant(s), NoGrant(r)
  PROVE  NoGrant(s \o r)
BY DEF NoGrant

LEMMA NoGrantSubSeq ==
  ASSUME NEW s \in Seq(Payloads), NoGrant(s), NEW m \in 1..(Len(s) + 1),
         NEW n \in 0..Len(s)
  PROVE  NoGrant(SubSeq(s, m, n))
BY DEF NoGrant

LEMMA NoGrantEmpty == NoGrant(<<>>)
BY DEF NoGrant

\* Only one command of the protocol can be the answer.
LEMMA OtherCommand ==
  ASSUME NEW c, NEW r, NEW n, c # "EnableProfilingResponse"
  PROVE  Payload(c, r, n) # Grant
BY DEF Payload, Grant

\* A request of a client, or an answer that it takes.
LEMMA ClientGranted ==
  ASSUME TypeOK, Granted, NEW t \in Tools, ClientStep(t) \/ BeginCall(t)
  PROVE  Granted'
<1>1. /\ toServer[t] \in Seq(Payloads) /\ toClient[t] \in Seq(Payloads)
      /\ toServer \in [Tools -> Seq(Payloads)]
      /\ toClient \in [Tools -> Seq(Payloads)]
      /\ session \in [Tools -> SessionTypes]
  BY DEF TypeOK
<1>2. CASE ConnectClient(t)
  <2>1. /\ session'[t] = NewSession
        /\ \A u \in Tools : u # t => session'[u] = session[u]
        /\ UNCHANGED <<profiling, toServer, toClient>>
    BY <1>1, <1>2 DEF ConnectClient
  <2>2. NewSession.payload = Request("Unknown") /\ NewSession.chunks = <<>>
    BY DEF NewSession, NoSession
  <2>3. Request("Unknown") # Grant
    BY OtherCommand DEF Request
  <2>4. QED
    BY <2>1, <2>2, <2>3, NoGrantEmpty DEF Granted, Unasked, Ungranted
<1>3. ASSUME UNCHANGED <<session, profiling>>,
             \/ toClient' = toClient
             \/ toClient[t] # <<>> /\ toClient' = [toClient EXCEPT ![t] = Tail(@)],
             \/ toServer' = toServer
             \/ \E c \in Asks \cup {"ExecuteTraceRequest", "AbortTrace"} :
                  toServer' = [toServer EXCEPT ![t] = Append(@, Request(c))]
      PROVE  Granted'
  <2>1. ASSUME NEW c \in Asks \cup {"ExecuteTraceRequest", "AbortTrace"}
        PROVE  Request(c) # Grant
    BY OtherCommand DEF Request, Asks
  <2>2. \A u \in Tools : NoGrant(toServer'[u])
    <3>1. NoGrant(toServer[t])
      BY DEF Granted, Unasked
    <3>2. ASSUME NEW c \in Asks \cup {"ExecuteTraceRequest", "AbortTrace"}
          PROVE  NoGrant(Append(toServer[t], Request(c)))
      BY <1>1, <2>1, <3>1, NoGrantAppend
    <3>3. QED
      BY <1>1, <1>3, <3>2 DEF Granted, Unasked
  <2>3. ASSUME profiling # "Enabled"
        PROVE  \A u \in Tools : NoGrant(toClient'[u])
    <3>1. \A u \in Tools : NoGrant(toClient[u])
      BY <2>3 DEF Granted, Ungranted
    <3>2. toClient[t] # <<>> => NoGrant(Tail(toClient[t]))
      BY <1>1, <3>1, NoGrantTail
    <3>3. QED
      BY <1>1, <1>3, <3>1, <3>2
  <2>4. QED
    BY <1>3, <2>2, <2>3 DEF Granted, Unasked, Ungranted
<1>4. ASSUME NEW c, TakeAndBecome(t, c), toClient[t] # <<>>
      PROVE  Granted'
  BY <1>3, <1>4 DEF TakeAndBecome, Become, serverVars
<1>5. ASSUME NEW c \in Asks, AskProfiling(t, c)
      PROVE  Granted'
  BY <1>3, <1>5 DEF AskProfiling, Become, serverVars
<1>6. CASE RequestTrace(t) \/ ClientAbortTrace(t)
  BY <1>3, <1>6 DEF RequestTrace, ClientAbortTrace, Become, serverVars
<1>7. CASE SkipHeader(t) \/ TimeOut(t) \/ Leave(t)
  BY <1>3, <1>7 DEF SkipHeader, TimeOut, Leave, Become, serverVars
<1>8. CASE TakePayload(t) /\ ~SkipHeader(t)
  BY <1>4, <1>8, Zenon
     DEF TakePayload, TakeProfiling, TakeHeader, TakeChunk, TakeSentinel,
         TakeChunkOrSentinel, TakeUntilSentinel, Takes, Receives
<1>9. QED
  BY <1>2, <1>5, <1>6, <1>7, <1>8 DEF ClientStep, BeginCall, TakePayload

\* The message thread, before and after a trace.
LEMMA ServeGranted ==
  ASSUME TypeOK, Granted, NEW t \in Tools,
         \/ ReceivePayload(t) \/ ExecuteTraceRequest(t)
         \/ QueryProfilingStatusRequest(t) \/ EnableProfilingRequest(t)
         \/ SendPayload(t) \/ SessionTerminated(t)
  PROVE  Granted'
<1>1. /\ toServer[t] \in Seq(Payloads) /\ toClient[t] \in Seq(Payloads)
      /\ toServer \in [Tools -> Seq(Payloads)]
      /\ toClient \in [Tools -> Seq(Payloads)]
      /\ session \in [Tools -> SessionTypes] /\ session[t] \in SessionTypes
      /\ NoGrant(toServer[t]) /\ NoGrant(session[t].chunks)
  BY DEF TypeOK, Granted, Unasked
\* What becomes of the session of the tool.
<1>2. ASSUME NEW s, session' = [session EXCEPT ![t] = s],
             NoGrant(s.chunks), profiling = "Enabled" => profiling' = "Enabled",
             profiling' # "Enabled" => s.payload # Grant,
             toClient' = toClient \/ toClient' = [toClient EXCEPT ![t] = <<>>]
             \/ toClient' = [toClient EXCEPT ![t] = Append(@, session[t].payload)],
             \/ toServer' = toServer
             \/ toServer' = [toServer EXCEPT ![t] = <<>>]
             \/ toServer[t] # <<>> /\ toServer' = [toServer EXCEPT ![t] = Tail(@)]
      PROVE  Granted'
  <2>1. session'[t] = s /\ \A u \in Tools : u # t => session'[u] = session[u]
    BY <1>1, <1>2
  <2>2. \A u \in Tools : NoGrant(toServer'[u])
    <3>1. toServer[t] # <<>> => NoGrant(Tail(toServer[t]))
      BY <1>1, NoGrantTail
    <3>2. QED
      BY <1>1, <1>2, <3>1, NoGrantEmpty DEF Granted, Unasked
  <2>3. ASSUME profiling # "Enabled"
        PROVE  \A u \in Tools : NoGrant(toClient'[u])
    <3>1. NoGrant(Append(toClient[t], session[t].payload))
      BY <1>1, <2>3, NoGrantAppend DEF Granted, Ungranted
    <3>2. QED
      BY <1>1, <1>2, <2>3, <3>1, NoGrantEmpty DEF Granted, Ungranted
  <2>4. QED
    BY <1>2, <2>1, <2>2, <2>3 DEF Granted, Unasked, Ungranted
<1>3. CASE ReceivePayload(t)
  <2> DEFINE s1 == [session[t] EXCEPT !.payload = Head(toServer[t])]
             s2 == [s1 EXCEPT !.state = "ProcessPayload"]
  <2>1. session' = [session EXCEPT ![t] = s2]
    BY <1>1, <1>3 DEF ReceivePayload
  <2>2. Head(toServer[t]) # Grant /\ Head(toServer[t]) \in Payloads
    BY <1>1, <1>3, NoGrantTail DEF ReceivePayload
  <2>3. /\ s1 \in SessionTypes /\ s1.payload = Head(toServer[t])
        /\ s1.chunks = session[t].chunks
    BY <1>1, <2>2, SessionPayload
  <2>4. s2.payload = s1.payload /\ s2.chunks = s1.chunks
    <3> HIDE DEF s1
    <3>1. QED
      BY <2>3 DEF SessionTypes
  <2> HIDE DEF s1, s2
  <2>5. QED
    BY <1>1, <1>2, <1>3, <2>1, <2>2, <2>3, <2>4 DEF ReceivePayload
<1>4. ASSUME NEW p \in Payloads, session' = Answer(t, p),
             profiling = "Enabled" => profiling' = "Enabled",
             profiling' # "Enabled" => p # Grant,
             UNCHANGED <<toServer, toClient>>
      PROVE  Granted'
  <2> DEFINE s1 == [session[t] EXCEPT !.payload = p]
             s2 == [s1 EXCEPT !.state = "SendPayload"]
  <2>1. session' = [session EXCEPT ![t] = s2]
    BY <1>1, <1>4 DEF Answer
  <2>2. s1 \in SessionTypes /\ s1.payload = p /\ s1.chunks = session[t].chunks
    BY <1>1, SessionPayload
  <2>3. s2.payload = p /\ s2.chunks = session[t].chunks
    <3> HIDE DEF s1
    <3>1. QED
      BY <2>2 DEF SessionTypes
  <2> HIDE DEF s1, s2
  <2>4. QED
    BY <1>1, <1>2, <1>4, <2>1, <2>3
<1>5. 0 \in 0..MaxChunks
  BY RgpAssumption
<1>6. CASE QueryProfilingStatusRequest(t)
  <2>1. /\ Request("QueryProfilingStatusResponse") # Grant
        /\ Request("QueryProfilingStatusResponse") \in Payloads
    BY OtherCommand, RequestTypes DEF Request, RGPMessage, Answers
  <2>2. QED
    BY <1>4, <1>6, <2>1 DEF QueryProfilingStatusRequest, Processes
<1>7. CASE EnableProfilingRequest(t)
  <2> DEFINE enables == ~finalized /\ profiling = "Available"
             p == Payload("EnableProfilingResponse",
                          IF enables THEN "Success" ELSE "Error", 0)
  <2>1. p \in Payloads
    BY <1>5, PayloadTypes DEF RGPMessage, Answers
  <2>2. ~enables => p # Grant
    BY DEF Payload, Grant
  <2>3. /\ session' = Answer(t, p) /\ (enables => profiling' = "Enabled")
        /\ (~enables => profiling' = profiling)
        /\ UNCHANGED <<toServer, toClient>>
    BY <1>7 DEF EnableProfilingRequest, Processes
  <2> HIDE DEF p
  <2>4. QED
    BY <1>4, <2>1, <2>2, <2>3
<1>8. CASE ExecuteTraceRequest(t)
  <2>1. CASE profiling = "Enabled"
    <3> DEFINE s1 == [session[t] EXCEPT !.state = "TransferTraceData"]
               s2 == [s1 EXCEPT !.version = version[t]]
    <3>1. session' = [session EXCEPT ![t] = s2]
      BY <1>1, <1>8, <2>1 DEF ExecuteTraceRequest
    <3>2. s1 \in SessionTypes /\ s1.chunks = session[t].chunks
      BY <1>1, SessionState DEF SessionStates
    <3>3. s2.chunks = session[t].chunks
      <4> HIDE DEF s1
      <4>1. QED
        BY <3>2 DEF SessionTypes
    <3> HIDE DEF s1, s2
    <3>4. QED
      BY <1>1, <1>2, <1>8, <2>1, <3>1, <3>3 DEF ExecuteTraceRequest, linkVars
  <2>2. CASE profiling # "Enabled"
    <3>1. PICK c \in {"TraceDataHeader", "TraceDataSentinel"} :
            session' = Answer(t, Payload(c, "Error", 0))
      BY <1>8, <2>2 DEF ExecuteTraceRequest
    <3>2. /\ Payload(c, "Error", 0) \in Payloads
          /\ Payload(c, "Error", 0) # Grant
      BY <1>5, PayloadTypes, OtherCommand DEF RGPMessage
    <3>3. QED
      BY <1>4, <1>8, <3>1, <3>2 DEF ExecuteTraceRequest, linkVars
  <2>3. QED
    BY <2>1, <2>2
<1>9. CASE SendPayload(t)
  <2> DEFINE s == [session[t] EXCEPT !.state = "ReceivePayload"]
  <2>1. session' = [session EXCEPT ![t] = s]
    BY <1>1, <1>9 DEF SendPayload
  <2>2. s.payload = session[t].payload /\ s.chunks = session[t].chunks
    BY <1>1 DEF SessionTypes
  <2> HIDE DEF s
  <2>3. QED
    BY <1>1, <1>2, <1>9, <2>1, <2>2 DEF SendPayload, Granted, Ungranted
<1>10. CASE SessionTerminated(t)
  <2>1. NoSession.payload # Grant /\ NoSession.chunks = <<>>
    BY OtherCommand DEF NoSession, Request
  <2>2. QED
    BY <1>2, <1>10, <2>1, NoGrantEmpty DEF SessionTerminated
<1>11. QED
  BY <1>3, <1>6, <1>7, <1>8, <1>9, <1>10

\* Profiling is enabled in a trace: only requests and chunks matter.
LEMMA InTraceGranted ==
  ASSUME Owned, traceStatus # "Idle", UNCHANGED profiling, Unasked'
  PROVE  Granted'
BY DEF Owned, TraceNeedsProfiling, Granted, Ungranted

\* The message thread in a trace.
LEMMA UpdateTraceGranted ==
  ASSUME TypeOK, Owned, Granted, NEW t \in Tools, UpdateTrace(t), UNCHANGED calls
  PROVE  Granted'
<1> DEFINE s == Polled(t)
           room == Window - Len(toClient[t])
           sent == IF room < Len(s.chunks) THEN room ELSE Len(s.chunks)
           unsent == SubSeq(s.chunks, sent + 1, Len(s.chunks))
           told == [s EXCEPT !.payload = Payload("TraceDataSentinel", "Aborted", 0)]
           rest == [s EXCEPT !.chunks = unsent]
<1>1. /\ toServer \in [Tools -> Seq(Payloads)] /\ session \in [Tools -> SessionTypes]
      /\ s \in SessionTypes /\ s.chunks = session[t].chunks
      /\ s.chunks \in Seq(Payloads) /\ toClient[t] \in Seq(Payloads)
      /\ Len(toClient[t]) <= Window
  <2>1. s \in SessionTypes /\ s.chunks = session[t].chunks
    BY PolledRight
  <2> HIDE DEF s
  <2>2. QED
    BY <2>1, SessionFieldTypes DEF TypeOK
<1>2. current = t /\ traceStatus # "Idle" /\ UNCHANGED profiling /\ Owned'
  BY UpdateTraceRight DEF UpdateTrace, MessageThreadKeeps
<1>3. \A u \in Tools : NoGrant(toServer'[u])
  <2>1. toServer[t] # <<>> => NoGrant(Tail(toServer[t]))
    BY <1>1, NoGrantTail DEF Granted, Unasked
  <2>2. toServer' = toServer \/ (toServer[t] # <<>>
                                 /\ toServer' = [toServer EXCEPT ![t] = Tail(@)])
    BY DEF UpdateTrace
  <2>3. QED
    BY <1>1, <2>1, <2>2 DEF Granted, Unasked
<1>4. /\ NoGrant(s.chunks) /\ NoGrant(unsent)
      /\ told.chunks = s.chunks /\ rest.chunks = unsent
  <2> HIDE DEF s
  <2>1. NoGrant(s.chunks)
    BY <1>1 DEF Granted, Unasked
  <2>2. Len(s.chunks) \in Nat /\ sent \in 0..Len(s.chunks)
    BY <1>1, RgpAssumption
  <2>3. sent + 1 \in 1..(Len(s.chunks) + 1) /\ Len(s.chunks) \in 0..Len(s.chunks)
    <3> HIDE DEF sent
    <3>1. QED
      BY <2>2
  <2>4. NoGrant(unsent)
    <3> HIDE DEF sent
    <3>1. QED
      BY <1>1, <2>1, <2>3, NoGrantSubSeq
  <2>5. told.chunks = s.chunks /\ rest.chunks = unsent
    <3> HIDE DEF unsent
    <3>1. QED
      BY <1>1 DEF SessionTypes
  <2>6. QED
    BY <2>1, <2>4, <2>5
<1>5. \/ current' = NoTool
      \/ \E x \in {s, told, rest} : session' = [session EXCEPT ![t] = x]
  <2> HIDE DEF s
  <2>1. CASE s.abort
    <3>1. CASE Room(toClient, t)
      BY <2>1, <3>1, Zenon DEF UpdateTrace, ClearCurrentSession, s
    <3>2. CASE ~Room(toClient, t)
      BY <2>1, <3>2, Zenon DEF UpdateTrace, KeepCurrentSession, s
    <3>3. QED
      BY <3>1, <3>2
  <2>2. CASE ~s.abort /\ SendsTraceData(t)
    BY <2>2, Zenon DEF UpdateTrace, ClearCurrentSession, KeepCurrentSession, s
  <2>3. CASE ~s.abort /\ ~SendsTraceData(t)
    BY <2>3, Zenon DEF UpdateTrace, KeepCurrentSession, s
  <2>4. QED
    BY <2>1, <2>2, <2>3
<1> HIDE DEF s, unsent, told, rest
<1>6. \A u \in Tools : NoGrant(session'[u].chunks)
  <2>1. CASE current' = NoTool
    <3>1. \A u \in Tools : session'[u].chunks = <<>>
      BY <1>2, <2>1, RgpAssumption DEF Owned, OnlyOwnerHasChunks
    <3>2. QED
      BY <3>1, NoGrantEmpty
  <2>2. ASSUME NEW x \in {s, told, rest}, session' = [session EXCEPT ![t] = x]
        PROVE  \A u \in Tools : NoGrant(session'[u].chunks)
    BY <1>1, <1>4, <2>2 DEF Granted, Unasked
  <2>3. QED
    BY <1>5, <2>1, <2>2
<1>7. QED
  BY <1>2, <1>3, <1>6, InTraceGranted DEF Unasked

LEMMA UpdateAbortingGranted ==
  ASSUME TypeOK, Owned, Granted, NEW t \in Tools, UpdateAborting(t),
         UNCHANGED calls
  PROVE  Granted'
<1> DEFINE p == Payload(IF session[current].version >= RGP_TRACE_PROGRESS_VERSION
                        THEN "TraceDataHeader" ELSE "TraceDataSentinel",
                        "Error", 0)
           told == [session[current] EXCEPT !.payload = p]
           filled == [session EXCEPT ![current] = told]
<1>1. current \in Tools /\ traceStatus # "Idle"
  BY DEF UpdateAborting, Owned, TraceHasOwner, TypeOK
<1>2. Owned' /\ UNCHANGED <<profiling, toServer>>
  BY UpdateAbortingRight DEF UpdateAborting
<1>3. told.chunks = session[current].chunks
  <2>1. session[current] \in SessionTypes
    BY <1>1 DEF TypeOK
  <2> HIDE DEF p
  <2>2. QED
    BY <2>1 DEF SessionTypes
<1>4. current' = NoTool \/ session' = filled
  BY <1>1, Zenon DEF UpdateAborting, ClearCurrentSession, KeepCurrentSession
<1>5. \A u \in Tools : NoGrant(session'[u].chunks)
  <2>1. CASE current' = NoTool
    <3>1. \A u \in Tools : session'[u].chunks = <<>>
      BY <1>2, <2>1, RgpAssumption DEF Owned, OnlyOwnerHasChunks
    <3>2. QED
      BY <3>1, NoGrantEmpty
  <2>2. CASE session' = filled
    <3> HIDE DEF told
    <3>1. \A u \in Tools : session'[u].chunks = session[u].chunks
      BY <1>1, <1>3, <2>2 DEF TypeOK
    <3>2. QED
      BY <3>1 DEF Granted, Unasked
  <2>3. QED
    BY <1>4, <2>1, <2>2
<1>6. QED
  BY <1>1, <1>2, <1>5, InTraceGranted DEF Granted, Unasked

\* The driver's calls.
LEMMA DriverGranted ==
  ASSUME TypeOK, Owned, Granted,
         \/ EnableTraces \/ Finalize \/ BeginTrace \/ EndsTrace
         \/ \E k \in 1..MaxChunks : WriteTraceData(k)
  PROVE  Granted'
<1>1. /\ session \in [Tools -> SessionTypes]
      /\ UNCHANGED <<toServer, toClient>>
  BY DEF TypeOK, EnableTraces, SetProfiling, Finalize, BeginTrace, EndsTrace,
         EndTrace, AbortTrace, WriteTraceData, DriverKeeps, linkVars
<1>2. CASE EnableTraces \/ Finalize \/ BeginTrace \/ AbortTrace
  <2>1. session' = session /\ (profiling' = profiling \/ profiling # "Enabled")
    BY <1>2 DEF EnableTraces, SetProfiling, Finalize, BeginTrace, AbortTrace
  <2>2. QED
    BY <1>1, <2>1 DEF Granted, Unasked, Ungranted
\* Chunks that are written, and what surrounds them at the end.
<1>3. ASSUME NEW before, NEW after, NoGrant(before), NoGrant(after),
             before \in Seq(Payloads), after \in Seq(Payloads),
             current \in Tools, traceStatus # "Idle", UNCHANGED profiling,
             session' = [session EXCEPT ![current].chunks =
                           before \o session[current].chunks \o after]
      PROVE  Granted'
  <2> DEFINE old == session[current].chunks
             s == [session[current] EXCEPT !.chunks = before \o old \o after]
  <2>1. session[current] \in SessionTypes /\ old \in Seq(Payloads) /\ NoGrant(old)
    BY <1>1, <1>3, SessionFieldTypes DEF Granted, Unasked
  <2>2. before \o old \in Seq(Payloads) /\ NoGrant(before \o old)
    BY <1>3, <2>1, NoGrantConcat
  <2>3. NoGrant(before \o old \o after)
    BY <1>3, <2>2, NoGrantConcat
  <2>4. session' = [session EXCEPT ![current] = s]
    BY <1>1, <1>3
  <2>5. s.chunks = before \o old \o after
    <3> HIDE DEF old
    <3>1. QED
      BY <2>1 DEF SessionTypes
  <2> HIDE DEF s, old
  <2>6. \A u \in Tools : NoGrant(session'[u].chunks)
    BY <1>1, <1>3, <2>3, <2>4, <2>5 DEF Granted, Unasked
  <2>7. QED
    BY <1>1, <1>3, <2>6, InTraceGranted DEF Granted, Unasked
<1>4. CASE EndTrace
  <2>1. CASE current = NoTool
    BY <1>1, <1>4, <2>1 DEF EndTrace, Granted, Unasked, Ungranted
  <2>2. CASE current # NoTool
    <3> DEFINE header == Payload("TraceDataHeader", "Success",
                                 Len(session[current].chunks))
               sentinel == Request("TraceDataSentinel")
               before == IF session[current].version >= RGP_TRACE_PROGRESS_VERSION
                         THEN <<header>> ELSE <<>>
    <3>1. current \in Tools /\ traceStatus = "Running" /\ UNCHANGED profiling
      BY <1>4, <2>2 DEF TypeOK, EndTrace
    <3>2. header # Grant /\ sentinel # Grant
      BY OtherCommand DEF Request
    <3>3. header \in Payloads /\ sentinel \in Payloads
      <4>1. Len(session[current].chunks) \in 0..MaxChunks
        <5>1. session[current] \in SessionTypes
          BY <1>1, <3>1
        <5>2. session[current].chunks \in Seq(Payloads)
          BY <5>1, SessionFieldTypes
        <5>3. Len(session[current].chunks) \in Nat
          BY <5>2
        <5>4. QED
          BY <2>2, <3>1, <5>3, RgpAssumption DEF Owned, ChunksCounted, TypeOK
      <4>2. QED
        BY <4>1, PayloadTypes, RequestTypes DEF RGPMessage
    <3>4. session' = [session EXCEPT ![current].chunks =
                        before \o session[current].chunks \o <<sentinel>>]
      BY <1>4, <2>2 DEF EndTrace
    <3> HIDE DEF header, sentinel
    <3>5. NoGrant(before) /\ before \in Seq(Payloads)
      BY <3>2, <3>3 DEF NoGrant
    <3>6. NoGrant(<<sentinel>>) /\ <<sentinel>> \in Seq(Payloads)
      BY <3>2, <3>3 DEF NoGrant
    <3> HIDE DEF before
    <3>7. QED
      BY <1>3, <3>1, <3>4, <3>5, <3>6
  <2>3. QED
    BY <2>1, <2>2
<1>5. ASSUME NEW k \in 1..MaxChunks, WriteTraceData(k)
      PROVE  Granted'
  <2> DEFINE new == [i \in 1..k |-> chunks + i]
             data == [i \in 1..k |-> Payload("TraceDataChunk", "Success", new[i])]
  <2>1. current \in Tools /\ traceStatus = "Running" /\ UNCHANGED profiling
    BY <1>5 DEF WriteTraceData, TypeOK
  <2>2. session' = [session EXCEPT ![current].chunks =
                      session[current].chunks \o data]
    BY <1>5, <2>1 DEF WriteTraceData
  <2>3. data \in Seq(Payloads)
    <3>1. k \in Nat
      BY RgpAssumption
    <3>2. \A i \in 1..k : Payload("TraceDataChunk", "Success", chunks + i) \in Payloads
      <4>1. ASSUME NEW i \in 1..k
            PROVE  chunks + i \in 0..MaxChunks
        BY <1>5, RgpAssumption DEF WriteTraceData, TypeOK
      <4>2. QED
        BY <4>1, PayloadTypes DEF RGPMessage
    <3>3. data = [i \in 1..k |-> Payload("TraceDataChunk", "Success", chunks + i)]
      OBVIOUS
    <3>4. QED
      BY <3>1, <3>2, <3>3
  <2>4. NoGrant(data)
    <3>1. \A i \in 1..k : data[i] # Grant
      BY OtherCommand
    <3>2. Len(data) = k
      BY RgpAssumption
    <3>3. QED
      BY <3>1, <3>2 DEF NoGrant
  <2> HIDE DEF data
  <2>5. <<>> \in Seq(Payloads)
    OBVIOUS
  <2>6. <<>> \o session[current].chunks = session[current].chunks
    <3>1. session[current].chunks \in Seq(Payloads)
      BY <1>1, <2>1, SessionFieldTypes
    <3>2. QED
      BY <3>1
  <2>7. QED
    BY <1>3, <2>1, <2>2, <2>3, <2>4, <2>5, <2>6, NoGrantEmpty
<1>6. QED
  BY <1>2, <1>4, <1>5 DEF EndsTrace

LEMMA TraceGranted ==
  ASSUME TypeOK, Owned, Granted, RgpSteps \/ UNCHANGED rgpVars, UNCHANGED calls
  PROVE  Granted'
<1>1. ASSUME NEW t \in Tools, UpdateSession(t)
      PROVE  Granted'
  BY <1>1, ServeGranted, UpdateTraceGranted, UpdateAbortingGranted
     DEF UpdateSession
<1>2. CASE UNCHANGED rgpVars
  BY <1>2 DEF rgpVars, Granted, Unasked, Ungranted
<1>3. QED
  BY <1>1, <1>2, ClientGranted, ServeGranted, DriverGranted DEF RgpSteps

-----------------------------------------------------------------------------
(* The variables of the API.                                               *)

WorkerTypes ==
  /\ worker \in WorkerLabels
  /\ workerState \in {"Init", "Capturing", "Idle", "Finished", "Done"}
  /\ result \in BOOLEAN /\ profilingEnabled \in BOOLEAN /\ captured \in BOOLEAN
  /\ file \in Seq(0..MaxChunks)

UserTypes ==
  /\ shutdown \in BOOLEAN /\ user \in {"Free", "Clear", "Finishing", "Finished"}
  /\ plan \in Plans /\ orders \in 0..MaxOrders
  /\ captures \in 0..plan.captures /\ late \in 0..plan.late

\* What is true in every state of the composition.
ApiInv ==
  /\ TypeOK /\ Owned /\ TypedControl /\ Awakable
  /\ WorkerTypes /\ UserTypes /\ Granted /\ BeliefIsRight

LEMMA WorkerTyped ==
  ASSUME ApiInv, Worker, TypeOK'
  PROVE  WorkerTypes'
<1> USE DEF ApiInv, WorkerTypes, WorkerLabels, WorkerAt, WorkerTo
<1>1. /\ client'[Api] \in ClientTypes
      /\ client'[Api].received \in Seq(0..MaxChunks)
      /\ client'[Api].whole \in BOOLEAN
  <2>1. client'[Api] \in ClientTypes
    BY ApiAssumption DEF TypeOK
  <2>2. QED
    BY <2>1 DEF ClientTypes
<1>2. CASE \/ Dispatch \/ ListenEnds \/ TakeHalted \/ NoMore
           \/ ConnectProtocolClients \/ DisconnectProtocolClients
           \/ PollTimesOut \/ RequestAndWait \/ EndTraceTimesOut
  BY <1>2 DEF Dispatch, ListenEnds, TakeHalted, NoMore, ConnectProtocolClients,
     DisconnectProtocolClients, PollTimesOut, RequestAndWait, EndTraceTimesOut,
     KeepFlags
<1>3. CASE EnableRgpProfiling
  <2>1. EnableSucceeded(Api) \in BOOLEAN
    BY Zenon DEF EnableSucceeded
  <2>2. QED
    BY <1>3, <2>1 DEF EnableRgpProfiling
<1>4. ASSUME NEW c, NEW answers
      PROVE  Says(Api, c, answers) \in BOOLEAN
  BY Zenon DEF Says
<1>5. CASE ResumeDriver
  BY <1>4, <1>5 DEF ResumeDriver
<1>6. CASE Poll
  <2>1. (result /\ Says(Api, "QueryDriverStatus", {"Running", "Paused"}))
          \in BOOLEAN
    BY Zenon
  <2>2. QED
    BY <1>6, <2>1 DEF Poll
<1>7. CASE ReadTrace
  <2>1. (captured \/ client'[Api].whole) \in BOOLEAN
    BY <1>1
  <2>2. QED
    BY <1>1, <1>7, <2>1 DEF ReadTrace, ReadsChunks
<1>8. CASE AnswerIsLate
  BY <1>8 DEF AnswerIsLate
<1>9. QED
  BY <1>2, <1>3, <1>5, <1>6, <1>7, <1>8 DEF Worker

LEMMA ApiTyped ==
  ASSUME ApiInv, ApiNext, TypeOK'
  PROVE  WorkerTypes' /\ UserTypes'
<1>1. CASE Worker
  <2>1. UNCHANGED <<plan, orders, userVars>>
    BY <1>1 DEF Worker
  <2>2. late' \in 0..plan.late
    BY <1>1, ApiAssumption DEF Worker, AnswerIsLate, ApiInv, UserTypes
  <2>3. QED
    BY <1>1, <2>1, <2>2, WorkerTyped DEF ApiInv, UserTypes, userVars
<1>2. CASE User
  <2>1. UNCHANGED <<plan, orders, worker, result, profilingEnabled, file, late>>
    BY <1>2 DEF User, TriggerCapture, ClearCaptured, Finish, FinishLoop, UserKeeps
  <2>2. captures' \in 0..plan.captures
    BY <1>2, ApiAssumption DEF User, TriggerCapture, ClearCaptured, Finish,
       FinishLoop, ApiInv, UserTypes
  <2>3. QED
    BY <1>2, <2>1, <2>2 DEF User, TriggerCapture, ClearCaptured, Finish,
       FinishLoop, ApiInv, WorkerTypes, UserTypes
<1>3. CASE Driver \/ Serve \/ PanelGoesOn
  BY <1>3 DEF Driver, Serve, PanelGoesOn, apiVars, workerVars, userVars,
              ApiInv, WorkerTypes, UserTypes
<1>4. CASE PanelIsLate
  BY <1>4, ApiAssumption DEF PanelIsLate, workerVars, userVars, ApiInv,
                             WorkerTypes, UserTypes
<1>5. CASE PanelBegins
  <2>1. plan.orders \in 0..MaxOrders
    BY ApiAssumption DEF ApiInv, UserTypes
  <2>2. orders' \in 0..MaxOrders
    BY <1>5, <2>1, ControlAssumption DEF PanelBegins, ApiInv, UserTypes
  <2>3. QED
    BY <1>5, <2>2 DEF PanelBegins, apiVars, workerVars, userVars, ApiInv,
                      WorkerTypes, UserTypes
<1>6. QED
  BY <1>1, <1>2, <1>3, <1>4, <1>5 DEF ApiNext

\* In the composition nothing disables profiling.
LEMMA ProfilingIsForEver ==
  ASSUME profiling = "Enabled", RgpSteps \/ UNCHANGED rgpVars
  PROVE  profiling' = "Enabled"
<1>1. ASSUME NEW t \in Tools, ClientStep(t) \/ BeginCall(t)
      PROVE  profiling' = "Enabled"
  BY <1>1 DEF ClientStep, BeginCall, ConnectClient, AskProfiling, RequestTrace,
     ClientAbortTrace, TakePayload, TakeProfiling, TakeHeader, SkipHeader,
     TakeChunk, TakeSentinel, TakeChunkOrSentinel, TakeUntilSentinel, TimeOut,
     Leave, TakeAndBecome, Become, serverVars
<1>2. ASSUME NEW t \in Tools, UpdateSession(t) \/ SessionTerminated(t)
      PROVE  profiling' = "Enabled"
  <2>1. CASE ReceivePayload(t) \/ SendPayload(t) \/ SessionTerminated(t)
    BY <2>1 DEF ReceivePayload, SendPayload, SessionTerminated
  <2>2. CASE \/ ExecuteTraceRequest(t) \/ QueryProfilingStatusRequest(t)
             \/ EnableProfilingRequest(t)
    BY <2>2 DEF ExecuteTraceRequest, QueryProfilingStatusRequest,
                EnableProfilingRequest
  <2>3. CASE UpdateTrace(t) \/ UpdateAborting(t)
    BY <2>3 DEF UpdateTrace, UpdateAborting
  <2>4. QED
    BY <1>2, <2>1, <2>2, <2>3 DEF UpdateSession
<1>3. CASE \/ EnableTraces \/ Finalize \/ BeginTrace \/ EndsTrace
           \/ \E k \in 1..MaxChunks : WriteTraceData(k)
  BY <1>3 DEF EnableTraces, SetProfiling, Finalize, BeginTrace, EndsTrace,
              EndTrace, AbortTrace, WriteTraceData
<1>4. QED
  BY <1>1, <1>2, <1>3 DEF RgpSteps, rgpVars

\* The worker takes an answer for a grant only when it is one.
LEMMA BeliefKept ==
  ASSUME ApiInv, ApiNext, RgpSteps \/ UNCHANGED rgpVars
  PROVE  BeliefIsRight'
<1>1. profiling = "Enabled" => profiling' = "Enabled"
  BY ProfilingIsForEver
<1>2. CASE UNCHANGED profilingEnabled \/ profilingEnabled' = FALSE
  BY <1>1, <1>2 DEF ApiInv, BeliefIsRight
<1>3. CASE EnableRgpProfiling
  <2>1. ASSUME EnableSucceeded(Api)
        PROVE  profiling = "Enabled"
    <3>1. toClient[Api] \in Seq(Payloads) /\ toClient[Api] # <<>>
      BY <2>1, ApiAssumption DEF EnableSucceeded, Takes, ApiInv, TypeOK
    <3>2. Head(toClient[Api]) = Grant
      BY <2>1 DEF EnableSucceeded, Taken, Grant
    <3>3. ~NoGrant(toClient[Api])
      BY <3>1, <3>2, NoGrantTail
    <3>4. QED
      BY <3>3, ApiAssumption DEF ApiInv, Granted, Ungranted
  <2>2. CASE WorkerAt("EnableAnswer") /\ profilingEnabled' = EnableSucceeded(Api)
    BY <1>1, <2>1, <2>2 DEF BeliefIsRight
  <2>3. QED
    BY <1>2, <1>3, <2>2 DEF EnableRgpProfiling
<1>4. CASE Worker /\ ~EnableRgpProfiling
  <2>1. UNCHANGED profilingEnabled
    BY <1>4 DEF Worker, Dispatch, ListenEnds, TakeHalted, NoMore, KeepFlags,
       ConnectProtocolClients, DisconnectProtocolClients, ResumeDriver, Poll,
       PollTimesOut, RequestAndWait, ReadTrace, ReadsChunks, EndTraceTimesOut,
       AnswerIsLate
  <2>2. QED
    BY <1>2, <2>1
<1>5. CASE User \/ Driver \/ Serve \/ PanelGoesOn \/ PanelIsLate \/ PanelBegins
  <2>1. UNCHANGED profilingEnabled
    BY <1>5 DEF User, TriggerCapture, ClearCaptured, Finish, FinishLoop,
       UserKeeps, Driver, Serve, PanelGoesOn, PanelIsLate, PanelBegins, apiVars,
       workerVars
  <2>2. QED
    BY <1>2, <2>1
<1>6. QED
  BY <1>3, <1>4, <1>5 DEF ApiNext

-----------------------------------------------------------------------------
LEMMA ApiInitRight == ApiInit => ApiInv
<1> SUFFICES ASSUME ApiInit PROVE ApiInv
  OBVIOUS
<1>1. Init /\ ControlInit
  BY DEF ApiInit
<1>2. TypeOK /\ Owned /\ TypedControl /\ Awakable
  BY <1>1, InitRight, ControlInitRight
<1>3. WorkerTypes
  <2>1. FALSE \in BOOLEAN /\ <<>> \in Seq(0..MaxChunks)
    OBVIOUS
  <2>2. result = FALSE /\ profilingEnabled = FALSE /\ captured = FALSE /\ file = <<>>
    BY DEF ApiInit
  <2>3. worker \in WorkerLabels
        /\ workerState \in {"Init", "Capturing", "Idle", "Finished", "Done"}
    BY DEF ApiInit, WorkerLabels
  <2>4. QED
    BY <2>1, <2>2, <2>3 DEF WorkerTypes
<1>4. UserTypes
  <2>1. plan \in Plans /\ plan.captures \in Nat /\ plan.late \in Nat
    BY ApiAssumption DEF ApiInit
  <2>2. orders = 0 /\ captures = 0 /\ late = 0 /\ shutdown = FALSE
    BY DEF ApiInit, ControlInit
  <2>3. /\ 0 \in 0..MaxOrders /\ 0 \in 0..plan.captures /\ 0 \in 0..plan.late
        /\ FALSE \in BOOLEAN
    BY <2>1, ControlAssumption
  <2>4. user \in {"Free", "Clear", "Finishing", "Finished"}
    BY DEF ApiInit
  <2>5. QED
    BY <2>1, <2>2, <2>3, <2>4 DEF UserTypes
<1>5. Granted
  <2>1. \A t \in Tools : /\ toServer[t] = <<>> /\ toClient[t] = <<>>
                         /\ session[t] = NoSession
    BY <1>1 DEF Init
  <2>2. NoSession.payload # Grant /\ NoSession.chunks = <<>>
    BY OtherCommand DEF NoSession, Request
  <2>3. QED
    BY <2>1, <2>2, NoGrantEmpty DEF Granted, Unasked, Ungranted
<1>6. BeliefIsRight
  BY DEF ApiInit, BeliefIsRight
<1>7. QED
  BY <1>2, <1>3, <1>4, <1>5, <1>6 DEF ApiInv

LEMMA ApiNextRight ==
  ASSUME ApiInv, [ApiNext]_vars
  PROVE  ApiInv'
<1>1. CASE ApiNext
  <2>1. /\ RgpSteps \/ UNCHANGED rgpVars
        /\ ControlSteps \/ UNCHANGED controlVars
        /\ UNCHANGED calls
    BY <1>1, PartsStep DEF ApiInv, UserTypes
  <2>2. TypeOK' /\ Owned'
    BY <2>1, TracePart DEF ApiInv
  <2>3. TypedControl' /\ Awakable'
    <3>1. CASE ControlSteps
      BY <3>1, ControlStepType, ControlStepAwakable DEF ApiInv
    <3>2. CASE UNCHANGED controlVars
      BY <3>2 DEF ApiInv, TypedControl, DriverTypes, StatusTypes, ToolTypes,
         HaltsLeft, Awakable, Asleep, controlVars, driverVars, statusVars,
         sessionVars
    <3>3. QED
      BY <2>1, <3>1, <3>2
  <2>4. Granted'
    BY <2>1, TraceGranted DEF ApiInv
  <2>5. WorkerTypes' /\ UserTypes'
    BY <1>1, <2>2, ApiTyped
  <2>6. BeliefIsRight'
    BY <1>1, <2>1, BeliefKept
  <2>7. QED
    BY <2>2, <2>3, <2>4, <2>5, <2>6 DEF ApiInv
<1>2. CASE UNCHANGED vars
  <2>1. TypeOK'
    BY <1>2 DEF ApiInv, TypeOK, vars, rgpVars
  <2>2. Owned'
    BY <1>2, OwnedFrame DEF ApiInv, vars, rgpVars, serverVars
  <2>3. TypedControl' /\ Awakable'
    BY <1>2 DEF ApiInv, TypedControl, DriverTypes, StatusTypes, ToolTypes,
       HaltsLeft, Awakable, Asleep, vars, controlVars, driverVars, statusVars,
       sessionVars
  <2>4. WorkerTypes' /\ UserTypes' /\ BeliefIsRight'
    BY <1>2 DEF ApiInv, WorkerTypes, UserTypes, BeliefIsRight, vars, apiVars,
       workerVars, userVars, rgpVars
  <2>5. Granted'
    BY <1>2 DEF ApiInv, Granted, Unasked, Ungranted, vars, rgpVars
  <2>6. QED
    BY <2>1, <2>2, <2>3, <2>4, <2>5 DEF ApiInv
<1>3. QED
  BY <1>1, <1>2

\* In the composition of the driver, the API, the application and the other
\* tools each protocol keeps what it promises alone, and an answer that says
\* profiling is enabled exists only when it is.
THEOREM ApiInductive == ApiSpec => []ApiInv
<1>1. ApiInit => ApiInv
  BY ApiInitRight
<1>2. ApiInv /\ [ApiNext]_vars => ApiInv'
  BY ApiNextRight
<1>3. QED
  BY <1>1, <1>2, PTL DEF ApiSpec

\* Every variable of the composition has its type.
THEOREM ApiTypeCorrect == ApiSpec => []ApiTypeOK
<1>1. ApiInv => ApiTypeOK
  <2> SUFFICES ASSUME ApiInv PROVE ApiTypeOK
    OBVIOUS
  <2>1. ControlTypeOK
    BY TypeParts DEF ApiInv, TypedControl, UserTypes
  <2>2. {result, profilingEnabled, captured, shutdown} \subseteq BOOLEAN
    BY Zenon DEF ApiInv, WorkerTypes, UserTypes
  <2>3. QED
    BY <2>1, <2>2 DEF ApiInv, ApiTypeOK, WorkerTypes, UserTypes
<1>2. QED
  BY <1>1, ApiInductive, PTL

\* No driver sleeps without a signal in a status from which no tool could
\* resume it, with the API among the tools (driverControlServer.cpp:530, 698).
THEOREM ApiWakeup == ApiSpec => []NoLostWakeup
<1>1. ApiInv => NoLostWakeup
  BY DEF ApiInv, Awakable, Asleep, NoLostWakeup
<1>2. QED
  BY <1>1, ApiInductive, PTL

\* The API triggers captures only when the driver's profiling is enabled
\* (RGPClientInProcessModel.cpp:558 and 848), however many requests time out.
THEOREM ApiBelief == ApiSpec => []BeliefIsRight
<1>1. ApiInv => BeliefIsRight
  BY DEF ApiInv
<1>2. QED
  BY <1>1, ApiInductive, PTL
-----------------------------------------------------------------------------
(* What the API has captured.  A trace that its client took for complete   *)
(* is in the file, and nothing changes what was written for it until the   *)
(* worker requests the next one.                                           *)

\* No trace is under way and none is asked for.
Resting == current = NoTool /\ NoExecute(session[Api], toServer[Api])

Configuring == {"Listen", "More", "Query", "QueryAnswer", "Enable", "EnableAnswer",
                "Resume", "ResumeAnswer", "Poll", "PollAnswer"}
Collecting == {"BeginTrace", "EndTrace", "Read"}

WorkerPlace ==
  /\ worker \in Configuring => workerState = "Init"
  /\ worker \in Collecting => workerState = "Capturing"
  /\ worker \in {"Connect", "Leave"} => workerState \in {"Init", "Capturing"}

\* Nothing else aborts the trace of the only tool, and its sessions are new.
Undisturbed == misled = {} /\ (client[Api].open => version[Api] >= RGP_TRACE_PROGRESS_VERSION)

Saved ==
  captured /\ user # "Clear" =>
    /\ file = written[Api] /\ Resting
    /\ workerState = "Capturing" => worker = "Leave"

\* The steps of the trace protocol, apart from a request.
LEMMA TraceFollowed ==
  ASSUME TypeOK, Owned, Followed, RgpSteps \/ UNCHANGED rgpVars
  PROVE  Followed'
<1>1. ASSUME NEW t \in Tools, ClientStep(t) PROVE Followed'
  BY <1>1, ClientAbortTraceFollowed, TakeProfilingFollowed, TakeHeaderFollowed,
     OldVersionFollowed, TakeChunkFollowed, TakeSentinelFollowed,
     TakeUntilSentinelFollowed, TimeOutFollowed, LeaveFollowed
     DEF ClientStep, TakePayload
<1>2. ASSUME NEW t \in Tools, UpdateSession(t) PROVE Followed'
  BY <1>2, ReceivePayloadFollowed, ExecuteFollowed, ProfilingAnswerFollowed,
     SendPayloadFollowed, UpdateTraceFollowed, UpdateAbortingFollowed
     DEF UpdateSession
<1>3. ASSUME NEW t \in Tools, BeginCall(t) PROVE Followed'
  BY <1>3, ConnectFollowed, AskProfilingFollowed, RequestTraceFollowed DEF BeginCall
<1>4. CASE UNCHANGED rgpVars
  BY <1>4, FollowedFrame DEF rgpVars, linkVars
<1>5. CASE \/ EnableTraces \/ Finalize \/ BeginTrace \/ EndsTrace
           \/ \E k \in 1..MaxChunks : WriteTraceData(k)
  BY <1>5, DriverStepFollowed DEF DriverStep
<1>6. QED
  BY <1>1, <1>2, <1>3, <1>4, <1>5, SessionTerminatedFollowed DEF RgpSteps

\* The steps of a client that asks for no trace.
LEMMA ClientRests ==
  ASSUME TypeOK, Resting, ClientStep(Api) \/ (\E c \in Asks : AskProfiling(Api, c))
  PROVE  Resting' /\ written' = written
<1>0. Api \in Tools /\ toServer[Api] \in Seq(Payloads)
  BY ApiAssumption DEF TypeOK
<1>1. ASSUME NEW c \in Asks \cup {"AbortTrace"},
             UNCHANGED <<session, current, written>>,
             toServer' = [toServer EXCEPT ![Api] = Append(@, Request(c))]
      PROVE  Resting' /\ written' = written
  <2>1. toServer'[Api] = Append(toServer[Api], Request(c))
    BY <1>0, <1>1 DEF TypeOK
  <2>2. Request(c) \in Payloads /\ ~IsExecute(Request(c))
    BY <1>1, RequestTypes DEF Asks, RGPMessage, IsExecute, Request, Payload
  <2>3. NoExecute(session[Api], Append(toServer[Api], Request(c)))
    BY <1>0, <2>2, NoExecuteAppend DEF Resting
  <2>4. QED
    BY <1>1, <2>1, <2>3 DEF Resting
<1>2. CASE TakePayload(Api) \/ TimeOut(Api) \/ Leave(Api)
  <2>1. UNCHANGED <<session, current, written, toServer>>
    BY <1>2 DEF TakePayload, TakeProfiling, TakeHeader, SkipHeader, TakeChunk,
       TakeSentinel, TakeChunkOrSentinel, TakeUntilSentinel, TimeOut, Leave,
       TakeAndBecome, Become, serverVars
  <2>2. QED
    BY <2>1 DEF Resting
<1>3. CASE ClientAbortTrace(Api)
  <2>1. UNCHANGED <<session, current, written>>
    BY <1>3 DEF ClientAbortTrace, Become, serverVars
  <2>2. \/ toServer' = toServer
        \/ toServer' = [toServer EXCEPT ![Api] = Append(@, Request("AbortTrace"))]
    BY <1>3 DEF ClientAbortTrace
  <2>3. QED
    BY <1>1, <2>1, <2>2 DEF Resting
<1>4. ASSUME NEW c \in Asks, AskProfiling(Api, c)
      PROVE  Resting' /\ written' = written
  <2>1. /\ UNCHANGED <<session, current, written>>
        /\ toServer' = [toServer EXCEPT ![Api] = Append(@, Request(c))]
    BY <1>4 DEF AskProfiling, Become, serverVars
  <2>2. QED
    BY <1>1, <2>1
<1>5. QED
  BY <1>2, <1>3, <1>4 DEF ClientStep

\* A session that starts or ends has no request.
LEMMA SessionRests ==
  ASSUME TypeOK, Followed, Resting, ConnectClient(Api) \/ SessionTerminated(Api)
  PROVE  Resting' /\ written' = written
<1>1. Api \in Tools
  BY ApiAssumption
<1>2. CASE ConnectClient(Api)
  <2>1. /\ session'[Api].state = "ReceivePayload" /\ toServer' = toServer
        /\ current' = current /\ written' = written
    BY <1>1, <1>2 DEF ConnectClient, NewSession, NoSession, TypeOK
  <2>2. QED
    BY <2>1 DEF Resting, NoExecute
<1>3. CASE SessionTerminated(Api)
  <2>1. session'[Api] = NoSession /\ toServer'[Api] = <<>> /\ written' = written
    BY <1>1, <1>3 DEF SessionTerminated, TypeOK
  <2>2. current' = NoTool
    BY <1>3 DEF SessionTerminated, Resting
  <2>3. QED
    BY <2>1, <2>2 DEF Resting, NoExecute, NoSession
<1>4. QED
  BY <1>2, <1>3

\* The server serves a session without a request.
LEMMA ServerRests ==
  ASSUME TypeOK, Owned, Resting, UpdateSession(Api)
  PROVE  Resting' /\ written' = written
<1>0. /\ Api \in Tools /\ toServer[Api] \in Seq(Payloads) /\ session[Api] \in SessionTypes
      /\ current = NoTool /\ traceStatus = "Idle"
  BY ApiAssumption DEF TypeOK, Resting, Owned, TraceHasOwner
<1>1. CASE ReceivePayload(Api)
  <2>1. /\ toServer[Api] # <<>> /\ toServer'[Api] = Tail(toServer[Api])
        /\ session'[Api].payload = Head(toServer[Api])
        /\ current' = current /\ written' = written
    BY <1>0, <1>1 DEF ReceivePayload, MessageThreadKeeps, TypeOK, SessionTypes
  <2>2. NoExecute(session'[Api], Tail(toServer[Api]))
    BY <1>0, <2>1, NoExecuteTail DEF Resting
  <2>3. QED
    BY <1>0, <2>1, <2>2 DEF Resting
<1>2. CASE ExecuteTraceRequest(Api)
  BY <1>2 DEF ExecuteTraceRequest, Resting, NoExecute, IsExecute
<1>3. CASE QueryProfilingStatusRequest(Api) \/ EnableProfilingRequest(Api) \/ SendPayload(Api)
  <2>1. session'[Api].state \in {"SendPayload", "ReceivePayload"}
    BY <1>0, <1>3 DEF QueryProfilingStatusRequest, EnableProfilingRequest, SendPayload,
       Answer, TypeOK, SessionTypes
  <2>2. toServer' = toServer /\ current' = current /\ written' = written
    BY <1>3 DEF QueryProfilingStatusRequest, EnableProfilingRequest, SendPayload,
       Processes, MessageThreadKeeps
  <2>3. QED
    BY <2>1, <2>2 DEF Resting, NoExecute
<1>4. ~UpdateTrace(Api) /\ ~UpdateAborting(Api)
  BY <1>0 DEF UpdateTrace, UpdateAborting
<1>5. QED
  BY <1>1, <1>2, <1>3, <1>4 DEF UpdateSession

\* The driver writes only into a trace.
LEMMA DriverRests ==
  ASSUME TypeOK, Owned, Resting,
         \/ EnableTraces \/ Finalize \/ BeginTrace \/ EndsTrace
         \/ \E k \in 1..MaxChunks : WriteTraceData(k)
  PROVE  Resting' /\ written' = written
<1>1. traceStatus = "Idle"
  BY DEF Resting, Owned, TraceHasOwner
<1>2. EnableTraces \/ Finalize
  BY <1>1 DEF BeginTrace, EndsTrace, EndTrace, AbortTrace, WriteTraceData
<1>3. UNCHANGED <<session, toServer, current, written>>
  BY <1>2 DEF EnableTraces, SetProfiling, Finalize, DriverKeeps, linkVars
<1>4. QED
  BY <1>3 DEF Resting

\* Aborts of others need others, and a client's version is of its session.
LEMMA UndisturbedKept ==
  ASSUME TypeOK, Owned, Undisturbed, RgpSteps \/ UNCHANGED rgpVars,
         \A v \in Versions[Api] : v >= RGP_TRACE_PROGRESS_VERSION
  PROVE  Undisturbed'
<1>0. Api \in Tools /\ (\A t \in Tools : t = Api) /\ client[Api] \in ClientTypes
  BY ApiAssumption DEF TypeOK
<1>1. CASE ClientStep(Api) \/ (\E c \in Asks : AskProfiling(Api, c)) \/ RequestTrace(Api)
  <2>1. UNCHANGED <<version, misled>>
    BY <1>1 DEF ClientStep, TakePayload, TakeProfiling, TakeHeader, SkipHeader,
       TakeChunk, TakeSentinel, TakeChunkOrSentinel, TakeUntilSentinel, TimeOut,
       Leave, TakeAndBecome, Become, AskProfiling, RequestTrace, ClientAbortTrace
  <2>2. ASSUME NEW c, c.open = client[Api].open \/ ~c.open, Become(Api, c)
        PROVE  client'[Api].open => client[Api].open
    BY <1>0, <2>2 DEF Become, TypeOK
  <2>3. client'[Api].open => client[Api].open
    <3>1. CASE TakeProfiling(Api)
      BY <1>0, <2>2, <3>1 DEF TakeProfiling, TakeAndBecome, ClientTypes
    <3>2. CASE TakeHeader(Api) \/ SkipHeader(Api)
      BY <1>0, <2>2, <3>2 DEF TakeHeader, SkipHeader, TakeAndBecome, ClientTypes,
                              Receives, Free
    <3>3. CASE TakeChunk(Api) \/ TakeChunkOrSentinel(Api)
      BY <1>0, <2>2, <3>3 DEF TakeChunk, TakeChunkOrSentinel, Receives, Free
    <3>4. CASE TakeSentinel(Api)
      BY <1>0, <2>2, <3>4 DEF TakeSentinel, TakeAndBecome, ClientTypes
    <3>5. CASE TakeUntilSentinel(Api)
      BY <1>0, <2>2, <3>5 DEF TakeUntilSentinel, TakeAndBecome, ClientTypes
    <3>6. CASE \/ ClientAbortTrace(Api) \/ TimeOut(Api) \/ Leave(Api)
               \/ RequestTrace(Api) \/ \E c \in Asks : AskProfiling(Api, c)
      BY <3>6 DEF ClientAbortTrace, TimeOut, Leave, RequestTrace, AskProfiling, Free
    <3>7. QED
      BY <1>1, <3>1, <3>2, <3>3, <3>4, <3>5, <3>6 DEF ClientStep, TakePayload
  <2>4. QED
    BY <2>1, <2>3 DEF Undisturbed
<1>2. CASE ConnectClient(Api)
  <2>1. misled' = misled /\ version'[Api] \in Versions[Api]
    BY <1>0, <1>2 DEF ConnectClient, TypeOK
  <2>2. QED
    BY <2>1 DEF Undisturbed
<1>3. CASE UpdateSession(Api)
  <2>1. CASE UpdateAborting(Api)
    <3>1. current = Api
      BY <1>0, <2>1 DEF UpdateAborting, Owned, TraceHasOwner, TypeOK
    <3>2. /\ client' = client /\ version' = version
          /\ misled' = misled \/ misled' = misled \cup ({Api} \ {current})
      BY <2>1 DEF UpdateAborting
    <3>3. QED
      BY <3>1, <3>2 DEF Undisturbed
  <2>2. CASE ~UpdateAborting(Api)
    BY <1>3, <2>2 DEF UpdateSession, ReceivePayload, ExecuteTraceRequest,
       QueryProfilingStatusRequest, EnableProfilingRequest, Processes, SendPayload,
       UpdateTrace, MessageThreadKeeps, linkVars, Undisturbed
  <2>3. QED
    BY <2>1, <2>2
<1>4. CASE SessionTerminated(Api)
  BY <1>4 DEF SessionTerminated, Undisturbed
<1>5. CASE \/ EnableTraces \/ Finalize \/ BeginTrace \/ EndsTrace
           \/ \E k \in 1..MaxChunks : WriteTraceData(k)
  <2>1. DriverKeeps
    BY <1>5 DEF EnableTraces, SetProfiling, Finalize, BeginTrace, EndsTrace,
       EndTrace, AbortTrace, WriteTraceData
  <2>2. QED
    BY <2>1 DEF DriverKeeps, linkVars, Undisturbed
<1>6. CASE UNCHANGED rgpVars
  BY <1>6 DEF rgpVars, Undisturbed
<1>7. QED
  BY <1>0, <1>1, <1>2, <1>3, <1>4, <1>5, <1>6 DEF RgpSteps, BeginCall

\* The worker configures the driver in one state and collects traces in another.
LEMMA WorkerPlaced ==
  ASSUME ApiInv, WorkerPlace, ApiNext
  PROVE  WorkerPlace'
<1> USE DEF WorkerPlace, Configuring, Collecting, WorkerAt, WorkerTo
<1>1. CASE Dispatch \/ ListenEnds
  BY <1>1 DEF Dispatch, ListenEnds
<1>2. CASE TakeHalted \/ NoMore \/ ConnectProtocolClients
  BY <1>2 DEF TakeHalted, NoMore, ConnectProtocolClients, KeepFlags
<1>3. CASE DisconnectProtocolClients \/ PollTimesOut \/ EndTraceTimesOut
  BY <1>3 DEF DisconnectProtocolClients, PollTimesOut, EndTraceTimesOut, KeepFlags
<1>4. CASE EnableRgpProfiling
  BY <1>4 DEF EnableRgpProfiling
<1>5. CASE ResumeDriver \/ Poll
  BY <1>5 DEF ResumeDriver, Poll
<1>6. CASE RequestAndWait \/ ReadTrace
  BY <1>6 DEF RequestAndWait, ReadTrace, ReadsChunks, KeepFlags
<1>7. CASE AnswerIsLate
  BY <1>7 DEF AnswerIsLate
<1>8. CASE User
  <2>1. worker' = worker
    BY <1>8 DEF User, TriggerCapture, ClearCaptured, Finish, FinishLoop, UserKeeps
  <2>2. \/ workerState' = workerState
        \/ workerState = "Idle"
    BY <1>8 DEF User, TriggerCapture, ClearCaptured, Finish, FinishLoop
  <2>3. QED
    BY <2>1, <2>2
<1>9. CASE Driver \/ Serve \/ PanelGoesOn \/ PanelIsLate \/ PanelBegins
  BY <1>9 DEF Driver, Serve, PanelGoesOn, PanelIsLate, PanelBegins, apiVars, workerVars
<1>10. QED
  BY <1>1, <1>2, <1>3, <1>4, <1>5, <1>6, <1>7, <1>8, <1>9 DEF ApiNext, Worker

\* A trace that the client takes for complete is what was written for it, and
\* the server has finished with it.
LEMMA CompleteRests ==
  TypeOK /\ Owned /\ Followed /\ Undisturbed /\ client[Api].whole
  => client[Api].received = written[Api] /\ Resting
<1> SUFFICES ASSUME TypeOK, Owned, Followed, Undisturbed, client[Api].whole
             PROVE  client[Api].received = written[Api] /\ Resting
  OBVIOUS
<1>1. Api \in Tools /\ Attached(Api) /\ Follows(Api)
  BY ApiAssumption DEF Followed
<1>2. client[Api].open
  BY <1>1 DEF Attached, NoClient
<1>3. OnTrack(client[Api], session[Api], toServer[Api], toClient[Api], written[Api],
              OwnStatus(Api))
  BY <1>1, <1>2 DEF Follows, Undisturbed
<1>4. /\ OwnStatus(Api) = "Idle" /\ Calm(session[Api]) /\ AsksOnly(toServer[Api])
      /\ client[Api].received = written[Api]
  BY <1>3, Zenon DEF OnTrack
<1>5. current = NoTool
  BY <1>4, ApiAssumption DEF OwnStatus, TypeOK, Owned, TraceHasOwner
<1>6. NoExecute(session[Api], toServer[Api])
  BY <1>4, CalmNoExecute DEF NoExecute, AsksOnly, Asks, IsExecute
<1>7. QED
  BY <1>4, <1>5, <1>6 DEF Resting

\* A worker that collects no trace leaves the last one as it is.
LEMMA WorkerSaves ==
  ASSUME ApiInv, Followed, Undisturbed, Saved, WorkerPlace, Worker,
         TypeOK', Owned', Followed', Undisturbed'
  PROVE  Saved'
<1> SUFFICES ASSUME captured', user' # "Clear"
             PROVE  /\ file' = written'[Api] /\ Resting'
                    /\ workerState' = "Capturing" => worker' = "Leave"
  BY DEF Saved
<1> USE DEF WorkerAt, WorkerTo
<1>1. user # "Clear" /\ TypeOK /\ Owned
  BY DEF Worker, userVars, ApiInv
<1>2. CASE ReadTrace
  <2>1. worker = "Read" /\ workerState = "Capturing" /\ ~captured
    BY <1>1, <1>2 DEF ReadTrace, ReadsChunks, WorkerPlace, Collecting, Saved
  <2>2. client'[Api].whole /\ worker' = "Leave" /\ file' = client'[Api].received
    BY <1>2, <2>1 DEF ReadTrace, ReadsChunks, ApiInv, WorkerTypes
  <2>3. (TypeOK /\ Owned /\ Followed /\ Undisturbed /\ client[Api].whole
         => client[Api].received = written[Api] /\ Resting)'
    BY CompleteRests, PTL
  <2>4. QED
    BY <2>2, <2>3
<1>3. CASE RequestAndWait
  BY <1>1, <1>3 DEF RequestAndWait, KeepFlags, WorkerPlace, Collecting, Saved
<1>4. CASE ~ReadTrace /\ ~RequestAndWait
  <2>1. captured' = captured /\ file' = file
    BY <1>4 DEF Worker, Dispatch, ListenEnds, TakeHalted, NoMore, KeepFlags,
       ConnectProtocolClients, DisconnectProtocolClients, EnableRgpProfiling,
       ResumeDriver, Poll, PollTimesOut, EndTraceTimesOut, AnswerIsLate
  <2>2. file = written[Api] /\ Resting /\ (workerState = "Capturing" => worker = "Leave")
    BY <1>1, <2>1 DEF Saved
  <2>3. Resting' /\ written' = written
    <3>1. CASE UNCHANGED rgpVars
      BY <2>2, <3>1 DEF rgpVars, Resting
    <3>2. CASE \/ ClientStep(Api) \/ ConnectClient(Api)
               \/ \E c \in Asks : AskProfiling(Api, c)
      BY <1>1, <2>2, <3>2, ClientRests, SessionRests
    <3>3. QED
      BY <1>4, <3>1, <3>2 DEF Worker, Dispatch, ListenEnds, TakeHalted, NoMore,
         KeepRgp, ConnectProtocolClients, DisconnectProtocolClients,
         EnableRgpProfiling, ResumeDriver, Poll, PollTimesOut, EndTraceTimesOut,
         AnswerIsLate, ClientStep, TakePayload, Asks
  <2>4. workerState' # "Capturing"
    <3>1. CASE workerState = "Capturing"
      <4>1. worker = "Leave" /\ DisconnectProtocolClients
        BY <1>4, <2>2, <3>1 DEF Worker, Dispatch, ListenEnds, TakeHalted, NoMore,
           ConnectProtocolClients, EnableRgpProfiling, ResumeDriver, Poll,
           PollTimesOut, EndTraceTimesOut, AnswerIsLate
      <4>2. QED
        BY <3>1, <4>1 DEF DisconnectProtocolClients
    <3>2. CASE workerState # "Capturing"
      BY <1>4, <3>2 DEF Worker, Dispatch, ListenEnds, TakeHalted, NoMore, KeepFlags,
         ConnectProtocolClients, DisconnectProtocolClients, EnableRgpProfiling,
         ResumeDriver, Poll, PollTimesOut, EndTraceTimesOut, AnswerIsLate
    <3>3. QED
      BY <3>1, <3>2
  <2>5. QED
    BY <2>1, <2>2, <2>3, <2>4
<1>5. QED
  BY <1>2, <1>3, <1>4

\* Nor does anybody else touch it.
LEMMA OthersSave ==
  ASSUME ApiInv, Followed, Saved, User \/ Driver \/ Serve \/ PanelGoesOn \/ PanelIsLate
                                  \/ PanelBegins
  PROVE  Saved'
<1>1. TypeOK /\ Owned
  BY DEF ApiInv
<1>2. ASSUME UNCHANGED <<workerVars, captured, userVars>>, Resting => Resting' /\ written' = written
      PROVE  Saved'
  BY <1>2 DEF Saved, workerVars, userVars
<1>3. CASE UNCHANGED rgpVars
  <2>1. Resting => Resting' /\ written' = written
    BY <1>3 DEF rgpVars, Resting
  <2>2. CASE User
    <3>1. CASE TriggerCapture \/ ClearCaptured
      BY <3>1 DEF TriggerCapture, ClearCaptured, Saved
    <3>2. CASE Finish \/ FinishLoop
      <4>1. /\ UNCHANGED <<worker, file, captured>> /\ user # "Clear"
            /\ workerState' = "Capturing" => workerState = "Capturing"
        BY <3>2 DEF Finish, FinishLoop, UserKeeps
      <4>2. QED
        BY <2>1, <4>1 DEF Saved
    <3>3. QED
      BY <2>2, <3>1, <3>2 DEF User
  <2>3. CASE Driver \/ Serve \/ PanelGoesOn \/ PanelIsLate \/ PanelBegins
    BY <1>2, <2>1, <2>3 DEF Driver, Serve, PanelGoesOn, PanelIsLate, PanelBegins, apiVars
  <2>4. QED
    BY <2>2, <2>3
<1>4. CASE \/ EnableTraces \/ Finalize \/ BeginTrace \/ EndsTrace
           \/ \E k \in 1..MaxChunks : WriteTraceData(k)
           \/ UpdateSession(Api) \/ SessionTerminated(Api)
  <2>1. Resting => Resting' /\ written' = written
    BY <1>1, <1>4, DriverRests, ServerRests, SessionRests
  <2>2. CASE User
    <3>1. UNCHANGED rgpVars
      BY <2>2 DEF User, TriggerCapture, ClearCaptured, Finish, FinishLoop, UserKeeps
    <3>2. QED
      BY <1>3, <3>1
  <2>3. CASE ~User
    BY <1>2, <2>1, <2>3 DEF Driver, Serve, PanelGoesOn, PanelIsLate, PanelBegins, apiVars
  <2>4. QED
    BY <2>2, <2>3
<1>5. QED
  BY <1>3, <1>4 DEF User, TriggerCapture, ClearCaptured, Finish, FinishLoop, UserKeeps,
     Driver, Serve, PanelGoesOn, PanelIsLate, PanelBegins, KeepRgp

\* A capture that the API reports is the whole trace that the driver wrote
\* last (RGPClientInProcessModel.cpp:448).  The session must have a header for
\* its traces (rgpClient.cpp:169): without one, an aborted trace ends like a
\* whole one.
THEOREM ApiCaptures ==
  ASSUME \A v \in Versions[Api] : v >= RGP_TRACE_PROGRESS_VERSION
  PROVE  ApiSpec => []CapturedIsWhole
<1> DEFINE Rec == Followed /\ Undisturbed /\ WorkerPlace /\ Saved
<1>1. ApiInit => Rec
  <2>1. ApiInit => Followed
    BY InitFollowed DEF ApiInit
  <2>2. ApiInit => Undisturbed
    BY ApiAssumption DEF ApiInit, Init, Undisturbed, NoClient
  <2>3. ApiInit => WorkerPlace /\ Saved
    BY DEF ApiInit, WorkerPlace, Configuring, Collecting, Saved
  <2>4. QED
    BY <2>1, <2>2, <2>3
<1>2. ApiInv /\ ApiInv' /\ Rec /\ [ApiNext]_vars => Rec'
  <2>1. ASSUME ApiInv, ApiInv', Rec, ApiNext PROVE Rec'
    <3>1. TypeOK /\ Owned /\ TypeOK' /\ Owned' /\ (RgpSteps \/ UNCHANGED rgpVars)
      BY <2>1, PartsStep DEF ApiInv, UserTypes
    <3>2. Followed' /\ Undisturbed'
      BY <2>1, <3>1, TraceFollowed, UndisturbedKept
    <3>3. WorkerPlace'
      BY <2>1, WorkerPlaced
    <3>4. Saved'
      BY <2>1, <3>1, <3>2, WorkerSaves, OthersSave DEF ApiNext
    <3>5. QED
      BY <3>2, <3>3, <3>4
  <2>2. ASSUME Rec, UNCHANGED vars PROVE Rec'
    <3>1. UNCHANGED rgpVars /\ UNCHANGED <<worker, workerState, captured, file, user>>
      BY <2>2 DEF vars, apiVars, workerVars, userVars
    <3>2. Followed'
      BY <2>2, <3>1, FollowedFrame DEF rgpVars, linkVars
    <3>3. QED
      BY <2>2, <3>1, <3>2 DEF rgpVars, Undisturbed, WorkerPlace, Saved, Resting
  <2>3. QED
    BY <2>1, <2>2
<1>3. Rec => CapturedIsWhole
  BY DEF Saved, CapturedIsWhole
<1>4. QED
  BY <1>1, <1>2, <1>3, ApiInductive, PTL DEF ApiSpec
=============================================================================
