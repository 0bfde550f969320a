------------------------------ MODULE RgpTrace ------------------------------
(***************************************************************************)
(* The RGP trace protocol: the server in the driver's process              *)
(* (src/protocols/rgpServer.cpp), the clients in the tools                 *)
(* (src/protocols/rgpClient.cpp), and the sessions between them, which are *)
(* reliable and ordered (see Session).                                     *)
(*                                                                         *)
(* The server's methods hold its lock, so each of them is one step.  The   *)
(* message thread calls UpdateSession for one session after the other; the *)
(* driver's own thread makes the driver's calls.  A call of a client is a  *)
(* step that sends and one that takes the answer.                          *)
(***************************************************************************)
EXTENDS Integers, Sequences

CONSTANTS
  Tools,        \* the tools, each with at most one session at a time
  NoTool,       \* no session: a null pointer
  Versions,     \* the protocol versions a session of a tool may agree on
  Window,       \* payloads a session holds before a send must wait
  MaxChunks,    \* bound: chunks the driver writes in a behaviour
  MaxCalls      \* bound: calls of the clients that begin something

RGP_TRACE_PROGRESS_VERSION == 4
RGP_PENDING_ABORT_VERSION == 7

ASSUME RgpAssumption ==
  /\ NoTool \notin Tools
  /\ Versions \in [Tools -> SUBSET (2..8)]
  /\ Window \in Nat \ {0}
  /\ {MaxChunks, MaxCalls} \subseteq Nat

VARIABLES
  traceStatus, \* m_traceStatus
  current,     \* m_pCurrentSessionData
  profiling,   \* m_profilingStatus
  finalized,   \* m_isFinalized of the server
  session,     \* the RGPSession of a tool's session, at the server
  version,     \* the version that session agreed on
  toServer,    \* payloads the server has not received
  toClient,    \* payloads the client has not received
  client,      \* the RGPClient of a tool
  written,     \* history: the chunks written into a tool's last trace
  misled,      \* history: the tools sent a payload for the abort of another's
  chunks,      \* how many chunks the driver has written
  calls        \* how many calls the clients have begun

serverVars == <<traceStatus, current, profiling, finalized, session>>
linkVars == <<version, toServer, toClient, misled>>
rgpVars == <<traceStatus, current, profiling, finalized, session, version,
             toServer, toClient, misled, client, written, chunks>>

Asks == {"QueryProfilingStatusRequest", "EnableProfilingRequest"}
Answers == {"QueryProfilingStatusResponse", "EnableProfilingResponse"}
RGPMessage == Asks \cup Answers \cup
  {"Unknown", "ExecuteTraceRequest", "TraceDataHeader", "TraceDataChunk",
   "TraceDataSentinel", "AbortTrace"}

\* num is the number of chunks in a header and the identity of a chunk.
Payloads == [command : RGPMessage, result : {"Success", "Error", "Aborted"},
             num : 0..MaxChunks]
Payload(c, r, n) == [command |-> c, result |-> r, num |-> n]
Request(c) == Payload(c, "Success", 0)

NoSession == [state |-> "None", payload |-> Request("Unknown"), version |-> 0,
              chunks |-> <<>>, abort |-> FALSE]
NewSession == [NoSession EXCEPT !.state = "ReceivePayload"]

\* call is the method that waits for a payload; received is also what
\* m_traceContext.numChunksReceived counts, the chunks in their order.
NoClient == [open |-> FALSE, state |-> "Idle", call |-> "None",
             numChunks |-> 0, received |-> <<>>, whole |-> FALSE]

Init ==
  /\ traceStatus = "Idle"
  /\ current = NoTool
  /\ profiling = "NotAvailable"
  /\ finalized = FALSE
  /\ session = [t \in Tools |-> NoSession]
  /\ version = [t \in Tools |-> 0]
  /\ toServer = [t \in Tools |-> <<>>]
  /\ toClient = [t \in Tools |-> <<>>]
  /\ client = [t \in Tools |-> NoClient]
  /\ written = [t \in Tools |-> <<>>] /\ misled = {}
  /\ chunks = 0 /\ calls = 0

-----------------------------------------------------------------------------
(* The clients.                                                            *)

\* Mutant: one payload too many.
RoomForOneMore(link, t) == Len(link[t]) <= Window

Room(link, t) == Len(link[t]) < Window

\* A tool between two calls on its client.
Free(t) == client[t].open /\ client[t].call = "None"

\* A call that takes the next payload of the server.
Takes(t, call) == client[t].call = call /\ toClient[t] # <<>>
Taken(t) == Head(toClient[t])

Become(t, c) ==
  /\ client' = [client EXCEPT ![t] = c]
  /\ UNCHANGED <<serverVars, version, misled, written, chunks>>

TakeAndBecome(t, c) ==
  /\ Become(t, c)
  /\ toClient' = [toClient EXCEPT ![t] = Tail(@)]
  /\ UNCHANGED toServer

ConnectClient(t) ==
  /\ ~client[t].open /\ session[t].state = "None"
  /\ \E v \in Versions[t] : version' = [version EXCEPT ![t] = v]
  /\ client' = [client EXCEPT ![t] = [NoClient EXCEPT !.open = TRUE]]
  /\ session' = [session EXCEPT ![t] = NewSession]
  /\ UNCHANGED <<traceStatus, current, profiling, finalized, toServer,
                 toClient, misled, written, chunks>>

\* QueryProfilingStatus and EnableProfiling.
AskProfiling(t, c) ==
  /\ Free(t) /\ Room(toServer, t)
  /\ Become(t, [client[t] EXCEPT !.call = c])
  /\ toServer' = [toServer EXCEPT ![t] = Append(@, Request(c))]
  /\ UNCHANGED toClient

TakeProfiling(t) ==
  \E c \in Asks :
    /\ Takes(t, c)
    /\ TakeAndBecome(t, [client[t] EXCEPT !.call = "None"])

\* Mutant: any answer will do, also that to an earlier request.
SomeAnswerSucceeded(t) ==
  Takes(t, "EnableProfilingRequest") /\ Taken(t).result = "Success"

EnableSucceeded(t) ==
  /\ Takes(t, "EnableProfilingRequest")
  /\ Taken(t) = Payload("EnableProfilingResponse", "Success", 0)

\* BeginTrace of the client; a request that cannot be sent fails the trace.
RequestTrace(t) ==
  /\ Free(t) /\ client[t].state = "Idle"
  /\ Become(t, [client[t] EXCEPT
       !.state = IF Room(toServer, t) THEN "TraceRequested" ELSE "Error",
       !.received = <<>>, !.whole = FALSE])
  /\ toServer' = IF Room(toServer, t)
                 THEN [toServer EXCEPT
                        ![t] = Append(@, Request("ExecuteTraceRequest"))]
                 ELSE toServer
  /\ UNCHANGED toClient

\* EndTrace and ReadTraceDataChunk of the client.  A call that waits for a
\* payload is one that is not made yet; one that gives up is TimeOut.
Receives(t, state) ==
  /\ Free(t) /\ client[t].state = state
  /\ toClient[t] # <<>>

TakeHeader(t) ==
  /\ Receives(t, "TraceRequested")
  /\ version[t] >= RGP_TRACE_PROGRESS_VERSION
  /\ TakeAndBecome(t,
       IF Taken(t).command = "TraceDataHeader" /\ Taken(t).result = "Success"
       THEN [client[t] EXCEPT !.state = "TraceCompleted",
                              !.numChunks = Taken(t).num]
       ELSE [client[t] EXCEPT !.state = "Error"])

\* Versions without a header have nothing to wait for.
SkipHeader(t) ==
  /\ Free(t) /\ client[t].state = "TraceRequested"
  /\ version[t] < RGP_TRACE_PROGRESS_VERSION
  /\ Become(t, [client[t] EXCEPT !.state = "TraceCompleted"])
  /\ UNCHANGED <<toServer, toClient>>

\* The last chunk is followed by a second receive, for the sentinel.
TakeChunk(t) ==
  LET c == client[t]
      more == Append(c.received, Taken(t).num)
  IN  /\ Receives(t, "TraceCompleted")
      /\ version[t] >= RGP_TRACE_PROGRESS_VERSION
      /\ TakeAndBecome(t,
           IF Taken(t).command = "TraceDataChunk" /\ Len(c.received) < c.numChunks
           THEN [c EXCEPT !.received = more,
                          !.call = IF Len(more) = c.numChunks
                                   THEN "Sentinel" ELSE "None"]
           ELSE [c EXCEPT !.state = "Error"])

TakeSentinel(t) ==
  LET ends == Taken(t).command = "TraceDataSentinel"
  IN  /\ Takes(t, "Sentinel")
      /\ TakeAndBecome(t, [client[t] EXCEPT !.call = "None", !.whole = ends,
                             !.state = IF ends THEN "Idle" ELSE "Error"])

\* Before the progress version any sentinel ends the stream, and the client
\* does not leave the state.
TakeChunkOrSentinel(t) ==
  LET c == client[t]
  IN  /\ Receives(t, "TraceCompleted")
      /\ version[t] < RGP_TRACE_PROGRESS_VERSION
      /\ TakeAndBecome(t,
           IF Taken(t).command = "TraceDataChunk"
           THEN [c EXCEPT !.received = Append(@, Taken(t).num)]
           ELSE [c EXCEPT !.whole = @ \/ Taken(t).command = "TraceDataSentinel"])

ClientAbortTrace(t) ==
  /\ Free(t) /\ version[t] >= RGP_TRACE_PROGRESS_VERSION
  /\ \/ client[t].state = "TraceCompleted"
     \/ /\ client[t].state = "TraceRequested"
        /\ version[t] >= RGP_PENDING_ABORT_VERSION
  /\ IF Room(toServer, t)
     THEN /\ Become(t, [client[t] EXCEPT !.call = "Abort"])
          /\ toServer' = [toServer EXCEPT ![t] = Append(@, Request("AbortTrace"))]
     ELSE /\ Become(t, [client[t] EXCEPT !.state = "Error"])
          /\ UNCHANGED toServer
  /\ UNCHANGED toClient

\* Everything is discarded until a sentinel comes.
TakeUntilSentinel(t) ==
  /\ Takes(t, "Abort")
  /\ TakeAndBecome(t,
       IF Taken(t).command # "TraceDataSentinel" THEN client[t]
       ELSE [client[t] EXCEPT !.call = "None",
               !.state = IF Taken(t).result = "Aborted" THEN "Idle" ELSE "Error"])

\* A receive gives up.  In EndTrace that changes nothing; profiling requests
\* leave their answer to whoever receives next.
TimeOut(t) ==
  /\ client[t].open /\ toClient[t] = <<>>
  /\ client[t].call # "None" \/ client[t].state = "TraceCompleted"
  /\ Become(t, [client[t] EXCEPT !.call = "None",
                  !.state = IF client[t].call \in Asks THEN @ ELSE "Error"])
  /\ UNCHANGED <<toServer, toClient>>

\* Disconnect between two calls, or the end of the tool's process in a call.
Leave(t) ==
  /\ client[t].open
  /\ Become(t, NoClient)
  /\ UNCHANGED <<toServer, toClient>>

TakePayload(t) ==
  \/ TakeProfiling(t) \/ TakeHeader(t) \/ SkipHeader(t) \/ TakeChunk(t)
  \/ TakeSentinel(t) \/ TakeChunkOrSentinel(t) \/ TakeUntilSentinel(t)

BeginCall(t) ==
  \/ ConnectClient(t)
  \/ \E c \in Asks : AskProfiling(t, c)
  \/ RequestTrace(t)

ClientStep(t) == ClientAbortTrace(t) \/ TakePayload(t) \/ TimeOut(t) \/ Leave(t)
-----------------------------------------------------------------------------
(* The message thread of the driver's process: UpdateSession of the server.*)

\* Mutant: what was not sent stays in the session.
ClearAllButChunks(sessions) ==
  /\ traceStatus' = "Idle" /\ current' = NoTool
  /\ session' = [sessions EXCEPT ![current] =
       [@ EXCEPT !.state = "ReceivePayload", !.version = 0, !.abort = FALSE]]

\* The session data and the end of a trace, once it is answered.
ClearCurrentSession(sessions) ==
  /\ traceStatus' = "Idle"
  /\ current' = NoTool
  /\ session' = [sessions EXCEPT ![current] =
       [@ EXCEPT !.state = "ReceivePayload", !.version = 0, !.chunks = <<>>,
                 !.abort = FALSE]]

KeepCurrentSession(sessions) ==
  /\ session' = sessions
  /\ UNCHANGED <<traceStatus, current>>

\* What every step of the message thread leaves alone.
MessageThreadKeeps ==
  UNCHANGED <<finalized, version, misled, client, written, chunks>>

Answer(t, p) == [session EXCEPT ![t].payload = p, ![t].state = "SendPayload"]

ReceivePayload(t) ==
  /\ traceStatus = "Idle" /\ session[t].state = "ReceivePayload"
  /\ toServer[t] # <<>>
  /\ session' = [session EXCEPT ![t].payload = Head(toServer[t]),
                                ![t].state = "ProcessPayload"]
  /\ toServer' = [toServer EXCEPT ![t] = Tail(@)]
  /\ MessageThreadKeeps
  /\ UNCHANGED <<traceStatus, current, profiling, toClient>>

Processes(t, c) ==
  /\ traceStatus = "Idle" /\ session[t].state = "ProcessPayload"
  /\ session[t].payload.command = c
  /\ MessageThreadKeeps
  /\ UNCHANGED <<toServer, toClient>>

\* The version that decides how to refuse is that of the session data, which
\* is set only while the session has a trace.
ExecuteTraceRequest(t) ==
  /\ traceStatus = "Idle" /\ session[t].state = "ProcessPayload"
  /\ session[t].payload.command = "ExecuteTraceRequest"
  /\ IF profiling = "Enabled"
     THEN /\ traceStatus' = "Pending"
          /\ current' = t
          /\ session' = [session EXCEPT ![t].state = "TransferTraceData",
                                        ![t].version = version[t]]
          /\ written' = [written EXCEPT ![t] = <<>>]
     ELSE /\ session' = Answer(t, Payload(
               IF session[t].version >= RGP_TRACE_PROGRESS_VERSION
               THEN "TraceDataHeader" ELSE "TraceDataSentinel", "Error", 0))
          /\ UNCHANGED <<traceStatus, current, written>>
  /\ UNCHANGED <<profiling, finalized, linkVars, client, chunks>>

QueryProfilingStatusRequest(t) ==
  /\ Processes(t, "QueryProfilingStatusRequest")
  /\ session' = Answer(t, Request("QueryProfilingStatusResponse"))
  /\ UNCHANGED <<traceStatus, current, profiling>>

\* Profiling can only be enabled before the server is finalized.
EnableProfilingRequest(t) ==
  LET enables == ~finalized /\ profiling = "Available"
  IN  /\ Processes(t, "EnableProfilingRequest")
      /\ profiling' = IF enables THEN "Enabled" ELSE profiling
      /\ session' = Answer(t, Payload("EnableProfilingResponse",
                                      IF enables THEN "Success" ELSE "Error", 0))
      /\ UNCHANGED <<traceStatus, current>>

SendPayload(t) ==
  /\ traceStatus = "Idle" /\ session[t].state = "SendPayload"
  /\ Room(toClient, t)
  /\ toClient' = [toClient EXCEPT ![t] = Append(@, session[t].payload)]
  /\ session' = [session EXCEPT ![t].state = "ReceivePayload"]
  /\ MessageThreadKeeps
  /\ UNCHANGED <<traceStatus, current, profiling, toServer>>

\* In a trace only the session that asked for it is served.  First it looks
\* for an abort request; any other payload is dropped.
MayAbort(t) ==
  /\ version[t] >= RGP_TRACE_PROGRESS_VERSION /\ ~session[t].abort
  /\ traceStatus # "Pending" \/ version[t] >= RGP_PENDING_ABORT_VERSION

Polled(t) ==
  IF MayAbort(t) /\ toServer[t] # <<>>
  THEN [session[t] EXCEPT !.payload = Head(toServer[t]),
                          !.abort = Head(toServer[t]).command = "AbortTrace"]
  ELSE session[t]

SendsTraceData(t) ==
  \/ traceStatus = "Finishing"
  \/ traceStatus = "Running" /\ version[t] < RGP_TRACE_PROGRESS_VERSION

\* Then it answers the abort, or sends as many chunks as the session takes.
UpdateTrace(t) ==
  LET s == Polled(t)
      room == Window - Len(toClient[t])
      sent == IF room < Len(s.chunks) THEN room ELSE Len(s.chunks)
      sentinel == Payload("TraceDataSentinel", "Aborted", 0)
  IN  /\ traceStatus \in {"Pending", "Running", "Finishing"} /\ current = t
      /\ toServer' = IF MayAbort(t) /\ toServer[t] # <<>>
                     THEN [toServer EXCEPT ![t] = Tail(@)] ELSE toServer
      /\ CASE s.abort ->
                LET answered == [session EXCEPT
                                   ![t] = [s EXCEPT !.payload = sentinel]]
                IN  IF Room(toClient, t)
                    THEN /\ toClient' = [toClient EXCEPT
                                           ![t] = Append(@, sentinel)]
                         /\ ClearCurrentSession(answered)
                    ELSE /\ KeepCurrentSession(answered)
                         /\ UNCHANGED toClient
           [] ~s.abort /\ SendsTraceData(t) ->
                LET unsent == SubSeq(s.chunks, sent + 1, Len(s.chunks))
                    sessions == [session EXCEPT
                                   ![t] = [s EXCEPT !.chunks = unsent]]
                IN  /\ toClient' = [toClient EXCEPT
                                      ![t] = @ \o SubSeq(s.chunks, 1, sent)]
                    /\ IF unsent = <<>> /\ traceStatus = "Finishing"
                       THEN ClearCurrentSession(sessions)
                       ELSE KeepCurrentSession(sessions)
           [] OTHER -> /\ KeepCurrentSession([session EXCEPT ![t] = s])
                       /\ UNCHANGED toClient
      /\ MessageThreadKeeps
      /\ UNCHANGED profiling

\* After an abort by the driver, whichever session is updated sends its own
\* payload, although it is the current session's that was filled: it may be
\* an answer that its client took long ago.
UpdateAborting(t) ==
  LET kind == IF session[current].version >= RGP_TRACE_PROGRESS_VERSION
              THEN "TraceDataHeader" ELSE "TraceDataSentinel"
      filled == [session EXCEPT ![current].payload = Payload(kind, "Error", 0)]
  IN  /\ traceStatus = "Aborting" /\ session[t].state # "None"
      /\ IF Room(toClient, t)
         THEN /\ toClient' = [toClient EXCEPT ![t] = Append(@, filled[t].payload)]
              /\ misled' = misled \cup ({t} \ {current})
              /\ ClearCurrentSession(filled)
         ELSE /\ KeepCurrentSession(filled)
              /\ UNCHANGED <<toClient, misled>>
      /\ UNCHANGED <<profiling, finalized, version, toServer, client, written,
                     chunks>>

UpdateSession(t) ==
  \/ ReceivePayload(t) \/ ExecuteTraceRequest(t)
  \/ QueryProfilingStatusRequest(t) \/ EnableProfilingRequest(t)
  \/ SendPayload(t) \/ UpdateTrace(t) \/ UpdateAborting(t)

\* Mutant: the trace of the session goes on without it.
TerminatedKeepsTrace(t) ==
  /\ session[t].state # "None" /\ ~client[t].open
  /\ session' = [session EXCEPT ![t] = NoSession]
  /\ current' = IF current = t THEN NoTool ELSE current
  /\ version' = [version EXCEPT ![t] = 0]
  /\ toServer' = [toServer EXCEPT ![t] = <<>>]
  /\ toClient' = [toClient EXCEPT ![t] = <<>>] /\ misled' = misled \ {t}
  /\ UNCHANGED <<traceStatus, profiling, finalized, client, written, chunks>>

SessionTerminated(t) ==
  /\ session[t].state # "None" /\ ~client[t].open
  /\ session' = [session EXCEPT ![t] = NoSession]
  /\ traceStatus' = IF current = t THEN "Idle" ELSE traceStatus
  /\ current' = IF current = t THEN NoTool ELSE current
  /\ version' = [version EXCEPT ![t] = 0]
  /\ toServer' = [toServer EXCEPT ![t] = <<>>]
  /\ toClient' = [toClient EXCEPT ![t] = <<>>] /\ misled' = misled \ {t}
  /\ UNCHANGED <<profiling, finalized, client, written, chunks>>
-----------------------------------------------------------------------------
(* The driver's thread.                                                    *)

DriverKeeps == UNCHANGED <<current, linkVars, client>>

SetProfiling(from, to) ==
  /\ traceStatus = "Idle" /\ profiling \in from
  /\ profiling' = to
  /\ DriverKeeps
  /\ UNCHANGED <<traceStatus, finalized, session, written, chunks>>

EnableTraces == SetProfiling({"NotAvailable"}, "Available")

\* Mutant: does not ask whether there is a trace.
DisableAnytime ==
  /\ profiling \in {"Available", "Enabled"} /\ profiling' = "NotAvailable"
  /\ DriverKeeps
  /\ UNCHANGED <<traceStatus, finalized, session, written, chunks>>

DisableTraces == SetProfiling({"Available", "Enabled"}, "NotAvailable")

Finalize ==
  /\ ~finalized
  /\ finalized' = TRUE
  /\ DriverKeeps
  /\ UNCHANGED <<traceStatus, profiling, session, written, chunks>>

BeginTrace ==
  /\ traceStatus = "Pending"
  /\ traceStatus' = "Running"
  /\ DriverKeeps
  /\ UNCHANGED <<profiling, finalized, session, written, chunks>>

\* Mutant: new chunks go to the front.
WriteInFront(k) ==
  LET new == [i \in 1..k |-> chunks + i]
  IN  /\ traceStatus = "Running" /\ current # NoTool
      /\ chunks + k <= MaxChunks /\ chunks' = chunks + k
      /\ session' = [session EXCEPT ![current].chunks =
           [i \in 1..k |-> Payload("TraceDataChunk", "Success", new[i])] \o @]
      /\ written' = [written EXCEPT ![current] = @ \o new]
      /\ DriverKeeps /\ UNCHANGED <<traceStatus, profiling, finalized>>

\* The data of one call, cut into k chunks.
WriteTraceData(k) ==
  LET new == [i \in 1..k |-> chunks + i]
  IN  /\ traceStatus = "Running" /\ current # NoTool
      /\ chunks + k <= MaxChunks
      /\ chunks' = chunks + k
      /\ session' = [session EXCEPT ![current].chunks = @ \o
           [i \in 1..k |-> Payload("TraceDataChunk", "Success", new[i])]]
      /\ written' = [written EXCEPT ![current] = @ \o new]
      /\ DriverKeeps
      /\ UNCHANGED <<traceStatus, profiling, finalized>>

\* A trace whose client is gone is discarded.
EndTrace ==
  LET s == session[current]
      header == Payload("TraceDataHeader", "Success", Len(s.chunks))
      sentinel == Request("TraceDataSentinel")
      before == IF s.version >= RGP_TRACE_PROGRESS_VERSION THEN <<header>>
                ELSE <<>>
  IN  /\ traceStatus = "Running"
      /\ IF current = NoTool
         THEN /\ traceStatus' = "Idle"
              /\ UNCHANGED session
         ELSE /\ traceStatus' = "Finishing"
              /\ session' = [session EXCEPT
                   ![current].chunks = before \o @ \o <<sentinel>>]
      /\ DriverKeeps
      /\ UNCHANGED <<profiling, finalized, written, chunks>>

AbortTrace ==
  /\ traceStatus = "Running"
  /\ traceStatus' = IF current = NoTool THEN "Idle" ELSE "Aborting"
  /\ DriverKeeps
  /\ UNCHANGED <<profiling, finalized, session, written, chunks>>

EndsTrace == EndTrace \/ AbortTrace

DriverStep ==
  \/ EnableTraces \/ DisableTraces \/ Finalize
  \/ BeginTrace \/ EndsTrace
  \/ \E k \in 1..MaxChunks : WriteTraceData(k)
-----------------------------------------------------------------------------
Next ==
  \/ /\ \/ \E t \in Tools :
             ClientStep(t) \/ UpdateSession(t) \/ SessionTerminated(t)
        \/ DriverStep
     /\ UNCHANGED calls
  \/ /\ calls < MaxCalls /\ calls' = calls + 1
     /\ \E t \in Tools : BeginCall(t)

Spec == Init /\ [][Next]_<<rgpVars, calls>>
-----------------------------------------------------------------------------
SessionTypes == [
  state : {"None", "ReceivePayload", "ProcessPayload", "SendPayload",
           "TransferTraceData"},
  payload : Payloads, version : 0..8, chunks : Seq(Payloads), abort : BOOLEAN]

ClientTypes == [
  open : BOOLEAN,
  state : {"Idle", "TraceRequested", "TraceCompleted", "Error"},
  call : Asks \cup {"None", "Sentinel", "Abort"},
  numChunks : 0..MaxChunks, received : Seq(0..MaxChunks), whole : BOOLEAN]

\* Every variable has its type; a session never holds more than its window.
TypeOK ==
  /\ traceStatus \in {"Idle", "Pending", "Running", "Finishing", "Aborting"}
  /\ current \in Tools \cup {NoTool}
  /\ profiling \in {"NotAvailable", "Available", "Enabled"}
  /\ finalized \in BOOLEAN
  /\ session \in [Tools -> SessionTypes]
  /\ version \in [Tools -> 0..8]
  /\ toServer \in [Tools -> Seq(Payloads)]
  /\ toClient \in [Tools -> Seq(Payloads)]
  /\ client \in [Tools -> ClientTypes]
  /\ written \in [Tools -> Seq(1..MaxChunks)]
  /\ misled \subseteq Tools
  /\ chunks \in 0..MaxChunks /\ calls \in 0..MaxCalls
  /\ \A t \in Tools : Len(toServer[t]) <= Window /\ Len(toClient[t]) <= Window

\* The server works on a trace exactly while it knows the session that asked
\* for it, and that session is there to receive it: what the assertions of
\* UpdateSession say (rgpServer.cpp:138, 319 and 325), and what keeps the
\* driver from writing into the data of a session that is gone.
TraceHasOwner ==
  /\ traceStatus = "Idle" <=> current = NoTool
  /\ \A t \in Tools : session[t].state = "TransferTraceData" <=> current = t

\* Traces cannot be disabled, nor can a refused tool get one, behind the back
\* of a trace: while there is one, profiling is enabled.
TraceNeedsProfiling == traceStatus # "Idle" => profiling = "Enabled"

\* Nothing of an aborted or abandoned trace is left for the next one.
OnlyOwnerHasChunks ==
  \A t \in Tools : current # t =>
    session[t].chunks = <<>> /\ ~session[t].abort

\* A client that was told that its trace is complete has exactly the chunks
\* that the driver wrote for it, in their order.  Versions with a header only,
\* and unless the session got a payload for the abort of another's trace:
\* a client that takes it for the answer to its own AbortTrace begins a trace
\* while its last one is still to come, and may mix the two.
TraceComplete ==
  \A t \in Tools \ misled :
    client[t].whole /\ version[t] >= RGP_TRACE_PROGRESS_VERSION
    => client[t].received = written[t]

\* The server does not stay in a trace: every other tool waits for it.
TraceEnds == traceStatus # "Idle" ~> traceStatus = "Idle"
=============================================================================
