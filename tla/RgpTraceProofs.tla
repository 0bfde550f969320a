---------------------------- MODULE RgpTraceProofs ----------------------------
(***************************************************************************)
(* Proofs about RgpTrace: for any number of tools, any versions, any window*)
(* and any number of chunks, the variables keep their types, a trace has   *)
(* one owner, nothing of it outlives it, and a client that was told that   *)
(* its trace is complete has all of it.                                    *)
(***************************************************************************)
EXTENDS RgpTrace, SequenceTheorems, TLAPS

SessionStates == {"None", "ReceivePayload", "ProcessPayload", "SendPayload",
                  "TransferTraceData"}

\* A direction of the sessions between tools and server.
IsLink(link) ==
  /\ link \in [Tools -> Seq(Payloads)]
  /\ \A t \in Tools : Len(link[t]) <= Window

\* The chunks of a trace are among those the driver has written; the header
\* and the sentinel come on top when it ends.
ChunksCounted ==
  current # NoTool /\ traceStatus # "Finishing"
  => Len(session[current].chunks) <= chunks

Owned ==
  TraceHasOwner /\ TraceNeedsProfiling /\ OnlyOwnerHasChunks /\ ChunksCounted

-----------------------------------------------------------------------------
(* Records and links.                                                      *)

\* The fields of the session data are updated one by one.
LEMMA SessionState ==
  ASSUME NEW s \in SessionTypes, NEW x \in SessionStates
  PROVE  /\ [s EXCEPT !.state = x] \in SessionTypes
         /\ [s EXCEPT !.state = x].state = x
         /\ [s EXCEPT !.state = x].chunks = s.chunks
         /\ [s EXCEPT !.state = x].abort = s.abort
BY DEF SessionTypes, SessionStates

LEMMA SessionPayload ==
  ASSUME NEW s \in SessionTypes, NEW x \in Payloads
  PROVE  /\ [s EXCEPT !.payload = x] \in SessionTypes
         /\ [s EXCEPT !.payload = x].state = s.state
         /\ [s EXCEPT !.payload = x].chunks = s.chunks
         /\ [s EXCEPT !.payload = x].abort = s.abort
         /\ [s EXCEPT !.payload = x].payload = x
BY DEF SessionTypes, SessionStates

LEMMA SessionVersion ==
  ASSUME NEW s \in SessionTypes, NEW x \in 0..8
  PROVE  /\ [s EXCEPT !.version = x] \in SessionTypes
         /\ [s EXCEPT !.version = x].state = s.state
         /\ [s EXCEPT !.version = x].chunks = s.chunks
         /\ [s EXCEPT !.version = x].abort = s.abort
BY DEF SessionTypes, SessionStates

LEMMA SessionChunks ==
  ASSUME NEW s \in SessionTypes, NEW x \in Seq(Payloads)
  PROVE  /\ [s EXCEPT !.chunks = x] \in SessionTypes
         /\ [s EXCEPT !.chunks = x].state = s.state
         /\ [s EXCEPT !.chunks = x].chunks = x
         /\ [s EXCEPT !.chunks = x].abort = s.abort
BY DEF SessionTypes, SessionStates

LEMMA SessionAbort ==
  ASSUME NEW s \in SessionTypes, NEW x \in BOOLEAN
  PROVE  /\ [s EXCEPT !.abort = x] \in SessionTypes
         /\ [s EXCEPT !.abort = x].state = s.state
         /\ [s EXCEPT !.abort = x].chunks = s.chunks
         /\ [s EXCEPT !.abort = x].abort = x
BY DEF SessionTypes, SessionStates

LEMMA SessionFieldTypes ==
  ASSUME NEW s \in SessionTypes
  PROVE  /\ s.state \in SessionStates /\ s.payload \in Payloads
         /\ s.version \in 0..8 /\ s.chunks \in Seq(Payloads)
         /\ s.abort \in BOOLEAN
BY DEF SessionTypes, SessionStates

\* What the client's record may become.
LEMMA ClientFields ==
  ASSUME NEW c \in ClientTypes
  PROVE  /\ \A x \in {"Idle", "TraceRequested", "TraceCompleted", "Error"} :
              [c EXCEPT !.state = x] \in ClientTypes
         /\ \A x \in Asks \cup {"None", "Sentinel", "Abort"} :
              [c EXCEPT !.call = x] \in ClientTypes
         /\ \A x \in 0..MaxChunks : [c EXCEPT !.numChunks = x] \in ClientTypes
         /\ \A x \in Seq(0..MaxChunks) : [c EXCEPT !.received = x] \in ClientTypes
         /\ \A x \in BOOLEAN : [c EXCEPT !.whole = x] \in ClientTypes
BY DEF ClientTypes

LEMMA PayloadTypes ==
  ASSUME NEW c \in RGPMessage, NEW r \in {"Success", "Error", "Aborted"},
         NEW n \in 0..MaxChunks
  PROVE  Payload(c, r, n) \in Payloads
BY DEF Payload, Payloads

LEMMA RequestTypes == ASSUME NEW c \in RGPMessage PROVE Request(c) \in Payloads
<1>1. 0 \in 0..MaxChunks
  BY RgpAssumption
<1>2. QED
  BY <1>1, PayloadTypes DEF Request

\* A payload more, or one less.
LEMMA LinkGrows ==
  ASSUME NEW link, IsLink(link), NEW t \in Tools, Room(link, t), NEW p \in Payloads
  PROVE  IsLink([link EXCEPT ![t] = Append(@, p)])
BY RgpAssumption DEF IsLink, Room

LEMMA LinkShrinks ==
  ASSUME NEW link, IsLink(link), NEW t \in Tools, link[t] # <<>>
  PROVE  /\ IsLink([link EXCEPT ![t] = Tail(@)])
         /\ Head(link[t]) \in Payloads
<1>1. link[t] \in Seq(Payloads)
  BY DEF IsLink
<1>2. /\ Tail(link[t]) \in Seq(Payloads)
      /\ Len(Tail(link[t])) = Len(link[t]) - 1
      /\ Head(link[t]) \in Payloads
      /\ Len(link[t]) \in Nat
  BY <1>1
<1>3. QED
  BY <1>2, RgpAssumption DEF IsLink

LEMMA LinkCleared ==
  ASSUME NEW link, IsLink(link), NEW t \in Tools
  PROVE  IsLink([link EXCEPT ![t] = <<>>])
BY RgpAssumption DEF IsLink

\* Several payloads at once, as many as there is room for.
LEMMA LinkGrowsBy ==
  ASSUME NEW link, IsLink(link), NEW t \in Tools, NEW more \in Seq(Payloads),
         Len(link[t]) + Len(more) <= Window
  PROVE  IsLink([link EXCEPT ![t] = @ \o more])
<1>1. link[t] \in Seq(Payloads)
  BY DEF IsLink
<1>2. /\ link[t] \o more \in Seq(Payloads)
      /\ Len(link[t] \o more) = Len(link[t]) + Len(more)
  BY <1>1
<1>3. QED
  BY <1>2 DEF IsLink

LEMMA RoomBounds ==
  ASSUME NEW w \in Nat, NEW held \in 0..w, NEW n \in Nat, NEW sent,
         sent = IF w - held < n THEN w - held ELSE n
  PROVE  sent \in 0..n /\ held + sent <= w
OBVIOUS

-----------------------------------------------------------------------------
(* The clients.                                                            *)

\* A step that leaves the server alone.
LEMMA OwnedFrame ==
  ASSUME Owned, UNCHANGED <<serverVars, chunks>>
  PROVE  Owned'
BY DEF Owned, TraceHasOwner, TraceNeedsProfiling, OnlyOwnerHasChunks,
       ChunksCounted, serverVars

\* A step of a client that uses its two links.
LEMMA BecomeRight ==
  ASSUME TypeOK, NEW t \in Tools, NEW c \in ClientTypes, Become(t, c),
         IsLink(toServer'), IsLink(toClient'), calls' \in 0..MaxCalls
  PROVE  TypeOK'
<1>1. client' \in [Tools -> ClientTypes]
  BY DEF TypeOK, Become
<1>2. QED
  BY <1>1 DEF TypeOK, Become, serverVars, IsLink

LEMMA TakeRight ==
  ASSUME TypeOK, NEW t \in Tools, NEW c \in ClientTypes, TakeAndBecome(t, c),
         toClient[t] # <<>>, calls' \in 0..MaxCalls
  PROVE  TypeOK'
<1>1. IsLink(toClient) /\ IsLink(toServer)
  BY DEF TypeOK, IsLink
<1>2. IsLink(toClient')
  BY <1>1, LinkShrinks DEF TakeAndBecome
<1>3. IsLink(toServer')
  BY <1>1 DEF TakeAndBecome, IsLink
<1>4. QED
  BY <1>2, <1>3, BecomeRight DEF TakeAndBecome

LEMMA ConnectClientType ==
  ASSUME TypeOK, NEW t \in Tools, ConnectClient(t), calls' \in 0..MaxCalls
  PROVE  TypeOK'
<1>1. PICK v \in Versions[t] : version' = [version EXCEPT ![t] = v]
  BY DEF ConnectClient
<1>2. v \in 0..8
  BY RgpAssumption
<1>3. version' \in [Tools -> 0..8]
  BY <1>1, <1>2 DEF TypeOK
<1>4. NoSession \in SessionTypes /\ NewSession \in SessionTypes
  <2>1. Request("Unknown") \in Payloads
    BY RequestTypes DEF RGPMessage
  <2>2. NoSession \in SessionTypes
    BY <2>1 DEF NoSession, SessionTypes
  <2>3. QED
    BY <2>2, SessionState DEF NewSession, SessionStates
<1>5. NoClient \in ClientTypes /\ [NoClient EXCEPT !.open = TRUE] \in ClientTypes
  <2>1. 0 \in 0..MaxChunks /\ <<>> \in Seq(0..MaxChunks)
    BY RgpAssumption
  <2>2. QED
    BY <2>1 DEF NoClient, ClientTypes
<1>6. session' \in [Tools -> SessionTypes]
  BY <1>4 DEF TypeOK, ConnectClient
<1>7. client' \in [Tools -> ClientTypes]
  BY <1>5 DEF TypeOK, ConnectClient
<1>8. QED
  BY <1>3, <1>6, <1>7 DEF TypeOK, ConnectClient

LEMMA ConnectClientOwned ==
  ASSUME TypeOK, Owned, NEW t \in Tools, ConnectClient(t)
  PROVE  Owned'
<1>1. /\ NewSession.state = "ReceivePayload" /\ NewSession.chunks = <<>>
      /\ NewSession.abort = FALSE
  BY DEF NewSession, NoSession
<1>2. current # t
  BY DEF Owned, TraceHasOwner, ConnectClient
<1>3. /\ session'[t] = NewSession
      /\ \A u \in Tools : u # t => session'[u] = session[u]
      /\ UNCHANGED <<traceStatus, current, profiling, chunks>>
  BY DEF TypeOK, ConnectClient
<1>4. TraceHasOwner' /\ TraceNeedsProfiling'
  BY <1>1, <1>2, <1>3 DEF Owned, TraceHasOwner, TraceNeedsProfiling
<1>5. OnlyOwnerHasChunks'
  BY <1>1, <1>2, <1>3 DEF Owned, OnlyOwnerHasChunks
<1>6. current \in Tools => current # t
  BY <1>2
<1>7. ChunksCounted'
  BY <1>3, <1>6 DEF Owned, ChunksCounted, TypeOK
<1>8. QED
  BY <1>4, <1>5, <1>7 DEF Owned

LEMMA AskProfilingType ==
  ASSUME TypeOK, NEW t \in Tools, NEW c \in Asks, AskProfiling(t, c),
         calls' \in 0..MaxCalls
  PROVE  TypeOK'
<1>1. client[t] \in ClientTypes /\ IsLink(toServer) /\ IsLink(toClient)
  BY DEF TypeOK, IsLink
<1>2. [client[t] EXCEPT !.call = c] \in ClientTypes
  BY <1>1, ClientFields
<1>3. Request(c) \in Payloads
  BY RequestTypes DEF Asks, RGPMessage
<1>4. IsLink(toServer')
  BY <1>1, <1>3, LinkGrows DEF AskProfiling
<1>5. IsLink(toClient')
  BY <1>1 DEF AskProfiling, IsLink
<1>6. QED
  BY <1>2, <1>4, <1>5, BecomeRight DEF AskProfiling

LEMMA RequestTraceType ==
  ASSUME TypeOK, NEW t \in Tools, RequestTrace(t), calls' \in 0..MaxCalls
  PROVE  TypeOK'
<1> DEFINE new == IF Room(toServer, t) THEN "TraceRequested" ELSE "Error"
           c1 == [client[t] EXCEPT !.state = new]
           c2 == [c1 EXCEPT !.received = <<>>]
           c3 == [c2 EXCEPT !.whole = FALSE]
<1>1. client[t] \in ClientTypes /\ IsLink(toServer) /\ IsLink(toClient)
  BY DEF TypeOK, IsLink
<1>2. c1 \in ClientTypes
  BY <1>1, ClientFields
<1>3. c2 \in ClientTypes
  <2> HIDE DEF c1
  <2>1. <<>> \in Seq(0..MaxChunks)
    OBVIOUS
  <2>2. QED
    BY <1>2, <2>1, ClientFields
<1>4. c3 \in ClientTypes
  <2> HIDE DEF c2
  <2>1. QED
    BY <1>3, ClientFields
<1>5. Become(t, c3)
  BY DEF RequestTrace
<1>6. Request("ExecuteTraceRequest") \in Payloads
  BY RequestTypes DEF RGPMessage
<1>7. IsLink(toServer')
  BY <1>1, <1>6, LinkGrows DEF RequestTrace
<1>8. IsLink(toClient')
  BY <1>1 DEF RequestTrace, IsLink
<1> HIDE DEF c3
<1>9. QED
  BY <1>4, <1>5, <1>7, <1>8, BecomeRight

LEMMA TakePayloadType ==
  ASSUME TypeOK, NEW t \in Tools, TakePayload(t), calls' \in 0..MaxCalls
  PROVE  TypeOK'
<1>1. client[t] \in ClientTypes /\ IsLink(toServer) /\ IsLink(toClient)
  BY DEF TypeOK, IsLink
<1>2. /\ client[t].received \in Seq(0..MaxChunks)
      /\ client[t].whole \in BOOLEAN
  BY <1>1 DEF ClientTypes
<1>3. ASSUME toClient[t] # <<>>
      PROVE  /\ Taken(t) \in Payloads /\ Taken(t).num \in 0..MaxChunks
             /\ Append(client[t].received, Taken(t).num) \in Seq(0..MaxChunks)
  <2>1. Taken(t) \in Payloads
    BY <1>1, <1>3, LinkShrinks DEF Taken
  <2>2. Taken(t).num \in 0..MaxChunks
    BY <2>1 DEF Payloads
  <2>3. QED
    BY <1>2, <2>1, <2>2
<1>4. CASE TakeProfiling(t)
  <2>1. [client[t] EXCEPT !.call = "None"] \in ClientTypes
    BY <1>1, ClientFields
  <2>2. QED
    BY <1>4, <2>1, TakeRight DEF TakeProfiling, Takes
<1>5. CASE TakeHeader(t)
  <2> DEFINE good == [client[t] EXCEPT !.state = "TraceCompleted"]
             bad == [client[t] EXCEPT !.state = "Error"]
  <2>1. toClient[t] # <<>>
    BY <1>5 DEF TakeHeader, Receives
  <2>2. good \in ClientTypes /\ bad \in ClientTypes
    BY <1>1, ClientFields
  <2>3. [good EXCEPT !.numChunks = Taken(t).num] \in ClientTypes
    <3> HIDE DEF good
    <3>1. QED
      BY <1>3, <2>1, <2>2, ClientFields
  <2>4. \/ TakeAndBecome(t, [good EXCEPT !.numChunks = Taken(t).num])
        \/ TakeAndBecome(t, bad)
    BY <1>5 DEF TakeHeader
  <2> HIDE DEF good, bad
  <2>5. QED
    BY <2>1, <2>2, <2>3, <2>4, TakeRight
<1>6. CASE SkipHeader(t)
  <2>1. [client[t] EXCEPT !.state = "TraceCompleted"] \in ClientTypes
    BY <1>1, ClientFields
  <2>2. IsLink(toServer') /\ IsLink(toClient')
    BY <1>1, <1>6 DEF SkipHeader, IsLink
  <2>3. QED
    BY <1>6, <2>1, <2>2, BecomeRight DEF SkipHeader
<1>7. CASE TakeChunk(t)
  <2> DEFINE more == Append(client[t].received, Taken(t).num)
             next == IF Len(more) = client[t].numChunks THEN "Sentinel" ELSE "None"
             good == [client[t] EXCEPT !.received = more]
             last == [good EXCEPT !.call = next]
             bad == [client[t] EXCEPT !.state = "Error"]
  <2>1. toClient[t] # <<>>
    BY <1>7 DEF TakeChunk, Receives
  <2>2. bad \in ClientTypes
    BY <1>1, ClientFields
  <2>3. good \in ClientTypes
    BY <1>1, <1>3, <2>1, ClientFields
  <2>4. last \in ClientTypes
    <3> HIDE DEF good
    <3>1. QED
      BY <2>3, ClientFields
  <2>5. TakeAndBecome(t, last) \/ TakeAndBecome(t, bad)
    BY <1>7 DEF TakeChunk
  <2> HIDE DEF last, bad
  <2>6. QED
    BY <2>1, <2>2, <2>4, <2>5, TakeRight
<1>8. CASE TakeSentinel(t)
  <2> DEFINE ends == Taken(t).command = "TraceDataSentinel"
             c1 == [client[t] EXCEPT !.call = "None"]
             c2 == [c1 EXCEPT !.whole = ends]
             c3 == [c2 EXCEPT !.state = IF ends THEN "Idle" ELSE "Error"]
  <2>1. toClient[t] # <<>>
    BY <1>8 DEF TakeSentinel, Takes
  <2>2. c1 \in ClientTypes
    BY <1>1, ClientFields
  <2>3. ends \in BOOLEAN
    OBVIOUS
  <2>4. c2 \in ClientTypes
    <3> HIDE DEF c1, ends
    <3>1. QED
      BY <2>2, <2>3, ClientFields
  <2>5. c3 \in ClientTypes
    <3> HIDE DEF c2
    <3>1. QED
      BY <2>4, ClientFields
  <2>6. TakeAndBecome(t, c3)
    BY <1>8 DEF TakeSentinel
  <2> HIDE DEF c3
  <2>7. QED
    BY <2>1, <2>5, <2>6, TakeRight
<1>9. CASE TakeChunkOrSentinel(t)
  <2> DEFINE ends == client[t].whole \/ Taken(t).command = "TraceDataSentinel"
             good == [client[t] EXCEPT !.received =
                        Append(client[t].received, Taken(t).num)]
             other == [client[t] EXCEPT !.whole = ends]
  <2>1. toClient[t] # <<>>
    BY <1>9 DEF TakeChunkOrSentinel, Receives
  <2>2. good \in ClientTypes
    BY <1>1, <1>3, <2>1, ClientFields
  <2>3. ends \in BOOLEAN
    BY <1>2
  <2>4. other \in ClientTypes
    <3> HIDE DEF ends
    <3>1. QED
      BY <1>1, <2>3, ClientFields
  <2>5. TakeAndBecome(t, good) \/ TakeAndBecome(t, other)
    BY <1>9 DEF TakeChunkOrSentinel
  <2> HIDE DEF good, other
  <2>6. QED
    BY <2>1, <2>2, <2>4, <2>5, TakeRight
<1>10. CASE TakeUntilSentinel(t)
  <2> DEFINE c1 == [client[t] EXCEPT !.call = "None"]
             c2 == [c1 EXCEPT !.state =
                      IF Taken(t).result = "Aborted" THEN "Idle" ELSE "Error"]
  <2>1. toClient[t] # <<>>
    BY <1>10 DEF TakeUntilSentinel, Takes
  <2>2. c1 \in ClientTypes
    BY <1>1, ClientFields
  <2>3. c2 \in ClientTypes
    <3> HIDE DEF c1
    <3>1. QED
      BY <2>2, ClientFields
  <2>4. TakeAndBecome(t, client[t]) \/ TakeAndBecome(t, c2)
    BY <1>10 DEF TakeUntilSentinel
  <2> HIDE DEF c2
  <2>5. QED
    BY <1>1, <2>1, <2>3, <2>4, TakeRight
<1>11. QED
  BY <1>4, <1>5, <1>6, <1>7, <1>8, <1>9, <1>10, TakePayload(t) DEF TakePayload

LEMMA ClientAbortTraceType ==
  ASSUME TypeOK, NEW t \in Tools, ClientAbortTrace(t), calls' \in 0..MaxCalls
  PROVE  TypeOK'
<1>1. client[t] \in ClientTypes /\ IsLink(toServer) /\ IsLink(toClient)
  BY DEF TypeOK, IsLink
<1>2. /\ [client[t] EXCEPT !.call = "Abort"] \in ClientTypes
      /\ [client[t] EXCEPT !.state = "Error"] \in ClientTypes
  BY <1>1, ClientFields
<1>3. Request("AbortTrace") \in Payloads
  BY RequestTypes DEF RGPMessage
<1>4. IsLink(toServer')
  <2>1. CASE Room(toServer, t)
    BY <1>1, <1>3, <2>1, LinkGrows DEF ClientAbortTrace
  <2>2. CASE ~Room(toServer, t)
    BY <1>1, <2>2 DEF ClientAbortTrace, IsLink
  <2>3. QED
    BY <2>1, <2>2
<1>5. IsLink(toClient')
  BY <1>1 DEF ClientAbortTrace, IsLink
<1>6. QED
  BY <1>2, <1>4, <1>5, BecomeRight DEF ClientAbortTrace

LEMMA TimeOutOrLeaveType ==
  ASSUME TypeOK, NEW t \in Tools, TimeOut(t) \/ Leave(t), calls' \in 0..MaxCalls
  PROVE  TypeOK'
<1> DEFINE state == IF client[t].call \in Asks THEN client[t].state ELSE "Error"
           c1 == [client[t] EXCEPT !.call = "None"]
           c2 == [c1 EXCEPT !.state = state]
<1>1. client[t] \in ClientTypes /\ IsLink(toServer) /\ IsLink(toClient)
  BY DEF TypeOK, IsLink
<1>2. state \in {"Idle", "TraceRequested", "TraceCompleted", "Error"}
  BY <1>1 DEF ClientTypes
<1>3. c1 \in ClientTypes
  BY <1>1, ClientFields
<1>4. c2 \in ClientTypes
  <2> HIDE DEF c1, state
  <2>1. QED
    BY <1>2, <1>3, ClientFields
<1>5. NoClient \in ClientTypes
  <2>1. 0 \in 0..MaxChunks /\ <<>> \in Seq(0..MaxChunks)
    BY RgpAssumption
  <2>2. QED
    BY <2>1 DEF NoClient, ClientTypes
<1>6. IsLink(toServer') /\ IsLink(toClient')
  BY <1>1 DEF TimeOut, Leave, IsLink
<1>7. Become(t, c2) \/ Become(t, NoClient)
  BY DEF TimeOut, Leave
<1> HIDE DEF c2
<1>8. QED
  BY <1>4, <1>5, <1>6, <1>7, BecomeRight

\* No client touches a trace.
LEMMA ClientOwned ==
  ASSUME Owned, NEW t \in Tools,
         \/ ClientStep(t) \/ RequestTrace(t)
         \/ \E c \in Asks : AskProfiling(t, c)
  PROVE  Owned'
<1>1. UNCHANGED <<serverVars, chunks>>
  BY DEF ClientStep, ClientAbortTrace, TimeOut, Leave, TakePayload,
         TakeProfiling, TakeHeader, SkipHeader, TakeChunk, TakeSentinel,
         TakeChunkOrSentinel, TakeUntilSentinel, TakeAndBecome, Become,
         RequestTrace, AskProfiling
<1>2. QED
  BY <1>1, OwnedFrame

-----------------------------------------------------------------------------
(* The message thread.                                                     *)

\* An update outside of a trace: a session that serves no trace, and holds
\* nothing of one.
LEMMA IdleOwned ==
  ASSUME TypeOK, Owned, traceStatus = "Idle", NEW t \in Tools,
         NEW s \in SessionTypes, s.state # "TransferTraceData",
         s.chunks = session[t].chunks, s.abort = session[t].abort,
         session' = [session EXCEPT ![t] = s],
         UNCHANGED <<traceStatus, current, chunks>>
  PROVE  Owned'
<1>1. /\ current = NoTool /\ current' = NoTool
      /\ traceStatus' = "Idle"
      /\ session'[t] = s /\ \A u \in Tools : u # t => session'[u] = session[u]
  BY DEF TypeOK, Owned, TraceHasOwner
<1>2. TraceHasOwner'
  BY <1>1, RgpAssumption DEF Owned, TraceHasOwner
<1>3. OnlyOwnerHasChunks'
  BY <1>1 DEF Owned, OnlyOwnerHasChunks
<1>4. TraceNeedsProfiling' /\ ChunksCounted'
  BY <1>1 DEF TraceNeedsProfiling, ChunksCounted
<1>5. QED
  BY <1>2, <1>3, <1>4 DEF Owned

\* What an answer makes of a session.
LEMMA AnswerSession ==
  ASSUME TypeOK, NEW t \in Tools, NEW p \in Payloads, session' = Answer(t, p)
  PROVE  \E s \in SessionTypes :
           /\ session' = [session EXCEPT ![t] = s]
           /\ s.state = "SendPayload" /\ s.chunks = session[t].chunks
           /\ s.abort = session[t].abort
<1> DEFINE s1 == [session[t] EXCEPT !.payload = p]
           s2 == [s1 EXCEPT !.state = "SendPayload"]
<1>1. session[t] \in SessionTypes
  BY DEF TypeOK
<1>2. /\ s1 \in SessionTypes /\ s1.chunks = session[t].chunks
      /\ s1.abort = session[t].abort
  BY <1>1, SessionPayload
<1>3. /\ s2 \in SessionTypes /\ s2.state = "SendPayload"
      /\ s2.chunks = s1.chunks /\ s2.abort = s1.abort
  <2> HIDE DEF s1
  <2>1. QED
    BY <1>2, SessionState DEF SessionStates
<1>4. session' = [session EXCEPT ![t] = s2]
  BY DEF Answer, TypeOK
<1> HIDE DEF s1, s2
<1>5. QED
  BY <1>2, <1>3, <1>4

LEMMA ReceivePayloadRight ==
  ASSUME TypeOK, Owned, NEW t \in Tools, ReceivePayload(t), UNCHANGED calls
  PROVE  TypeOK' /\ Owned'
<1> DEFINE s1 == [session[t] EXCEPT !.payload = Head(toServer[t])]
           s2 == [s1 EXCEPT !.state = "ProcessPayload"]
<1>1. session[t] \in SessionTypes /\ IsLink(toServer)
  BY DEF TypeOK, IsLink
<1>2. IsLink(toServer') /\ Head(toServer[t]) \in Payloads
  BY <1>1, LinkShrinks DEF ReceivePayload
<1>3. /\ s1 \in SessionTypes /\ s1.chunks = session[t].chunks
      /\ s1.abort = session[t].abort
  BY <1>1, <1>2, SessionPayload
<1>4. /\ s2 \in SessionTypes /\ s2.state = "ProcessPayload"
      /\ s2.chunks = s1.chunks /\ s2.abort = s1.abort
  <2> HIDE DEF s1
  <2>1. QED
    BY <1>3, SessionState DEF SessionStates
<1>5. session' = [session EXCEPT ![t] = s2]
  BY DEF ReceivePayload, TypeOK
<1> HIDE DEF s1, s2
<1>6. Owned'
  BY <1>3, <1>4, <1>5, IdleOwned DEF ReceivePayload, MessageThreadKeeps
<1>7. TypeOK'
  BY <1>2, <1>4, <1>5 DEF TypeOK, IsLink, ReceivePayload, MessageThreadKeeps
<1>8. QED
  BY <1>6, <1>7

\* An answer that changes nothing but the session and perhaps what profiling is.
LEMMA AnswerRight ==
  ASSUME TypeOK, Owned, traceStatus = "Idle", NEW t \in Tools,
         NEW p \in Payloads, session' = Answer(t, p),
         profiling' \in {"NotAvailable", "Available", "Enabled"},
         UNCHANGED <<traceStatus, current, finalized, linkVars, client, written,
                     chunks, calls>>
  PROVE  TypeOK' /\ Owned'
<1>1. PICK s \in SessionTypes :
        /\ session' = [session EXCEPT ![t] = s]
        /\ s.state = "SendPayload" /\ s.chunks = session[t].chunks
        /\ s.abort = session[t].abort
  BY AnswerSession
<1>2. Owned'
  BY <1>1, IdleOwned
<1>3. TypeOK'
  BY <1>1 DEF TypeOK, linkVars
<1>4. QED
  BY <1>2, <1>3

LEMMA QueryRight ==
  ASSUME TypeOK, Owned, NEW t \in Tools, QueryProfilingStatusRequest(t),
         UNCHANGED calls
  PROVE  TypeOK' /\ Owned'
<1>1. Request("QueryProfilingStatusResponse") \in Payloads
  BY RequestTypes DEF RGPMessage, Answers
<1>2. profiling' \in {"NotAvailable", "Available", "Enabled"}
  BY DEF TypeOK, QueryProfilingStatusRequest
<1>3. QED
  BY <1>1, <1>2, AnswerRight
     DEF QueryProfilingStatusRequest, Processes, MessageThreadKeeps, linkVars

LEMMA EnableRight ==
  ASSUME TypeOK, Owned, NEW t \in Tools, EnableProfilingRequest(t),
         UNCHANGED calls
  PROVE  TypeOK' /\ Owned'
<1> DEFINE res == IF ~finalized /\ profiling = "Available" THEN "Success" ELSE "Error"
           p == Payload("EnableProfilingResponse", res, 0)
<1>1. p \in Payloads
  BY PayloadTypes, RgpAssumption DEF RGPMessage, Answers
<1>2. profiling' \in {"NotAvailable", "Available", "Enabled"}
  BY DEF TypeOK, EnableProfilingRequest
<1>3. session' = Answer(t, p)
  BY DEF EnableProfilingRequest
<1> HIDE DEF p
<1>4. QED
  BY <1>1, <1>2, <1>3, AnswerRight
     DEF EnableProfilingRequest, Processes, MessageThreadKeeps, linkVars

LEMMA ExecuteRight ==
  ASSUME TypeOK, Owned, NEW t \in Tools, ExecuteTraceRequest(t), UNCHANGED calls
  PROVE  TypeOK' /\ Owned'
<1>1. CASE profiling = "Enabled"
  <2> DEFINE s1 == [session[t] EXCEPT !.state = "TransferTraceData"]
             s2 == [s1 EXCEPT !.version = version[t]]
  <2>1. session[t] \in SessionTypes /\ version[t] \in 0..8
    BY DEF TypeOK
  <2>2. /\ s1 \in SessionTypes /\ s1.state = "TransferTraceData"
        /\ s1.chunks = session[t].chunks /\ s1.abort = session[t].abort
    BY <2>1, SessionState DEF SessionStates
  <2>3. /\ s2 \in SessionTypes /\ s2.state = s1.state
        /\ s2.chunks = s1.chunks /\ s2.abort = s1.abort
    <3> HIDE DEF s1
    <3>1. QED
      BY <2>1, <2>2, SessionVersion
  <2>4. /\ session' = [session EXCEPT ![t] = s2]
        /\ traceStatus' = "Pending" /\ current' = t
        /\ UNCHANGED <<profiling, finalized, linkVars, client, chunks>>
        /\ written' = [written EXCEPT ![t] = <<>>]
    BY <1>1 DEF ExecuteTraceRequest, TypeOK
  <2> HIDE DEF s1, s2
  <2>5. /\ session'[t] = s2
        /\ \A u \in Tools : u # t => session'[u] = session[u]
    BY <2>4 DEF TypeOK
  <2>6. current = NoTool
    BY DEF ExecuteTraceRequest, Owned, TraceHasOwner
  <2>7. TraceHasOwner' /\ TraceNeedsProfiling'
    BY <1>1, <2>2, <2>3, <2>4, <2>5, <2>6, RgpAssumption
       DEF Owned, TraceHasOwner, TraceNeedsProfiling
  <2>8. OnlyOwnerHasChunks'
    BY <2>4, <2>5, <2>6, RgpAssumption DEF Owned, OnlyOwnerHasChunks
  <2>9. ChunksCounted'
    <3>1. session[t].chunks = <<>>
      BY <2>6, RgpAssumption DEF Owned, OnlyOwnerHasChunks
    <3>2. session'[t].chunks = <<>>
      BY <3>1, <2>2, <2>3, <2>5
    <3>3. chunks' \in Nat
      BY <2>4, RgpAssumption DEF TypeOK
    <3>4. QED
      BY <3>2, <3>3, <2>4 DEF ChunksCounted
  <2>10. written' \in [Tools -> Seq(1..MaxChunks)]
    BY <2>4 DEF TypeOK
  <2>11. TypeOK'
    BY <2>3, <2>4, <2>10 DEF TypeOK, linkVars
  <2>12. QED
    BY <2>7, <2>8, <2>9, <2>11 DEF Owned
<1>2. CASE profiling # "Enabled"
  <2> DEFINE p == Payload(IF session[t].version >= RGP_TRACE_PROGRESS_VERSION
                          THEN "TraceDataHeader" ELSE "TraceDataSentinel",
                          "Error", 0)
  <2>1. p \in Payloads
    BY PayloadTypes, RgpAssumption DEF RGPMessage
  <2>2. /\ session' = Answer(t, p) /\ traceStatus = "Idle"
        /\ UNCHANGED <<traceStatus, current, profiling, finalized, linkVars,
                       client, written, chunks, calls>>
    BY <1>2 DEF ExecuteTraceRequest
  <2>3. profiling' \in {"NotAvailable", "Available", "Enabled"}
    BY <2>2 DEF TypeOK
  <2> HIDE DEF p
  <2>4. QED
    BY <2>1, <2>2, <2>3, AnswerRight
<1>3. QED
  BY <1>1, <1>2

LEMMA SendPayloadRight ==
  ASSUME TypeOK, Owned, NEW t \in Tools, SendPayload(t), UNCHANGED calls
  PROVE  TypeOK' /\ Owned'
<1> DEFINE s1 == [session[t] EXCEPT !.state = "ReceivePayload"]
<1>1. session[t] \in SessionTypes /\ IsLink(toClient)
  BY DEF TypeOK, IsLink
<1>2. session[t].payload \in Payloads
  BY <1>1, SessionFieldTypes
<1>3. IsLink(toClient')
  BY <1>1, <1>2, LinkGrows DEF SendPayload
<1>4. /\ s1 \in SessionTypes /\ s1.state = "ReceivePayload"
      /\ s1.chunks = session[t].chunks /\ s1.abort = session[t].abort
  BY <1>1, SessionState DEF SessionStates
<1>5. session' = [session EXCEPT ![t] = s1]
  BY DEF SendPayload, TypeOK
<1> HIDE DEF s1
<1>6. Owned'
  BY <1>4, <1>5, IdleOwned DEF SendPayload, MessageThreadKeeps
<1>7. TypeOK'
  BY <1>3, <1>4, <1>5 DEF TypeOK, IsLink, SendPayload, MessageThreadKeeps
<1>8. QED
  BY <1>6, <1>7

\* The end of a trace leaves nothing of it.
LEMMA ClearRight ==
  ASSUME TypeOK, Owned, current \in Tools, NEW s \in SessionTypes,
         NEW sessions, sessions = [session EXCEPT ![current] = s],
         ClearCurrentSession(sessions), UNCHANGED chunks
  PROVE  /\ session' \in [Tools -> SessionTypes]
         /\ traceStatus' = "Idle" /\ current' = NoTool
         /\ Owned'
<1> DEFINE s1 == [s EXCEPT !.state = "ReceivePayload"]
           s2 == [s1 EXCEPT !.version = 0]
           s3 == [s2 EXCEPT !.chunks = <<>>]
           s4 == [s3 EXCEPT !.abort = FALSE]
<1>1. s1 \in SessionTypes /\ s1.state = "ReceivePayload"
  BY SessionState DEF SessionStates
<1>2. s2 \in SessionTypes /\ s2.state = s1.state
  <2> HIDE DEF s1
  <2>1. 0 \in 0..8
    OBVIOUS
  <2>2. QED
    BY <1>1, <2>1, SessionVersion
<1>3. s3 \in SessionTypes /\ s3.state = s2.state /\ s3.chunks = <<>>
  <2> HIDE DEF s2
  <2>1. <<>> \in Seq(Payloads)
    OBVIOUS
  <2>2. QED
    BY <1>2, <2>1, SessionChunks
<1>4. /\ s4 \in SessionTypes /\ s4.state = s3.state /\ s4.chunks = s3.chunks
      /\ s4.abort = FALSE
  <2> HIDE DEF s3
  <2>1. QED
    BY <1>3, SessionAbort
<1>5. session \in [Tools -> SessionTypes]
  BY DEF TypeOK
<1>6. /\ sessions[current] = s
      /\ session' = [sessions EXCEPT ![current] = s4]
      /\ traceStatus' = "Idle" /\ current' = NoTool
  BY <1>5 DEF ClearCurrentSession
<1> HIDE DEF s1, s2, s3, s4
<1>7. /\ session' \in [Tools -> SessionTypes] /\ session'[current] = s4
      /\ \A u \in Tools : u # current => session'[u] = session[u]
  BY <1>4, <1>5, <1>6
<1>8. TraceHasOwner'
  BY <1>1, <1>2, <1>3, <1>4, <1>6, <1>7, RgpAssumption DEF Owned, TraceHasOwner
<1>9. OnlyOwnerHasChunks'
  BY <1>3, <1>4, <1>6, <1>7 DEF Owned, OnlyOwnerHasChunks
<1>10. TraceNeedsProfiling' /\ ChunksCounted'
  BY <1>6 DEF TraceNeedsProfiling, ChunksCounted
<1>11. QED
  BY <1>6, <1>7, <1>8, <1>9, <1>10 DEF Owned

\* A trace that goes on, with no more chunks than before.
LEMMA KeepRight ==
  ASSUME TypeOK, Owned, current \in Tools, NEW s \in SessionTypes,
         s.state = session[current].state,
         Len(s.chunks) <= Len(session[current].chunks),
         KeepCurrentSession([session EXCEPT ![current] = s]),
         UNCHANGED <<profiling, chunks>>
  PROVE  /\ session' \in [Tools -> SessionTypes]
         /\ UNCHANGED <<traceStatus, current>>
         /\ Owned'
<1>1. session \in [Tools -> SessionTypes]
  BY DEF TypeOK
<1>2. /\ session' \in [Tools -> SessionTypes] /\ session'[current] = s
      /\ \A u \in Tools : u # current => session'[u] = session[u]
      /\ UNCHANGED <<traceStatus, current>>
  BY <1>1 DEF KeepCurrentSession
<1>3. TraceHasOwner' /\ TraceNeedsProfiling'
  BY <1>2 DEF Owned, TraceHasOwner, TraceNeedsProfiling
<1>4. OnlyOwnerHasChunks'
  BY <1>2 DEF Owned, OnlyOwnerHasChunks
<1>5. ChunksCounted'
  <2>1. s.chunks \in Seq(Payloads) /\ session[current].chunks \in Seq(Payloads)
    BY <1>1, SessionFieldTypes
  <2>2. /\ Len(s.chunks) \in Nat /\ Len(session[current].chunks) \in Nat
        /\ chunks \in Nat
    BY <2>1, RgpAssumption DEF TypeOK
  <2>3. QED
    BY <1>2, <2>2 DEF Owned, ChunksCounted
<1>6. QED
  BY <1>2, <1>3, <1>4, <1>5 DEF Owned

\* What the look for an abort request makes of the current session.
LEMMA PolledRight ==
  ASSUME TypeOK, NEW t \in Tools
  PROVE  /\ Polled(t) \in SessionTypes
         /\ Polled(t).state = session[t].state
         /\ Polled(t).chunks = session[t].chunks
<1> DEFINE p == Head(toServer[t])
           asked == p.command = "AbortTrace"
           s1 == [session[t] EXCEPT !.payload = p]
           s2 == [s1 EXCEPT !.abort = asked]
<1>1. session[t] \in SessionTypes /\ IsLink(toServer)
  BY DEF TypeOK, IsLink
<1>2. CASE MayAbort(t) /\ toServer[t] # <<>>
  <2>1. p \in Payloads
    BY <1>1, <1>2, LinkShrinks
  <2>2. asked \in BOOLEAN
    OBVIOUS
  <2>3. /\ s1 \in SessionTypes /\ s1.state = session[t].state
        /\ s1.chunks = session[t].chunks
    BY <1>1, <2>1, SessionPayload
  <2>4. s2 \in SessionTypes /\ s2.state = s1.state /\ s2.chunks = s1.chunks
    <3> HIDE DEF s1, asked
    <3>1. QED
      BY <2>2, <2>3, SessionAbort
  <2>5. Polled(t) = s2
    BY <1>2 DEF Polled
  <2> HIDE DEF s1, s2
  <2>6. QED
    BY <2>3, <2>4, <2>5
<1>3. CASE ~(MayAbort(t) /\ toServer[t] # <<>>)
  BY <1>1, <1>3 DEF Polled
<1>4. QED
  BY <1>2, <1>3

LEMMA UpdateTraceRight ==
  ASSUME TypeOK, Owned, NEW t \in Tools, UpdateTrace(t), UNCHANGED calls
  PROVE  TypeOK' /\ Owned'
<1> DEFINE s == Polled(t)
           room == Window - Len(toClient[t])
           sent == IF room < Len(s.chunks) THEN room ELSE Len(s.chunks)
           sentinel == Payload("TraceDataSentinel", "Aborted", 0)
           front == SubSeq(s.chunks, 1, sent)
           unsent == SubSeq(s.chunks, sent + 1, Len(s.chunks))
           told == [s EXCEPT !.payload = sentinel]
           rest == [s EXCEPT !.chunks = unsent]
<1>1. /\ s \in SessionTypes /\ s.state = session[t].state
      /\ s.chunks = session[t].chunks
  BY PolledRight
<1>2. /\ IsLink(toServer) /\ IsLink(toClient) /\ toClient[t] \in Seq(Payloads)
      /\ s.chunks \in Seq(Payloads)
  BY <1>1, SessionFieldTypes DEF TypeOK, IsLink
<1>3. IsLink(toServer')
  <2>1. CASE MayAbort(t) /\ toServer[t] # <<>>
    BY <1>2, <2>1, LinkShrinks DEF UpdateTrace
  <2>2. CASE ~(MayAbort(t) /\ toServer[t] # <<>>)
    BY <1>2, <2>2 DEF UpdateTrace, IsLink
  <2>3. QED
    BY <2>1, <2>2
<1>4. /\ current = t
      /\ UNCHANGED <<profiling, finalized, version, misled, client, written,
                     chunks>>
  BY DEF UpdateTrace, MessageThreadKeeps
<1>5. sentinel \in Payloads
  BY PayloadTypes, RgpAssumption DEF RGPMessage
<1>6. /\ told \in SessionTypes /\ told.state = s.state /\ told.chunks = s.chunks
  <2> HIDE DEF s, sentinel
  <2>1. QED
    BY <1>1, <1>5, SessionPayload
<1>7. /\ sent \in 0..Len(s.chunks) /\ Len(toClient[t]) + sent <= Window
      /\ Len(s.chunks) \in Nat
  <2> HIDE DEF s
  <2>1. /\ Len(s.chunks) \in Nat /\ Window \in Nat
        /\ Len(toClient[t]) \in 0..Window
    BY <1>2, RgpAssumption DEF IsLink
  <2>2. sent = IF Window - Len(toClient[t]) < Len(s.chunks)
               THEN Window - Len(toClient[t]) ELSE Len(s.chunks)
    OBVIOUS
  <2> HIDE DEF sent, room
  <2>3. QED
    BY <2>1, <2>2, RoomBounds
<1>8. /\ front \in Seq(Payloads) /\ Len(front) = sent
      /\ unsent \in Seq(Payloads) /\ Len(unsent) = Len(s.chunks) - sent
  <2> HIDE DEF s, sent
  <2>1. QED
    BY <1>2, <1>7
<1>9. /\ rest \in SessionTypes /\ rest.state = s.state /\ rest.chunks = unsent
  <2> HIDE DEF s, unsent
  <2>1. QED
    BY <1>1, <1>8, SessionChunks
<1>10. IsLink([toClient EXCEPT ![t] = @ \o front])
  <2> HIDE DEF front, sent
  <2>1. Len(toClient[t]) + Len(front) <= Window
    BY <1>7, <1>8
  <2>2. QED
    BY <1>2, <1>8, <2>1, LinkGrowsBy
<1>11. current \in Tools
  BY <1>4
<1>12. \/ /\ s.abort
          /\ \/ /\ Room(toClient, t)
                /\ toClient' = [toClient EXCEPT ![t] = Append(@, sentinel)]
                /\ ClearCurrentSession([session EXCEPT ![t] = told])
             \/ /\ KeepCurrentSession([session EXCEPT ![t] = told])
                /\ UNCHANGED toClient
       \/ /\ toClient' = [toClient EXCEPT ![t] = @ \o front]
          /\ \/ ClearCurrentSession([session EXCEPT ![t] = rest])
             \/ KeepCurrentSession([session EXCEPT ![t] = rest])
       \/ /\ KeepCurrentSession([session EXCEPT ![t] = s])
          /\ UNCHANGED toClient
  <2>1. CASE s.abort
    <3>1. CASE Room(toClient, t)
      BY <2>1, <3>1, Zenon DEF UpdateTrace
    <3>2. CASE ~Room(toClient, t)
      BY <2>1, <3>2, Zenon DEF UpdateTrace
    <3>3. QED
      BY <3>1, <3>2
  <2>2. CASE ~s.abort /\ SendsTraceData(t)
    BY <2>2, Zenon DEF UpdateTrace
  <2>3. CASE ~s.abort /\ ~SendsTraceData(t)
    BY <2>3, Zenon DEF UpdateTrace
  <2>4. QED
    BY <2>1, <2>2, <2>3
<1> HIDE DEF s, sentinel, told, rest, front, unsent, sent
<1>13. ASSUME NEW x \in SessionTypes, ClearCurrentSession([session EXCEPT ![t] = x])
       PROVE  /\ session' \in [Tools -> SessionTypes]
              /\ traceStatus' = "Idle" /\ current' = NoTool /\ Owned'
  BY <1>4, <1>11, <1>13, ClearRight
<1>14. ASSUME NEW x \in SessionTypes, KeepCurrentSession([session EXCEPT ![t] = x]),
              x.state = session[t].state, Len(x.chunks) <= Len(session[t].chunks)
       PROVE  /\ session' \in [Tools -> SessionTypes]
              /\ UNCHANGED <<traceStatus, current>> /\ Owned'
  BY <1>4, <1>11, <1>14, KeepRight
<1>15. /\ IsLink(toClient') /\ session' \in [Tools -> SessionTypes] /\ Owned'
       /\ \/ traceStatus' = "Idle" /\ current' = NoTool
          \/ UNCHANGED <<traceStatus, current>>
  <2>1. CASE /\ Room(toClient, t)
             /\ toClient' = [toClient EXCEPT ![t] = Append(@, sentinel)]
             /\ ClearCurrentSession([session EXCEPT ![t] = told])
    <3>1. IsLink(toClient')
      BY <1>2, <1>5, <2>1, LinkGrows
    <3>2. QED
      BY <1>6, <1>13, <2>1, <3>1
  <2>2. CASE /\ KeepCurrentSession([session EXCEPT ![t] = told])
             /\ UNCHANGED toClient
    <3>1. IsLink(toClient')
      BY <1>2, <2>2 DEF IsLink
    <3>2. Len(told.chunks) <= Len(session[t].chunks)
      BY <1>1, <1>6, <1>7
    <3>3. QED
      BY <1>1, <1>6, <1>14, <2>2, <3>1, <3>2
  <2>3. CASE /\ toClient' = [toClient EXCEPT ![t] = @ \o front]
             /\ ClearCurrentSession([session EXCEPT ![t] = rest])
    BY <1>9, <1>10, <1>13, <2>3
  <2>4. CASE /\ toClient' = [toClient EXCEPT ![t] = @ \o front]
             /\ KeepCurrentSession([session EXCEPT ![t] = rest])
    <3>1. Len(rest.chunks) <= Len(session[t].chunks)
      BY <1>1, <1>7, <1>8, <1>9
    <3>2. QED
      BY <1>1, <1>9, <1>10, <1>14, <2>4, <3>1
  <2>5. CASE KeepCurrentSession([session EXCEPT ![t] = s]) /\ UNCHANGED toClient
    <3>1. IsLink(toClient')
      BY <1>2, <2>5 DEF IsLink
    <3>2. Len(s.chunks) <= Len(session[t].chunks)
      BY <1>1, <1>7
    <3>3. QED
      BY <1>1, <1>14, <2>5, <3>1, <3>2
  <2>6. QED
    BY <1>12, <2>1, <2>2, <2>3, <2>4, <2>5
<1>16. TypeOK'
  BY <1>3, <1>4, <1>15 DEF TypeOK, IsLink
<1>17. QED
  BY <1>15, <1>16

\* The payload that is sent belongs to the session of this step, the payload
\* that is filled and the data that is cleared to the current one.
LEMMA UpdateAbortingRight ==
  ASSUME TypeOK, Owned, NEW t \in Tools, UpdateAborting(t), UNCHANGED calls
  PROVE  TypeOK' /\ Owned'
<1> DEFINE p == Payload(IF session[current].version >= RGP_TRACE_PROGRESS_VERSION
                        THEN "TraceDataHeader" ELSE "TraceDataSentinel",
                        "Error", 0)
           told == [session[current] EXCEPT !.payload = p]
           filled == [session EXCEPT ![current] = told]
<1>1. current \in Tools
  BY DEF UpdateAborting, Owned, TraceHasOwner, TypeOK
<1>2. p \in Payloads
  <2>1. 0 \in 0..MaxChunks
    BY RgpAssumption
  <2>2. QED
    BY <2>1, PayloadTypes, Zenon DEF RGPMessage
<1>3. session[current] \in SessionTypes /\ IsLink(toClient)
  BY <1>1 DEF TypeOK, IsLink
<1>4. /\ told \in SessionTypes /\ told.state = session[current].state
      /\ told.chunks = session[current].chunks
  <2> HIDE DEF p
  <2>1. QED
    BY <1>2, <1>3, SessionPayload
<1>5. /\ \/ /\ Room(toClient, t)
            /\ toClient' = [toClient EXCEPT ![t] = Append(@, filled[t].payload)]
            /\ ClearCurrentSession(filled)
         \/ /\ KeepCurrentSession(filled)
            /\ UNCHANGED toClient
      /\ UNCHANGED <<finalized, version, client, written, chunks, profiling,
                     toServer>>
      /\ misled' \subseteq misled \cup {t}
  BY <1>1, Zenon DEF UpdateAborting
<1> HIDE DEF told, p
<1>6. filled \in [Tools -> SessionTypes]
  BY <1>4 DEF TypeOK
<1>7. filled[t].payload \in Payloads
  <2> HIDE DEF filled
  <2>1. filled[t] \in SessionTypes
    BY <1>6
  <2>2. QED
    BY <2>1, SessionFieldTypes
<1>8. filled = [session EXCEPT ![current] = told]
  OBVIOUS
<1> HIDE DEF filled
<1>9. /\ IsLink(toClient') /\ session' \in [Tools -> SessionTypes] /\ Owned'
      /\ \/ traceStatus' = "Idle" /\ current' = NoTool
         \/ UNCHANGED <<traceStatus, current>>
  <2>1. CASE /\ Room(toClient, t)
             /\ toClient' = [toClient EXCEPT ![t] = Append(@, filled[t].payload)]
             /\ ClearCurrentSession(filled)
    <3>1. IsLink(toClient')
      BY <1>3, <1>7, <2>1, LinkGrows
    <3>2. QED
      BY <1>1, <1>4, <1>5, <1>8, <2>1, <3>1, ClearRight
  <2>2. CASE KeepCurrentSession(filled) /\ UNCHANGED toClient
    <3>1. IsLink(toClient')
      BY <1>3, <2>2 DEF IsLink
    <3>2. Len(told.chunks) <= Len(session[current].chunks)
      <4>1. session[current].chunks \in Seq(Payloads)
        BY <1>3, SessionFieldTypes
      <4>2. QED
        BY <1>4, <4>1
    <3>3. KeepCurrentSession([session EXCEPT ![current] = told])
      BY <1>8, <2>2
    <3>4. QED
      BY <1>1, <1>4, <1>5, <3>1, <3>2, <3>3, KeepRight
  <2>3. QED
    BY <1>5, <2>1, <2>2
<1>10. TypeOK'
  BY <1>5, <1>9 DEF TypeOK, IsLink
<1>11. QED
  BY <1>9, <1>10

LEMMA UpdateSessionRight ==
  ASSUME TypeOK, Owned, NEW t \in Tools, UpdateSession(t), UNCHANGED calls
  PROVE  TypeOK' /\ Owned'
<1>1. QED
  BY ReceivePayloadRight, ExecuteRight, QueryRight, EnableRight,
     SendPayloadRight, UpdateTraceRight, UpdateAbortingRight, Zenon
     DEF UpdateSession

\* The end of a session is the end of its trace.
LEMMA SessionTerminatedRight ==
  ASSUME TypeOK, Owned, NEW t \in Tools, SessionTerminated(t), UNCHANGED calls
  PROVE  TypeOK' /\ Owned'
<1>1. IsLink(toServer) /\ IsLink(toClient) /\ session \in [Tools -> SessionTypes]
  BY DEF TypeOK, IsLink
<1>2. IsLink(toServer') /\ IsLink(toClient')
  BY <1>1, LinkCleared DEF SessionTerminated
<1>3. /\ NoSession.state = "None" /\ NoSession.chunks = <<>>
      /\ NoSession.abort = FALSE /\ NoSession \in SessionTypes
  <2>1. Request("Unknown") \in Payloads
    BY RequestTypes DEF RGPMessage
  <2>2. QED
    BY <2>1 DEF NoSession, SessionTypes
<1>4. /\ session' = [session EXCEPT ![t] = NoSession]
      /\ traceStatus' = IF current = t THEN "Idle" ELSE traceStatus
      /\ current' = IF current = t THEN NoTool ELSE current
      /\ version' = [version EXCEPT ![t] = 0]
      /\ misled' = misled \ {t}
      /\ UNCHANGED <<profiling, finalized, client, written, chunks>>
  BY DEF SessionTerminated
<1>5. /\ session' \in [Tools -> SessionTypes] /\ session'[t] = NoSession
      /\ \A u \in Tools : u # t => session'[u] = session[u]
  BY <1>1, <1>3, <1>4
<1>6. TraceHasOwner'
  BY <1>3, <1>4, <1>5, RgpAssumption DEF Owned, TraceHasOwner
<1>7. TraceNeedsProfiling'
  BY <1>4 DEF Owned, TraceNeedsProfiling
<1>8. OnlyOwnerHasChunks'
  BY <1>3, <1>4, <1>5 DEF Owned, OnlyOwnerHasChunks
<1>9. ChunksCounted'
  BY <1>4, <1>5 DEF Owned, ChunksCounted, TypeOK
<1>10. version' \in [Tools -> 0..8]
  BY <1>4 DEF TypeOK
<1>11. TypeOK'
  BY <1>2, <1>4, <1>5, <1>10 DEF TypeOK, IsLink
<1>12. QED
  BY <1>6, <1>7, <1>8, <1>9, <1>11 DEF Owned

-----------------------------------------------------------------------------
(* The driver's thread.                                                    *)

\* Traces are enabled or disabled, or the server finalized, only in ways that
\* do not touch a trace.
LEMMA DriverFlagsRight ==
  ASSUME TypeOK, Owned, EnableTraces \/ DisableTraces \/ Finalize,
         UNCHANGED calls
  PROVE  TypeOK' /\ Owned'
<1>1. /\ UNCHANGED <<traceStatus, current, session, chunks, linkVars, client,
                     written, calls>>
      /\ profiling' \in {"NotAvailable", "Available", "Enabled"}
      /\ finalized' \in BOOLEAN
      /\ traceStatus = "Idle" \/ profiling' = profiling
  BY DEF TypeOK, EnableTraces, DisableTraces, Finalize, SetProfiling, DriverKeeps
<1>2. TypeOK'
  BY <1>1 DEF TypeOK, linkVars
<1>3. Owned'
  BY <1>1 DEF Owned, TraceHasOwner, TraceNeedsProfiling, OnlyOwnerHasChunks,
              ChunksCounted
<1>4. QED
  BY <1>2, <1>3

LEMMA BeginOrAbortRight ==
  ASSUME TypeOK, Owned, BeginTrace \/ AbortTrace, UNCHANGED calls
  PROVE  TypeOK' /\ Owned'
<1>1. /\ UNCHANGED <<current, profiling, finalized, session, chunks, linkVars,
                     client, written, calls>>
      /\ current # NoTool
      /\ traceStatus # "Idle" /\ traceStatus # "Finishing"
      /\ traceStatus' \in {"Running", "Aborting"}
  BY DEF BeginTrace, AbortTrace, DriverKeeps, Owned, TraceHasOwner
<1>2. TypeOK'
  BY <1>1 DEF TypeOK, linkVars
<1>3. Owned'
  BY <1>1 DEF Owned, TraceHasOwner, TraceNeedsProfiling, OnlyOwnerHasChunks,
              ChunksCounted
<1>4. QED
  BY <1>2, <1>3

\* The driver's own writes into the data of the current session.
LEMMA WritesRight ==
  ASSUME TypeOK, Owned, current \in Tools, traceStatus = "Running",
         NEW more \in Seq(Payloads),
         session' = [session EXCEPT ![current].chunks = more],
         UNCHANGED <<current, profiling, finalized, linkVars, client, calls>>,
         traceStatus' \in {"Running", "Finishing"},
         traceStatus' = "Finishing" \/ Len(more) <= chunks',
         written' \in [Tools -> Seq(1..MaxChunks)], chunks' \in 0..MaxChunks
  PROVE  TypeOK' /\ Owned'
<1> DEFINE s == [session[current] EXCEPT !.chunks = more]
<1>1. session[current] \in SessionTypes
  BY DEF TypeOK
<1>2. /\ s \in SessionTypes /\ s.state = session[current].state
      /\ s.chunks = more
  BY <1>1, SessionChunks
<1>3. session' = [session EXCEPT ![current] = s]
  BY DEF TypeOK
<1> HIDE DEF s
<1>4. /\ session' \in [Tools -> SessionTypes] /\ session'[current] = s
      /\ \A u \in Tools : u # current => session'[u] = session[u]
  BY <1>2, <1>3 DEF TypeOK
<1>5. TraceHasOwner'
  BY <1>2, <1>4 DEF Owned, TraceHasOwner
<1>6. TraceNeedsProfiling'
  BY DEF Owned, TraceNeedsProfiling
<1>7. OnlyOwnerHasChunks'
  BY <1>4 DEF Owned, OnlyOwnerHasChunks
<1>8. ChunksCounted'
  BY <1>2, <1>4 DEF ChunksCounted
<1>9. TypeOK'
  BY <1>4 DEF TypeOK, linkVars
<1>10. QED
  BY <1>5, <1>6, <1>7, <1>8, <1>9 DEF Owned

LEMMA WriteTraceDataRight ==
  ASSUME TypeOK, Owned, NEW k \in 1..MaxChunks, WriteTraceData(k),
         UNCHANGED calls
  PROVE  TypeOK' /\ Owned'
<1> DEFINE new == [i \in 1..k |-> chunks + i]
           data == [i \in 1..k |-> Payload("TraceDataChunk", "Success", new[i])]
           old == session[current].chunks
<1>1. current \in Tools /\ traceStatus = "Running"
  BY DEF TypeOK, WriteTraceData
<1>2. /\ k \in Nat /\ k >= 1 /\ chunks \in Nat /\ MaxChunks \in Nat
      /\ chunks + k <= MaxChunks
  BY RgpAssumption DEF WriteTraceData, TypeOK
<1>3. \A i \in 1..k : new[i] \in 1..MaxChunks /\ new[i] \in 0..MaxChunks
  BY <1>2
<1>4. new \in Seq(1..MaxChunks)
  BY <1>2, <1>3
<1>5. data \in Seq(Payloads) /\ Len(data) = k
  <2>1. \A i \in 1..k : Payload("TraceDataChunk", "Success", new[i]) \in Payloads
    <3> HIDE DEF new
    <3>1. QED
      BY <1>3, PayloadTypes DEF RGPMessage
  <2> HIDE DEF new
  <2>2. QED
    BY <1>2, <2>1
<1>6. old \in Seq(Payloads) /\ Len(old) <= chunks
  <2>1. session[current] \in SessionTypes
    BY <1>1 DEF TypeOK
  <2>2. old \in Seq(Payloads)
    BY <2>1, SessionFieldTypes
  <2>3. current # NoTool
    BY DEF WriteTraceData
  <2>4. QED
    BY <1>1, <2>2, <2>3 DEF Owned, ChunksCounted
<1>7. /\ session' = [session EXCEPT ![current].chunks = old \o data]
      /\ written' = [written EXCEPT ![current] = @ \o new]
      /\ chunks' = chunks + k
      /\ UNCHANGED <<current, linkVars, client, traceStatus, profiling, finalized>>
  BY <1>1 DEF WriteTraceData, DriverKeeps, TypeOK
<1> HIDE DEF new, data
<1>8. old \o data \in Seq(Payloads) /\ Len(old \o data) <= chunks'
  <2> HIDE DEF old
  <2>1. Len(old) \in Nat
    BY <1>6
  <2>2. Len(old \o data) = Len(old) + Len(data)
    BY <1>5, <1>6
  <2>3. Len(old \o data) <= chunks'
    BY <1>2, <1>5, <1>6, <1>7, <2>1, <2>2
  <2>4. QED
    BY <1>5, <1>6, <2>3
<1>9. written' \in [Tools -> Seq(1..MaxChunks)]
  <2>1. written \in [Tools -> Seq(1..MaxChunks)]
    BY DEF TypeOK
  <2>2. written[current] \o new \in Seq(1..MaxChunks)
    BY <1>1, <1>4, <2>1
  <2>3. QED
    BY <1>1, <1>7, <2>1, <2>2
<1>10. chunks' \in 0..MaxChunks
  BY <1>2, <1>7
<1> HIDE DEF old
<1>11. QED
  BY <1>1, <1>7, <1>8, <1>9, <1>10, WritesRight

LEMMA EndTraceRight ==
  ASSUME TypeOK, Owned, EndTrace, UNCHANGED calls
  PROVE  TypeOK' /\ Owned'
<1> DEFINE old == session[current].chunks
           header == Payload("TraceDataHeader", "Success", Len(old))
           sentinel == Request("TraceDataSentinel")
           before == IF session[current].version >= RGP_TRACE_PROGRESS_VERSION
                     THEN <<header>> ELSE <<>>
<1>1. current \in Tools /\ current # NoTool /\ traceStatus = "Running"
  BY DEF TypeOK, EndTrace, Owned, TraceHasOwner
<1>2. session[current] \in SessionTypes
  BY <1>1 DEF TypeOK
<1>3. old \in Seq(Payloads) /\ Len(old) \in 0..MaxChunks
  <2>1. old \in Seq(Payloads)
    BY <1>2, SessionFieldTypes
  <2>2. Len(old) <= chunks /\ chunks \in 0..MaxChunks
    BY <1>1 DEF Owned, ChunksCounted, TypeOK
  <2>3. QED
    BY <2>1, <2>2, RgpAssumption
<1>4. header \in Payloads /\ sentinel \in Payloads
  <2> HIDE DEF old
  <2>1. QED
    BY <1>3, PayloadTypes, RequestTypes DEF RGPMessage
<1>5. before \in Seq(Payloads)
  <2> HIDE DEF header
  <2>1. QED
    BY <1>4
<1>6. /\ session' = [session EXCEPT ![current].chunks =
                       before \o old \o <<sentinel>>]
      /\ traceStatus' = "Finishing"
      /\ UNCHANGED <<current, linkVars, client, profiling, finalized, written,
                     chunks>>
  BY <1>1 DEF EndTrace, DriverKeeps, TypeOK
<1> HIDE DEF before, old, sentinel
<1>7. before \o old \o <<sentinel>> \in Seq(Payloads)
  BY <1>3, <1>4, <1>5
<1>8. /\ written' \in [Tools -> Seq(1..MaxChunks)] /\ chunks' \in 0..MaxChunks
  BY <1>6 DEF TypeOK
<1>9. QED
  BY <1>1, <1>6, <1>7, <1>8, WritesRight

LEMMA DriverStepRight ==
  ASSUME TypeOK, Owned, DriverStep, UNCHANGED calls
  PROVE  TypeOK' /\ Owned'
<1>1. CASE EnableTraces \/ DisableTraces \/ Finalize
  BY <1>1, DriverFlagsRight
<1>2. CASE BeginTrace \/ AbortTrace
  BY <1>2, BeginOrAbortRight
<1>3. CASE EndTrace
  BY <1>3, EndTraceRight
<1>4. ASSUME NEW k \in 1..MaxChunks, WriteTraceData(k)
      PROVE  TypeOK' /\ Owned'
  BY <1>4, WriteTraceDataRight
<1>5. QED
  BY <1>1, <1>2, <1>3, <1>4 DEF DriverStep, EndsTrace
-----------------------------------------------------------------------------
LEMMA InitRight == Init => TypeOK /\ Owned
<1> SUFFICES ASSUME Init PROVE TypeOK /\ Owned
  OBVIOUS
<1>1. NoSession \in SessionTypes
  <2>1. Request("Unknown") \in Payloads
    BY RequestTypes DEF RGPMessage
  <2>2. QED
    BY <2>1 DEF NoSession, SessionTypes
<1>2. NoClient \in ClientTypes
  <2>1. 0 \in 0..MaxChunks /\ <<>> \in Seq(0..MaxChunks)
    BY RgpAssumption
  <2>2. QED
    BY <2>1 DEF NoClient, ClientTypes
<1>3. 0 \in 0..MaxChunks /\ 0 \in 0..MaxCalls
  BY RgpAssumption
<1>4. TypeOK
  <2>1. session \in [Tools -> SessionTypes] /\ client \in [Tools -> ClientTypes]
    BY <1>1, <1>2 DEF Init
  <2>2. version \in [Tools -> 0..8] /\ written \in [Tools -> Seq(1..MaxChunks)]
    BY DEF Init
  <2>3. toServer \in [Tools -> Seq(Payloads)] /\ toClient \in [Tools -> Seq(Payloads)]
    BY DEF Init
  <2>4. \A t \in Tools : Len(toServer[t]) <= Window /\ Len(toClient[t]) <= Window
    <3>1. /\ toServer = [t \in Tools |-> <<>>] /\ toClient = [t \in Tools |-> <<>>]
      BY DEF Init
    <3>2. Len(<<>>) = 0 /\ 0 <= Window
      BY RgpAssumption
    <3>3. \A t \in Tools : toServer[t] = <<>> /\ toClient[t] = <<>>
      BY <3>1
    <3>4. QED
      BY <3>2, <3>3, Zenon
  <2>5. /\ traceStatus = "Idle" /\ current = NoTool /\ finalized = FALSE
        /\ profiling = "NotAvailable" /\ chunks = 0 /\ calls = 0
        /\ misled = {}
    BY DEF Init
  <2>6. QED
    BY <1>3, <2>1, <2>2, <2>3, <2>4, <2>5 DEF TypeOK
<1>5. Owned
  BY RgpAssumption DEF Init, Owned, TraceHasOwner, TraceNeedsProfiling,
     OnlyOwnerHasChunks, ChunksCounted, NoSession
<1>6. QED
  BY <1>4, <1>5

LEMMA ClientStepRight ==
  ASSUME TypeOK, Owned, NEW t \in Tools, ClientStep(t), UNCHANGED calls
  PROVE  TypeOK' /\ Owned'
<1>1. calls' \in 0..MaxCalls
  BY DEF TypeOK
<1>2. Owned'
  BY ClientOwned
<1>3. TypeOK'
  BY <1>1, ClientAbortTraceType, TakePayloadType, TimeOutOrLeaveType
     DEF ClientStep
<1>4. QED
  BY <1>2, <1>3

LEMMA BeginCallRight ==
  ASSUME TypeOK, Owned, NEW t \in Tools, BeginCall(t), calls < MaxCalls,
         calls' = calls + 1
  PROVE  TypeOK' /\ Owned'
<1>1. calls' \in 0..MaxCalls
  BY RgpAssumption DEF TypeOK
<1>2. CASE ConnectClient(t)
  BY <1>1, <1>2, ConnectClientType, ConnectClientOwned
<1>3. ASSUME NEW c \in Asks, AskProfiling(t, c)
      PROVE  TypeOK' /\ Owned'
  BY <1>1, <1>3, AskProfilingType, ClientOwned
<1>4. CASE RequestTrace(t)
  BY <1>1, <1>4, RequestTraceType, ClientOwned
<1>5. QED
  BY <1>2, <1>3, <1>4 DEF BeginCall

LEMMA NextRight ==
  ASSUME TypeOK, Owned, [Next]_<<rgpVars, calls>>
  PROVE  TypeOK' /\ Owned'
<1>1. ASSUME NEW t \in Tools, UNCHANGED calls,
             ClientStep(t) \/ UpdateSession(t) \/ SessionTerminated(t)
      PROVE  TypeOK' /\ Owned'
  BY <1>1, ClientStepRight, UpdateSessionRight, SessionTerminatedRight
<1>2. CASE DriverStep /\ UNCHANGED calls
  BY <1>2, DriverStepRight
<1>3. ASSUME NEW t \in Tools, BeginCall(t), calls < MaxCalls, calls' = calls + 1
      PROVE  TypeOK' /\ Owned'
  BY <1>3, BeginCallRight
<1>4. CASE UNCHANGED <<rgpVars, calls>>
  <2>1. TypeOK'
    BY <1>4 DEF TypeOK, rgpVars
  <2>2. Owned'
    BY <1>4, OwnedFrame DEF rgpVars, serverVars
  <2>3. QED
    BY <2>1, <2>2
<1>5. QED
  BY <1>1, <1>2, <1>3, <1>4 DEF Next

-----------------------------------------------------------------------------
(* Where a trace is on its way from the request to the client.  The        *)
(* predicates are about one tool: its client c, its session s, the links   *)
(* up to the server and down to the client, the chunks w written for it,   *)
(* and st, the status of its own trace.                                    *)

AsksOnly(q) == \A i \in 1..Len(q) : q[i].command \in Asks

AnswersOnly(q) == \A i \in 1..Len(q) : q[i].command \in Answers

IsExecute(p) == p.command = "ExecuteTraceRequest"
IsAbort(p) == p.command = "AbortTrace"
IsAborted(p) == p.command = "TraceDataSentinel" /\ p.result = "Aborted"

\* What a request is answered with, and what a trace that comes to nothing is.
Refusal(p) ==
  \/ p.command \in Answers
  \/ p.command \in {"TraceDataHeader", "TraceDataSentinel"} /\ p.result = "Error"

\* The server is not at a request of a trace or an abort.
Calm(s) ==
  /\ s.state = "ProcessPayload" => s.payload.command \in Asks
  /\ s.state = "SendPayload" => s.payload.command \in Answers

NoExecute(s, up) ==
  /\ s.state = "ProcessPayload" => ~IsExecute(s.payload)
  /\ \A i \in 1..Len(up) : ~IsExecute(up[i])

\* After the request of a trace comes at most one abort, while the client
\* waits for its answer.
AfterRequest(c, q, e) ==
  /\ \A i \in 1..Len(q) : i > e => q[i].command \in Asks \/ IsAbort(q[i])
  /\ \A i, j \in 1..Len(q) : IsAbort(q[i]) /\ IsAbort(q[j]) => i = j
  /\ c.call # "Abort" => \A i \in 1..Len(q) : ~IsAbort(q[i])

\* An abort that the server has seen is the last one.
AbortIsLast(c, s, up) == s.abort => c.call = "Abort" /\ AsksOnly(up)

\* All of a trace, from its header to its sentinel.
TraceOf(w) == [i \in 1..(Len(w) + 2) |->
  IF i = 1 THEN Payload("TraceDataHeader", "Success", Len(w))
  ELSE IF i = Len(w) + 2 THEN Payload("TraceDataSentinel", "Success", 0)
  ELSE Payload("TraceDataChunk", "Success", w[i - 1])]

\* The trace from p to q is on its way behind a answers, more come after it.
Carries(down, w, a, p, q) ==
  /\ a + q + 1 - p <= Len(down)
  /\ \A i \in 1..Len(down) :
       IF a < i /\ i <= a + q + 1 - p THEN down[i] = TraceOf(w)[p - 1 + i - a]
       ELSE down[i].command \in Answers

\* What comes next is not behind what the client counts; when it is just
\* that, nothing was lost on the way.
Counts(c, w, p) ==
  c.state = "TraceCompleted" =>
    /\ c.numChunks = Len(w)
    /\ Len(c.received) <= Len(w) /\ Len(c.received) + 2 <= p
    /\ Len(c.received) + 2 = p =>
         \A i \in 1..Len(c.received) : c.received[i] = w[i]
    /\ c.call = "Sentinel" => Len(c.received) = Len(w) /\ p = Len(w) + 2

\* The rest of the trace is still in the session.
Remains(s, w, q) ==
  /\ Len(s.chunks) = Len(w) + 2 - q
  /\ \A i \in 1..Len(s.chunks) : s.chunks[i] = TraceOf(w)[q + i]

TraceAsked(c, s, up, down, st) ==
  /\ st = "Idle" /\ c.state = "TraceRequested" /\ AnswersOnly(down)
  /\ \/ /\ Calm(s)
        /\ \E e \in 1..Len(up) :
             /\ IsExecute(up[e]) /\ AfterRequest(c, up, e)
             /\ \A i \in 1..Len(up) : i < e => up[i].command \in Asks
     \/ /\ s.state = "ProcessPayload" /\ IsExecute(s.payload)
        /\ AfterRequest(c, up, 0)

TraceRuns(c, s, up, down, w, st) ==
  /\ st \in {"Pending", "Running"} /\ c.state = "TraceRequested"
  /\ AnswersOnly(down) /\ AfterRequest(c, up, 0) /\ AbortIsLast(c, s, up)
  /\ s.version >= RGP_TRACE_PROGRESS_VERSION
  /\ Len(s.chunks) = Len(w)
  /\ \A i \in 1..Len(w) : s.chunks[i] = Payload("TraceDataChunk", "Success", w[i])

Coming(c, s, down, w, st) ==
  \E a \in 0..Len(down), p \in 1..(Len(w) + 3), q \in 0..(Len(w) + 2) :
    /\ p <= q + 1 /\ Carries(down, w, a, p, q) /\ Counts(c, w, p)
    /\ IF st = "Finishing"
       THEN q < Len(w) + 2 /\ a + q + 1 - p = Len(down) /\ Remains(s, w, q)
       ELSE q = Len(w) + 2

TraceArrives(c, s, up, down, w, st) ==
  /\ st \in {"Finishing", "Idle"} /\ c.state \in {"TraceRequested", "TraceCompleted"}
  /\ AfterRequest(c, up, 0) /\ AbortIsLast(c, s, up)
  /\ st = "Idle" => Calm(s) /\ c.call # "Abort"
  /\ Coming(c, s, down, w, st)

TraceFailed(c, s, up, down, st) ==
  /\ st \in {"Idle", "Aborting"} /\ c.state = "TraceRequested"
  /\ NoExecute(s, up)
  /\ s.state = "SendPayload" => Refusal(s.payload)
  /\ \A i \in 1..Len(down) : Refusal(down[i])

\* The abort came too late: nothing answers it.
AbortIgnored(c, s, up, down, st) ==
  /\ c.call = "Abort" /\ st = "Idle" /\ NoExecute(s, up)
  /\ s.state = "SendPayload" => ~IsAborted(s.payload)
  /\ \A i \in 1..Len(down) : ~IsAborted(down[i])

AbortAnswered(c, s, up, down, st) ==
  /\ c.call = "Abort" /\ st = "Idle" /\ AsksOnly(up) /\ Calm(s)
  /\ \E k \in 1..Len(down) :
       /\ IsAborted(down[k])
       /\ \A i \in 1..Len(down) :
            /\ i < k => ~IsAborted(down[i])
            /\ i > k => down[i].command \in Answers

\* What the client believes of its trace, and what there is of it.
OnTrack(c, s, up, down, w, st) ==
  \/ c.state = "Error" /\ c.call \in Asks \cup {"None"} /\ ~c.whole
  \/ /\ c.state = "Idle" /\ c.call \in Asks \cup {"None"} /\ st = "Idle"
     /\ Calm(s) /\ AsksOnly(up) /\ AnswersOnly(down)
     /\ c.whole => c.received = w
  \/ /\ c.state = "TraceRequested" /\ c.call # "Sentinel"
     /\ c.received = <<>> /\ ~c.whole
     /\ \/ TraceAsked(c, s, up, down, st)
        \/ TraceRuns(c, s, up, down, w, st)
        \/ TraceArrives(c, s, up, down, w, st)
        \/ TraceFailed(c, s, up, down, st)
        \/ AbortIgnored(c, s, up, down, st)
        \/ AbortAnswered(c, s, up, down, st)
  \/ /\ c.state = "TraceCompleted" /\ ~c.whole
     /\ \/ TraceArrives(c, s, up, down, w, st)
        \/ AbortIgnored(c, s, up, down, st)
        \/ AbortAnswered(c, s, up, down, st)

OwnStatus(t) == IF current = t THEN traceStatus ELSE "Idle"

\* A client has a session, and a session that is gone left nothing.
Attached(t) ==
  /\ client[t].open => session[t].state # "None"
  /\ ~client[t].open => client[t] = NoClient
  /\ session[t].state = "None" => toServer[t] = <<>> /\ toClient[t] = <<>>

Follows(t) ==
  client[t].open /\ version[t] >= RGP_TRACE_PROGRESS_VERSION /\ t \notin misled
  => OnTrack(client[t], session[t], toServer[t], toClient[t], written[t],
             OwnStatus(t))

Followed == \A t \in Tools : Attached(t) /\ Follows(t)

-----------------------------------------------------------------------------
(* Sequences of payloads, as a client or the server sees them.             *)

\* An element more.
LEMMA AppendedAt ==
  ASSUME NEW q \in Seq(Payloads), NEW x \in Payloads
  PROVE  /\ Append(q, x) \in Seq(Payloads)
         /\ Len(Append(q, x)) = Len(q) + 1 /\ Len(q) \in Nat
         /\ \A i \in 1..Len(q) : Append(q, x)[i] = q[i]
         /\ Append(q, x)[Len(q) + 1] = x
OBVIOUS

\* An element less.
LEMMA TailAt ==
  ASSUME NEW q \in Seq(Payloads), q # <<>>
  PROVE  /\ Tail(q) \in Seq(Payloads) /\ Head(q) = q[1] /\ q[1] \in Payloads
         /\ Len(q) \in Nat /\ Len(q) >= 1 /\ Len(Tail(q)) = Len(q) - 1
         /\ \A i \in 1..(Len(q) - 1) : Tail(q)[i] = q[i + 1]
OBVIOUS

\* A tool asks about profiling again.
LEMMA AsksAppend ==
  ASSUME NEW q \in Seq(Payloads), NEW x \in Payloads, x.command \in Asks, AsksOnly(q)
  PROVE  AsksOnly(Append(q, x))
<1> DEFINE r == Append(q, x)
<1>1. /\ Len(r) = Len(q) + 1 /\ Len(q) \in Nat /\ r[Len(q) + 1] = x
      /\ \A i \in 1..Len(q) : r[i] = q[i]
  BY AppendedAt
<1> HIDE DEF r
<1>2. QED
  BY <1>1 DEF AsksOnly

\* An answer behind answers.
LEMMA AnswersAppend ==
  ASSUME NEW q \in Seq(Payloads), NEW x \in Payloads, x.command \in Answers,
         AnswersOnly(q)
  PROVE  AnswersOnly(Append(q, x))
<1> DEFINE r == Append(q, x)
<1>1. /\ Len(r) = Len(q) + 1 /\ Len(q) \in Nat /\ r[Len(q) + 1] = x
      /\ \A i \in 1..Len(q) : r[i] = q[i]
  BY AppendedAt
<1> HIDE DEF r
<1>2. QED
  BY <1>1 DEF AnswersOnly

\* Questions are left when one is taken.
LEMMA AsksTail ==
  ASSUME NEW q \in Seq(Payloads), q # <<>>, AsksOnly(q)
  PROVE  AsksOnly(Tail(q)) /\ Head(q).command \in Asks
<1> DEFINE r == Tail(q)
<1>1. /\ Len(r) = Len(q) - 1 /\ Len(q) \in Nat /\ Len(q) >= 1 /\ Head(q) = q[1]
      /\ \A i \in 1..(Len(q) - 1) : r[i] = q[i + 1]
  BY TailAt
<1> HIDE DEF r
<1>2. QED
  BY <1>1 DEF AsksOnly

\* Answers are left when one is taken.
LEMMA AnswersTail ==
  ASSUME NEW q \in Seq(Payloads), q # <<>>, AnswersOnly(q)
  PROVE  AnswersOnly(Tail(q)) /\ Head(q).command \in Answers
<1> DEFINE r == Tail(q)
<1>1. /\ Len(r) = Len(q) - 1 /\ Len(q) \in Nat /\ Len(q) >= 1 /\ Head(q) = q[1]
      /\ \A i \in 1..(Len(q) - 1) : r[i] = q[i + 1]
  BY TailAt
<1> HIDE DEF r
<1>2. QED
  BY <1>1 DEF AnswersOnly

\* After the request for the trace the client asks something else.
LEMMA AfterAppend ==
  ASSUME NEW c, NEW c2, NEW q \in Seq(Payloads), NEW x \in Payloads, NEW e \in Nat,
         e <= Len(q), AfterRequest(c, q, e), c.call # "Abort",
         \/ x.command \in Asks
         \/ IsAbort(x) /\ c2.call = "Abort"
  PROVE  AfterRequest(c2, Append(q, x), e)
<1> DEFINE r == Append(q, x)
<1>1. /\ Len(r) = Len(q) + 1 /\ Len(q) \in Nat /\ r[Len(q) + 1] = x
      /\ \A i \in 1..Len(q) : r[i] = q[i]
  BY AppendedAt
<1> HIDE DEF r
<1>2. \A i \in 1..Len(r) : i = Len(q) + 1 \/ i \in 1..Len(q)
  BY <1>1
<1>3. \A i \in 1..Len(q) : ~IsAbort(r[i])
  BY <1>1 DEF AfterRequest
<1>4. x.command \in Asks => ~IsAbort(x)
  BY DEF Asks, IsAbort
<1>5. \A i \in 1..Len(r) : i > e => r[i].command \in Asks \/ IsAbort(r[i])
  BY <1>1, <1>2 DEF AfterRequest
<1>6. \A i, j \in 1..Len(r) : IsAbort(r[i]) /\ IsAbort(r[j]) => i = j
  BY <1>2, <1>3
<1>7. c2.call # "Abort" => \A i \in 1..Len(r) : ~IsAbort(r[i])
  BY <1>1, <1>2, <1>3, <1>4
<1>8. AfterRequest(c2, r, e)
  BY <1>5, <1>6, <1>7 DEF AfterRequest
<1>9. QED
  BY <1>8 DEF r

\* What is left of the payloads behind a request when the first is taken.
LEMMA AfterTail ==
  ASSUME NEW c, NEW q \in Seq(Payloads), NEW e \in Nat, AfterRequest(c, q, e), q # <<>>
  PROVE  /\ e >= 1 => AfterRequest(c, Tail(q), e - 1)
         /\ e = 0 =>
              /\ AfterRequest(c, Tail(q), 0)
              /\ Head(q).command \in Asks \/ (IsAbort(Head(q)) /\ c.call = "Abort")
              /\ IsAbort(Head(q)) => AsksOnly(Tail(q))
<1> DEFINE r == Tail(q)
           h == Head(q)
<1>1. /\ Len(r) = Len(q) - 1 /\ Len(q) \in Nat /\ Len(q) >= 1 /\ h = q[1]
      /\ \A i \in 1..(Len(q) - 1) : r[i] = q[i + 1]
  BY TailAt
<1> HIDE DEF r, h
<1>2. \A i \in 1..Len(r) : i + 1 \in 1..Len(q) /\ r[i] = q[i + 1]
  BY <1>1
<1>3. \A i, j \in 1..Len(r) : IsAbort(r[i]) /\ IsAbort(r[j]) => i = j
  <2> SUFFICES ASSUME NEW i \in 1..Len(r), NEW j \in 1..Len(r), IsAbort(r[i]),
                      IsAbort(r[j])
               PROVE  i = j
    OBVIOUS
  <2>1. IsAbort(q[i + 1]) /\ IsAbort(q[j + 1])
    BY <1>2
  <2>2. i + 1 = j + 1
    BY <1>2, <2>1 DEF AfterRequest
  <2>3. QED
    BY <2>2
<1>4. c.call # "Abort" => \A i \in 1..Len(r) : ~IsAbort(r[i])
  BY <1>2 DEF AfterRequest
<1>5. ASSUME e >= 1 PROVE AfterRequest(c, r, e - 1)
  <2>1. \A i \in 1..Len(r) : i > e - 1 => r[i].command \in Asks \/ IsAbort(r[i])
    <3> SUFFICES ASSUME NEW i \in 1..Len(r), i > e - 1
                 PROVE  r[i].command \in Asks \/ IsAbort(r[i])
      OBVIOUS
    <3>1. i + 1 > e /\ i + 1 \in 1..Len(q) /\ r[i] = q[i + 1]
      BY <1>2
    <3>2. QED
      BY <3>1 DEF AfterRequest
  <2>2. QED
    BY <1>3, <1>4, <2>1 DEF AfterRequest
<1>6. ASSUME e = 0
      PROVE  /\ AfterRequest(c, r, 0)
             /\ h.command \in Asks \/ (IsAbort(h) /\ c.call = "Abort")
             /\ IsAbort(h) => AsksOnly(r)
  <2>1. \A i \in 1..Len(q) : q[i].command \in Asks \/ IsAbort(q[i])
    BY <1>6 DEF AfterRequest
  <2>2. \A i \in 1..Len(r) : r[i].command \in Asks \/ IsAbort(r[i])
    BY <1>2, <2>1
  <2>3. AfterRequest(c, r, 0)
    BY <1>3, <1>4, <2>2 DEF AfterRequest
  <2>4. 1 \in 1..Len(q)
    BY <1>1
  <2>5. h.command \in Asks \/ (IsAbort(h) /\ c.call = "Abort")
    BY <1>1, <2>1, <2>4 DEF AfterRequest
  <2>6. ASSUME IsAbort(h), NEW i \in 1..Len(r) PROVE r[i].command \in Asks
    <3>1. ~IsAbort(q[i + 1])
      <4>1. i + 1 \in 1..Len(q) /\ i + 1 # 1
        BY <1>2
      <4>2. QED
        BY <1>1, <2>4, <2>6, <4>1 DEF AfterRequest
    <3>2. QED
      BY <1>2, <2>1, <3>1
  <2>7. QED
    BY <2>3, <2>5, <2>6 DEF AsksOnly
<1>7. QED
  BY <1>5, <1>6 DEF r, h

\* The parts of the record of a client that tell of its trace.
SameTrace(c, d) ==
  /\ d.state = c.state /\ d.numChunks = c.numChunks
  /\ d.received = c.received /\ d.whole = c.whole

\* What is on its way does not depend on the client's other calls.
LEMMA ComingKept ==
  ASSUME NEW c, NEW d, NEW s, NEW s2, NEW down, NEW w, NEW st, SameTrace(c, d),
         d.call # "Sentinel", s2.chunks = s.chunks, Coming(c, s, down, w, st)
  PROVE  Coming(d, s2, down, w, st)
<1>1. PICK a \in 0..Len(down), p \in 1..(Len(w) + 3), q \in 0..(Len(w) + 2) :
        /\ p <= q + 1 /\ Carries(down, w, a, p, q) /\ Counts(c, w, p)
        /\ IF st = "Finishing"
           THEN q < Len(w) + 2 /\ a + q + 1 - p = Len(down) /\ Remains(s, w, q)
           ELSE q = Len(w) + 2
  BY Zenon DEF Coming
<1>2. Counts(d, w, p)
  BY <1>1, Zenon DEF Counts, SameTrace
<1>3. Remains(s, w, q) => Remains(s2, w, q)
  BY DEF Remains
<1>4. IF st = "Finishing"
      THEN q < Len(w) + 2 /\ a + q + 1 - p = Len(down) /\ Remains(s2, w, q)
      ELSE q = Len(w) + 2
  BY <1>1, <1>3
<1>5. QED
  BY <1>1, <1>2, <1>4 DEF Coming

\* What a trace consists of.
LEMMA TraceOfAt ==
  ASSUME NEW w \in Seq(1..MaxChunks)
  PROVE  /\ TraceOf(w)[1] = Payload("TraceDataHeader", "Success", Len(w))
         /\ TraceOf(w)[Len(w) + 2] = Payload("TraceDataSentinel", "Success", 0)
         /\ \A i \in 2..(Len(w) + 1) :
              TraceOf(w)[i] = Payload("TraceDataChunk", "Success", w[i - 1])
         /\ Len(w) \in Nat
<1>1. Len(w) \in Nat
  OBVIOUS
<1>2. 1 \in 1..(Len(w) + 2) /\ Len(w) + 2 \in 1..(Len(w) + 2) /\ Len(w) + 2 # 1
  BY <1>1
<1>3. \A i \in 2..(Len(w) + 1) : i \in 1..(Len(w) + 2) /\ i # 1 /\ i # Len(w) + 2
  BY <1>1
<1>4. QED
  BY <1>1, <1>2, <1>3 DEF TraceOf

\* Everything of a trace has one of three commands, and none is a refusal.
LEMMA FrameKinds ==
  ASSUME NEW w \in Seq(1..MaxChunks), NEW i \in 1..(Len(w) + 2)
  PROVE  LET x == TraceOf(w)[i]
         IN  /\ x.result = "Success" /\ x.command \notin Answers
             /\ x.command = "TraceDataHeader" => i = 1 /\ x.num = Len(w)
             /\ x.command = "TraceDataChunk" =>
                  i \in 2..(Len(w) + 1) /\ x.num = w[i - 1]
             /\ x.command = "TraceDataSentinel" => i = Len(w) + 2
             /\ ~IsAborted(x)
<1> DEFINE x == TraceOf(w)[i]
<1>1. Len(w) \in Nat /\ (i = 1 \/ i = Len(w) + 2 \/ i \in 2..(Len(w) + 1))
  OBVIOUS
<1>2. CASE i = 1
  <2>1. x = Payload("TraceDataHeader", "Success", Len(w))
    BY <1>2, TraceOfAt
  <2>2. x.command = "TraceDataHeader" /\ x.result = "Success" /\ x.num = Len(w)
    BY <2>1 DEF Payload
  <2>3. QED
    BY <1>1, <1>2, <2>2 DEF IsAborted, Answers
<1>3. CASE i = Len(w) + 2
  <2>1. x = Payload("TraceDataSentinel", "Success", 0)
    BY <1>3, TraceOfAt
  <2>2. x.command = "TraceDataSentinel" /\ x.result = "Success" /\ x.num = 0
    BY <2>1 DEF Payload
  <2>3. QED
    BY <1>1, <1>3, <2>2 DEF IsAborted, Answers
<1>4. CASE i \in 2..(Len(w) + 1)
  <2>1. x = Payload("TraceDataChunk", "Success", w[i - 1])
    BY <1>4, TraceOfAt
  <2>2. x.command = "TraceDataChunk" /\ x.result = "Success" /\ x.num = w[i - 1]
    BY <2>1 DEF Payload
  <2>3. QED
    BY <1>1, <1>4, <2>2 DEF IsAborted, Answers
<1>5. QED
  BY <1>1, <1>2, <1>3, <1>4

\* The first of what is on its way is taken.
LEMMA CarriesTail ==
  ASSUME NEW down \in Seq(Payloads), down # <<>>, NEW w, NEW a \in Nat,
         NEW p \in Nat, NEW q \in Nat, p <= q + 1, Carries(down, w, a, p, q)
  PROVE  /\ a >= 1 => Head(down).command \in Answers /\ Carries(Tail(down), w, a - 1, p, q)
         /\ a = 0 /\ p <= q => Head(down) = TraceOf(w)[p] /\ Carries(Tail(down), w, 0, p + 1, q)
         /\ a = 0 /\ ~(p <= q) =>
              Head(down).command \in Answers /\ Carries(Tail(down), w, 0, p, q)
<1> DEFINE r == Tail(down)
           h == Head(down)
<1>1. /\ Len(r) = Len(down) - 1 /\ Len(down) \in Nat /\ Len(down) >= 1
      /\ h = down[1] /\ \A i \in 1..(Len(down) - 1) : r[i] = down[i + 1]
  BY TailAt
<1> HIDE DEF r, h
<1>2. \A i \in 1..Len(r) : i + 1 \in 1..Len(down) /\ r[i] = down[i + 1] /\ i \in Nat
  BY <1>1
<1>3. 1 \in 1..Len(down)
  BY <1>1
<1>4. a + q + 1 - p <= Len(down)
  BY DEF Carries
<1>5. \A i \in 1..Len(down) :
        /\ a < i /\ i <= a + q + 1 - p => down[i] = TraceOf(w)[p - 1 + i - a]
        /\ ~(a < i /\ i <= a + q + 1 - p) => down[i].command \in Answers
  BY DEF Carries
<1>6. ASSUME a >= 1 PROVE h.command \in Answers /\ Carries(r, w, a - 1, p, q)
  <2>1. h.command \in Answers
    BY <1>1, <1>3, <1>5, <1>6
  <2>2. ASSUME NEW i \in 1..Len(r)
        PROVE  IF a - 1 < i /\ i <= a - 1 + q + 1 - p
               THEN r[i] = TraceOf(w)[p - 1 + i - (a - 1)]
               ELSE r[i].command \in Answers
    <3>1. (a - 1 < i /\ i <= a - 1 + q + 1 - p)
          <=> (a < i + 1 /\ i + 1 <= a + q + 1 - p)
      BY <1>2
    <3>2. p - 1 + i - (a - 1) = p - 1 + (i + 1) - a
      BY <1>2
    <3>3. QED
      BY <1>2, <1>5, <3>1, <3>2
  <2>3. a - 1 + q + 1 - p <= Len(r)
    BY <1>1, <1>4
  <2>4. QED
    BY <2>1, <2>2, <2>3 DEF Carries
<1>7. ASSUME a = 0, p <= q
      PROVE  h = TraceOf(w)[p] /\ Carries(r, w, 0, p + 1, q)
  <2>1. h = TraceOf(w)[p]
    <3>1. a < 1 /\ 1 <= a + q + 1 - p /\ p - 1 + 1 - a = p
      BY <1>7
    <3>2. QED
      BY <1>1, <1>3, <1>5, <3>1
  <2>2. ASSUME NEW i \in 1..Len(r)
        PROVE  IF 0 < i /\ i <= 0 + q + 1 - (p + 1)
               THEN r[i] = TraceOf(w)[(p + 1) - 1 + i - 0]
               ELSE r[i].command \in Answers
    <3>1. (0 < i /\ i <= 0 + q + 1 - (p + 1))
          <=> (a < i + 1 /\ i + 1 <= a + q + 1 - p)
      BY <1>2, <1>7
    <3>2. (p + 1) - 1 + i - 0 = p - 1 + (i + 1) - a
      BY <1>2, <1>7
    <3>3. QED
      BY <1>2, <1>5, <3>1, <3>2
  <2>3. 0 + q + 1 - (p + 1) <= Len(r)
    BY <1>1, <1>4, <1>7
  <2>4. QED
    BY <2>1, <2>2, <2>3 DEF Carries
<1>8. ASSUME a = 0, ~(p <= q)
      PROVE  h.command \in Answers /\ Carries(r, w, 0, p, q)
  <2>0. p = q + 1
    BY <1>8
  <2>1. \A i \in 1..Len(down) : down[i].command \in Answers
    BY <1>5, <1>8, <2>0
  <2>2. h.command \in Answers
    BY <1>1, <1>3, <2>1
  <2>3. ASSUME NEW i \in 1..Len(r)
        PROVE  ~(0 < i /\ i <= 0 + q + 1 - p) /\ r[i].command \in Answers
    BY <1>2, <1>8, <2>0, <2>1
  <2>4. 0 + q + 1 - p <= Len(r)
    BY <1>1, <1>8, <2>0
  <2>5. QED
    BY <2>2, <2>3, <2>4 DEF Carries
<1>9. QED
  BY <1>6, <1>7, <1>8 DEF r, h

\* What is taken is part of the trace, and the next of it.
LEMMA CarriedNext ==
  ASSUME NEW down \in Seq(Payloads), down # <<>>, NEW w, NEW a \in Nat,
         NEW p \in Nat, NEW q \in Nat, p <= q + 1, Carries(down, w, a, p, q),
         Head(down).command \notin Answers
  PROVE  a = 0 /\ p <= q /\ Head(down) = TraceOf(w)[p]
         /\ Carries(Tail(down), w, 0, p + 1, q)
<1>1. a = 0 /\ p <= q
  <2>1. a >= 1 => Head(down).command \in Answers
    BY CarriesTail
  <2>2. a = 0 /\ ~(p <= q) => Head(down).command \in Answers
    BY CarriesTail
  <2>3. QED
    BY <2>1, <2>2
<1>2. QED
  BY <1>1, CarriesTail

\* A client that takes what comes for the answer to something else loses it;
\* its count then stays behind for ever.
LEMMA ComingTail ==
  ASSUME NEW c \in ClientTypes, NEW s, NEW down \in Seq(Payloads), down # <<>>,
         NEW w \in Seq(1..MaxChunks), NEW st, c.call # "Sentinel",
         Coming(c, s, down, w, st)
  PROVE  Coming(c, s, Tail(down), w, st)
<1>1. PICK a \in 0..Len(down), p \in 1..(Len(w) + 3), q \in 0..(Len(w) + 2) :
        /\ p <= q + 1 /\ Carries(down, w, a, p, q) /\ Counts(c, w, p)
        /\ IF st = "Finishing"
           THEN q < Len(w) + 2 /\ a + q + 1 - p = Len(down) /\ Remains(s, w, q)
           ELSE q = Len(w) + 2
  BY Zenon DEF Coming
<1> DEFINE r == Tail(down)
<1>2. /\ Len(r) = Len(down) - 1 /\ Len(down) \in Nat /\ Len(down) >= 1
      /\ Len(w) \in Nat /\ a \in Nat /\ p \in Nat /\ q \in Nat
  BY TailAt
<1>9. q <= Len(w) + 2 /\ p <= q + 1
  BY <1>1
<1> HIDE DEF r
<1>3. a + q + 1 - p <= Len(down)
  BY <1>1 DEF Carries
<1>4. Counts(c, w, p + 1)
  <2>1. Len(c.received) \in Nat
    BY DEF ClientTypes
  <2>2. QED
    BY <1>1, <1>2, <2>1 DEF Counts
<1>5. CASE a >= 1
  <2>1. Carries(r, w, a - 1, p, q)
    BY <1>1, <1>2, <1>5, CarriesTail DEF r
  <2>2. a - 1 \in 0..Len(r) /\ (a + q + 1 - p = Len(down) => a - 1 + q + 1 - p = Len(r))
    BY <1>2, <1>5
  <2>3. QED
    BY <1>1, <2>1, <2>2 DEF Coming, r
<1>6. CASE a = 0 /\ p <= q
  <2>1. Carries(r, w, 0, p + 1, q)
    BY <1>1, <1>2, <1>6, CarriesTail DEF r
  <2>2. /\ 0 \in 0..Len(r) /\ p + 1 \in 1..(Len(w) + 3) /\ p + 1 <= q + 1
        /\ (a + q + 1 - p = Len(down) => 0 + q + 1 - (p + 1) = Len(r))
    BY <1>2, <1>6, <1>9
  <2>3. QED
    BY <1>1, <1>4, <2>1, <2>2 DEF Coming, r
<1>7. CASE a = 0 /\ p = q + 1
  <2>0. ~(p <= q)
    BY <1>2, <1>7
  <2>1. Carries(r, w, 0, p, q)
    BY <1>1, <1>2, <1>7, <2>0, CarriesTail DEF r
  <2>2. 0 \in 0..Len(r) /\ a + q + 1 - p # Len(down)
    BY <1>2, <1>7, <1>9
  <2>3. QED
    BY <1>1, <2>1, <2>2 DEF Coming, r
<1>8. QED
  BY <1>1, <1>2, <1>5, <1>6, <1>7

\* No part of a trace answers an abort.
LEMMA ComingUnaborted ==
  ASSUME NEW c, NEW s, NEW down \in Seq(Payloads), NEW w \in Seq(1..MaxChunks),
         NEW st, Coming(c, s, down, w, st), NEW i \in 1..Len(down)
  PROVE  ~IsAborted(down[i])
<1>1. PICK a \in 0..Len(down), p \in 1..(Len(w) + 3), q \in 0..(Len(w) + 2) :
        p <= q + 1 /\ Carries(down, w, a, p, q)
  BY Zenon DEF Coming
<1>2. Len(w) \in Nat /\ a \in Nat /\ p \in Nat /\ q \in Nat /\ i \in Nat
      /\ Len(down) \in Nat
  OBVIOUS
<1>3. CASE a < i /\ i <= a + q + 1 - p
  <2>1. p - 1 + i - a \in 1..(Len(w) + 2)
    BY <1>1, <1>2, <1>3
  <2>2. down[i] = TraceOf(w)[p - 1 + i - a]
    BY <1>1, <1>3 DEF Carries
  <2>3. QED
    BY <2>1, <2>2, FrameKinds
<1>4. CASE ~(a < i /\ i <= a + q + 1 - p)
  <2>1. down[i].command \in Answers
    BY <1>1, <1>4 DEF Carries
  <2>2. QED
    BY <2>1 DEF IsAborted, Answers
<1>5. QED
  BY <1>3, <1>4

-----------------------------------------------------------------------------
(* What a client does to its trace.                                        *)

\* Nothing of a trace, and no answer, asks for one.
LEMMA NoExecuteAppend ==
  ASSUME NEW s, NEW up \in Seq(Payloads), NEW x \in Payloads, NoExecute(s, up),
         ~IsExecute(x)
  PROVE  NoExecute(s, Append(up, x))
<1> DEFINE r == Append(up, x)
<1>1. /\ Len(r) = Len(up) + 1 /\ Len(up) \in Nat /\ r[Len(up) + 1] = x
      /\ \A i \in 1..Len(up) : r[i] = up[i]
  BY AppendedAt
<1> HIDE DEF r
<1>2. \A i \in 1..Len(r) : i = Len(up) + 1 \/ i \in 1..Len(up)
  BY <1>1
<1>3. NoExecute(s, r)
  BY <1>1, <1>2 DEF NoExecute
<1>4. QED
  BY <1>3 DEF r

\* Behind the request that is served there is no other.
LEMMA AfterNoExecute ==
  ASSUME NEW c, NEW s, NEW up \in Seq(Payloads), AfterRequest(c, up, 0),
         s.state = "ProcessPayload" => ~IsExecute(s.payload)
  PROVE  NoExecute(s, up)
<1>1. ASSUME NEW i \in 1..Len(up) PROVE ~IsExecute(up[i])
  <2>1. up[i].command \in Asks \/ IsAbort(up[i])
    BY DEF AfterRequest
  <2>2. QED
    BY <2>1 DEF Asks, IsAbort, IsExecute
<1>2. QED
  BY <1>1 DEF NoExecute

\* A server that is calm is neither at a request nor at an answer to an abort.
LEMMA CalmNoExecute ==
  ASSUME NEW s, Calm(s)
  PROVE  /\ s.state = "ProcessPayload" => ~IsExecute(s.payload)
         /\ s.state = "SendPayload" => ~IsAborted(s.payload)
BY DEF Calm, IsExecute, IsAborted, Asks, Answers

\* The client begins another call, or aborts its trace.
LEMMA CallOnTrack ==
  ASSUME NEW c \in ClientTypes, NEW d \in ClientTypes, NEW s \in SessionTypes,
         NEW up \in Seq(Payloads), NEW down \in Seq(Payloads),
         NEW w \in Seq(1..MaxChunks), NEW st, NEW x \in Payloads,
         OnTrack(c, s, up, down, w, st), SameTrace(c, d), c.call = "None",
         \/ x.command \in Asks /\ d.call \in Asks
         \/ /\ IsAbort(x) /\ d.call = "Abort"
            /\ c.state \in {"TraceRequested", "TraceCompleted"}
  PROVE  OnTrack(d, s, Append(up, x), down, w, st)
<1> DEFINE r == Append(up, x)
<1>1. /\ r \in Seq(Payloads)
      /\ Len(r) = Len(up) + 1 /\ Len(up) \in Nat /\ r[Len(up) + 1] = x
      /\ \A i \in 1..Len(up) : r[i] = up[i]
  BY AppendedAt
<1>2. \A e \in Nat : e <= Len(up) /\ AfterRequest(c, up, e) => AfterRequest(d, r, e)
  BY AfterAppend
<1>3. ~IsExecute(x) /\ d.call # "Sentinel"
  BY DEF IsExecute, Asks, IsAbort
<1>4. NoExecute(s, up) => NoExecute(s, r)
  BY <1>3, NoExecuteAppend
<1>5. AsksOnly(up) /\ x.command \in Asks => AsksOnly(r)
  BY AsksAppend
<1> HIDE DEF r
<1>6. ASSUME AbortIsLast(c, s, up) PROVE AbortIsLast(d, s, r)
  BY <1>6 DEF AbortIsLast
<1>7. ASSUME TraceAsked(c, s, up, down, st) PROVE TraceAsked(d, s, r, down, st)
  <2>1. st = "Idle" /\ d.state = "TraceRequested" /\ AnswersOnly(down)
    BY <1>7 DEF TraceAsked, SameTrace
  <2>2. CASE /\ Calm(s)
             /\ \E e \in 1..Len(up) :
                  /\ IsExecute(up[e]) /\ AfterRequest(c, up, e)
                  /\ \A i \in 1..Len(up) : i < e => up[i].command \in Asks
    <3>1. PICK e \in 1..Len(up) :
                  /\ IsExecute(up[e]) /\ AfterRequest(c, up, e)
                  /\ \A i \in 1..Len(up) : i < e => up[i].command \in Asks
      BY <2>2
    <3>2. e \in 1..Len(r) /\ IsExecute(r[e]) /\ AfterRequest(d, r, e)
      <4>1. e \in Nat /\ e <= Len(up) /\ e \in 1..Len(r) /\ r[e] = up[e]
        BY <1>1
      <4>2. QED
        BY <1>2, <3>1, <4>1
    <3>3. \A i \in 1..Len(r) : i < e => r[i].command \in Asks
      <4>1. \A i \in 1..Len(r) : i < e => i \in 1..Len(up) /\ r[i] = up[i]
        BY <1>1
      <4>2. QED
        BY <3>1, <4>1
    <3>4. QED
      BY <2>1, <2>2, <3>2, <3>3 DEF TraceAsked
  <2>3. CASE /\ s.state = "ProcessPayload" /\ IsExecute(s.payload)
             /\ AfterRequest(c, up, 0)
    BY <1>1, <1>2, <2>1, <2>3 DEF TraceAsked
  <2>4. QED
    BY <1>7, <2>2, <2>3 DEF TraceAsked
<1>8. ASSUME TraceRuns(c, s, up, down, w, st) PROVE TraceRuns(d, s, r, down, w, st)
  <2>1. AfterRequest(d, r, 0) /\ AbortIsLast(d, s, r)
    BY <1>1, <1>2, <1>6, <1>8 DEF TraceRuns
  <2>2. QED
    BY <1>8, <2>1 DEF TraceRuns, SameTrace
<1>9. ASSUME TraceArrives(c, s, up, down, w, st)
      PROVE  \/ TraceArrives(d, s, r, down, w, st)
             \/ AbortIgnored(d, s, r, down, st)
  <2>1. AfterRequest(d, r, 0) /\ AbortIsLast(d, s, r)
    BY <1>1, <1>2, <1>6, <1>9 DEF TraceArrives
  <2>2. Coming(d, s, down, w, st)
    BY <1>3, <1>9, ComingKept DEF TraceArrives
  <2>3. CASE st = "Finishing" \/ d.call # "Abort"
    BY <1>9, <2>1, <2>2, <2>3 DEF TraceArrives, SameTrace
  <2>4. CASE st = "Idle" /\ d.call = "Abort"
    <3>1. Calm(s)
      BY <1>9, <2>4 DEF TraceArrives
    <3>2. NoExecute(s, r)
      BY <1>1, <2>1, <3>1, AfterNoExecute, CalmNoExecute
    <3>3. \A i \in 1..Len(down) : ~IsAborted(down[i])
      BY <1>9, ComingUnaborted DEF TraceArrives
    <3>4. QED
      BY <2>4, <3>1, <3>2, <3>3, CalmNoExecute DEF AbortIgnored
  <2>5. QED
    BY <1>9, <2>3, <2>4 DEF TraceArrives
<1>10. ASSUME TraceFailed(c, s, up, down, st) PROVE TraceFailed(d, s, r, down, st)
  BY <1>4, <1>10 DEF TraceFailed, SameTrace
<1>11. ~AbortIgnored(c, s, up, down, st) /\ ~AbortAnswered(c, s, up, down, st)
  BY DEF AbortIgnored, AbortAnswered
<1>12. CASE c.state = "Error" /\ ~c.whole
  BY <1>12 DEF OnTrack, SameTrace
<1>13. CASE /\ c.state = "Idle" /\ c.call \in Asks \cup {"None"} /\ st = "Idle"
            /\ Calm(s) /\ AsksOnly(up) /\ AnswersOnly(down)
            /\ c.whole => c.received = w
  <2>1. x.command \in Asks /\ d.call \in Asks
    BY <1>13
  <2>2. AsksOnly(r)
    BY <1>5, <1>13, <2>1
  <2>3. d.state = "Idle" /\ (d.whole => d.received = w)
    BY <1>13 DEF SameTrace
  <2>4. OnTrack(d, s, r, down, w, st)
    BY <1>13, <2>1, <2>2, <2>3, Zenon DEF OnTrack
  <2>5. QED
    BY <2>4 DEF r
<1>14. CASE /\ c.state = "TraceRequested" /\ c.call # "Sentinel"
            /\ c.received = <<>> /\ ~c.whole
            /\ \/ TraceAsked(c, s, up, down, st)
               \/ TraceRuns(c, s, up, down, w, st)
               \/ TraceArrives(c, s, up, down, w, st)
               \/ TraceFailed(c, s, up, down, st)
               \/ AbortIgnored(c, s, up, down, st)
               \/ AbortAnswered(c, s, up, down, st)
  <2>1. d.state = "TraceRequested" /\ d.received = <<>> /\ ~d.whole
    BY <1>14 DEF SameTrace
  <2>2. OnTrack(d, s, r, down, w, st)
    BY <1>3, <1>7, <1>8, <1>9, <1>10, <1>11, <1>14, <2>1, Zenon DEF OnTrack
  <2>3. QED
    BY <2>2 DEF r
<1>15. CASE /\ c.state = "TraceCompleted" /\ ~c.whole
            /\ \/ TraceArrives(c, s, up, down, w, st)
               \/ AbortIgnored(c, s, up, down, st)
               \/ AbortAnswered(c, s, up, down, st)
  <2>1. d.state = "TraceCompleted" /\ ~d.whole
    BY <1>15 DEF SameTrace
  <2>2. OnTrack(d, s, r, down, w, st)
    BY <1>9, <1>11, <1>15, <2>1, Zenon DEF OnTrack
  <2>3. QED
    BY <2>2 DEF r
<1>16. QED
  BY <1>12, <1>13, <1>14, <1>15, Zenon DEF OnTrack

\* No part of a trace is left when all of it is.
LEMMA RefusalTail ==
  ASSUME NEW down \in Seq(Payloads), down # <<>>,
         \A i \in 1..Len(down) : Refusal(down[i])
  PROVE  (\A i \in 1..Len(Tail(down)) : Refusal(Tail(down)[i])) /\ Refusal(Head(down))
<1> DEFINE r == Tail(down)
<1>1. /\ Len(r) = Len(down) - 1 /\ Len(down) \in Nat /\ Len(down) >= 1
      /\ Head(down) = down[1] /\ \A i \in 1..(Len(down) - 1) : r[i] = down[i + 1]
  BY TailAt
<1> HIDE DEF r
<1>2. \A i \in 1..Len(r) : i + 1 \in 1..Len(down) /\ r[i] = down[i + 1]
  BY <1>1
<1>3. (\A i \in 1..Len(r) : Refusal(r[i])) /\ Refusal(Head(down))
  BY <1>1, <1>2
<1>4. QED
  BY <1>3 DEF r

\* No answer to an abort comes when there was none.
LEMMA UnabortedTail ==
  ASSUME NEW down \in Seq(Payloads), down # <<>>,
         \A i \in 1..Len(down) : ~IsAborted(down[i])
  PROVE  /\ \A i \in 1..Len(Tail(down)) : ~IsAborted(Tail(down)[i])
         /\ ~IsAborted(Head(down))
<1> DEFINE r == Tail(down)
<1>1. /\ Len(r) = Len(down) - 1 /\ Len(down) \in Nat /\ Len(down) >= 1
      /\ Head(down) = down[1] /\ \A i \in 1..(Len(down) - 1) : r[i] = down[i + 1]
  BY TailAt
<1> HIDE DEF r
<1>2. \A i \in 1..Len(r) : i + 1 \in 1..Len(down) /\ r[i] = down[i + 1]
  BY <1>1
<1>3. (\A i \in 1..Len(r) : ~IsAborted(r[i])) /\ ~IsAborted(Head(down))
  BY <1>1, <1>2
<1>4. QED
  BY <1>3 DEF r

\* A client that waits for the answer to its abort takes something else.
LEMMA AnsweredTail ==
  ASSUME NEW c, NEW s, NEW up, NEW down \in Seq(Payloads), down # <<>>,
         NEW st, AbortAnswered(c, s, up, down, st)
  PROVE  IF IsAborted(Head(down)) THEN AnswersOnly(Tail(down))
         ELSE AbortAnswered(c, s, up, Tail(down), st)
<1> DEFINE r == Tail(down)
           h == Head(down)
<1>1. /\ Len(r) = Len(down) - 1 /\ Len(down) \in Nat /\ Len(down) >= 1
      /\ h = down[1] /\ \A i \in 1..(Len(down) - 1) : r[i] = down[i + 1]
  BY TailAt
<1> HIDE DEF r, h
<1>2. \A i \in 1..Len(r) : i + 1 \in 1..Len(down) /\ r[i] = down[i + 1] /\ i \in Nat
  BY <1>1
<1>3. PICK k \in 1..Len(down) :
       /\ IsAborted(down[k])
       /\ \A i \in 1..Len(down) :
            /\ i < k => ~IsAborted(down[i])
            /\ i > k => down[i].command \in Answers
  BY DEF AbortAnswered
<1>4. CASE k = 1
  <2>1. IsAborted(h)
    BY <1>1, <1>3, <1>4
  <2>2. \A i \in 1..Len(r) : r[i].command \in Answers
    <3>1. \A i \in 1..Len(r) : i + 1 > k
      BY <1>2, <1>4
    <3>2. QED
      BY <1>2, <1>3, <3>1
  <2>3. QED
    BY <2>1, <2>2 DEF AnswersOnly, r, h
<1>5. CASE k > 1
  <2>1. ~IsAborted(h)
    BY <1>1, <1>3, <1>5
  <2>2. k - 1 \in 1..Len(r) /\ r[k - 1] = down[k]
    BY <1>1, <1>5
  <2>3. ASSUME NEW i \in 1..Len(r)
        PROVE  /\ i < k - 1 => ~IsAborted(r[i])
               /\ i > k - 1 => r[i].command \in Answers
    <3>1. (i < k - 1 => i + 1 < k) /\ (i > k - 1 => i + 1 > k)
      BY <1>2
    <3>2. QED
      BY <1>2, <1>3, <3>1
  <2>4. AbortAnswered(c, s, up, r, st)
    BY <1>3, <2>2, <2>3 DEF AbortAnswered
  <2>5. QED
    BY <2>1, <2>4 DEF r, h
<1>6. QED
  BY <1>1, <1>3, <1>4, <1>5

\* A payload of the trace is taken for the answer to something else, or
\* dropped on the way to the answer to an abort.
LEMMA DropOnTrack ==
  ASSUME NEW c \in ClientTypes, NEW d \in ClientTypes, NEW s \in SessionTypes,
         NEW up \in Seq(Payloads), NEW down \in Seq(Payloads), down # <<>>,
         NEW w \in Seq(1..MaxChunks), NEW st,
         OnTrack(c, s, up, down, w, st), SameTrace(c, d),
         \/ c.call \in Asks /\ d.call = "None"
         \/ c.call = "Abort" /\ d.call = "Abort" /\ ~IsAborted(Head(down))
  PROVE  OnTrack(d, s, up, Tail(down), w, st)
<1> DEFINE r == Tail(down)
<1>1. c.call # "Sentinel" /\ d.call # "Sentinel" /\ (c.call = "Abort" <=> d.call = "Abort")
  BY DEF Asks
<1>2. AnswersOnly(down) => AnswersOnly(r)
  BY AnswersTail
<1>3. \A e \in Nat : AfterRequest(c, up, e) => AfterRequest(d, up, e)
  BY <1>1 DEF AfterRequest
<1>4. AbortIsLast(c, s, up) => AbortIsLast(d, s, up)
  BY <1>1 DEF AbortIsLast
<1>5. ASSUME TraceAsked(c, s, up, down, st) PROVE TraceAsked(d, s, up, r, st)
  <2>1. \A e \in 1..Len(up) : e \in Nat
    OBVIOUS
  <2>2. QED
    BY <1>2, <1>3, <1>5, <2>1 DEF TraceAsked, SameTrace
<1>6. ASSUME TraceRuns(c, s, up, down, w, st) PROVE TraceRuns(d, s, up, r, w, st)
  BY <1>2, <1>3, <1>4, <1>6 DEF TraceRuns, SameTrace
<1>7. ASSUME TraceArrives(c, s, up, down, w, st)
      PROVE  TraceArrives(d, s, up, r, w, st)
  <2>1. Coming(c, s, down, w, st)
    BY <1>7 DEF TraceArrives
  <2>2. Coming(c, s, r, w, st)
    BY <1>1, <2>1, ComingTail
  <2>3. Coming(d, s, r, w, st)
    BY <1>1, <2>2, ComingKept
  <2>4. QED
    BY <1>1, <1>3, <1>4, <1>7, <2>3 DEF TraceArrives, SameTrace
<1>8. ASSUME TraceFailed(c, s, up, down, st) PROVE TraceFailed(d, s, up, r, st)
  BY <1>8, RefusalTail DEF TraceFailed, SameTrace
<1>9. ASSUME AbortIgnored(c, s, up, down, st) PROVE AbortIgnored(d, s, up, r, st)
  BY <1>1, <1>9, UnabortedTail DEF AbortIgnored
<1>10. ASSUME AbortAnswered(c, s, up, down, st) PROVE AbortAnswered(d, s, up, r, st)
  <2>1. ~IsAborted(Head(down))
    BY <1>10 DEF AbortAnswered, Asks
  <2>2. AbortAnswered(c, s, up, r, st)
    BY <1>10, <2>1, AnsweredTail
  <2> HIDE DEF r
  <2>3. QED
    BY <1>1, <2>2 DEF AbortAnswered
<1> HIDE DEF r
<1>11. d.call \in {"None", "Abort"} /\ (c.state = "Idle" => d.call = "None")
  BY DEF OnTrack, Asks
<1>12. OnTrack(d, s, up, r, w, st)
  <2>1. d.state = c.state /\ d.received = c.received /\ d.whole = c.whole
    BY DEF SameTrace
  <2>2. QED
    BY <1>1, <1>2, <1>5, <1>6, <1>7, <1>8, <1>9, <1>10, <1>11, <2>1, Zenon DEF OnTrack
<1>13. QED
  BY <1>12 DEF r

\* A client asks for a trace: what it believed of the last one is forgotten.
LEMMA RequestOnTrack ==
  ASSUME NEW c \in ClientTypes, NEW d \in ClientTypes, NEW s \in SessionTypes,
         NEW up \in Seq(Payloads), NEW down, NEW w, NEW st, NEW x \in Payloads,
         OnTrack(c, s, up, down, w, st), c.state = "Idle", IsExecute(x),
         d.state = "TraceRequested", d.call = "None", d.received = <<>>, ~d.whole
  PROVE  OnTrack(d, s, Append(up, x), down, w, st)
<1> DEFINE r == Append(up, x)
<1>1. /\ Len(r) = Len(up) + 1 /\ Len(up) \in Nat /\ r[Len(up) + 1] = x
      /\ \A i \in 1..Len(up) : r[i] = up[i]
  BY AppendedAt
<1> HIDE DEF r
<1>2. st = "Idle" /\ Calm(s) /\ AsksOnly(up) /\ AnswersOnly(down)
  BY Zenon DEF OnTrack
<1> DEFINE e == Len(up) + 1
<1>3. e \in 1..Len(r) /\ IsExecute(r[e])
  BY <1>1
<1>4. \A i \in 1..Len(r) : i = e \/ (i < e /\ i \in 1..Len(up) /\ ~(i > e))
  BY <1>1
<1>5. \A i \in 1..Len(r) : i < e => r[i].command \in Asks
  BY <1>1, <1>2, <1>4 DEF AsksOnly
<1>6. \A i \in 1..Len(r) : ~IsAbort(r[i])
  <2>1. ~IsAbort(r[e])
    BY <1>3 DEF IsExecute, IsAbort
  <2>2. \A i \in 1..Len(r) : i < e => ~IsAbort(r[i])
    BY <1>5 DEF IsAbort, Asks
  <2>3. QED
    BY <1>4, <2>1, <2>2
<1>7. \A i \in 1..Len(r) : ~(i > e)
  BY <1>1
<1> HIDE DEF e
<1>8. AfterRequest(d, r, e)
  BY <1>6, <1>7 DEF AfterRequest
<1>9. TraceAsked(d, s, r, down, st)
  BY <1>2, <1>3, <1>5, <1>8 DEF TraceAsked
<1>10. OnTrack(d, s, r, down, w, st)
  BY <1>9 DEF OnTrack
<1>11. QED
  BY <1>10 DEF r

\* The header is the only answer that lets a client go on.
LEMMA HeaderOnTrack ==
  ASSUME NEW c \in ClientTypes, NEW d \in ClientTypes, NEW s \in SessionTypes,
         NEW up \in Seq(Payloads), NEW down \in Seq(Payloads), down # <<>>,
         NEW w \in Seq(1..MaxChunks), NEW st,
         OnTrack(c, s, up, down, w, st), c.state = "TraceRequested",
         c.call = "None", Head(down).command = "TraceDataHeader",
         Head(down).result = "Success",
         d.state = "TraceCompleted", d.numChunks = Head(down).num,
         d.call = c.call, d.received = c.received, d.whole = c.whole
  PROVE  OnTrack(d, s, up, Tail(down), w, st)
<1> DEFINE r == Tail(down)
           h == Head(down)
<1>1. c.received = <<>> /\ ~c.whole
  BY DEF OnTrack
<1>2. h.command \notin Answers /\ ~Refusal(h)
  BY DEF Answers, Refusal
<1>3. TraceArrives(c, s, up, down, w, st)
  <2>1. ~AnswersOnly(down)
    BY <1>2, AnswersTail
  <2>2. ~TraceFailed(c, s, up, down, st)
    BY <1>2, RefusalTail DEF TraceFailed
  <2>3. QED
    BY <2>1, <2>2 DEF OnTrack, TraceAsked, TraceRuns, AbortIgnored, AbortAnswered
<1>4. PICK a \in 0..Len(down), p \in 1..(Len(w) + 3), q \in 0..(Len(w) + 2) :
        /\ p <= q + 1 /\ Carries(down, w, a, p, q) /\ Counts(c, w, p)
        /\ IF st = "Finishing"
           THEN q < Len(w) + 2 /\ a + q + 1 - p = Len(down) /\ Remains(s, w, q)
           ELSE q = Len(w) + 2
  BY <1>3, Zenon DEF TraceArrives, Coming
<1>5. /\ Len(r) = Len(down) - 1 /\ Len(down) \in Nat /\ Len(down) >= 1
      /\ Len(w) \in Nat /\ a \in Nat /\ p \in Nat /\ q \in Nat
      /\ q <= Len(w) + 2 /\ p <= q + 1
  BY <1>4, TailAt
<1>6. a = 0 /\ p <= q /\ h = TraceOf(w)[p] /\ Carries(r, w, 0, p + 1, q)
  BY <1>2, <1>4, <1>5, CarriedNext
<1>7. h = TraceOf(w)[p] /\ Carries(r, w, 0, p + 1, q)
  BY <1>6
<1> HIDE DEF r, h
<1>8. p = 1 /\ h.num = Len(w)
  <2>1. p \in 1..(Len(w) + 2)
    BY <1>5, <1>6
  <2>2. h.command = "TraceDataHeader"
    BY DEF h
  <2>3. QED
    BY <1>7, <2>1, <2>2, FrameKinds
<1>9. Counts(d, w, p + 1)
  <2>1. d.received = <<>> /\ d.numChunks = Len(w) /\ d.call # "Sentinel"
    BY <1>1, <1>8 DEF h
  <2>2. QED
    BY <1>5, <1>8, <2>1 DEF Counts
<1>10. /\ 0 \in 0..Len(r) /\ p + 1 \in 1..(Len(w) + 3) /\ p + 1 <= q + 1
       /\ (a + q + 1 - p = Len(down) => 0 + q + 1 - (p + 1) = Len(r))
  BY <1>5, <1>6
<1>11. Coming(d, s, r, w, st)
  BY <1>4, <1>7, <1>9, <1>10 DEF Coming
<1>12. AfterRequest(d, up, 0) /\ AbortIsLast(d, s, up)
  BY <1>3 DEF TraceArrives, AfterRequest, AbortIsLast
<1>13. TraceArrives(d, s, up, r, w, st)
  BY <1>3, <1>11, <1>12 DEF TraceArrives
<1>14. OnTrack(d, s, up, r, w, st)
  BY <1>1, <1>13 DEF OnTrack
<1>15. QED
  BY <1>14 DEF r

\* A chunk is the next one, or one was lost and the client will find less
\* chunks than the header said.
LEMMA ChunkOnTrack ==
  ASSUME NEW c \in ClientTypes, NEW d \in ClientTypes, NEW s \in SessionTypes,
         NEW up \in Seq(Payloads), NEW down \in Seq(Payloads), down # <<>>,
         NEW w \in Seq(1..MaxChunks), NEW st,
         OnTrack(c, s, up, down, w, st), c.state = "TraceCompleted",
         c.call = "None", Head(down).command = "TraceDataChunk",
         Len(c.received) < c.numChunks,
         d.received = Append(c.received, Head(down).num),
         d.call = IF Len(d.received) = c.numChunks THEN "Sentinel" ELSE "None",
         d.state = c.state, d.numChunks = c.numChunks, d.whole = c.whole
  PROVE  OnTrack(d, s, up, Tail(down), w, st)
<1> DEFINE r == Tail(down)
           h == Head(down)
<1>1. ~c.whole /\ TraceArrives(c, s, up, down, w, st)
  BY DEF OnTrack, AbortIgnored, AbortAnswered
<1>2. h.command \notin Answers
  BY DEF Answers
<1>4. PICK a \in 0..Len(down), p \in 1..(Len(w) + 3), q \in 0..(Len(w) + 2) :
        /\ p <= q + 1 /\ Carries(down, w, a, p, q) /\ Counts(c, w, p)
        /\ IF st = "Finishing"
           THEN q < Len(w) + 2 /\ a + q + 1 - p = Len(down) /\ Remains(s, w, q)
           ELSE q = Len(w) + 2
  BY <1>1, Zenon DEF TraceArrives, Coming
<1>5. /\ Len(r) = Len(down) - 1 /\ Len(down) \in Nat /\ Len(down) >= 1
      /\ Len(w) \in Nat /\ a \in Nat /\ p \in Nat /\ q \in Nat
      /\ q <= Len(w) + 2 /\ p <= q + 1
  BY <1>4, TailAt
<1>6. a = 0 /\ p <= q /\ h = TraceOf(w)[p] /\ Carries(r, w, 0, p + 1, q)
  BY <1>2, <1>4, <1>5, CarriedNext
<1>7. h = TraceOf(w)[p] /\ Carries(r, w, 0, p + 1, q)
  BY <1>6
<1>8. p \in 2..(Len(w) + 1) /\ h.num = w[p - 1]
  <2>1. p \in 1..(Len(w) + 2)
    BY <1>5, <1>6
  <2>2. h.command = "TraceDataChunk"
    OBVIOUS
  <2> HIDE DEF h
  <2>3. QED
    BY <1>7, <2>1, <2>2, FrameKinds
<1> DEFINE m == Len(c.received)
<1>9. /\ Len(d.received) = m + 1 /\ m \in Nat /\ d.received[m + 1] = h.num
      /\ \A i \in 1..m : d.received[i] = c.received[i]
  <2>1. c.received \in Seq(0..MaxChunks)
    BY DEF ClientTypes
  <2> HIDE DEF h
  <2>2. d.received = Append(c.received, h.num)
    BY DEF h
  <2>3. QED
    BY <2>1, <2>2
<1>10. /\ c.numChunks = Len(w) /\ m <= Len(w) /\ m + 2 <= p
       /\ m + 2 = p => \A i \in 1..m : c.received[i] = w[i]
  BY <1>4 DEF Counts
<1>11. m < c.numChunks
  OBVIOUS
<1> HIDE DEF r, h, m
<1>12. Counts(d, w, p + 1)
  <2>1. /\ d.numChunks = Len(w) /\ Len(d.received) <= Len(w)
        /\ Len(d.received) + 2 <= p + 1
    BY <1>5, <1>9, <1>10, <1>11
  <2>2. ASSUME Len(d.received) + 2 = p + 1, NEW i \in 1..Len(d.received)
        PROVE  d.received[i] = w[i]
    <3>1. m + 2 = p /\ p - 1 = m + 1
      <4>1. Len(d.received) = m + 1 /\ m \in Nat /\ p \in Nat
        BY <1>5, <1>9
      <4>2. m + 1 + 2 = p + 1
        BY <2>2, <4>1
      <4>3. QED
        BY <4>1, <4>2
    <3>2. CASE i = m + 1
      BY <1>8, <1>9, <3>1, <3>2
    <3>3. CASE i # m + 1
      <4>1. i \in 1..m
        BY <1>9, <3>3
      <4>2. QED
        BY <1>9, <1>10, <3>1, <4>1
    <3>4. QED
      BY <3>2, <3>3
  <2>3. d.call = "Sentinel" => Len(d.received) = Len(w) /\ p + 1 = Len(w) + 2
    <3>1. d.call = "Sentinel" => Len(d.received) = Len(w)
      BY <1>10
    <3>2. Len(d.received) = Len(w) => p + 1 = Len(w) + 2
      <4>1. Len(d.received) = m + 1 /\ m \in Nat /\ p \in Nat
        BY <1>5, <1>9
      <4>2. QED
        BY <1>5, <1>8, <1>10, <4>1
    <3>3. QED
      BY <3>1, <3>2
  <2>4. QED
    BY <2>1, <2>2, <2>3 DEF Counts
<1>13. /\ 0 \in 0..Len(r) /\ p + 1 \in 1..(Len(w) + 3) /\ p + 1 <= q + 1
       /\ (a + q + 1 - p = Len(down) => 0 + q + 1 - (p + 1) = Len(r))
  BY <1>5, <1>6
<1>14. Coming(d, s, r, w, st)
  BY <1>4, <1>7, <1>12, <1>13 DEF Coming
<1>15. c.call # "Abort" /\ d.call # "Abort"
  OBVIOUS
<1>16. AfterRequest(d, up, 0) /\ AbortIsLast(d, s, up)
  BY <1>1, <1>15 DEF TraceArrives, AfterRequest, AbortIsLast
<1>17. TraceArrives(d, s, up, r, w, st)
  BY <1>1, <1>14, <1>15, <1>16 DEF TraceArrives
<1>18. OnTrack(d, s, up, r, w, st)
  BY <1>1, <1>17 DEF OnTrack
<1>19. QED
  BY <1>18 DEF r

\* What the client has received is what was written.
LEMMA SameChunks ==
  ASSUME NEW q \in Seq(0..MaxChunks), NEW w \in Seq(1..MaxChunks),
         Len(q) = Len(w), \A i \in 1..Len(q) : q[i] = w[i]
  PROVE  q = w
<1>1. 1..MaxChunks \subseteq 0..MaxChunks
  OBVIOUS
<1>2. w \in Seq(0..MaxChunks)
  BY <1>1, SeqMonotonic
<1>3. QED
  BY <1>2, SeqEqual

\* The sentinel after the last chunk: the trace is whole, and nothing of it
\* is left anywhere.
LEMMA SentinelOnTrack ==
  ASSUME NEW c \in ClientTypes, NEW d \in ClientTypes, NEW s \in SessionTypes,
         NEW up \in Seq(Payloads), NEW down \in Seq(Payloads), down # <<>>,
         NEW w \in Seq(1..MaxChunks), NEW st,
         OnTrack(c, s, up, down, w, st), c.call = "Sentinel",
         Head(down).command = "TraceDataSentinel",
         d.state = "Idle", d.call = "None", d.received = c.received
  PROVE  OnTrack(d, s, up, Tail(down), w, st)
<1> DEFINE r == Tail(down)
           h == Head(down)
<1>1. c.state = "TraceCompleted" /\ TraceArrives(c, s, up, down, w, st)
  BY DEF OnTrack, AbortIgnored, AbortAnswered, Asks
<1>2. h.command \notin Answers
  BY DEF Answers
<1>4. PICK a \in 0..Len(down), p \in 1..(Len(w) + 3), q \in 0..(Len(w) + 2) :
        /\ p <= q + 1 /\ Carries(down, w, a, p, q) /\ Counts(c, w, p)
        /\ IF st = "Finishing"
           THEN q < Len(w) + 2 /\ a + q + 1 - p = Len(down) /\ Remains(s, w, q)
           ELSE q = Len(w) + 2
  BY <1>1, Zenon DEF TraceArrives, Coming
<1>5. /\ Len(r) = Len(down) - 1 /\ Len(down) \in Nat /\ Len(down) >= 1
      /\ Len(w) \in Nat /\ a \in Nat /\ p \in Nat /\ q \in Nat
      /\ q <= Len(w) + 2 /\ p <= q + 1
  BY <1>4, TailAt
<1>6. a = 0 /\ p <= q /\ Carries(r, w, 0, p + 1, q)
  BY <1>2, <1>4, <1>5, CarriedNext
<1> HIDE DEF r, h
<1>7. /\ Len(c.received) = Len(w) /\ p = Len(w) + 2
      /\ \A i \in 1..Len(c.received) : c.received[i] = w[i]
  <2>1. Len(c.received) = Len(w) /\ p = Len(w) + 2
    BY <1>1, <1>4 DEF Counts
  <2>2. Len(c.received) + 2 = p
    BY <2>1
  <2>3. QED
    BY <1>1, <1>4, <2>1, <2>2 DEF Counts
<1>8. c.received = w
  <2>1. c.received \in Seq(0..MaxChunks)
    BY DEF ClientTypes
  <2>2. QED
    BY <1>7, <2>1, SameChunks
<1>9. st = "Idle" /\ Calm(s)
  <2>1. st # "Finishing"
    BY <1>4, <1>5, <1>6, <1>7
  <2>2. QED
    BY <1>1, <2>1 DEF TraceArrives
<1>10. AnswersOnly(r)
  <2>1. ASSUME NEW i \in 1..Len(r) PROVE ~(0 < i /\ i <= 0 + q + 1 - (p + 1))
    BY <1>5, <1>6, <1>7
  <2>2. QED
    BY <1>6, <2>1 DEF AnswersOnly, Carries
<1>11. AsksOnly(up)
  BY <1>1 DEF TraceArrives, AfterRequest, AsksOnly
<1>12. OnTrack(d, s, up, r, w, st)
  BY <1>8, <1>9, <1>10, <1>11 DEF OnTrack
<1>13. QED
  BY <1>12 DEF r

\* The answer to the abort: the client may ask for a trace again, and what
\* it had asked for is nowhere any more.
LEMMA AbortedOnTrack ==
  ASSUME NEW c \in ClientTypes, NEW d \in ClientTypes, NEW s \in SessionTypes,
         NEW up \in Seq(Payloads), NEW down \in Seq(Payloads), down # <<>>,
         NEW w \in Seq(1..MaxChunks), NEW st,
         OnTrack(c, s, up, down, w, st), c.call = "Abort",
         IsAborted(Head(down)),
         d.state = "Idle", d.call = "None", d.whole = c.whole
  PROVE  OnTrack(d, s, up, Tail(down), w, st)
<1> DEFINE h == Head(down)
<1>1. h.command \notin Answers /\ ~Refusal(h)
  BY DEF Answers, Refusal, IsAborted
<1>2. ~c.whole
  BY DEF OnTrack, Asks
<1>3. AbortAnswered(c, s, up, down, st)
  <2>1. ~AnswersOnly(down)
    BY <1>1, AnswersTail
  <2>2. ~TraceFailed(c, s, up, down, st)
    BY <1>1, RefusalTail DEF TraceFailed
  <2>3. ~AbortIgnored(c, s, up, down, st)
    BY UnabortedTail DEF AbortIgnored
  <2>4. ~TraceArrives(c, s, up, down, w, st)
    <3>1. Head(down) = down[1] /\ 1 \in 1..Len(down)
      BY TailAt
    <3>2. QED
      BY <3>1, ComingUnaborted DEF TraceArrives
  <2>5. c.call \notin Asks \cup {"None"}
    BY DEF Asks
  <2>6. QED
    BY <2>1, <2>2, <2>3, <2>4, <2>5, Zenon DEF OnTrack, TraceAsked, TraceRuns
<1>4. AnswersOnly(Tail(down))
  BY <1>3, AnsweredTail
<1>5. st = "Idle" /\ Calm(s) /\ AsksOnly(up)
  BY <1>3 DEF AbortAnswered
<1>6. QED
  BY <1>2, <1>4, <1>5 DEF OnTrack

\* A request about profiling is given up.
LEMMA GiveUpOnTrack ==
  ASSUME NEW c \in ClientTypes, NEW d \in ClientTypes, NEW s \in SessionTypes,
         NEW up \in Seq(Payloads), NEW down \in Seq(Payloads),
         NEW w \in Seq(1..MaxChunks), NEW st,
         OnTrack(c, s, up, down, w, st), SameTrace(c, d),
         c.call \in Asks, d.call = "None"
  PROVE  OnTrack(d, s, up, down, w, st)
<1>1. c.call # "Sentinel" /\ d.call # "Sentinel" /\ c.call # "Abort" /\ d.call # "Abort"
  BY DEF Asks
<1>2. \A e \in Nat : AfterRequest(c, up, e) => AfterRequest(d, up, e)
  BY <1>1 DEF AfterRequest
<1>3. AbortIsLast(c, s, up) => AbortIsLast(d, s, up)
  BY <1>1 DEF AbortIsLast
<1>4. ASSUME TraceAsked(c, s, up, down, st) PROVE TraceAsked(d, s, up, down, st)
  <2>1. \A e \in 1..Len(up) : e \in Nat
    OBVIOUS
  <2>2. QED
    BY <1>2, <1>4, <2>1 DEF TraceAsked, SameTrace
<1>5. ASSUME TraceRuns(c, s, up, down, w, st) PROVE TraceRuns(d, s, up, down, w, st)
  BY <1>2, <1>3, <1>5 DEF TraceRuns, SameTrace
<1>6. ASSUME TraceArrives(c, s, up, down, w, st)
      PROVE  TraceArrives(d, s, up, down, w, st)
  <2>1. Coming(d, s, down, w, st)
    BY <1>1, <1>6, ComingKept DEF TraceArrives
  <2>2. QED
    BY <1>1, <1>2, <1>3, <1>6, <2>1 DEF TraceArrives, SameTrace
<1>7. ASSUME TraceFailed(c, s, up, down, st) PROVE TraceFailed(d, s, up, down, st)
  BY <1>7 DEF TraceFailed, SameTrace
<1>8. ~AbortIgnored(c, s, up, down, st) /\ ~AbortAnswered(c, s, up, down, st)
  BY <1>1 DEF AbortIgnored, AbortAnswered
<1>9. d.state = c.state /\ d.received = c.received /\ d.whole = c.whole
  BY DEF SameTrace
<1>10. QED
  BY <1>1, <1>4, <1>5, <1>6, <1>7, <1>8, <1>9, Zenon DEF OnTrack

-----------------------------------------------------------------------------
(* What the server does to a trace.  Its session s becomes z.              *)

\* What is on its way, and what is still in the session, is all that counts.
LEMMA ComingServed ==
  ASSUME NEW c, NEW s, NEW z, NEW down, NEW w, NEW st, z.chunks = s.chunks,
         Coming(c, s, down, w, st)
  PROVE  Coming(c, z, down, w, st)
<1>1. \A q : Remains(s, w, q) => Remains(z, w, q)
  BY DEF Remains
<1>2. QED
  BY <1>1 DEF Coming

\* The server takes a payload and finds no request of a trace.
LEMMA NoExecuteTail ==
  ASSUME NEW s, NEW z, NEW up \in Seq(Payloads), up # <<>>, NoExecute(s, up),
         z.payload = Head(up)
  PROVE  NoExecute(z, Tail(up))
<1> DEFINE r == Tail(up)
<1>1. /\ Len(r) = Len(up) - 1 /\ Len(up) \in Nat /\ Len(up) >= 1 /\ Head(up) = up[1]
      /\ \A i \in 1..(Len(up) - 1) : r[i] = up[i + 1]
  BY TailAt
<1> HIDE DEF r
<1>2. \A i \in 1..Len(r) : i + 1 \in 1..Len(up) /\ r[i] = up[i + 1]
  BY <1>1
<1>3. 1 \in 1..Len(up)
  BY <1>1
<1>4. ~IsExecute(z.payload)
  BY <1>1, <1>3 DEF NoExecute
<1>5. \A i \in 1..Len(r) : ~IsExecute(r[i])
  BY <1>2 DEF NoExecute
<1>6. NoExecute(z, r)
  BY <1>4, <1>5 DEF NoExecute
<1>7. QED
  BY <1>6 DEF r

\* ReceivePayload: the next request of the tool.
LEMMA ReceiveOnTrack ==
  ASSUME NEW c \in ClientTypes, NEW s \in SessionTypes, NEW z \in SessionTypes,
         NEW up \in Seq(Payloads), up # <<>>, NEW down \in Seq(Payloads),
         NEW w \in Seq(1..MaxChunks),
         OnTrack(c, s, up, down, w, "Idle"), s.state = "ReceivePayload",
         ~s.abort, z.state = "ProcessPayload", z.payload = Head(up),
         z.chunks = s.chunks, z.abort = s.abort
  PROVE  OnTrack(c, z, Tail(up), down, w, "Idle")
<1> DEFINE r == Tail(up)
           h == Head(up)
<1>1. /\ r \in Seq(Payloads)
      /\ Len(r) = Len(up) - 1 /\ Len(up) \in Nat /\ Len(up) >= 1 /\ h = up[1]
      /\ \A i \in 1..(Len(up) - 1) : r[i] = up[i + 1]
  BY TailAt
<1>2. AsksOnly(up) => AsksOnly(r) /\ h.command \in Asks
  BY AsksTail
<1>3. NoExecute(s, up) => NoExecute(z, r)
  BY NoExecuteTail
<1>4. AfterRequest(c, up, 0) =>
        /\ AfterRequest(c, r, 0)
        /\ h.command \in Asks \/ (IsAbort(h) /\ c.call = "Abort")
  BY AfterTail
<1>5. \A e \in Nat : e >= 1 /\ AfterRequest(c, up, e) => AfterRequest(c, r, e - 1)
  BY AfterTail
<1>6. h.command \in Asks => Calm(z)
  BY DEF Calm
<1> HIDE DEF r, h
<1>7. ASSUME TraceAsked(c, s, up, down, "Idle") PROVE TraceAsked(c, z, r, down, "Idle")
  <2>1. PICK e \in 1..Len(up) :
             /\ IsExecute(up[e]) /\ AfterRequest(c, up, e)
             /\ \A i \in 1..Len(up) : i < e => up[i].command \in Asks
    BY <1>7 DEF TraceAsked
  <2>2. e \in Nat /\ e >= 1
    OBVIOUS
  <2>3. AfterRequest(c, r, e - 1)
    BY <1>5, <2>1, <2>2
  <2>4. CASE e = 1
    <3>1. IsExecute(z.payload)
      BY <1>1, <2>1, <2>4 DEF h
    <3>2. AfterRequest(c, r, 0)
      BY <2>3, <2>4
    <3>3. QED
      BY <1>7, <3>1, <3>2 DEF TraceAsked
  <2>5. CASE e > 1
    <3>1. 1 \in 1..Len(up) /\ up[1].command \in Asks
      BY <1>1, <2>1, <2>5
    <3>2. Calm(z)
      BY <1>1, <1>6, <3>1
    <3>3. e - 1 \in 1..Len(r) /\ r[e - 1] = up[e]
      BY <1>1, <2>2, <2>5
    <3>4. ASSUME NEW i \in 1..Len(r), i < e - 1 PROVE r[i].command \in Asks
      <4>1. i + 1 \in 1..Len(up) /\ i + 1 < e /\ r[i] = up[i + 1]
        BY <1>1, <2>2, <3>4
      <4>2. QED
        BY <2>1, <4>1
    <3>5. QED
      BY <1>7, <2>1, <2>3, <3>2, <3>3, <3>4 DEF TraceAsked
  <2>6. QED
    BY <2>2, <2>4, <2>5
<1>8. ~TraceRuns(c, s, up, down, w, "Idle")
  BY DEF TraceRuns
<1>9. ASSUME TraceArrives(c, s, up, down, w, "Idle")
      PROVE  TraceArrives(c, z, r, down, w, "Idle")
  <2>1. c.call # "Abort" /\ AfterRequest(c, up, 0) /\ Coming(c, s, down, w, "Idle")
    BY <1>9 DEF TraceArrives
  <2>2. Calm(z) /\ AfterRequest(c, r, 0)
    BY <1>4, <1>6, <2>1
  <2>3. Coming(c, z, down, w, "Idle")
    BY <2>1, ComingServed
  <2>4. AbortIsLast(c, z, r)
    BY DEF AbortIsLast
  <2>5. QED
    BY <1>9, <2>1, <2>2, <2>3, <2>4 DEF TraceArrives
<1>10. ASSUME TraceFailed(c, s, up, down, "Idle") PROVE TraceFailed(c, z, r, down, "Idle")
  BY <1>3, <1>10 DEF TraceFailed
<1>11. ASSUME AbortIgnored(c, s, up, down, "Idle")
       PROVE  AbortIgnored(c, z, r, down, "Idle")
  BY <1>3, <1>11 DEF AbortIgnored
<1>12. ASSUME AbortAnswered(c, s, up, down, "Idle")
       PROVE  AbortAnswered(c, z, r, down, "Idle")
  BY <1>2, <1>6, <1>12, Zenon DEF AbortAnswered
<1>13. OnTrack(c, z, r, down, w, "Idle")
  BY <1>2, <1>6, <1>7, <1>8, <1>9, <1>10, <1>11, <1>12, Zenon DEF OnTrack
<1>14. QED
  BY <1>13 DEF r

\* The answer to a request about profiling.
LEMMA AnswerOnTrack ==
  ASSUME NEW c \in ClientTypes, NEW s \in SessionTypes, NEW z \in SessionTypes,
         NEW up \in Seq(Payloads), NEW down \in Seq(Payloads),
         NEW w \in Seq(1..MaxChunks),
         OnTrack(c, s, up, down, w, "Idle"), s.state = "ProcessPayload",
         s.payload.command \in Asks,
         z.state = "SendPayload", z.payload.command \in Answers,
         z.chunks = s.chunks, z.abort = s.abort
  PROVE  OnTrack(c, z, up, down, w, "Idle")
<1>1. Calm(z) /\ ~IsExecute(s.payload) /\ ~IsAborted(z.payload)
  BY DEF Calm, IsExecute, IsAborted, Asks, Answers
<1>2. NoExecute(s, up) => NoExecute(z, up)
  BY DEF NoExecute
<1>3. Refusal(z.payload)
  BY DEF Refusal
<1>4. ASSUME TraceAsked(c, s, up, down, "Idle") PROVE TraceAsked(c, z, up, down, "Idle")
  BY <1>1, <1>4 DEF TraceAsked
<1>5. ~TraceRuns(c, s, up, down, w, "Idle")
  BY DEF TraceRuns
<1>6. ASSUME TraceArrives(c, s, up, down, w, "Idle")
      PROVE  TraceArrives(c, z, up, down, w, "Idle")
  <2>1. Coming(c, z, down, w, "Idle")
    BY <1>6, ComingServed DEF TraceArrives
  <2>2. AbortIsLast(c, z, up)
    BY <1>6 DEF TraceArrives, AbortIsLast
  <2>3. QED
    BY <1>1, <1>6, <2>1, <2>2 DEF TraceArrives
<1>7. ASSUME TraceFailed(c, s, up, down, "Idle") PROVE TraceFailed(c, z, up, down, "Idle")
  BY <1>2, <1>3, <1>7 DEF TraceFailed
<1>8. ASSUME AbortIgnored(c, s, up, down, "Idle")
      PROVE  AbortIgnored(c, z, up, down, "Idle")
  BY <1>1, <1>2, <1>8 DEF AbortIgnored
<1>9. ASSUME AbortAnswered(c, s, up, down, "Idle")
      PROVE  AbortAnswered(c, z, up, down, "Idle")
  BY <1>1, <1>9, Zenon DEF AbortAnswered
<1>10. QED
  BY <1>1, <1>4, <1>5, <1>6, <1>7, <1>8, <1>9, Zenon DEF OnTrack

\* ExecuteTraceRequest: the trace of the tool begins, or is refused.
LEMMA GrantedOnTrack ==
  ASSUME NEW c \in ClientTypes, NEW s \in SessionTypes, NEW z \in SessionTypes,
         NEW up \in Seq(Payloads), NEW down \in Seq(Payloads), NEW w,
         OnTrack(c, s, up, down, w, "Idle"), s.state = "ProcessPayload",
         IsExecute(s.payload), z.version >= RGP_TRACE_PROGRESS_VERSION,
         z.chunks = <<>>, ~z.abort
  PROVE  OnTrack(c, z, up, down, <<>>, "Pending")
<1>1. ~Calm(s) /\ ~NoExecute(s, up)
  BY DEF Calm, NoExecute, IsExecute, Asks
<1>2. ASSUME TraceAsked(c, s, up, down, "Idle")
      PROVE  TraceRuns(c, z, up, down, <<>>, "Pending")
  <2>1. AfterRequest(c, up, 0) /\ c.state = "TraceRequested" /\ AnswersOnly(down)
    BY <1>1, <1>2 DEF TraceAsked
  <2>2. AbortIsLast(c, z, up)
    BY DEF AbortIsLast
  <2>3. Len(z.chunks) = Len(<<>>) /\ \A i \in 1..Len(<<>>) : FALSE
    OBVIOUS
  <2>4. QED
    BY <2>1, <2>2, <2>3 DEF TraceRuns
<1>3. ~TraceRuns(c, s, up, down, w, "Idle")
  BY DEF TraceRuns
<1>4. ~TraceArrives(c, s, up, down, w, "Idle") /\ ~TraceFailed(c, s, up, down, "Idle")
      /\ ~AbortIgnored(c, s, up, down, "Idle") /\ ~AbortAnswered(c, s, up, down, "Idle")
  BY <1>1 DEF TraceArrives, TraceFailed, AbortIgnored, AbortAnswered
<1>5. QED
  BY <1>1, <1>2, <1>3, <1>4, Zenon DEF OnTrack

\* A request of a trace is refused: the client will know that it failed.
LEMMA RefusedOnTrack ==
  ASSUME NEW c \in ClientTypes, NEW s \in SessionTypes, NEW z \in SessionTypes,
         NEW up \in Seq(Payloads), NEW down \in Seq(Payloads), NEW w,
         OnTrack(c, s, up, down, w, "Idle"), s.state = "ProcessPayload",
         IsExecute(s.payload), z.state = "SendPayload", Refusal(z.payload)
  PROVE  OnTrack(c, z, up, down, w, "Idle")
<1>1. ~Calm(s) /\ ~NoExecute(s, up)
  BY DEF Calm, NoExecute, IsExecute, Asks
<1>2. ASSUME TraceAsked(c, s, up, down, "Idle")
      PROVE  TraceFailed(c, z, up, down, "Idle")
  <2>1. AfterRequest(c, up, 0) /\ c.state = "TraceRequested" /\ AnswersOnly(down)
    BY <1>1, <1>2 DEF TraceAsked
  <2>2. NoExecute(z, up)
    BY <2>1, AfterNoExecute
  <2>3. QED
    BY <2>1, <2>2 DEF TraceFailed, AnswersOnly, Refusal
<1>3. ~TraceRuns(c, s, up, down, w, "Idle")
  BY DEF TraceRuns
<1>4. ~TraceArrives(c, s, up, down, w, "Idle") /\ ~TraceFailed(c, s, up, down, "Idle")
      /\ ~AbortIgnored(c, s, up, down, "Idle") /\ ~AbortAnswered(c, s, up, down, "Idle")
  BY <1>1 DEF TraceArrives, TraceFailed, AbortIgnored, AbortAnswered
<1>5. QED
  BY <1>1, <1>2, <1>3, <1>4, Zenon DEF OnTrack

\* An answer behind what is on its way.
LEMMA ComingAppend ==
  ASSUME NEW c, NEW s, NEW z, NEW down \in Seq(Payloads), NEW x \in Payloads,
         NEW w \in Seq(1..MaxChunks), x.command \in Answers,
         Coming(c, s, down, w, "Idle")
  PROVE  Coming(c, z, Append(down, x), w, "Idle")
<1> DEFINE r == Append(down, x)
<1>1. /\ Len(r) = Len(down) + 1 /\ Len(down) \in Nat /\ r[Len(down) + 1] = x
      /\ \A i \in 1..Len(down) : r[i] = down[i]
  BY AppendedAt
<1> HIDE DEF r
<1>2. PICK a \in 0..Len(down), p \in 1..(Len(w) + 3), q \in 0..(Len(w) + 2) :
        p <= q + 1 /\ Carries(down, w, a, p, q) /\ Counts(c, w, p) /\ q = Len(w) + 2
  BY Zenon DEF Coming
<1>3. a + q + 1 - p <= Len(down) /\ a \in Nat /\ p \in Nat /\ q \in Nat
  BY <1>2 DEF Carries
<1>4. ASSUME NEW i \in 1..Len(r)
      PROVE  IF a < i /\ i <= a + q + 1 - p THEN r[i] = TraceOf(w)[p - 1 + i - a]
             ELSE r[i].command \in Answers
  <2>1. CASE i = Len(down) + 1
    <3>1. ~(i <= a + q + 1 - p)
      BY <1>1, <1>3, <2>1
    <3>2. QED
      BY <1>1, <2>1, <3>1
  <2>2. CASE i \in 1..Len(down)
    BY <1>1, <1>2, <2>2 DEF Carries
  <2>3. QED
    BY <1>1, <2>1, <2>2
<1>5. Carries(r, w, a, p, q)
  BY <1>1, <1>3, <1>4 DEF Carries
<1>6. a \in 0..Len(r)
  BY <1>1
<1>7. Coming(c, z, r, w, "Idle")
  BY <1>2, <1>5, <1>6 DEF Coming
<1>8. QED
  BY <1>7 DEF r

\* A refusal, and an answer, do not tell of an abort.
LEMMA RefusalAppend ==
  ASSUME NEW down \in Seq(Payloads), NEW x \in Payloads
  PROVE  /\ (\A i \in 1..Len(down) : Refusal(down[i])) /\ Refusal(x) =>
              \A i \in 1..Len(Append(down, x)) : Refusal(Append(down, x)[i])
         /\ (\A i \in 1..Len(down) : ~IsAborted(down[i])) /\ ~IsAborted(x) =>
              \A i \in 1..Len(Append(down, x)) : ~IsAborted(Append(down, x)[i])
<1> DEFINE r == Append(down, x)
<1>1. /\ Len(r) = Len(down) + 1 /\ Len(down) \in Nat /\ r[Len(down) + 1] = x
      /\ \A i \in 1..Len(down) : r[i] = down[i]
  BY AppendedAt
<1> HIDE DEF r
<1>2. \A i \in 1..Len(r) : i = Len(down) + 1 \/ i \in 1..Len(down)
  BY <1>1
<1>3. QED
  BY <1>1, <1>2 DEF r

\* SendPayload: the answer goes to the client.
LEMMA SendOnTrack ==
  ASSUME NEW c \in ClientTypes, NEW s \in SessionTypes, NEW z \in SessionTypes,
         NEW up \in Seq(Payloads), NEW down \in Seq(Payloads),
         NEW w \in Seq(1..MaxChunks),
         OnTrack(c, s, up, down, w, "Idle"), s.state = "SendPayload",
         z.state = "ReceivePayload", z.chunks = s.chunks, z.abort = s.abort
  PROVE  OnTrack(c, z, up, Append(down, s.payload), w, "Idle")
<1> DEFINE x == s.payload
           r == Append(down, x)
<1>1. x \in Payloads
  BY DEF SessionTypes
<1>2. /\ Len(r) = Len(down) + 1 /\ Len(down) \in Nat /\ r[Len(down) + 1] = x
      /\ \A i \in 1..Len(down) : r[i] = down[i]
  BY <1>1, AppendedAt
<1>3. x.command \in Answers /\ AnswersOnly(down) => AnswersOnly(r)
  BY <1>1, AnswersAppend
<1>4. x.command \in Answers /\ Coming(c, s, down, w, "Idle") => Coming(c, z, r, w, "Idle")
  BY <1>1, ComingAppend
<1>5. /\ (\A i \in 1..Len(down) : Refusal(down[i])) /\ Refusal(x) =>
           \A i \in 1..Len(r) : Refusal(r[i])
      /\ (\A i \in 1..Len(down) : ~IsAborted(down[i])) /\ ~IsAborted(x) =>
           \A i \in 1..Len(r) : ~IsAborted(r[i])
  BY <1>1, RefusalAppend
<1>6. Calm(s) => x.command \in Answers
  BY DEF Calm
<1> HIDE DEF x, r
<1>7. Calm(z) /\ (NoExecute(s, up) => NoExecute(z, up))
  BY DEF Calm, NoExecute
<1>8. ASSUME TraceAsked(c, s, up, down, "Idle") PROVE TraceAsked(c, z, up, r, "Idle")
  BY <1>3, <1>6, <1>7, <1>8 DEF TraceAsked
<1>9. ~TraceRuns(c, s, up, down, w, "Idle")
  BY DEF TraceRuns
<1>10. ASSUME TraceArrives(c, s, up, down, w, "Idle")
       PROVE  TraceArrives(c, z, up, r, w, "Idle")
  <2>1. AbortIsLast(c, z, up)
    BY <1>10 DEF TraceArrives, AbortIsLast
  <2>2. QED
    BY <1>4, <1>6, <1>7, <1>10, <2>1 DEF TraceArrives
<1>11. ASSUME TraceFailed(c, s, up, down, "Idle") PROVE TraceFailed(c, z, up, r, "Idle")
  BY <1>5, <1>7, <1>11 DEF TraceFailed, x
<1>12. ASSUME AbortIgnored(c, s, up, down, "Idle")
       PROVE  AbortIgnored(c, z, up, r, "Idle")
  BY <1>5, <1>7, <1>12 DEF AbortIgnored, x
<1>13. ASSUME AbortAnswered(c, s, up, down, "Idle")
       PROVE  AbortAnswered(c, z, up, r, "Idle")
  <2>1. PICK k \in 1..Len(down) :
               /\ IsAborted(down[k])
               /\ \A i \in 1..Len(down) :
                    /\ i < k => ~IsAborted(down[i])
                    /\ i > k => down[i].command \in Answers
    BY <1>13 DEF AbortAnswered
  <2>2. k \in 1..Len(r) /\ r[k] = down[k]
    BY <1>2
  <2>3. ASSUME NEW i \in 1..Len(r)
        PROVE  /\ i < k => ~IsAborted(r[i])
               /\ i > k => r[i].command \in Answers
    <3>1. CASE i = Len(down) + 1
      <4>1. x.command \in Answers /\ ~(i < k)
        BY <1>2, <1>6, <1>13, <3>1 DEF AbortAnswered
      <4>2. QED
        BY <1>2, <3>1, <4>1
    <3>2. CASE i \in 1..Len(down)
      BY <1>2, <2>1, <3>2
    <3>3. QED
      BY <1>2, <3>1, <3>2
  <2>4. QED
    BY <1>7, <1>13, <2>1, <2>2, <2>3 DEF AbortAnswered
<1>14. OnTrack(c, z, up, r, w, "Idle")
  BY <1>3, <1>6, <1>7, <1>8, <1>9, <1>10, <1>11, <1>12, <1>13, Zenon DEF OnTrack
<1>15. QED
  BY <1>14 DEF r, x

\* In a trace the payload and the version of the session data say nothing.
LEMMA PollOnTrack ==
  ASSUME NEW c \in ClientTypes, NEW s \in SessionTypes, NEW z \in SessionTypes,
         NEW up \in Seq(Payloads), up # <<>>, NEW down \in Seq(Payloads),
         NEW w \in Seq(1..MaxChunks), NEW st \in {"Pending", "Running", "Finishing"},
         OnTrack(c, s, up, down, w, st), z.state = s.state,
         z.abort = IsAbort(Head(up)), z.chunks = s.chunks, z.version = s.version
  PROVE  OnTrack(c, z, Tail(up), down, w, st)
<1> DEFINE r == Tail(up)
<1>1. AfterRequest(c, up, 0) =>
        /\ AfterRequest(c, r, 0)
        /\ Head(up).command \in Asks \/ (IsAbort(Head(up)) /\ c.call = "Abort")
        /\ IsAbort(Head(up)) => AsksOnly(r)
  BY AfterTail
<1> HIDE DEF r
<1>2. AfterRequest(c, up, 0) => AbortIsLast(c, z, r)
  BY <1>1 DEF AbortIsLast, IsAbort, Asks
<1>3. ASSUME TraceRuns(c, s, up, down, w, st) PROVE TraceRuns(c, z, r, down, w, st)
  BY <1>1, <1>2, <1>3 DEF TraceRuns
<1>4. ASSUME TraceArrives(c, s, up, down, w, st) PROVE TraceArrives(c, z, r, down, w, st)
  <2>1. Coming(c, z, down, w, st)
    BY <1>4, ComingServed DEF TraceArrives
  <2>2. QED
    BY <1>1, <1>2, <1>4, <2>1 DEF TraceArrives
<1>5. st # "Idle" /\ st # "Aborting"
  OBVIOUS
<1>6. /\ ~TraceAsked(c, s, up, down, st) /\ ~TraceFailed(c, s, up, down, st)
      /\ ~AbortIgnored(c, s, up, down, st) /\ ~AbortAnswered(c, s, up, down, st)
  BY <1>5 DEF TraceAsked, TraceFailed, AbortIgnored, AbortAnswered
<1>7. OnTrack(c, z, r, down, w, st)
  BY <1>3, <1>4, <1>5, <1>6, Zenon DEF OnTrack
<1>8. QED
  BY <1>7 DEF r

\* The payload of the session data says nothing in a trace.
LEMMA FillOnTrack ==
  ASSUME NEW c, NEW s, NEW z, NEW up, NEW down, NEW w, NEW st,
         OnTrack(c, s, up, down, w, st),
         s.state = "TransferTraceData", z.state = "TransferTraceData",
         z.abort = s.abort, z.chunks = s.chunks, z.version = s.version
  PROVE  OnTrack(c, z, up, down, w, st)
<1>1. Calm(z) /\ (NoExecute(s, up) => NoExecute(z, up))
  BY DEF Calm, NoExecute
<1>2. AbortIsLast(c, s, up) => AbortIsLast(c, z, up)
  BY DEF AbortIsLast
<1>3. TraceAsked(c, s, up, down, st) => TraceAsked(c, z, up, down, st)
  BY <1>1 DEF TraceAsked
<1>4. TraceRuns(c, s, up, down, w, st) => TraceRuns(c, z, up, down, w, st)
  BY <1>2 DEF TraceRuns
<1>5. TraceArrives(c, s, up, down, w, st) => TraceArrives(c, z, up, down, w, st)
  <2>1. Coming(c, s, down, w, st) => Coming(c, z, down, w, st)
    BY ComingServed
  <2>2. QED
    BY <1>1, <1>2, <2>1 DEF TraceArrives
<1>6. TraceFailed(c, s, up, down, st) => TraceFailed(c, z, up, down, st)
  BY <1>1 DEF TraceFailed
<1>7. AbortIgnored(c, s, up, down, st) => AbortIgnored(c, z, up, down, st)
  BY <1>1 DEF AbortIgnored
<1>8. AbortAnswered(c, s, up, down, st) => AbortAnswered(c, z, up, down, st)
  BY <1>1, Zenon DEF AbortAnswered
<1>9. QED
  BY <1>1, <1>3, <1>4, <1>5, <1>6, <1>7, <1>8, Zenon DEF OnTrack

\* The server answers the abort; nothing of the trace is left.
LEMMA ClearOnTrack ==
  ASSUME NEW c \in ClientTypes, NEW s \in SessionTypes, NEW z \in SessionTypes,
         NEW up \in Seq(Payloads), NEW down \in Seq(Payloads), NEW x \in Payloads,
         NEW w \in Seq(1..MaxChunks), NEW st \in {"Pending", "Running", "Finishing"},
         OnTrack(c, s, up, down, w, st), s.abort, IsAborted(x),
         z.state = "ReceivePayload"
  PROVE  OnTrack(c, z, up, Append(down, x), w, "Idle")
<1> DEFINE r == Append(down, x)
<1>1. /\ Len(r) = Len(down) + 1 /\ Len(down) \in Nat /\ r[Len(down) + 1] = x
      /\ \A i \in 1..Len(down) : r[i] = down[i]
  BY AppendedAt
<1> HIDE DEF r
<1>2. Calm(z)
  BY DEF Calm
<1>3. ASSUME AbortIsLast(c, s, up), \A i \in 1..Len(down) : ~IsAborted(down[i])
      PROVE  AbortAnswered(c, z, up, r, "Idle")
  <2> DEFINE k == Len(down) + 1
  <2>1. k \in 1..Len(r) /\ IsAborted(r[k])
    BY <1>1
  <2>2. ASSUME NEW i \in 1..Len(r)
        PROVE  (i < k => ~IsAborted(r[i])) /\ ~(i > k)
    BY <1>1, <1>3
  <2> HIDE DEF k
  <2>3. c.call = "Abort" /\ AsksOnly(up)
    BY <1>3 DEF AbortIsLast
  <2>4. QED
    BY <1>2, <2>1, <2>2, <2>3 DEF AbortAnswered
<1>4. TraceRuns(c, s, up, down, w, st) => AbortAnswered(c, z, up, r, "Idle")
  <2>1. AnswersOnly(down) => \A i \in 1..Len(down) : ~IsAborted(down[i])
    BY DEF AnswersOnly, IsAborted, Answers
  <2>2. QED
    BY <1>3, <2>1 DEF TraceRuns
<1>5. TraceArrives(c, s, up, down, w, st) => AbortAnswered(c, z, up, r, "Idle")
  <2>1. Coming(c, s, down, w, st) => \A i \in 1..Len(down) : ~IsAborted(down[i])
    BY ComingUnaborted
  <2>2. QED
    BY <1>3, <2>1 DEF TraceArrives
<1>6. st # "Idle" /\ st # "Aborting"
  OBVIOUS
<1>7. /\ ~TraceAsked(c, s, up, down, st) /\ ~TraceFailed(c, s, up, down, st)
      /\ ~AbortIgnored(c, s, up, down, st) /\ ~AbortAnswered(c, s, up, down, st)
  BY <1>6 DEF TraceAsked, TraceFailed, AbortIgnored, AbortAnswered
<1>8. OnTrack(c, z, up, r, w, "Idle")
  BY <1>4, <1>5, <1>6, <1>7, Zenon DEF OnTrack
<1>9. QED
  BY <1>8 DEF r

\* One sequence behind another, and a function that is a sequence.
LEMMA ConcatAt ==
  ASSUME NEW T, NEW q \in Seq(T), NEW r \in Seq(T)
  PROVE  /\ Len(q) \in Nat /\ Len(r) \in Nat /\ Len(q \o r) = Len(q) + Len(r)
         /\ \A i \in 1..Len(q) : (q \o r)[i] = q[i]
         /\ \A i \in 1..Len(r) : (q \o r)[Len(q) + i] = r[i]
OBVIOUS

\* A function over the first numbers is a sequence.
LEMMA CountedIsSeq ==
  ASSUME NEW T, NEW k \in Nat, NEW f \in [1..k -> T]
  PROVE  f \in Seq(T) /\ Len(f) = k
OBVIOUS

\* Where the j-th of n chunks more is, and how far the trace then goes.
LEMMA PlaceOfSent ==
  ASSUME NEW a \in Nat, NEW p \in Nat, NEW q \in Nat, NEW n \in Nat,
         NEW d \in Nat, a + q + 1 - p = d, a <= d
  PROVE  \A j \in 1..n :
           /\ q + j = p - 1 + (d + j) - a
           /\ a < d + j /\ d + j <= a + (q + n) + 1 - p
OBVIOUS

\* How far a trace is when n of the e chunks that are left were sent.
LEMMA ReachOfSent ==
  ASSUME NEW a \in Nat, NEW p \in Nat, NEW q \in Nat, NEW n \in Nat,
         NEW d \in Nat, NEW e \in Nat, NEW lw \in Nat, a + q + 1 - p = d, a <= d,
         p <= q + 1, q + e = lw + 2, n <= e
  PROVE  /\ a <= d + n /\ q + n <= lw + 2 /\ p <= (q + n) + 1
         /\ a + (q + n) + 1 - p = d + n
         /\ n = e => q + n = lw + 2
         /\ n < e => q + n < lw + 2
OBVIOUS

\* The first n of the chunks in the session follow those already on their way.
LEMMA ComingSent ==
  ASSUME NEW c, NEW s \in SessionTypes, NEW z, NEW down \in Seq(Payloads),
         NEW w \in Seq(1..MaxChunks), NEW n \in 0..Len(s.chunks),
         Coming(c, s, down, w, "Finishing"),
         z.chunks = SubSeq(s.chunks, n + 1, Len(s.chunks))
  PROVE  Coming(c, z, down \o SubSeq(s.chunks, 1, n), w,
                IF n = Len(s.chunks) THEN "Idle" ELSE "Finishing")
<1> DEFINE m == s.chunks
           f == SubSeq(m, 1, n)
           l == SubSeq(m, n + 1, Len(m))
           r == down \o f
           st == IF n = Len(m) THEN "Idle" ELSE "Finishing"
<1>1. m \in Seq(Payloads) /\ Len(m) \in Nat /\ n \in Nat /\ n <= Len(m)
  BY DEF SessionTypes
<1>2. /\ f \in Seq(Payloads) /\ Len(f) = n
      /\ \A i \in 1..n : f[i] = m[i]
  BY <1>1
<1>3. /\ Len(l) = Len(m) - n
      /\ \A i \in 1..Len(l) : l[i] = m[n + i]
  BY <1>1
<1> HIDE DEF f
<1>4. /\ Len(r) = Len(down) + n /\ Len(down) \in Nat
      /\ \A i \in 1..Len(down) : r[i] = down[i]
      /\ \A i \in 1..n : r[Len(down) + i] = f[i]
  BY <1>1, <1>2
<1> HIDE DEF r, l
<1>5. PICK a \in 0..Len(down), p \in 1..(Len(w) + 3), q \in 0..(Len(w) + 2) :
        /\ p <= q + 1 /\ Carries(down, w, a, p, q) /\ Counts(c, w, p)
        /\ q < Len(w) + 2 /\ a + q + 1 - p = Len(down) /\ Remains(s, w, q)
  BY Zenon DEF Coming
<1>6. a \in Nat /\ p \in Nat /\ q \in Nat /\ Len(w) \in Nat
  OBVIOUS
<1>7. /\ Len(m) = Len(w) + 2 - q
      /\ \A i \in 1..Len(m) : m[i] = TraceOf(w)[q + i]
  BY <1>5 DEF Remains
<1> HIDE DEF m
<1>20. /\ a + q + 1 - p = Len(down) /\ p <= q + 1 /\ q < Len(w) + 2 /\ p >= 1
       /\ Len(m) = Len(w) + 2 - q /\ Len(r) = Len(down) + n /\ Len(r) \in Nat
       /\ Len(down) \in Nat /\ a <= Len(down) /\ Len(m) \in Nat /\ n \in Nat
       /\ n <= Len(m)
  BY <1>1, <1>4, <1>5, <1>7
<1> DEFINE g == q + n
<1>8. ASSUME NEW i \in 1..Len(r)
      PROVE  IF a < i /\ i <= a + g + 1 - p THEN r[i] = TraceOf(w)[p - 1 + i - a]
             ELSE r[i].command \in Answers
  <2>1. CASE i <= Len(down)
    <3>1. i \in 1..Len(down) /\ r[i] = down[i]
      BY <1>4, <2>1
    <3>2. i <= a + g + 1 - p /\ i <= a + q + 1 - p
      BY <1>1, <1>5, <1>6, <2>1
    <3>3. QED
      BY <1>5, <3>1, <3>2 DEF Carries
  <2>2. CASE i > Len(down)
    <3> DEFINE j == i - Len(down)
    <3>1. j \in 1..n /\ i = Len(down) + j
      BY <1>1, <1>4, <2>2
    <3>2. j \in 1..Len(m) /\ r[i] = m[j]
      BY <1>1, <1>2, <1>4, <3>1
    <3>3. r[i] = TraceOf(w)[q + j]
      BY <1>7, <3>2
    <3>4. q + j = p - 1 + i - a /\ a < i /\ i <= a + g + 1 - p
      <4>1. /\ q + j = p - 1 + (Len(down) + j) - a
            /\ a < Len(down) + j /\ Len(down) + j <= a + (q + n) + 1 - p
        BY <1>6, <1>20, <3>1, PlaceOfSent
      <4>2. QED
        BY <3>1, <4>1
    <3>5. QED
      BY <3>3, <3>4
  <2>3. QED
    BY <1>4, <2>1, <2>2
<1>9. Carries(r, w, a, p, g)
  <2>1. a + g + 1 - p <= Len(r)
    BY <1>1, <1>4, <1>5, <1>6
  <2>2. QED
    BY <1>8, <2>1 DEF Carries
<1>10. /\ a \in 0..Len(r) /\ g \in 0..(Len(w) + 2) /\ p <= g + 1
       /\ a + g + 1 - p = Len(r)
       /\ n = Len(m) => g = Len(w) + 2
       /\ n # Len(m) => g < Len(w) + 2
  <2> DEFINE d == Len(down)
             e == Len(m)
             lw == Len(w)
  <2>1. /\ d \in Nat /\ e \in Nat /\ lw \in Nat /\ a + q + 1 - p = d /\ a <= d
        /\ p <= q + 1 /\ q + e = lw + 2 /\ n <= e /\ n \in Nat /\ Len(r) = d + n
    BY <1>6, <1>20
  <2> HIDE DEF d, e, lw
  <2>2. /\ a <= d + n /\ q + n <= lw + 2 /\ p <= (q + n) + 1
        /\ a + (q + n) + 1 - p = d + n
        /\ n = e => q + n = lw + 2
        /\ n < e => q + n < lw + 2
    BY <1>6, <2>1, ReachOfSent
  <2>3. /\ a \in 0..Len(r) /\ g \in 0..(lw + 2) /\ p <= g + 1
        /\ a + g + 1 - p = Len(r)
        /\ n = e => g = lw + 2
        /\ n # e => g < lw + 2
    BY <1>6, <2>1, <2>2
  <2>4. QED
    BY <2>3 DEF d, e, lw
<1>11. Remains(z, w, g)
  <2>1. z.chunks = l
    BY DEF l, m
  <2>2. Len(z.chunks) = Len(w) + 2 - g
    <3>1. Len(l) = Len(m) - n
      BY <1>3
    <3>2. Len(m) = Len(w) + 2 - q /\ Len(m) \in Nat /\ Len(w) \in Nat
      BY <1>6, <1>20
    <3>3. Len(l) = Len(w) + 2 - g
      <4> DEFINE d == Len(l)
                 e == Len(m)
                 lw == Len(w)
      <4>1. /\ e \in Nat /\ lw \in Nat /\ q \in Nat /\ n \in Nat
            /\ d = e - n /\ e = lw + 2 - q
        BY <1>6, <1>20, <3>1, <3>2
      <4> HIDE DEF d, e, lw
      <4>2. d = lw + 2 - (q + n)
        BY <4>1
      <4>3. QED
        BY <4>2 DEF d, lw
    <3>4. QED
      BY <2>1, <3>3
  <2>3. ASSUME NEW i \in 1..Len(z.chunks) PROVE z.chunks[i] = TraceOf(w)[g + i]
    <3>1. n + i \in 1..Len(m) /\ z.chunks[i] = m[n + i]
      <4>1. i \in 1..Len(l) /\ Len(l) = Len(m) - n
        BY <1>3, <2>1, <2>3
      <4>2. n + i \in 1..Len(m)
        BY <1>20, <4>1
      <4>3. QED
        BY <1>3, <2>1, <4>1, <4>2
    <3>2. z.chunks[i] = TraceOf(w)[q + (n + i)]
      BY <1>7, <3>1
    <3>3. q + (n + i) = g + i
      BY <1>1, <1>6, <3>1
    <3>4. QED
      BY <3>2, <3>3
  <2>4. QED
    BY <2>2, <2>3 DEF Remains
<1> HIDE DEF g
<1>12. Coming(c, z, r, w, st)
  <2>1. CASE n = Len(m)
    <3>1. st = "Idle" /\ st # "Finishing"
      BY <2>1
    <3>2. QED
      BY <1>5, <1>9, <1>10, <2>1, <3>1 DEF Coming
  <2>2. CASE n # Len(m)
    <3>1. st = "Finishing"
      BY <2>2
    <3>2. QED
      BY <1>5, <1>9, <1>10, <1>11, <2>2, <3>1 DEF Coming
  <2>3. QED
    BY <2>1, <2>2
<1>13. QED
  BY <1>12 DEF r, f, m

\* SendTraceData: the rest of the trace, as far as the client's window goes.
LEMMA ChunksOnTrack ==
  ASSUME NEW c \in ClientTypes, NEW s \in SessionTypes, NEW z \in SessionTypes,
         NEW up \in Seq(Payloads), NEW down \in Seq(Payloads),
         NEW w \in Seq(1..MaxChunks), NEW n \in 0..Len(s.chunks),
         OnTrack(c, s, up, down, w, "Finishing"), ~s.abort, ~z.abort,
         z.chunks = SubSeq(s.chunks, n + 1, Len(s.chunks)),
         down \o SubSeq(s.chunks, 1, n) \in Seq(Payloads),
         n = Len(s.chunks) => z.state = "ReceivePayload"
  PROVE  OnTrack(c, z, up, down \o SubSeq(s.chunks, 1, n), w,
                 IF n = Len(s.chunks) THEN "Idle" ELSE "Finishing")
<1> DEFINE r == down \o SubSeq(s.chunks, 1, n)
           st == IF n = Len(s.chunks) THEN "Idle" ELSE "Finishing"
<1>1. Coming(c, s, down, w, "Finishing") => Coming(c, z, r, w, st)
  BY ComingSent
<1>2. r \in Seq(Payloads)
  OBVIOUS
<1>3. st \in {"Finishing", "Idle"} /\ (st = "Idle" => z.state = "ReceivePayload")
  OBVIOUS
<1> HIDE DEF r, st
<1>4. AbortIsLast(c, z, up)
  BY DEF AbortIsLast
<1>5. st = "Idle" => Calm(z) /\ z.state # "SendPayload" /\ z.state # "ProcessPayload"
  BY <1>3 DEF Calm
<1>6. ASSUME TraceArrives(c, s, up, down, w, "Finishing")
      PROVE  TraceArrives(c, z, up, r, w, st) \/ AbortIgnored(c, z, up, r, st)
  <2>1. /\ AfterRequest(c, up, 0) /\ Coming(c, z, r, w, st)
        /\ c.state \in {"TraceRequested", "TraceCompleted"}
    BY <1>1, <1>6 DEF TraceArrives
  <2>2. CASE st = "Finishing" \/ c.call # "Abort"
    BY <1>3, <1>4, <1>5, <2>1, <2>2 DEF TraceArrives
  <2>3. CASE st = "Idle" /\ c.call = "Abort"
    <3>1. NoExecute(z, up)
      BY <1>5, <2>1, <2>3, AfterNoExecute
    <3>2. \A i \in 1..Len(r) : ~IsAborted(r[i])
      BY <1>2, <2>1, ComingUnaborted
    <3>3. QED
      BY <1>5, <2>3, <3>1, <3>2 DEF AbortIgnored
  <2>4. QED
    BY <1>3, <2>2, <2>3
<1>7. /\ ~TraceAsked(c, s, up, down, "Finishing")
      /\ ~TraceRuns(c, s, up, down, w, "Finishing")
      /\ ~TraceFailed(c, s, up, down, "Finishing")
      /\ ~AbortIgnored(c, s, up, down, "Finishing")
      /\ ~AbortAnswered(c, s, up, down, "Finishing")
  BY DEF TraceAsked, TraceRuns, TraceFailed, AbortIgnored, AbortAnswered
<1>8. OnTrack(c, z, up, r, w, st)
  BY <1>6, <1>7, Zenon DEF OnTrack
<1>9. QED
  BY <1>8 DEF r, st

\* The driver's abort is over; its refusal went to this session, or not.
LEMMA AbortedByDriverOnTrack ==
  ASSUME NEW c \in ClientTypes, NEW s \in SessionTypes, NEW z \in SessionTypes,
         NEW up \in Seq(Payloads), NEW down \in Seq(Payloads), NEW r,
         NEW w \in Seq(1..MaxChunks), NEW x \in Payloads,
         OnTrack(c, s, up, down, w, "Aborting"), Refusal(x),
         z.state = "ReceivePayload", r = down \/ r = Append(down, x)
  PROVE  OnTrack(c, z, up, r, w, "Idle")
<1>1. ASSUME TraceFailed(c, s, up, down, "Aborting")
      PROVE  TraceFailed(c, z, up, r, "Idle")
  <2>1. \A i \in 1..Len(down) : Refusal(down[i])
    BY <1>1 DEF TraceFailed
  <2>2. \A i \in 1..Len(r) : Refusal(r[i])
    BY <2>1, RefusalAppend
  <2>3. NoExecute(z, up)
    BY <1>1 DEF TraceFailed, NoExecute
  <2>4. QED
    BY <1>1, <2>2, <2>3 DEF TraceFailed
<1>2. /\ ~TraceAsked(c, s, up, down, "Aborting")
      /\ ~TraceRuns(c, s, up, down, w, "Aborting")
      /\ ~TraceArrives(c, s, up, down, w, "Aborting")
      /\ ~AbortIgnored(c, s, up, down, "Aborting")
      /\ ~AbortAnswered(c, s, up, down, "Aborting")
  BY DEF TraceAsked, TraceRuns, TraceArrives, AbortIgnored, AbortAnswered
<1>3. QED
  BY <1>1, <1>2, Zenon DEF OnTrack
-----------------------------------------------------------------------------
(* What the driver does to a trace.                                        *)

\* BeginTrace.
LEMMA BegunOnTrack ==
  ASSUME NEW c, NEW s, NEW up, NEW down, NEW w,
         OnTrack(c, s, up, down, w, "Pending")
  PROVE  OnTrack(c, s, up, down, w, "Running")
<1>1. TraceRuns(c, s, up, down, w, "Pending") => TraceRuns(c, s, up, down, w, "Running")
  BY DEF TraceRuns
<1>2. /\ ~TraceAsked(c, s, up, down, "Pending")
      /\ ~TraceArrives(c, s, up, down, w, "Pending")
      /\ ~TraceFailed(c, s, up, down, "Pending")
      /\ ~AbortIgnored(c, s, up, down, "Pending")
      /\ ~AbortAnswered(c, s, up, down, "Pending")
  BY DEF TraceAsked, TraceArrives, TraceFailed, AbortIgnored, AbortAnswered
<1>3. QED
  BY <1>1, <1>2, Zenon DEF OnTrack

\* WriteTraceData: k chunks more, the same in the session and in the trace.
LEMMA WrittenOnTrack ==
  ASSUME NEW c \in ClientTypes, NEW s \in SessionTypes, NEW z,
         NEW up, NEW down, NEW w \in Seq(1..MaxChunks), NEW k \in Nat,
         NEW new \in [1..k -> 1..MaxChunks],
         NEW cut \in [1..k -> Payloads],
         \A i \in 1..k : cut[i] = Payload("TraceDataChunk", "Success", new[i]),
         OnTrack(c, s, up, down, w, "Running"),
         z.abort = s.abort, z.version = s.version, z.chunks = s.chunks \o cut
  PROVE  OnTrack(c, z, up, down, w \o new, "Running")
<1> DEFINE v == w \o new
           m == s.chunks
           l == m \o cut
<1>1. m \in Seq(Payloads) /\ Len(m) \in Nat
  BY DEF SessionTypes
<1>2. new \in Seq(1..MaxChunks) /\ Len(new) = k
  BY CountedIsSeq
<1>3. cut \in Seq(Payloads) /\ Len(cut) = k
  BY CountedIsSeq
<1> HIDE DEF m
<1>4. /\ Len(v) = Len(w) + k /\ Len(w) \in Nat
      /\ \A i \in 1..Len(w) : v[i] = w[i]
      /\ \A i \in 1..k : v[Len(w) + i] = new[i]
  <2>1. /\ Len(v) = Len(w) + Len(new) /\ Len(w) \in Nat
        /\ \A i \in 1..Len(w) : v[i] = w[i]
        /\ \A i \in 1..Len(new) : v[Len(w) + i] = new[i]
    <3> DEFINE T == 1..MaxChunks
    <3>1. w \in Seq(T) /\ new \in Seq(T)
      BY <1>2
    <3> HIDE DEF T
    <3>2. QED
      BY <3>1, ConcatAt
  <2>2. QED
    BY <1>2, <2>1
<1>5. /\ Len(l) = Len(m) + k
      /\ \A i \in 1..Len(m) : l[i] = m[i]
      /\ \A i \in 1..k : l[Len(m) + i] = cut[i]
  <2>1. /\ Len(l) = Len(m) + Len(cut)
        /\ \A i \in 1..Len(m) : l[i] = m[i]
        /\ \A i \in 1..Len(cut) : l[Len(m) + i] = cut[i]
    BY <1>1, <1>3, ConcatAt
  <2>2. QED
    BY <1>3, <2>1
<1> HIDE DEF v, l
<1>6. ASSUME TraceRuns(c, s, up, down, w, "Running")
      PROVE  TraceRuns(c, z, up, down, v, "Running")
  <2>1. /\ Len(m) = Len(w)
        /\ \A i \in 1..Len(w) : m[i] = Payload("TraceDataChunk", "Success", w[i])
    BY <1>6 DEF TraceRuns, m
  <2>2. z.chunks = l /\ Len(l) = Len(v)
    BY <1>4, <1>5, <2>1 DEF l, m
  <2>3. ASSUME NEW i \in 1..Len(v)
        PROVE  l[i] = Payload("TraceDataChunk", "Success", v[i])
    <3>1. CASE i <= Len(w)
      <4>1. i \in 1..Len(w) /\ i \in 1..Len(m)
        BY <1>4, <2>1, <3>1
      <4>2. QED
        BY <1>4, <1>5, <2>1, <4>1
    <3>2. CASE i > Len(w)
      <4> DEFINE j == i - Len(w)
      <4>1. j \in 1..k /\ i = Len(w) + j /\ i = Len(m) + j
        BY <1>4, <2>1, <3>2
      <4> HIDE DEF j
      <4>2. l[i] = cut[j] /\ v[i] = new[j]
        BY <1>4, <1>5, <4>1
      <4>3. QED
        BY <4>1, <4>2
    <3>3. QED
      BY <1>4, <3>1, <3>2
  <2>4. AbortIsLast(c, z, up)
    BY <1>6 DEF TraceRuns, AbortIsLast
  <2>5. QED
    BY <1>6, <2>2, <2>3, <2>4 DEF TraceRuns
<1>7. /\ ~TraceAsked(c, s, up, down, "Running")
      /\ ~TraceArrives(c, s, up, down, w, "Running")
      /\ ~TraceFailed(c, s, up, down, "Running")
      /\ ~AbortIgnored(c, s, up, down, "Running")
      /\ ~AbortAnswered(c, s, up, down, "Running")
  BY DEF TraceAsked, TraceArrives, TraceFailed, AbortIgnored, AbortAnswered
<1>8. OnTrack(c, z, up, down, v, "Running")
  BY <1>6, <1>7, Zenon DEF OnTrack
<1>9. QED
  BY <1>8 DEF v

\* EndTrace: the header before the chunks, and the sentinel after them.
LEMMA EndedOnTrack ==
  ASSUME NEW c \in ClientTypes, NEW s \in SessionTypes, NEW z,
         NEW up, NEW down \in Seq(Payloads), NEW w \in Seq(1..MaxChunks),
         NEW h \in Payloads, h = Payload("TraceDataHeader", "Success", Len(s.chunks)),
         NEW e \in Payloads, e = Request("TraceDataSentinel"),
         OnTrack(c, s, up, down, w, "Running"),
         z.abort = s.abort, z.chunks = (<<h>> \o s.chunks) \o <<e>>
  PROVE  OnTrack(c, z, up, down, w, "Finishing")
<1> DEFINE m == s.chunks
           l == (<<h>> \o m) \o <<e>>
<1>1. m \in Seq(Payloads) /\ Len(m) \in Nat /\ Len(w) \in Nat /\ Len(down) \in Nat
  BY DEF SessionTypes
<1> HIDE DEF m
<1>2. /\ Len(l) = Len(m) + 2 /\ l[1] = h /\ l[Len(m) + 2] = e
      /\ \A i \in 2..(Len(m) + 1) : l[i] = m[i - 1]
  <2> DEFINE f == <<h>> \o m
  <2>1. /\ f \in Seq(Payloads) /\ Len(f) = Len(m) + 1 /\ f[1] = h
        /\ \A i \in 2..(Len(m) + 1) : f[i] = m[i - 1]
    BY <1>1
  <2> HIDE DEF f
  <2>2. /\ Len(f \o <<e>>) = Len(f) + 1 /\ (f \o <<e>>)[Len(f) + 1] = e
        /\ \A i \in 1..Len(f) : (f \o <<e>>)[i] = f[i]
    BY <1>1, <2>1
  <2>3. QED
    BY <1>1, <2>1, <2>2 DEF f
<1> HIDE DEF l
<1>3. ASSUME TraceRuns(c, s, up, down, w, "Running")
      PROVE  TraceArrives(c, z, up, down, w, "Finishing")
  <2>1. /\ Len(m) = Len(w)
        /\ \A i \in 1..Len(w) : m[i] = Payload("TraceDataChunk", "Success", w[i])
    BY <1>3 DEF TraceRuns, m
  <2>2. ASSUME NEW i \in 1..Len(l) PROVE l[i] = TraceOf(w)[i]
    <3>1. i = 1 \/ i = Len(w) + 2 \/ i \in 2..(Len(w) + 1)
      BY <1>1, <1>2, <2>1
    <3>2. CASE i = 1
      BY <1>2, <2>1, <3>2, TraceOfAt DEF m
    <3>3. CASE i = Len(w) + 2
      BY <1>2, <2>1, <3>3, TraceOfAt DEF Request
    <3>4. CASE i \in 2..(Len(w) + 1)
      <4>1. i - 1 \in 1..Len(w)
        BY <1>1, <3>4
      <4>2. QED
        BY <1>2, <2>1, <3>4, <4>1, TraceOfAt
    <3>5. QED
      BY <3>1, <3>2, <3>3, <3>4
  <2>3. Remains(z, w, 0)
    <3>1. z.chunks = l /\ Len(l) = Len(w) + 2 - 0
      BY <1>1, <1>2, <2>1 DEF l, m
    <3>2. \A i \in 1..Len(l) : l[i] = TraceOf(w)[0 + i]
      BY <2>2
    <3>3. QED
      BY <3>1, <3>2 DEF Remains
  <2>4. Carries(down, w, Len(down), 1, 0)
    <3>1. \A i \in 1..Len(down) : ~(Len(down) < i) /\ down[i].command \in Answers
      BY <1>1, <1>3 DEF TraceRuns, AnswersOnly
    <3>2. Len(down) + 0 + 1 - 1 <= Len(down)
      BY <1>1
    <3>3. QED
      BY <3>1, <3>2 DEF Carries
  <2>5. Counts(c, w, 1)
    BY <1>3 DEF TraceRuns, Counts
  <2>6. Coming(c, z, down, w, "Finishing")
    <3>1. /\ Len(down) \in 0..Len(down) /\ 1 \in 1..(Len(w) + 3) /\ 0 \in 0..(Len(w) + 2)
          /\ 1 <= 0 + 1 /\ 0 < Len(w) + 2 /\ Len(down) + 0 + 1 - 1 = Len(down)
      BY <1>1
    <3>2. QED
      BY <2>3, <2>4, <2>5, <3>1 DEF Coming
  <2>7. AbortIsLast(c, z, up)
    BY <1>3 DEF TraceRuns, AbortIsLast
  <2>8. QED
    BY <1>3, <2>6, <2>7 DEF TraceRuns, TraceArrives
<1>4. /\ ~TraceAsked(c, s, up, down, "Running")
      /\ ~TraceArrives(c, s, up, down, w, "Running")
      /\ ~TraceFailed(c, s, up, down, "Running")
      /\ ~AbortIgnored(c, s, up, down, "Running")
      /\ ~AbortAnswered(c, s, up, down, "Running")
  BY DEF TraceAsked, TraceArrives, TraceFailed, AbortIgnored, AbortAnswered
<1>5. QED
  BY <1>3, <1>4, Zenon DEF OnTrack

\* AbortTrace of the driver: nothing of the trace has left the session.
LEMMA AbandonedOnTrack ==
  ASSUME NEW c \in ClientTypes, NEW s \in SessionTypes, NEW up \in Seq(Payloads),
         NEW down, NEW w, s.state = "TransferTraceData",
         OnTrack(c, s, up, down, w, "Running")
  PROVE  OnTrack(c, s, up, down, w, "Aborting")
<1>1. ASSUME TraceRuns(c, s, up, down, w, "Running")
      PROVE  TraceFailed(c, s, up, down, "Aborting")
  <2>1. NoExecute(s, up)
    BY <1>1, AfterNoExecute DEF TraceRuns
  <2>2. QED
    BY <1>1, <2>1 DEF TraceRuns, TraceFailed, AnswersOnly, Refusal
<1>2. /\ ~TraceAsked(c, s, up, down, "Running")
      /\ ~TraceArrives(c, s, up, down, w, "Running")
      /\ ~TraceFailed(c, s, up, down, "Running")
      /\ ~AbortIgnored(c, s, up, down, "Running")
      /\ ~AbortAnswered(c, s, up, down, "Running")
  BY DEF TraceAsked, TraceArrives, TraceFailed, AbortIgnored, AbortAnswered
<1>3. QED
  BY <1>1, <1>2, Zenon DEF OnTrack

-----------------------------------------------------------------------------
(* The steps of the clients.                                               *)

\* The other tools and their sessions see nothing of a step.
OthersKeep(t) ==
  \A u \in Tools \ {t} :
    /\ client'[u] = client[u] /\ session'[u] = session[u]
    /\ version'[u] = version[u] /\ written'[u] = written[u]
    /\ toServer'[u] = toServer[u] /\ toClient'[u] = toClient[u]
    /\ OwnStatus(u)' = OwnStatus(u) /\ (u \in misled' <=> u \in misled)

\* Only one tool and its session take part in a step.
LEMMA FollowedOne ==
  ASSUME Followed, NEW t \in Tools, OthersKeep(t), Attached(t)', Follows(t)'
  PROVE  Followed'
<1>1. ASSUME NEW u \in Tools \ {t} PROVE Attached(u)' /\ Follows(u)'
  <2>1. Attached(u) /\ Follows(u)
    BY DEF Followed
  <2>2. Attached(u)'
    BY <2>1 DEF Attached, OthersKeep
  <2>3. Follows(u)'
    BY <2>1 DEF Follows, OthersKeep
  <2>4. QED
    BY <2>2, <2>3
<1>2. QED
  BY <1>1 DEF Followed

\* The tool's part of the state, with its types.
LEMMA SliceTypes ==
  ASSUME TypeOK, NEW t \in Tools
  PROVE  /\ client[t] \in ClientTypes /\ session[t] \in SessionTypes
         /\ toServer[t] \in Seq(Payloads) /\ toClient[t] \in Seq(Payloads)
         /\ written[t] \in Seq(1..MaxChunks)
BY DEF TypeOK

\* A step of a client that is connected.
LEMMA ClientFollowed ==
  ASSUME TypeOK, Followed, NEW t \in Tools, NEW d, Become(t, d), client[t].open,
         d.open \/ d = NoClient,
         \A u \in Tools \ {t} : toServer'[u] = toServer[u] /\ toClient'[u] = toClient[u],
         d.open /\ version[t] >= RGP_TRACE_PROGRESS_VERSION
           /\ OnTrack(client[t], session[t], toServer[t], toClient[t], written[t],
                      OwnStatus(t))
         => OnTrack(d, session[t], toServer'[t], toClient'[t], written[t],
                    OwnStatus(t))
  PROVE  Followed'
<1>1. /\ client' = [client EXCEPT ![t] = d] /\ session' = session
      /\ version' = version /\ written' = written /\ misled' = misled
      /\ current' = current /\ traceStatus' = traceStatus
  BY DEF Become, serverVars
<1>2. client'[t] = d /\ \A u \in Tools \ {t} : client'[u] = client[u]
  BY <1>1 DEF TypeOK
<1>3. \A u : OwnStatus(u)' = OwnStatus(u)
  BY <1>1 DEF OwnStatus
<1>4. OthersKeep(t)
  BY <1>1, <1>2, <1>3 DEF OthersKeep
<1>5. Attached(t) /\ Follows(t)
  BY DEF Followed
<1>6. Attached(t)'
  BY <1>1, <1>2, <1>5 DEF Attached
<1>7. Follows(t)'
  BY <1>1, <1>2, <1>3, <1>5 DEF Follows
<1>8. QED
  BY <1>4, <1>6, <1>7, FollowedOne

\* A step of a client that takes a payload.
LEMMA TakeFollowed ==
  ASSUME TypeOK, Followed, NEW t \in Tools, NEW d, TakeAndBecome(t, d),
         client[t].open, d.open,
         version[t] >= RGP_TRACE_PROGRESS_VERSION
           /\ OnTrack(client[t], session[t], toServer[t], toClient[t], written[t],
                      OwnStatus(t))
         => OnTrack(d, session[t], toServer[t], Tail(toClient[t]), written[t],
                    OwnStatus(t))
  PROVE  Followed'
<1>1. /\ toServer' = toServer /\ Become(t, d)
      /\ toClient' = [toClient EXCEPT ![t] = Tail(toClient[t])]
  BY DEF TakeAndBecome
<1>2. /\ toClient'[t] = Tail(toClient[t])
      /\ \A u \in Tools \ {t} : toClient'[u] = toClient[u]
  BY <1>1 DEF TypeOK
<1>3. QED
  BY <1>1, <1>2, ClientFollowed

\* A client in a call, or with a trace, is there.
LEMMA InCallIsOpen ==
  ASSUME Followed, NEW t \in Tools, client[t].call # "None"
  PROVE  client[t].open
BY DEF Followed, Attached, NoClient

\* A trace that failed at the client.
LEMMA ErrorOnTrack ==
  ASSUME NEW c, NEW s, NEW up, NEW down, NEW w, NEW st,
         c.state = "Error", c.call \in Asks \cup {"None"}, ~c.whole
  PROVE  OnTrack(c, s, up, down, w, st)
BY DEF OnTrack

\* A trace is whole only while its client is idle.
LEMMA NotWhole ==
  ASSUME NEW c, NEW s, NEW up, NEW down, NEW w, NEW st,
         OnTrack(c, s, up, down, w, st),
         c.state # "Idle" \/ c.call \notin Asks \cup {"None"}
  PROVE  ~c.whole
BY Zenon DEF OnTrack

\* A link that gets one payload more.
LEMMA GrownAt ==
  ASSUME NEW link, link \in [Tools -> Seq(Payloads)], NEW t \in Tools,
         NEW x \in Payloads, NEW grown,
         grown = [link EXCEPT ![t] = Append(link[t], x)]
  PROVE  grown[t] = Append(link[t], x) /\ \A u \in Tools \ {t} : grown[u] = link[u]
OBVIOUS

\* The fields of a client are set one by one.
LEMMA ClientState ==
  ASSUME NEW c \in ClientTypes, NEW x \in {"Idle", "TraceRequested", "TraceCompleted", "Error"}
  PROVE  LET d == [c EXCEPT !.state = x]
         IN  /\ d \in ClientTypes /\ d.state = x
             /\ d.open = c.open /\ d.call = c.call
             /\ d.numChunks = c.numChunks /\ d.received = c.received
             /\ d.whole = c.whole
BY DEF ClientTypes

\* The call a client is in.
LEMMA ClientCall ==
  ASSUME NEW c \in ClientTypes, NEW x \in Asks \cup {"None", "Sentinel", "Abort"}
  PROVE  LET d == [c EXCEPT !.call = x]
         IN  /\ d \in ClientTypes /\ d.call = x
             /\ d.open = c.open /\ d.state = c.state
             /\ d.numChunks = c.numChunks /\ d.received = c.received
             /\ d.whole = c.whole
BY DEF ClientTypes

\* The number of chunks a client was told.
LEMMA ClientCount ==
  ASSUME NEW c \in ClientTypes, NEW x \in 0..MaxChunks
  PROVE  LET d == [c EXCEPT !.numChunks = x]
         IN  /\ d \in ClientTypes /\ d.numChunks = x
             /\ d.open = c.open /\ d.state = c.state
             /\ d.call = c.call /\ d.received = c.received
             /\ d.whole = c.whole
BY DEF ClientTypes

\* The chunks a client has received.
LEMMA ClientReceived ==
  ASSUME NEW c \in ClientTypes, NEW x \in Seq(0..MaxChunks)
  PROVE  LET d == [c EXCEPT !.received = x]
         IN  /\ d \in ClientTypes /\ d.received = x
             /\ d.open = c.open /\ d.state = c.state
             /\ d.call = c.call /\ d.numChunks = c.numChunks
             /\ d.whole = c.whole
BY DEF ClientTypes

\* A client takes its trace for complete.
LEMMA ClientWhole ==
  ASSUME NEW c \in ClientTypes, NEW x \in BOOLEAN
  PROVE  LET d == [c EXCEPT !.whole = x]
         IN  /\ d \in ClientTypes /\ d.whole = x
             /\ d.open = c.open /\ d.state = c.state
             /\ d.call = c.call /\ d.numChunks = c.numChunks
             /\ d.received = c.received
BY DEF ClientTypes

\* A question about profiling is no part of a trace.
LEMMA AskProfilingFollowed ==
  ASSUME TypeOK, Followed, NEW t \in Tools, NEW k \in Asks, AskProfiling(t, k)
  PROVE  Followed'
<1> DEFINE c == client[t]
           d == [c EXCEPT !.call = k]
           x == Request(k)
<1>1. c \in ClientTypes /\ c.open /\ c.call = "None" /\ Become(t, d)
  BY SliceTypes DEF AskProfiling, Free
<1>2. d \in ClientTypes /\ SameTrace(c, d) /\ d.call = k /\ d.open = c.open
  <2> HIDE DEF c
  <2>1. k \in Asks \cup {"None", "Sentinel", "Abort"}
    OBVIOUS
  <2>2. QED
    BY <1>1, <2>1, ClientCall DEF SameTrace
<1>3. x \in Payloads /\ x.command = k
  BY RequestTypes DEF Asks, RGPMessage, Request, Payload
<1>4. /\ toServer'[t] = Append(toServer[t], x)
      /\ \A u \in Tools \ {t} : toServer'[u] = toServer[u]
  BY <1>3, GrownAt DEF TypeOK, AskProfiling
<1>5. toClient' = toClient
  BY DEF AskProfiling
<1> HIDE DEF c, d, x
<1>6. ASSUME OnTrack(c, session[t], toServer[t], toClient[t], written[t], OwnStatus(t))
      PROVE  OnTrack(d, session[t], toServer'[t], toClient'[t], written[t],
                     OwnStatus(t))
  BY <1>1, <1>2, <1>3, <1>4, <1>5, <1>6, SliceTypes, CallOnTrack
<1>7. QED
  BY <1>1, <1>2, <1>4, <1>5, <1>6, ClientFollowed DEF c

\* A request starts a trace, or a full link fails it.
LEMMA RequestTraceFollowed ==
  ASSUME TypeOK, Followed, NEW t \in Tools, RequestTrace(t)
  PROVE  Followed'
<1> DEFINE c == client[t]
           e == <<>>
           new == IF Room(toServer, t) THEN "TraceRequested" ELSE "Error"
           c1 == [c EXCEPT !.state = new]
           c2 == [c1 EXCEPT !.received = e]
           d == [c2 EXCEPT !.whole = FALSE]
           x == Request("ExecuteTraceRequest")
<1>1. c \in ClientTypes /\ c.open /\ c.call = "None" /\ c.state = "Idle" /\ Become(t, d)
  BY SliceTypes DEF RequestTrace, Free
<1>2. new \in {"Idle", "TraceRequested", "TraceCompleted", "Error"}
  OBVIOUS
<1>3. c1 \in ClientTypes /\ c1.state = new /\ c1.call = c.call /\ c1.open = c.open
  <2> HIDE DEF new, c
  <2>1. QED
    BY <1>1, <1>2, ClientState
<1>4. e \in Seq(0..MaxChunks) /\ e = <<>>
  OBVIOUS
<1>5. /\ c2 \in ClientTypes /\ c2.state = new /\ c2.call = c.call
      /\ c2.open = c.open /\ c2.received = e
  <2> HIDE DEF c1, e, c, new
  <2>1. QED
    BY <1>3, <1>4, ClientReceived
<1>6. /\ d \in ClientTypes /\ d.state = new /\ d.call = "None"
      /\ d.open = c.open /\ d.received = <<>> /\ ~d.whole
  <2> HIDE DEF c2, c, new, e
  <2>1. FALSE \in BOOLEAN
    OBVIOUS
  <2>2. QED
    BY <1>1, <1>4, <1>5, <2>1, ClientWhole
<1>7. x \in Payloads /\ IsExecute(x)
  BY RequestTypes DEF RGPMessage, Request, Payload, IsExecute
<1>8. toClient' = toClient
  BY DEF RequestTrace
<1>9. CASE Room(toServer, t)
  <2>1. /\ toServer'[t] = Append(toServer[t], x)
        /\ \A u \in Tools \ {t} : toServer'[u] = toServer[u]
    BY <1>7, <1>9, GrownAt DEF TypeOK, RequestTrace
  <2>2. d.state = "TraceRequested"
    BY <1>6, <1>9
  <2> HIDE DEF c, d, x
  <2>3. ASSUME OnTrack(c, session[t], toServer[t], toClient[t], written[t], OwnStatus(t))
        PROVE  OnTrack(d, session[t], toServer'[t], toClient'[t], written[t],
                       OwnStatus(t))
    BY <1>1, <1>6, <1>7, <1>8, <2>1, <2>2, <2>3, SliceTypes, RequestOnTrack
  <2>4. QED
    BY <1>1, <1>6, <1>8, <2>1, <2>3, ClientFollowed DEF c
<1>10. CASE ~Room(toServer, t)
  <2>1. toServer' = toServer
    BY <1>10 DEF RequestTrace
  <2>2. d.state = "Error"
    BY <1>6, <1>10
  <2> HIDE DEF c, d
  <2>3. OnTrack(d, session[t], toServer'[t], toClient'[t], written[t], OwnStatus(t))
    BY <1>6, <2>2, ErrorOnTrack
  <2>4. QED
    BY <1>1, <1>6, <1>8, <2>1, <2>3, ClientFollowed DEF c
<1>11. QED
  BY <1>9, <1>10

\* A payload is taken for the answer to a request about profiling.
LEMMA TakeProfilingFollowed ==
  ASSUME TypeOK, Followed, NEW t \in Tools, TakeProfiling(t)
  PROVE  Followed'
<1> DEFINE c == client[t]
           d == [c EXCEPT !.call = "None"]
<1>1. /\ c \in ClientTypes /\ c.call \in Asks /\ toClient[t] # <<>>
      /\ TakeAndBecome(t, d)
  BY SliceTypes DEF TakeProfiling, Takes
<1>2. d \in ClientTypes /\ SameTrace(c, d) /\ d.call = "None" /\ d.open = c.open
  <2> HIDE DEF c
  <2>1. "None" \in Asks \cup {"None", "Sentinel", "Abort"}
    OBVIOUS
  <2>2. QED
    BY <1>1, <2>1, ClientCall DEF SameTrace
<1>3. c.open
  <2>1. c.call # "None"
    BY <1>1 DEF Asks
  <2>2. QED
    BY <2>1, InCallIsOpen
<1> HIDE DEF c, d
<1>4. ASSUME OnTrack(c, session[t], toServer[t], toClient[t], written[t], OwnStatus(t))
      PROVE  OnTrack(d, session[t], toServer[t], Tail(toClient[t]), written[t],
                     OwnStatus(t))
  BY <1>1, <1>2, <1>4, SliceTypes, DropOnTrack
<1>5. QED
  BY <1>1, <1>2, <1>3, <1>4, TakeFollowed DEF c

\* The first payload of a trace is its header, or the trace failed.
LEMMA TakeHeaderFollowed ==
  ASSUME TypeOK, Followed, NEW t \in Tools, TakeHeader(t)
  PROVE  Followed'
<1> DEFINE c == client[t]
           h == Taken(t)
           n == h.num
           c1 == [c EXCEPT !.state = "TraceCompleted"]
           good == [c1 EXCEPT !.numChunks = n]
           bad == [c EXCEPT !.state = "Error"]
           first == h.command = "TraceDataHeader" /\ h.result = "Success"
<1>1. /\ c \in ClientTypes /\ c.open /\ c.call = "None" /\ c.state = "TraceRequested"
      /\ toClient[t] # <<>>
  BY SliceTypes DEF TakeHeader, Receives, Free
<1>2. TakeAndBecome(t, IF first THEN good ELSE bad)
  BY DEF TakeHeader
<1>3. n \in 0..MaxChunks /\ h = Head(toClient[t])
  <2>1. h \in Payloads
    BY <1>1, SliceTypes, TailAt DEF Taken
  <2>2. QED
    BY <2>1 DEF Payloads, Taken
<1>4. /\ c1 \in ClientTypes /\ c1.state = "TraceCompleted" /\ c1.call = c.call
      /\ c1.open = c.open /\ c1.received = c.received /\ c1.whole = c.whole
      /\ bad \in ClientTypes /\ bad.state = "Error" /\ bad.call = c.call
      /\ bad.open = c.open /\ bad.whole = c.whole
  <2> HIDE DEF c
  <2>1. /\ "TraceCompleted" \in {"Idle", "TraceRequested", "TraceCompleted", "Error"}
        /\ "Error" \in {"Idle", "TraceRequested", "TraceCompleted", "Error"}
    OBVIOUS
  <2>2. QED
    BY <1>1, <2>1, ClientState
<1>5. /\ good \in ClientTypes /\ good.state = "TraceCompleted" /\ good.call = c.call
      /\ good.open = c.open /\ good.received = c.received /\ good.whole = c.whole
      /\ good.numChunks = n
  <2> HIDE DEF c1, c, n
  <2>1. QED
    BY <1>3, <1>4, ClientCount
<1>6. CASE first
  <2>1. TakeAndBecome(t, good) /\ good.numChunks = Head(toClient[t]).num
        /\ Head(toClient[t]).command = "TraceDataHeader"
        /\ Head(toClient[t]).result = "Success"
    BY <1>2, <1>3, <1>5, <1>6
  <2> HIDE DEF good, c, h, n
  <2>2. ASSUME OnTrack(c, session[t], toServer[t], toClient[t], written[t], OwnStatus(t))
        PROVE  OnTrack(good, session[t], toServer[t], Tail(toClient[t]), written[t],
                       OwnStatus(t))
    BY <1>1, <1>5, <2>1, <2>2, SliceTypes, HeaderOnTrack
  <2>3. QED
    BY <1>1, <1>5, <2>1, <2>2, TakeFollowed DEF c
<1>7. CASE ~first
  <2>1. TakeAndBecome(t, bad)
    BY <1>2, <1>7
  <2> HIDE DEF bad, c
  <2>2. ASSUME OnTrack(c, session[t], toServer[t], toClient[t], written[t], OwnStatus(t))
        PROVE  OnTrack(bad, session[t], toServer[t], Tail(toClient[t]), written[t],
                       OwnStatus(t))
    <3>1. ~c.whole
      BY <1>1, <2>2, NotWhole
    <3>2. QED
      BY <1>1, <1>4, <3>1, ErrorOnTrack
  <2>3. QED
    BY <1>1, <1>4, <2>1, <2>2, TakeFollowed DEF c
<1>8. QED
  BY <1>6, <1>7

\* A chunk is the next of the trace as long as none was lost; the last one makes
\* the client look for the sentinel.
LEMMA TakeChunkFollowed ==
  ASSUME TypeOK, Followed, NEW t \in Tools, TakeChunk(t)
  PROVE  Followed'
<1> DEFINE c == client[t]
           h == Taken(t)
           more == Append(c.received, h.num)
           next == IF Len(more) = c.numChunks THEN "Sentinel" ELSE "None"
           c1 == [c EXCEPT !.received = more]
           good == [c1 EXCEPT !.call = next]
           bad == [c EXCEPT !.state = "Error"]
           fits == h.command = "TraceDataChunk" /\ Len(c.received) < c.numChunks
<1>1. /\ c \in ClientTypes /\ c.open /\ c.call = "None" /\ c.state = "TraceCompleted"
      /\ toClient[t] # <<>>
  BY SliceTypes DEF TakeChunk, Receives, Free
<1>2. TakeAndBecome(t, IF fits THEN good ELSE bad)
  BY DEF TakeChunk
<1>3. more \in Seq(0..MaxChunks) /\ h = Head(toClient[t])
  <2>1. h \in Payloads
    BY <1>1, SliceTypes, TailAt DEF Taken
  <2>2. h.num \in 0..MaxChunks /\ c.received \in Seq(0..MaxChunks)
    BY <1>1, <2>1 DEF Payloads, ClientTypes
  <2>3. QED
    BY <2>2 DEF Taken
<1>4. /\ c1 \in ClientTypes /\ c1.state = c.state /\ c1.numChunks = c.numChunks
      /\ c1.open = c.open /\ c1.received = more /\ c1.whole = c.whole
  <2> HIDE DEF c, more
  <2>1. QED
    BY <1>1, <1>3, ClientReceived
<1>5. next \in Asks \cup {"None", "Sentinel", "Abort"}
  OBVIOUS
<1>6. /\ good \in ClientTypes /\ good.state = c.state /\ good.call = next
      /\ good.open = c.open /\ good.received = more /\ good.whole = c.whole
      /\ good.numChunks = c.numChunks
  <2> HIDE DEF c1, c, next, more
  <2>1. QED
    BY <1>4, <1>5, ClientCall
<1>7. /\ bad \in ClientTypes /\ bad.state = "Error" /\ bad.call = c.call
      /\ bad.open = c.open /\ bad.whole = c.whole
  <2> HIDE DEF c
  <2>1. "Error" \in {"Idle", "TraceRequested", "TraceCompleted", "Error"}
    OBVIOUS
  <2>2. QED
    BY <1>1, <2>1, ClientState
<1>8. CASE fits
  <2>1. /\ TakeAndBecome(t, good)
        /\ good.received = Append(c.received, Head(toClient[t]).num)
        /\ Head(toClient[t]).command = "TraceDataChunk"
        /\ Len(c.received) < c.numChunks
        /\ good.call = IF Len(good.received) = c.numChunks THEN "Sentinel" ELSE "None"
    BY <1>2, <1>3, <1>6, <1>8
  <2> HIDE DEF good, c, h, more, next
  <2>2. ASSUME OnTrack(c, session[t], toServer[t], toClient[t], written[t], OwnStatus(t))
        PROVE  OnTrack(good, session[t], toServer[t], Tail(toClient[t]), written[t],
                       OwnStatus(t))
    BY <1>1, <1>6, <2>1, <2>2, SliceTypes, ChunkOnTrack
  <2>3. QED
    BY <1>1, <1>6, <2>1, <2>2, TakeFollowed DEF c
<1>9. CASE ~fits
  <2>1. TakeAndBecome(t, bad)
    BY <1>2, <1>9
  <2> HIDE DEF bad, c
  <2>2. ASSUME OnTrack(c, session[t], toServer[t], toClient[t], written[t], OwnStatus(t))
        PROVE  OnTrack(bad, session[t], toServer[t], Tail(toClient[t]), written[t],
                       OwnStatus(t))
    <3>1. ~c.whole
      BY <1>1, <2>2, NotWhole
    <3>2. QED
      BY <1>1, <1>7, <3>1, ErrorOnTrack
  <2>3. QED
    BY <1>1, <1>7, <2>1, <2>2, TakeFollowed DEF c
<1>10. QED
  BY <1>8, <1>9

\* The payload behind the last chunk ends the trace.
LEMMA TakeSentinelFollowed ==
  ASSUME TypeOK, Followed, NEW t \in Tools, TakeSentinel(t)
  PROVE  Followed'
<1> DEFINE c == client[t]
           h == Taken(t)
           ends == h.command = "TraceDataSentinel"
           new == IF ends THEN "Idle" ELSE "Error"
           c1 == [c EXCEPT !.call = "None"]
           c2 == [c1 EXCEPT !.whole = ends]
           d == [c2 EXCEPT !.state = new]
<1>1. c \in ClientTypes /\ c.call = "Sentinel" /\ toClient[t] # <<>>
  BY SliceTypes DEF TakeSentinel, Takes
<1>2. TakeAndBecome(t, d)
  BY DEF TakeSentinel
<1>3. c.open
  BY <1>1, InCallIsOpen
<1>4. /\ c1 \in ClientTypes /\ c1.call = "None" /\ c1.open = c.open
      /\ c1.received = c.received
  <2> HIDE DEF c
  <2>1. "None" \in Asks \cup {"None", "Sentinel", "Abort"}
    OBVIOUS
  <2>2. QED
    BY <1>1, <2>1, ClientCall
<1>5. ends \in BOOLEAN /\ new \in {"Idle", "TraceRequested", "TraceCompleted", "Error"}
  OBVIOUS
<1>6. /\ c2 \in ClientTypes /\ c2.call = "None" /\ c2.open = c.open
      /\ c2.received = c.received /\ c2.whole = ends
  <2> HIDE DEF c1, c, ends
  <2>1. QED
    BY <1>4, <1>5, ClientWhole
<1>7. /\ d \in ClientTypes /\ d.call = "None" /\ d.open = c.open
      /\ d.received = c.received /\ d.whole = ends /\ d.state = new
  <2> HIDE DEF c2, c, ends, new
  <2>1. QED
    BY <1>5, <1>6, ClientState
<1>8. ends <=> Head(toClient[t]).command = "TraceDataSentinel"
  BY DEF Taken
<1>9. (ends => d.state = "Idle") /\ (~ends => d.state = "Error")
  BY <1>7
<1> HIDE DEF d, c, ends, new
<1>10. ASSUME OnTrack(c, session[t], toServer[t], toClient[t], written[t], OwnStatus(t))
       PROVE  OnTrack(d, session[t], toServer[t], Tail(toClient[t]), written[t],
                      OwnStatus(t))
  <2>1. CASE ends
    BY <1>1, <1>7, <1>8, <1>9, <1>10, <2>1, SliceTypes, SentinelOnTrack
  <2>2. CASE ~ends
    BY <1>7, <1>9, <2>2, ErrorOnTrack
  <2>3. QED
    BY <2>1, <2>2
<1>11. QED
  BY <1>2, <1>3, <1>7, <1>10, TakeFollowed DEF c

\* A client waits for the answer to its abort.
LEMMA TakeUntilSentinelFollowed ==
  ASSUME TypeOK, Followed, NEW t \in Tools, TakeUntilSentinel(t)
  PROVE  Followed'
<1> DEFINE c == client[t]
           h == Taken(t)
           new == IF h.result = "Aborted" THEN "Idle" ELSE "Error"
           c1 == [c EXCEPT !.call = "None"]
           d == [c1 EXCEPT !.state = new]
<1>1. c \in ClientTypes /\ c.call = "Abort" /\ toClient[t] # <<>>
  BY SliceTypes DEF TakeUntilSentinel, Takes
<1>2. TakeAndBecome(t, IF h.command # "TraceDataSentinel" THEN c ELSE d)
  BY DEF TakeUntilSentinel
<1>3. c.open
  BY <1>1, InCallIsOpen
<1>4. /\ c1 \in ClientTypes /\ c1.call = "None" /\ c1.open = c.open
      /\ c1.whole = c.whole
  <2> HIDE DEF c
  <2>1. "None" \in Asks \cup {"None", "Sentinel", "Abort"}
    OBVIOUS
  <2>2. QED
    BY <1>1, <2>1, ClientCall
<1>5. new \in {"Idle", "TraceRequested", "TraceCompleted", "Error"}
  OBVIOUS
<1>6. /\ d \in ClientTypes /\ d.call = "None" /\ d.open = c.open
      /\ d.whole = c.whole /\ d.state = new
  <2> HIDE DEF c1, c, new
  <2>1. QED
    BY <1>4, <1>5, ClientState
<1>7. h = Head(toClient[t])
  BY DEF Taken
<1>8. (h.result = "Aborted" => d.state = "Idle") /\ (h.result # "Aborted" => d.state = "Error")
  BY <1>6
<1> HIDE DEF d, c, h, new
<1>9. CASE h.command # "TraceDataSentinel"
  <2>1. TakeAndBecome(t, c) /\ SameTrace(c, c) /\ ~IsAborted(Head(toClient[t]))
    BY <1>2, <1>7, <1>9 DEF SameTrace, IsAborted
  <2>2. ASSUME OnTrack(c, session[t], toServer[t], toClient[t], written[t], OwnStatus(t))
        PROVE  OnTrack(c, session[t], toServer[t], Tail(toClient[t]), written[t],
                       OwnStatus(t))
    BY <1>1, <2>1, <2>2, SliceTypes, DropOnTrack
  <2>3. QED
    BY <1>3, <2>1, <2>2, TakeFollowed DEF c
<1>10. CASE h.command = "TraceDataSentinel"
  <2>1. TakeAndBecome(t, d)
    BY <1>2, <1>10
  <2>2. ASSUME OnTrack(c, session[t], toServer[t], toClient[t], written[t], OwnStatus(t))
        PROVE  OnTrack(d, session[t], toServer[t], Tail(toClient[t]), written[t],
                       OwnStatus(t))
    <3>1. CASE h.result = "Aborted"
      <4>1. IsAborted(Head(toClient[t])) /\ d.state = "Idle"
        BY <1>7, <1>8, <1>10, <3>1 DEF IsAborted
      <4>2. QED
        BY <1>1, <1>6, <2>2, <4>1, SliceTypes, AbortedOnTrack
    <3>2. CASE h.result # "Aborted"
      <4>1. c.call \notin Asks \cup {"None"}
        BY <1>1 DEF Asks
      <4>2. ~c.whole
        BY <2>2, <4>1, NotWhole
      <4>3. QED
        BY <1>6, <1>8, <3>2, <4>2, ErrorOnTrack
    <3>3. QED
      BY <3>1, <3>2
  <2>3. QED
    BY <1>3, <1>6, <2>1, <2>2, TakeFollowed DEF c
<1>11. QED
  BY <1>9, <1>10

\* Versions without a header: the promise is not for them.
LEMMA OldVersionFollowed ==
  ASSUME TypeOK, Followed, NEW t \in Tools, SkipHeader(t) \/ TakeChunkOrSentinel(t)
  PROVE  Followed'
<1>1. version[t] < RGP_TRACE_PROGRESS_VERSION /\ client[t].open
  BY DEF SkipHeader, TakeChunkOrSentinel, Receives, Free
<1>2. ~(version[t] >= RGP_TRACE_PROGRESS_VERSION)
  <2>1. version[t] \in 0..8
    BY DEF TypeOK
  <2>2. QED
    BY <1>1, <2>1 DEF RGP_TRACE_PROGRESS_VERSION
<1>3. client[t] \in ClientTypes
  BY SliceTypes
<1>4. PICK d : Become(t, d) /\ d.open
  <2>1. CASE SkipHeader(t)
    <3>1. [client[t] EXCEPT !.state = "TraceCompleted"].open
      BY <1>1, <1>3 DEF ClientTypes
    <3>2. QED
      BY <2>1, <3>1 DEF SkipHeader
  <2>2. CASE TakeChunkOrSentinel(t)
    <3> DEFINE c == client[t]
               good == [c EXCEPT !.received = Append(c.received, Taken(t).num)]
               other == [c EXCEPT !.whole = c.whole \/ Taken(t).command = "TraceDataSentinel"]
    <3>1. good.open /\ other.open
      BY <1>1, <1>3 DEF ClientTypes
    <3>2. Become(t, good) \/ Become(t, other)
      BY <2>2 DEF TakeChunkOrSentinel, TakeAndBecome
    <3> HIDE DEF good, other
    <3>3. QED
      BY <3>1, <3>2
  <2>3. QED
    BY <2>1, <2>2
<1>5. \A u \in Tools \ {t} : toServer'[u] = toServer[u] /\ toClient'[u] = toClient[u]
  BY DEF SkipHeader, TakeChunkOrSentinel, TakeAndBecome, TypeOK
<1>6. QED
  BY <1>1, <1>2, <1>4, <1>5, ClientFollowed

\* A client gives up its trace and waits for the answer.
LEMMA ClientAbortTraceFollowed ==
  ASSUME TypeOK, Followed, NEW t \in Tools, ClientAbortTrace(t)
  PROVE  Followed'
<1> DEFINE c == client[t]
           d == [c EXCEPT !.call = "Abort"]
           bad == [c EXCEPT !.state = "Error"]
           x == Request("AbortTrace")
<1>1. /\ c \in ClientTypes /\ c.open /\ c.call = "None"
      /\ c.state \in {"TraceRequested", "TraceCompleted"} /\ toClient' = toClient
  BY SliceTypes DEF ClientAbortTrace, Free
<1>2. /\ d \in ClientTypes /\ SameTrace(c, d) /\ d.call = "Abort" /\ d.open = c.open
      /\ bad \in ClientTypes /\ bad.state = "Error" /\ bad.call = c.call
      /\ bad.open = c.open /\ bad.whole = c.whole
  <2> HIDE DEF c
  <2>1. /\ "Abort" \in Asks \cup {"None", "Sentinel", "Abort"}
        /\ "Error" \in {"Idle", "TraceRequested", "TraceCompleted", "Error"}
    OBVIOUS
  <2>2. QED
    <3>1. d \in ClientTypes /\ SameTrace(c, d) /\ d.call = "Abort" /\ d.open = c.open
      BY <1>1, <2>1, ClientCall DEF SameTrace
    <3>2. /\ bad \in ClientTypes /\ bad.state = "Error" /\ bad.call = c.call
          /\ bad.open = c.open /\ bad.whole = c.whole
      BY <1>1, <2>1, ClientState
    <3>3. QED
      BY <3>1, <3>2
<1>3. x \in Payloads /\ IsAbort(x)
  BY RequestTypes DEF RGPMessage, Request, Payload, IsAbort
<1>4. CASE Room(toServer, t)
  <2>1. /\ toServer'[t] = Append(toServer[t], x)
        /\ \A u \in Tools \ {t} : toServer'[u] = toServer[u]
    BY <1>3, <1>4, GrownAt DEF TypeOK, ClientAbortTrace
  <2>2. Become(t, d)
    BY <1>4 DEF ClientAbortTrace
  <2> HIDE DEF c, d, x
  <2>3. ASSUME OnTrack(c, session[t], toServer[t], toClient[t], written[t], OwnStatus(t))
        PROVE  OnTrack(d, session[t], toServer'[t], toClient'[t], written[t],
                       OwnStatus(t))
    BY <1>1, <1>2, <1>3, <2>1, <2>3, SliceTypes, CallOnTrack
  <2>4. QED
    BY <1>1, <1>2, <2>1, <2>2, <2>3, ClientFollowed DEF c
<1>5. CASE ~Room(toServer, t)
  <2>1. toServer' = toServer /\ Become(t, bad)
    BY <1>5 DEF ClientAbortTrace
  <2> HIDE DEF c, bad
  <2>2. ASSUME OnTrack(c, session[t], toServer[t], toClient[t], written[t], OwnStatus(t))
        PROVE  OnTrack(bad, session[t], toServer'[t], toClient'[t], written[t],
                       OwnStatus(t))
    <3>1. ~c.whole
      BY <1>1, <2>2, NotWhole
    <3>2. QED
      BY <1>1, <1>2, <3>1, ErrorOnTrack
  <2>3. QED
    BY <1>1, <1>2, <2>1, <2>2, ClientFollowed DEF c
<1>6. QED
  BY <1>4, <1>5

\* A question times out without harm to the trace, any other call fails it.
LEMMA TimeOutFollowed ==
  ASSUME TypeOK, Followed, NEW t \in Tools, TimeOut(t)
  PROVE  Followed'
<1> DEFINE c == client[t]
           new == IF c.call \in Asks THEN c.state ELSE "Error"
           c1 == [c EXCEPT !.call = "None"]
           d == [c1 EXCEPT !.state = new]
<1>1. /\ c \in ClientTypes /\ c.open /\ Become(t, d)
      /\ toServer' = toServer /\ toClient' = toClient
      /\ c.call # "None" \/ c.state = "TraceCompleted"
  BY SliceTypes DEF TimeOut
<1>2. new \in {"Idle", "TraceRequested", "TraceCompleted", "Error"}
  BY <1>1 DEF ClientTypes
<1>3. /\ c1 \in ClientTypes /\ c1.call = "None" /\ c1.open = c.open
      /\ c1.numChunks = c.numChunks /\ c1.received = c.received /\ c1.whole = c.whole
  <2> HIDE DEF c
  <2>1. "None" \in Asks \cup {"None", "Sentinel", "Abort"}
    OBVIOUS
  <2>2. QED
    BY <1>1, <2>1, ClientCall
<1>4. /\ d \in ClientTypes /\ d.call = "None" /\ d.open = c.open
      /\ d.numChunks = c.numChunks /\ d.received = c.received /\ d.whole = c.whole
      /\ d.state = new
  <2> HIDE DEF c1, c, new
  <2>1. QED
    BY <1>2, <1>3, ClientState
<1>5. (c.call \in Asks => d.state = c.state) /\ (c.call \notin Asks => d.state = "Error")
  BY <1>4
<1> HIDE DEF c, d, new
<1>6. ASSUME OnTrack(c, session[t], toServer[t], toClient[t], written[t], OwnStatus(t))
      PROVE  OnTrack(d, session[t], toServer[t], toClient[t], written[t],
                     OwnStatus(t))
  <2>1. CASE c.call \in Asks
    <3>1. SameTrace(c, d)
      BY <1>4, <1>5, <2>1 DEF SameTrace
    <3>2. QED
      BY <1>1, <1>4, <1>6, <2>1, <3>1, SliceTypes, GiveUpOnTrack
  <2>2. CASE c.call \notin Asks
    <3>1. c.state # "Idle" \/ c.call \notin Asks \cup {"None"}
      BY <1>1, <2>2
    <3>2. ~c.whole
      BY <1>6, <3>1, NotWhole
    <3>3. QED
      BY <1>4, <1>5, <2>2, <3>2, ErrorOnTrack
  <2>3. QED
    BY <2>1, <2>2
<1>7. QED
  BY <1>1, <1>4, <1>6, ClientFollowed DEF c

\* Nothing is claimed of a client that is gone.
LEMMA LeaveFollowed ==
  ASSUME TypeOK, Followed, NEW t \in Tools, Leave(t)
  PROVE  Followed'
<1>1. /\ Become(t, NoClient) /\ client[t].open /\ toServer' = toServer
      /\ toClient' = toClient
  BY DEF Leave
<1>2. ~NoClient.open
  BY DEF NoClient
<1> DEFINE d == NoClient
<1> HIDE DEF d
<1>3. Become(t, d) /\ d = NoClient /\ ~d.open
  BY <1>1, <1>2 DEF d
<1>4. QED
  BY <1>1, <1>3, ClientFollowed

\* A new session has nothing on its way.
LEMMA ConnectFollowed ==
  ASSUME TypeOK, Owned, Followed, NEW t \in Tools, ConnectClient(t)
  PROVE  Followed'
<1> DEFINE d == [NoClient EXCEPT !.open = TRUE]
           s == NewSession
<1>1. /\ client' = [client EXCEPT ![t] = d] /\ session' = [session EXCEPT ![t] = s]
      /\ UNCHANGED <<traceStatus, current, toServer, toClient, misled, written>>
      /\ session[t].state = "None"
  BY DEF ConnectClient
<1>2. \A u \in Tools \ {t} : version'[u] = version[u]
  BY DEF ConnectClient, TypeOK
<1>3. /\ d.open /\ d.state = "Idle" /\ d.call = "None" /\ ~d.whole
      /\ s.state = "ReceivePayload"
  BY DEF NoClient, NewSession, NoSession
<1> HIDE DEF d, s
<1>4. /\ client'[t] = d /\ session'[t] = s
      /\ \A u \in Tools \ {t} : client'[u] = client[u] /\ session'[u] = session[u]
  BY <1>1 DEF TypeOK
<1>5. \A u : OwnStatus(u)' = OwnStatus(u)
  BY <1>1 DEF OwnStatus
<1>6. OthersKeep(t)
  BY <1>1, <1>2, <1>4, <1>5 DEF OthersKeep
<1>7. toServer[t] = <<>> /\ toClient[t] = <<>>
  BY <1>1 DEF Followed, Attached
<1>8. Attached(t)'
  BY <1>3, <1>4 DEF Attached
<1>9. OwnStatus(t) = "Idle"
  BY <1>1 DEF Owned, TraceHasOwner, OwnStatus
<1>10. /\ Calm(s) /\ AsksOnly(toServer'[t]) /\ AnswersOnly(toClient'[t])
  <2>1. Calm(s)
    BY <1>3 DEF Calm
  <2>2. toServer'[t] = <<>> /\ toClient'[t] = <<>>
    BY <1>1, <1>7
  <2>3. QED
    BY <2>1, <2>2 DEF AsksOnly, AnswersOnly
<1>11. Follows(t)'
  BY <1>3, <1>4, <1>5, <1>9, <1>10 DEF Follows, OnTrack
<1>12. QED
  BY <1>6, <1>8, <1>11, FollowedOne
-----------------------------------------------------------------------------
(* The steps of the server.                                                *)

\* A step of the server, or of the driver, that is about one session.
LEMMA ServedFollowed ==
  ASSUME TypeOK, Followed, NEW t \in Tools, UNCHANGED <<client, version, misled>>,
         \A u \in Tools \ {t} :
           /\ session'[u] = session[u] /\ written'[u] = written[u]
           /\ toServer'[u] = toServer[u] /\ toClient'[u] = toClient[u]
           /\ OwnStatus(u)' = OwnStatus(u),
         session'[t].state # "None",
         version[t] >= RGP_TRACE_PROGRESS_VERSION
           /\ OnTrack(client[t], session[t], toServer[t], toClient[t], written[t],
                      OwnStatus(t))
         => OnTrack(client[t], session'[t], toServer'[t], toClient'[t], written'[t],
                    OwnStatus(t)')
  PROVE  Followed'
<1>1. OthersKeep(t)
  BY DEF OthersKeep
<1>2. Attached(t) /\ Follows(t)
  BY DEF Followed
<1>3. Attached(t)'
  BY <1>2 DEF Attached
<1>4. Follows(t)'
  BY <1>2 DEF Follows
<1>5. QED
  BY <1>1, <1>3, <1>4, FollowedOne

\* The server takes the next payload of a session.
LEMMA ReceivePayloadFollowed ==
  ASSUME TypeOK, Owned, Followed, NEW t \in Tools, ReceivePayload(t)
  PROVE  Followed'
<1> DEFINE s == session[t]
           p == Head(toServer[t])
           s1 == [s EXCEPT !.payload = p]
           z == [s1 EXCEPT !.state = "ProcessPayload"]
<1>1. s \in SessionTypes /\ toServer[t] # <<>> /\ p \in Payloads /\ s.state = "ReceivePayload"
  BY SliceTypes, TailAt DEF ReceivePayload
<1>2. /\ s1 \in SessionTypes /\ s1.chunks = s.chunks /\ s1.abort = s.abort
      /\ s1.payload = p
  <2> HIDE DEF s, p
  <2>1. QED
    BY <1>1, SessionPayload
<1>3. /\ z \in SessionTypes /\ z.state = "ProcessPayload" /\ z.chunks = s.chunks
      /\ z.abort = s.abort /\ z.payload = p
  <2> HIDE DEF s1, s, p
  <2>1. QED
    BY <1>2, SessionState DEF SessionStates, SessionTypes
<1>4. /\ session' = [session EXCEPT ![t] = z]
      /\ toServer' = [toServer EXCEPT ![t] = Tail(toServer[t])]
      /\ UNCHANGED <<client, version, misled, written, toClient, traceStatus, current>>
      /\ traceStatus = "Idle"
  BY DEF ReceivePayload, TypeOK, MessageThreadKeeps
<1> HIDE DEF z
<1>5. /\ session'[t] = z /\ toServer'[t] = Tail(toServer[t])
      /\ \A u \in Tools \ {t} : session'[u] = session[u] /\ toServer'[u] = toServer[u]
  BY <1>4 DEF TypeOK
<1>6. \A u : OwnStatus(u) = "Idle" /\ OwnStatus(u)' = "Idle"
  BY <1>4 DEF OwnStatus
<1>7. ~s.abort
  BY <1>4, RgpAssumption DEF Owned, TraceHasOwner, OnlyOwnerHasChunks
<1> HIDE DEF s, p
<1>8. ASSUME OnTrack(client[t], s, toServer[t], toClient[t], written[t], "Idle")
      PROVE  OnTrack(client[t], z, Tail(toServer[t]), toClient[t], written[t], "Idle")
  BY <1>1, <1>3, <1>7, <1>8, SliceTypes, ReceiveOnTrack DEF p
<1>9. session'[t].state # "None"
  BY <1>3, <1>5
<1>10. QED
  BY <1>4, <1>5, <1>6, <1>8, <1>9, ServedFollowed DEF s

\* What an answer makes of a session.
LEMMA AnsweredSession ==
  ASSUME TypeOK, NEW t \in Tools, NEW p \in Payloads, session' = Answer(t, p)
  PROVE  /\ session'[t] \in SessionTypes /\ session'[t].state = "SendPayload"
         /\ session'[t].payload = p /\ session'[t].chunks = session[t].chunks
         /\ session'[t].abort = session[t].abort
         /\ \A u \in Tools \ {t} : session'[u] = session[u]
<1> DEFINE s == session[t]
           s1 == [s EXCEPT !.payload = p]
           z == [s1 EXCEPT !.state = "SendPayload"]
<1>1. s \in SessionTypes
  BY SliceTypes
<1>2. /\ s1 \in SessionTypes /\ s1.chunks = s.chunks /\ s1.abort = s.abort
      /\ s1.payload = p
  <2> HIDE DEF s
  <2>1. QED
    BY <1>1, SessionPayload
<1>3. /\ z \in SessionTypes /\ z.state = "SendPayload" /\ z.chunks = s.chunks
      /\ z.abort = s.abort /\ z.payload = p
  <2> HIDE DEF s1, s
  <2>1. QED
    BY <1>2, SessionState DEF SessionStates, SessionTypes
<1>4. session' = [session EXCEPT ![t] = z]
  BY DEF Answer, TypeOK
<1> HIDE DEF z
<1>5. session'[t] = z /\ \A u \in Tools \ {t} : session'[u] = session[u]
  BY <1>4 DEF TypeOK
<1>6. QED
  BY <1>3, <1>5

\* A question about profiling is answered.
LEMMA ProfilingAnswerFollowed ==
  ASSUME TypeOK, Followed, NEW t \in Tools,
         QueryProfilingStatusRequest(t) \/ EnableProfilingRequest(t)
  PROVE  Followed'
<1>1. PICK k \in Asks : Processes(t, k)
  BY DEF QueryProfilingStatusRequest, EnableProfilingRequest, Asks
<1>2. PICK p \in Payloads : p.command \in Answers /\ session' = Answer(t, p)
  <2>1. CASE QueryProfilingStatusRequest(t)
    <3>1. /\ Request("QueryProfilingStatusResponse") \in Payloads
          /\ Request("QueryProfilingStatusResponse").command \in Answers
      BY RequestTypes DEF Answers, RGPMessage, Request, Payload
    <3>2. QED
      BY <2>1, <3>1 DEF QueryProfilingStatusRequest
  <2>2. CASE EnableProfilingRequest(t)
    <3> DEFINE r == IF ~finalized /\ profiling = "Available" THEN "Success" ELSE "Error"
               p == Payload("EnableProfilingResponse", r, 0)
    <3>1. r \in {"Success", "Error", "Aborted"}
      OBVIOUS
    <3>2. session' = Answer(t, p)
      BY <2>2 DEF EnableProfilingRequest
    <3>3. p \in Payloads /\ p.command \in Answers
      <4> HIDE DEF r
      <4>1. 0 \in 0..MaxChunks
        BY RgpAssumption
      <4>2. QED
        BY <3>1, <4>1, PayloadTypes DEF Answers, RGPMessage, Payload
    <3> HIDE DEF p
    <3>4. QED
      BY <3>2, <3>3
  <2>3. QED
    BY <2>1, <2>2
<1>3. /\ session'[t] \in SessionTypes /\ session'[t].state = "SendPayload"
      /\ session'[t].payload = p /\ session'[t].chunks = session[t].chunks
      /\ session'[t].abort = session[t].abort
      /\ \A u \in Tools \ {t} : session'[u] = session[u]
  BY <1>2, AnsweredSession
<1>4. /\ UNCHANGED <<client, version, misled, written, toServer, toClient,
                     traceStatus, current>>
      /\ traceStatus = "Idle" /\ session[t].state = "ProcessPayload"
      /\ session[t].payload.command \in Asks
  BY <1>1 DEF QueryProfilingStatusRequest, EnableProfilingRequest, Processes,
              MessageThreadKeeps
<1>5. \A u : OwnStatus(u) = "Idle" /\ OwnStatus(u)' = "Idle"
  BY <1>4 DEF OwnStatus
<1>6. ASSUME OnTrack(client[t], session[t], toServer[t], toClient[t], written[t], "Idle")
      PROVE  OnTrack(client[t], session'[t], toServer[t], toClient[t], written[t], "Idle")
  BY <1>2, <1>3, <1>4, <1>6, SliceTypes, AnswerOnTrack
<1>7. session'[t].state # "None"
  BY <1>3
<1>8. QED
  BY <1>3, <1>4, <1>5, <1>6, <1>7, ServedFollowed

\* An answer, a refusal or the end of an aborted trace goes to the client.
LEMMA SendPayloadFollowed ==
  ASSUME TypeOK, Followed, NEW t \in Tools, SendPayload(t)
  PROVE  Followed'
<1> DEFINE s == session[t]
           z == [s EXCEPT !.state = "ReceivePayload"]
           x == s.payload
<1>1. s \in SessionTypes /\ s.state = "SendPayload" /\ x \in Payloads
  BY SliceTypes, SessionFieldTypes DEF SendPayload
<1>2. /\ z \in SessionTypes /\ z.state = "ReceivePayload" /\ z.chunks = s.chunks
      /\ z.abort = s.abort
  <2> HIDE DEF s
  <2>1. QED
    BY <1>1, SessionState DEF SessionStates
<1>3. /\ session' = [session EXCEPT ![t] = z]
      /\ toClient' = [toClient EXCEPT ![t] = Append(toClient[t], x)]
      /\ UNCHANGED <<client, version, misled, written, toServer, traceStatus, current>>
      /\ traceStatus = "Idle"
  BY DEF SendPayload, TypeOK, MessageThreadKeeps
<1> HIDE DEF z, x
<1>4. /\ session'[t] = z /\ \A u \in Tools \ {t} : session'[u] = session[u]
  BY <1>3 DEF TypeOK
<1>5. /\ toClient'[t] = Append(toClient[t], x)
      /\ \A u \in Tools \ {t} : toClient'[u] = toClient[u]
  BY <1>1, <1>3, GrownAt DEF TypeOK
<1>6. \A u : OwnStatus(u) = "Idle" /\ OwnStatus(u)' = "Idle"
  BY <1>3 DEF OwnStatus
<1>7. ASSUME OnTrack(client[t], s, toServer[t], toClient[t], written[t], "Idle")
      PROVE  OnTrack(client[t], z, toServer[t], Append(toClient[t], x), written[t], "Idle")
  <2> HIDE DEF s
  <2>1. QED
    BY <1>1, <1>2, <1>7, SliceTypes, SendOnTrack DEF x
<1>8. session'[t].state # "None"
  BY <1>2, <1>4
<1>9. QED
  BY <1>3, <1>4, <1>5, <1>6, <1>7, <1>8, ServedFollowed DEF s

\* A request begins a trace or is refused.
LEMMA ExecuteFollowed ==
  ASSUME TypeOK, Owned, Followed, NEW t \in Tools, ExecuteTraceRequest(t)
  PROVE  Followed'
<1>0. /\ traceStatus = "Idle" /\ session[t].state = "ProcessPayload"
      /\ IsExecute(session[t].payload) /\ current = NoTool
      /\ UNCHANGED <<client, version, misled, toServer, toClient>>
  BY DEF ExecuteTraceRequest, IsExecute, linkVars, Owned, TraceHasOwner
<1>1. CASE profiling = "Enabled"
  <2> DEFINE s == session[t]
             v == version[t]
             s1 == [s EXCEPT !.state = "TransferTraceData"]
             z == [s1 EXCEPT !.version = v]
             e == <<>>
  <2>1. s \in SessionTypes /\ v \in 0..8
    BY DEF TypeOK
  <2>2. /\ s1 \in SessionTypes /\ s1.state = "TransferTraceData"
        /\ s1.chunks = s.chunks /\ s1.abort = s.abort
    <3> HIDE DEF s
    <3>1. QED
      BY <2>1, SessionState DEF SessionStates
  <2>3. /\ z \in SessionTypes /\ z.state = s1.state /\ z.version = v
        /\ z.chunks = s.chunks /\ z.abort = s.abort
    <3> HIDE DEF s1, s, v
    <3>1. QED
      BY <2>1, <2>2, SessionVersion DEF SessionTypes
  <2>4. /\ session' = [session EXCEPT ![t] = z]
        /\ traceStatus' = "Pending" /\ current' = t
        /\ written' = [written EXCEPT ![t] = e]
    BY <1>1 DEF ExecuteTraceRequest, TypeOK
  <2> HIDE DEF z, e
  <2>5. /\ session'[t] = z /\ written'[t] = e
        /\ \A u \in Tools \ {t} : session'[u] = session[u] /\ written'[u] = written[u]
    BY <2>4 DEF TypeOK
  <2>6. /\ OwnStatus(t) = "Idle" /\ OwnStatus(t)' = "Pending"
        /\ \A u \in Tools \ {t} : OwnStatus(u) = "Idle" /\ OwnStatus(u)' = "Idle"
    BY <1>0, <2>4 DEF OwnStatus
  <2>7. z.chunks = <<>> /\ ~z.abort
    BY <1>0, <2>3, RgpAssumption DEF Owned, OnlyOwnerHasChunks
  <2>8. ASSUME v >= RGP_TRACE_PROGRESS_VERSION,
               OnTrack(client[t], s, toServer[t], toClient[t], written[t], "Idle")
        PROVE  OnTrack(client[t], z, toServer[t], toClient[t], <<>>, "Pending")
    <3>1. z.version >= RGP_TRACE_PROGRESS_VERSION
      BY <2>3, <2>8
    <3> HIDE DEF s, v
    <3>2. s.state = "ProcessPayload" /\ IsExecute(s.payload)
      BY <1>0 DEF s
    <3>3. QED
      BY <2>1, <2>3, <2>7, <2>8, <3>1, <3>2, SliceTypes, GrantedOnTrack
  <2>9. session'[t].state # "None"
    BY <2>2, <2>3, <2>5
  <2>10. QED
    BY <1>0, <2>5, <2>6, <2>8, <2>9, ServedFollowed DEF e
<1>2. CASE profiling # "Enabled"
  <2> DEFINE k == IF session[t].version >= RGP_TRACE_PROGRESS_VERSION
                  THEN "TraceDataHeader" ELSE "TraceDataSentinel"
             p == Payload(k, "Error", 0)
  <2>1. k \in {"TraceDataHeader", "TraceDataSentinel"}
    OBVIOUS
  <2>2. p \in Payloads /\ Refusal(p)
    <3> HIDE DEF k
    <3>1. 0 \in 0..MaxChunks
      BY RgpAssumption
    <3>2. QED
      BY <2>1, <3>1, PayloadTypes DEF RGPMessage, Refusal, Payload
  <2>3. session' = Answer(t, p) /\ UNCHANGED <<written, traceStatus, current>>
    BY <1>2 DEF ExecuteTraceRequest
  <2> HIDE DEF p
  <2>4. /\ session'[t] \in SessionTypes /\ session'[t].state = "SendPayload"
        /\ session'[t].payload = p
        /\ \A u \in Tools \ {t} : session'[u] = session[u]
    BY <2>2, <2>3, AnsweredSession
  <2>5. \A u : OwnStatus(u) = "Idle" /\ OwnStatus(u)' = "Idle"
    BY <1>0, <2>3 DEF OwnStatus
  <2>6. ASSUME OnTrack(client[t], session[t], toServer[t], toClient[t], written[t], "Idle")
        PROVE  OnTrack(client[t], session'[t], toServer[t], toClient[t], written[t], "Idle")
    BY <1>0, <2>2, <2>4, <2>6, SliceTypes, RefusedOnTrack
  <2>7. session'[t].state # "None"
    BY <2>4
  <2>8. QED
    BY <1>0, <2>3, <2>4, <2>5, <2>6, <2>7, ServedFollowed
<1>3. QED
  BY <1>1, <1>2

\* The session data when its trace is over.
LEMMA ClearedSession ==
  ASSUME NEW s \in SessionTypes, NEW sessions, NEW t \in Tools,
         sessions \in [Tools -> SessionTypes], sessions[t] = s, current = t,
         ClearCurrentSession(sessions)
  PROVE  /\ session'[t] \in SessionTypes /\ session'[t].state = "ReceivePayload"
         /\ session'[t].chunks = <<>> /\ ~session'[t].abort
         /\ session'[t].payload = s.payload
         /\ \A u \in Tools \ {t} : session'[u] = sessions[u]
         /\ \A u : OwnStatus(u)' = "Idle"
<1> DEFINE e == <<>>
           n == 0
           s1 == [s EXCEPT !.state = "ReceivePayload"]
           s2 == [s1 EXCEPT !.version = n]
           s3 == [s2 EXCEPT !.chunks = e]
           z == [s3 EXCEPT !.abort = FALSE]
<1>1. s1 \in SessionTypes /\ s1.state = "ReceivePayload" /\ s1.payload = s.payload
  BY SessionState DEF SessionStates, SessionTypes
<1>2. n \in 0..8 /\ e \in Seq(Payloads) /\ e = <<>>
  OBVIOUS
<1>3. s2 \in SessionTypes /\ s2.state = "ReceivePayload" /\ s2.payload = s.payload
  <2> HIDE DEF s1, n
  <2>1. QED
    BY <1>1, <1>2, SessionVersion DEF SessionTypes
<1>4. /\ s3 \in SessionTypes /\ s3.state = "ReceivePayload" /\ s3.chunks = e
      /\ s3.payload = s.payload
  <2> HIDE DEF s2, e
  <2>1. QED
    BY <1>2, <1>3, SessionChunks DEF SessionTypes
<1>5. /\ z \in SessionTypes /\ z.state = "ReceivePayload" /\ z.chunks = e
      /\ z.abort = FALSE /\ z.payload = s.payload
  <2> HIDE DEF s3, e
  <2>1. QED
    BY <1>4, SessionAbort DEF SessionTypes
<1>6. /\ session' = [sessions EXCEPT ![t] = z]
      /\ traceStatus' = "Idle"
  BY DEF ClearCurrentSession
<1> HIDE DEF z, e
<1>7. session'[t] = z /\ \A u \in Tools \ {t} : session'[u] = sessions[u]
  BY <1>6
<1>8. QED
  BY <1>2, <1>5, <1>6, <1>7 DEF OwnStatus

\* What the look for an abort finds.
LEMMA PolledFollowed ==
  ASSUME TypeOK, Owned, NEW t \in Tools, current = t,
         traceStatus \in {"Pending", "Running", "Finishing"},
         OnTrack(client[t], session[t], toServer[t], toClient[t], written[t],
                 traceStatus),
         NEW up, up = IF MayAbort(t) /\ toServer[t] # <<>> THEN Tail(toServer[t])
                      ELSE toServer[t]
  PROVE  /\ OnTrack(client[t], Polled(t), up, toClient[t], written[t], traceStatus)
         /\ Polled(t).version = session[t].version /\ up \in Seq(Payloads)
<1> DEFINE s == session[t]
           p == Head(toServer[t])
           asked == p.command = "AbortTrace"
           s1 == [s EXCEPT !.payload = p]
           z == [s1 EXCEPT !.abort = asked]
<1>1. CASE MayAbort(t) /\ toServer[t] # <<>>
  <2>1. s \in SessionTypes /\ p \in Payloads /\ Tail(toServer[t]) \in Seq(Payloads)
    BY <1>1, SliceTypes, TailAt
  <2>2. asked \in BOOLEAN /\ (asked <=> IsAbort(p))
    BY DEF IsAbort
  <2>3. /\ s1 \in SessionTypes /\ s1.state = s.state /\ s1.chunks = s.chunks
        /\ s1.version = s.version
    <3> HIDE DEF s, p
    <3>1. QED
      BY <2>1, SessionPayload DEF SessionTypes
  <2>4. /\ z \in SessionTypes /\ z.state = s.state /\ z.chunks = s.chunks
        /\ z.version = s.version /\ z.abort = asked
    <3> HIDE DEF s1, s, p, asked
    <3>1. QED
      BY <2>2, <2>3, SessionAbort DEF SessionTypes
  <2>5. Polled(t) = z /\ up = Tail(toServer[t])
    BY <1>1 DEF Polled
  <2>6. z.abort = IsAbort(Head(toServer[t]))
    <3> HIDE DEF z
    <3>1. IsAbort(p) \in BOOLEAN
      BY DEF IsAbort
    <3>2. QED
      BY <2>2, <2>4, <3>1
  <2> HIDE DEF z, asked
  <2>7. OnTrack(client[t], z, Tail(toServer[t]), toClient[t], written[t], traceStatus)
    BY <1>1, <2>1, <2>4, <2>6, SliceTypes, PollOnTrack
  <2>8. QED
    BY <2>1, <2>4, <2>5, <2>7
<1>2. CASE ~(MayAbort(t) /\ toServer[t] # <<>>)
  BY <1>2, SliceTypes DEF Polled
<1>3. QED
  BY <1>1, <1>2

\* The server sends what the window takes of a finished trace, or ends a trace
\* that its client has given up.
LEMMA UpdateTraceFollowed ==
  ASSUME TypeOK, Owned, Followed, NEW t \in Tools, UpdateTrace(t)
  PROVE  Followed'
<1> DEFINE s == Polled(t)
           room == Window - Len(toClient[t])
           sent == IF room < Len(s.chunks) THEN room ELSE Len(s.chunks)
           sentinel == Payload("TraceDataSentinel", "Aborted", 0)
           front == SubSeq(s.chunks, 1, sent)
           unsent == SubSeq(s.chunks, sent + 1, Len(s.chunks))
           told == [s EXCEPT !.payload = sentinel]
           rest == [s EXCEPT !.chunks = unsent]
           up == IF MayAbort(t) /\ toServer[t] # <<>> THEN Tail(toServer[t])
                 ELSE toServer[t]
           c == client[t]
           down == toClient[t]
           w == written[t]
           st == traceStatus
<1>1. /\ current = t /\ st \in {"Pending", "Running", "Finishing"}
      /\ UNCHANGED <<client, version, misled, written>>
      /\ session[t].state = "TransferTraceData"
  BY DEF UpdateTrace, MessageThreadKeeps, Owned, TraceHasOwner
<1>2. /\ s \in SessionTypes /\ s.state = "TransferTraceData"
      /\ s.chunks = session[t].chunks
  BY <1>1, PolledRight
<1>3. /\ toServer'[t] = up
      /\ \A u \in Tools \ {t} : toServer'[u] = toServer[u]
  <2>1. CASE MayAbort(t) /\ toServer[t] # <<>>
    <3>1. toServer' = [toServer EXCEPT ![t] = Tail(toServer[t])]
      BY <2>1 DEF UpdateTrace
    <3>2. QED
      BY <2>1, <3>1 DEF TypeOK
  <2>2. CASE ~(MayAbort(t) /\ toServer[t] # <<>>)
    BY <2>2 DEF UpdateTrace
  <2>3. QED
    BY <2>1, <2>2
<1>4. OwnStatus(t) = st /\ \A u \in Tools \ {t} : OwnStatus(u) = "Idle"
  BY <1>1 DEF OwnStatus
<1>5. ASSUME OnTrack(c, session[t], toServer[t], down, w, st)
      PROVE  OnTrack(c, s, up, down, w, st) /\ up \in Seq(Payloads)
  BY <1>1, <1>5, PolledFollowed
<1>6. /\ sentinel \in Payloads /\ IsAborted(sentinel)
  <2>1. 0 \in 0..MaxChunks
    BY RgpAssumption
  <2>2. QED
    BY <2>1, PayloadTypes DEF RGPMessage, IsAborted, Payload
<1>7. /\ told \in SessionTypes /\ told.state = s.state /\ told.chunks = s.chunks
      /\ told.abort = s.abort /\ told.version = s.version
  <2> HIDE DEF s, sentinel
  <2>1. QED
    BY <1>2, <1>6, SessionPayload DEF SessionTypes
<1>8. /\ s.chunks \in Seq(Payloads) /\ Len(s.chunks) \in Nat /\ down \in Seq(Payloads)
      /\ c \in ClientTypes /\ w \in Seq(1..MaxChunks)
  BY <1>2, SessionFieldTypes, SliceTypes
<1>9. sent \in 0..Len(s.chunks)
  <2> HIDE DEF s
  <2>1. Window \in Nat /\ Len(toClient[t]) \in 0..Window
    BY RgpAssumption, <1>8 DEF TypeOK
  <2>2. sent = IF Window - Len(toClient[t]) < Len(s.chunks)
               THEN Window - Len(toClient[t]) ELSE Len(s.chunks)
    OBVIOUS
  <2> HIDE DEF sent, room
  <2>3. QED
    BY <1>8, <2>1, <2>2, RoomBounds
<1>10. /\ front \in Seq(Payloads) /\ unsent \in Seq(Payloads)
       /\ unsent = <<>> <=> sent = Len(s.chunks)
  <2> HIDE DEF s, sent
  <2>1. /\ front \in Seq(Payloads) /\ unsent \in Seq(Payloads)
        /\ Len(unsent) = Len(s.chunks) - sent
    BY <1>8, <1>9
  <2>2. unsent = <<>> <=> Len(unsent) = 0
    <3> HIDE DEF unsent
    <3>1. QED
      BY <2>1
  <2>3. QED
    BY <1>8, <1>9, <2>1, <2>2
<1>11. /\ rest \in SessionTypes /\ rest.state = s.state /\ rest.chunks = unsent
       /\ rest.abort = s.abort
  <2> HIDE DEF s, unsent
  <2>1. QED
    BY <1>2, <1>10, SessionChunks DEF SessionTypes
<1>12. ASSUME NEW x \in SessionTypes, ClearCurrentSession([session EXCEPT ![t] = x])
       PROVE  /\ session'[t] \in SessionTypes /\ session'[t].state = "ReceivePayload"
              /\ session'[t].chunks = <<>> /\ ~session'[t].abort
              /\ \A u \in Tools \ {t} : session'[u] = session[u]
              /\ \A u : OwnStatus(u)' = "Idle"
  <2> DEFINE sessions == [session EXCEPT ![t] = x]
  <2>1. /\ sessions \in [Tools -> SessionTypes] /\ sessions[t] = x
        /\ \A u \in Tools \ {t} : sessions[u] = session[u]
    BY DEF TypeOK
  <2>2. ClearCurrentSession(sessions)
    BY <1>12
  <2> HIDE DEF sessions
  <2>3. QED
    BY <1>1, <2>1, <2>2, ClearedSession
<1>13. ASSUME NEW x \in SessionTypes, KeepCurrentSession([session EXCEPT ![t] = x])
       PROVE  /\ session'[t] = x /\ \A u \in Tools \ {t} : session'[u] = session[u]
              /\ \A u : OwnStatus(u)' = OwnStatus(u)
  BY <1>13 DEF KeepCurrentSession, OwnStatus, TypeOK
<1>14. CASE s.abort
  <2>1. CASE Room(toClient, t)
    <3>1. /\ toClient' = [toClient EXCEPT ![t] = Append(toClient[t], sentinel)]
          /\ ClearCurrentSession([session EXCEPT ![t] = told])
      BY <1>14, <2>1, Zenon DEF UpdateTrace
    <3> HIDE DEF s, sentinel, told, up
    <3>2. /\ toClient'[t] = Append(down, sentinel)
          /\ \A u \in Tools \ {t} : toClient'[u] = toClient[u]
      BY <1>6, <3>1, GrownAt DEF TypeOK
    <3>3. /\ session'[t] \in SessionTypes /\ session'[t].state = "ReceivePayload"
          /\ \A u \in Tools \ {t} : session'[u] = session[u]
          /\ \A u : OwnStatus(u)' = "Idle"
      BY <1>7, <1>12, <3>1
    <3>4. ASSUME OnTrack(c, session[t], toServer[t], down, w, st)
          PROVE  OnTrack(c, session'[t], toServer'[t], toClient'[t], written'[t], "Idle")
      <4>1. OnTrack(c, s, up, down, w, st) /\ up \in Seq(Payloads)
        BY <1>5, <3>4
      <4>2. OnTrack(c, session'[t], up, Append(down, sentinel), w, "Idle")
        BY <1>1, <1>2, <1>6, <1>8, <1>14, <3>3, <4>1, ClearOnTrack
      <4>3. QED
        BY <1>1, <1>3, <3>2, <4>2
    <3>5. session'[t].state # "None"
      BY <3>3
    <3>6. QED
      BY <1>1, <1>3, <1>4, <3>2, <3>3, <3>4, <3>5, ServedFollowed
  <2>2. CASE ~Room(toClient, t)
    <3>1. toClient' = toClient /\ KeepCurrentSession([session EXCEPT ![t] = told])
      BY <1>14, <2>2, Zenon DEF UpdateTrace
    <3> HIDE DEF s, told, up
    <3>2. /\ session'[t] = told /\ \A u \in Tools \ {t} : session'[u] = session[u]
          /\ \A u : OwnStatus(u)' = OwnStatus(u)
      BY <1>7, <1>13, <3>1
    <3>3. ASSUME OnTrack(c, session[t], toServer[t], down, w, st)
          PROVE  OnTrack(c, session'[t], toServer'[t], toClient'[t], written'[t], st)
      <4>1. OnTrack(c, s, up, down, w, st)
        BY <1>5, <3>3
      <4>2. OnTrack(c, told, up, down, w, st)
        BY <1>2, <1>7, <4>1, FillOnTrack
      <4>3. QED
        BY <1>1, <1>3, <3>1, <3>2, <4>2
    <3>4. session'[t].state # "None"
      BY <1>2, <1>7, <3>2
    <3>5. QED
      BY <1>1, <1>3, <1>4, <3>1, <3>2, <3>3, <3>4, ServedFollowed
  <2>3. QED
    BY <2>1, <2>2
<1>15. CASE ~s.abort /\ SendsTraceData(t)
  <2>1. /\ toClient' = [toClient EXCEPT ![t] = toClient[t] \o front]
        /\ IF unsent = <<>> /\ st = "Finishing"
           THEN ClearCurrentSession([session EXCEPT ![t] = rest])
           ELSE KeepCurrentSession([session EXCEPT ![t] = rest])
    BY <1>15, Zenon DEF UpdateTrace
  <2>2. /\ toClient'[t] = down \o front
        /\ \A u \in Tools \ {t} : toClient'[u] = toClient[u]
    BY <2>1 DEF TypeOK
  <2>3. version[t] >= RGP_TRACE_PROGRESS_VERSION => st = "Finishing"
    <3>1. version[t] \in 0..8
      BY DEF TypeOK
    <3>2. QED
      BY <1>15, <3>1 DEF SendsTraceData, RGP_TRACE_PROGRESS_VERSION
  <2>4. down \o front \in Seq(Payloads)
    BY <1>8, <1>10, ConcatProperties
  <2>5. CASE unsent = <<>> /\ st = "Finishing"
    <3> HIDE DEF s, rest, up
    <3>1. /\ session'[t] \in SessionTypes /\ session'[t].state = "ReceivePayload"
          /\ session'[t].chunks = <<>> /\ ~session'[t].abort
          /\ \A u \in Tools \ {t} : session'[u] = session[u]
          /\ \A u : OwnStatus(u)' = "Idle"
      BY <1>11, <1>12, <2>1, <2>5
    <3>2. ASSUME OnTrack(c, session[t], toServer[t], down, w, st)
          PROVE  OnTrack(c, session'[t], toServer'[t], toClient'[t], written'[t], "Idle")
      <4> DEFINE z == session'[t]
      <4>1. OnTrack(c, s, up, down, w, "Finishing") /\ up \in Seq(Payloads)
        BY <1>5, <2>5, <3>2
      <4>2. z \in SessionTypes /\ ~z.abort /\ z.chunks = unsent /\ z.state = "ReceivePayload"
        BY <2>5, <3>1
      <4> HIDE DEF z, sent
      <4>3. OnTrack(c, z, up, down \o front, w,
                    IF sent = Len(s.chunks) THEN "Idle" ELSE "Finishing")
        BY <1>2, <1>8, <1>9, <1>15, <2>4, <4>1, <4>2, ChunksOnTrack
      <4>4. sent = Len(s.chunks)
        BY <1>10, <2>5
      <4>5. OnTrack(c, z, up, down \o front, w, "Idle")
        BY <4>3, <4>4
      <4>6. QED
        BY <1>1, <1>3, <2>2, <4>5 DEF z
    <3>3. session'[t].state # "None"
      BY <3>1
    <3>4. QED
      BY <1>1, <1>3, <1>4, <2>2, <3>1, <3>2, <3>3, ServedFollowed
  <2>6. CASE ~(unsent = <<>> /\ st = "Finishing")
    <3>1. KeepCurrentSession([session EXCEPT ![t] = rest])
      BY <2>1, <2>6
    <3> HIDE DEF s, rest, up
    <3>2. /\ session'[t] = rest /\ \A u \in Tools \ {t} : session'[u] = session[u]
          /\ \A u : OwnStatus(u)' = OwnStatus(u)
      BY <1>11, <1>13, <3>1
    <3>3. ASSUME version[t] >= RGP_TRACE_PROGRESS_VERSION,
                 OnTrack(c, session[t], toServer[t], down, w, st)
          PROVE  OnTrack(c, session'[t], toServer'[t], toClient'[t], written'[t], st)
      <4>1. OnTrack(c, s, up, down, w, "Finishing") /\ up \in Seq(Payloads)
        BY <1>5, <2>3, <3>3
      <4>2. sent # Len(s.chunks) /\ st = "Finishing"
        BY <1>10, <2>3, <2>6, <3>3
      <4> HIDE DEF sent
      <4>3. OnTrack(c, rest, up, down \o front, w,
                    IF sent = Len(s.chunks) THEN "Idle" ELSE "Finishing")
        BY <1>2, <1>8, <1>9, <1>11, <1>15, <2>4, <4>1, <4>2, ChunksOnTrack
      <4>4. OnTrack(c, rest, up, down \o front, w, "Finishing")
        BY <4>2, <4>3
      <4>5. QED
        BY <1>1, <1>3, <2>2, <3>2, <4>2, <4>4
    <3>4. session'[t].state # "None"
      BY <1>2, <1>11, <3>2
    <3>5. QED
      BY <1>1, <1>3, <1>4, <2>2, <3>2, <3>3, <3>4, ServedFollowed
  <2>7. QED
    BY <2>5, <2>6
<1>16. CASE ~s.abort /\ ~SendsTraceData(t)
  <2>1. toClient' = toClient /\ KeepCurrentSession([session EXCEPT ![t] = s])
    BY <1>16, Zenon DEF UpdateTrace
  <2> HIDE DEF s, up
  <2>2. /\ session'[t] = s /\ \A u \in Tools \ {t} : session'[u] = session[u]
        /\ \A u : OwnStatus(u)' = OwnStatus(u)
    BY <1>2, <1>13, <2>1
  <2>3. ASSUME OnTrack(c, session[t], toServer[t], down, w, st)
        PROVE  OnTrack(c, session'[t], toServer'[t], toClient'[t], written'[t], st)
    <3>1. OnTrack(c, s, up, down, w, st)
      BY <1>5, <2>3
    <3>2. QED
      BY <1>1, <1>3, <2>1, <2>2, <3>1
  <2>4. session'[t].state # "None"
    BY <1>2, <2>2
  <2>5. QED
    BY <1>1, <1>3, <1>4, <2>1, <2>2, <2>3, <2>4, ServedFollowed
<1>17. QED
  BY <1>14, <1>15, <1>16

\* The refusal for the driver's abort goes to the session that is updated;
\* a session with no part in the trace is misled by what it gets.
LEMMA UpdateAbortingFollowed ==
  ASSUME TypeOK, Owned, Followed, NEW t \in Tools, UpdateAborting(t)
  PROVE  Followed'
<1> DEFINE k == IF session[current].version >= RGP_TRACE_PROGRESS_VERSION
                THEN "TraceDataHeader" ELSE "TraceDataSentinel"
           p == Payload(k, "Error", 0)
           s == session[current]
           told == [s EXCEPT !.payload = p]
           filled == [session EXCEPT ![current] = told]
<1>1. /\ current \in Tools /\ traceStatus = "Aborting" /\ session[t].state # "None"
      /\ UNCHANGED <<client, version, written, toServer>>
      /\ s.state = "TransferTraceData"
  BY DEF UpdateAborting, Owned, TraceHasOwner, TypeOK
<1>2. p \in Payloads /\ Refusal(p)
  <2>1. k \in {"TraceDataHeader", "TraceDataSentinel"} /\ 0 \in 0..MaxChunks
    BY RgpAssumption
  <2> HIDE DEF k
  <2>2. QED
    BY <2>1, PayloadTypes DEF RGPMessage, Refusal, Payload
<1>3. s \in SessionTypes
  BY <1>1, SliceTypes
<1>4. /\ told \in SessionTypes /\ told.state = s.state /\ told.payload = p
      /\ told.chunks = s.chunks /\ told.abort = s.abort /\ told.version = s.version
  <2> HIDE DEF s, p
  <2>1. QED
    BY <1>2, <1>3, SessionPayload DEF SessionTypes
<1>5. /\ Room(toClient, t) =>
           /\ toClient' = [toClient EXCEPT ![t] = Append(toClient[t], filled[t].payload)]
           /\ misled' = misled \cup ({t} \ {current})
           /\ ClearCurrentSession(filled)
      /\ ~Room(toClient, t) =>
           /\ KeepCurrentSession(filled)
           /\ toClient' = toClient /\ misled' = misled
  <2>1. CASE Room(toClient, t)
    BY <1>1, <2>1, Zenon DEF UpdateAborting
  <2>2. CASE ~Room(toClient, t)
    BY <1>1, <2>2, Zenon DEF UpdateAborting
  <2>3. QED
    BY <2>1, <2>2
<1> HIDE DEF told, p
<1>6. /\ filled \in [Tools -> SessionTypes] /\ filled[current] = told
      /\ \A u \in Tools \ {current} : filled[u] = session[u]
  BY <1>1, <1>4 DEF TypeOK
<1> HIDE DEF filled
<1>7. /\ OwnStatus(current) = "Aborting"
      /\ \A u \in Tools \ {current} : OwnStatus(u) = "Idle"
  BY <1>1 DEF OwnStatus
<1> DEFINE v == current
<1>8. v \in Tools /\ v = current
  BY <1>1
<1> HIDE DEF v
<1>9. CASE ~Room(toClient, t)
  <2>1. session' = filled /\ UNCHANGED <<traceStatus, current, toClient, misled>>
    BY <1>5, <1>9 DEF KeepCurrentSession
  <2>2. session'[v] = told /\ \A u \in Tools \ {v} : session'[u] = session[u]
    BY <1>6, <1>8, <2>1
  <2>3. \A u : OwnStatus(u)' = OwnStatus(u)
    BY <2>1 DEF OwnStatus
  <2>4. ASSUME OnTrack(client[v], session[v], toServer[v], toClient[v], written[v],
                       OwnStatus(v))
        PROVE  OnTrack(client[v], told, toServer[v], toClient[v], written[v],
                       OwnStatus(v))
    <3>1. session[v].state = "TransferTraceData" /\ session[v] = s
      BY <1>1, <1>8
    <3>2. QED
      BY <1>4, <2>4, <3>1, FillOnTrack
  <2>5. session'[v].state # "None"
    BY <1>1, <1>4, <2>2
  <2>6. QED
    BY <1>1, <1>8, <2>1, <2>2, <2>3, <2>4, <2>5, ServedFollowed
<1>10. CASE Room(toClient, t)
  <2> DEFINE x == filled[t].payload
  <2>1. /\ toClient' = [toClient EXCEPT ![t] = Append(toClient[t], x)]
        /\ misled' = misled \cup ({t} \ {current})
    BY <1>5, <1>10
  <2>2. /\ session'[v].state = "ReceivePayload" /\ session'[v] \in SessionTypes
        /\ \A u \in Tools \ {v} : session'[u] = filled[u]
        /\ \A u : OwnStatus(u)' = "Idle"
    BY <1>4, <1>5, <1>6, <1>8, <1>10, ClearedSession
  <2>3. x \in Payloads
    <3>1. filled[t] \in SessionTypes
      BY <1>6
    <3>2. QED
      BY <3>1, SessionFieldTypes
  <2>4. t = v => x = p
    BY <1>4, <1>6, <1>8
  <2> HIDE DEF x
  <2>5. /\ toClient'[t] = Append(toClient[t], x)
        /\ \A u \in Tools \ {t} : toClient'[u] = toClient[u]
    BY <2>1, <2>3, GrownAt DEF TypeOK
  <2>6. ASSUME NEW u \in Tools PROVE Attached(u)' /\ Follows(u)'
    <3>0. Attached(u) /\ Follows(u)
      BY DEF Followed
    <3>1. CASE u = v
      <4>1. toClient'[u] = toClient[u] \/ toClient'[u] = Append(toClient[u], p)
        BY <2>4, <2>5, <3>1
      <4>2. ASSUME OnTrack(client[u], session[u], toServer[u], toClient[u], written[u],
                           "Aborting")
            PROVE  OnTrack(client[u], session'[u], toServer[u], toClient'[u],
                           written[u], "Idle")
        BY <1>2, <2>2, <3>1, <4>1, <4>2, SliceTypes, AbortedByDriverOnTrack
      <4>3. u \in misled' <=> u \in misled
        BY <1>8, <2>1, <3>1
      <4>4. OwnStatus(u) = "Aborting" /\ OwnStatus(u)' = "Idle"
        BY <1>7, <1>8, <2>2, <3>1
      <4>5. Follows(u)'
        BY <1>1, <3>0, <4>2, <4>3, <4>4 DEF Follows
      <4>6. session'[u].state # "None" /\ session[u].state # "None"
        BY <1>1, <1>8, <2>2, <3>1
      <4>7. Attached(u)'
        BY <1>1, <3>0, <4>6 DEF Attached
      <4>8. QED
        BY <4>5, <4>7
    <3>2. CASE u # v /\ u = t
      <4>1. u \in misled' /\ session'[u] = session[u] /\ session[u].state # "None"
        BY <1>1, <1>6, <1>8, <2>1, <2>2, <3>2
      <4>2. Attached(u)'
        BY <1>1, <3>0, <4>1 DEF Attached
      <4>3. QED
        BY <4>1, <4>2 DEF Follows
    <3>3. CASE u # v /\ u # t
      <4>1. /\ session'[u] = session[u] /\ toClient'[u] = toClient[u]
            /\ (u \in misled' <=> u \in misled)
            /\ OwnStatus(u) = "Idle" /\ OwnStatus(u)' = "Idle"
        BY <1>6, <1>7, <1>8, <2>1, <2>2, <2>5, <3>3
      <4>2. Attached(u)'
        BY <1>1, <3>0, <4>1 DEF Attached
      <4>3. Follows(u)'
        BY <1>1, <3>0, <4>1 DEF Follows
      <4>4. QED
        BY <4>2, <4>3
    <3>4. QED
      BY <3>1, <3>2, <3>3
  <2>7. QED
    BY <2>6 DEF Followed
<1>11. QED
  BY <1>9, <1>10

\* A session that ends takes its trace with it.
LEMMA SessionTerminatedFollowed ==
  ASSUME TypeOK, Owned, Followed, NEW t \in Tools, SessionTerminated(t)
  PROVE  Followed'
<1> DEFINE e == <<>>
           s == NoSession
<1>1. /\ ~client[t].open /\ session' = [session EXCEPT ![t] = s]
      /\ version' = [version EXCEPT ![t] = 0] /\ misled' = misled \ {t}
      /\ toServer' = [toServer EXCEPT ![t] = e]
      /\ toClient' = [toClient EXCEPT ![t] = e]
      /\ UNCHANGED <<client, written>>
  BY DEF SessionTerminated
<1>2. s.state = "None" /\ e = <<>>
  BY DEF NoSession
<1> HIDE DEF s, e
<1>3. /\ session'[t] = s /\ toServer'[t] = e /\ toClient'[t] = e
      /\ \A u \in Tools \ {t} :
           /\ session'[u] = session[u] /\ version'[u] = version[u]
           /\ toServer'[u] = toServer[u] /\ toClient'[u] = toClient[u]
  BY <1>1 DEF TypeOK
<1>4. ASSUME NEW u \in Tools \ {t} PROVE OwnStatus(u)' = OwnStatus(u)
  <2>1. CASE current = t
    BY <1>4, <2>1, RgpAssumption DEF SessionTerminated, OwnStatus
  <2>2. CASE current # t
    BY <2>2 DEF SessionTerminated, OwnStatus
  <2>3. QED
    BY <2>1, <2>2
<1>5. OthersKeep(t)
  BY <1>1, <1>3, <1>4 DEF OthersKeep
<1>6. Attached(t)
  BY DEF Followed
<1>7. Attached(t)'
  BY <1>1, <1>2, <1>3, <1>6 DEF Attached
<1>8. Follows(t)'
  BY <1>1 DEF Follows
<1>9. QED
  BY <1>5, <1>7, <1>8, FollowedOne
-----------------------------------------------------------------------------
(* The steps of the driver.                                                *)

\* A step of the driver that touches no session.
LEMMA FollowedFrame ==
  ASSUME Followed, UNCHANGED <<traceStatus, current, session, linkVars, client, written>>
  PROVE  Followed'
<1>1. ASSUME NEW u \in Tools PROVE Attached(u)' /\ Follows(u)'
  <2>1. Attached(u) /\ Follows(u)
    BY DEF Followed
  <2>2. /\ client' = client /\ session' = session /\ version' = version
        /\ toServer' = toServer /\ toClient' = toClient /\ misled' = misled
        /\ written' = written
    BY DEF linkVars
  <2>3. OwnStatus(u)' = OwnStatus(u)
    BY DEF OwnStatus
  <2>4. Attached(u)'
    BY <2>1, <2>2 DEF Attached
  <2>5. Follows(u)'
    BY <2>1, <2>2, <2>3 DEF Follows
  <2>6. QED
    BY <2>4, <2>5
<1>2. QED
  BY <1>1 DEF Followed

\* The driver changes the status of the trace, or its data.
LEMMA DrivenFollowed ==
  ASSUME TypeOK, Owned, Followed, NEW t \in Tools, current = t, DriverKeeps,
         \A u \in Tools \ {t} : session'[u] = session[u] /\ written'[u] = written[u],
         session'[t].state = session[t].state,
         OnTrack(client[t], session[t], toServer[t], toClient[t], written[t],
                 traceStatus)
           => OnTrack(client[t], session'[t], toServer[t], toClient[t], written'[t],
                      traceStatus')
  PROVE  Followed'
<1>1. /\ current' = t
      /\ UNCHANGED <<client, version, misled, toServer, toClient>>
  BY DEF DriverKeeps, linkVars
<1>2. /\ OwnStatus(t) = traceStatus /\ OwnStatus(t)' = traceStatus'
      /\ \A u \in Tools \ {t} : OwnStatus(u) = "Idle" /\ OwnStatus(u)' = "Idle"
  BY <1>1 DEF OwnStatus
<1>3. session'[t].state # "None"
  BY DEF Owned, TraceHasOwner
<1>4. QED
  BY <1>1, <1>2, <1>3, ServedFollowed

\* Chunks that the driver writes are the next of its trace.
LEMMA WriteTraceDataFollowed ==
  ASSUME TypeOK, Owned, Followed, NEW k \in 1..MaxChunks, WriteTraceData(k)
  PROVE  Followed'
<1> DEFINE t == current
           s == session[t]
           new == [i \in 1..k |-> chunks + i]
           cut == [i \in 1..k |-> Payload("TraceDataChunk", "Success", new[i])]
           m == s.chunks \o cut
           z == [s EXCEPT !.chunks = m]
           w == written[t] \o new
<1>1. /\ t \in Tools /\ traceStatus = "Running" /\ traceStatus' = traceStatus
      /\ DriverKeeps
  BY DEF TypeOK, WriteTraceData
<1>2. /\ k \in Nat /\ k >= 1 /\ chunks \in Nat /\ MaxChunks \in Nat
      /\ chunks + k <= MaxChunks
  BY RgpAssumption DEF WriteTraceData, TypeOK
<1>3. \A i \in 1..k : new[i] \in 1..MaxChunks /\ new[i] \in 0..MaxChunks
  BY <1>2
<1>4. new \in [1..k -> 1..MaxChunks]
  BY <1>3
<1>5. /\ cut \in [1..k -> Payloads]
      /\ \A i \in 1..k : cut[i] = Payload("TraceDataChunk", "Success", new[i])
  <2> HIDE DEF new
  <2>1. \A i \in 1..k : Payload("TraceDataChunk", "Success", new[i]) \in Payloads
    BY <1>3, PayloadTypes DEF RGPMessage
  <2>2. QED
    BY <2>1
<1>6. /\ s \in SessionTypes /\ s.chunks \in Seq(Payloads)
  BY <1>1, SliceTypes, SessionFieldTypes
<1>7. /\ session' = [session EXCEPT ![t] = z]
      /\ written' = [written EXCEPT ![t] = w]
  BY <1>1 DEF WriteTraceData, TypeOK
<1> HIDE DEF new, cut
<1>8. m \in Seq(Payloads)
  <2>1. cut \in Seq(Payloads)
    BY <1>2, <1>5, CountedIsSeq
  <2> HIDE DEF s
  <2>2. QED
    BY <1>6, <2>1, ConcatProperties
<1>9. /\ z \in SessionTypes /\ z.state = s.state /\ z.chunks = m /\ z.abort = s.abort
      /\ z.version = s.version
  <2> HIDE DEF m, s
  <2>1. QED
    BY <1>6, <1>8, SessionChunks DEF SessionTypes
<1> HIDE DEF z, w
<1>10. /\ session'[t] = z /\ written'[t] = w
       /\ \A u \in Tools \ {t} : session'[u] = session[u] /\ written'[u] = written[u]
  BY <1>1, <1>7 DEF TypeOK
<1>11. ASSUME OnTrack(client[t], s, toServer[t], toClient[t], written[t], "Running")
       PROVE  OnTrack(client[t], z, toServer[t], toClient[t], w, "Running")
  <2> HIDE DEF s
  <2>1. OnTrack(client[t], z, toServer[t], toClient[t], written[t] \o new, "Running")
    <3>1. client[t] \in ClientTypes /\ written[t] \in Seq(1..MaxChunks)
      BY <1>1, SliceTypes
    <3>2. QED
      BY <1>2, <1>4, <1>5, <1>6, <1>9, <1>11, <3>1, WrittenOnTrack
  <2>2. QED
    BY <2>1 DEF w
<1> HIDE DEF s
<1>12. session'[t].state = s.state /\ s = session[t]
  BY <1>9, <1>10 DEF s
<1>13. QED
  BY <1>1, <1>10, <1>11, <1>12, DrivenFollowed

\* The driver completes a trace with header and sentinel.
LEMMA EndTraceFollowed ==
  ASSUME TypeOK, Owned, Followed, EndTrace
  PROVE  Followed'
<1> DEFINE t == current
           s == session[t]
           old == s.chunks
           h == Payload("TraceDataHeader", "Success", Len(old))
           e == Request("TraceDataSentinel")
           before == IF s.version >= RGP_TRACE_PROGRESS_VERSION THEN <<h>> ELSE <<>>
           m == before \o old \o <<e>>
           z == [s EXCEPT !.chunks = m]
<1>1. /\ t \in Tools /\ t # NoTool /\ traceStatus = "Running"
      /\ traceStatus' = "Finishing" /\ DriverKeeps /\ written' = written
  BY DEF TypeOK, EndTrace, Owned, TraceHasOwner
<1>2. s \in SessionTypes
  BY <1>1, SliceTypes
<1>3. old \in Seq(Payloads) /\ Len(old) \in 0..MaxChunks
  <2>1. old \in Seq(Payloads)
    BY <1>2, SessionFieldTypes
  <2>2. Len(old) <= chunks /\ chunks \in 0..MaxChunks
    BY <1>1 DEF Owned, ChunksCounted, TypeOK
  <2>3. QED
    BY <2>1, <2>2, RgpAssumption
<1>4. h \in Payloads /\ e \in Payloads
  <2> HIDE DEF old
  <2>1. QED
    BY <1>3, PayloadTypes, RequestTypes DEF RGPMessage
<1>5. before \in Seq(Payloads)
  <2> HIDE DEF h
  <2>1. QED
    BY <1>4
<1>6. session' = [session EXCEPT ![t] = z]
  BY <1>1 DEF EndTrace, TypeOK
<1>7. m \in Seq(Payloads)
  <2> HIDE DEF before, old, e
  <2>1. QED
    BY <1>3, <1>4, <1>5
<1>8. /\ z \in SessionTypes /\ z.state = s.state /\ z.chunks = m /\ z.abort = s.abort
  <2> HIDE DEF m, s
  <2>1. QED
    BY <1>2, <1>7, SessionChunks
<1> HIDE DEF z
<1>9. /\ session'[t] = z /\ \A u \in Tools \ {t} : session'[u] = session[u]
  BY <1>1, <1>6 DEF TypeOK
<1>10. ASSUME OnTrack(client[t], s, toServer[t], toClient[t], written[t], "Running")
       PROVE  OnTrack(client[t], z, toServer[t], toClient[t], written[t], "Finishing")
  <2>1. CASE s.version >= RGP_TRACE_PROGRESS_VERSION
    <3>1. z.chunks = (<<h>> \o old) \o <<e>>
      BY <1>8, <2>1
    <3>2. /\ client[t] \in ClientTypes /\ toClient[t] \in Seq(Payloads)
          /\ written[t] \in Seq(1..MaxChunks)
      BY <1>1, SliceTypes
    <3>3. h = Payload("TraceDataHeader", "Success", Len(s.chunks))
      OBVIOUS
    <3>4. e = Request("TraceDataSentinel") /\ s.chunks = old
      OBVIOUS
    <3> HIDE DEF s, h, e
    <3>5. QED
      BY <1>2, <1>4, <1>8, <1>10, <3>1, <3>2, <3>3, <3>4, EndedOnTrack
  <2>2. CASE ~(s.version >= RGP_TRACE_PROGRESS_VERSION)
    <3> HIDE DEF s
    <3>1. ~TraceRuns(client[t], s, toServer[t], toClient[t], written[t], "Running")
      BY <2>2 DEF TraceRuns
    <3>2. /\ ~TraceAsked(client[t], s, toServer[t], toClient[t], "Running")
          /\ ~TraceArrives(client[t], s, toServer[t], toClient[t], written[t], "Running")
          /\ ~TraceFailed(client[t], s, toServer[t], toClient[t], "Running")
          /\ ~AbortIgnored(client[t], s, toServer[t], toClient[t], "Running")
          /\ ~AbortAnswered(client[t], s, toServer[t], toClient[t], "Running")
      BY DEF TraceAsked, TraceArrives, TraceFailed, AbortIgnored, AbortAnswered
    <3>3. client[t].state = "Error" /\ client[t].call \in Asks \cup {"None"} /\ ~client[t].whole
      BY <1>10, <3>1, <3>2, Zenon DEF OnTrack
    <3>4. QED
      BY <3>3, ErrorOnTrack
  <2>3. QED
    BY <2>1, <2>2
<1> HIDE DEF s
<1>11. session'[t].state = s.state /\ s = session[t]
  BY <1>8, <1>9 DEF s
<1>12. QED
  BY <1>1, <1>9, <1>10, <1>11, DrivenFollowed

\* No step of the driver loses or mixes traces.
LEMMA DriverStepFollowed ==
  ASSUME TypeOK, Owned, Followed, DriverStep
  PROVE  Followed'
<1>1. CASE EnableTraces \/ DisableTraces \/ Finalize
  BY <1>1, FollowedFrame DEF EnableTraces, DisableTraces, SetProfiling, Finalize,
                             DriverKeeps
<1>2. CASE BeginTrace
  <2>1. /\ current \in Tools /\ traceStatus = "Pending" /\ traceStatus' = "Running"
        /\ DriverKeeps /\ UNCHANGED <<session, written>>
    BY <1>2 DEF BeginTrace, Owned, TraceHasOwner, TypeOK
  <2>2. QED
    BY <2>1, BegunOnTrack, DrivenFollowed
<1>3. CASE AbortTrace
  <2>1. /\ current \in Tools /\ traceStatus = "Running" /\ traceStatus' = "Aborting"
        /\ DriverKeeps /\ UNCHANGED <<session, written>>
        /\ session[current].state = "TransferTraceData"
    BY <1>3 DEF AbortTrace, Owned, TraceHasOwner, TypeOK
  <2>2. session[current] \in SessionTypes /\ toServer[current] \in Seq(Payloads)
    BY <2>1, SliceTypes
  <2>3. client[current] \in ClientTypes
    BY <2>1, SliceTypes
  <2>4. ASSUME OnTrack(client[current], session[current], toServer[current],
                       toClient[current], written[current], "Running")
        PROVE  OnTrack(client[current], session[current], toServer[current],
                       toClient[current], written[current], "Aborting")
    <3> DEFINE c == client[current]
    <3> DEFINE s == session[current]
    <3> DEFINE up == toServer[current]
    <3> DEFINE down == toClient[current]
    <3> DEFINE w == written[current]
    <3>1. /\ c \in ClientTypes /\ s \in SessionTypes /\ up \in Seq(Payloads)
          /\ s.state = "TransferTraceData" /\ OnTrack(c, s, up, down, w, "Running")
      BY <2>1, <2>2, <2>3, <2>4
    <3> HIDE DEF c, s, up, down, w
    <3>2. OnTrack(c, s, up, down, w, "Aborting")
      BY <3>1, AbandonedOnTrack
    <3>3. QED
      BY <3>2 DEF c, s, up, down, w
  <2>5. /\ session'[current] = session[current] /\ written'[current] = written[current]
        /\ \A u \in Tools \ {current} :
             session'[u] = session[u] /\ written'[u] = written[u]
    BY <2>1
  <2>6. /\ session'[current].state = session[current].state
        /\ OnTrack(client[current], session[current], toServer[current],
                   toClient[current], written[current], traceStatus)
            => OnTrack(client[current], session'[current], toServer[current],
                       toClient[current], written'[current], traceStatus')
    BY <2>1, <2>4, <2>5
  <2>7. QED
    BY <2>1, <2>5, <2>6, DrivenFollowed
<1>4. CASE EndTrace
  BY <1>4, EndTraceFollowed
<1>5. ASSUME NEW k \in 1..MaxChunks, WriteTraceData(k)
      PROVE  Followed'
  BY <1>5, WriteTraceDataFollowed
<1>6. QED
  BY <1>1, <1>2, <1>3, <1>4, <1>5 DEF DriverStep, EndsTrace
-----------------------------------------------------------------------------
\* At first there is no client.
LEMMA InitFollowed == Init => Followed
<1> SUFFICES ASSUME Init, NEW u \in Tools PROVE Attached(u) /\ Follows(u)
  BY DEF Followed
<1>1. client[u] = NoClient /\ toServer[u] = <<>> /\ toClient[u] = <<>>
  BY DEF Init
<1>2. ~client[u].open
  BY <1>1 DEF NoClient
<1>3. QED
  BY <1>1, <1>2 DEF Attached, Follows

\* No step of clients, message thread and driver loses or mixes traces.
LEMMA NextFollowed ==
  ASSUME TypeOK, Owned, Followed, [Next]_<<rgpVars, calls>>
  PROVE  Followed'
<1>1. ASSUME NEW t \in Tools, ClientStep(t) PROVE Followed'
  BY <1>1, ClientAbortTraceFollowed, TakeProfilingFollowed, TakeHeaderFollowed,
     OldVersionFollowed, TakeChunkFollowed, TakeSentinelFollowed,
     TakeUntilSentinelFollowed, TimeOutFollowed, LeaveFollowed
     DEF ClientStep, TakePayload
<1>2. ASSUME NEW t \in Tools, UpdateSession(t) PROVE Followed'
  BY <1>2, ReceivePayloadFollowed, ExecuteFollowed, ProfilingAnswerFollowed,
     SendPayloadFollowed, UpdateTraceFollowed, UpdateAbortingFollowed
     DEF UpdateSession
<1>3. ASSUME NEW t \in Tools, BeginCall(t) PROVE Followed'
  BY <1>3, ConnectFollowed, AskProfilingFollowed, RequestTraceFollowed DEF BeginCall
<1>4. CASE UNCHANGED <<rgpVars, calls>>
  BY <1>4, FollowedFrame DEF rgpVars, linkVars
<1>5. QED
  BY <1>1, <1>2, <1>3, <1>4, SessionTerminatedFollowed, DriverStepFollowed DEF Next

-----------------------------------------------------------------------------
(* The theorems.                                                           *)

\* In every behaviour of clients, message thread and driver the variables
\* keep their types and the current session is the only one with a trace.
THEOREM Inductive == Spec => [](TypeOK /\ Owned)
<1>1. Init => TypeOK /\ Owned
  BY InitRight
<1>2. TypeOK /\ Owned /\ [Next]_<<rgpVars, calls>> => (TypeOK /\ Owned)'
  BY NextRight
<1>3. QED
  BY <1>1, <1>2, PTL DEF Spec

\* Every variable has its type, no session holds more than its window.
THEOREM TypeCorrect == Spec => []TypeOK
BY Inductive, PTL

\* The server is in a trace exactly while it knows a session that is there
\* and waits for it: the assertions of rgpServer.cpp:138, 319 and 325 hold.
THEOREM OneOwner == Spec => []TraceHasOwner
<1>1. Owned => TraceHasOwner
  BY DEF Owned
<1>2. QED
  BY <1>1, Inductive, PTL

\* There is a trace only while profiling is enabled.
THEOREM ProfilingStays == Spec => []TraceNeedsProfiling
<1>1. Owned => TraceNeedsProfiling
  BY DEF Owned
<1>2. QED
  BY <1>1, Inductive, PTL

\* An aborted, refused or abandoned trace leaves neither chunks nor an abort
\* request for the next one.
THEOREM NothingLeft == Spec => []OnlyOwnerHasChunks
<1>1. Owned => OnlyOwnerHasChunks
  BY DEF Owned
<1>2. QED
  BY <1>1, Inductive, PTL

\* A client that was told that its trace is complete has exactly the chunks
\* the driver wrote for it, in their order.
THEOREM TraceIsComplete == Spec => []TraceComplete
<1>1. TypeOK /\ Followed => TraceComplete
  <2> SUFFICES ASSUME TypeOK, Followed, NEW t \in Tools \ misled, client[t].whole,
                      version[t] >= RGP_TRACE_PROGRESS_VERSION
               PROVE  client[t].received = written[t]
    BY DEF TraceComplete
  <2>1. Attached(t) /\ Follows(t)
    BY DEF Followed
  <2>2. client[t].open
    BY <2>1 DEF Attached, NoClient
  <2>3. OnTrack(client[t], session[t], toServer[t], toClient[t], written[t], OwnStatus(t))
    BY <2>1, <2>2 DEF Follows
  <2>4. QED
    BY <2>3, Zenon DEF OnTrack
<1>2. Init => Followed
  BY InitFollowed
<1>3. TypeOK /\ Owned /\ Followed /\ [Next]_<<rgpVars, calls>> => Followed'
  BY NextFollowed
<1>4. QED
  BY <1>1, <1>2, <1>3, Inductive, PTL DEF Spec
=============================================================================
