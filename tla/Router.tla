------------------------------- MODULE Router -------------------------------
(***************************************************************************)
(* The listener's router: one receiving thread per transport               *)
(* (listener/transportThread.cpp) with its routing cache, the router's own *)
(* thread and its queue (listener/routerCore.cpp), and the clients at the  *)
(* other ends of the connections, which act as src/messageChannel.inl does.*)
(*                                                                         *)
(* A step is what happens under one acquisition of a lock, or between two  *)
(* acquisitions; what a thread read before it released the lock is kept    *)
(* beside its step.                                                        *)
(***************************************************************************)
EXTENDS ClientTable, Sequences, SequencesExt

CONSTANTS
  Host,         \* the client id of the router itself
  Plans,        \* bound: which messages, and whether a stop, one behaviour has
  MaxData,      \* bound: data messages sent in a behaviour
  MaxInFlight,  \* bound: messages between the clients and their handlers
  MaxUnread     \* bound: messages a client has not read

Kinds == {"connect", "disconnect", "flags", "hello", "pong", "info", "data"}

ASSUME RouterAssumption ==
  /\ Host \notin Ids \cup {NoId}
  /\ {MaxData, MaxInFlight, MaxUnread} \subseteq Nat
  /\ Plans \subseteq SUBSET (Kinds \cup {"stop"})

VARIABLES
  table,     \* the maps of the router and of the client manager
  queue,     \* m_clientThread.queue
  batch,     \* the messages the router thread took from the queue
  asking,    \* the router thread's unsent QueryClientInfo, or none
  alive,     \* the process has not dereferenced a null pointer
  inbox,     \* what a transport will receive
  receiver,  \* the state of a transport's receiving thread
  cache,     \* the RoutingCache of that thread: m_routingCache
  current,   \* m_currentClientId, and whether its context is set
  plan,      \* the kinds of messages of this behaviour
  up,        \* the connections whose client runs
  myId,      \* m_clientId of the message channel at the end of a connection
  wire,      \* what the router has sent to a client that it has not read
  given,     \* history: the ids a connection has had in m_clientMap
  reused,    \* history: ids generated while the router still knew them
  delivered, \* history: the data messages transmitted
  sent       \* how many data messages were sent

routerVars == <<queue, batch, asking>>
threadVars == <<receiver, cache, current>>
clientVars == <<plan, up, myId, wire>>
history == <<given, reused, delivered, sent>>
vars == <<table, queue, batch, asking, alive, inbox, receiver, cache,
          current, plan, up, myId, wire, given, reused, delivered, sent>>

\* src is what the header says, from is the connection the message came on.
Message == [kind : Kinds, src : Ids \cup {NoId}, dst : Ids \cup {NoId, Host},
            from : Conns, n : 0..MaxData, tries : Nat]

IsManagement(m) == m.kind \in {"connect", "disconnect", "flags"}
IsSystem(m) == m.kind \in {"hello", "pong", "info"}

\* The steps of ReceiveThreadFunc and of the RouteMessage it calls.
Steps == {"read", "route", "lookup", "transport", "send", "remove", "stopped"}

\* queue: recvQueue; first: firstNewMessageIndex; number: messageNumber;
\* found: the connection that ConnectionInfoForClientId returned.
Idle == [step |-> "read", queue |-> <<>>, retry |-> <<>>, first |-> 0,
         number |-> 0, found |-> NoId]

NoClient == [conn |-> NoId, id |-> NoId]

Down == Conns \ up

\* TransmitMessage to a connection: a write may have to wait, and one to a
\* client that is gone fails or is lost.
Outcomes(c) ==
  IF c \in up THEN {"Success", "NotReady"} ELSE {"Success", "NotReady", "Error"}

\* What a client of this behaviour answers; the rest it reads and drops.
Heeded == {"response"} \cup (IF "pong" \in plan THEN {"ping"} ELSE {})
                       \cup (IF "info" \in plan THEN {"query"} ELSE {})

\* The wires after one write of an answer to each of the connections in C; a
\* wire holds MaxUnread messages.
Written(C, answer) ==
  [c \in Conns |-> IF /\ c \in C \cap up /\ answer.kind \in Heeded
                      /\ Cardinality(wire[c]) < MaxUnread
                   THEN wire[c] \cup {answer} ELSE wire[c]]

InFlight == Len(queue) + Len(batch)
  + FoldSet(LAMBDA t, n : Len(inbox[t]) + Len(receiver[t].queue) + n, 0,
            Transports)

Init ==
  /\ table = EmptyTable
  /\ queue = <<>> /\ batch = <<>> /\ asking = NoClient
  /\ alive = TRUE
  /\ inbox = [t \in Transports |-> <<>>]
  /\ receiver = [t \in Transports |-> Idle]
  /\ cache = [t \in Transports |-> [i \in {} |-> {}]]
  /\ current = [t \in Transports |-> [id |-> NoId, set |-> FALSE]]
  /\ plan \in Plans /\ up = Conns
  /\ myId = [c \in Conns |-> NoId] /\ wire = [c \in Conns |-> {}]
  /\ given = {} /\ reused = {} /\ delivered = {} /\ sent = 0

-----------------------------------------------------------------------------
(* The clients.                                                            *)

Send(c, kind, src, dst, n) ==
  /\ kind \in plan
  /\ c \in up
  /\ InFlight < MaxInFlight
  /\ inbox' = [inbox EXCEPT ![TransportOf[c]] = Append(@,
       [kind |-> kind, src |-> src, dst |-> dst, from |-> c, n |-> n,
        tries |-> 0])]

\* Register sends its request again until a response arrives.
RequestConnect(c) ==
  /\ myId[c] = NoId
  /\ Send(c, "connect", NoId, NoId, 0)
  /\ UNCHANGED <<table, routerVars, alive, threadVars, clientVars, history>>

ReadResponse(c, id) ==
  /\ c \in up
  /\ [kind |-> "response", id |-> id] \in wire[c]
  /\ wire' = [wire EXCEPT ![c] = @ \ {[kind |-> "response", id |-> id]}]
  /\ myId' = [myId EXCEPT ![c] = IF @ = NoId THEN id ELSE @]
  /\ UNCHANGED <<table, routerVars, alive, inbox, threadVars, plan, up, history>>

\* A Ping is answered with a Pong and a QueryClientInfo with a ClientInfo; the
\* loop of Register reads and drops both, and so does a client whose thread
\* does not run in time.
Answer(c, question, kind) ==
  /\ c \in up
  /\ [kind |-> question, id |-> NoId] \in wire[c]
  /\ wire' = [wire EXCEPT ![c] = @ \ {[kind |-> question, id |-> NoId]}]
  /\ IF myId[c] # NoId /\ kind \in plan
     THEN Send(c, kind, myId[c], Host, 0) ELSE UNCHANGED inbox
  /\ UNCHANGED <<table, routerVars, alive, threadVars, plan, up, myId, history>>

AnswerPing(c) == Answer(c, "ping", "pong")
AnswerQuery(c) == Answer(c, "query", "info")

\* A System message to everyone: ClientConnected, or the Ping of
\* FindFirstClient.
Hello(c) ==
  /\ myId[c] # NoId
  /\ Send(c, "hello", myId[c], NoId, 0)
  /\ UNCHANGED <<table, routerVars, alive, threadVars, clientVars, history>>

SetFlags(c) ==
  /\ myId[c] # NoId
  /\ Send(c, "flags", myId[c], NoId, 0)
  /\ UNCHANGED <<table, routerVars, alive, threadVars, clientVars, history>>

\* A message of a session, to any client it has heard of.
SendData(c, dst) ==
  /\ myId[c] # NoId /\ sent < MaxData
  /\ Send(c, "data", myId[c], dst, sent + 1)
  /\ sent' = sent + 1
  /\ UNCHANGED <<table, routerVars, alive, threadVars, clientVars, given,
                 reused, delivered>>

\* Unregister notifies the router and closes the connection.
Unregister(c) ==
  /\ myId[c] # NoId
  /\ Send(c, "disconnect", myId[c], NoId, 0)
  /\ up' = up \ {c}
  /\ UNCHANGED <<table, routerVars, alive, threadVars, plan, myId, wire, history>>

\* The process ends, or the channel disconnects without a notification.
Vanish(c) ==
  /\ c \in up
  /\ up' = up \ {c}
  /\ UNCHANGED <<table, routerVars, alive, inbox, threadVars, plan, myId, wire,
                 history>>

-----------------------------------------------------------------------------
(* The receiving thread of a transport.                                    *)

Destination(t) == receiver[t].queue[receiver[t].number].dst
This(t) == receiver[t].queue[receiver[t].number]

\* Mutant: ignores how often a message has been tried.
RequeueAlways(r, notReady) ==
  IF notReady
  THEN Append(r.retry, [r.queue[r.number] EXCEPT !.tries = @ + 1])
  ELSE r.retry

\* What follows RouteMessage in the loop: a message that was not ready goes to
\* the retry queue if this was its first try, and after the last message the
\* retry queue becomes the receive queue.
Requeue(r, notReady) ==
  IF notReady /\ r.number > r.first
  THEN Append(r.retry, [r.queue[r.number] EXCEPT !.tries = @ + 1])
  ELSE r.retry

AfterRoute(r, notReady) ==
  LET retry == Requeue(r, notReady)
  IN IF r.number < Len(r.queue)
     THEN [r EXCEPT !.step = "route", !.number = @ + 1, !.retry = retry]
     ELSE [Idle EXCEPT !.queue = retry]

Done(t, notReady) ==
  receiver' = [receiver EXCEPT ![t] = AfterRoute(@, notReady)]

\* Reads everything that has arrived behind what waits for another try.
Read(t) ==
  LET q == receiver[t].queue \o inbox[t]
  IN /\ alive /\ receiver[t].step = "read" /\ q # <<>>
     /\ t \in table.attached
     /\ receiver' = [receiver EXCEPT ![t].queue = q, ![t].step = "route",
                       ![t].first = Len(receiver[t].queue), ![t].number = 1]
     /\ inbox' = [inbox EXCEPT ![t] = <<>>]
     /\ UNCHANGED <<table, routerVars, alive, cache, current, clientVars,
                    history>>

\* Disable waits until the thread has left its loop.
StopReceiving(t) ==
  /\ alive /\ receiver[t].step = "read" /\ t \notin table.attached
  /\ receiver' = [receiver EXCEPT ![t].step = "stopped"]
  /\ UNCHANGED <<table, routerVars, alive, inbox, cache, current, clientVars,
                 history>>

\* IsRoutableMessage hands management messages, and System messages for the
\* router or for everyone, to the router thread.
IsRoutable(m) == ~IsManagement(m) /\ m.src # NoId

IsInternal(m) ==
  IsManagement(m) \/ (IsSystem(m) /\ m.src # NoId /\ m.dst \in {NoId, Host})

RouteInternal(t) ==
  queue' = IF IsInternal(This(t)) THEN Append(queue, This(t)) ELSE queue

\* RouteMessage of a message that goes to the router only, or to everyone.
RouteBroadcast(t) ==
  /\ alive /\ receiver[t].step = "route"
  /\ This(t).dst = NoId \/ ~IsRoutable(This(t))
  /\ RouteInternal(t)
  /\ IF IsRoutable(This(t))
     THEN table' \in AfterBroadcasts(table, This(t).src, Down, 1)
     ELSE UNCHANGED table
  /\ Done(t, FALSE)
  /\ UNCHANGED <<batch, asking, alive, inbox, cache, current,
                 clientVars, history>>

\* RouteMessage of a directed message: the client of the last message needs no
\* lookup, another one is looked up in the cache and then in the router.
RouteDirected(t) ==
  LET m == This(t)
  IN /\ alive /\ receiver[t].step = "route"
     /\ m.dst # NoId /\ IsRoutable(m)
     /\ RouteInternal(t)
     /\ IF current[t].id = m.dst
        THEN /\ IF current[t].set
                THEN receiver' = [receiver EXCEPT ![t].step = "send"]
                ELSE Done(t, FALSE)
             /\ UNCHANGED current
        ELSE /\ current' = [current EXCEPT
                  ![t] = [id |-> m.dst, set |-> m.dst \in DOMAIN cache[t]]]
             /\ receiver' = [receiver EXCEPT ![t].step =
                  IF m.dst \in DOMAIN cache[t] THEN "send" ELSE "lookup"]
     /\ UNCHANGED <<table, batch, asking, alive, inbox, cache,
                    clientVars, history>>

\* ConnectionInfoForClientId, under the client mutex.
LookupConnection(t) ==
  LET d == Destination(t)
  IN /\ alive /\ receiver[t].step = "lookup"
     /\ IF d \in Known(table)
        THEN receiver' = [receiver EXCEPT ![t].step = "transport",
                            ![t].found = table.clients[d].conn]
        ELSE Done(t, FALSE)
     /\ UNCHANGED <<table, routerVars, alive, inbox, cache, current,
                    clientVars, history>>

\* TransportForTransportHandle, under the transport mutex; nothing checks that
\* it found one before the transport is used.
LookupTransport(t) ==
  LET d == Destination(t)
      c == receiver[t].found
  IN /\ alive /\ receiver[t].step = "transport"
     /\ cache' = [cache EXCEPT ![t] =
                    [i \in DOMAIN @ \cup {d} |-> IF i = d THEN c ELSE @[i]]]
     /\ current' = [current EXCEPT ![t].set = TRUE]
     /\ receiver' = [receiver EXCEPT ![t].step = "send"]
     /\ alive' = Attached(table, c)
     /\ UNCHANGED <<table, routerVars, inbox, clientVars, history>>

\* Mutant: a failed client is erased from the cache and stays current.
TransmitKeepsCurrent(t) ==
  LET m == This(t)
      c == cache[t][current[t].id]
  IN /\ alive /\ receiver[t].step = "send"
     /\ \E result \in Outcomes(c) :
          /\ delivered' = IF result = "Success" /\ m.kind = "data"
                          THEN delivered \cup {m.n} ELSE delivered
          /\ IF result = "Error"
             THEN /\ cache' = [cache EXCEPT ![t] = Restrict(@, DOMAIN @ \ {m.dst})]
                  /\ receiver' = [receiver EXCEPT ![t].step = "remove"]
             ELSE Done(t, result = "NotReady") /\ UNCHANGED cache
     /\ UNCHANGED <<table, routerVars, current, alive, inbox, clientVars, given,
                    reused, sent>>

Transmit(t) ==
  LET m == This(t)
      c == cache[t][current[t].id]
  IN /\ alive /\ receiver[t].step = "send"
     /\ \E result \in Outcomes(c) :
          /\ delivered' = IF result = "Success" /\ m.kind = "data"
                          THEN delivered \cup {m.n} ELSE delivered
          /\ IF result = "Error"
             THEN /\ cache' = [cache EXCEPT ![t] = Restrict(@, DOMAIN @ \ {m.dst})]
                  /\ current' = [current EXCEPT ![t] = [id |-> NoId, set |-> FALSE]]
                  /\ receiver' = [receiver EXCEPT ![t].step = "remove"]
             ELSE /\ Done(t, result = "NotReady")
                  /\ UNCHANGED <<cache, current>>
     /\ UNCHANGED <<table, routerVars, alive, inbox, clientVars, given, reused,
                    sent>>

\* The failed client leaves the router, under both mutexes.
RemoveFailed(t) ==
  /\ alive /\ receiver[t].step = "remove"
  /\ table' \in RemoveClient(table, Destination(t), Down)
  /\ Done(t, FALSE)
  /\ UNCHANGED <<routerVars, alive, inbox, cache, current, clientVars, history>>

-----------------------------------------------------------------------------
(* The router thread.                                                      *)

TakeQueue ==
  /\ alive /\ batch = <<>> /\ asking = NoClient /\ queue # <<>>
  /\ batch' = queue /\ queue' = <<>>
  /\ UNCHANGED <<table, asking, alive, inbox, threadVars, clientVars, history>>

Ping == [kind |-> "ping", id |-> NoId]
Query == [kind |-> "query", id |-> NoId]
Response(id) == [kind |-> "response", id |-> id]

Update ==
  /\ alive /\ batch = <<>> /\ asking = NoClient
  /\ table' \in UpdateClients(table, Down)
  /\ \E told \in SUBSET {c \in up : \E r \in table.routes : r.conn = c} :
       wire' = Written(told, Ping)
  /\ UNCHANGED <<queue, batch, asking, alive, inbox, threadVars, plan, up, myId,
                 history>>

Handled(kind) ==
  /\ alive /\ batch # <<>> /\ asking = NoClient
  /\ Head(batch).kind \in kind
  /\ batch' = Tail(batch)

\* ConnectRequest: a connection the router knows keeps its id, another one
\* gets an id that is not allocated.
HandleConnect ==
  LET c == Head(batch).from
  IN /\ Handled({"connect"})
     /\ IF ~Attached(table, c) THEN UNCHANGED <<table, wire, given, reused>>
        ELSE \E found \in FindByConnection(table, c) :
             \E id \in IF found # NoId THEN {found} ELSE GenerateClientId(table) :
             \E told \in IF found # NoId THEN {table}
                         ELSE AfterBroadcasts(RegisterClient(table, id, c), id,
                                              Down, 1) :
             \E result \in Outcomes(c) :
               /\ table' \in IF result = "Error" THEN RemoveClient(told, id, Down)
                             ELSE {told}
               /\ wire' = IF result = "Success" THEN Written({c}, Response(id))
                          ELSE wire
               /\ given' = given \cup {[id |-> id, conn |-> c]}
               /\ reused' = IF found = NoId /\ id \in Known(table)
                            THEN reused \cup {id} ELSE reused
     /\ UNCHANGED <<queue, asking, alive, inbox, threadVars, plan, up, myId,
                    delivered, sent>>

\* DisconnectNotification and SetClientFlags count only when they come on the
\* connection of the client they name.  A disconnected client is removed; one
\* that cannot be told the result of its request is removed too.
Owns(c, id) == id # NoId /\ id \in FindByConnection(table, c)

HandleDisconnect ==
  LET m == Head(batch)
  IN /\ Handled({"disconnect"})
     /\ \/ Owns(m.from, m.src) /\ table' \in RemoveClient(table, m.src, Down)
        \/ /\ FindByConnection(table, m.from) # {m.src}
           /\ UNCHANGED table
     /\ UNCHANGED <<queue, asking, alive, inbox, threadVars,
                    clientVars, history>>

HandleSetFlags ==
  LET m == Head(batch)
  IN /\ Handled({"flags"})
     /\ \/ /\ Owns(m.from, m.src) /\ m.from \in Down
           /\ table' \in RemoveClient(table, m.src, Down)
        \/ UNCHANGED table
     /\ UNCHANGED <<queue, asking, alive, inbox, threadVars,
                    clientVars, history>>

\* ProcessRouterMessage under the client mutex.  A sender nobody knows becomes
\* a client that is not registered; the pointer to its entry, looked up before,
\* stays null.  A client that has not identified itself is asked to.
HandleSystem ==
  LET m == Head(batch)
      new == m.src \notin Known(table)
      there == IF new THEN AddClient(table, m.src, m.from, FALSE) ELSE table
      asks == new \/ (m.kind # "info" /\ ~table.clients[m.src].identified)
  IN /\ Handled({"hello", "pong", "info"})
     /\ IF ~Attached(table, m.from)
        THEN UNCHANGED <<table, asking, given, alive>>
        ELSE /\ table' = IF new THEN there
                         ELSE IF m.kind = "pong" THEN Ponged(table, m.src)
                         ELSE IF m.kind = "info" THEN Identified(table, m.src)
                         ELSE table
             /\ alive' = ~(new /\ m.kind = "info")
             /\ asking' = IF asks THEN [conn |-> m.from, id |-> m.src]
                          ELSE asking
             /\ given' = IF new
                         THEN given \cup {[id |-> m.src, conn |-> m.from]}
                         ELSE given
     /\ UNCHANGED <<queue, inbox, threadVars, clientVars, reused,
                    delivered, sent>>

\* The question is sent when the lock is released; on an error the client is
\* removed without it.
AskForInfo ==
  /\ alive /\ asking # NoClient
  /\ \E result \in Outcomes(asking.conn) :
       /\ table' \in IF result = "Error"
                     THEN RemoveClient(table, asking.id, Down) ELSE {table}
       /\ wire' = IF result = "Success" THEN Written({asking.conn}, Query)
                  ELSE wire
  /\ asking' = NoClient
  /\ UNCHANGED <<queue, batch, alive, inbox, threadVars, plan, up, myId,
                 history>>

-----------------------------------------------------------------------------
(* The listener's thread, in ListenerCore::Destroy or RouterCore::Stop.    *)

DropTransport(t) ==
  /\ alive /\ "stop" \in plan /\ t \in table.attached
  /\ \A s \in Transports \ table.attached : receiver[s].step = "stopped"
  /\ table' \in RemoveTransport(table, t, Down)
  /\ UNCHANGED <<routerVars, alive, inbox, threadVars, clientVars, history>>

-----------------------------------------------------------------------------
ClientStep(c) ==
  \/ RequestConnect(c) \/ AnswerPing(c) \/ AnswerQuery(c) \/ Hello(c)
  \/ SetFlags(c) \/ Unregister(c) \/ Vanish(c)
  \/ \E id \in Ids : ReadResponse(c, id) \/ SendData(c, id)

Receive(t) ==
  \/ Read(t) \/ StopReceiving(t) \/ RouteBroadcast(t) \/ RouteDirected(t)
  \/ LookupConnection(t) \/ LookupTransport(t) \/ Transmit(t)
  \/ RemoveFailed(t)

Handle == HandleConnect \/ HandleDisconnect \/ HandleSetFlags
          \/ HandleSystem \/ AskForInfo

Next ==
  \/ \E c \in Conns : ClientStep(c)
  \/ \E t \in Transports : Receive(t) \/ DropTransport(t)
  \/ TakeQueue \/ Update \/ Handle

\* The threads of the listener are scheduled, and time passes, so that the
\* interval between two updates ends.  While a client is known every update
\* ages it, so fairness of Update forces no write to fail.
Fairness == /\ \A t \in Transports : WF_vars(Receive(t))
            /\ WF_vars(Handle) /\ WF_vars(TakeQueue)
            /\ SF_vars(Update)

Spec == Init /\ [][Next]_vars /\ Fairness

-----------------------------------------------------------------------------
(* Properties.                                                             *)

Receivers == [step : Steps, queue : Seq(Message), retry : Seq(Message),
              first : Nat, number : Nat, found : Conns \cup {NoId}]

Caches == UNION {[I -> Conns] : I \in SUBSET Ids}

Answers == [kind : {"ping", "query", "response"}, id : Ids \cup {NoId}]

\* The variables have their types; in particular a client that is not removed
\* has not missed more answers than the limit.
TypeOK ==
  /\ table \in Tables
  /\ queue \in Seq(Message) /\ batch \in Seq(Message)
  /\ asking \in [conn : Conns \cup {NoId}, id : Ids \cup {NoId}]
  /\ alive \in BOOLEAN
  /\ inbox \in [Transports -> Seq(Message)]
  /\ receiver \in [Transports -> Receivers]
  /\ cache \in [Transports -> Caches]
  /\ current \in [Transports -> [id : Ids \cup {NoId, Host}, set : BOOLEAN]]
  /\ plan \in Plans /\ up \subseteq Conns
  /\ myId \in [Conns -> Ids \cup {NoId}]
  /\ wire \in [Conns -> SUBSET Answers]
  /\ given \subseteq Route /\ reused \subseteq Ids
  /\ delivered \subseteq 0..MaxData /\ sent \in 0..MaxData

\* RouteMessage (routerCore.cpp:901): a message only goes to a connection that
\* has been given the id it is addressed to, however stale the cache is and
\* whatever lookup failed before it.
AddresseeOnly ==
  \A t \in Transports : receiver[t].step = "send" =>
    /\ current[t].set /\ current[t].id = Destination(t)
    /\ Destination(t) \in DOMAIN cache[t]
    /\ [id |-> Destination(t), conn |-> cache[t][Destination(t)]] \in given

Waiting(t) ==
  LET r == receiver[t]
  IN ToSet(r.retry) \cup
       IF r.step = "read" THEN ToSet(r.queue)
       ELSE {r.queue[i] : i \in (r.number + 1)..Len(r.queue)}

\* ReceiveThreadFunc (transportThread.cpp:65): what waits for another try has
\* not been transmitted, and has been tried once at most.
RetriesOnlyUnsent ==
  \A t \in Transports : \A m \in Waiting(t) :
    m.n \notin delivered /\ m.tries <= 1

\* Whatever removes a client (routerCore.cpp:141, 349, 843) releases its id,
\* and a registered client holds its id as long as it is known.  An id that
\* was generated again while the router still knew it is outside of this.
NoIdLeaks ==
  \A id \in Ids \ reused :
    id \in table.allocated <=> id \in Known(table) /\ table.clients[id].registered

\* The maps of the transports and the map of the clients, which are changed
\* apart, describe the same clients.
MapsAgree ==
  \A id \in Ids \ reused : \A c \in Conns :
    [id |-> id, conn |-> c] \in table.routes <=>
      id \in Known(table) /\ table.clients[id].conn = c

\* A ConnectRequest that is sent again does not register its client twice
\* (routerCore.cpp:446).  A connection that was given an id which was generated
\* again is outside of this: when that id moves to another transport, the old
\* route stays, FindExternalClientByConnection (routerCore.cpp:68) ends at it
\* with a null pointer, and the client behind it is registered once more.
RegisteredOnce ==
  \A i, j \in Known(table) \ reused :
    /\ table.clients[i].conn = table.clients[j].conn
    /\ table.clients[i].registered /\ table.clients[j].registered
    /\ \A r \in reused : [id |-> r, conn |-> table.clients[i].conn] \notin given
    => i = j

\* UpdateClients (routerCore.cpp:329): the router forgets a client that ended
\* without a word, even if every write to it seems to succeed, and whatever
\* messages of it were still queued.
GoneIsForgotten ==
  \A c \in Conns :
    c \notin up ~> (~alive \/ [](\A id \in Known(table) : table.clients[id].conn # c))
=============================================================================
