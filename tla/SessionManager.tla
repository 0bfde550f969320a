--------------------------- MODULE SessionManager ---------------------------
(***************************************************************************)
(* Two session managers (src/sessionManager.cpp) and the channel between   *)
(* them.  On the near node a protocol client opens one session; on the far *)
(* node a protocol server accepts one session per Syn it receives.  Each   *)
(* node runs one thread that handles received messages and updates its     *)
(* sessions; application threads send, receive and disconnect in between.  *)
(*                                                                         *)
(* The channel carries datagrams: a queue per node that delivers in order, *)
(* except that up to MaxFaults of the faults in FaultKinds may happen.     *)
(***************************************************************************)
EXTENDS Session, SequencesExt

CONSTANTS
  Client,      \* the session of the protocol client
  Servers,     \* the sessions the protocol server may accept
  MaxRequests, \* bound: messages the client sends on its session
  MaxReplies,  \* bound: messages the server sends on a session
  MaxQueue,    \* bound: messages in flight to one node
  MaxDupAcks,  \* bound: duplicate acknowledgements a session counts
  MaxFaults,   \* bound: faults of the channel in a behaviour
  FaultKinds,  \* which of the faults may happen
  Teardowns,   \* which of the ways to end a session the owners use
  Timely       \* retransmission timers are longer than a round trip

Objects == {Client} \cup Servers

ASSUME ManagerAssumption ==
  /\ SessionIds = Objects
  /\ Client \notin Servers
  /\ InvalidSessionId \notin Objects
  /\ {MaxRequests, MaxReplies, MaxQueue, MaxDupAcks, MaxFaults} \subseteq Nat
  /\ FaultKinds \subseteq {"drop", "duplicate", "overtake", "notReady",
                           "linkDown", "peerLost", "reject"}
  /\ Teardowns \subseteq {"disconnect", "orphan", "unregister",
                          "destroyNear", "destroyFar"}
  /\ Timely \in BOOLEAN

VARIABLES
  session,    \* the session objects
  key,        \* the id an object has in m_sessions, or InvalidSessionId
  active,     \* m_active, per node
  serving,    \* the far manager has the protocol server registered
  thread,     \* the thread that runs the node's message channel, per node
  net,        \* the messages on their way to a node
  faults,     \* how many faults have happened
  sent,       \* how many messages the owner of an object has sent
  delivered,  \* the messages the owner of an object has received
  ended       \* the owner of an object has seen the end of the stream

vars == <<session, key, active, serving, thread, net, faults, sent, delivered,
          ended>>

Nodes == {"near", "far"}

\* It runs, waits inside an update with the lock of the session table held, or
\* has left SessionManager::Destroy and updates nothing any more.
ThreadStates == {"running", "blocked", "stopped"}

Node(e) == IF e = Client THEN "near" ELSE "far"

Remote(n) == IF n = "near" THEN "far" ELSE "near"

Init ==
  /\ session = [e \in Objects |-> NewSession]
  /\ key = [e \in Objects |-> InvalidSessionId]
  /\ active = [n \in Nodes |-> TRUE]
  /\ serving = TRUE
  /\ thread = [n \in Nodes |-> "running"]
  /\ net = [n \in Nodes |-> << >>]
  /\ faults = 0
  /\ sent = [e \in Objects |-> 0]
  /\ delivered = [e \in Objects |-> << >>]
  /\ ended = [e \in Objects |-> FALSE]

-----------------------------------------------------------------------------

InTable(e) == key[e] # InvalidSessionId

Fresh(e) == session[e].state = "Closed" /\ session[e].snd.nextSequence = 1

\* The objects node n has in its table under an id: at most one.
Lookup(n, id) == {e \in Objects : Node(e) = n /\ InTable(e) /\ key[e] = id}

\* Mutant: also finds closed sessions.
FindAnySession(n, id) == Lookup(n, id)

FindOpenSession(n, id) == {e \in Lookup(n, id) : session[e].state # "Closed"}

\* The session after a call, and what the call sent put on the wire.
Store(e, s) == session' = [session EXCEPT ![e] = [s EXCEPT !.out = << >>]]

\* Puts messages on the wire to the peer of node n; rest is what is left of
\* the queue of n.  A stopped peer has disconnected from its transport.
Exchange(n, rest, out) ==
  /\ net' = [net EXCEPT ![n] = rest,
                        ![Remote(n)] = IF thread[Remote(n)] = "stopped"
                                         THEN << >> ELSE @ \o out]
  /\ Len(net'[Remote(n)]) <= MaxQueue

Emit(n, out) == Exchange(n, net[n], out)

Fault(kind) ==
  /\ kind \in FaultKinds
  /\ faults < MaxFaults
  /\ faults' = faults + 1

ResetMessage(id) ==
  [type |-> "Rst", sessionId |-> id, seq |-> 0, data |-> 0, win |-> 0]

-----------------------------------------------------------------------------
(* What the owners do.                                                     *)

EstablishSessionForClient ==
  /\ Fresh(Client) /\ thread["near"] # "blocked"
  /\ Store(Client, Connect(session[Client], Client))
  /\ key' = [key EXCEPT ![Client] = Client]
  /\ UNCHANGED <<active, serving, thread, net, faults, sent, delivered, ended>>

\* A protocol only holds a session between SessionEstablished and
\* SessionTerminated; a protocol server uses its sessions from UpdateSession,
\* on the message thread.
InUse(e) ==
  /\ session[e].state \in Open /\ session[e].owner
  /\ e # Client => thread["far"] = "running"

Send(e) ==
  /\ InUse(e)
  /\ CanSend(session[e])
  /\ sent[e] < IF e = Client THEN MaxRequests ELSE MaxReplies
  /\ Store(e, WriteMessageIntoSendWindow(session[e], "Data", sent[e] + 1))
  /\ sent' = [sent EXCEPT ![e] = @ + 1]
  /\ UNCHANGED <<key, active, serving, thread, net, faults, delivered, ended>>

ReceiveNext(e) ==
  /\ InUse(e)
  /\ CanReceive(session[e])
  /\ Store(e, Receive(session[e]))
  /\ LET slot == NextUnread(session[e])
     IN  IF slot.type = "Data"
           THEN /\ delivered' = [delivered EXCEPT ![e] = Append(@, slot.data)]
                /\ UNCHANGED ended
           ELSE /\ ended' = [ended EXCEPT ![e] = TRUE]
                /\ UNCHANGED delivered
  /\ UNCHANGED <<key, active, serving, thread, net, faults, sent>>

\* BaseProtocolClient::Disconnect.
Disconnect ==
  /\ "disconnect" \in Teardowns
  /\ session[Client].state \in Open
  /\ Store(Client, Shutdown(session[Client], "Success"))
  /\ UNCHANGED <<key, active, serving, thread, net, faults, sent, delivered, ended>>

\* The destructor of a protocol client.
CloseClient ==
  /\ "orphan" \in Teardowns
  /\ session[Client].state \in Open /\ session[Client].owner
  /\ Store(Client, Close(session[Client], "Success"))
  /\ UNCHANGED <<key, active, serving, thread, net, faults, sent, delivered, ended>>

\* Every session of the protocol server loses its owner and is shut down.
UnregisterProtocolServer ==
  /\ "unregister" \in Teardowns
  /\ serving /\ thread["far"] # "blocked"
  /\ serving' = FALSE
  /\ session' = [e \in Objects |-> IF e \in Servers /\ InTable(e) /\ session[e].owner
                                    THEN Close(session[e], "Success")
                                    ELSE session[e]]
  /\ UNCHANGED <<key, active, thread, net, faults, sent, delivered, ended>>

\* Shuts down every session of a node, as Destroy and
\* HandleClientDisconnection do.
ShutdownAll(n, reason) ==
  session' = [e \in Objects |-> IF Node(e) = n /\ InTable(e)
                                  THEN Shutdown(session[e], reason)
                                  ELSE session[e]]

\* The first half of SessionManager::Destroy, by an owner or by the message
\* thread that lost its connection.
Destroy(n) ==
  /\ (IF n = "near" THEN "destroyNear" ELSE "destroyFar") \in Teardowns
  /\ active[n] /\ thread[n] = "running"
  /\ active' = [active EXCEPT ![n] = FALSE]
  /\ ShutdownAll(n, "Success")
  /\ UNCHANGED <<key, serving, thread, net, faults, sent, delivered, ended>>

\* The second half goes on updating until the table is empty.
DestroyReturns(n) ==
  /\ ~active[n] /\ thread[n] = "running"
  /\ \A e \in Objects : Node(e) = n => ~InTable(e)
  /\ thread' = [thread EXCEPT ![n] = "stopped"]
  /\ net' = [net EXCEPT ![n] = << >>]
  /\ UNCHANGED <<session, key, active, serving, faults, sent, delivered, ended>>

-----------------------------------------------------------------------------
(* What the message thread of a node does.                                 *)

\* Mutant: a manager that is being destroyed takes new sessions.
AcceptsSynWhenInactive(n) == n = "far" /\ serving

AcceptsSyn(n) == n = "far" /\ active[n] /\ serving

\* A Syn the manager accepts: a new session bound to the protocol server.
AcceptSyn(n, m, rest) ==
  /\ AcceptsSyn(n)
  /\ \E e \in Servers :
     \E s \in {HandleMessage(BindToServer(session[e], e), m)} :
       /\ Fresh(e)
       /\ Store(e, s)
       /\ key' = [key EXCEPT ![e] = e]
       /\ Exchange(n, rest, s.out)

LinkIsUp(n) == \A e \in Objects : Node(e) = n => session[e].linkUp

\* No session to hand the message to.
SendReset(n, id, rest) ==
  /\ Exchange(n, rest, IF LinkIsUp(n) THEN <<ResetMessage(id)>> ELSE << >>)
  /\ UNCHANGED <<session, key>>

\* The session e of the node takes the message.
Deliver(n, e, m, rest) ==
  \E s \in {HandleMessage(session[e], m)} :
    /\ s.snd.lastAckCount <= MaxDupAcks
    /\ Store(e, s)
    /\ Exchange(n, rest, s.out)

\* A SynAck finds its session under the final id or, the first time, under
\* the initial id, and then moves it to the final id.
HandleSynAck(n, m, rest) ==
  LET found == IF Lookup(n, m.sessionId) # {} THEN Lookup(n, m.sessionId)
                                              ELSE Lookup(n, Client)
  IN  \/ /\ ~active[n] \/ found = {}
         /\ SendReset(n, m.sessionId, rest)
      \/ /\ active[n]
         /\ \E e \in found :
              /\ Deliver(n, e, m, rest)
              /\ key' = [key EXCEPT ![e] = m.sessionId]

HandleOther(n, m, rest) ==
  LET found == FindOpenSession(n, m.sessionId)
  IN  \/ found = {} /\ SendReset(n, m.sessionId, rest)
      \/ \E e \in found : Deliver(n, e, m, rest) /\ UNCHANGED key

HandleReceivedSessionMessage(n, m, rest) ==
  CASE m.type = "Syn" /\ AcceptsSyn(n) ->
         \* Bound: a Syn past the last free session object is lost.
         \/ AcceptSyn(n, m, rest)
         \/ /\ \A e \in Servers : ~Fresh(e)
            /\ Exchange(n, rest, << >>)
            /\ UNCHANGED <<session, key>>
    [] m.type = "Syn" /\ ~AcceptsSyn(n) -> SendReset(n, m.sessionId, rest)
    [] m.type = "SynAck" -> HandleSynAck(n, m, rest)
    [] m.type = "Unknown" ->
         Exchange(n, rest, << >>) /\ UNCHANGED <<session, key>>
    [] OTHER -> HandleOther(n, m, rest)

\* Delivery of message i of the queue of n: the oldest one, or one that
\* overtakes it; the wire may keep a duplicate.
ReceiveMessage(n) ==
  /\ thread[n] = "running"
  /\ \E i \in 1 .. Len(net[n]) :
       \/ /\ i = 1
          /\ HandleReceivedSessionMessage(n, net[n][i], Tail(net[n]))
          /\ UNCHANGED faults
       \/ /\ i > 1
          /\ HandleReceivedSessionMessage(n, net[n][i], RemoveAt(net[n], i))
          /\ Fault("overtake")
       \/ /\ i = 1
          /\ HandleReceivedSessionMessage(n, net[n][i], net[n])
          /\ Fault("duplicate")
  /\ UNCHANGED <<active, serving, thread, sent, delivered, ended>>

\* When timers are longer than a round trip, they only fire once nothing that
\* a session would react to is in flight and no acknowledgement is held back.
TimersMayFire ==
  \/ ~Timely
  \/ /\ \A n \in Nodes : \A i \in DOMAIN net[n] : net[n][i].type = "Rst"
     /\ \A e \in Objects :
          InTable(e) => session[e].rcv.nextExpected = session[e].rcv.lastUnacknowledged

\* Update of one session, and its removal from the table once closed: k
\* messages have timed out, and n new messages go out.
UpdateSession(e, k, n) ==
  \E r \in {UpdateReceiveWindow(session[e])} :
  \E s \in {UpdateSendWindow(r, k, n)} :
  \E t \in {NotifyOwner(UpdateTimeout(s))} :
    /\ InTable(e) /\ thread[Node(e)] = "running"
    /\ Emit(Node(e), s.out)
    /\ IF FinBlocks(s)
         THEN /\ Store(e, s)
              /\ thread' = [thread EXCEPT ![Node(e)] = "blocked"]
              /\ UNCHANGED key
         ELSE /\ Store(e, t)
              /\ key' = IF t.state = "Closed"
                          THEN [key EXCEPT ![e] = InvalidSessionId] ELSE key
              /\ UNCHANGED thread
    /\ UNCHANGED <<active, serving, sent, delivered, ended>>

\* The channel takes every new message, or runs full and answers NotReady.
Update(e) ==
  LET w == session[e].snd
  IN  \E k \in 0 .. InFlight(w) :
        /\ k > 0 => TimersMayFire
        /\ \/ UpdateSession(e, k, Sendable(w)) /\ UNCHANGED faults
           \/ \E n \in 0 .. Sendable(w) - 1 :
                UpdateSession(e, k, n) /\ Fault("notReady")

\* The router says that the client on the other node is gone.
HandleClientDisconnection(n) ==
  /\ thread[n] = "running"
  /\ Fault("peerLost")
  /\ ShutdownAll(n, "NotReady")
  /\ UNCHANGED <<key, active, serving, thread, net, sent, delivered, ended>>

-----------------------------------------------------------------------------
(* What else the channel does.                                             *)

\* A datagram is lost.
Drop(n) ==
  /\ Fault("drop")
  /\ \E i \in 1 .. Len(net[n]) : net' = [net EXCEPT ![n] = RemoveAt(net[n], i)]
  /\ UNCHANGED <<session, key, active, serving, thread, sent, delivered, ended>>

\* From now on every Forward of the node fails.
LinkDown(n) ==
  /\ Fault("linkDown")
  /\ session' = [e \in Objects |-> IF Node(e) = n
                                     THEN [session[e] EXCEPT !.linkUp = FALSE]
                                     ELSE session[e]]
  /\ UNCHANGED <<key, active, serving, thread, net, sent, delivered, ended>>

\* The manager refuses a Syn: no protocol server is registered for it, its
\* versions do not overlap, or the server does not accept the session.
RejectSyn ==
  /\ thread["far"] = "running"
  /\ net["far"] # << >>
  /\ Head(net["far"]).type = "Syn"
  /\ Fault("reject")
  /\ SendReset("far", Head(net["far"]).sessionId, Tail(net["far"]))
  /\ UNCHANGED <<active, serving, thread, sent, delivered, ended>>

-----------------------------------------------------------------------------

Next ==
  \/ EstablishSessionForClient
  \/ Disconnect
  \/ CloseClient
  \/ UnregisterProtocolServer
  \/ RejectSyn
  \/ \E e \in Objects : Send(e) \/ ReceiveNext(e) \/ Update(e)
  \/ \E n \in Nodes :
       \/ ReceiveMessage(n)
       \/ Destroy(n)
       \/ DestroyReturns(n)
       \/ HandleClientDisconnection(n)
       \/ Drop(n)
       \/ LinkDown(n)

Spec == Init /\ [][Next]_vars

-----------------------------------------------------------------------------
(* Properties.                                                             *)

SendWindows ==
  [messages : [Index -> Slots], valid : [Index -> BOOLEAN],
   semaphore : 0 .. WindowSize, nextSequence : Nat \ {0},
   nextUnacknowledged : Nat \ {0}, lastSent : Nat, lastAckCount : Nat,
   retransmitCount : Nat, lastAvailableSize : Nat]

ReceiveWindows ==
  [messages : [Index -> Slots], valid : [Index -> BOOLEAN],
   semaphore : 0 .. WindowSize, nextUnread : Nat \ {0},
   nextExpected : Nat \ {0}, lastUnacknowledged : Nat \ {0},
   currentAvailableSize : 1 .. WindowSize]

Sessions ==
  [state : SessionStates, reason : Reasons, owner : BOOLEAN, linkUp : BOOLEAN,
   sessionId : Ids, snd : SendWindows, rcv : ReceiveWindows, out : {<< >>}]

\* Every variable has its type; between two calls a session has nothing left
\* to forward.
TypeOK ==
  /\ session \in [Objects -> Sessions]
  /\ key \in [Objects -> Ids]
  /\ active \in [Nodes -> BOOLEAN]
  /\ serving \in BOOLEAN
  /\ thread \in [Nodes -> ThreadStates]
  /\ net \in [Nodes -> Seq(Messages)]
  /\ faults \in 0 .. MaxFaults
  /\ sent \in [Objects -> Nat]
  /\ delivered \in [Objects -> Seq(Nat)]
  /\ ended \in [Objects -> BOOLEAN]

SendWindowIntact(w) ==
  LET used == w.nextUnacknowledged .. (w.nextSequence - 1)
  IN  /\ w.nextUnacknowledged <= w.lastSent + 1
      /\ w.lastSent < w.nextSequence
      /\ w.nextSequence - w.nextUnacknowledged <= WindowSize
      /\ w.semaphore = WindowSize - (w.nextSequence - w.nextUnacknowledged)
      /\ \A q \in used : w.messages[Slot(q)].seq = q
      /\ \A i \in Index : w.valid[i] <=> \E q \in used : Slot(q) = i

\* The asserts of session.cpp:146, 159, 320, 330, 734 and 795: the ring holds
\* exactly the messages that are written and not acknowledged, each in its
\* own slot, and the semaphore counts the free slots.
TransmitWindowIntact == \A e \in Objects : SendWindowIntact(session[e].snd)

ReadWindowIntact(r) ==
  /\ r.semaphore = r.nextExpected - r.nextUnread
  /\ r.lastUnacknowledged <= r.nextExpected
  /\ \A q \in r.nextUnread .. (r.nextExpected - 1) : r.valid[Slot(q)]
  /\ \A q \in r.nextUnread .. (r.nextUnread + WindowSize - 1) :
       r.valid[Slot(q)] => r.messages[Slot(q)].seq = q

\* The asserts of session.cpp:260, 648, 854 and 866: what a reader can take is
\* exactly what the semaphore counts, and each slot of the receive window
\* holds the message of its own sequence number.
ReceiveWindowIntact == \A e \in Objects : ReadWindowIntact(session[e].rcv)

\* The session at the other end: known to the client once it has taken the
\* SynAck of a server session.
Paired(e) == e \in Servers /\ session[Client].sessionId = e

\* A slot of a send window is only freed once the message is in the receive
\* window of the other end.
AcknowledgedWasReceived ==
  \A e \in Servers :
    Paired(e) =>
      /\ session[Client].snd.nextUnacknowledged <= session[e].rcv.nextExpected
      /\ session[e].snd.nextUnacknowledged <= session[Client].rcv.nextExpected

\* A Syn that was retransmitted or duplicated leaves half-open sessions at the
\* server, but only the one whose SynAck the client took is ever established.
OneSessionEstablished ==
  \A e \in Servers : session[e].state \in Open => Paired(e)

\* The assert of sessionManager.cpp:442: once Destroy has begun, neither a Syn
\* nor the end of a handshake that was under way makes an established session.
DestroyedHasNoneEstablished ==
  \A e \in Objects : ~active[Node(e)] => session[e].state # "Established"

\* A session that was closed is never used again, although HandleFinMessage
\* would move a closed session to Closing: the lookup filters it.
ClosedIsFinal ==
  [][\A e \in Objects :
       session[e].state = "Closed" /\ ~Fresh(e) => session'[e].state = "Closed"]_vars

\* What the two owners see of their session: of the server's sessions, the
\* one whose SynAck the client took.
OfEnds(f, none) ==
  [n \in Nodes |->
     CASE n = "near" -> f[Client]
       [] n = "far" /\ session[Client].sessionId \in Servers ->
            f[session[Client].sessionId]
       [] OTHER -> none]

Stream == INSTANCE SessionStream
            WITH sent <- OfEnds(sent, 0), delivered <- OfEnds(delivered, << >>),
                 ended <- OfEnds(ended, FALSE)

\* The windows, acknowledgements, retransmissions and the handshake implement
\* the stream: neither end ever receives a message twice, out of order, with a
\* gap before it, or after the end of the stream.
ImplementsStream == Stream!Spec

-----------------------------------------------------------------------------
(* Liveness.                                                               *)

\* The message thread of a node runs until Destroy returns, and an owner reads
\* what it can.
\* Nothing makes an owner connect, send or end a session.
Fairness ==
  /\ \A n \in Nodes : WF_vars(ReceiveMessage(n)) /\ WF_vars(DestroyReturns(n))
  /\ \A e \in Objects : WF_vars(Update(e)) /\ WF_vars(ReceiveNext(e))

FairSpec == Spec /\ Fairness

\* BaseProtocolClient::Connect waits without a timeout for the handshake to
\* end; no end of it is left half-open either, as long as its thread runs.
HandshakeEnds ==
  \A e \in Objects :
    session[e].state \in {"SynSent", "SynReceived"}
      ~> \/ session[e].state \notin {"SynSent", "SynReceived"}
         \/ thread[Node(e)] = "stopped"

\* BaseProtocolClient::Connect returns.  "If we fail to establish the session,
\* the event will never be signaled", so that it only waits if
\* EstablishSessionForClient succeeds.
ConnectReturns ==
  session[Client].state = "SynSent" ~> session[Client].state # "SynSent"

\* What the client sends on a session both ends have established arrives, as
\* long as the client does not end the session.
SentIsDelivered ==
  \A e \in Servers : \A i \in 1 .. MaxRequests :
    (session[e].state \in Open /\ sent[Client] >= i)
      ~> (Len(delivered[e]) >= i \/ session[Client].state # "Established")

\* BaseProtocolClient::Disconnect waits without a timeout until the manager
\* has removed the session.
DisconnectCompletes ==
  session[Client].state \in {"FinWait1", "FinWait2"} ~> ~InTable(Client)

\* SessionManager::Destroy ends.  "Wait for sessions to close."
DestroyCompletes == \A n \in Nodes : ~active[n] ~> thread[n] = "stopped"

\* "Handle edge case where the Ack for the SynAck was lost.  In this situation,
\* we've already moved into the established state but they have not."
LostAckIsHandled ==
  session[Client].state = "Established" ~> \E e \in Servers : session[e].state \in Open

\* A fast retransmit sends a message the session has sent before: never an
\* empty slot of the ring.
RetransmitsMessages ==
  \A n \in Nodes : \A i \in DOMAIN net[n] : net[n][i].type # "Unknown"

=============================================================================
