----------------------------- MODULE ClientTable -----------------------------
(***************************************************************************)
(* What the listener knows of its clients: the maps of RouterCore          *)
(* (listener/routerCore.cpp) and the ids the client manager has handed out *)
(* (listener/clientmanagers/listenerClientManager.cpp), with the functions *)
(* that change them.  A table is a value; each operator stands for one     *)
(* call and returns the table, or the set of tables, it can leave behind.  *)
(*                                                                         *)
(* A connection is what a ConnectionInfo identifies: one endpoint of a     *)
(* client on one transport.                                                *)
(***************************************************************************)
EXTENDS Integers, FiniteSets, Functions

CONSTANTS
  Ids,                \* the client ids the manager can generate
  NoId,               \* kBroadcastClientId
  Conns,              \* the connections clients use
  Transports,         \* the transports registered at the router
  TransportOf,        \* the transport of each connection
  ClientTimeoutCount  \* kClientTimeoutCount

ASSUME TableAssumption ==
  /\ IsFiniteSet(Ids)
  /\ NoId \notin Ids
  /\ Conns # {}
  /\ TransportOf \in [Conns -> Transports]
  /\ ClientTimeoutCount \in Nat

ClientContext == [conn : Conns, registered : BOOLEAN, identified : BOOLEAN,
                  pong : BOOLEAN, retries : 0..ClientTimeoutCount]

Route == [id : Ids, conn : Conns]

ClientMaps == UNION {[I -> ClientContext] : I \in SUBSET Ids}

\* attached: the keys of m_transportMap; routes: the clientMaps of its
\* transports; clients: m_clientMap; allocated: the manager's m_clientInfo.
Tables == [attached : SUBSET Transports,
           routes : SUBSET Route,
           clients : ClientMaps,
           allocated : SUBSET Ids]

EmptyTable == [attached |-> Transports, routes |-> {},
               clients |-> [i \in {} |-> {}], allocated |-> {}]

Known(tb) == DOMAIN tb.clients

Attached(tb, c) == TransportOf[c] \in tb.attached

\* AddClient: emplace keeps an entry that is there already, in either map.
AddClient(tb, id, c, registered) ==
  IF ~Attached(tb, c) THEN tb
  ELSE [attached |-> tb.attached,
        routes |-> IF \E r \in tb.routes : /\ r.id = id
                                           /\ TransportOf[r.conn] = TransportOf[c]
                   THEN tb.routes
                   ELSE tb.routes \cup {[id |-> id, conn |-> c]},
        clients |-> [i \in Known(tb) \cup {id} |->
                       IF i \in Known(tb) THEN tb.clients[i]
                       ELSE [conn |-> c, registered |-> registered,
                             identified |-> FALSE, pong |-> TRUE,
                             retries |-> 0]],
        allocated |-> tb.allocated]

\* Mutants: a removed client keeps its id, or its route.
WithoutRelease(tb, R) ==
  [tb EXCEPT
     !.routes = {r \in @ : r.id \notin R},
     !.clients = Restrict(@, DOMAIN @ \ R)]

WithoutUnrouting(tb, R) ==
  [tb EXCEPT
     !.clients = Restrict(@, DOMAIN @ \ R),
     !.allocated = @ \ {i \in R \cap Known(tb) : tb.clients[i].registered}]

\* RemoveClient of each client in R, without the notifications: the entry of
\* the client's own transport, the client, and the id of a registered one.
Without(tb, R) ==
  [attached |-> tb.attached,
   routes |-> {r \in tb.routes : ~ /\ r.id \in R \cap Known(tb)
                                   /\ TransportOf[r.conn] =
                                        TransportOf[tb.clients[r.id].conn]},
   clients |-> Restrict(tb.clients, Known(tb) \ R),
   allocated |-> tb.allocated \
                   {i \in R \cap Known(tb) : tb.clients[i].registered}]

\* SendBroadcastMessage to everyone but src removes one client it could not
\* reach, and the notification of that removal may find the next one; the
\* chain ends at a client that was not registered, since its removal is not
\* announced.  The tables that n broadcasts can leave, when writes to the
\* connections in down may fail.
AfterBroadcasts(tb, src, down, n) ==
  LET silent(R) == {i \in R : ~tb.clients[i].registered}
      lost == {r.id : r \in {q \in tb.routes : q.conn \in down}}
                \cap Known(tb)
  IN {Without(tb, R) : R \in {S \in SUBSET lost :
        /\ n = 0 => S = {}
        /\ Cardinality(silent(S)) <= n
        /\ src \in S => \E f \in S \ {src} : f \notin silent(S)}}

\* RemoveClient: a registered client is announced to the others.
RemoveClient(tb, id, down) ==
  IF id \in Known(tb) /\ tb.clients[id].registered
  THEN AfterBroadcasts(Without(tb, {id}), id, down, 1)
  ELSE {Without(tb, {id})}

\* Mutant: does not find the client of a connection that is not identified.
FindIdentifiedByConnection(tb, c) ==
  LET own == {i \in Known(tb) : tb.clients[i].conn = c /\ tb.clients[i].identified}
  IN IF own = {} THEN {NoId} ELSE own

\* FindExternalClientByConnection: the first route of the connection decides,
\* and NoId stands for the null pointer.
FindByConnection(tb, c) ==
  LET own == {r.id : r \in {q \in tb.routes : q.conn = c}}
  IN IF ~Attached(tb, c) \/ own = {} THEN {NoId}
     ELSE {IF id \in Known(tb) THEN id ELSE NoId : id \in own}

\* GenerateClientId: any id that is not allocated.
GenerateClientId(tb) == Ids \ tb.allocated

\* RegisterClient, then AddClient with the new id.
RegisterClient(tb, id, c) ==
  AddClient([tb EXCEPT !.allocated = @ \cup {id}], id, c, TRUE)

\* The client answered: its next round of UpdateClients starts from zero.
Ponged(tb, id) == [tb EXCEPT !.clients[id].pong = TRUE]

\* ClientInfo arrived from a client the router knows.
Identified(tb, id) ==
  [tb EXCEPT !.clients[id].identified = TRUE, !.clients[id].pong = TRUE,
             !.clients[id].retries = 0]

\* Mutant: waits one round longer.
TimedOutLate(tb) == {i \in Known(tb) : /\ ~tb.clients[i].pong
                                       /\ tb.clients[i].retries > ClientTimeoutCount}

TimedOut(tb) == {i \in Known(tb) : /\ ~tb.clients[i].pong
                                   /\ tb.clients[i].retries = ClientTimeoutCount}

\* Mutant: takes the Ping it sends for an answer.
AgedByPing(k) == [k EXCEPT !.pong = ~k.pong,
                           !.retries = IF k.pong THEN 0 ELSE k.retries + 1]

Aged(k) == [k EXCEPT !.pong = FALSE,
                     !.retries = IF k.pong THEN 0 ELSE k.retries + 1]

\* UpdateClients: every client ages by one round, those that have been silent
\* for too long are removed and announced, and a Ping is broadcast.
UpdateClients(tb, down) ==
  LET late == TimedOut(tb)
      rest == Without(tb, late)
      aged == [rest EXCEPT !.clients = [i \in DOMAIN @ |-> Aged(@[i])]]
  IN AfterBroadcasts(aged, NoId, down,
       1 + Cardinality({i \in late : tb.clients[i].registered}))

\* RemoveTransport: its clients go first, then the transport.
RemoveTransport(tb, t, down) ==
  LET own == {r.id : r \in {q \in tb.routes : TransportOf[q.conn] = t}}
      rest == Without(tb, own)
      n == Cardinality({i \in own \cap Known(tb) : tb.clients[i].registered})
  IN {[a EXCEPT !.attached = @ \ {t},
                !.routes = {r \in @ : TransportOf[r.conn] # t}] :
        a \in AfterBroadcasts(rest, NoId, down, n)}

=============================================================================
