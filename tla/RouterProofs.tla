----------------------------- MODULE RouterProofs -----------------------------
(***************************************************************************)
(* Proofs about Router: for any number of clients, connections, transports *)
(* and messages, the variables keep their types, a message only goes to a  *)
(* connection that has been given the id it is addressed to, the maps of   *)
(* the router agree, and what waits for another try is unsent.             *)
(***************************************************************************)
EXTENDS Router, TLAPS

-----------------------------------------------------------------------------
(* The operators of ClientTable: each returns tables, none but AddClient   *)
(* gives a connection to an id, and each keeps the maps of a table in      *)
(* agreement.                                                              *)

\* What an update that only forgets and ages clients leaves: fewer clients,
\* each on the connection it had.
Conserves(tb, a) ==
  /\ a \in Tables
  /\ Known(a) \subseteq Known(tb)
  /\ \A i \in Known(a) : a.clients[i].conn = tb.clients[i].conn

\* A table is a record of four fields.
LEMMA TableFields ==
  ASSUME NEW tb \in Tables
  PROVE  /\ tb = [attached |-> tb.attached, routes |-> tb.routes,
                  clients |-> tb.clients, allocated |-> tb.allocated]
         /\ tb.attached \subseteq Transports
         /\ tb.routes \subseteq Route
         /\ tb.allocated \subseteq Ids
         /\ Known(tb) \subseteq Ids
         /\ tb.clients \in [Known(tb) -> ClientContext]
<1>1. /\ tb = [attached |-> tb.attached, routes |-> tb.routes,
               clients |-> tb.clients, allocated |-> tb.allocated]
      /\ tb.attached \subseteq Transports
      /\ tb.routes \subseteq Route
      /\ tb.allocated \subseteq Ids
      /\ tb.clients \in ClientMaps
  BY DEF Tables
<1>2. PICK I \in SUBSET Ids : tb.clients \in [I -> ClientContext]
  BY <1>1 DEF ClientMaps
<1>3. QED
  BY <1>1, <1>2 DEF Known

\* A function on some ids is a client map.
LEMMA MakeClientMap ==
  ASSUME NEW I, I \subseteq Ids, NEW f \in [I -> ClientContext]
  PROVE  f \in ClientMaps /\ DOMAIN f = I
BY DEF ClientMaps

\* The table of a new router.
LEMMA EmptyTableIsTable == EmptyTable \in Tables /\ Known(EmptyTable) = {}
<1>1. [i \in {} |-> {}] \in [{} -> ClientContext]
  OBVIOUS
<1>2. [i \in {} |-> {}] \in ClientMaps /\ DOMAIN [i \in {} |-> {}] = {}
  BY <1>1, MakeClientMap
<1>3. QED
  BY <1>2 DEF EmptyTable, Tables, Known

\* Removal (routerCore.cpp:122).
LEMMA WithoutConserves ==
  ASSUME NEW tb \in Tables, NEW R
  PROVE  /\ Conserves(tb, Without(tb, R))
         /\ Known(Without(tb, R)) = Known(tb) \ R
         /\ Without(tb, R).attached = tb.attached
         /\ \A i \in Known(tb) \ R : Without(tb, R).clients[i] = tb.clients[i]
<1> DEFINE a == Without(tb, R)
           I == Known(tb) \ R
           cls == [i \in I |-> tb.clients[i]]
           rts == {r \in tb.routes : ~ /\ r.id \in R \cap Known(tb)
                                       /\ TransportOf[r.conn] =
                                            TransportOf[tb.clients[r.id].conn]}
           alc == tb.allocated \
                    {i \in R \cap Known(tb) : tb.clients[i].registered}
<1>1. a = [attached |-> tb.attached, routes |-> rts, clients |-> cls,
           allocated |-> alc]
  BY DEF Without, Restrict
<1>2. cls \in [I -> ClientContext] /\ I \in SUBSET Ids
  BY TableFields
<1>3. tb.attached \in SUBSET Transports /\ rts \in SUBSET Route
      /\ alc \in SUBSET Ids
  BY TableFields
<1>4. a \in Tables /\ Known(a) = I
  <2>1. cls \in ClientMaps /\ DOMAIN cls = I
    BY <1>2, MakeClientMap
  <2>2. QED
    BY <1>1, <1>3, <2>1 DEF Tables, Known
<1>5. \A i \in I : a.clients[i] = tb.clients[i]
  BY <1>1
<1>6. a.attached = tb.attached
  BY <1>1
<1>7. QED
  BY <1>4, <1>5, <1>6 DEF Conserves

\* Forgetting twice is forgetting.
LEMMA ConservesTransitive ==
  ASSUME NEW tb, NEW a, NEW b, Conserves(tb, a), Conserves(a, b)
  PROVE  Conserves(tb, b)
BY DEF Conserves

\* A broadcast (routerCore.cpp:155).
LEMMA BroadcastsConserve ==
  ASSUME NEW tb \in Tables, NEW src, NEW down, NEW n,
         NEW a \in AfterBroadcasts(tb, src, down, n)
  PROVE  Conserves(tb, a)
<1>1. PICK S : a = Without(tb, S)
  BY DEF AfterBroadcasts
<1>2. QED
  BY <1>1, WithoutConserves

\* RemoveClient with its announcement.
LEMMA RemoveConserves ==
  ASSUME NEW tb \in Tables, NEW id, NEW down,
         NEW a \in RemoveClient(tb, id, down)
  PROVE  Conserves(tb, a)
<1>1. Conserves(tb, Without(tb, {id})) /\ Without(tb, {id}) \in Tables
  BY WithoutConserves DEF Conserves
<1>2. CASE id \in Known(tb) /\ tb.clients[id].registered
  <2>1. a \in AfterBroadcasts(Without(tb, {id}), id, down, 1)
    BY <1>2 DEF RemoveClient
  <2>2. Conserves(Without(tb, {id}), a)
    BY <1>1, <2>1, BroadcastsConserve
  <2>3. QED
    BY <1>1, <2>2, ConservesTransitive
<1>3. CASE ~(id \in Known(tb) /\ tb.clients[id].registered)
  <2>1. a = Without(tb, {id})
    BY <1>3 DEF RemoveClient
  <2>2. QED
    BY <1>1, <2>1
<1>4. QED
  BY <1>2, <1>3

\* What adding leaves (routerCore.cpp:94): the new id gets the connection,
\* unless it has one already.
Gives(tb, id, c, a) ==
  /\ a \in Tables
  /\ Known(a) \subseteq Known(tb) \cup {id}
  /\ \A i \in Known(a) : IF i \in Known(tb)
                         THEN a.clients[i].conn = tb.clients[i].conn
                         ELSE a.clients[i].conn = c

\* AddClient of a client that is registered, or of one that is not.
LEMMA AddAnyGives ==
  ASSUME NEW tb \in Tables, NEW id \in Ids, NEW c \in Conns
  PROVE  \A registered \in BOOLEAN :
           Gives(tb, id, c, AddClient(tb, id, c, registered))
<1> TAKE registered \in BOOLEAN
<1> DEFINE a == AddClient(tb, id, c, registered)
           I == Known(tb) \cup {id}
           new == [conn |-> c, registered |-> registered, identified |-> FALSE,
                   pong |-> TRUE, retries |-> 0]
           cls == [i \in I |-> IF i \in Known(tb) THEN tb.clients[i] ELSE new]
           rts == IF \E r \in tb.routes : /\ r.id = id
                                          /\ TransportOf[r.conn] = TransportOf[c]
                  THEN tb.routes
                  ELSE tb.routes \cup {[id |-> id, conn |-> c]}
<1>1. CASE ~Attached(tb, c)
  BY <1>1 DEF AddClient, Gives
<1>2. CASE Attached(tb, c)
  <2>1. a = [attached |-> tb.attached, routes |-> rts, clients |-> cls,
             allocated |-> tb.allocated]
    BY <1>2 DEF AddClient
  <2>2. new \in ClientContext
    BY TableAssumption DEF ClientContext
  <2>3. cls \in [I -> ClientContext] /\ I \in SUBSET Ids
    BY <2>2, TableFields
  <2>4. rts \in SUBSET Route
    BY TableFields DEF Route
  <2>5. a \in Tables /\ Known(a) = I
    <3>1. cls \in ClientMaps /\ DOMAIN cls = I
      BY <2>3, MakeClientMap
    <3>2. QED
      BY <2>1, <2>4, <3>1, TableFields DEF Tables, Known
  <2>6. \A i \in I : a.clients[i].conn =
                       IF i \in Known(tb) THEN tb.clients[i].conn ELSE c
    BY <2>1
  <2>7. QED
    BY <2>5, <2>6 DEF Gives
<1>3. QED
  BY <1>1, <1>2

\* The same for each kind of client.
LEMMA AddClientGives ==
  ASSUME NEW tb \in Tables, NEW id \in Ids, NEW c \in Conns
  PROVE  /\ Gives(tb, id, c, AddClient(tb, id, c, TRUE))
         /\ Gives(tb, id, c, AddClient(tb, id, c, FALSE))
<1>1. \A registered \in BOOLEAN :
        Gives(tb, id, c, AddClient(tb, id, c, registered))
  BY AddAnyGives
<1>2. QED
  BY <1>1, Zenon

\* Registration (listenerClientManager.cpp:108): as AddClient.
LEMMA RegisterClientGives ==
  ASSUME NEW tb \in Tables, NEW id \in Ids, NEW c \in Conns
  PROVE  Gives(tb, id, c, RegisterClient(tb, id, c))
<1> DEFINE b == [tb EXCEPT !.allocated = @ \cup {id}]
<1>1. b = [attached |-> tb.attached, routes |-> tb.routes,
           clients |-> tb.clients, allocated |-> tb.allocated \cup {id}]
  BY DEF Tables
<1>2. b \in Tables /\ Known(b) = Known(tb)
  BY <1>1 DEF Tables, Known
<1>3. b.clients = tb.clients
  BY <1>1
<1>4. RegisterClient(tb, id, c) = AddClient(b, id, c, TRUE)
  BY DEF RegisterClient
<1> HIDE DEF b
<1>5. Gives(b, id, c, AddClient(b, id, c, TRUE))
  BY <1>2, AddClientGives
<1>6. QED
  BY <1>2, <1>3, <1>4, <1>5, Zenon DEF Gives

\* An answer of a client, and its ClientInfo.
LEMMA AnswersConserve ==
  ASSUME NEW tb \in Tables, NEW id \in Known(tb)
  PROVE  Conserves(tb, Ponged(tb, id)) /\ Conserves(tb, Identified(tb, id))
<1> DEFINE k == tb.clients[id]
           p == [tb.clients EXCEPT ![id] = [k EXCEPT !.pong = TRUE]]
           d == [tb.clients EXCEPT ![id] =
                   [k EXCEPT !.identified = TRUE, !.pong = TRUE, !.retries = 0]]
<1>1. k \in ClientContext
  BY TableFields
<1>2. [k EXCEPT !.pong = TRUE] \in ClientContext
      /\ [k EXCEPT !.pong = TRUE].conn = k.conn
  BY <1>1 DEF ClientContext
<1> DEFINE e == [k EXCEPT !.identified = TRUE, !.pong = TRUE, !.retries = 0]
<1>3. e \in ClientContext /\ e.conn = k.conn
  <2> DEFINE k1 == [k EXCEPT !.identified = TRUE]
             k2 == [k1 EXCEPT !.pong = TRUE]
             k3 == [k2 EXCEPT !.retries = 0]
  <2>1. e = k3
    OBVIOUS
  <2>2. k1 \in ClientContext /\ k1.conn = k.conn
    BY <1>1 DEF ClientContext
  <2> HIDE DEF k, k1
  <2>3. k2 \in ClientContext /\ k2.conn = k1.conn
    BY <2>2 DEF ClientContext
  <2> HIDE DEF k2
  <2>4. k3 \in ClientContext /\ k3.conn = k2.conn
    BY <2>3, TableAssumption DEF ClientContext
  <2> HIDE DEF k3
  <2>5. QED
    BY <2>1, <2>2, <2>3, <2>4
<1>4. p \in [Known(tb) -> ClientContext] /\ d \in [Known(tb) -> ClientContext]
  BY <1>2, <1>3, TableFields
<1>5. \A i \in Known(tb) : p[i].conn = tb.clients[i].conn
                           /\ d[i].conn = tb.clients[i].conn
  BY <1>2, <1>3, TableFields
<1>6. /\ Ponged(tb, id) = [attached |-> tb.attached, routes |-> tb.routes,
                           clients |-> p, allocated |-> tb.allocated]
      /\ Identified(tb, id) = [attached |-> tb.attached, routes |-> tb.routes,
                               clients |-> d, allocated |-> tb.allocated]
  <2>1. /\ Ponged(tb, id) = [tb EXCEPT !.clients = p]
        /\ Identified(tb, id) = [tb EXCEPT !.clients = d]
    BY DEF Ponged, Identified
  <2> HIDE DEF p, d
  <2>2. QED
    BY <2>1 DEF Tables
<1>7. /\ Ponged(tb, id) \in Tables /\ Known(Ponged(tb, id)) = Known(tb)
      /\ Identified(tb, id) \in Tables /\ Known(Identified(tb, id)) = Known(tb)
  <2>1. /\ p \in ClientMaps /\ DOMAIN p = Known(tb)
        /\ d \in ClientMaps /\ DOMAIN d = Known(tb)
    BY <1>4, TableFields, MakeClientMap
  <2>2. QED
    BY <1>6, <2>1, TableFields DEF Tables, Known
<1>8. Ponged(tb, id).clients = p /\ Identified(tb, id).clients = d
  BY <1>6
<1>9. QED
  BY <1>5, <1>7, <1>8 DEF Conserves

\* A round of UpdateClients (routerCore.cpp:306): whoever is not removed ages
\* within the limit.
LEMMA UpdateConserves ==
  ASSUME NEW tb \in Tables, NEW down, NEW a \in UpdateClients(tb, down)
  PROVE  Conserves(tb, a)
<1> DEFINE late == TimedOut(tb)
           rest == Without(tb, late)
           cls == [i \in Known(rest) |-> Aged(rest.clients[i])]
           aged == [rest EXCEPT !.clients = [i \in DOMAIN @ |-> Aged(@[i])]]
<1>1. /\ Conserves(tb, rest) /\ rest \in Tables
      /\ Known(rest) = Known(tb) \ late
      /\ \A i \in Known(rest) : rest.clients[i] = tb.clients[i]
  BY WithoutConserves DEF Conserves
<1>2. \A i \in Known(rest) : /\ Aged(rest.clients[i]) \in ClientContext
                             /\ Aged(rest.clients[i]).conn = rest.clients[i].conn
  <2>1. TAKE i \in Known(rest)
  <2>2. /\ rest.clients[i] \in ClientContext
        /\ rest.clients[i].pong \/ rest.clients[i].retries # ClientTimeoutCount
    BY <1>1, TableFields DEF TimedOut
  <2> DEFINE k == rest.clients[i]
             n == IF k.pong THEN 0 ELSE k.retries + 1
             k1 == [k EXCEPT !.pong = FALSE]
             k2 == [k1 EXCEPT !.retries = n]
  <2>3. Aged(k) = k2
    BY DEF Aged
  <2>4. n \in 0 .. ClientTimeoutCount
    BY <2>2, TableAssumption DEF ClientContext
  <2>5. k1 \in ClientContext /\ k1.conn = k.conn
    BY <2>2 DEF ClientContext
  <2> HIDE DEF k, n, k1
  <2>6. k2 \in ClientContext /\ k2.conn = k1.conn
    BY <2>4, <2>5 DEF ClientContext
  <2>7. QED
    BY <2>3, <2>5, <2>6 DEF k
<1>3. aged = [attached |-> rest.attached, routes |-> rest.routes,
              clients |-> cls, allocated |-> rest.allocated]
  BY <1>1 DEF Known, Tables
<1>4. cls \in [Known(rest) -> ClientContext]
  BY <1>2
<1>5. aged \in Tables /\ Known(aged) = Known(rest)
  <2>1. cls \in ClientMaps /\ DOMAIN cls = Known(rest)
    BY <1>1, <1>4, TableFields, MakeClientMap
  <2>2. QED
    BY <1>1, <1>3, <2>1, TableFields DEF Tables, Known
<1>6. \A i \in Known(rest) : aged.clients[i].conn = rest.clients[i].conn
  BY <1>2, <1>3
<1>7. Conserves(rest, aged)
  BY <1>5, <1>6 DEF Conserves
<1>8. Conserves(aged, a)
  <2>1. a \in AfterBroadcasts(aged, NoId, down,
                1 + Cardinality({i \in late : tb.clients[i].registered}))
    BY DEF UpdateClients
  <2>2. QED
    BY <1>5, <2>1, BroadcastsConserve
<1>9. QED
  BY <1>1, <1>7, <1>8, ConservesTransitive

\* The end of a transport (routerCore.cpp:828).
LEMMA RemoveTransportConserves ==
  ASSUME NEW tb \in Tables, NEW t, NEW down,
         NEW a \in RemoveTransport(tb, t, down)
  PROVE  Conserves(tb, a)
<1> DEFINE own == {r.id : r \in {q \in tb.routes : TransportOf[q.conn] = t}}
           rest == Without(tb, own)
           n == Cardinality({i \in own \cap Known(tb) : tb.clients[i].registered})
<1>1. Conserves(tb, rest) /\ rest \in Tables
  BY WithoutConserves DEF Conserves
<1> HIDE DEF rest, n
<1>2. PICK b \in AfterBroadcasts(rest, NoId, down, n) :
        a = [b EXCEPT !.attached = @ \ {t},
                      !.routes = {r \in @ : TransportOf[r.conn] # t}]
  BY DEF RemoveTransport, rest, n
<1>3. Conserves(rest, b) /\ b \in Tables
  <2>1. Conserves(rest, b)
    BY <1>1, BroadcastsConserve
  <2>2. QED
    BY <2>1 DEF Conserves
<1>4. a = [attached |-> b.attached \ {t},
           routes |-> {r \in b.routes : TransportOf[r.conn] # t},
           clients |-> b.clients, allocated |-> b.allocated]
  BY <1>2, <1>3 DEF Tables
<1>5. a \in Tables /\ Known(a) = Known(b)
  BY <1>3, <1>4 DEF Tables, Known
<1>6. Conserves(b, a)
  BY <1>4, <1>5 DEF Conserves
<1>7. QED
  BY <1>1, <1>3, <1>6, ConservesTransitive


-----------------------------------------------------------------------------
(* The maps agree: what the removals and additions keep of it, for every   *)
(* id but those in X.                                                      *)

\* Ids are allocated to registered clients, and routes lead to known clients.
Tidy(tb, X) ==
  \A i \in Ids \ X :
    /\ i \in tb.allocated <=> (i \in Known(tb) /\ tb.clients[i].registered)
    /\ \A c \in Conns : [id |-> i, conn |-> c] \in tb.routes <=>
                          (i \in Known(tb) /\ tb.clients[i].conn = c)

\* No new route, and no client is registered or moves.
Trims(tb, a) ==
  /\ a.routes \subseteq tb.routes
  /\ Known(a) \subseteq Known(tb)
  /\ \A i \in Known(a) : /\ a.clients[i].conn = tb.clients[i].conn
                         /\ a.clients[i].registered = tb.clients[i].registered

\* At most one new route and one new client, on the same connection.
Extends(tb, id, c, registered, a) ==
  /\ a.routes \subseteq tb.routes \cup {[id |-> id, conn |-> c]}
  /\ Known(a) \subseteq Known(tb) \cup {id}
  /\ \A i \in Known(a) :
       IF i \in Known(tb)
       THEN /\ a.clients[i].conn = tb.clients[i].conn
            /\ a.clients[i].registered = tb.clients[i].registered
       ELSE a.clients[i].conn = c /\ a.clients[i].registered = registered

\* Trimming twice is trimming.
LEMMA TrimsTransitive ==
  ASSUME NEW tb, NEW a, NEW b, Trims(tb, a), Trims(a, b)
  PROVE  Trims(tb, b)
BY DEF Trims

\* A table that was extended and then trimmed.
LEMMA ExtendsTrimmed ==
  ASSUME NEW tb, NEW id, NEW c, NEW registered, NEW a, NEW b,
         Extends(tb, id, c, registered, a), Trims(a, b)
  PROVE  Extends(tb, id, c, registered, b)
BY DEF Extends, Trims

\* Removal erases the route, the client and the id together.
LEMMA WithoutTidy ==
  ASSUME NEW tb \in Tables, NEW R
  PROVE  /\ Without(tb, R) \in Tables
         /\ Trims(tb, Without(tb, R))
         /\ \A X : Tidy(tb, X) => Tidy(Without(tb, R), X)
<1> DEFINE a == Without(tb, R)
<1>1. /\ Known(a) = Known(tb) \ R
      /\ \A i \in Known(tb) \ R : a.clients[i] = tb.clients[i]
      /\ a \in Tables
  BY WithoutConserves DEF Conserves
<1> DEFINE cls == Restrict(tb.clients, Known(tb) \ R)
           rts == {r \in tb.routes : ~ /\ r.id \in R \cap Known(tb)
                                       /\ TransportOf[r.conn] =
                                            TransportOf[tb.clients[r.id].conn]}
           alc == tb.allocated \
                    {i \in R \cap Known(tb) : tb.clients[i].registered}
<1>2. a.routes = rts /\ a.allocated = alc
  <2>1. a = [attached |-> tb.attached, routes |-> rts, clients |-> cls,
             allocated |-> alc]
    BY DEF Without
  <2> HIDE DEF rts, cls, alc
  <2>2. QED
    BY <2>1
<1> HIDE DEF a
<1>3. Trims(tb, a)
  BY <1>1, <1>2 DEF Trims
<1>4. ASSUME NEW X, Tidy(tb, X) PROVE Tidy(a, X)
  <2> SUFFICES ASSUME NEW i \in Ids \ X
               PROVE  /\ i \in a.allocated <=>
                           (i \in Known(a) /\ a.clients[i].registered)
                      /\ \A c \in Conns : [id |-> i, conn |-> c] \in a.routes <=>
                           (i \in Known(a) /\ a.clients[i].conn = c)
    BY DEF Tidy
  <2>1. /\ i \in tb.allocated <=> (i \in Known(tb) /\ tb.clients[i].registered)
        /\ \A c \in Conns : [id |-> i, conn |-> c] \in tb.routes <=>
                              (i \in Known(tb) /\ tb.clients[i].conn = c)
    BY <1>4 DEF Tidy
  <2>2. i \in a.allocated <=> (i \in Known(a) /\ a.clients[i].registered)
    BY <1>1, <1>2, <2>1
  <2>3. ASSUME NEW c \in Conns
        PROVE  [id |-> i, conn |-> c] \in a.routes <=>
                 (i \in Known(a) /\ a.clients[i].conn = c)
    <3> DEFINE r == [id |-> i, conn |-> c]
    <3>1. r.id = i /\ r.conn = c
      OBVIOUS
    <3>2. r \in tb.routes <=> (i \in Known(tb) /\ tb.clients[i].conn = c)
      BY <2>1
    <3> SUFFICES r \in a.routes <=> (i \in Known(a) /\ a.clients[i].conn = c)
      OBVIOUS
    <3> HIDE DEF r
    <3>3. CASE i \in R /\ i \in Known(tb)
      BY <1>1, <1>2, <3>1, <3>2, <3>3
    <3>4. CASE ~(i \in R /\ i \in Known(tb))
      <4>1. r \in a.routes <=> r \in tb.routes
        BY <1>2, <3>1, <3>4
      <4>2. i \in Known(a) <=> i \in Known(tb)
        BY <1>1, <3>4
      <4>3. i \in Known(a) => a.clients[i] = tb.clients[i]
        BY <1>1, <3>4
      <4>4. QED
        BY <3>2, <4>1, <4>2, <4>3
    <3>5. QED
      BY <3>3, <3>4
  <2>4. QED
    BY <2>2, <2>3
<1>5. QED
  BY <1>1, <1>3, <1>4 DEF a

\* A broadcast (routerCore.cpp:155).
LEMMA BroadcastsTidy ==
  ASSUME NEW tb \in Tables, NEW src, NEW down, NEW n,
         NEW a \in AfterBroadcasts(tb, src, down, n)
  PROVE  /\ a \in Tables
         /\ Trims(tb, a)
         /\ \A X : Tidy(tb, X) => Tidy(a, X)
<1>1. PICK S : a = Without(tb, S)
  BY DEF AfterBroadcasts
<1>2. QED
  BY <1>1, WithoutTidy

\* RemoveClient with its announcement.
LEMMA RemoveTidy ==
  ASSUME NEW tb \in Tables, NEW id, NEW down,
         NEW a \in RemoveClient(tb, id, down)
  PROVE  /\ a \in Tables
         /\ Trims(tb, a)
         /\ \A X : Tidy(tb, X) => Tidy(a, X)
<1> DEFINE b == Without(tb, {id})
<1>1. /\ b \in Tables /\ Trims(tb, b)
      /\ \A X : Tidy(tb, X) => Tidy(b, X)
  BY WithoutTidy
<1>2. a \in AfterBroadcasts(b, id, down, 1) \/ a = b
  BY DEF RemoveClient
<1> HIDE DEF b
<1>3. CASE a = b
  BY <1>1, <1>3
<1>4. CASE a \in AfterBroadcasts(b, id, down, 1)
  <2>1. /\ a \in Tables /\ Trims(b, a)
        /\ \A X : Tidy(b, X) => Tidy(a, X)
    BY <1>1, <1>4, BroadcastsTidy
  <2>2. QED
    BY <1>1, <2>1, TrimsTransitive
<1>5. QED
  BY <1>2, <1>3, <1>4

\* A table whose clients keep their connections and their registration.
LEMMA SameClientsTidy ==
  ASSUME NEW tb, NEW a, a.routes = tb.routes,
         a.allocated = tb.allocated, Known(a) = Known(tb),
         \A i \in Known(tb) : /\ a.clients[i].conn = tb.clients[i].conn
                              /\ a.clients[i].registered = tb.clients[i].registered
  PROVE  Trims(tb, a) /\ \A X : Tidy(tb, X) => Tidy(a, X)
BY DEF Trims, Tidy

\* An answer of a client, and its ClientInfo.
LEMMA AnswersTidy ==
  ASSUME NEW tb \in Tables, NEW id \in Known(tb)
  PROVE  /\ Trims(tb, Ponged(tb, id)) /\ Trims(tb, Identified(tb, id))
         /\ \A X : Tidy(tb, X) => /\ Tidy(Ponged(tb, id), X)
                                  /\ Tidy(Identified(tb, id), X)
<1> DEFINE k == tb.clients[id]
           p == [tb.clients EXCEPT ![id] = [k EXCEPT !.pong = TRUE]]
           e == [k EXCEPT !.identified = TRUE, !.pong = TRUE, !.retries = 0]
           d == [tb.clients EXCEPT ![id] = e]
<1>1. k \in ClientContext /\ tb.clients \in [Known(tb) -> ClientContext]
  BY TableFields
<1>2. /\ [k EXCEPT !.pong = TRUE].conn = k.conn
      /\ [k EXCEPT !.pong = TRUE].registered = k.registered
      /\ e.conn = k.conn /\ e.registered = k.registered
  BY <1>1 DEF ClientContext
<1> HIDE DEF e
<1>3. /\ DOMAIN p = Known(tb) /\ DOMAIN d = Known(tb)
      /\ \A i \in Known(tb) : /\ p[i].conn = tb.clients[i].conn
                              /\ p[i].registered = tb.clients[i].registered
                              /\ d[i].conn = tb.clients[i].conn
                              /\ d[i].registered = tb.clients[i].registered
  BY <1>1, <1>2
<1>4. /\ Ponged(tb, id) = [attached |-> tb.attached, routes |-> tb.routes,
                           clients |-> p, allocated |-> tb.allocated]
      /\ Identified(tb, id) = [attached |-> tb.attached, routes |-> tb.routes,
                               clients |-> d, allocated |-> tb.allocated]
  <2>1. /\ Ponged(tb, id) = [tb EXCEPT !.clients = p]
        /\ Identified(tb, id) = [tb EXCEPT !.clients = d]
    BY DEF Ponged, Identified, e
  <2> HIDE DEF p, d
  <2>2. QED
    BY <2>1 DEF Tables
<1> HIDE DEF p, d
<1>5. /\ Ponged(tb, id).clients = p /\ Ponged(tb, id).routes = tb.routes
      /\ Ponged(tb, id).allocated = tb.allocated
      /\ Identified(tb, id).clients = d /\ Identified(tb, id).routes = tb.routes
      /\ Identified(tb, id).allocated = tb.allocated
  BY <1>4
<1>6. /\ Trims(tb, Ponged(tb, id))
      /\ \A X : Tidy(tb, X) => Tidy(Ponged(tb, id), X)
  BY <1>3, <1>5, SameClientsTidy DEF Known
<1>7. /\ Trims(tb, Identified(tb, id))
      /\ \A X : Tidy(tb, X) => Tidy(Identified(tb, id), X)
  BY <1>3, <1>5, SameClientsTidy DEF Known
<1>8. QED
  BY <1>6, <1>7

\* A round of UpdateClients (routerCore.cpp:306).
LEMMA UpdateTidy ==
  ASSUME NEW tb \in Tables, NEW down, NEW a \in UpdateClients(tb, down)
  PROVE  /\ Trims(tb, a)
         /\ \A X : Tidy(tb, X) => Tidy(a, X)
<1> DEFINE late == TimedOut(tb)
           rest == Without(tb, late)
           cls == [i \in Known(rest) |-> Aged(rest.clients[i])]
           n == 1 + Cardinality({i \in late : tb.clients[i].registered})
           aged == [rest EXCEPT !.clients = [i \in DOMAIN @ |-> Aged(@[i])]]
<1>1. /\ rest \in Tables /\ Trims(tb, rest)
      /\ \A X : Tidy(tb, X) => Tidy(rest, X)
      /\ Known(rest) = Known(tb) \ late
      /\ \A i \in Known(rest) : rest.clients[i] = tb.clients[i]
  BY WithoutTidy, WithoutConserves
<1>2. a \in AfterBroadcasts(aged, NoId, down, n)
  BY DEF UpdateClients
<1>3. \A i \in Known(rest) : /\ Aged(rest.clients[i]) \in ClientContext
                             /\ Aged(rest.clients[i]).conn = rest.clients[i].conn
                             /\ Aged(rest.clients[i]).registered =
                                  rest.clients[i].registered
  <2>1. TAKE i \in Known(rest)
  <2>2. /\ rest.clients[i] \in ClientContext
        /\ rest.clients[i].pong \/ rest.clients[i].retries # ClientTimeoutCount
    BY <1>1, TableFields DEF TimedOut
  <2> DEFINE k == rest.clients[i]
             m == IF k.pong THEN 0 ELSE k.retries + 1
             k1 == [k EXCEPT !.pong = FALSE]
             k2 == [k1 EXCEPT !.retries = m]
  <2>3. Aged(k) = k2
    BY DEF Aged
  <2>4. m \in 0 .. ClientTimeoutCount
    BY <2>2, TableAssumption DEF ClientContext
  <2>5. k1 \in ClientContext /\ k1.conn = k.conn /\ k1.registered = k.registered
    BY <2>2 DEF ClientContext
  <2> HIDE DEF k, m, k1
  <2>6. k2 \in ClientContext /\ k2.conn = k1.conn /\ k2.registered = k1.registered
    BY <2>4, <2>5 DEF ClientContext
  <2>7. QED
    BY <2>3, <2>5, <2>6 DEF k
<1>4. aged = [attached |-> rest.attached, routes |-> rest.routes,
              clients |-> cls, allocated |-> rest.allocated]
  BY <1>1 DEF Known, Tables
<1> HIDE DEF late, rest, n, aged
<1>5. cls \in [Known(rest) -> ClientContext]
  BY <1>3
<1>6. aged \in Tables /\ Known(aged) = Known(rest)
  <2>1. cls \in ClientMaps /\ DOMAIN cls = Known(rest)
    BY <1>1, <1>5, TableFields, MakeClientMap
  <2>2. QED
    BY <1>1, <1>4, <2>1, TableFields DEF Tables, Known
<1>7. /\ aged.routes = rest.routes /\ aged.allocated = rest.allocated
      /\ \A i \in Known(rest) :
           /\ aged.clients[i].conn = rest.clients[i].conn
           /\ aged.clients[i].registered = rest.clients[i].registered
  BY <1>3, <1>4
<1>8. Trims(rest, aged) /\ \A X : Tidy(rest, X) => Tidy(aged, X)
  BY <1>6, <1>7, SameClientsTidy
<1>9. Trims(aged, a) /\ \A X : Tidy(aged, X) => Tidy(a, X)
  BY <1>2, <1>6, BroadcastsTidy
<1>10. Trims(tb, a)
  BY <1>1, <1>8, <1>9, TrimsTransitive
<1>11. QED
  BY <1>1, <1>8, <1>9, <1>10

\* The end of a transport: its own clients go with their routes, so that the
\* routes erased after them are those of ids in X.
LEMMA RemoveTransportTidy ==
  ASSUME NEW tb \in Tables, NEW t, NEW down,
         NEW a \in RemoveTransport(tb, t, down)
  PROVE  /\ Trims(tb, a)
         /\ \A X : Tidy(tb, X) => Tidy(a, X)
<1> DEFINE own == {r.id : r \in {q \in tb.routes : TransportOf[q.conn] = t}}
           rest == Without(tb, own)
           n == Cardinality({i \in own \cap Known(tb) : tb.clients[i].registered})
<1>1. /\ rest \in Tables /\ Trims(tb, rest)
      /\ \A X : Tidy(tb, X) => Tidy(rest, X)
      /\ Known(rest) = Known(tb) \ own
  BY WithoutTidy, WithoutConserves
<1> HIDE DEF rest, n
<1>2. PICK b \in AfterBroadcasts(rest, NoId, down, n) :
        a = [b EXCEPT !.attached = @ \ {t},
                      !.routes = {r \in @ : TransportOf[r.conn] # t}]
  BY DEF RemoveTransport, rest, n
<1>3. /\ b \in Tables /\ Trims(rest, b)
      /\ \A X : Tidy(rest, X) => Tidy(b, X)
  BY <1>1, BroadcastsTidy
<1>4. a = [attached |-> b.attached \ {t},
           routes |-> {r \in b.routes : TransportOf[r.conn] # t},
           clients |-> b.clients, allocated |-> b.allocated]
  BY <1>2, <1>3 DEF Tables
<1>5. Trims(b, a)
  BY <1>4 DEF Trims, Known
<1>6. ASSUME NEW X, Tidy(tb, X) PROVE Tidy(a, X)
  <2>1. Tidy(b, X)
    BY <1>1, <1>3, <1>6
  <2>2. ASSUME NEW i \in Ids \ X, NEW c \in Conns,
               [id |-> i, conn |-> c] \in b.routes
        PROVE  TransportOf[c] # t
    <3> DEFINE r == [id |-> i, conn |-> c]
    <3>1. r \in tb.routes /\ r.id = i /\ r.conn = c
      BY <1>1, <1>3, <2>2 DEF Trims
    <3>2. i \in Known(b)
      BY <2>1, <2>2 DEF Tidy
    <3>3. i \notin own
      BY <1>1, <1>3, <3>2 DEF Trims
    <3> HIDE DEF r
    <3>4. QED
      BY <3>1, <3>3 DEF own
  <2>3. ASSUME NEW i \in Ids \ X, NEW c \in Conns
        PROVE  [id |-> i, conn |-> c] \in a.routes <=>
                 [id |-> i, conn |-> c] \in b.routes
    <3> DEFINE r == [id |-> i, conn |-> c]
    <3>1. r.conn = c /\ (r \in b.routes => TransportOf[c] # t)
      BY <2>2, <2>3
    <3>2. a.routes = {q \in b.routes : TransportOf[q.conn] # t}
      BY <1>4
    <3> HIDE DEF r
    <3>3. r \in a.routes <=> r \in b.routes
      BY <3>1, <3>2
    <3>4. QED
      BY <3>3 DEF r
  <2>4. a.allocated = b.allocated /\ a.clients = b.clients /\ Known(a) = Known(b)
    BY <1>4 DEF Known
  <2>5. QED
    BY <2>1, <2>3, <2>4 DEF Tidy
<1>7. QED
  BY <1>1, <1>3, <1>5, <1>6, TrimsTransitive

\* A new client: its route, its entry and, if it is registered, its id are
\* added together, unless something was left of an earlier client of that id.
LEMMA AddTidy ==
  ASSUME NEW tb \in Tables, NEW id \in Ids, NEW c \in Conns,
         NEW registered \in BOOLEAN, NEW b \in Tables,
         b.routes = tb.routes, b.clients = tb.clients,
         b.allocated = IF registered THEN tb.allocated \cup {id} ELSE tb.allocated,
         Attached(b, c),
         NEW X, NEW Y, X \subseteq Y, id \in Known(tb) => id \in Y
  PROVE  LET a == AddClient(b, id, c, registered)
         IN  Extends(tb, id, c, registered, a) /\ (Tidy(tb, X) => Tidy(a, Y))
<1> DEFINE a == AddClient(b, id, c, registered)
           K == Known(tb)
           new == [conn |-> c, registered |-> registered, identified |-> FALSE,
                   pong |-> TRUE, retries |-> 0]
           cls == [i \in K \cup {id} |-> IF i \in K THEN tb.clients[i] ELSE new]
           there == \E r \in tb.routes : /\ r.id = id
                                         /\ TransportOf[r.conn] = TransportOf[c]
           rt == [id |-> id, conn |-> c]
           rts == IF there THEN tb.routes ELSE tb.routes \cup {rt}
<1>1. a = [attached |-> b.attached, routes |-> rts, clients |-> cls,
           allocated |-> b.allocated]
  BY DEF AddClient, Known
<1>2. /\ a.routes = rts /\ a.clients = cls /\ a.allocated = b.allocated
      /\ Known(a) = K \cup {id}
  BY <1>1 DEF Known
<1>3. \A i \in K : a.clients[i] = tb.clients[i]
  BY <1>2
<1>4. id \notin K => a.clients[id] = new
  BY <1>2
<1>5. new.conn = c /\ new.registered = registered
  OBVIOUS
<1> HIDE DEF a, K, new, cls
<1>6. Extends(tb, id, c, registered, a)
  BY <1>2, <1>3, <1>4, <1>5 DEF Extends, K
<1>7. ASSUME Tidy(tb, X) PROVE Tidy(a, Y)
  <2> SUFFICES ASSUME NEW i \in Ids \ Y
               PROVE  /\ i \in a.allocated <=>
                           (i \in Known(a) /\ a.clients[i].registered)
                      /\ \A d \in Conns : [id |-> i, conn |-> d] \in a.routes <=>
                           (i \in Known(a) /\ a.clients[i].conn = d)
    BY DEF Tidy
  <2>1. /\ i \in tb.allocated <=> (i \in K /\ tb.clients[i].registered)
        /\ \A d \in Conns : [id |-> i, conn |-> d] \in tb.routes <=>
                              (i \in K /\ tb.clients[i].conn = d)
    BY <1>7 DEF Tidy, K
  <2>2. CASE i # id
    <3>1. \A d \in Conns : [id |-> i, conn |-> d] # rt
      BY <2>2
    <3> HIDE DEF rt, there
    <3>2. QED
      BY <1>2, <1>3, <2>1, <2>2, <3>1
  <2>3. CASE i = id
    <3>1. id \notin K
      BY <2>3 DEF K
    <3>2. \A d \in Conns : [id |-> id, conn |-> d] \notin tb.routes
      BY <2>1, <2>3, <3>1
    <3>3. ~there
      <4> SUFFICES ASSUME NEW r \in tb.routes, r.id = id PROVE FALSE
        OBVIOUS
      <4>1. r \in Route
        BY TableFields
      <4>2. r = [id |-> id, conn |-> r.conn] /\ r.conn \in Conns
        BY <4>1 DEF Route
      <4>3. QED
        BY <3>2, <4>2
    <3>4. a.routes = tb.routes \cup {rt}
      BY <1>2, <3>3
    <3>5. \A d \in Conns : [id |-> id, conn |-> d] = rt <=> c = d
      OBVIOUS
    <3> HIDE DEF rt, there
    <3>6. \A d \in Conns : [id |-> i, conn |-> d] \in a.routes <=>
                             (i \in Known(a) /\ a.clients[i].conn = d)
      BY <1>2, <1>4, <1>5, <2>3, <3>1, <3>2, <3>4, <3>5
    <3>7. i \in a.allocated <=> (i \in Known(a) /\ a.clients[i].registered)
      BY <1>2, <1>4, <1>5, <2>1, <2>3, <3>1
    <3>8. QED
      BY <3>6, <3>7
  <2>4. QED
    BY <2>2, <2>3
<1>8. QED
  BY <1>6, <1>7 DEF a

\* A client that a System message has made known.
LEMMA AddClientTidy ==
  ASSUME NEW tb \in Tables, NEW id \in Ids, NEW c \in Conns, Attached(tb, c),
         id \notin Known(tb)
  PROVE  LET a == AddClient(tb, id, c, FALSE)
         IN  /\ Extends(tb, id, c, FALSE, a)
             /\ \A X : Tidy(tb, X) => Tidy(a, X)
<1> DEFINE a == AddClient(tb, id, c, FALSE)
<1>1. FALSE \in BOOLEAN
  OBVIOUS
<1>2. ASSUME NEW X PROVE Extends(tb, id, c, FALSE, a) /\ (Tidy(tb, X) => Tidy(a, X))
  <2>1. X \subseteq X
    OBVIOUS
  <2>2. QED
    BY <1>1, <2>1, AddTidy
<1>3. QED
  BY <1>2

\* A client that a ConnectRequest has registered; when the router still knew
\* its id, that id is one of Y.
LEMMA RegisterClientTidy ==
  ASSUME NEW tb \in Tables, NEW id \in Ids, NEW c \in Conns, Attached(tb, c),
         NEW X, NEW Y, X \subseteq Y, id \in Known(tb) => id \in Y
  PROVE  LET a == RegisterClient(tb, id, c)
         IN  Extends(tb, id, c, TRUE, a) /\ (Tidy(tb, X) => Tidy(a, Y))
<1> DEFINE b == [tb EXCEPT !.allocated = @ \cup {id}]
<1>1. b = [attached |-> tb.attached, routes |-> tb.routes,
           clients |-> tb.clients, allocated |-> tb.allocated \cup {id}]
  BY DEF Tables
<1>2. b \in Tables
  BY <1>1 DEF Tables
<1>3. /\ b.clients = tb.clients /\ b.routes = tb.routes
      /\ b.allocated = IF TRUE THEN tb.allocated \cup {id} ELSE tb.allocated
      /\ Attached(b, c)
  BY <1>1 DEF Attached
<1>4. RegisterClient(tb, id, c) = AddClient(b, id, c, TRUE)
  BY DEF RegisterClient
<1> DEFINE registered == TRUE
<1>5. registered \in BOOLEAN
  OBVIOUS
<1> HIDE DEF b
<1>6. b.allocated = IF registered THEN tb.allocated \cup {id} ELSE tb.allocated
  BY <1>3
<1>7. registered = TRUE
  OBVIOUS
<1> HIDE DEF registered
<1>8. LET a == AddClient(b, id, c, registered)
      IN  Extends(tb, id, c, registered, a) /\ (Tidy(tb, X) => Tidy(a, Y))
  BY <1>2, <1>3, <1>5, <1>6, AddTidy
<1>9. QED
  BY <1>4, <1>7, <1>8

-----------------------------------------------------------------------------
(* The types, and whom a message is sent to.                               *)

\* A known client has been given its id.
ClientsGiven ==
  \A i \in Known(table) : [id |-> i, conn |-> table.clients[i].conn] \in given

Active == {"route", "lookup", "transport", "send", "remove"}

\* A thread that routes a message has it in its queue, and has for it what its
\* step needs.
Prepared(t) ==
  LET r == receiver[t]
  IN /\ r.step \in Active => r.number \in 1..Len(r.queue)
     /\ r.step \in {"lookup", "transport", "send", "remove"} =>
          Destination(t) # NoId
     /\ r.step \in {"lookup", "transport", "send"} =>
          current[t].id = Destination(t)
     /\ r.step = "transport" =>
          [id |-> Destination(t), conn |-> r.found] \in given
     /\ r.step = "send" => current[t].set

\* What a thread has cached was given once, and its current client is cached.
CacheGiven(t) ==
  /\ current[t].set => current[t].id \in DOMAIN cache[t]
  /\ \A i \in DOMAIN cache[t] : [id |-> i, conn |-> cache[t][i]] \in given

ThreadsRight == \A t \in Transports : Prepared(t) /\ CacheGiven(t)

\* Only messages for the router wait for its thread.
OnlyInternal ==
  /\ \A i \in 1..Len(queue) : IsInternal(queue[i])
  /\ \A i \in 1..Len(batch) : IsInternal(batch[i])

Safe == ClientsGiven /\ ThreadsRight /\ OnlyInternal

-----------------------------------------------------------------------------
(* What no step of a thread or of the router changes.                      *)

\* A step that leaves the maps, queues and threads alone.
LEMMA SafeFrame ==
  ASSUME Safe, UNCHANGED <<table, queue, batch, receiver, cache, current, given>>
  PROVE  Safe'
BY DEF Safe, ClientsGiven, ThreadsRight, Prepared, CacheGiven, OnlyInternal,
       Destination, Known

\* A step that forgets clients.
LEMMA ForgettingFrame ==
  ASSUME ClientsGiven, Conserves(table, table'), given \subseteq given'
  PROVE  ClientsGiven'
BY DEF ClientsGiven, Conserves

\* A step that leaves the threads alone.
LEMMA ThreadsFrame ==
  ASSUME ThreadsRight, UNCHANGED <<receiver, cache, current>>,
         given \subseteq given'
  PROVE  ThreadsRight'
BY DEF ThreadsRight, Prepared, CacheGiven, Destination

\* A thread other than the one that steps.
LEMMA OthersRight ==
  ASSUME TypeOK, ThreadsRight, NEW t \in Transports, NEW u \in Transports, u # t,
         receiver'[u] = receiver[u], cache'[u] = cache[u],
         current'[u] = current[u], given \subseteq given'
  PROVE  Prepared(u)' /\ CacheGiven(u)'
BY DEF ThreadsRight, Prepared, CacheGiven, Destination

-----------------------------------------------------------------------------
(* The clients.                                                            *)

\* A write of a client.
LEMMA SendType ==
  ASSUME TypeOK, NEW c \in Conns, NEW kind \in Kinds,
         NEW src \in Ids \cup {NoId}, NEW dst \in Ids \cup {NoId, Host},
         NEW n \in 0..MaxData, Send(c, kind, src, dst, n)
  PROVE  inbox' \in [Transports -> Seq(Message)]
<1> DEFINE m == [kind |-> kind, src |-> src, dst |-> dst, from |-> c, n |-> n,
                 tries |-> 0]
<1>1. m \in Message
  BY DEF Message
<1>2. TransportOf[c] \in Transports
  BY TableAssumption
<1>3. inbox' = [inbox EXCEPT ![TransportOf[c]] = Append(@, m)]
  BY DEF Send
<1>4. inbox \in [Transports -> Seq(Message)]
  BY DEF TypeOK
<1> HIDE DEF m
<1>5. Append(inbox[TransportOf[c]], m) \in Seq(Message)
  BY <1>1, <1>2, <1>4
<1>6. QED
  BY <1>2, <1>3, <1>4, <1>5

\* Every action of a client.
LEMMA ClientStepRight ==
  ASSUME TypeOK, Safe, NEW c \in Conns, ClientStep(c)
  PROVE  TypeOK' /\ Safe'
<1> USE DEF Kinds
<1>0. 0 \in 0..MaxData /\ MaxData \in Nat
  BY RouterAssumption
<1>1. CASE RequestConnect(c)
  <2>1. inbox' \in [Transports -> Seq(Message)]
    BY <1>0, <1>1, SendType DEF RequestConnect
  <2>2. QED
    BY <1>1, <2>1, SafeFrame
       DEF RequestConnect, TypeOK, routerVars, threadVars, clientVars, history
<1>2. CASE AnswerPing(c) \/ AnswerQuery(c)
  <2>1. PICK question \in {"ping", "query"}, kind \in {"pong", "info"} :
                 Answer(c, question, kind)
    BY <1>2 DEF AnswerPing, AnswerQuery
  <2>2. myId[c] \in Ids \cup {NoId}
    BY DEF TypeOK
  <2>3. inbox' \in [Transports -> Seq(Message)]
    <3>1. CASE myId[c] # NoId /\ kind \in plan
      BY <1>0, <2>1, <2>2, <3>1, SendType DEF Answer
    <3>2. CASE ~(myId[c] # NoId /\ kind \in plan)
      BY <2>1, <3>2 DEF Answer, TypeOK
    <3>3. QED
      BY <3>1, <3>2
  <2>4. wire' \in [Conns -> SUBSET Answers]
    BY <2>1 DEF Answer, TypeOK
  <2>5. QED
    BY <2>1, <2>3, <2>4, SafeFrame
       DEF Answer, TypeOK, routerVars, threadVars, history
<1>3. CASE Hello(c) \/ SetFlags(c)
  <2>1. PICK kind \in {"hello", "flags"} : Send(c, kind, myId[c], NoId, 0)
    BY <1>3 DEF Hello, SetFlags
  <2>2. myId[c] \in Ids \cup {NoId}
    BY DEF TypeOK
  <2>3. inbox' \in [Transports -> Seq(Message)]
    BY <1>0, <2>1, <2>2, SendType
  <2>4. QED
    BY <1>3, <2>3, SafeFrame
       DEF Hello, SetFlags, TypeOK, routerVars, threadVars, clientVars, history
<1>4. CASE Unregister(c)
  <2>1. myId[c] \in Ids \cup {NoId}
    BY DEF TypeOK
  <2>2. inbox' \in [Transports -> Seq(Message)]
    BY <1>0, <1>4, <2>1, SendType DEF Unregister
  <2>3. QED
    BY <1>4, <2>2, SafeFrame
       DEF Unregister, TypeOK, routerVars, threadVars, history
<1>5. CASE Vanish(c)
  BY <1>5, SafeFrame DEF Vanish, TypeOK, routerVars, threadVars, history
<1>6. ASSUME NEW id \in Ids, ReadResponse(c, id) PROVE TypeOK' /\ Safe'
  <2>1. wire' \in [Conns -> SUBSET Answers] /\ myId' \in [Conns -> Ids \cup {NoId}]
    BY <1>6 DEF ReadResponse, TypeOK
  <2>2. QED
    BY <1>6, <2>1, SafeFrame
       DEF ReadResponse, TypeOK, routerVars, threadVars, history
<1>7. ASSUME NEW id \in Ids, SendData(c, id) PROVE TypeOK' /\ Safe'
  <2>1. myId[c] \in Ids \cup {NoId}
    BY DEF TypeOK
  <2>2. sent + 1 \in 0..MaxData
    BY <1>0, <1>7 DEF SendData, TypeOK
  <2>3. inbox' \in [Transports -> Seq(Message)]
    BY <1>7, <2>1, <2>2, SendType DEF SendData
  <2>4. QED
    BY <1>7, <2>2, <2>3, SafeFrame
       DEF SendData, TypeOK, routerVars, threadVars, clientVars
<1>8. QED
  BY <1>1, <1>2, <1>3, <1>4, <1>5, <1>6, <1>7 DEF ClientStep

-----------------------------------------------------------------------------
(* The receiving threads.                                                  *)

\* A new loop of ReceiveThreadFunc.
LEMMA IdleType == Idle \in Receivers /\ Idle.step = "read"
BY DEF Idle, Receivers, Steps

\* What follows a message: the next one, or a new loop.
LEMMA AfterRouteType ==
  ASSUME NEW r \in Receivers, r.number \in 1..Len(r.queue), NEW b \in BOOLEAN
  PROVE  LET a == AfterRoute(r, b)
         IN /\ a \in Receivers
            /\ a.step \in {"read", "route"}
            /\ a.step = "route" => a.number \in 1..Len(a.queue)
<1>1. r.queue \in Seq(Message) /\ r.retry \in Seq(Message) /\ r.number \in Nat
  BY DEF Receivers
<1>2. r.queue[r.number] \in Message
  BY <1>1
<1>3. [r.queue[r.number] EXCEPT !.tries = @ + 1] \in Message
  BY <1>2 DEF Message
<1> DEFINE q == Requeue(r, b)
<1>4. q \in Seq(Message)
  <2> DEFINE x == [r.queue[r.number] EXCEPT !.tries = @ + 1]
  <2>1. q = Append(r.retry, x) \/ q = r.retry
    BY DEF Requeue
  <2>2. x \in Message
    BY <1>3
  <2> HIDE DEF q, x
  <2>3. \A s \in Seq(Message) : Append(s, x) \in Seq(Message)
    BY <2>2
  <2>4. QED
    BY <1>1, <2>1, <2>3
<1> HIDE DEF q
<1>5. CASE r.number < Len(r.queue)
  <2> DEFINE n == r.number + 1
             r1 == [r EXCEPT !.step = "route"]
             r2 == [r1 EXCEPT !.number = n]
             r3 == [r2 EXCEPT !.retry = q]
  <2>1. AfterRoute(r, b) = r3
    BY <1>5 DEF AfterRoute, q
  <2>2. r1 \in Receivers /\ r1.step = "route" /\ r1.queue = r.queue
    BY DEF Receivers, Steps
  <2>5. n \in Nat /\ n \in 1..Len(r.queue)
    BY <1>1, <1>5
  <2> HIDE DEF r1, n
  <2>3. r2 \in Receivers /\ r2.step = "route" /\ r2.queue = r.queue
        /\ r2.number = n
    BY <2>2, <2>5 DEF Receivers
  <2> HIDE DEF r2
  <2>4. r3 \in Receivers /\ r3.step = "route" /\ r3.queue = r.queue
        /\ r3.number = n
    BY <1>4, <2>3 DEF Receivers
  <2> HIDE DEF r3
  <2>6. QED
    BY <2>1, <2>4, <2>5
<1>6. CASE ~(r.number < Len(r.queue))
  <2> DEFINE a == [Idle EXCEPT !.queue = q]
  <2>1. AfterRoute(r, b) = a
    BY <1>6 DEF AfterRoute, q
  <2>2. a \in Receivers /\ a.step = "read"
    BY <1>4, IdleType DEF Receivers
  <2> HIDE DEF a
  <2>3. QED
    BY <2>1, <2>2
<1>7. QED
  BY <1>5, <1>6

\* The thread's own message.
LEMMA ThisType ==
  ASSUME TypeOK, Safe, NEW t \in Transports, receiver[t].step \in Active
  PROVE  /\ receiver[t] \in Receivers
         /\ receiver[t].number \in 1..Len(receiver[t].queue)
         /\ This(t) \in Message
         /\ Destination(t) = This(t).dst
         /\ Destination(t) \in Ids \cup {NoId, Host}
<1>1. receiver[t] \in Receivers
  BY DEF TypeOK
<1>2. receiver[t].number \in 1..Len(receiver[t].queue)
  BY DEF Safe, ThreadsRight, Prepared
<1>3. receiver[t].queue \in Seq(Message)
  BY <1>1 DEF Receivers
<1>4. This(t) \in Message
  BY <1>2, <1>3 DEF This
<1>5. Destination(t) = This(t).dst
  BY DEF This, Destination
<1>6. This(t).dst \in Ids \cup {NoId, Host}
  BY <1>4 DEF Message
<1>7. QED
  BY <1>1, <1>2, <1>4, <1>5, <1>6

\* A thread that is done with its message.
LEMMA DoneRight ==
  ASSUME TypeOK, Safe, NEW t \in Transports, receiver[t].step \in Active,
         NEW b \in BOOLEAN, Done(t, b), UNCHANGED <<cache, current>>,
         given \subseteq given'
  PROVE  receiver' \in [Transports -> Receivers] /\ ThreadsRight'
<1> DEFINE a == AfterRoute(receiver[t], b)
<1>1. /\ a \in Receivers /\ a.step \in {"read", "route"}
      /\ a.step = "route" => a.number \in 1..Len(a.queue)
  BY ThisType, AfterRouteType
<1>2. receiver' = [receiver EXCEPT ![t] = a]
  BY DEF Done
<1> HIDE DEF a
<1>3. receiver' \in [Transports -> Receivers]
  BY <1>1, <1>2 DEF TypeOK
<1>4. receiver'[t] = a /\ \A u \in Transports : u # t => receiver'[u] = receiver[u]
  BY <1>2 DEF TypeOK
<1>5. Prepared(t)'
  BY <1>1, <1>4 DEF Prepared, Active
<1>6. CacheGiven(t)'
  BY DEF Safe, ThreadsRight, CacheGiven
<1>7. ASSUME NEW u \in Transports, u # t PROVE Prepared(u)' /\ CacheGiven(u)'
  BY <1>4, <1>7, OthersRight DEF Safe
<1>8. QED
  BY <1>3, <1>5, <1>6, <1>7 DEF ThreadsRight

\* The message is handed to the router thread or not.
LEMMA RouteInternalRight ==
  ASSUME TypeOK, Safe, NEW t \in Transports, receiver[t].step \in Active,
         RouteInternal(t), UNCHANGED batch
  PROVE  queue' \in Seq(Message) /\ OnlyInternal'
<1>1. This(t) \in Message /\ queue \in Seq(Message)
  BY ThisType DEF TypeOK
<1>2. CASE IsInternal(This(t))
  <2>1. queue' = Append(queue, This(t))
    BY <1>2 DEF RouteInternal
  <2>2. queue' \in Seq(Message)
    BY <1>1, <2>1
  <2>3. ASSUME NEW i \in 1..Len(queue') PROVE IsInternal(queue'[i])
    <3>1. Len(queue') = Len(queue) + 1 /\ Len(queue) \in Nat
      BY <1>1, <2>1
    <3>2. CASE i = Len(queue) + 1
      BY <1>1, <1>2, <2>1, <3>2
    <3>3. CASE i # Len(queue) + 1
      <4>1. i \in 1..Len(queue) /\ queue'[i] = queue[i]
        BY <1>1, <2>1, <3>1, <3>3
      <4>2. QED
        BY <4>1 DEF Safe, OnlyInternal
    <3>4. QED
      BY <3>2, <3>3
  <2>4. QED
    BY <2>2, <2>3 DEF Safe, OnlyInternal
<1>3. CASE ~IsInternal(This(t))
  BY <1>1, <1>3 DEF RouteInternal, Safe, OnlyInternal
<1>4. QED
  BY <1>2, <1>3

\* Reading what has arrived.
LEMMA ReadRight ==
  ASSUME TypeOK, Safe, NEW t \in Transports, Read(t)
  PROVE  TypeOK' /\ Safe'
<1> DEFINE r == receiver[t]
           q == r.queue \o inbox[t]
           n == Len(r.queue)
           r1 == [r EXCEPT !.queue = q]
           r2 == [r1 EXCEPT !.step = "route"]
           r3 == [r2 EXCEPT !.first = n]
           r4 == [r3 EXCEPT !.number = 1]
<1>1. r \in Receivers /\ inbox[t] \in Seq(Message)
  BY DEF TypeOK
<1>2. q \in Seq(Message) /\ q # <<>> /\ n \in Nat
  BY <1>1 DEF Read, Receivers
<1>3. receiver' = [receiver EXCEPT ![t] = r4]
  BY DEF Read
<1> HIDE DEF q, n, r
<1>4. r1 \in Receivers /\ r1.queue = q
  BY <1>1, <1>2 DEF Receivers
<1> HIDE DEF r1
<1>5. r2 \in Receivers /\ r2.queue = q /\ r2.step = "route"
  BY <1>4 DEF Receivers, Steps
<1> HIDE DEF r2
<1>6. r3 \in Receivers /\ r3.queue = q /\ r3.step = "route"
  BY <1>2, <1>5 DEF Receivers
<1> HIDE DEF r3
<1>7. r4 \in Receivers /\ r4.queue = q /\ r4.step = "route" /\ r4.number = 1
  BY <1>6 DEF Receivers
<1> HIDE DEF r4
<1>8. 1 \in 1..Len(q)
  BY <1>2
<1>9. receiver' \in [Transports -> Receivers]
  BY <1>3, <1>7 DEF TypeOK
<1>10. receiver'[t] = r4
       /\ \A u \in Transports : u # t => receiver'[u] = receiver[u]
  BY <1>3 DEF TypeOK
<1>11. /\ UNCHANGED <<table, queue, batch, asking, alive, cache, current, plan,
                      up, myId, wire, given, reused, delivered, sent>>
       /\ inbox' = [inbox EXCEPT ![t] = <<>>]
  BY DEF Read, routerVars, clientVars, history
<1>12. TypeOK'
  <2>1. inbox' \in [Transports -> Seq(Message)]
    BY <1>11 DEF TypeOK
  <2>2. QED
    BY <1>9, <1>11, <2>1 DEF TypeOK
<1>13. Prepared(t)'
  BY <1>7, <1>8, <1>10 DEF Prepared
<1>14. CacheGiven(t)'
  BY <1>11 DEF Safe, ThreadsRight, CacheGiven
<1>15. ASSUME NEW u \in Transports, u # t PROVE Prepared(u)' /\ CacheGiven(u)'
  BY <1>10, <1>11, <1>15, OthersRight DEF Safe
<1>16. ThreadsRight'
  BY <1>13, <1>14, <1>15 DEF ThreadsRight
<1>17. QED
  BY <1>11, <1>12, <1>16 DEF Safe, ClientsGiven, OnlyInternal, Known

\* The end of a receiving thread.
LEMMA StopReceivingRight ==
  ASSUME TypeOK, Safe, NEW t \in Transports, StopReceiving(t)
  PROVE  TypeOK' /\ Safe'
<1> DEFINE r == [receiver[t] EXCEPT !.step = "stopped"]
<1>1. r \in Receivers /\ r.step = "stopped"
  <2>1. receiver[t] \in Receivers
    BY DEF TypeOK
  <2>2. QED
    BY <2>1 DEF Receivers, Steps
<1>2. receiver' = [receiver EXCEPT ![t] = r]
  BY DEF StopReceiving
<1> HIDE DEF r
<1>3. receiver' \in [Transports -> Receivers] /\ receiver'[t] = r
      /\ \A u \in Transports : u # t => receiver'[u] = receiver[u]
  BY <1>1, <1>2 DEF TypeOK
<1>4. UNCHANGED <<table, queue, batch, asking, alive, inbox, cache, current,
                  plan, up, myId, wire, given, reused, delivered, sent>>
  BY DEF StopReceiving, routerVars, clientVars, history
<1>5. Prepared(t)' /\ CacheGiven(t)'
  BY <1>1, <1>3, <1>4 DEF Prepared, Active, Safe, ThreadsRight, CacheGiven
<1>6. ASSUME NEW u \in Transports, u # t PROVE Prepared(u)' /\ CacheGiven(u)'
  BY <1>3, <1>4, <1>6, OthersRight DEF Safe
<1>7. QED
  BY <1>3, <1>4, <1>5, <1>6
     DEF TypeOK, Safe, ClientsGiven, ThreadsRight, OnlyInternal, Known

\* A broadcast of a thread may find clients that are gone.
LEMMA RouteBroadcastRight ==
  ASSUME TypeOK, Safe, NEW t \in Transports, RouteBroadcast(t)
  PROVE  TypeOK' /\ Safe'
<1>1. receiver[t].step \in Active /\ Done(t, FALSE) /\ RouteInternal(t)
  BY DEF RouteBroadcast, Active
<1>2. UNCHANGED <<batch, asking, alive, inbox, cache, current, plan, up, myId,
                  wire, given, reused, delivered, sent>>
  BY DEF RouteBroadcast, clientVars, history
<1>3. Conserves(table, table')
  <2>1. table \in Tables
    BY DEF TypeOK
  <2>2. CASE IsRoutable(This(t))
    BY <2>1, <2>2, BroadcastsConserve DEF RouteBroadcast
  <2>3. CASE ~IsRoutable(This(t))
    BY <2>1, <2>3 DEF RouteBroadcast, Conserves
  <2>4. QED
    BY <2>2, <2>3
<1>4. queue' \in Seq(Message) /\ OnlyInternal'
  BY <1>1, <1>2, RouteInternalRight
<1>5. receiver' \in [Transports -> Receivers] /\ ThreadsRight'
  <2>1. FALSE \in BOOLEAN
    OBVIOUS
  <2>2. QED
    BY <1>1, <1>2, <2>1, DoneRight
<1>6. ClientsGiven'
  BY <1>2, <1>3, ForgettingFrame DEF Safe
<1>7. TypeOK'
  BY <1>2, <1>3, <1>4, <1>5 DEF TypeOK, Conserves
<1>8. QED
  BY <1>4, <1>5, <1>6, <1>7 DEF Safe

\* A thread goes on with the same message.
LEMMA GoOn ==
  ASSUME TypeOK, NEW t \in Transports, NEW step \in Steps,
         receiver' = [receiver EXCEPT ![t].step = step]
  PROVE  /\ receiver' \in [Transports -> Receivers]
         /\ receiver'[t].step = step
         /\ receiver'[t].queue = receiver[t].queue
         /\ receiver'[t].number = receiver[t].number
         /\ receiver'[t].found = receiver[t].found
         /\ \A u \in Transports : u # t => receiver'[u] = receiver[u]
<1> DEFINE r == [receiver[t] EXCEPT !.step = step]
<1>1. receiver[t] \in Receivers
  BY DEF TypeOK
<1>2. /\ r \in Receivers /\ r.step = step /\ r.queue = receiver[t].queue
      /\ r.number = receiver[t].number /\ r.found = receiver[t].found
  BY <1>1 DEF Receivers
<1>3. receiver' = [receiver EXCEPT ![t] = r]
  OBVIOUS
<1> HIDE DEF r
<1>4. receiver' \in [Transports -> Receivers] /\ receiver'[t] = r
      /\ \A u \in Transports : u # t => receiver'[u] = receiver[u]
  BY <1>2, <1>3 DEF TypeOK
<1>5. QED
  BY <1>2, <1>4

\* A cache is a function from ids to connections.
LEMMA CacheType ==
  ASSUME TypeOK, NEW t \in Transports
  PROVE  /\ DOMAIN cache[t] \subseteq Ids
         /\ cache[t] \in [DOMAIN cache[t] -> Conns]
<1>1. cache[t] \in Caches
  BY DEF TypeOK
<1>2. PICK I \in SUBSET Ids : cache[t] \in [I -> Conns]
  BY <1>1 DEF Caches
<1>3. QED
  BY <1>2

\* A directed message finds its client in the cache, or has to be looked up.
LEMMA RouteDirectedRight ==
  ASSUME TypeOK, Safe, NEW t \in Transports, RouteDirected(t)
  PROVE  TypeOK' /\ Safe'
<1> DEFINE d == This(t).dst
           hit == d \in DOMAIN cache[t]
<1>1. /\ receiver[t].step = "route" /\ receiver[t].step \in Active
      /\ RouteInternal(t) /\ d # NoId
      /\ UNCHANGED <<table, batch, asking, alive, inbox, cache, plan, up, myId,
                     wire, given, reused, delivered, sent>>
  BY DEF RouteDirected, Active, clientVars, history
<1>2. /\ Destination(t) = d /\ d \in Ids \cup {NoId, Host}
      /\ receiver[t].number \in 1..Len(receiver[t].queue)
  BY <1>1, ThisType
<1>3. queue' \in Seq(Message) /\ OnlyInternal'
  BY <1>1, RouteInternalRight
<1>4. ClientsGiven'
  BY <1>1 DEF Safe, ClientsGiven, Known
<1>5. /\ receiver' \in [Transports -> Receivers]
      /\ current' \in [Transports -> [id : Ids \cup {NoId, Host}, set : BOOLEAN]]
      /\ ThreadsRight'
  <2>1. CASE current[t].id = d /\ ~current[t].set
    <3>1. Done(t, FALSE) /\ UNCHANGED current
      BY <2>1 DEF RouteDirected
    <3>2. FALSE \in BOOLEAN
      OBVIOUS
    <3>3. QED
      BY <1>1, <3>1, <3>2, DoneRight DEF TypeOK
  <2>2. CASE current[t].id = d /\ current[t].set
    <3>1. receiver' = [receiver EXCEPT ![t].step = "send"] /\ UNCHANGED current
      BY <2>2 DEF RouteDirected
    <3>2. "send" \in Steps
      BY DEF Steps
    <3>3. Prepared(t)' /\ CacheGiven(t)'
      BY <1>1, <1>2, <2>2, <3>1, <3>2, GoOn
         DEF Safe, ThreadsRight, Prepared, CacheGiven, Destination
    <3>4. \A u \in Transports : u # t => Prepared(u)' /\ CacheGiven(u)'
      BY <1>1, <3>1, <3>2, GoOn, OthersRight DEF Safe
    <3>5. QED
      BY <3>1, <3>2, <3>3, <3>4, GoOn DEF ThreadsRight, TypeOK
  <2>3. CASE current[t].id # d
    <3> DEFINE k == [id |-> d, set |-> hit]
    <3>1. /\ current' = [current EXCEPT ![t] = k]
          /\ receiver' = [receiver EXCEPT ![t].step =
                             IF hit THEN "send" ELSE "lookup"]
      BY <2>3 DEF RouteDirected
    <3>2. k \in [id : Ids \cup {NoId, Host}, set : BOOLEAN] /\ k.id = d
          /\ k.set = hit
      <4>1. hit \in BOOLEAN
        OBVIOUS
      <4> HIDE DEF hit, d
      <4>2. QED
        BY <1>2, <4>1
    <3> HIDE DEF k
    <3>3. /\ current' \in [Transports -> [id : Ids \cup {NoId, Host},
                                          set : BOOLEAN]]
          /\ current'[t] = k
          /\ \A u \in Transports : u # t => current'[u] = current[u]
      BY <3>1, <3>2 DEF TypeOK
    <3>4. PICK step \in {"send", "lookup"} :
            /\ receiver' = [receiver EXCEPT ![t].step = step]
            /\ step = "send" => hit
      BY <3>1
    <3>5. step \in Steps
      BY DEF Steps
    <3>6. CacheGiven(t)'
      BY <1>1, <3>2, <3>3 DEF Safe, ThreadsRight, CacheGiven
    <3>7. Prepared(t)'
      BY <1>1, <1>2, <3>2, <3>3, <3>4, <3>5, GoOn DEF Prepared, Destination
    <3>8. \A u \in Transports : u # t => Prepared(u)' /\ CacheGiven(u)'
      BY <1>1, <3>3, <3>4, <3>5, GoOn, OthersRight DEF Safe
    <3>9. QED
      BY <3>3, <3>4, <3>5, <3>6, <3>7, <3>8, GoOn DEF ThreadsRight
  <2>4. QED
    BY <2>1, <2>2, <2>3
<1>6. TypeOK'
  BY <1>1, <1>3, <1>5 DEF TypeOK
<1>7. QED
  BY <1>3, <1>4, <1>5, <1>6 DEF Safe

\* The lookup finds a connection the client has been given.
LEMMA LookupConnectionRight ==
  ASSUME TypeOK, Safe, NEW t \in Transports, LookupConnection(t)
  PROVE  TypeOK' /\ Safe'
<1> DEFINE d == Destination(t)
<1>1. /\ receiver[t].step = "lookup" /\ receiver[t].step \in Active
      /\ UNCHANGED <<table, queue, batch, asking, alive, inbox, cache, current,
                     plan, up, myId, wire, given, reused, delivered, sent>>
  BY DEF LookupConnection, Active, routerVars, clientVars, history
<1>2. receiver' \in [Transports -> Receivers] /\ ThreadsRight'
  <2>1. CASE d \notin Known(table)
    <3>1. Done(t, FALSE)
      BY <2>1 DEF LookupConnection
    <3>2. FALSE \in BOOLEAN
      OBVIOUS
    <3>3. QED
      BY <1>1, <3>1, <3>2, DoneRight
  <2>2. CASE d \in Known(table)
    <3> DEFINE c == table.clients[d].conn
               r1 == [receiver[t] EXCEPT !.step = "transport"]
               r2 == [r1 EXCEPT !.found = c]
    <3>1. c \in Conns /\ [id |-> d, conn |-> c] \in given
      <4>1. table \in Tables
        BY DEF TypeOK
      <4>2. table.clients[d] \in ClientContext
        BY <2>2, <4>1, TableFields
      <4>3. QED
        BY <2>2, <4>2 DEF Safe, ClientsGiven, ClientContext
    <3>2. receiver' = [receiver EXCEPT ![t] = r2]
      BY <2>2 DEF LookupConnection
    <3> HIDE DEF c
    <3>3. /\ r1 \in Receivers /\ r1.step = "transport"
          /\ r1.queue = receiver[t].queue /\ r1.number = receiver[t].number
      <4>1. receiver[t] \in Receivers
        BY DEF TypeOK
      <4>2. QED
        BY <4>1 DEF Receivers, Steps
    <3> HIDE DEF r1
    <3>4. /\ r2 \in Receivers /\ r2.step = "transport" /\ r2.found = c
          /\ r2.queue = receiver[t].queue /\ r2.number = receiver[t].number
      BY <3>1, <3>3 DEF Receivers
    <3> HIDE DEF r2
    <3>5. receiver' \in [Transports -> Receivers] /\ receiver'[t] = r2
          /\ \A u \in Transports : u # t => receiver'[u] = receiver[u]
      BY <3>2, <3>4 DEF TypeOK
    <3>6. Prepared(t) /\ CacheGiven(t)
      BY DEF Safe, ThreadsRight
    <3>7. Destination(t)' = d
      BY <3>4, <3>5 DEF Destination
    <3>8. Prepared(t)'
      BY <1>1, <3>1, <3>4, <3>5, <3>6, <3>7 DEF Prepared, Active
    <3>9. CacheGiven(t)'
      BY <1>1, <3>6 DEF CacheGiven
    <3>10. \A u \in Transports : u # t => Prepared(u)' /\ CacheGiven(u)'
      BY <1>1, <3>5, OthersRight DEF Safe
    <3>11. QED
      BY <3>5, <3>8, <3>9, <3>10 DEF ThreadsRight
  <2>3. QED
    BY <2>1, <2>2
<1>3. QED
  BY <1>1, <1>2 DEF TypeOK, Safe, ClientsGiven, OnlyInternal, Known

\* The client becomes the current one, in the cache.
LEMMA LookupTransportRight ==
  ASSUME TypeOK, Safe, NEW t \in Transports, LookupTransport(t)
  PROVE  TypeOK' /\ Safe'
<1> DEFINE d == Destination(t)
           c == receiver[t].found
           f == [i \in DOMAIN cache[t] \cup {d} |-> IF i = d THEN c ELSE cache[t][i]]
           k == [current[t] EXCEPT !.set = TRUE]
<1>1. /\ receiver[t].step = "transport" /\ receiver[t].step \in Active
      /\ receiver' = [receiver EXCEPT ![t].step = "send"]
      /\ cache' = [cache EXCEPT ![t] = f]
      /\ current' = [current EXCEPT ![t] = k]
      /\ alive' = Attached(table, c)
      /\ UNCHANGED <<table, queue, batch, asking, inbox, plan, up, myId, wire,
                     given, reused, delivered, sent>>
  BY DEF LookupTransport, Active, routerVars, clientVars, history
<1>2. Prepared(t) /\ CacheGiven(t)
  BY DEF Safe, ThreadsRight
<1>3. [id |-> d, conn |-> c] \in given /\ current[t].id = d
  BY <1>1, <1>2 DEF Prepared
<1>4. d \in Ids /\ c \in Conns
  <2>1. [id |-> d, conn |-> c] \in Route
    BY <1>3 DEF TypeOK
  <2>2. QED
    BY <2>1 DEF Route
<1> HIDE DEF d, c
<1>5. f \in Caches
  <2>1. f \in [DOMAIN cache[t] \cup {d} -> Conns]
    BY <1>4, CacheType
  <2>2. DOMAIN cache[t] \cup {d} \in SUBSET Ids
    BY <1>4, CacheType
  <2> HIDE DEF f
  <2>3. QED
    BY <2>1, <2>2 DEF Caches
<1>6. d \in DOMAIN f /\ \A i \in DOMAIN f : [id |-> i, conn |-> f[i]] \in given
  BY <1>2, <1>3 DEF CacheGiven
<1>7. k \in [id : Ids \cup {NoId, Host}, set : BOOLEAN] /\ k.id = d /\ k.set = TRUE
  <2>1. current[t] \in [id : Ids \cup {NoId, Host}, set : BOOLEAN]
    BY DEF TypeOK
  <2>2. QED
    BY <1>3, <2>1
<1> HIDE DEF f, k
<1>8. /\ cache' \in [Transports -> Caches] /\ cache'[t] = f
      /\ current' \in [Transports -> [id : Ids \cup {NoId, Host}, set : BOOLEAN]]
      /\ current'[t] = k
      /\ \A u \in Transports : u # t => /\ cache'[u] = cache[u]
                                        /\ current'[u] = current[u]
  BY <1>1, <1>5, <1>7 DEF TypeOK
<1>9. "send" \in Steps
  BY DEF Steps
<1>10. Prepared(t)'
  <2>1. Destination(t)' = d
    BY <1>1, <1>9, GoOn DEF Destination, d
  <2>2. d # NoId /\ receiver[t].number \in 1..Len(receiver[t].queue)
    BY <1>1, <1>2 DEF Prepared, d
  <2>3. /\ receiver'[t].step = "send"
        /\ receiver'[t].queue = receiver[t].queue
        /\ receiver'[t].number = receiver[t].number
    BY <1>1, <1>9, GoOn
  <2>4. current'[t].id = d /\ current'[t].set
    <3>1. k.set
      BY <1>7
    <3>2. QED
      BY <1>7, <1>8, <3>1
  <2>5. QED
    BY <2>1, <2>2, <2>3, <2>4 DEF Prepared
<1>11. CacheGiven(t)'
  BY <1>1, <1>6, <1>7, <1>8 DEF CacheGiven
<1>12. \A u \in Transports : u # t => Prepared(u)' /\ CacheGiven(u)'
  BY <1>1, <1>8, <1>9, GoOn, OthersRight DEF Safe
<1>13. TypeOK'
  <2>1. alive' \in BOOLEAN
    BY <1>1 DEF Attached
  <2>2. receiver' \in [Transports -> Receivers]
    BY <1>1, <1>9, GoOn
  <2>3. QED
    BY <1>1, <1>8, <2>1, <2>2 DEF TypeOK
<1>14. QED
  BY <1>1, <1>10, <1>11, <1>12, <1>13
     DEF Safe, ThreadsRight, ClientsGiven, OnlyInternal, Known

\* A write to the current client.
LEMMA TransmitRight ==
  ASSUME TypeOK, Safe, NEW t \in Transports, Transmit(t)
  PROVE  TypeOK' /\ Safe'
<1> DEFINE m == This(t)
           f == Restrict(cache[t], DOMAIN cache[t] \ {m.dst})
           k == [id |-> NoId, set |-> FALSE]
<1>1. /\ receiver[t].step = "send" /\ receiver[t].step \in Active
      /\ UNCHANGED <<table, queue, batch, asking, alive, inbox, plan, up, myId,
                     wire, given, reused, sent>>
  BY DEF Transmit, Active, routerVars, clientVars
<1>2. m \in Message /\ Destination(t) = m.dst
      /\ receiver[t].number \in 1..Len(receiver[t].queue)
  BY <1>1, ThisType
<1>3. delivered' \subseteq 0..MaxData
  <2>1. delivered' = delivered \cup {m.n} \/ delivered' = delivered
    BY DEF Transmit
  <2>2. m.n \in 0..MaxData
    BY <1>2 DEF Message
  <2>3. QED
    BY <2>1, <2>2 DEF TypeOK
<1>4. CASE /\ cache' = [cache EXCEPT ![t] = f]
           /\ current' = [current EXCEPT ![t] = k]
           /\ receiver' = [receiver EXCEPT ![t].step = "remove"]
  <2>1. f \in Caches /\ DOMAIN f \subseteq DOMAIN cache[t]
        /\ \A i \in DOMAIN f : f[i] = cache[t][i]
    <3>1. f \in [DOMAIN cache[t] \ {m.dst} -> Conns]
      BY CacheType DEF Restrict
    <3>2. DOMAIN cache[t] \ {m.dst} \in SUBSET Ids
      BY CacheType
    <3>3. \A i \in DOMAIN cache[t] \ {m.dst} : f[i] = cache[t][i]
      BY DEF Restrict
    <3> HIDE DEF f
    <3>4. QED
      BY <3>1, <3>2, <3>3 DEF Caches
  <2>2. k \in [id : Ids \cup {NoId, Host}, set : BOOLEAN] /\ k.set = FALSE
    OBVIOUS
  <2> HIDE DEF f, k
  <2>3. /\ cache' \in [Transports -> Caches] /\ cache'[t] = f
        /\ current' \in [Transports -> [id : Ids \cup {NoId, Host}, set : BOOLEAN]]
        /\ current'[t] = k
        /\ \A u \in Transports : u # t => /\ cache'[u] = cache[u]
                                          /\ current'[u] = current[u]
    BY <1>4, <2>1, <2>2 DEF TypeOK
  <2>4. "remove" \in Steps
    BY DEF Steps
  <2>5. CacheGiven(t)'
    BY <1>1, <2>1, <2>2, <2>3 DEF Safe, ThreadsRight, CacheGiven
  <2>6. Prepared(t)'
    <3>1. Destination(t)' = Destination(t)
      BY <1>4, <2>4, GoOn DEF Destination
    <3>2. Destination(t) # NoId
      BY <1>1 DEF Safe, ThreadsRight, Prepared
    <3>3. QED
      BY <1>2, <1>4, <2>4, <3>1, <3>2, GoOn DEF Prepared
  <2>7. \A u \in Transports : u # t => Prepared(u)' /\ CacheGiven(u)'
    BY <1>1, <1>4, <2>3, <2>4, GoOn, OthersRight DEF Safe
  <2>8. TypeOK'
    BY <1>1, <1>3, <1>4, <2>3, <2>4, GoOn DEF TypeOK
  <2>9. QED
    BY <1>1, <2>5, <2>6, <2>7, <2>8
       DEF Safe, ThreadsRight, ClientsGiven, OnlyInternal, Known
<1>5. CASE UNCHANGED <<cache, current>> /\ \E b \in BOOLEAN : Done(t, b)
  <2>1. receiver' \in [Transports -> Receivers] /\ ThreadsRight'
    BY <1>1, <1>5, DoneRight
  <2>2. TypeOK'
    BY <1>1, <1>3, <1>5, <2>1 DEF TypeOK
  <2>3. QED
    BY <1>1, <2>1, <2>2 DEF Safe, ClientsGiven, OnlyInternal, Known
<1>6. QED
  <2>1. PICK result : IF result = "Error"
          THEN /\ cache' = [cache EXCEPT ![t] = f]
               /\ current' = [current EXCEPT ![t] = k]
               /\ receiver' = [receiver EXCEPT ![t].step = "remove"]
          ELSE /\ Done(t, result = "NotReady")
               /\ UNCHANGED <<cache, current>>
    BY DEF Transmit
  <2>2. (result = "NotReady") \in BOOLEAN
    OBVIOUS
  <2>3. QED
    BY <1>4, <1>5, <2>1, <2>2

\* A client whose write failed leaves the router.
LEMMA RemoveFailedRight ==
  ASSUME TypeOK, Safe, NEW t \in Transports, RemoveFailed(t)
  PROVE  TypeOK' /\ Safe'
<1>1. /\ receiver[t].step \in Active /\ Done(t, FALSE)
      /\ table' \in RemoveClient(table, Destination(t), Down)
      /\ UNCHANGED <<queue, batch, asking, alive, inbox, cache, current, plan,
                     up, myId, wire, given, reused, delivered, sent>>
  BY DEF RemoveFailed, Active, routerVars, clientVars, history
<1>2. Conserves(table, table')
  BY <1>1, RemoveConserves DEF TypeOK
<1>3. receiver' \in [Transports -> Receivers] /\ ThreadsRight'
  <2>1. FALSE \in BOOLEAN
    OBVIOUS
  <2>2. QED
    BY <1>1, <2>1, DoneRight
<1>4. QED
  BY <1>1, <1>2, <1>3, ForgettingFrame DEF TypeOK, Safe, OnlyInternal, Conserves

-----------------------------------------------------------------------------
(* The router thread and the listener's thread.                            *)

\* A write to some connections leaves answers in the wires.
LEMMA WrittenType ==
  ASSUME TypeOK, NEW C, NEW answer \in Answers
  PROVE  Written(C, answer) \in [Conns -> SUBSET Answers]
BY DEF Written, TypeOK

\* The oldest message of a batch, and the batch without it.
LEMMA HandledRight ==
  ASSUME TypeOK, Safe, NEW kinds, Handled(kinds)
  PROVE  /\ Head(batch) \in Message /\ IsInternal(Head(batch))
         /\ Head(batch).kind \in kinds
         /\ batch' \in Seq(Message)
         /\ UNCHANGED queue => OnlyInternal'
<1>1. batch \in Seq(Message) /\ batch # <<>> /\ batch' = Tail(batch)
      /\ Head(batch).kind \in kinds
  BY DEF Handled, TypeOK
<1>2. Head(batch) = batch[1] /\ 1 \in 1..Len(batch) /\ batch' \in Seq(Message)
      /\ Len(batch') = Len(batch) - 1 /\ Len(batch) \in Nat
      /\ \A i \in 1..Len(batch') : batch'[i] = batch[i + 1]
  BY <1>1
<1>3. Head(batch) \in Message /\ IsInternal(Head(batch))
  BY <1>1, <1>2 DEF Safe, OnlyInternal
<1>4. ASSUME UNCHANGED queue PROVE OnlyInternal'
  <2>1. ASSUME NEW i \in 1..Len(batch') PROVE IsInternal(batch'[i])
    <3>1. i + 1 \in 1..Len(batch) /\ batch'[i] = batch[i + 1]
      BY <1>2
    <3>2. QED
      BY <3>1 DEF Safe, OnlyInternal
  <2>2. QED
    BY <1>4, <2>1 DEF Safe, OnlyInternal
<1>5. QED
  BY <1>1, <1>2, <1>3, <1>4

\* The router thread takes the whole queue.
LEMMA TakeQueueRight ==
  ASSUME TypeOK, Safe, TakeQueue
  PROVE  TypeOK' /\ Safe'
<1>1. /\ batch' = queue /\ queue' = <<>>
      /\ UNCHANGED <<table, asking, alive, inbox, receiver, cache, current,
                     plan, up, myId, wire, given, reused, delivered, sent>>
  BY DEF TakeQueue, threadVars, clientVars, history
<1>2. TypeOK'
  BY <1>1 DEF TypeOK
<1>3. OnlyInternal'
  BY <1>1 DEF Safe, OnlyInternal
<1>4. QED
  BY <1>1, <1>2, <1>3, ThreadsFrame DEF Safe, ClientsGiven, Known

\* A step of the router thread that forgets clients, or none.
LEMMA ForgetRight ==
  ASSUME TypeOK, Safe, Conserves(table, table'),
         wire' \in [Conns -> SUBSET Answers],
         asking' \in [conn : Conns \cup {NoId}, id : Ids \cup {NoId}],
         batch' \in Seq(Message), OnlyInternal',
         UNCHANGED <<queue, alive, inbox, receiver, cache, current, plan, up,
                     myId, given, reused, delivered, sent>>
  PROVE  TypeOK' /\ Safe'
<1>1. TypeOK'
  BY DEF TypeOK, Conserves
<1>2. QED
  BY <1>1, ThreadsFrame, ForgettingFrame DEF Safe

\* A round of UpdateClients.
LEMMA UpdateRight ==
  ASSUME TypeOK, Safe, Update
  PROVE  TypeOK' /\ Safe'
<1>1. Conserves(table, table')
  BY UpdateConserves DEF Update, TypeOK
<1>2. PICK C : wire' = Written(C, Ping)
  BY DEF Update
<1>3. Ping \in Answers
  BY DEF Ping, Answers
<1>4. wire' \in [Conns -> SUBSET Answers]
  BY <1>2, <1>3, WrittenType
<1>5. UNCHANGED <<queue, batch, asking, alive, inbox, receiver, cache, current,
                  plan, up, myId, given, reused, delivered, sent>>
  BY DEF Update, threadVars, history
<1>6. QED
  BY <1>1, <1>4, <1>5, ForgetRight DEF TypeOK, Safe, OnlyInternal

\* The QueryClientInfo of a client that has not identified itself.
LEMMA AskForInfoRight ==
  ASSUME TypeOK, Safe, AskForInfo
  PROVE  TypeOK' /\ Safe'
<1>1. /\ asking' = NoClient
      /\ UNCHANGED <<queue, batch, alive, inbox, receiver, cache, current,
                     plan, up, myId, given, reused, delivered, sent>>
  BY DEF AskForInfo, threadVars, history
<1>2. PICK result :
        /\ table' \in IF result = "Error"
                      THEN RemoveClient(table, asking.id, Down) ELSE {table}
        /\ wire' = IF result = "Success" THEN Written({asking.conn}, Query)
                   ELSE wire
  BY DEF AskForInfo
<1>3. Conserves(table, table')
  <2>1. table \in Tables
    BY DEF TypeOK
  <2>2. CASE result = "Error"
    BY <1>2, <2>1, <2>2, RemoveConserves
  <2>3. CASE result # "Error"
    BY <1>2, <2>1, <2>3 DEF Conserves
  <2>4. QED
    BY <2>2, <2>3
<1>4. Query \in Answers
  BY DEF Query, Answers
<1>5. wire' \in [Conns -> SUBSET Answers]
  BY <1>2, <1>4, WrittenType DEF TypeOK
<1>6. asking' \in [conn : Conns \cup {NoId}, id : Ids \cup {NoId}]
  BY <1>1 DEF NoClient
<1>7. QED
  BY <1>1, <1>3, <1>5, <1>6, ForgetRight DEF TypeOK, Safe, OnlyInternal

\* DisconnectNotification and SetClientFlags forget a client at most.
LEMMA HandleOwnRight ==
  ASSUME TypeOK, Safe, HandleDisconnect \/ HandleSetFlags
  PROVE  TypeOK' /\ Safe'
<1>1. PICK kinds : Handled(kinds)
  BY DEF HandleDisconnect, HandleSetFlags
<1>2. UNCHANGED <<queue, asking, alive, inbox, receiver, cache, current, plan,
                  up, myId, wire, given, reused, delivered, sent>>
  BY DEF HandleDisconnect, HandleSetFlags, threadVars, clientVars, history
<1>3. table' \in RemoveClient(table, Head(batch).src, Down) \/ table' = table
  BY DEF HandleDisconnect, HandleSetFlags
<1>4. Conserves(table, table')
  <2>1. table \in Tables
    BY DEF TypeOK
  <2>2. CASE table' = table
    BY <2>1, <2>2 DEF Conserves
  <2>3. QED
    BY <1>3, <2>1, <2>2, RemoveConserves
<1>5. QED
  BY <1>1, <1>2, <1>4, HandledRight, ForgetRight DEF TypeOK

\* The listener's thread removes a transport.
LEMMA DropTransportRight ==
  ASSUME TypeOK, Safe, NEW t \in Transports, DropTransport(t)
  PROVE  TypeOK' /\ Safe'
<1>1. UNCHANGED <<queue, batch, asking, alive, inbox, receiver, cache, current,
                  plan, up, myId, wire, given, reused, delivered, sent>>
  BY DEF DropTransport, routerVars, threadVars, clientVars, history
<1>2. Conserves(table, table')
  BY RemoveTransportConserves DEF DropTransport, TypeOK
<1>3. QED
  BY <1>1, <1>2, ForgetRight DEF TypeOK, Safe, OnlyInternal

\* A step of the router thread that gives an id to a connection.
LEMMA GiveRight ==
  ASSUME TypeOK, Safe, NEW id \in Ids, NEW c \in Conns,
         Gives(table, id, c, table'),
         given' = given \cup {[id |-> id, conn |-> c]},
         wire' \in [Conns -> SUBSET Answers],
         asking' \in [conn : Conns \cup {NoId}, id : Ids \cup {NoId}],
         alive' \in BOOLEAN, reused' \subseteq Ids,
         batch' \in Seq(Message), OnlyInternal',
         UNCHANGED <<queue, inbox, receiver, cache, current, plan, up,
                     myId, delivered, sent>>
  PROVE  TypeOK' /\ Safe'
<1>1. given' \subseteq Route /\ given \subseteq given'
  BY DEF TypeOK, Route
<1>2. TypeOK'
  BY <1>1 DEF TypeOK, Gives
<1>3. ClientsGiven'
  BY DEF Safe, ClientsGiven, Gives
<1>4. QED
  BY <1>1, <1>2, <1>3, ThreadsFrame DEF Safe

\* A new client stays given whatever is forgotten after it.
LEMMA GivesConserved ==
  ASSUME NEW tb, NEW id, NEW c, NEW a, NEW b, Gives(tb, id, c, a), Conserves(a, b)
  PROVE  Gives(tb, id, c, b)
BY DEF Gives, Conserves

\* A ConnectRequest gives the connection the id it has, or a new one.
LEMMA HandleConnectRight ==
  ASSUME TypeOK, Safe, HandleConnect
  PROVE  TypeOK' /\ Safe'
<1> DEFINE c == Head(batch).from
<1>1. /\ Handled({"connect"})
      /\ UNCHANGED <<queue, asking, alive, inbox, receiver, cache, current,
                     plan, up, myId, delivered, sent>>
  BY DEF HandleConnect, threadVars
<1>2. Head(batch) \in Message /\ batch' \in Seq(Message) /\ OnlyInternal'
  BY <1>1, HandledRight
<1>3. c \in Conns /\ table \in Tables
  BY <1>2 DEF Message, TypeOK
<1>4. CASE ~Attached(table, c)
  <2>1. UNCHANGED <<table, wire, given, reused>>
    BY <1>4 DEF HandleConnect
  <2>2. Conserves(table, table')
    BY <1>3, <2>1 DEF Conserves
  <2>3. QED
    BY <1>1, <1>2, <2>1, <2>2, ForgetRight DEF TypeOK
<1>5. CASE Attached(table, c)
  <2> DEFINE Table(found, id) ==
               IF found # NoId THEN {table}
               ELSE AfterBroadcasts(RegisterClient(table, id, c), id, Down, 1)
             Effect(found, id, told, result) ==
               /\ table' \in IF result = "Error" THEN RemoveClient(told, id, Down)
                             ELSE {told}
               /\ wire' = IF result = "Success" THEN Written({c}, Response(id))
                          ELSE wire
               /\ given' = given \cup {[id |-> id, conn |-> c]}
               /\ reused' = IF found = NoId /\ id \in Known(table)
                            THEN reused \cup {id} ELSE reused
  <2>1. PICK found \in FindByConnection(table, c) :
          \E id \in IF found # NoId THEN {found} ELSE GenerateClientId(table) :
          \E told \in Table(found, id) : \E result : Effect(found, id, told, result)
    BY <1>5 DEF HandleConnect
  <2>2. PICK id \in IF found # NoId THEN {found} ELSE GenerateClientId(table) :
          \E told \in Table(found, id) : \E result : Effect(found, id, told, result)
    BY <2>1
  <2>3. PICK told \in Table(found, id) : \E result : Effect(found, id, told, result)
    BY <2>2
  <2>3a. PICK result : Effect(found, id, told, result)
    BY <2>3
  <2>4. id \in Ids
    <3>1. Known(table) \subseteq Ids
      BY <1>3, TableFields
    <3>2. found # NoId => found \in Known(table)
      BY DEF FindByConnection
    <3>3. QED
      BY <2>2, <3>1, <3>2 DEF GenerateClientId
  <2> HIDE DEF c
  <2>5. Gives(table, id, c, told)
    <3>1. CASE found # NoId
      BY <1>3, <2>3, <3>1 DEF Gives
    <3>2. CASE found = NoId
      <4> DEFINE r == RegisterClient(table, id, c)
      <4>1. Gives(table, id, c, r)
        BY <1>3, <2>4, RegisterClientGives
      <4>2. told \in AfterBroadcasts(r, id, Down, 1)
        BY <2>3, <3>2
      <4>3. r \in Tables
        BY <4>1 DEF Gives
      <4> HIDE DEF r
      <4>4. Conserves(r, told)
        BY <4>2, <4>3, BroadcastsConserve
      <4>5. QED
        BY <4>1, <4>4, GivesConserved
    <3>3. QED
      BY <3>1, <3>2
  <2>6. Gives(table, id, c, table')
    <3>1. told \in Tables
      BY <2>5 DEF Gives
    <3>2. CASE result = "Error"
      <4>1. Conserves(told, table')
        BY <2>3a, <3>1, <3>2, RemoveConserves
      <4>2. QED
        BY <2>5, <4>1, GivesConserved
    <3>3. CASE result # "Error"
      BY <2>3a, <2>5, <3>3
    <3>4. QED
      BY <3>2, <3>3
  <2>7. wire' \in [Conns -> SUBSET Answers]
    <3>1. Response(id) \in Answers
      BY <2>4 DEF Response, Answers
    <3>2. QED
      BY <2>3a, <3>1, WrittenType DEF TypeOK
  <2>8. reused' \subseteq Ids
    BY <2>3a, <2>4 DEF TypeOK
  <2>9. asking' \in [conn : Conns \cup {NoId}, id : Ids \cup {NoId}] /\ alive' \in BOOLEAN
    BY <1>1 DEF TypeOK
  <2>10. QED
    BY <1>1, <1>2, <1>3, <2>3a, <2>4, <2>6, <2>7, <2>8, <2>9, GiveRight
<1>6. QED
  BY <1>4, <1>5

\* A System message may make its sender a client.
LEMMA HandleSystemRight ==
  ASSUME TypeOK, Safe, HandleSystem
  PROVE  TypeOK' /\ Safe'
<1> DEFINE m == Head(batch)
           new == m.src \notin Known(table)
<1>1. /\ Handled({"hello", "pong", "info"})
      /\ UNCHANGED <<queue, inbox, receiver, cache, current, plan, up, myId,
                     wire, reused, delivered, sent>>
  BY DEF HandleSystem, threadVars, clientVars
<1>2. /\ m \in Message /\ IsInternal(m) /\ m.kind \in {"hello", "pong", "info"}
      /\ batch' \in Seq(Message) /\ OnlyInternal'
  BY <1>1, HandledRight
<1>3. m.src \in Ids /\ m.from \in Conns /\ table \in Tables
  BY <1>2 DEF IsInternal, IsManagement, IsSystem, Message, TypeOK
<1>4. CASE ~Attached(table, m.from)
  <2>1. UNCHANGED <<table, asking, given, alive>>
    BY <1>4 DEF HandleSystem
  <2>2. Conserves(table, table')
    BY <1>3, <2>1 DEF Conserves
  <2>3. QED
    BY <1>1, <1>2, <2>1, <2>2, ForgetRight DEF TypeOK
<1>5. CASE Attached(table, m.from)
  <2>1. asking' \in [conn : Conns \cup {NoId}, id : Ids \cup {NoId}]
    <3>1. asking' = [conn |-> m.from, id |-> m.src] \/ asking' = asking
      BY <1>5 DEF HandleSystem
    <3>2. QED
      BY <1>3, <3>1 DEF TypeOK
  <2>2. CASE new
    <3>1. /\ table' = AddClient(table, m.src, m.from, FALSE)
          /\ alive' = ~(new /\ m.kind = "info")
          /\ given' = given \cup {[id |-> m.src, conn |-> m.from]}
      BY <1>5, <2>2 DEF HandleSystem
    <3>2. Gives(table, m.src, m.from, table')
      BY <1>3, <3>1, AddClientGives
    <3>3. alive' \in BOOLEAN
      BY <3>1
    <3>4. wire' \in [Conns -> SUBSET Answers] /\ reused' \subseteq Ids
      BY <1>1 DEF TypeOK
    <3> HIDE DEF m
    <3>5. QED
      BY <1>1, <1>2, <1>3, <2>1, <3>1, <3>2, <3>3, <3>4, GiveRight
  <2>3. CASE ~new
    <3>1. /\ table' = IF m.kind = "pong" THEN Ponged(table, m.src)
                      ELSE IF m.kind = "info" THEN Identified(table, m.src)
                      ELSE table
          /\ alive' = TRUE /\ given' = given
      BY <1>5, <2>3 DEF HandleSystem
    <3>2. Conserves(table, table')
      <4>1. Conserves(table, table)
        BY <1>3 DEF Conserves
      <4>2. QED
        BY <1>3, <2>3, <3>1, <4>1, AnswersConserve
    <3>3. TypeOK'
      BY <1>1, <1>2, <2>1, <3>1, <3>2 DEF TypeOK, Conserves
    <3>4. QED
      BY <1>1, <1>2, <3>1, <3>2, <3>3, ThreadsFrame, ForgettingFrame DEF Safe
  <2>4. QED
    BY <2>2, <2>3
<1>6. QED
  BY <1>4, <1>5

-----------------------------------------------------------------------------
(* The theorems.                                                           *)

\* The initial states have the types and the invariant.
LEMMA InitRight == Init => TypeOK /\ Safe
<1> SUFFICES ASSUME Init PROVE TypeOK /\ Safe
  OBVIOUS
<1>1. table = EmptyTable /\ table \in Tables /\ Known(table) = {}
  BY EmptyTableIsTable DEF Init
<1>2. receiver \in [Transports -> Receivers]
      /\ \A t \in Transports : receiver[t].step = "read"
  BY IdleType DEF Init
<1>3. NoClient \in [conn : Conns \cup {NoId}, id : Ids \cup {NoId}]
  BY DEF NoClient
<1>4. cache \in [Transports -> Caches]
      /\ \A t \in Transports : DOMAIN cache[t] = {}
  <2>1. [i \in {} |-> {}] \in [{} -> Conns]
    OBVIOUS
  <2>2. {} \in SUBSET Ids
    OBVIOUS
  <2>3. [i \in {} |-> {}] \in Caches
    BY <2>1, <2>2 DEF Caches
  <2>4. QED
    BY <2>3 DEF Init
<1>5. current \in [Transports -> [id : Ids \cup {NoId, Host}, set : BOOLEAN]]
      /\ \A t \in Transports : ~current[t].set
  BY DEF Init
<1>6. 0 \in 0..MaxData
  BY RouterAssumption
<1>7. TypeOK
  BY <1>1, <1>2, <1>3, <1>4, <1>5, <1>6 DEF Init, TypeOK
<1>8. ThreadsRight
  BY <1>2, <1>4, <1>5 DEF ThreadsRight, Prepared, CacheGiven, Active
<1>9. QED
  BY <1>1, <1>7, <1>8 DEF Init, Safe, ClientsGiven, OnlyInternal

\* Every step keeps the types and the invariant.
LEMMA NextRight == TypeOK /\ Safe /\ [Next]_vars => TypeOK' /\ Safe'
<1> SUFFICES ASSUME TypeOK, Safe, [Next]_vars PROVE TypeOK' /\ Safe'
  OBVIOUS
<1>1. ASSUME NEW c \in Conns, ClientStep(c) PROVE TypeOK' /\ Safe'
  BY <1>1, ClientStepRight
<1>2. ASSUME NEW t \in Transports, Receive(t) PROVE TypeOK' /\ Safe'
  BY <1>2, ReadRight, StopReceivingRight, RouteBroadcastRight,
     RouteDirectedRight, LookupConnectionRight, LookupTransportRight,
     TransmitRight, RemoveFailedRight DEF Receive
<1>3. ASSUME NEW t \in Transports, DropTransport(t) PROVE TypeOK' /\ Safe'
  BY <1>3, DropTransportRight
<1>4. CASE TakeQueue \/ Update
  BY <1>4, TakeQueueRight, UpdateRight
<1>5. CASE Handle
  BY <1>5, HandleConnectRight, HandleOwnRight, HandleSystemRight,
     AskForInfoRight DEF Handle
<1>6. CASE UNCHANGED vars
  BY <1>6, SafeFrame DEF vars, TypeOK
<1>7. QED
  BY <1>1, <1>2, <1>3, <1>4, <1>5, <1>6 DEF Next

\* The types and the invariant hold in every behaviour.
THEOREM Inductive == Spec => [](TypeOK /\ Safe)
BY InitRight, NextRight, PTL DEF Spec

\* The variables of the router, of its threads and of the clients keep their
\* types (routerCore.cpp, transportThread.cpp).
THEOREM TypeCorrect == Spec => []TypeOK
BY Inductive, PTL

\* Nothing is transmitted to a connection that was never given the id the
\* message is addressed to (RouteMessage, routerCore.cpp:901).
THEOREM Addressed == Spec => []AddresseeOnly
<1>1. TypeOK /\ Safe => AddresseeOnly
  <2> SUFFICES ASSUME TypeOK, Safe, NEW t \in Transports,
                      receiver[t].step = "send"
               PROVE  /\ current[t].set /\ current[t].id = Destination(t)
                      /\ Destination(t) \in DOMAIN cache[t]
                      /\ [id |-> Destination(t),
                          conn |-> cache[t][Destination(t)]] \in given
    BY DEF AddresseeOnly
  <2>1. Prepared(t) /\ CacheGiven(t)
    BY DEF Safe, ThreadsRight
  <2>2. current[t].set /\ current[t].id = Destination(t)
    BY <2>1 DEF Prepared
  <2>3. QED
    BY <2>1, <2>2 DEF CacheGiven
<1>2. QED
  BY <1>1, Inductive, PTL


-----------------------------------------------------------------------------
(* The maps of the clients, of the transports and of the client manager.   *)

\* The maps agree, every route was given, and no client is registered twice.
Registry ==
  /\ Tidy(table, reused)
  /\ table.routes \subseteq given
  /\ RegisteredOnce

\* A step that forgets clients, or none.
LEMMA RegistryTrimmed ==
  ASSUME Registry, Trims(table, table'),
         \A X : Tidy(table, X) => Tidy(table', X),
         given \subseteq given', reused' = reused
  PROVE  Registry'
<1>1. Tidy(table', reused') /\ table'.routes \subseteq given'
  BY DEF Registry, Trims
<1>2. RegisteredOnce'
  BY DEF Registry, Trims, RegisteredOnce
<1>3. QED
  BY <1>1, <1>2 DEF Registry

\* A table that stays.
LEMMA TrimsNothing ==
  ASSUME NEW tb
  PROVE  Trims(tb, tb) /\ \A X : Tidy(tb, X) => Tidy(tb, X)
BY DEF Trims

\* A step that leaves the maps alone.
LEMMA RegistryFrame ==
  ASSUME Registry, UNCHANGED <<table, given, reused>>
  PROVE  Registry'
BY TrimsNothing, RegistryTrimmed

\* The clients change none of the maps.
LEMMA ClientStepRegistry ==
  ASSUME Registry, NEW c \in Conns, ClientStep(c)
  PROVE  Registry'
<1>1. UNCHANGED <<table, given, reused>>
  BY DEF ClientStep, RequestConnect, AnswerPing, AnswerQuery, Answer, Hello,
         SetFlags, Unregister, Vanish, ReadResponse, SendData, history
<1>2. QED
  BY <1>1, RegistryFrame

\* A thread removes clients it cannot reach.
LEMMA ReceiveRegistry ==
  ASSUME TypeOK, Registry, NEW t \in Transports, Receive(t)
  PROVE  Registry'
<1>1. CASE Read(t) \/ StopReceiving(t) \/ RouteDirected(t)
           \/ LookupConnection(t) \/ LookupTransport(t) \/ Transmit(t)
  <2>1. UNCHANGED <<table, given, reused>>
    BY <1>1 DEF Read, StopReceiving, RouteDirected, LookupConnection,
                LookupTransport, Transmit, history
  <2>2. QED
    BY <2>1, RegistryFrame
<1>2. CASE RouteBroadcast(t)
  <2>1. UNCHANGED <<given, reused>> /\ table \in Tables
    BY <1>2 DEF RouteBroadcast, history, TypeOK
  <2>2. table' \in AfterBroadcasts(table, This(t).src, Down, 1) \/ table' = table
    BY <1>2 DEF RouteBroadcast
  <2>3. Trims(table, table') /\ \A X : Tidy(table, X) => Tidy(table', X)
    BY <2>1, <2>2, BroadcastsTidy, TrimsNothing
  <2>4. QED
    BY <2>1, <2>3, RegistryTrimmed
<1>3. CASE RemoveFailed(t)
  <2>1. UNCHANGED <<given, reused>> /\ table \in Tables
    BY <1>3 DEF RemoveFailed, history, TypeOK
  <2>2. table' \in RemoveClient(table, Destination(t), Down)
    BY <1>3 DEF RemoveFailed
  <2>3. Trims(table, table') /\ \A X : Tidy(table, X) => Tidy(table', X)
    BY <2>1, <2>2, RemoveTidy
  <2>4. QED
    BY <2>1, <2>3, RegistryTrimmed
<1>4. QED
  BY <1>1, <1>2, <1>3 DEF Receive

\* The listener's thread removes a transport.
LEMMA DropTransportRegistry ==
  ASSUME TypeOK, Registry, NEW t \in Transports, DropTransport(t)
  PROVE  Registry'
<1>1. /\ UNCHANGED <<given, reused>> /\ table \in Tables
      /\ table' \in RemoveTransport(table, t, Down)
  BY DEF DropTransport, history, TypeOK
<1>2. Trims(table, table') /\ \A X : Tidy(table, X) => Tidy(table', X)
  BY <1>1, RemoveTransportTidy
<1>3. QED
  BY <1>1, <1>2, RegistryTrimmed

\* The router thread's removals.
LEMMA RouterThreadRegistry ==
  ASSUME TypeOK, Registry,
         TakeQueue \/ Update \/ AskForInfo \/ HandleDisconnect \/ HandleSetFlags
  PROVE  Registry'
<1>1. UNCHANGED <<given, reused>> /\ table \in Tables
  BY DEF TakeQueue, Update, AskForInfo, HandleDisconnect, HandleSetFlags,
         history, clientVars, TypeOK
<1>2. \/ table' = table \/ table' \in UpdateClients(table, Down)
      \/ \E id : table' \in RemoveClient(table, id, Down)
  BY DEF TakeQueue, Update, AskForInfo, HandleDisconnect, HandleSetFlags
<1>3. Trims(table, table') /\ \A X : Tidy(table, X) => Tidy(table', X)
  BY <1>1, <1>2, TrimsNothing, UpdateTidy, RemoveTidy
<1>4. QED
  BY <1>1, <1>3, RegistryTrimmed

\* A System message registers nobody.
LEMMA HandleSystemRegistry ==
  ASSUME TypeOK, Safe, Registry, HandleSystem
  PROVE  Registry'
<1> DEFINE m == Head(batch)
           src == m.src
           from == m.from
<1>1. Handled({"hello", "pong", "info"}) /\ reused' = reused
  BY DEF HandleSystem
<1>2. m \in Message /\ IsInternal(m) /\ m.kind \in {"hello", "pong", "info"}
  BY <1>1, HandledRight
<1>3. src \in Ids /\ from \in Conns /\ table \in Tables
  BY <1>2 DEF IsInternal, IsManagement, IsSystem, Message, TypeOK
<1>4. CASE ~Attached(table, from)
  <2>1. UNCHANGED <<table, given>>
    BY <1>4 DEF HandleSystem
  <2>2. QED
    BY <1>1, <2>1, RegistryFrame
<1>5. CASE Attached(table, from) /\ src \in Known(table)
  <2>1. /\ table' \in {table, Ponged(table, src), Identified(table, src)}
        /\ given' = given
    BY <1>5 DEF HandleSystem
  <2> HIDE DEF src
  <2>2. Trims(table, table') /\ \A X : Tidy(table, X) => Tidy(table', X)
    BY <1>3, <1>5, <2>1, TrimsNothing, AnswersTidy
  <2>3. QED
    BY <1>1, <2>1, <2>2, RegistryTrimmed
<1>6. CASE Attached(table, from) /\ src \notin Known(table)
  <2>1. /\ table' = AddClient(table, src, from, FALSE)
        /\ given' = given \cup {[id |-> src, conn |-> from]}
    BY <1>6 DEF HandleSystem
  <2> HIDE DEF src, from
  <2>2. /\ Extends(table, src, from, FALSE, table')
        /\ Tidy(table, reused) => Tidy(table', reused)
    BY <1>3, <1>6, <2>1, AddClientTidy
  <2>3. table'.routes \subseteq given'
    BY <2>1, <2>2 DEF Registry, Extends
  <2>4. RegisteredOnce'
    <3> SUFFICES ASSUME NEW i \in Known(table') \ reused', NEW j \in Known(table') \ reused',
                        table'.clients[i].conn = table'.clients[j].conn,
                        table'.clients[i].registered, table'.clients[j].registered,
                        \A r \in reused' : [id |-> r, conn |-> table'.clients[i].conn]
                                             \notin given'
                 PROVE  i = j
      BY DEF RegisteredOnce
    <3>1. i \in Known(table) /\ j \in Known(table)
      BY <2>2 DEF Extends
    <3>2. /\ table.clients[i].conn = table'.clients[i].conn
          /\ table.clients[j].conn = table'.clients[j].conn
          /\ table.clients[i].registered /\ table.clients[j].registered
      BY <2>2, <3>1 DEF Extends
    <3>3. \A r \in reused : [id |-> r, conn |-> table.clients[i].conn] \notin given
      BY <1>1, <2>1, <3>2
    <3>4. QED
      BY <1>1, <3>1, <3>2, <3>3 DEF Registry, RegisteredOnce
  <2>5. QED
    BY <1>1, <2>2, <2>3, <2>4 DEF Registry
<1>7. QED
  BY <1>4, <1>5, <1>6

\* A connection that the router does not find is new, unless the first of its
\* routes belongs to an id that was generated again.
LEMMA NotFoundIsNew ==
  ASSUME TypeOK, Registry, NEW c \in Conns, Attached(table, c),
         NoId \in FindByConnection(table, c),
         \A r \in reused : [id |-> r, conn |-> c] \notin given
  PROVE  \A i \in Known(table) \ reused : table.clients[i].conn # c
<1> SUFFICES ASSUME NEW i \in Known(table) \ reused, table.clients[i].conn = c
             PROVE  FALSE
  OBVIOUS
<1> DEFINE own == {r.id : r \in {q \in table.routes : q.conn = c}}
           rt == [id |-> i, conn |-> c]
<1>1. table \in Tables /\ Known(table) \subseteq Ids
  BY TableFields DEF TypeOK
<1>2. rt \in table.routes
  BY <1>1 DEF Registry, Tidy
<1>3. rt.id = i /\ rt.conn = c
  OBVIOUS
<1> HIDE DEF rt
<1>4. own # {}
  BY <1>2, <1>3
<1>5. NoId \in {IF id \in Known(table) THEN id ELSE NoId : id \in own}
  BY <1>4 DEF FindByConnection
<1>6. PICK k \in own : k \notin Known(table)
  BY <1>1, <1>5, TableAssumption
<1>7. PICK r \in table.routes : r.id = k /\ r.conn = c
  BY <1>6
<1>8. r \in Route /\ r = [id |-> k, conn |-> c] /\ k \in Ids
  <2>1. r \in Route
    BY <1>1, TableFields
  <2>2. QED
    BY <1>7, <2>1 DEF Route
<1>9. k \in reused
  BY <1>6, <1>7, <1>8 DEF Registry, Tidy
<1>10. QED
  BY <1>7, <1>8, <1>9 DEF Registry

\* A ConnectRequest.
LEMMA HandleConnectRegistry ==
  ASSUME TypeOK, Safe, Registry, HandleConnect
  PROVE  Registry'
<1> DEFINE c == Head(batch).from
<1>1. Handled({"connect"})
  BY DEF HandleConnect
<1>2. Head(batch) \in Message
  BY <1>1, HandledRight
<1>3. c \in Conns /\ table \in Tables
  BY <1>2 DEF Message, TypeOK
<1>4. CASE ~Attached(table, c)
  <2>1. UNCHANGED <<table, given, reused>>
    BY <1>4 DEF HandleConnect
  <2>2. QED
    BY <2>1, RegistryFrame
<1>5. CASE Attached(table, c)
  <2> DEFINE Table(found, id) ==
               IF found # NoId THEN {table}
               ELSE AfterBroadcasts(RegisterClient(table, id, c), id, Down, 1)
             Effect(found, id, told) ==
               /\ table' \in RemoveClient(told, id, Down) \cup {told}
               /\ given' = given \cup {[id |-> id, conn |-> c]}
               /\ reused' = IF found = NoId /\ id \in Known(table)
                            THEN reused \cup {id} ELSE reused
  <2>1. \E found \in FindByConnection(table, c) :
        \E id \in IF found # NoId THEN {found} ELSE GenerateClientId(table) :
        \E told \in Table(found, id) : Effect(found, id, told)
    BY <1>5 DEF HandleConnect
  <2>2. PICK found \in FindByConnection(table, c) :
        \E id \in IF found # NoId THEN {found} ELSE GenerateClientId(table) :
        \E told \in Table(found, id) : Effect(found, id, told)
    BY <2>1
  <2>3. PICK id \in IF found # NoId THEN {found} ELSE GenerateClientId(table) :
          \E told \in Table(found, id) : Effect(found, id, told)
    BY <2>2
  <2>4. PICK told \in Table(found, id) : Effect(found, id, told)
    BY <2>3
  <2> HIDE DEF c
  <2>5. CASE found # NoId
    <3>1. told = table
      BY <2>4, <2>5
    <3>2. Trims(table, table') /\ \A X : Tidy(table, X) => Tidy(table', X)
      BY <1>3, <2>4, <3>1, TrimsNothing, RemoveTidy
    <3>3. given \subseteq given' /\ reused' = reused
      BY <2>4, <2>5
    <3>4. QED
      BY <3>2, <3>3, RegistryTrimmed
  <2>6. CASE found = NoId
    <3> DEFINE new == RegisterClient(table, id, c)
               rt == [id |-> id, conn |-> c]
    <3>1. id \in Ids /\ told \in AfterBroadcasts(new, id, Down, 1)
      BY <2>3, <2>4, <2>6 DEF GenerateClientId
    <3>2. /\ reused \subseteq reused'
          /\ id \in Known(table) => id \in reused'
          /\ given' = given \cup {rt}
      BY <2>4, <2>6
    <3>3. new \in Tables
      BY <1>3, <3>1, RegisterClientGives DEF Gives
    <3>4. /\ Extends(table, id, c, TRUE, new)
          /\ Tidy(table, reused) => Tidy(new, reused')
      BY <1>3, <1>5, <3>1, <3>2, RegisterClientTidy
    <3> HIDE DEF new, rt
    <3>5. /\ told \in Tables /\ Trims(new, told)
          /\ \A X : Tidy(new, X) => Tidy(told, X)
      BY <3>1, <3>3, BroadcastsTidy
    <3>6. Trims(told, table') /\ \A X : Tidy(told, X) => Tidy(table', X)
      BY <2>4, <3>5, TrimsNothing, RemoveTidy
    <3>7. Extends(table, id, c, TRUE, table')
      BY <3>4, <3>5, <3>6, TrimsTransitive, ExtendsTrimmed
    <3>8. Tidy(table', reused')
      BY <3>4, <3>5, <3>6 DEF Registry
    <3>9. table'.routes \subseteq given'
      BY <3>2, <3>7 DEF Registry, Extends, rt
    <3>10. RegisteredOnce'
      <4> DEFINE Old(i) == /\ i \in Known(table)
                           /\ table.clients[i].conn = table'.clients[i].conn
                           /\ table'.clients[i].registered =>
                                table.clients[i].registered
      <4> SUFFICES ASSUME NEW i \in Known(table') \ reused',
                          NEW j \in Known(table') \ reused',
                          table'.clients[i].conn = table'.clients[j].conn,
                          table'.clients[i].registered,
                          table'.clients[j].registered,
                          \A r \in reused' :
                            [id |-> r, conn |-> table'.clients[i].conn] \notin given'
                   PROVE  i = j
        BY DEF RegisteredOnce
      <4>1. \A k \in {i, j} : Old(k) \/ (k = id /\ table'.clients[k].conn = c)
        BY <3>7 DEF Extends
      <4>2. \A r \in reused :
              [id |-> r, conn |-> table'.clients[i].conn] \notin given
        BY <3>2
      <4>3. CASE Old(i) /\ Old(j)
        <5>1. /\ i \in Known(table) \ reused /\ j \in Known(table) \ reused
              /\ table.clients[i].conn = table.clients[j].conn
              /\ table.clients[i].registered /\ table.clients[j].registered
          BY <3>2, <4>3
        <5>2. \A r \in reused :
                [id |-> r, conn |-> table.clients[i].conn] \notin given
          BY <4>2, <4>3
        <5>3. QED
          BY <5>1, <5>2 DEF Registry, RegisteredOnce
      <4>4. ASSUME NEW k \in {i, j}, Old(k), table'.clients[i].conn = c
            PROVE  FALSE
        <5>1. k \in Known(table) \ reused /\ table.clients[k].conn = c
          BY <3>2, <4>4
        <5>2. \A r \in reused : [id |-> r, conn |-> c] \notin given
          BY <4>2, <4>4
        <5>3. QED
          BY <1>3, <1>5, <2>2, <2>6, <5>1, <5>2, NotFoundIsNew
      <4>5. QED
        BY <4>1, <4>3, <4>4
    <3>11. QED
      BY <3>8, <3>9, <3>10 DEF Registry
  <2>7. QED
    BY <2>5, <2>6
<1>6. QED
  BY <1>4, <1>5

\* A new router knows nobody.
LEMMA InitRegistry == Init => Registry
<1> SUFFICES ASSUME Init PROVE Registry
  OBVIOUS
<1>1. /\ table = EmptyTable /\ table.routes = {} /\ table.allocated = {}
      /\ Known(table) = {}
  BY EmptyTableIsTable DEF Init, EmptyTable
<1>2. QED
  BY <1>1 DEF Registry, Tidy, RegisteredOnce

\* Every step keeps the maps right.
LEMMA NextRegistry == TypeOK /\ Safe /\ Registry /\ [Next]_vars => Registry'
<1> SUFFICES ASSUME TypeOK, Safe, Registry, [Next]_vars PROVE Registry'
  OBVIOUS
<1>1. CASE \E c \in Conns : ClientStep(c)
  BY <1>1, ClientStepRegistry
<1>2. CASE \E t \in Transports : Receive(t) \/ DropTransport(t)
  BY <1>2, ReceiveRegistry, DropTransportRegistry
<1>3. CASE TakeQueue \/ Update
  BY <1>3, RouterThreadRegistry
<1>4. CASE Handle
  BY <1>4, RouterThreadRegistry, HandleConnectRegistry, HandleSystemRegistry
     DEF Handle
<1>5. CASE UNCHANGED vars
  BY <1>5, RegistryFrame DEF vars
<1>6. QED
  BY <1>1, <1>2, <1>3, <1>4, <1>5 DEF Next

\* The maps are right in every behaviour.
THEOREM RegistryInductive == Spec => []Registry
<1>1. Init => Registry
  BY InitRegistry
<1>2. TypeOK /\ Safe /\ Registry /\ [Next]_vars => Registry'
  BY NextRegistry
<1>3. QED
  BY <1>1, <1>2, Inductive, PTL DEF Spec

\* Whatever removes a client releases its id, and a registered client keeps
\* its id allocated (routerCore.cpp:141, 349, 843).
THEOREM IdsReleased == Spec => []NoIdLeaks
<1>1. Registry => NoIdLeaks
  BY DEF Registry, Tidy, NoIdLeaks
<1>2. QED
  BY <1>1, RegistryInductive, PTL

\* The maps of the transports and the map of the clients describe the same
\* clients (routerCore.cpp:94, 122, 828).
THEOREM MapsDescribeTheSame == Spec => []MapsAgree
<1>1. Registry => MapsAgree
  BY DEF Registry, Tidy, MapsAgree
<1>2. QED
  BY <1>1, RegistryInductive, PTL

\* No connection has two registered clients, however often its ConnectRequest
\* is repeated (routerCore.cpp:446).
THEOREM RegisteredAtMostOnce == Spec => []RegisteredOnce
<1>1. Registry => RegisteredOnce
  BY DEF Registry
<1>2. QED
  BY <1>1, RegistryInductive, PTL


-----------------------------------------------------------------------------
(* Messages that wait: every data message is in one place, and has not     *)
(* been transmitted.                                                       *)

\* The places where a thread with receiver r and unread messages box holds a
\* message, and the message there.
Held(r, box) ==
  ({"retry"} \X (1..Len(r.retry)))
    \cup ({"queue"} \X {i \in 1..Len(r.queue) : i >= r.number})
    \cup ({"inbox"} \X (1..Len(box)))

At(r, box, p) == CASE p[1] = "retry" -> r.retry[p[2]]
                   [] p[1] = "queue" -> r.queue[p[2]]
                   [] OTHER -> box[p[2]]

SameData(m, k) == m.n = k.n /\ m.kind = k.kind

\* s and sbox hold what r and box held, each message in one place; f says where
\* it was.
Moves(f, r, box, s, sbox) ==
  /\ \A p \in Held(s, sbox) : /\ f[p] \in Held(r, box)
                              /\ SameData(At(s, sbox, p), At(r, box, f[p]))
  /\ \A p, q \in Held(s, sbox) : f[p] = f[q] => p = q

Holding(t) == Held(receiver[t], inbox[t])
MessageAt(t, p) == At(receiver[t], inbox[t], p)

Unsent ==
  /\ delivered \subseteq 1..sent
  /\ \A t \in Transports : \A p \in Holding(t) :
       LET m == MessageAt(t, p)
       IN  m.n \in 0..sent /\ m.n \notin delivered /\ (m.kind = "data" => m.n # 0)
  /\ \A t, u \in Transports : \A p \in Holding(t), q \in Holding(u) :
       MessageAt(t, p).n = MessageAt(u, q).n /\ MessageAt(t, p).n # 0
         => t = u /\ p = q

\* How often the messages of a thread have been tried.
Tries(r, box) ==
  /\ \A i \in 1..Len(box) : box[i].tries = 0
  /\ \A i \in 1..Len(r.retry) : r.retry[i].tries <= 1
  /\ \A i \in 1..Len(r.queue) : r.queue[i].tries <= 1
  /\ r.step \in Active => \A i \in 1..Len(r.queue) : i > r.first => r.queue[i].tries = 0
  /\ r.step \notin Active => r.number = 0 /\ r.retry = <<>>

Retrying == Unsent /\ \A t \in Transports : Tries(receiver[t], inbox[t])

\* Messages move within a thread.
LEMMA MovesUnsent ==
  ASSUME Unsent, NEW t \in Transports, NEW f,
         Moves(f, receiver[t], inbox[t], receiver'[t], inbox'[t]),
         \A u \in Transports : u # t => receiver'[u] = receiver[u] /\ inbox'[u] = inbox[u],
         sent' = sent, delivered' = delivered
  PROVE  Unsent'
<1> DEFINE F(u, p) == IF u = t THEN f[p] ELSE p
<1>1. ASSUME NEW u \in Transports, NEW p \in Holding(u)'
      PROVE  /\ F(u, p) \in Holding(u)
             /\ SameData(MessageAt(u, p)', MessageAt(u, F(u, p)))
  BY DEF Moves, Holding, MessageAt, SameData
<1>2. ASSUME NEW u \in Transports, NEW p \in Holding(u)', NEW q \in Holding(u)',
             F(u, p) = F(u, q)
      PROVE  p = q
  BY <1>2 DEF Moves, Holding
<1> HIDE DEF F
<1>3. QED
  BY <1>1, <1>2 DEF Unsent, SameData

\* The message at c leaves its thread, and may have been transmitted.
LEMMA DeliveryUnsent ==
  ASSUME Unsent, NEW t \in Transports, NEW f, NEW c \in Holding(t),
         Moves(f, receiver[t], inbox[t], receiver'[t], inbox'[t]),
         \A p \in Holding(t)' : f[p] # c,
         \A u \in Transports : u # t => receiver'[u] = receiver[u] /\ inbox'[u] = inbox[u],
         sent' = sent, MessageAt(t, c).n # 0, sent \in Nat,
         delivered' = delivered \cup {MessageAt(t, c).n}
  PROVE  Unsent'
<1> DEFINE F(u, p) == IF u = t THEN f[p] ELSE p
           n == MessageAt(t, c).n
<1>1. ASSUME NEW u \in Transports, NEW p \in Holding(u)'
      PROVE  /\ F(u, p) \in Holding(u)
             /\ SameData(MessageAt(u, p)', MessageAt(u, F(u, p)))
             /\ ~(u = t /\ F(u, p) = c)
  BY DEF Moves, Holding, MessageAt, SameData
<1>2. ASSUME NEW u \in Transports, NEW p \in Holding(u)', NEW q \in Holding(u)',
             F(u, p) = F(u, q)
      PROVE  p = q
  BY <1>2 DEF Moves, Holding
<1>3. n \in 1..sent /\ delivered' = delivered \cup {n}
  BY DEF Unsent
<1> HIDE DEF F
<1>4. ASSUME NEW u \in Transports, NEW p \in Holding(u)'
      PROVE  MessageAt(u, p)'.n # n
  BY <1>1 DEF Unsent, SameData
<1> HIDE DEF n
<1>5. delivered' \subseteq 1..sent'
  BY <1>3 DEF Unsent
<1>6. \A u \in Transports : \A p \in Holding(u)' :
        LET m == MessageAt(u, p)'
        IN  m.n \in 0..sent' /\ m.n \notin delivered' /\ (m.kind = "data" => m.n # 0)
  BY <1>1, <1>3, <1>4 DEF Unsent, SameData
<1>7. \A u, v \in Transports : \A p \in Holding(u)', q \in Holding(v)' :
        MessageAt(u, p)'.n = MessageAt(v, q)'.n /\ MessageAt(u, p)'.n # 0
          => u = v /\ p = q
  BY <1>1, <1>2 DEF Unsent, SameData
<1>8. QED
  BY <1>5, <1>6, <1>7 DEF Unsent

\* A new message arrives at a transport.
LEMMA ArrivalUnsent ==
  ASSUME TypeOK, Unsent, NEW t \in Transports, NEW m \in Message,
         inbox' = [inbox EXCEPT ![t] = Append(@, m)], receiver' = receiver,
         delivered' = delivered,
         \/ m.n = 0 /\ m.kind # "data" /\ sent' = sent
         \/ m.n = sent + 1 /\ sent' = sent + 1
  PROVE  Unsent'
<1> DEFINE last == <<"inbox", Len(inbox[t]) + 1>>
<1>1. /\ inbox[t] \in Seq(Message) /\ sent \in Nat /\ delivered \subseteq Nat
      /\ \A u \in Transports : u # t => inbox'[u] = inbox[u]
      /\ inbox'[t] = Append(inbox[t], m)
  BY RouterAssumption DEF TypeOK
<1>2. /\ Len(inbox'[t]) = Len(inbox[t]) + 1
      /\ \A i \in 1..Len(inbox[t]) : inbox'[t][i] = inbox[t][i]
      /\ inbox'[t][Len(inbox[t]) + 1] = m
      /\ Len(inbox[t]) \in Nat
  BY <1>1
<1>3. ASSUME NEW u \in Transports, NEW p \in Holding(u)'
      PROVE  \/ p \in Holding(u) /\ MessageAt(u, p)' = MessageAt(u, p)
             \/ u = t /\ p = last /\ MessageAt(u, p)' = m
  <2>1. CASE u # t
    BY <1>1, <2>1 DEF Holding, MessageAt
  <2>2. CASE u = t
    <3>1. CASE p[1] # "inbox"
      BY <1>1, <2>2, <3>1 DEF Holding, MessageAt, Held, At
    <3>2. CASE p[1] = "inbox"
      <4>1. p = <<"inbox", p[2]>> /\ p[2] \in 1..(Len(inbox[t]) + 1)
        BY <1>2, <2>2, <3>2 DEF Holding, Held
      <4>2. MessageAt(t, p)' = inbox'[t][p[2]] /\ MessageAt(t, p) = inbox[t][p[2]]
        BY <3>2 DEF MessageAt, At
      <4>3. p[2] \in 1..Len(inbox[t]) => p \in Holding(t)
        BY <4>1 DEF Holding, Held
      <4>4. QED
        BY <1>2, <2>2, <4>1, <4>2, <4>3
    <3>3. QED
      BY <3>1, <3>2
  <2>3. QED
    BY <2>1, <2>2
<1> HIDE DEF last
<1>4. sent' \in Nat /\ sent <= sent' /\ m.n \in 0..sent' /\ m.n \notin delivered
      /\ (m.kind = "data" => m.n # 0) /\ (m.n # 0 => m.n = sent + 1)
  <2>1. 0 \notin delivered /\ sent + 1 \notin delivered
    BY <1>1 DEF Unsent
  <2>2. QED
    BY <1>1, <2>1
<1>5. delivered' \subseteq 1..sent'
  BY <1>1, <1>4 DEF Unsent
<1>6. \A u \in Transports : \A p \in Holding(u)' :
        LET k == MessageAt(u, p)'
        IN  k.n \in 0..sent' /\ k.n \notin delivered' /\ (k.kind = "data" => k.n # 0)
  BY <1>1, <1>3, <1>4 DEF Unsent
<1>7. ASSUME NEW u \in Transports, NEW v \in Transports,
             NEW p \in Holding(u)', NEW q \in Holding(v)',
             MessageAt(u, p)'.n = MessageAt(v, q)'.n, MessageAt(u, p)'.n # 0
      PROVE  u = v /\ p = q
  <2>1. \A w \in Transports : \A x \in Holding(w) : MessageAt(w, x).n \in 0..sent
    BY DEF Unsent
  <2>2. CASE p \in Holding(u) /\ MessageAt(u, p)' = MessageAt(u, p)
    <3>1. MessageAt(u, p)'.n # sent + 1
      BY <1>1, <2>1, <2>2
    <3>2. q \in Holding(v) /\ MessageAt(v, q)' = MessageAt(v, q)
      BY <1>3, <1>4, <1>7, <3>1
    <3>3. QED
      BY <1>7, <2>2, <3>2 DEF Unsent
  <2>3. CASE u = t /\ p = last /\ MessageAt(u, p)' = m
    <3>1. MessageAt(v, q)'.n = sent + 1
      BY <1>4, <1>7, <2>3
    <3>2. ~(q \in Holding(v) /\ MessageAt(v, q)' = MessageAt(v, q))
      BY <1>1, <2>1, <3>1
    <3>3. QED
      BY <1>3, <2>3, <3>2
  <2>4. QED
    BY <1>3, <2>2, <2>3
<1>8. QED
  BY <1>5, <1>6, <1>7 DEF Unsent

-----------------------------------------------------------------------------
\* What follows a message (transportThread.cpp:90).
LEMMA AfterRouteFields ==
  ASSUME NEW r \in Receivers, r.number \in 1..Len(r.queue), NEW b \in BOOLEAN
  PROVE  LET a == AfterRoute(r, b)
             q == Requeue(r, b)
         IN IF r.number < Len(r.queue)
            THEN /\ a.step = "route" /\ a.number = r.number + 1 /\ a.retry = q
                 /\ a.queue = r.queue /\ a.first = r.first
            ELSE /\ a.step = "read" /\ a.number = 0 /\ a.retry = <<>>
                 /\ a.queue = q /\ a.first = 0
<1> DEFINE q == Requeue(r, b)
<1> HIDE DEF q
<1>1. CASE r.number < Len(r.queue)
  <2> DEFINE n == r.number + 1
             r1 == [r EXCEPT !.step = "route"]
             r2 == [r1 EXCEPT !.number = n]
             r3 == [r2 EXCEPT !.retry = q]
  <2>1. AfterRoute(r, b) = r3
    BY <1>1 DEF AfterRoute, q
  <2>2. /\ r1.step = "route" /\ r1.queue = r.queue /\ r1.first = r.first
        /\ DOMAIN r1 = DOMAIN r /\ DOMAIN r = {"step", "queue", "retry", "first", "number", "found"}
    BY DEF Receivers
  <2> HIDE DEF r1, n
  <2>3. /\ r2.step = "route" /\ r2.queue = r.queue /\ r2.first = r.first
        /\ r2.number = n /\ DOMAIN r2 = DOMAIN r
    BY <2>2
  <2> HIDE DEF r2
  <2>4. /\ r3.step = "route" /\ r3.queue = r.queue /\ r3.first = r.first
        /\ r3.number = n /\ r3.retry = q
    BY <2>2, <2>3
  <2> HIDE DEF r3
  <2>5. QED
    BY <1>1, <2>1, <2>4 DEF n, q
<1>2. CASE ~(r.number < Len(r.queue))
  <2> DEFINE a == [Idle EXCEPT !.queue = q]
  <2>1. AfterRoute(r, b) = a
    BY <1>2 DEF AfterRoute, q
  <2>2. /\ a.step = "read" /\ a.number = 0 /\ a.retry = <<>> /\ a.queue = q
        /\ a.first = 0
    BY DEF Idle
  <2> HIDE DEF a
  <2>3. QED
    BY <1>2, <2>1, <2>2 DEF q
<1>3. QED
  BY <1>1, <1>2

\* A message goes to the retry queue once.
LEMMA RequeueFields ==
  ASSUME NEW r \in Receivers, r.number \in 1..Len(r.queue), NEW b \in BOOLEAN
  PROVE  LET q == Requeue(r, b)
             m == r.queue[r.number]
         IN \/ q = r.retry
            \/ /\ b = TRUE /\ r.number > r.first
               /\ Len(q) = Len(r.retry) + 1
               /\ \A i \in 1..Len(r.retry) : q[i] = r.retry[i]
               /\ q[Len(q)].tries = m.tries + 1 /\ SameData(q[Len(q)], m)
<1> DEFINE m == r.queue[r.number]
           x == [m EXCEPT !.tries = @ + 1]
           q == Requeue(r, b)
<1>1. m \in Message /\ r.retry \in Seq(Message)
  BY DEF Receivers
<1>2. x \in Message /\ x.tries = m.tries + 1 /\ SameData(x, m)
  BY <1>1 DEF Message, SameData
<1>3. CASE b /\ r.number > r.first
  <2>1. q = Append(r.retry, x)
    BY <1>3 DEF Requeue
  <2> HIDE DEF x, q, m
  <2>2. /\ Len(q) = Len(r.retry) + 1 /\ q[Len(q)] = x
        /\ \A i \in 1..Len(r.retry) : q[i] = r.retry[i]
    BY <1>1, <1>2, <2>1
  <2>3. QED
    BY <1>2, <1>3, <2>2 DEF q, m
<1>4. CASE ~(b /\ r.number > r.first)
  BY <1>4 DEF Requeue
<1>5. QED
  BY <1>3, <1>4

\* Nothing is tried more than twice.
LEMMA AfterRouteTries ==
  ASSUME NEW r \in Receivers, r.number \in 1..Len(r.queue), NEW b \in BOOLEAN,
         r.step \in Active, NEW box, Tries(r, box)
  PROVE  Tries(AfterRoute(r, b), box)
<1> DEFINE a == AfterRoute(r, b)
           q == Requeue(r, b)
<1>1. IF r.number < Len(r.queue)
      THEN /\ a.step = "route" /\ a.number = r.number + 1 /\ a.retry = q
           /\ a.queue = r.queue /\ a.first = r.first
      ELSE /\ a.step = "read" /\ a.number = 0 /\ a.retry = <<>>
           /\ a.queue = q /\ a.first = 0
  BY AfterRouteFields
<1>2. \A i \in 1..Len(q) : q[i].tries <= 1
  <2>1. CASE q = r.retry
    BY <2>1 DEF Tries
  <2>2. CASE q # r.retry
    <3>1. /\ r.number > r.first
          /\ Len(q) = Len(r.retry) + 1
          /\ \A i \in 1..Len(r.retry) : q[i] = r.retry[i]
          /\ q[Len(q)].tries = r.queue[r.number].tries + 1
      BY <2>2, RequeueFields
    <3>2. r.queue[r.number].tries = 0
      BY <3>1 DEF Tries
    <3>3. Len(r.retry) \in Nat
      BY DEF Receivers
    <3> HIDE DEF q
    <3>4. TAKE i \in 1..Len(q)
    <3>5. i = Len(q) \/ i \in 1..Len(r.retry)
      BY <3>1, <3>3
    <3>6. QED
      BY <3>1, <3>2, <3>5 DEF Tries
  <2>3. QED
    BY <2>1, <2>2
<1> HIDE DEF a, q
<1>3. QED
  BY <1>1, <1>2 DEF Tries, Active, a

\* What follows a message keeps every other message in one place, and it too
\* if it was not ready.
LEMMA AfterRouteMoves ==
  ASSUME NEW r \in Receivers, r.number \in 1..Len(r.queue), NEW b \in BOOLEAN,
         NEW box
  PROVE  \E f : /\ Moves(f, r, box, AfterRoute(r, b), box)
                /\ b = FALSE => \A p \in Held(AfterRoute(r, b), box) :
                                  f[p] # <<"queue", r.number>>
<1> DEFINE a == AfterRoute(r, b)
           q == Requeue(r, b)
           k == Len(r.retry)
           from(i) == IF i <= k THEN <<"retry", i>> ELSE <<"queue", r.number>>
           f == [p \in Held(a, box) |->
                   IF p[1] = "inbox" THEN p
                   ELSE IF p[1] = "queue" /\ r.number < Len(r.queue) THEN p
                   ELSE from(p[2])]
<1>1. IF r.number < Len(r.queue)
      THEN /\ a.number = r.number + 1 /\ a.retry = q /\ a.queue = r.queue
      ELSE /\ a.number = 0 /\ a.retry = <<>> /\ a.queue = q
  BY AfterRouteFields
<1>2. /\ k \in Nat /\ Len(q) \in {k, k + 1} /\ (b = FALSE => Len(q) = k)
      /\ \A i \in 1..k : q[i] = r.retry[i]
      /\ Len(q) = k + 1 => SameData(q[k + 1], r.queue[r.number])
  <2>1. k \in Nat
    BY DEF Receivers
  <2>2. \/ q = r.retry
        \/ /\ b = TRUE /\ Len(q) = k + 1
           /\ \A i \in 1..k : q[i] = r.retry[i]
           /\ SameData(q[Len(q)], r.queue[r.number])
    BY RequeueFields
  <2> HIDE DEF q, k
  <2>3. QED
    BY <2>1, <2>2 DEF k
<1>3. r.number \in Nat /\ Len(r.queue) \in Nat /\ r.number <= Len(r.queue)
  BY DEF Receivers
<1> HIDE DEF a, q
<1>4. ASSUME NEW i \in 1..Len(q)
      PROVE  /\ from(i) \in Held(r, box)
             /\ SameData(q[i], At(r, box, from(i)))
  <2>1. CASE i <= k
    <3>1. i \in 1..Len(r.retry) /\ q[i] = r.retry[i]
      BY <1>2, <2>1
    <3>2. QED
      BY <2>1, <3>1 DEF Held, At, SameData
  <2>2. CASE ~(i <= k)
    <3>1. i = k + 1 /\ Len(q) = k + 1
      BY <1>2, <2>2
    <3>2. SameData(q[i], r.queue[r.number])
      BY <1>2, <3>1
    <3> HIDE DEF k
    <3>3. QED
      BY <1>3, <2>2, <3>2 DEF Held, At
  <2>3. QED
    BY <2>1, <2>2
<1>5. ASSUME NEW i \in 1..Len(q), NEW j \in 1..Len(q), from(i) = from(j)
      PROVE  i = j
  BY <1>2, <1>5
<1>6. ASSUME NEW i \in 1..Len(q), b = FALSE PROVE from(i) # <<"queue", r.number>>
  BY <1>2, <1>6
<1>7. CASE r.number < Len(r.queue)
  <2>1. Held(a, box) = ({"retry"} \X (1..Len(q)))
            \cup ({"queue"} \X {i \in 1..Len(r.queue) : i >= r.number + 1})
            \cup ({"inbox"} \X (1..Len(box)))
    BY <1>1, <1>7 DEF Held
  <2>2. ASSUME NEW p \in Held(a, box)
        PROVE  /\ f[p] \in Held(r, box)
               /\ SameData(At(a, box, p), At(r, box, f[p]))
               /\ b = FALSE => f[p] # <<"queue", r.number>>
    <3>1. CASE p[1] = "retry"
      <4>1. p[2] \in 1..Len(q) /\ f[p] = from(p[2]) /\ At(a, box, p) = q[p[2]]
        BY <1>1, <1>7, <2>1, <3>1 DEF At
      <4>2. QED
        BY <1>4, <1>6, <4>1
    <3>2. CASE p[1] = "queue"
      <4>1. f[p] = p /\ p = <<"queue", p[2]>> /\ p[2] \in 1..Len(r.queue)
            /\ p[2] >= r.number + 1
        BY <1>7, <2>1, <3>2
      <4>2. p[2] >= r.number /\ p[2] # r.number
        BY <1>3, <4>1
      <4>3. p \in Held(r, box) /\ p # <<"queue", r.number>>
        BY <4>1, <4>2 DEF Held
      <4>4. At(a, box, p) = At(r, box, p)
        BY <1>1, <1>7, <3>2 DEF At
      <4> HIDE DEF f
      <4>5. QED
        BY <4>1, <4>3, <4>4 DEF SameData
    <3>3. CASE p[1] = "inbox"
      <4>1. f[p] = p /\ p \in Held(r, box) /\ p # <<"queue", r.number>>
        BY <2>1, <3>3 DEF Held
      <4>2. At(a, box, p) = At(r, box, p)
        BY <3>3 DEF At
      <4> HIDE DEF f
      <4>3. QED
        BY <4>1, <4>2 DEF SameData
    <3>4. p[1] \in {"retry", "queue", "inbox"}
      BY <2>1
    <3>5. QED
      BY <3>1, <3>2, <3>3, <3>4
  <2>3. ASSUME NEW p \in Held(a, box), NEW x \in Held(a, box), f[p] = f[x]
        PROVE  p = x
    <3>1. \A y \in Held(a, box) :
            /\ y = <<y[1], y[2]>>
            /\ \/ y[1] = "retry" /\ y[2] \in 1..Len(q) /\ f[y] = from(y[2])
               \/ y[1] = "queue" /\ y[2] # r.number /\ f[y] = y
               \/ y[1] = "inbox" /\ f[y] = y
      BY <1>3, <1>7, <2>1
    <3>2. \A i : from(i) = <<"retry", i>> \/ from(i) = <<"queue", r.number>>
      OBVIOUS
    <3> HIDE DEF f, from
    <3>3. CASE p[1] = "retry" /\ x[1] = "retry"
      BY <1>5, <2>3, <3>1, <3>3
    <3>4. CASE p[1] = "retry" /\ x[1] # "retry"
      BY <2>3, <3>1, <3>2, <3>4
    <3>5. CASE p[1] # "retry" /\ x[1] = "retry"
      BY <2>3, <3>1, <3>2, <3>5
    <3>6. CASE p[1] # "retry" /\ x[1] # "retry"
      BY <2>3, <3>1, <3>6
    <3>7. QED
      BY <3>3, <3>4, <3>5, <3>6
  <2> HIDE DEF f
  <2>4. QED
    BY <2>2, <2>3 DEF Moves, a
<1>8. CASE ~(r.number < Len(r.queue))
  <2>1. Held(a, box) = ({"queue"} \X (1..Len(q))) \cup ({"inbox"} \X (1..Len(box)))
    <3>1. {i \in 1..Len(q) : i >= 0} = 1..Len(q) /\ 1..Len(a.retry) = {}
      BY <1>1, <1>2, <1>8
    <3>2. QED
      BY <1>1, <1>8, <3>1 DEF Held
  <2>2. ASSUME NEW p \in Held(a, box)
        PROVE  /\ f[p] \in Held(r, box)
               /\ SameData(At(a, box, p), At(r, box, f[p]))
               /\ b = FALSE => f[p] # <<"queue", r.number>>
    <3>1. CASE p[1] = "queue"
      <4>1. p[2] \in 1..Len(q) /\ f[p] = from(p[2]) /\ At(a, box, p) = q[p[2]]
        BY <1>1, <1>8, <2>1, <3>1 DEF At
      <4>2. QED
        BY <1>4, <1>6, <4>1
    <3>2. CASE p[1] = "inbox"
      <4>1. f[p] = p /\ p \in Held(r, box) /\ p # <<"queue", r.number>>
        BY <2>1, <3>2 DEF Held
      <4>2. At(a, box, p) = At(r, box, p)
        BY <3>2 DEF At
      <4> HIDE DEF f
      <4>3. QED
        BY <4>1, <4>2 DEF SameData
    <3>3. p[1] \in {"queue", "inbox"}
      BY <2>1
    <3>4. QED
      BY <3>1, <3>2, <3>3
  <2>3. ASSUME NEW p \in Held(a, box), NEW x \in Held(a, box), f[p] = f[x]
        PROVE  p = x
    <3>1. \A y \in Held(a, box) :
            /\ y = <<y[1], y[2]>>
            /\ \/ y[1] = "queue" /\ y[2] \in 1..Len(q) /\ f[y] = from(y[2])
               \/ y[1] = "inbox" /\ f[y] = y
      BY <1>8, <2>1
    <3>2. \A i : from(i) = <<"retry", i>> \/ from(i) = <<"queue", r.number>>
      OBVIOUS
    <3> HIDE DEF f, from
    <3>3. CASE p[1] = "queue" /\ x[1] = "queue"
      BY <1>5, <2>3, <3>1, <3>3
    <3>4. CASE ~(p[1] = "queue" /\ x[1] = "queue")
      BY <2>3, <3>1, <3>2, <3>4
    <3>5. QED
      BY <3>3, <3>4
  <2> HIDE DEF f
  <2>4. QED
    BY <2>2, <2>3 DEF Moves, a
<1>9. QED
  BY <1>7, <1>8


\* Where a thread is changes nothing of what it holds.
LEMMA SameMoves ==
  ASSUME NEW r, NEW s, NEW box,
         s.queue = r.queue, s.retry = r.retry, s.number = r.number
  PROVE  \E f : Moves(f, r, box, s, box)
<1> DEFINE f == [p \in Held(s, box) |-> p]
<1>1. Held(s, box) = Held(r, box)
  BY DEF Held
<1>2. \A p \in Held(s, box) : At(s, box, p) = At(r, box, p)
  BY DEF At
<1>3. Moves(f, r, box, s, box)
  BY <1>1, <1>2 DEF Moves, SameData
<1>4. QED
  BY <1>3

\* What has arrived goes behind what waits for another try.
LEMMA ReadMoves ==
  ASSUME NEW r \in Receivers, NEW box \in Seq(Message), NEW s,
         r.retry = <<>>, r.number = 0, s.retry = <<>>, s.number = 1,
         s.queue = r.queue \o box
  PROVE  \E f : Moves(f, r, box, s, <<>>)
<1> DEFINE k == Len(r.queue)
           n == Len(box)
           from(i) == IF i <= k THEN <<"queue", i>> ELSE <<"inbox", i - k>>
           f == [p \in Held(s, <<>>) |-> from(p[2])]
<1>1. /\ k \in Nat /\ n \in Nat /\ Len(s.queue) = k + n
      /\ \A i \in 1..k : s.queue[i] = r.queue[i]
      /\ \A i \in 1..n : s.queue[k + i] = box[i]
  BY DEF Receivers
<1>2. Held(s, <<>>) = {"queue"} \X (1..(k + n))
  <2>1. /\ {i \in 1..Len(s.queue) : i >= s.number} = 1..(k + n)
        /\ 1..Len(s.retry) = {} /\ 1..Len(<<>>) = {}
    BY <1>1
  <2>2. QED
    BY <2>1 DEF Held
<1>3. ASSUME NEW i \in 1..(k + n)
      PROVE  /\ from(i) \in Held(r, box)
             /\ s.queue[i] = At(r, box, from(i))
  <2>1. CASE i <= k
    <3>1. i \in 1..k /\ i >= r.number /\ s.queue[i] = r.queue[i]
      BY <1>1, <2>1
    <3>2. QED
      BY <2>1, <3>1 DEF Held, At
  <2>2. CASE ~(i <= k)
    <3>1. i - k \in 1..n /\ s.queue[i] = box[i - k]
      <4>1. i - k \in 1..n /\ k + (i - k) = i
        BY <1>1, <2>2
      <4>2. QED
        BY <1>1, <4>1
    <3>2. from(i) = <<"inbox", i - k>>
      BY <2>2
    <3> HIDE DEF k
    <3>3. QED
      BY <3>1, <3>2 DEF Held, At
  <2>3. QED
    BY <2>1, <2>2
<1>4. ASSUME NEW i \in 1..(k + n), NEW j \in 1..(k + n), from(i) = from(j)
      PROVE  i = j
  BY <1>1, <1>4
<1>5. \A p \in Held(s, <<>>) :
        /\ p = <<"queue", p[2]>> /\ p[2] \in 1..(k + n) /\ f[p] = from(p[2])
        /\ At(s, <<>>, p) = s.queue[p[2]]
  BY <1>2 DEF At
<1> HIDE DEF f, from, k, n
<1>6. \A p \in Held(s, <<>>) : /\ f[p] \in Held(r, box)
                               /\ SameData(At(s, <<>>, p), At(r, box, f[p]))
  BY <1>3, <1>5 DEF SameData
<1>7. \A p, q \in Held(s, <<>>) : f[p] = f[q] => p = q
  BY <1>4, <1>5
<1>8. QED
  BY <1>6, <1>7 DEF Moves

-----------------------------------------------------------------------------
(* The steps.                                                              *)

\* A step of the router thread.
LEMMA RetryingFrame ==
  ASSUME Retrying, UNCHANGED <<receiver, inbox, delivered, sent>>
  PROVE  Retrying'
BY DEF Retrying, Unsent, Holding, MessageAt

\* A message of a client is untried, and a data message has a new number.
LEMMA ArrivalRetrying ==
  ASSUME TypeOK, Retrying, NEW c \in Conns, NEW kind \in Kinds,
         NEW src \in Ids \cup {NoId}, NEW dst \in Ids \cup {NoId, Host},
         NEW n \in 0..MaxData, Send(c, kind, src, dst, n),
         receiver' = receiver, delivered' = delivered,
         \/ n = 0 /\ kind # "data" /\ sent' = sent
         \/ n = sent + 1 /\ sent' = sent + 1
  PROVE  Retrying'
<1> DEFINE t == TransportOf[c]
           m == [kind |-> kind, src |-> src, dst |-> dst, from |-> c, n |-> n,
                 tries |-> 0]
<1>1. m \in Message /\ m.n = n /\ m.kind = kind /\ m.tries = 0
  BY DEF Message
<1>2. t \in Transports
  BY TableAssumption
<1>3. inbox' = [inbox EXCEPT ![t] = Append(@, m)]
  BY DEF Send
<1> HIDE DEF m, t
<1>4. Unsent'
  BY <1>1, <1>2, <1>3, ArrivalUnsent DEF Retrying
<1>5. ASSUME NEW u \in Transports PROVE Tries(receiver'[u], inbox'[u])
  <2>1. Tries(receiver[u], inbox[u])
    BY DEF Retrying
  <2>2. inbox \in [Transports -> Seq(Message)]
    BY DEF TypeOK
  <2>3. CASE u # t
    BY <1>3, <2>1, <2>2, <2>3
  <2>4. CASE u = t
    <3>1. inbox'[u] = Append(inbox[u], m) /\ inbox[u] \in Seq(Message)
      BY <1>2, <1>3, <2>2, <2>4
    <3>2. \A i \in 1..Len(inbox'[u]) : inbox'[u][i].tries = 0
      BY <1>1, <2>1, <3>1 DEF Tries
    <3>3. QED
      BY <2>1, <3>2 DEF Tries
  <2>5. QED
    BY <2>3, <2>4
<1>6. QED
  BY <1>4, <1>5 DEF Retrying

\* Every action of a client.
LEMMA ClientStepRetrying ==
  ASSUME TypeOK, Retrying, NEW c \in Conns, ClientStep(c)
  PROVE  Retrying'
<1> USE DEF Kinds
<1>0. 0 \in 0..MaxData /\ MaxData \in Nat /\ myId[c] \in Ids \cup {NoId}
  BY RouterAssumption DEF TypeOK
<1>1. CASE RequestConnect(c)
  <2>1. UNCHANGED <<receiver, delivered, sent>> /\ Send(c, "connect", NoId, NoId, 0)
    BY <1>1 DEF RequestConnect, threadVars, history
  <2>2. QED
    BY <1>0, <2>1, ArrivalRetrying
<1>2. CASE AnswerPing(c) \/ AnswerQuery(c)
  <2>1. PICK question \in {"ping", "query"}, kind \in {"pong", "info"} :
                 Answer(c, question, kind)
    BY <1>2 DEF AnswerPing, AnswerQuery
  <2>2. UNCHANGED <<receiver, delivered, sent>>
    BY <2>1 DEF Answer, threadVars, history
  <2>3. CASE myId[c] # NoId /\ kind \in plan
    BY <1>0, <2>1, <2>2, <2>3, ArrivalRetrying DEF Answer
  <2>4. CASE ~(myId[c] # NoId /\ kind \in plan)
    <3>1. inbox' = inbox
      BY <2>1, <2>4 DEF Answer
    <3>2. QED
      BY <2>2, <3>1, RetryingFrame
  <2>5. QED
    BY <2>3, <2>4
<1>3. CASE Hello(c) \/ SetFlags(c) \/ Unregister(c)
  <2>1. PICK kind \in {"hello", "flags", "disconnect"} :
          Send(c, kind, myId[c], NoId, 0)
    BY <1>3 DEF Hello, SetFlags, Unregister
  <2>2. UNCHANGED <<receiver, delivered, sent>>
    BY <1>3 DEF Hello, SetFlags, Unregister, threadVars, history
  <2>3. QED
    BY <1>0, <2>1, <2>2, ArrivalRetrying
<1>4. CASE Vanish(c) \/ \E id \in Ids : ReadResponse(c, id)
  <2>1. UNCHANGED <<receiver, inbox, delivered, sent>>
    BY <1>4 DEF Vanish, ReadResponse, threadVars, history
  <2>2. QED
    BY <2>1, RetryingFrame
<1>5. ASSUME NEW id \in Ids, SendData(c, id) PROVE Retrying'
  <2>1. sent + 1 \in 0..MaxData
    BY <1>0, <1>5 DEF SendData, TypeOK
  <2>2. /\ Send(c, "data", myId[c], id, sent + 1) /\ sent' = sent + 1
        /\ UNCHANGED <<receiver, delivered>>
    BY <1>5 DEF SendData, threadVars
  <2>3. QED
    BY <1>0, <2>1, <2>2, ArrivalRetrying
<1>6. QED
  BY <1>1, <1>2, <1>3, <1>4, <1>5 DEF ClientStep

\* A thread whose messages move, the others stay.
LEMMA ThreadRetrying ==
  ASSUME Retrying, NEW t \in Transports, NEW f,
         Moves(f, receiver[t], inbox[t], receiver'[t], inbox'[t]),
         Tries(receiver'[t], inbox'[t]),
         \A u \in Transports : u # t => receiver'[u] = receiver[u] /\ inbox'[u] = inbox[u],
         sent' = sent, delivered' = delivered
  PROVE  Retrying'
<1>1. Unsent'
  BY MovesUnsent DEF Retrying
<1>2. \A u \in Transports : Tries(receiver'[u], inbox'[u])
  BY DEF Retrying
<1>3. QED
  BY <1>1, <1>2 DEF Retrying

\* A thread goes on with its message, or stops.
LEMMA OnRetrying ==
  ASSUME TypeOK, Retrying, NEW t \in Transports, NEW r,
         receiver' = [receiver EXCEPT ![t] = r],
         r.queue = receiver[t].queue, r.retry = receiver[t].retry,
         r.number = receiver[t].number, r.first = receiver[t].first,
         r.step \in Active <=> receiver[t].step \in Active,
         UNCHANGED <<inbox, delivered, sent>>
  PROVE  Retrying'
<1>1. receiver'[t] = r /\ \A u \in Transports : u # t => receiver'[u] = receiver[u]
  BY DEF TypeOK
<1>2. Tries(r, inbox[t])
  BY DEF Retrying, Tries
<1>3. PICK f : Moves(f, receiver[t], inbox[t], r, inbox[t])
  BY SameMoves
<1>4. QED
  BY <1>1, <1>2, <1>3, ThreadRetrying

\* A thread is done with its message, which it did not transmit.
LEMMA DoneRetrying ==
  ASSUME TypeOK, Safe, Retrying, NEW t \in Transports, NEW b \in BOOLEAN,
         receiver[t].step \in Active, Done(t, b),
         UNCHANGED <<inbox, delivered, sent>>
  PROVE  Retrying'
<1> DEFINE a == AfterRoute(receiver[t], b)
<1>1. receiver'[t] = a /\ \A u \in Transports : u # t => receiver'[u] = receiver[u]
  BY DEF TypeOK, Done
<1>2. receiver[t] \in Receivers /\ receiver[t].number \in 1..Len(receiver[t].queue)
  BY ThisType
<1>3. Tries(a, inbox[t])
  BY <1>2, AfterRouteTries DEF Retrying
<1>4. PICK f : Moves(f, receiver[t], inbox[t], a, inbox[t])
  BY <1>2, AfterRouteMoves
<1> HIDE DEF a
<1>5. QED
  BY <1>1, <1>3, <1>4, ThreadRetrying

\* A thread has transmitted its message.
LEMMA TransmittedRetrying ==
  ASSUME TypeOK, Safe, Retrying, NEW t \in Transports,
         receiver[t].step \in Active, Done(t, FALSE), This(t).kind = "data",
         delivered' = delivered \cup {This(t).n}, UNCHANGED <<inbox, sent>>
  PROVE  Retrying'
<1> DEFINE b == FALSE
<1>0. b \in BOOLEAN /\ b = FALSE
  OBVIOUS
<1> DEFINE a == AfterRoute(receiver[t], b)
           c == <<"queue", receiver[t].number>>
<1>1. receiver'[t] = a /\ \A u \in Transports : u # t => receiver'[u] = receiver[u]
  BY DEF TypeOK, Done
<1>2. receiver[t] \in Receivers /\ receiver[t].number \in 1..Len(receiver[t].queue)
  BY ThisType
<1> HIDE DEF b
<1>3. Tries(a, inbox[t])
  BY <1>0, <1>2, AfterRouteTries DEF Retrying
<1>4. PICK f : /\ Moves(f, receiver[t], inbox[t], a, inbox[t])
               /\ \A p \in Held(a, inbox[t]) : f[p] # c
  BY <1>0, <1>2, AfterRouteMoves
<1> HIDE DEF a
<1>5. c \in Holding(t) /\ MessageAt(t, c) = This(t)
  <2>1. receiver[t].number >= receiver[t].number
    BY <1>2 DEF Receivers
  <2>2. QED
    BY <1>2, <2>1 DEF Holding, Held, MessageAt, At, This
<1>6. MessageAt(t, c).n # 0 /\ sent \in Nat
  <2>1. sent \in Nat
    BY RouterAssumption DEF TypeOK
  <2>2. QED
    BY <1>5, <2>1 DEF Retrying, Unsent
<1> HIDE DEF c
<1>7. \A p \in Holding(t)' : f[p] # c
  BY <1>1, <1>4 DEF Holding
<1>8. Unsent'
  BY <1>1, <1>4, <1>5, <1>6, <1>7, DeliveryUnsent DEF Retrying
<1>9. \A u \in Transports : Tries(receiver'[u], inbox'[u])
  BY <1>1, <1>3 DEF Retrying
<1>10. QED
  BY <1>8, <1>9 DEF Retrying

\* Reading what has arrived.
LEMMA ReadRetrying ==
  ASSUME TypeOK, Retrying, NEW t \in Transports, Read(t)
  PROVE  Retrying'
<1> DEFINE r == receiver[t]
           q == r.queue \o inbox[t]
           n == Len(r.queue)
           r1 == [r EXCEPT !.queue = q]
           r2 == [r1 EXCEPT !.step = "route"]
           r3 == [r2 EXCEPT !.first = n]
           r4 == [r3 EXCEPT !.number = 1]
<1>1. r \in Receivers /\ inbox[t] \in Seq(Message) /\ r.step = "read"
  BY DEF TypeOK, Read
<1>2. /\ receiver' = [receiver EXCEPT ![t] = r4]
      /\ inbox' = [inbox EXCEPT ![t] = <<>>]
      /\ UNCHANGED <<delivered, sent>>
  BY DEF Read, history
<1>3. r.retry = <<>> /\ r.number = 0 /\ Tries(r, inbox[t])
  BY <1>1 DEF Retrying, Tries, Active
<1>4. r.queue \in Seq(Message) /\ n \in Nat
  BY <1>1 DEF Receivers
<1> HIDE DEF q, n, r
<1>5. r1.queue = q /\ r1.retry = <<>> /\ DOMAIN r1 = DOMAIN r
      /\ DOMAIN r = {"step", "queue", "retry", "first", "number", "found"}
  BY <1>1, <1>3 DEF Receivers
<1> HIDE DEF r1
<1>6. r2.queue = q /\ r2.retry = <<>> /\ r2.step = "route" /\ DOMAIN r2 = DOMAIN r
  BY <1>5
<1> HIDE DEF r2
<1>7. r3.queue = q /\ r3.retry = <<>> /\ r3.step = "route" /\ r3.first = n
      /\ DOMAIN r3 = DOMAIN r
  BY <1>5, <1>6
<1> HIDE DEF r3
<1>8. r4.queue = q /\ r4.retry = <<>> /\ r4.step = "route" /\ r4.first = n
      /\ r4.number = 1
  BY <1>5, <1>7
<1> HIDE DEF r4
<1>9. PICK f : Moves(f, r, inbox[t], r4, <<>>)
  BY <1>1, <1>3, <1>8, ReadMoves DEF q
<1>10. Tries(r4, <<>>)
  <2>1. ASSUME NEW i \in 1..Len(q)
        PROVE  q[i].tries <= 1 /\ (i > n => q[i].tries = 0)
    <3>1. CASE i <= n
      <4>1. i \in 1..n /\ q[i] = r.queue[i] /\ ~(i > n)
        BY <1>1, <1>4, <3>1 DEF q, n
      <4>2. QED
        BY <1>3, <4>1 DEF Tries, n
    <3>2. CASE ~(i <= n)
      <4> DEFINE box == inbox[t]
                 w == r.queue
                 k == Len(box)
      <4>a. box \in Seq(Message) /\ w \in Seq(Message)
        BY <1>1, <1>4
      <4>b. q = w \o box /\ n = Len(w)
        BY DEF q, n
      <4> HIDE DEF box, w
      <4>0. /\ k \in Nat /\ Len(q) = n + k
            /\ \A j \in 1..k : q[n + j] = box[j]
        BY <4>a, <4>b
      <4>1. i - n \in 1..Len(inbox[t]) /\ q[i] = inbox[t][i - n]
        <5>1. i - n \in 1..k /\ n + (i - n) = i
          BY <1>4, <3>2, <4>0
        <5>2. QED
          BY <4>0, <5>1 DEF box
      <4>2. QED
        BY <1>3, <4>1 DEF Tries
    <3>3. QED
      BY <3>1, <3>2
  <2>2. Len(<<>>) = 0 /\ 1..0 = {}
    OBVIOUS
  <2>3. QED
    BY <1>8, <2>1, <2>2 DEF Tries, Active
<1>11. /\ receiver'[t] = r4 /\ inbox'[t] = <<>>
       /\ \A u \in Transports : u # t => receiver'[u] = receiver[u] /\ inbox'[u] = inbox[u]
  BY <1>2 DEF TypeOK
<1>12. QED
  BY <1>2, <1>9, <1>10, <1>11, ThreadRetrying DEF r

\* The fields of a receiver that takes another step.
LEMMA StepFields ==
  ASSUME NEW r \in Receivers, NEW step
  PROVE  LET s == [r EXCEPT !.step = step]
         IN /\ s.queue = r.queue /\ s.retry = r.retry /\ s.number = r.number
            /\ s.first = r.first /\ s.step = step
            /\ DOMAIN s = {"step", "queue", "retry", "first", "number", "found"}
BY DEF Receivers

\* The same, for a step that changes nothing else.
LEMMA GoOnRetrying ==
  ASSUME TypeOK, Retrying, NEW t \in Transports, NEW step,
         receiver' = [receiver EXCEPT ![t].step = step],
         step \in Active <=> receiver[t].step \in Active,
         UNCHANGED <<inbox, delivered, sent>>
  PROVE  Retrying'
<1> DEFINE r == [receiver[t] EXCEPT !.step = step]
<1>1. receiver' = [receiver EXCEPT ![t] = r]
  OBVIOUS
<1>2. receiver[t] \in Receivers
  BY DEF TypeOK
<1>3. /\ r.queue = receiver[t].queue /\ r.retry = receiver[t].retry
      /\ r.number = receiver[t].number /\ r.first = receiver[t].first
      /\ r.step = step
  BY <1>2, StepFields
<1> HIDE DEF r
<1>4. QED
  BY <1>1, <1>3, OnRetrying

\* Every step of a receiving thread.
LEMMA ReceiveRetrying ==
  ASSUME TypeOK, Safe, Retrying, NEW t \in Transports, Receive(t)
  PROVE  Retrying'
<1>0. FALSE \in BOOLEAN /\ TRUE \in BOOLEAN
  OBVIOUS
<1>1. CASE Read(t)
  BY <1>1, ReadRetrying
<1>2. CASE StopReceiving(t)
  <2>1. /\ receiver[t].step = "read"
        /\ receiver' = [receiver EXCEPT ![t].step = "stopped"]
        /\ UNCHANGED <<inbox, delivered, sent>>
    BY <1>2 DEF StopReceiving, history
  <2>2. "stopped" \in Active <=> receiver[t].step \in Active
    BY <2>1 DEF Active
  <2>3. QED
    BY <2>1, <2>2, GoOnRetrying
<1>3. CASE RouteBroadcast(t) \/ RemoveFailed(t)
  <2>1. /\ receiver[t].step \in Active /\ Done(t, FALSE)
        /\ UNCHANGED <<inbox, delivered, sent>>
    BY <1>3 DEF RouteBroadcast, RemoveFailed, history, Active
  <2>2. QED
    BY <1>0, <2>1, DoneRetrying
<1>4. CASE RouteDirected(t)
  <2>1. receiver[t].step = "route" /\ UNCHANGED <<inbox, delivered, sent>>
    BY <1>4 DEF RouteDirected, history
  <2>2. \/ Done(t, FALSE)
        \/ \E step \in {"send", "lookup"} :
             receiver' = [receiver EXCEPT ![t].step = step]
    BY <1>4 DEF RouteDirected
  <2>3. CASE Done(t, FALSE)
    BY <1>0, <2>1, <2>3, DoneRetrying DEF Active
  <2>4. ASSUME NEW step \in {"send", "lookup"},
               receiver' = [receiver EXCEPT ![t].step = step]
        PROVE  Retrying'
    <3>1. step \in Active <=> receiver[t].step \in Active
      BY <2>1 DEF Active
    <3>2. QED
      BY <2>1, <2>4, <3>1, GoOnRetrying
  <2>5. QED
    BY <2>2, <2>3, <2>4
<1>5. CASE LookupConnection(t)
  <2>1. receiver[t].step = "lookup" /\ UNCHANGED <<inbox, delivered, sent>>
    BY <1>5 DEF LookupConnection, history
  <2>2. CASE Destination(t) \notin Known(table)
    <3>1. Done(t, FALSE)
      BY <1>5, <2>2 DEF LookupConnection
    <3>2. QED
      BY <1>0, <2>1, <3>1, DoneRetrying DEF Active
  <2>3. CASE Destination(t) \in Known(table)
    <3> DEFINE c == table.clients[Destination(t)].conn
               r1 == [receiver[t] EXCEPT !.step = "transport"]
               r2 == [r1 EXCEPT !.found = c]
    <3>1. receiver' = [receiver EXCEPT ![t] = r2]
      BY <1>5, <2>3 DEF LookupConnection
    <3>2. receiver[t] \in Receivers
      BY DEF TypeOK
    <3>3. /\ r1.queue = receiver[t].queue /\ r1.retry = receiver[t].retry
          /\ r1.number = receiver[t].number /\ r1.first = receiver[t].first
          /\ r1.step = "transport"
          /\ DOMAIN r1 = {"step", "queue", "retry", "first", "number", "found"}
      BY <3>2, StepFields
    <3> HIDE DEF c, r1
    <3>4. /\ r2.queue = receiver[t].queue /\ r2.retry = receiver[t].retry
          /\ r2.number = receiver[t].number /\ r2.first = receiver[t].first
          /\ r2.step = "transport"
      BY <3>3
    <3> HIDE DEF r2
    <3>5. r2.step \in Active <=> receiver[t].step \in Active
      BY <2>1, <3>4 DEF Active
    <3>6. QED
      BY <2>1, <3>1, <3>4, <3>5, OnRetrying
  <2>4. QED
    BY <2>2, <2>3
<1>6. CASE LookupTransport(t)
  <2>1. /\ receiver[t].step = "transport"
        /\ receiver' = [receiver EXCEPT ![t].step = "send"]
        /\ UNCHANGED <<inbox, delivered, sent>>
    BY <1>6 DEF LookupTransport, history
  <2>2. "send" \in Active <=> receiver[t].step \in Active
    BY <2>1 DEF Active
  <2>3. QED
    BY <2>1, <2>2, GoOnRetrying
<1>7. CASE Transmit(t)
  <2>1. receiver[t].step = "send" /\ UNCHANGED <<inbox, sent>>
    BY <1>7 DEF Transmit
  <2>2. PICK result \in {"Success", "NotReady", "Error"} :
          /\ delivered' = IF result = "Success" /\ This(t).kind = "data"
                          THEN delivered \cup {This(t).n} ELSE delivered
          /\ IF result = "Error"
             THEN receiver' = [receiver EXCEPT ![t].step = "remove"]
             ELSE Done(t, result = "NotReady")
    BY <1>7 DEF Transmit, Outcomes
  <2>3. CASE result = "Error"
    <3>1. "remove" \in Active <=> receiver[t].step \in Active
      BY <2>1 DEF Active
    <3>2. receiver' = [receiver EXCEPT ![t].step = "remove"] /\ delivered' = delivered
      BY <2>2, <2>3
    <3>3. QED
      BY <2>1, <3>1, <3>2, GoOnRetrying
  <2>4. CASE result = "Success" /\ This(t).kind = "data"
    <3>1. Done(t, FALSE) /\ delivered' = delivered \cup {This(t).n}
      BY <2>2, <2>4
    <3>2. QED
      BY <2>1, <2>4, <3>1, TransmittedRetrying DEF Active
  <2>5. CASE result # "Error" /\ ~(result = "Success" /\ This(t).kind = "data")
    <3>1. PICK b \in BOOLEAN : Done(t, b)
      BY <2>2, <2>5
    <3>2. delivered' = delivered
      BY <2>2, <2>5
    <3>3. QED
      BY <2>1, <3>1, <3>2, DoneRetrying DEF Active
  <2>6. QED
    BY <2>3, <2>4, <2>5
<1>8. QED
  BY <1>1, <1>2, <1>3, <1>4, <1>5, <1>6, <1>7 DEF Receive

\* At first nothing waits.
LEMMA InitRetrying == Init => Retrying
<1> SUFFICES ASSUME Init PROVE Retrying
  OBVIOUS
<1>1. /\ delivered = {} /\ sent = 0
      /\ \A t \in Transports : receiver[t] = Idle /\ inbox[t] = <<>>
  BY DEF Init
<1>2. /\ Idle.queue = <<>> /\ Idle.retry = <<>> /\ Idle.number = 0
      /\ Idle.step = "read"
  BY DEF Idle
<1>3. Held(Idle, <<>>) = {}
  <2>1. 1..Len(<<>>) = {}
    OBVIOUS
  <2>2. QED
    BY <1>2, <2>1 DEF Held
<1>4. Unsent
  BY <1>1, <1>3 DEF Unsent, Holding
<1>5. Tries(Idle, <<>>)
  <2>1. 1..Len(<<>>) = {}
    OBVIOUS
  <2>2. QED
    BY <1>2, <2>1 DEF Tries, Active
<1>6. QED
  BY <1>1, <1>4, <1>5 DEF Retrying

\* Every step keeps the messages that wait unsent.
LEMMA NextRetrying == TypeOK /\ Safe /\ Retrying /\ [Next]_vars => Retrying'
<1> SUFFICES ASSUME TypeOK, Safe, Retrying, [Next]_vars PROVE Retrying'
  OBVIOUS
<1>1. CASE \E c \in Conns : ClientStep(c)
  BY <1>1, ClientStepRetrying
<1>2. CASE \E t \in Transports : Receive(t)
  BY <1>2, ReceiveRetrying
<1>3. CASE \/ \E t \in Transports : DropTransport(t)
           \/ TakeQueue \/ Update \/ Handle \/ UNCHANGED vars
  <2>1. UNCHANGED <<receiver, inbox, delivered, sent>>
    BY <1>3 DEF DropTransport, TakeQueue, Update, Handle, HandleConnect,
                HandleDisconnect, HandleSetFlags, HandleSystem, AskForInfo,
                vars, threadVars, clientVars, history
  <2>2. QED
    BY <2>1, RetryingFrame
<1>4. QED
  BY <1>1, <1>2, <1>3 DEF Next

\* What waits is unsent in every behaviour.
THEOREM RetryingInductive == Spec => []Retrying
<1>1. Init => Retrying
  BY InitRetrying
<1>2. TypeOK /\ Safe /\ Retrying /\ [Next]_vars => Retrying'
  BY NextRetrying
<1>3. QED
  BY <1>1, <1>2, Inductive, PTL DEF Spec

\* What waits for another try has not been transmitted, and has been tried once
\* at most (ReceiveThreadFunc, transportThread.cpp:65).
THEOREM RetriedAreUnsent == Spec => []RetriesOnlyUnsent
<1>1. TypeOK /\ Retrying => RetriesOnlyUnsent
  <2> SUFFICES ASSUME TypeOK, Retrying, NEW t \in Transports, NEW m \in Waiting(t)
               PROVE  m.n \notin delivered /\ m.tries <= 1
    BY DEF RetriesOnlyUnsent
  <2> DEFINE r == receiver[t]
  <2>1. /\ r \in Receivers /\ r.queue \in Seq(Message) /\ r.retry \in Seq(Message)
        /\ r.number \in Nat
    BY DEF TypeOK, Receivers
  <2>2. \/ \E i \in 1..Len(r.retry) : m = r.retry[i]
        \/ \E i \in 1..Len(r.queue) : m = r.queue[i] /\ i >= r.number
    <3>1. \A s \in Seq(Message) : ToSet(s) = {s[i] : i \in 1..Len(s)}
      BY DEF ToSet
    <3>2. CASE m \in ToSet(r.retry)
      BY <2>1, <3>1, <3>2
    <3>3. CASE r.step = "read" /\ m \in ToSet(r.queue)
      <4>1. r.number = 0
        BY <3>3 DEF Retrying, Tries, Active
      <4>2. PICK i \in 1..Len(r.queue) : m = r.queue[i]
        BY <2>1, <3>1, <3>3
      <4>3. i >= r.number
        BY <4>1
      <4>4. QED
        BY <4>2, <4>3
    <3>4. CASE m \in {r.queue[i] : i \in (r.number + 1)..Len(r.queue)}
      <4>1. PICK i \in (r.number + 1)..Len(r.queue) : m = r.queue[i]
        BY <3>4
      <4>2. i \in 1..Len(r.queue) /\ i >= r.number
        BY <2>1
      <4>3. QED
        BY <4>1, <4>2
    <3>5. QED
      BY <3>2, <3>3, <3>4 DEF Waiting
  <2>3. m.tries <= 1
    BY <2>2 DEF Retrying, Tries
  <2>4. \E p \in Holding(t) : MessageAt(t, p) = m
    <3>1. CASE \E i \in 1..Len(r.retry) : m = r.retry[i]
      <4>1. PICK i \in 1..Len(r.retry) : m = r.retry[i]
        BY <3>1
      <4>2. <<"retry", i>> \in Holding(t) /\ MessageAt(t, <<"retry", i>>) = m
        BY <4>1 DEF Holding, Held, MessageAt, At
      <4>3. QED
        BY <4>2
    <3>2. CASE \E i \in 1..Len(r.queue) : m = r.queue[i] /\ i >= r.number
      <4>1. PICK i \in 1..Len(r.queue) : m = r.queue[i] /\ i >= r.number
        BY <3>2
      <4>2. <<"queue", i>> \in Holding(t) /\ MessageAt(t, <<"queue", i>>) = m
        BY <4>1 DEF Holding, Held, MessageAt, At
      <4>3. QED
        BY <4>2
    <3>3. QED
      BY <2>2, <3>1, <3>2
  <2>5. QED
    BY <2>3, <2>4 DEF Retrying, Unsent
<1>2. QED
  BY <1>1, Inductive, RetryingInductive, PTL
=============================================================================
