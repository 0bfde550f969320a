------------------------------ MODULE UriProofs ------------------------------
(***************************************************************************)
(* Proofs about Uri: for any number of tools, links, requests and chunks,  *)
(* a service is given exactly the post data of the request it answers, and *)
(* a client reads exactly what a service wrote.                            *)
(*                                                                         *)
(* Neither is a fact about one block or one call: the client does not look *)
(* at which block it is offered, and an answer may be one to a request it  *)
(* has given up.  Post data is whole because every block is pushed for one *)
(* request, and no more than one chunk of it is in each place; a response  *)
(* is because everything on the way to a client that could end its read    *)
(* tells data that a service wrote.                                        *)
(***************************************************************************)
EXTENDS TransferProofs, SequenceTheorems

-----------------------------------------------------------------------------
(* Post data, on its way from a client to a service.                       *)

PushCalls == {"PushStatus", "Write", "PushResult"}

\* The chunks of the n-th request, from the first on.
Line(data, n) == \A i \in 1..Len(data) : data[i] = <<n, i>>

\* A chunk that waits has the place after those that were written.
Chunks(in, n, k) == \A i \in 1..Len(in) :
  in[i].command = "TransferDataChunk" => in[i].data = <<<<n, k + i>>>>

OffersFollow(f) == \A b \in BlockIds : b > opened \/ InOffers(Offers, b) => f[b] = 0

LinkFollows(f, l) ==
  /\ Wants[l] # NoBlock => f[Wants[l]] # 0
  /\ transfers[l].state \in Pushes =>
       LET b == transfers[l].block
       IN  Line(blocks[b].data, f[b]) /\ Chunks(upload[l], f[b], transfers[l].done)

PendingFollows(f, b) ==
  b # NoBlock =>
    /\ b <= opened /\ Line(blocks[b].data, f[b])
    /\ f[b] = 0 => blocks[b].data = <<>>

Posts(u) ==
  u.call \in {"PostResponse"} \cup PushCalls =>
    u.n \in 1..Len(posted) /\ u.size = posted[u.n]

AskerFollows(f, u) ==
  u.call \in PushCalls =>
    LET l == u.link IN
    /\ u.block \in BlockIds /\ f[u.block] = u.n /\ Wants[l] \in {NoBlock, u.block}
    /\ transfers[l].state \in Pushes =>
         /\ u.call = "PushStatus" => upload[l] = <<>> /\ transfers[l].done = 0
         /\ u.call = "Write" => u.size - u.left = transfers[l].done + Len(upload[l])

RequestFollows(f, p) ==
  p.command = "URIRequest" =>
    /\ p.n \in 1..Len(posted) /\ p.size = posted[p.n]
    /\ IF p.block = NoBlock \/ p.size = 0 THEN p.data = Content(p.n, p.size)
       ELSE f[p.block] = p.n

\* f says for which request a block is pushed.
Follow(f) ==
  /\ OffersFollow(f)
  /\ \A l \in Links : LinkFollows(f, l)
  /\ \A t \in Askers : PendingFollows(f, serving[t].pending)
  /\ \A t \in Askers : AskerFollows(f, uri[t])
  /\ \A t \in Askers : \A i \in 1..Len(toUri[t]) : RequestFollows(f, toUri[t][i])

PostsOK ==
  /\ \A t \in Askers : Posts(uri[t])
  /\ \A t \in Askers : \A i \in 1..Len(Offers[t]) :
       Offers[t][i].result = "Success" => Offers[t][i].block # NoBlock
  /\ \A s \in served : s.n \in 1..Len(posted) /\ s.data = Content(s.n, posted[s.n])
  /\ \E f \in [BlockIds -> 0..MaxRequests] : Follow(f)

-----------------------------------------------------------------------------
(* Responses, on their way to a client.                                    *)

Told(t) == {d \in Bytes : \E a \in answers :
  a.data = d /\ (uri[t].open /\ ~uri[t].late => a.n = uri[t].n)}

Fair(p, D) ==
  /\ p.command = "TransferDataSentinel" /\ p.result = "Success" => p.data \in D
  /\ p.command = "TransferDataHeader" /\ p.size = 0 => <<>> \in D

Tells(s, in, out, bs, D) ==
  /\ \A i \in 1..Len(out) : Fair(out[i], D)
  /\ Fair(s.payload, D)
  /\ s.state \in Pulls => s.crc \in D
  /\ \A i \in 1..Len(in) : in[i].command = "PullRequest" =>
       /\ in[i].block \in BlockIds
       /\ bs[in[i].block].closed /\ bs[in[i].block].data \in D

Piped(t) ==
  /\ uri[t].open => serving[t].open
  /\ ~serving[t].open => toUri[t] = <<>> /\ Offers[t] = <<>>
  /\ ~uri[t].open => uri[t].call = "None" /\ uri[t].link = NoLink /\ ~uri[t].whole
  /\ uri[t].link # NoLink => uri[t].call \in LinkCalls \/ uri[t].state = "ReadResponse"
  /\ uri[t].state = "ReadResponse" => uri[t].call \in {"None", "Sentinel"}
  /\ uri[t].call \in Waits \ {"Abort"} \/ uri[t].state = "ReadResponse" =>
       ~uri[t].whole /\ uri[t].received = <<>>
  /\ uri[t].open /\ ~uri[t].late =>
       /\ Len(toUri[t]) + Len(Offers[t]) <= 1
       /\ uri[t].call \notin {"PostResponse", "Response"} =>
            toUri[t] = <<>> /\ Offers[t] = <<>>
       /\ \A i \in 1..Len(toUri[t]) :
            toUri[t][i].command = "URIRequest" => toUri[t][i].n = uri[t].n

\* A response that is offered is in its block.
OffersTold(p, bs, D) ==
  p.command = "URIResponse" /\ p.result = "Success" =>
    p.block \in BlockIds /\ bs[p.block].closed /\ bs[p.block].data \in D

AnswerOK(t) ==
  /\ Piped(t)
  /\ \A i \in 1..Len(Offers[t]) : OffersTold(Offers[t][i], blocks, Told(t))
  /\ uri[t].link # NoLink =>
       LET l == uri[t].link
       IN  Tells(transfers[l], upload[l], download[l], blocks, Told(t))
  /\ uri[t].whole => uri[t].received \in Told(t)

AnswersOK == \A t \in Askers : AnswerOK(t)

-----------------------------------------------------------------------------
(* Lines of chunks.                                                        *)

\* Nothing is in line with everything.
LEMMA EmptyLine ==
  ASSUME NEW n, NEW k
  PROVE  Line(<<>>, n) /\ Chunks(<<>>, n, k)
  BY DEF Line, Chunks

\* The chunk that waits first is the next of its line.
LEMMA LineGrows ==
  ASSUME NEW data \in Bytes, NEW p \in TransferPayloads, NEW n, NEW k \in Nat,
         Line(data, n), Len(data) = k, Len(p.data) = 1, p.data = <<<<n, k + 1>>>>
  PROVE  Line(data \o p.data, n)
<1> DEFINE one == <<n, k + 1>>
           s == data \o <<one>>
<1>1. Len(s) = k + 1 /\ s[k + 1] = one /\ \A i \in 1..k : s[i] = data[i]
  BY DEF Bytes
<1>2. s = data \o p.data
  OBVIOUS
<1> HIDE DEF s
<1>3. \A i \in 1..Len(s) : s[i] = <<n, i>>
  <2>1. \A i \in 1..(k + 1) : i = k + 1 \/ i \in 1..k
    OBVIOUS
  <2>2. QED
    BY <1>1, <2>1 DEF Line
<1>4. QED
  BY <1>2, <1>3 DEF Line

\* The others move up.
LEMMA ChunksShift ==
  ASSUME NEW in \in Wire, NEW n, NEW k \in Nat, in # <<>>, Chunks(in, n, k)
  PROVE  Chunks(Tail(in), n, k + 1)
<1> DEFINE s == Tail(in)
<1>1. Len(s) = Len(in) - 1 /\ Len(in) \in Nat /\ \A i \in 1..Len(s) : s[i] = in[i + 1]
  BY DEF Wire
<1> HIDE DEF s
<1>2. ASSUME NEW i \in 1..Len(s), s[i].command = "TransferDataChunk"
      PROVE  s[i].data = <<<<n, (k + 1) + i>>>>
  <2>1. i + 1 \in 1..Len(in) /\ k + (i + 1) = (k + 1) + i
    BY <1>1
  <2>2. s[i] = in[i + 1]
    BY <1>1
  <2>3. in[i + 1].data = <<<<n, k + (i + 1)>>>>
    BY <1>2, <2>1, <2>2 DEF Chunks
  <2>4. QED
    BY <2>1, <2>2, <2>3
<1>3. QED
  BY <1>2 DEF Chunks, s

\* A payload joins them that has its place.
LEMMA ChunksAppend ==
  ASSUME NEW in \in Wire, NEW p \in TransferPayloads, NEW n, NEW k \in Nat,
         Chunks(in, n, k),
         p.command = "TransferDataChunk" => p.data = <<<<n, k + Len(in) + 1>>>>
  PROVE  Chunks(Append(in, p), n, k)
<1> DEFINE s == Append(in, p)
           m == Len(in)
<1>1. m \in Nat /\ Len(s) = m + 1 /\ s[m + 1] = p /\ \A i \in 1..m : s[i] = in[i]
  BY DEF Wire
<1>2. k + (m + 1) = k + m + 1
  BY <1>1
<1> HIDE DEF s
<1>3. ASSUME NEW i \in 1..Len(s), s[i].command = "TransferDataChunk"
      PROVE  s[i].data = <<<<n, k + i>>>>
  <2>1. CASE i = m + 1
    BY <1>1, <1>2, <1>3, <2>1
  <2>2. CASE i # m + 1
    <3>1. i \in 1..m
      BY <1>1, <2>2
    <3>2. QED
      BY <1>1, <1>3, <3>1 DEF Chunks
  <2>3. QED
    BY <2>1, <2>2
<1>4. QED
  BY <1>3 DEF Chunks, s

-----------------------------------------------------------------------------
(* What an update of a transfer session changes, and what it leaves.       *)

\* An update of l from r to q, and what the invariant says of it.
UpdatesLink(l, r, q) ==
  /\ r = Before(l) /\ q = After(r) /\ Meets(r)
  /\ r.s = transfers[l] /\ r.in = upload[l] /\ r.out = download[l]
  /\ r.bs = blocks /\ Ready(r.s, r.in, r.out)
  /\ Goes(r, q) /\ Changes(r, q)
  /\ transfers'[l] = q.s /\ upload'[l] = q.in /\ download'[l] = q.out
  /\ blocks' = q.bs
  /\ \A k \in Links : k # l =>
       /\ transfers'[k] = transfers[k] /\ upload'[k] = upload[k]
       /\ download'[k] = download[k] /\ Wants'[k] = Wants[k]
  /\ Wants'[l] \in {Wants[l], NoBlock}
  /\ r.s.state \in Pushes => Wants[l] = r.s.block
  /\ r.in # <<>> /\ Head(r.in).command = "PushRequest"
       /\ Head(r.in).block \in BlockIds => Untouched(r.bs[Head(r.in).block])
  /\ \A b \in BlockIds :
       \/ SameContent(r.bs, q.bs, b)
       \/ b = r.s.block /\ r.s.state \in Pushes

\* An update of a transfer session is one of these.
LEMMA UpdateIs ==
  ASSUME Inv, NEW l \in Links, UpdateTransfer(l), UNCHANGED uriVars
  PROVE  \E r, q \in Work : UpdatesLink(l, r, q)
<1> DEFINE r == Before(l)
           q == After(r)
<1>1. /\ transfers[l].state # "None"
      /\ transfers' = [transfers EXCEPT ![l] = q.s]
      /\ upload' = [upload EXCEPT ![l] = q.in]
      /\ download' = [download EXCEPT ![l] = q.out]
      /\ blocks' = q.bs
  BY DEF UpdateTransfer
<1>2. /\ Meets(r) /\ Ready(r.s, r.in, r.out)
      /\ r.s = transfers[l] /\ r.in = upload[l] /\ r.out = download[l] /\ r.bs = blocks
      /\ r.in # <<>> /\ Head(r.in).command = "PushRequest"
            /\ Head(r.in).block \in BlockIds =>
              Untouched(r.bs[Head(r.in).block])
  BY <1>1, BeforeMeets
<1>3. /\ Goes(r, q) /\ Changes(r, q)
      /\ r.in # <<>> /\ r.s.state = "Idle" => q.in = Tail(r.in)
  BY <1>2, AfterIs
<1> HIDE DEF q, r
<1>4. q \in Work /\ r \in Work
  BY <1>2, <1>3 DEF Goes, Meets
<1>5. /\ transfers \in [Links -> TransferSessions]
      /\ upload \in [Links -> Wire] /\ download \in [Links -> Wire]
  BY InvParts
<1>6. /\ transfers'[l] = q.s /\ upload'[l] = q.in /\ download'[l] = q.out
      /\ \A k \in Links : k # l => /\ transfers'[k] = transfers[k]
                                   /\ upload'[k] = upload[k] /\ download'[k] = download[k]
  BY <1>1, <1>5
<1>7. Wanted(q.s, q.in) \in {Wanted(r.s, r.in), NoBlock}
  BY <1>2, <1>3, UpdateWanted
<1>8. Wants[l] = Wanted(r.s, r.in) /\ Wants'[l] = Wanted(q.s, q.in)
      /\ \A k \in Links : k # l => Wants'[k] = Wants[k]
  BY <1>2, <1>6 DEF Wants
<1>9. r.s.state \in Pushes => Wants[l] = r.s.block
  BY <1>8 DEF Wanted
<1>10. \A b \in BlockIds :
         /\ b # r.s.block /\ b # q.s.block => q.bs[b] = r.bs[b]
         /\ \/ SameContent(r.bs, q.bs, b)
            \/ b = r.s.block /\ r.s.state \in Pushes
         /\ Len(q.bs[b].data) <= MaxSize
  BY <1>2, <1>3, UpdateContent
<1>11. r = Before(l) /\ q = After(r)
  BY DEF r, q
<1>12. UpdatesLink(l, r, q)
  BY <1>1, <1>2, <1>3, <1>6, <1>7, <1>8, <1>9, <1>10, <1>11 DEF UpdatesLink
<1>13. QED
  BY <1>4, <1>12

\* Two links do not push the same block.
LEMMA PushesApart ==
  ASSUME Inv, NEW k \in Links, NEW l \in Links, k # l,
         transfers[k].state \in Pushes, transfers[l].state \in Pushes
  PROVE  transfers[k].block # transfers[l].block
<1>1. Wants[k] = transfers[k].block /\ Wants[l] = transfers[l].block
  BY DEF Wants, Wanted
<1>2. transfers[k].block # NoBlock
  BY DEF Inv, LinksOK, Sound
<1>3. Once(Offers, Wants, opened)
  BY DEF Inv
<1>4. QED
  BY <1>1, <1>2, <1>3 DEF Once

-----------------------------------------------------------------------------
(* Post data, and the updates of transfer sessions.                        *)

\* The requests of which a block may be the data, and what is said of them.
Plans == [BlockIds -> 0..MaxRequests]

\* The first of a sequence, and the others.
LEMMA TailIs ==
  ASSUME NEW S, NEW s \in Seq(S), s # <<>>
  PROVE  /\ 1 \in 1..Len(s) /\ s[1] = Head(s) /\ Head(s) \in S
         /\ Len(s) \in Nat /\ Len(Tail(s)) = Len(s) - 1 /\ Tail(s) \in Seq(S)
         /\ Len(s) = 1 => Tail(s) = <<>>
  OBVIOUS

\* What moves from one count to another.
LEMMA OneMoves ==
  ASSUME NEW d \in Nat, NEW m \in Nat
  PROVE  (d + 1) + (m - 1) = d + m
  OBVIOUS

\* A block that is taken over is empty, and its chunks are yet to come.
LEMMA JoinsEmpty ==
  ASSUME NEW l \in Links, NEW r \in Work, NEW q \in Work, UpdatesLink(l, r, q), Joins(r, q)
  PROVE  /\ q.in = <<>> /\ Asking(r.in)
         /\ q.s.state \in Pushes => q.bs[q.s.block].data = <<>> /\ q.s.done = 0
<1>1. /\ Ready(r.s, r.in, r.out) /\ r.in \in Wire
      /\ r.in # <<>> /\ Head(r.in).command = "PushRequest"
           /\ Head(r.in).block \in BlockIds => Untouched(r.bs[Head(r.in).block])
  BY WorkParts DEF UpdatesLink
<1>2. r.in # <<>> /\ q.in = Tail(r.in) /\ IsRequest(Head(r.in))
  BY DEF Joins
<1>3. 1 \in 1..Len(r.in) /\ r.in[1] = Head(r.in)
  BY <1>1, <1>2 DEF Wire
<1>4. Len(r.in) = 1 /\ Asking(r.in)
  BY <1>1, <1>2, <1>3 DEF Ready, Asking
<1>5. q.in = <<>>
  BY <1>1, <1>2, <1>4, TailIs DEF Wire
<1>6. ASSUME q.s.state \in Pushes
      PROVE  q.bs[q.s.block].data = <<>> /\ q.s.done = 0
  <2> DEFINE b == Head(r.in).block
  <2>1. /\ b \in BlockIds /\ q.s.block = b /\ q.bs[b].data = r.bs[b].data
        /\ Head(r.in).command = "PushRequest" /\ ~r.bs[b].closed /\ q.s.done = 0
    BY <1>6 DEF Joins
  <2>2. Untouched(r.bs[b])
    BY <1>1, <1>2, <2>1
  <2>3. QED
    BY <2>1, <2>2 DEF Untouched
<1>7. QED
  BY <1>4, <1>5, <1>6

\* What is pushed on the link stays in line.
LEMMA UpdatedLink ==
  ASSUME NEW l \in Links, NEW r \in Work, NEW q \in Work, UpdatesLink(l, r, q),
         NEW f \in Plans, LinkFollows(f, l)
  PROVE  LinkFollows(f, l)'
<1>1. /\ r.s = transfers[l] /\ r.in = upload[l] /\ r.bs = blocks
      /\ transfers'[l] = q.s /\ upload'[l] = q.in /\ blocks' = q.bs
      /\ Wants'[l] \in {Wants[l], NoBlock} /\ Changes(r, q) /\ Meets(r)
      /\ r.in \in Wire /\ r.bs \in Cells /\ q.bs \in Cells /\ r.s \in TransferSessions
  BY WorkParts DEF UpdatesLink
<1>2. Wants'[l] # NoBlock => f[Wants'[l]] # 0
  BY <1>1 DEF LinkFollows
<1>3. r.s.state \in Pushes => /\ Line(r.bs[r.s.block].data, f[r.s.block])
                              /\ Chunks(r.in, f[r.s.block], r.s.done)
  BY <1>1 DEF LinkFollows
<1>4. ASSUME q.s.state \in Pushes
      PROVE  /\ Line(q.bs[q.s.block].data, f[q.s.block])
             /\ Chunks(q.in, f[q.s.block], q.s.done)
  <2>1. CASE Keeps(r, q)
    BY <1>3, <1>4, <2>1 DEF Keeps
  <2>2. CASE Leaves(r, q)
    BY <1>4, <2>2, GroupsApart DEF Leaves
  <2>3. CASE Joins(r, q)
    <3>1. q.in = <<>> /\ q.bs[q.s.block].data = <<>>
      BY <1>4, <2>3, JoinsEmpty
    <3>2. QED
      BY <3>1, EmptyLine
  <2>4. CASE TakesChunk(r, q)
    <3> DEFINE b == r.s.block
               p == Head(r.in)
               k == r.s.done
               n == f[b]
    <3>1. /\ r.s.state \in Pushes /\ q.s.block = b /\ r.in # <<>> /\ q.in = Tail(r.in)
          /\ q.s.done = k + 1 /\ q.bs[b].data = r.bs[b].data \o p.data
          /\ p.command = "TransferDataChunk"
      BY <2>4 DEF TakesChunk, Pushes
    <3>2. b # NoBlock /\ Len(r.bs[b].data) = k /\ Len(p.data) = 1
      BY <1>1, <3>1 DEF Meets, Sound
    <3>3. b \in BlockIds
      BY <1>1, <3>2, Bounds DEF TransferSessions
    <3>4. /\ p \in TransferPayloads /\ k \in Nat /\ r.bs[b].data \in Bytes
          /\ 1 \in 1..Len(r.in) /\ r.in[1] = p
      <4>1. k \in Nat /\ r.bs[b].data \in Bytes
        BY <1>1, <3>3, Bounds DEF TransferSessions, Cells
      <4>2. QED
        BY <1>1, <3>1, <4>1, TailIs DEF Wire
    <3>5. Line(r.bs[b].data, n) /\ Chunks(r.in, n, k)
      BY <1>3, <3>1
    <3>6. p.data = <<<<n, k + 1>>>>
      <4>1. k + 1 \in Nat
        BY <3>4
      <4>2. QED
        BY <3>1, <3>4, <3>5, <4>1 DEF Chunks
    <3> HIDE DEF b, p, k, n
    <3>7. Line(r.bs[b].data \o p.data, n)
      BY <3>2, <3>4, <3>5, <3>6, LineGrows
    <3>8. Chunks(Tail(r.in), n, k + 1)
      BY <1>1, <3>1, <3>4, <3>5, ChunksShift
    <3>9. QED
      BY <3>1, <3>7, <3>8 DEF n
  <2>5. QED
    BY <1>1, <2>1, <2>2, <2>3, <2>4 DEF Changes
<1>5. QED
  BY <1>1, <1>2, <1>4 DEF LinkFollows

\* So does the data of every block.
LEMMA UpdatedBlock ==
  ASSUME NEW l \in Links, NEW r \in Work, NEW q \in Work, UpdatesLink(l, r, q),
         NEW f \in Plans, LinkFollows(f, l), NEW b \in BlockIds, Line(blocks[b].data, f[b])
  PROVE  /\ Line(blocks'[b].data, f[b])
         /\ f[b] = 0 => blocks'[b].data = blocks[b].data
<1>1. /\ r.s = transfers[l] /\ r.in = upload[l] /\ r.bs = blocks
      /\ transfers'[l] = q.s /\ blocks' = q.bs /\ Changes(r, q) /\ Meets(r)
      /\ \/ SameContent(r.bs, q.bs, b)
         \/ b = r.s.block /\ r.s.state \in Pushes
      /\ r.s.state \in Pushes => Wants[l] = r.s.block
  BY DEF UpdatesLink
<1>2. CASE SameContent(r.bs, q.bs, b)
  BY <1>1, <1>2 DEF SameContent
<1>3. CASE b = r.s.block /\ r.s.state \in Pushes
  <2>1. b # NoBlock /\ f[b] # 0
    BY <1>1, <1>3, Bounds DEF LinkFollows
  <2>2. CASE Keeps(r, q)
    BY <1>1, <2>1, <2>2 DEF Keeps
  <2>3. CASE Leaves(r, q)
    <3>1. q.bs[b].data \in {r.bs[b].data, <<>>}
      BY <1>3, <2>3 DEF Leaves
    <3>2. QED
      BY <1>1, <2>1, <3>1, EmptyLine
  <2>4. CASE Joins(r, q)
    BY <1>3, <2>4, GroupsApart DEF Joins, Pushes
  <2>5. CASE TakesChunk(r, q)
    <3>1. q.s.block = b /\ q.s.state \in Pushes
      BY <1>3, <2>5 DEF TakesChunk, Pushes
    <3>2. LinkFollows(f, l)'
      BY UpdatedLink
    <3>3. QED
      BY <1>1, <2>1, <3>1, <3>2 DEF LinkFollows
  <2>6. QED
    BY <1>1, <2>2, <2>3, <2>4, <2>5 DEF Changes
<1>4. QED
  BY <1>1, <1>2, <1>3

\* A call that writes is as far as what it wrote.
LEMMA UpdatedAsker ==
  ASSUME Inv, NEW l \in Links, NEW r \in Work, NEW q \in Work, UpdatesLink(l, r, q),
         UNCHANGED uriVars, NEW f \in Plans, NEW t \in Askers, AskerFollows(f, uri[t])
  PROVE  AskerFollows(f, uri[t])'
<1> DEFINE u == uri[t]
<1>1. uri'[t] = u
  BY DEF uriVars
<1>2. SUFFICES ASSUME u.call \in PushCalls
               PROVE  AskerFollows(f, u)'
  BY <1>1 DEF AskerFollows
<1>3. /\ u.block \in BlockIds /\ f[u.block] = u.n /\ Wants[u.link] \in {NoBlock, u.block}
      /\ transfers[u.link].state \in Pushes =>
           /\ u.call = "PushStatus" => upload[u.link] = <<>> /\ transfers[u.link].done = 0
           /\ u.call = "Write" => u.size - u.left = transfers[u.link].done + Len(upload[u.link])
  BY <1>2 DEF AskerFollows
<1>4. /\ u \in Uris /\ u.link \in Links
      /\ Asking(upload[u.link]) => u.call \in {"PushStatus", "PullHeader"}
  <2>1. u \in Uris /\ u.link \in Links \cup {NoLink} /\ OnLink(u, context, upload)
    BY UrisTyped DEF Inv, AskersOK
  <2>2. QED
    BY <1>2, <2>1 DEF OnLink, PushCalls, LinkCalls
<1>5. CASE u.link # l
  <2>1. /\ transfers'[u.link] = transfers[u.link] /\ upload'[u.link] = upload[u.link]
        /\ Wants'[u.link] = Wants[u.link]
    BY <1>4, <1>5 DEF UpdatesLink
  <2>2. QED
    BY <1>1, <1>3, <2>1 DEF AskerFollows
<1>6. CASE u.link = l
  <2>1. /\ r.s = transfers[l] /\ r.in = upload[l]
        /\ transfers'[l] = q.s /\ upload'[l] = q.in /\ Changes(r, q)
        /\ Wants'[l] \in {Wants[l], NoBlock}
        /\ r.in \in Wire /\ r.s \in TransferSessions
    BY WorkParts DEF UpdatesLink
  <2>2. ASSUME q.s.state \in Pushes
        PROVE  /\ u.call = "PushStatus" => q.in = <<>> /\ q.s.done = 0
               /\ u.call = "Write" => u.size - u.left = q.s.done + Len(q.in)
    <3>1. CASE Keeps(r, q)
      BY <1>3, <1>6, <2>1, <2>2, <3>1 DEF Keeps
    <3>2. CASE Leaves(r, q)
      BY <2>2, <3>2, GroupsApart DEF Leaves
    <3>3. CASE Joins(r, q)
      <4>1. q.in = <<>> /\ q.s.done = 0 /\ Asking(r.in)
        BY <2>2, <3>3, JoinsEmpty
      <4>2. u.call # "Write"
        BY <1>4, <1>6, <2>1, <4>1
      <4>3. QED
        BY <4>1, <4>2
    <3>4. CASE TakesChunk(r, q)
      <4>1. /\ r.s.state \in Pushes /\ r.in # <<>> /\ q.in = Tail(r.in)
            /\ q.s.done = r.s.done + 1
        BY <3>4 DEF TakesChunk, Pushes
      <4>2. /\ u.call = "PushStatus" => r.in = <<>>
            /\ u.call = "Write" => u.size - u.left = r.s.done + Len(r.in)
        BY <1>3, <1>6, <2>1, <4>1
      <4>3. Len(q.in) = Len(r.in) - 1 /\ Len(r.in) \in Nat /\ r.s.done \in Nat
        <5>1. r.s.done \in Nat
          BY <2>1, Bounds DEF TransferSessions
        <5>2. QED
          BY <2>1, <4>1, <5>1, TailIs DEF Wire
      <4>4. q.s.done + Len(q.in) = r.s.done + Len(r.in)
        BY <4>1, <4>3, OneMoves
      <4>5. QED
        BY <4>1, <4>2, <4>4
    <3>5. QED
      BY <2>1, <3>1, <3>2, <3>3, <3>4 DEF Changes
  <2>3. QED
    BY <1>1, <1>3, <1>6, <2>1, <2>2 DEF AskerFollows
<1>7. QED
  BY <1>5, <1>6

\* An update of a transfer session keeps every block on its request.
LEMMA FollowUpdate ==
  ASSUME Inv, NEW l \in Links, UpdateTransfer(l), UNCHANGED uriVars,
         NEW f \in Plans, Follow(f)
  PROVE  Follow(f)'
<1>1. PICK r \in Work, q \in Work : UpdatesLink(l, r, q)
  BY UpdateIs
<1>2. /\ opened' = opened /\ Offers' = Offers /\ uri' = uri /\ serving' = serving
      /\ toUri' = toUri /\ posted' = posted
  BY DEF UpdateTransfer, uriVars, Offers
<1>3. OffersFollow(f) /\ LinkFollows(f, l)
  BY DEF Follow
<1>4. OffersFollow(f)'
  BY <1>2, <1>3 DEF OffersFollow
<1>5. ASSUME NEW k \in Links
      PROVE  LinkFollows(f, k)'
  <2>1. CASE k = l
    BY <1>1, <1>3, <2>1, UpdatedLink
  <2>2. CASE k # l
    <3>1. LinkFollows(f, k)
      BY DEF Follow
    <3>2. /\ transfers'[k] = transfers[k] /\ upload'[k] = upload[k] /\ Wants'[k] = Wants[k]
          /\ r.s = transfers[l] /\ r.bs = blocks /\ blocks' = q.bs
          /\ \A b \in BlockIds : \/ SameContent(r.bs, q.bs, b)
                                 \/ b = r.s.block /\ r.s.state \in Pushes
      BY <1>1, <2>2 DEF UpdatesLink
    <3>3. ASSUME transfers[k].state \in Pushes
          PROVE  blocks'[transfers[k].block].data = blocks[transfers[k].block].data
      <4>1. transfers[k].block \in BlockIds
        <5>1. transfers[k] \in TransferSessions /\ Sound(transfers[k], blocks)
          BY InvParts DEF Inv, LinksOK
        <5>2. QED
          BY <3>3, <5>1, Bounds DEF Sound, TransferSessions
      <4>2. transfers[l].state \in Pushes => transfers[k].block # transfers[l].block
        BY <2>2, <3>3, PushesApart
      <4>3. QED
        BY <3>2, <4>1, <4>2 DEF SameContent
    <3>4. QED
      BY <3>1, <3>2, <3>3 DEF LinkFollows
  <2>3. QED
    BY <2>1, <2>2
<1>6. ASSUME NEW t \in Askers
      PROVE  PendingFollows(f, serving[t].pending)'
  <2> DEFINE b == serving[t].pending
  <2>1. SUFFICES ASSUME b # NoBlock
                 PROVE  /\ b <= opened /\ Line(blocks'[b].data, f[b])
                        /\ f[b] = 0 => blocks'[b].data = <<>>
    BY <1>2 DEF PendingFollows
  <2>2. /\ b <= opened /\ Line(blocks[b].data, f[b])
        /\ f[b] = 0 => blocks[b].data = <<>>
    BY <2>1 DEF Follow, PendingFollows
  <2>3. b \in BlockIds
    <3>1. serving[t] \in Servings
      BY UrisTyped
    <3>2. QED
      BY <2>1, <3>1, Bounds DEF Servings
  <2>4. QED
    BY <1>1, <1>3, <2>2, <2>3, UpdatedBlock
<1>7. ASSUME NEW t \in Askers
      PROVE  AskerFollows(f, uri[t])'
  BY <1>1, UpdatedAsker DEF Follow
<1>8. ASSUME NEW t \in Askers, NEW i \in 1..Len(toUri'[t])
      PROVE  RequestFollows(f, toUri[t][i])'
  BY <1>2 DEF Follow, RequestFollows
<1>9. QED
  BY <1>4, <1>5, <1>6, <1>7, <1>8 DEF Follow

-----------------------------------------------------------------------------
(* What an update of a URI session changes.                                *)

\* The first payload of t is received and answered with p.
HandsOn(t, p) ==
  /\ serving[t].open /\ serving'[t].open
  /\ toUri[t] # <<>> /\ toUri'[t] = Tail(toUri[t])
  /\ p \in UriPayloads /\ Offers'[t] = Append(Offers[t], p)

\* The service is given the post data of the first payload of t.
Gives(t) ==
  LET h == Head(toUri[t]) IN
  /\ h.command = "URIRequest" /\ AcceptsPostData(t, h)
  /\ served' = served \cup {[n |-> h.n, data |-> PostData(t, h)]}

\* A block for post data is offered.
Provides(t) ==
  \E p \in UriPayloads :
    /\ HandsOn(t, p) /\ p.command = "URIPostResponse" /\ p.block = opened'
    /\ opened' = opened + 1 /\ opened' \in BlockIds /\ blocks'[opened'].data = <<>>
    /\ serving'[t].pending = opened' /\ served' = served /\ answers' = answers

\* A request fails, perhaps after the service was asked.
Refuses(t) ==
  \E p \in UriPayloads :
    /\ HandsOn(t, p) /\ p.result = "Error" /\ p.block = NoBlock
    /\ serving'[t].pending \in {serving[t].pending, NoBlock}
    /\ served' = served \/ Gives(t)
    /\ answers' = answers

\* A response is written, and offered in its block.
Responds(t) ==
  \E p \in UriPayloads, data \in Bytes :
    /\ HandsOn(t, p) /\ p.block = opened'
    /\ opened' = opened + 1 /\ opened' \in BlockIds
    /\ blocks'[opened'].closed /\ blocks'[opened'].data = data
    /\ serving'[t].pending = NoBlock /\ Gives(t)
    /\ answers' = answers \cup {[n |-> Head(toUri[t]).n, data |-> data]}

\* A queued answer is sent.
Resumes(t) ==
  /\ toUri'[t] = toUri[t] /\ Offers'[t] = Offers[t]
  /\ serving'[t].open = serving[t].open /\ serving'[t].pending = serving[t].pending
  /\ served' = served /\ answers' = answers

\* The session ends.
Forgets(t) ==
  /\ ~uri[t].open /\ toUri'[t] = <<>> /\ Offers'[t] = <<>>
  /\ ~serving'[t].open /\ serving'[t].pending = NoBlock
  /\ served' = served /\ answers' = answers

Serves(t) ==
  /\ transfers' = transfers /\ upload' = upload /\ download' = download
  /\ context' = context /\ uri' = uri /\ posted' = posted
  /\ opened' \in Nat /\ opened <= opened'
  /\ \A b \in BlockIds : b <= opened => SameContent(blocks, blocks', b)
  /\ \A v \in Askers : v # t => /\ serving'[v] = serving[v] /\ toUri'[v] = toUri[v]
                                /\ Offers'[v] = Offers[v]
  /\ Resumes(t) \/ Provides(t) \/ Refuses(t) \/ Responds(t) \/ Forgets(t)

\* What an answer leaves of the others.
LEMMA ReceivesAre ==
  ASSUME Inv, NEW t \in Askers, NEW next \in Servings, NEW p \in UriPayloads,
         NEW command, ReceivesUri(t, command), Respond(t, next, p), next.open
  PROVE  /\ HandsOn(t, p) /\ serving'[t].pending = next.pending
         /\ transfers' = transfers /\ upload' = upload /\ download' = download
         /\ context' = context /\ uri' = uri /\ posted' = posted
         /\ \A v \in Askers : v # t => /\ serving'[v] = serving[v] /\ toUri'[v] = toUri[v]
                                       /\ Offers'[v] = Offers[v]
<1> DEFINE a == Tail(toUri[t])
           o == Append(Offers[t], p)
           s == [next EXCEPT !.queued = serving'[t].queued]
<1>1. /\ serving[t].queued = <<>> /\ serving[t].open /\ toUri[t] # <<>>
      /\ toUri' = [toUri EXCEPT ![t] = a]
      /\ UNCHANGED <<transfers, upload, download, context, uri, posted, timeouts>>
  BY DEF ReceivesUri, ServingKeeps
<1>2. /\ serving' \in [Askers -> Servings]
      /\ Offers' = [Offers EXCEPT ![t] = o]
      /\ serving' = [serving EXCEPT ![t] = s]
  BY <1>1, RespondIs
<1>3. s.open = next.open /\ s.pending = next.pending
  BY DEF Servings
<1> HIDE DEF a, o, s
<1>4. /\ toUri \in [Askers -> Seq(UriPayloads)] /\ serving \in [Askers -> Servings]
      /\ Offers \in OfferSets
  BY UrisTyped, OffersTyped DEF Inv
<1>5. /\ toUri'[t] = a /\ Offers'[t] = o /\ serving'[t] = s
      /\ \A v \in Askers : v # t => /\ serving'[v] = serving[v] /\ toUri'[v] = toUri[v]
                                    /\ Offers'[v] = Offers[v]
  BY <1>1, <1>2, <1>4 DEF OfferSets
<1>6. HandsOn(t, p)
  BY <1>1, <1>3, <1>5 DEF HandsOn, a, o
<1>7. QED
  BY <1>1, <1>3, <1>5, <1>6

\* SendQueued.
LEMMA SendQueuedServes ==
  ASSUME Inv, NEW t \in Askers, SendQueued(t)
  PROVE  Serves(t)
<1> DEFINE p == Head(serving[t].queued)
           e == <<>>
           f == Append(fromUri[t], p)
           s == [serving[t] EXCEPT !.queued = e]
<1>1. /\ serving[t].queued # <<>> /\ HasRoom(fromUri[t])
      /\ UNCHANGED <<transfers, upload, download, context, uri, posted, timeouts>>
      /\ blocks' = blocks /\ opened' = opened /\ toUri' = toUri
      /\ served' = served /\ answers' = answers
  BY DEF SendQueued, ServingKeeps
<1>2. fromUri' = [fromUri EXCEPT ![t] = f] /\ serving' = [serving EXCEPT ![t] = s]
  BY <1>1 DEF SendQueued, Respond
<1>3. /\ serving \in [Askers -> Servings]
      /\ fromUri \in [Askers -> Seq(UriPayloads)]
  BY ServingTyped DEF Inv
<1>4. /\ serving[t].queued \in Seq(UriPayloads) /\ Len(serving[t].queued) <= 1
      /\ serving[t] \in Servings
  BY <1>3 DEF Inv, AskersOK, Servings
<1>5. p \in UriPayloads /\ serving[t].queued = <<p>>
  BY <1>1, <1>4
<1>6. f \o e = fromUri[t] \o serving[t].queued
  <2>1. fromUri[t] \in Seq(UriPayloads)
    BY <1>3
  <2>2. Append(fromUri[t], p) \o <<>> = fromUri[t] \o <<p>>
    BY <1>5, <2>1, AppendTwo
  <2>3. QED
    BY <1>5, <2>2
<1> HIDE DEF f, e
<1>7. s.queued = e /\ s.open = serving[t].open /\ s.pending = serving[t].pending
  BY <1>4 DEF Servings
<1> HIDE DEF s, p
<1>8. /\ serving'[t] = s /\ fromUri'[t] = f
      /\ \A v \in Askers : v # t => serving'[v] = serving[v] /\ fromUri'[v] = fromUri[v]
  BY <1>2, <1>3
<1>9. Offers' = Offers
  BY <1>6, <1>7, <1>8 DEF Offers
<1>10. Resumes(t)
  BY <1>1, <1>7, <1>8, <1>9 DEF Resumes
<1>11. opened \in Nat /\ opened <= opened
  BY InvParts
<1>12. QED
  BY <1>1, <1>8, <1>9, <1>10, <1>11 DEF Serves, SameContent

\* HandlePostRequest.
LEMMA PostRequestServes ==
  ASSUME Inv, NEW t \in Askers, HandlePostRequest(t)
  PROVE  Serves(t)
<1> DEFINE b == opened + 1
<1>1. /\ ReceivesUri(t, "URIPostRequest") /\ PostBlock(t) = b
      /\ served' = served /\ answers' = answers
  BY DEF HandlePostRequest, PostBlock
<1>2. /\ blocks \in Cells /\ opened \in 0..MaxBlocks /\ opened \in Nat /\ opened < b
      /\ b \in Nat
  BY InvParts
<1>3. serving[t] \in Servings /\ serving[t].open
  BY <1>1, ServingTyped DEF Inv, ReceivesUri
<1>4. \A c \in BlockIds : c > opened => blocks[c] = NewBlock
  BY DEF Inv, Blank
<1>5. CASE /\ b <= MaxBlocks /\ opened' = IF b > opened THEN b ELSE opened
           /\ blocks' = OpenServerBlock(blocks, b)
           /\ Respond(t, [serving[t] EXCEPT !.pending = b], URIPostResponse("Success", b))
  <2> DEFINE next == [serving[t] EXCEPT !.pending = b]
             p == URIPostResponse("Success", b)
  <2>1. opened' = b /\ b \in BlockIds /\ b \in 0..MaxBlocks
    BY <1>2, <1>5, Bounds DEF BlockIds
  <2>2. next \in Servings /\ next.open /\ next.pending = b
    BY <1>3, <2>1 DEF Servings
  <2>3. p \in UriPayloads /\ p.block = b /\ p.command = "URIPostResponse"
    BY <2>1, AnswerTyped DEF Results, URIPostResponse, UriPayload
  <2>4. Respond(t, next, p)
    BY <1>5
  <2> HIDE DEF next, p
  <2>5. /\ blocks'[b].data = blocks[b].data
        /\ \A c \in BlockIds : c # b => blocks'[c] = blocks[c]
    BY <1>2, <1>5, <2>1, OpenIs
  <2>6. blocks'[b].data = <<>>
    BY <1>2, <1>4, <2>1, <2>5, NewBlockIs
  <2>7. \A c \in BlockIds : c <= opened => SameContent(blocks, blocks', c)
    BY <1>2, <2>5 DEF SameContent, BlockIds
  <2>8. /\ HandsOn(t, p) /\ serving'[t].pending = b
        /\ transfers' = transfers /\ upload' = upload /\ download' = download
        /\ context' = context /\ uri' = uri /\ posted' = posted
        /\ \A v \in Askers : v # t => /\ serving'[v] = serving[v] /\ toUri'[v] = toUri[v]
                                      /\ Offers'[v] = Offers[v]
    BY <1>1, <2>2, <2>3, <2>4, ReceivesAre
  <2>9. Provides(t)
    BY <1>1, <2>1, <2>3, <2>6, <2>8 DEF Provides
  <2>10. opened' \in Nat /\ opened <= opened'
    BY <1>2, <2>1
  <2>11. QED
    BY <2>7, <2>8, <2>9, <2>10 DEF Serves
<1>6. CASE /\ Respond(t, serving[t], URIPostResponse("Error", NoBlock))
           /\ UNCHANGED <<blocks, opened>>
  <2> DEFINE p == URIPostResponse("Error", NoBlock)
  <2>1. p \in UriPayloads /\ p.block = NoBlock /\ p.result = "Error"
    BY AnswerTyped, Bounds DEF Results, URIPostResponse, UriPayload
  <2> HIDE DEF p
  <2>2. Respond(t, serving[t], p)
    BY <1>6 DEF p
  <2>3. /\ HandsOn(t, p) /\ serving'[t].pending = serving[t].pending
        /\ transfers' = transfers /\ upload' = upload /\ download' = download
        /\ context' = context /\ uri' = uri /\ posted' = posted
        /\ \A v \in Askers : v # t => /\ serving'[v] = serving[v] /\ toUri'[v] = toUri[v]
                                      /\ Offers'[v] = Offers[v]
    BY <1>1, <1>3, <2>1, <2>2, ReceivesAre
  <2>4. Refuses(t)
    BY <1>1, <2>1, <2>3 DEF Refuses
  <2>5. opened' \in Nat /\ opened <= opened'
    BY <1>2, <1>6
  <2>6. QED
    BY <1>6, <2>3, <2>4, <2>5 DEF Serves, SameContent
<1>7. QED
  BY <1>1, <1>5, <1>6 DEF HandlePostRequest

\* ~URISession.
LEMMA TerminatedServes ==
  ASSUME Inv, NEW t \in Askers, UriTerminated(t)
  PROVE  Serves(t)
<1> DEFINE e == <<>>
           s == NoServing
           bs == CloseServerBlock(blocks, serving[t].response)
           cs == CloseServerBlock(bs, serving[t].pending)
<1>1. /\ blocks' = cs /\ ~uri[t].open
      /\ serving' = [serving EXCEPT ![t] = s]
      /\ toUri' = [toUri EXCEPT ![t] = e]
      /\ fromUri' = [fromUri EXCEPT ![t] = e]
      /\ UNCHANGED <<transfers, upload, download, context, uri, posted, timeouts>>
      /\ opened' = opened /\ served' = served /\ answers' = answers
  BY DEF UriTerminated, ServingKeeps
<1>2. /\ serving \in [Askers -> Servings]
      /\ fromUri \in [Askers -> Seq(UriPayloads)]
      /\ toUri \in [Askers -> Seq(UriPayloads)]
  BY ServingTyped DEF Inv
<1>3. s.queued = e /\ ~s.open /\ s.pending = NoBlock
  BY DEF NoServing
<1>4. e \o e = e
  OBVIOUS
<1>5. /\ blocks \in Cells /\ opened \in Nat
      /\ \A c \in BlockIds : c > opened => blocks[c] = NewBlock
  BY InvParts DEF Inv, Blank
<1>6. serving[t].response \in 0..MaxBlocks /\ serving[t].pending \in 0..MaxBlocks
  BY <1>2 DEF Servings
<1>7. /\ bs \in Cells
      /\ \A c \in BlockIds :
           /\ bs[c].pending = blocks[c].pending /\ SameContent(blocks, bs, c)
           /\ c > opened => bs[c] = NewBlock
  BY <1>5, <1>6, ClosedIs DEF SameContent
<1> HIDE DEF bs
<1>8. \A c \in BlockIds : SameContent(blocks, cs, c)
  BY <1>6, <1>7, ClosedIs
<1> HIDE DEF cs, s
<1>9. /\ serving'[t] = s /\ fromUri'[t] = e /\ toUri'[t] = e
      /\ \A v \in Askers : v # t => /\ serving'[v] = serving[v] /\ fromUri'[v] = fromUri[v]
                                    /\ toUri'[v] = toUri[v]
  BY <1>1, <1>2
<1>10. /\ Offers'[t] = e
       /\ \A v \in Askers : v # t => Offers'[v] = Offers[v]
  BY <1>3, <1>4, <1>9 DEF Offers
<1>11. Forgets(t)
  BY <1>1, <1>3, <1>9, <1>10 DEF Forgets
<1>12. opened <= opened
  BY <1>5
<1>13. QED
  BY <1>1, <1>5, <1>8, <1>9, <1>10, <1>11, <1>12 DEF Serves

\* HandleRequest.
LEMMA RequestServes ==
  ASSUME Inv, NEW t \in Askers, HandleRequest(t)
  PROVE  Serves(t)
<1> DEFINE b == opened + 1
           r == Head(toUri[t])
           fails == URIResponse("Error", NoBlock)
           closed == CloseServerBlock(blocks, serving[t].pending)
           idle == [serving[t] EXCEPT !.pending = NoBlock]
           given == served \cup {[n |-> r.n, data |-> PostData(t, r)]}
<1>1. ReceivesUri(t, "URIRequest") /\ ResponseBlock(t) = b /\ r.command = "URIRequest"
  BY DEF HandleRequest, ResponseBlock, ReceivesUri
<1>2. /\ blocks \in Cells /\ opened \in 0..MaxBlocks /\ opened \in Nat /\ opened < b
      /\ b \in Nat
  BY InvParts
<1>3. serving[t] \in Servings /\ serving[t].open
  BY <1>1, ServingTyped DEF Inv, ReceivesUri
<1>4. \A c \in BlockIds : (c > opened => blocks[c] = NewBlock) /\ Len(blocks[c].data) <= MaxSize
  BY DEF Inv, Blank
<1>5. fails \in UriPayloads /\ fails.block = NoBlock /\ fails.result = "Error"
  BY AnswerTyped, Bounds DEF Results, URIResponse, UriPayload
<1>6. /\ closed \in Cells
      /\ \A c \in BlockIds :
           /\ SameContent(blocks, closed, c)
           /\ c > opened => closed[c] = NewBlock
           /\ Len(closed[c].data) <= MaxSize
  <2>1. serving[t].pending \in 0..MaxBlocks
    BY <1>3 DEF Servings
  <2>2. QED
    BY <1>2, <1>4, <2>1, ClosedIs DEF SameContent
<1>7. r \in UriPayloads /\ r.n \in 0..MaxRequests
  <2>1. r \in UriPayloads
    BY <1>1, ReceivesIs
  <2>2. QED
    BY <2>1 DEF UriPayloads
<1>8. idle \in Servings /\ idle.open /\ idle.pending = NoBlock
  <2> DEFINE z == NoBlock
             s == [serving[t] EXCEPT !.pending = z]
  <2>1. z \in 0..MaxBlocks
    BY Bounds
  <2> HIDE DEF z
  <2>2. s \in Servings /\ s.open /\ s.pending = z
    BY <1>3, <2>1 DEF Servings
  <2>3. QED
    BY <2>2 DEF z
<1>9. \/ /\ Respond(t, serving[t], fails)
         /\ UNCHANGED <<blocks, opened, served, answers>>
      \/ /\ blocks' = closed /\ Respond(t, idle, fails)
         /\ UNCHANGED <<opened, served, answers>>
      \/ /\ AcceptsPostData(t, r) /\ served' = given
         /\ b <= MaxBlocks /\ opened' = IF b > opened THEN b ELSE opened
         /\ \/ \E size \in ResponseSizes :
                 LET data == Response(r.n, size)
                 IN  /\ blocks' = Close(Write(OpenServerBlock(closed, b), b, data), b)
                     /\ answers' = answers \cup {[n |-> r.n, data |-> data]}
                     /\ Respond(t, [idle EXCEPT !.response = b], URIResponse("Success", b))
            \/ /\ blocks' = Close(OpenServerBlock(closed, b), b)
               /\ Respond(t, [idle EXCEPT !.response = b], fails)
               /\ answers' = answers
  BY <1>1 DEF HandleRequest
<1> HIDE DEF fails, closed, idle, given
<1>10. CASE Respond(t, serving[t], fails) /\ UNCHANGED <<blocks, opened, served, answers>>
  <2>1. /\ HandsOn(t, fails) /\ serving'[t].pending = serving[t].pending
        /\ transfers' = transfers /\ upload' = upload /\ download' = download
        /\ context' = context /\ uri' = uri /\ posted' = posted
        /\ \A v \in Askers : v # t => /\ serving'[v] = serving[v] /\ toUri'[v] = toUri[v]
                                      /\ Offers'[v] = Offers[v]
    BY <1>1, <1>3, <1>5, <1>10, ReceivesAre
  <2>2. Refuses(t)
    BY <1>5, <1>10, <2>1 DEF Refuses
  <2>3. opened' \in Nat /\ opened <= opened'
    BY <1>2, <1>10
  <2>4. QED
    BY <1>10, <2>1, <2>2, <2>3 DEF Serves, SameContent
<1>11. CASE /\ blocks' = closed /\ Respond(t, idle, fails)
            /\ UNCHANGED <<opened, served, answers>>
  <2>1. /\ HandsOn(t, fails) /\ serving'[t].pending = idle.pending
        /\ transfers' = transfers /\ upload' = upload /\ download' = download
        /\ context' = context /\ uri' = uri /\ posted' = posted
        /\ \A v \in Askers : v # t => /\ serving'[v] = serving[v] /\ toUri'[v] = toUri[v]
                                      /\ Offers'[v] = Offers[v]
    BY <1>1, <1>5, <1>8, <1>11, ReceivesAre
  <2>2. Refuses(t)
    BY <1>5, <1>8, <1>11, <2>1 DEF Refuses
  <2>3. opened' \in Nat /\ opened <= opened'
    BY <1>2, <1>11
  <2>4. QED
    BY <1>6, <1>11, <2>1, <2>2, <2>3 DEF Serves
<1>12. ASSUME b <= MaxBlocks, opened' = IF b > opened THEN b ELSE opened,
              NEW bs \in Cells, blocks' = Close(bs, b),
              \A c \in BlockIds : c # b => bs[c] = closed[c],
              NEW p \in UriPayloads,
              Respond(t, [idle EXCEPT !.response = b], p)
       PROVE  /\ opened' = b /\ b \in BlockIds
              /\ blocks'[b].closed /\ blocks'[b].data = bs[b].data
              /\ \A c \in BlockIds : c <= opened => SameContent(blocks, blocks', c)
              /\ HandsOn(t, p) /\ serving'[t].pending = NoBlock
              /\ transfers' = transfers /\ upload' = upload /\ download' = download
              /\ context' = context /\ uri' = uri /\ posted' = posted
              /\ \A v \in Askers : v # t => /\ serving'[v] = serving[v] /\ toUri'[v] = toUri[v]
                                            /\ Offers'[v] = Offers[v]
  <2> DEFINE next == [idle EXCEPT !.response = b]
  <2>1. opened' = b /\ b \in BlockIds /\ b \in 0..MaxBlocks
    BY <1>2, <1>12, Bounds DEF BlockIds
  <2>2. next \in Servings /\ next.open /\ next.pending = NoBlock
    BY <1>8, <2>1 DEF Servings
  <2>3. Respond(t, next, p)
    BY <1>12
  <2> HIDE DEF next
  <2>4. /\ blocks'[b].closed /\ blocks'[b].data = bs[b].data
        /\ \A c \in BlockIds : c # b => blocks'[c] = bs[c]
    BY <1>12, <2>1, CloseIs
  <2>5. \A c \in BlockIds : c <= opened => SameContent(blocks, blocks', c)
    <3>1. \A c \in BlockIds : c <= opened => c # b
      BY <1>2 DEF BlockIds
    <3>2. QED
      BY <1>6, <1>12, <2>4, <3>1 DEF SameContent
  <2>6. /\ HandsOn(t, p) /\ serving'[t].pending = next.pending
        /\ transfers' = transfers /\ upload' = upload /\ download' = download
        /\ context' = context /\ uri' = uri /\ posted' = posted
        /\ \A v \in Askers : v # t => /\ serving'[v] = serving[v] /\ toUri'[v] = toUri[v]
                                      /\ Offers'[v] = Offers[v]
    BY <1>1, <1>12, <2>2, <2>3, ReceivesAre
  <2>7. QED
    BY <2>1, <2>2, <2>4, <2>5, <2>6
<1>13. ASSUME b <= MaxBlocks
       PROVE  LET os == OpenServerBlock(closed, b)
              IN  /\ os \in Cells /\ b \in BlockIds
                  /\ os[b].data = <<>>
                  /\ \A c \in BlockIds : c # b => os[c] = closed[c]
  <2>1. b \in BlockIds
    BY <1>2, <1>13, Bounds DEF BlockIds
  <2>2. closed[b].data = <<>>
    BY <1>2, <1>6, <2>1, NewBlockIs
  <2>3. QED
    BY <1>6, <2>1, <2>2, OpenIs
<1>14. ASSUME AcceptsPostData(t, r), served' = given
       PROVE  Gives(t)
  BY <1>1, <1>14 DEF Gives, given
<1>15. ASSUME AcceptsPostData(t, r), served' = given,
              b <= MaxBlocks, opened' = IF b > opened THEN b ELSE opened,
              NEW size \in ResponseSizes,
              blocks' = Close(Write(OpenServerBlock(closed, b), b, Response(r.n, size)), b),
              answers' = answers \cup {[n |-> r.n, data |-> Response(r.n, size)]},
              Respond(t, [idle EXCEPT !.response = b], URIResponse("Success", b))
       PROVE  Serves(t)
  <2> DEFINE os == OpenServerBlock(closed, b)
             data == Response(r.n, size)
             bs == Write(os, b, data)
             p == URIResponse("Success", b)
  <2>0. b \in BlockIds /\ b \in 0..MaxBlocks
    BY <1>2, <1>15, Bounds DEF BlockIds
  <2>1. data \in Bytes
    <3>1. size \in 0..MaxSize /\ -r.n \in Int
      BY <1>7, Bounds, Bounds2
    <3>2. QED
      BY <3>1, ContentTyped DEF Response
  <2>2. p \in UriPayloads /\ p.block = b
    BY <2>0, AnswerTyped DEF Results
  <2>3. /\ os \in Cells /\ os[b].data = <<>>
        /\ \A c \in BlockIds : c # b => os[c] = closed[c]
    BY <1>13, <1>15
  <2>4. answers' = answers \cup {[n |-> r.n, data |-> data]}
    BY <1>15
  <2> HIDE DEF os, data
  <2>5. /\ bs \in Cells /\ bs[b].data = os[b].data \o data
        /\ \A c \in BlockIds : c # b => bs[c] = os[c]
    BY <2>0, <2>1, <2>3, WriteIs
  <2>6. bs[b].data = data
    BY <2>1, <2>3, <2>5 DEF Bytes
  <2>7. blocks' = Close(bs, b) /\ Respond(t, [idle EXCEPT !.response = b], p)
    BY <1>15 DEF os, data
  <2> HIDE DEF bs, p
  <2>8. \A c \in BlockIds : c # b => bs[c] = closed[c]
    BY <2>3, <2>5
  <2>9. /\ opened' = b /\ b \in BlockIds
        /\ blocks'[b].closed /\ blocks'[b].data = bs[b].data
        /\ \A c \in BlockIds : c <= opened => SameContent(blocks, blocks', c)
        /\ HandsOn(t, p) /\ serving'[t].pending = NoBlock
        /\ transfers' = transfers /\ upload' = upload /\ download' = download
        /\ context' = context /\ uri' = uri /\ posted' = posted
        /\ \A v \in Askers : v # t => /\ serving'[v] = serving[v] /\ toUri'[v] = toUri[v]
                                      /\ Offers'[v] = Offers[v]
    BY <1>12, <1>15, <2>2, <2>5, <2>7, <2>8
  <2>10. Responds(t)
    BY <1>14, <1>15, <2>1, <2>2, <2>4, <2>6, <2>9 DEF Responds
  <2>11. opened' \in Nat /\ opened <= opened'
    BY <1>2, <2>9
  <2>12. QED
    BY <2>9, <2>10, <2>11 DEF Serves
<1>16. ASSUME AcceptsPostData(t, r), served' = given,
              b <= MaxBlocks, opened' = IF b > opened THEN b ELSE opened,
              blocks' = Close(OpenServerBlock(closed, b), b), answers' = answers,
              Respond(t, [idle EXCEPT !.response = b], fails)
       PROVE  Serves(t)
  <2> DEFINE os == OpenServerBlock(closed, b)
  <2>1. os \in Cells /\ \A c \in BlockIds : c # b => os[c] = closed[c]
    BY <1>13, <1>16
  <2>2. blocks' = Close(os, b)
    BY <1>16
  <2> HIDE DEF os
  <2>3. /\ opened' = b
        /\ \A c \in BlockIds : c <= opened => SameContent(blocks, blocks', c)
        /\ HandsOn(t, fails) /\ serving'[t].pending = NoBlock
        /\ transfers' = transfers /\ upload' = upload /\ download' = download
        /\ context' = context /\ uri' = uri /\ posted' = posted
        /\ \A v \in Askers : v # t => /\ serving'[v] = serving[v] /\ toUri'[v] = toUri[v]
                                      /\ Offers'[v] = Offers[v]
    BY <1>5, <1>12, <1>16, <2>1, <2>2
  <2>4. Refuses(t)
    BY <1>5, <1>14, <1>16, <2>3 DEF Refuses
  <2>5. opened' \in Nat /\ opened <= opened'
    BY <1>2, <2>3
  <2>6. QED
    BY <2>3, <2>4, <2>5 DEF Serves
<1>17. QED
  BY <1>9, <1>10, <1>11, <1>15, <1>16

\* Every update of a URI session.
LEMMA ServesIs ==
  ASSUME Inv, NEW t \in Askers, UpdateUri(t)
  PROVE  Serves(t)
  BY SendQueuedServes, PostRequestServes, RequestServes, TerminatedServes DEF UpdateUri

-----------------------------------------------------------------------------
(* Post data, and the updates of URI sessions.                             *)

\* Data in line, as long as what was posted, is what was posted.
LEMMA WholeLine ==
  ASSUME NEW data \in Bytes, NEW n \in 0..MaxRequests, NEW size \in 0..MaxSize,
         Line(data, n), Len(data) = size
  PROVE  data = Content(n, size)
<1> DEFINE c == Content(n, size)
<1>1. c \in Bytes /\ Len(c) = size
  BY ContentTyped, Bounds2
<1>2. \A i \in 1..Len(data) : c[i] = data[i]
  BY DEF Line, Content
<1> HIDE DEF c
<1>3. c = data
  <2>1. c \in Seq(Int \X Nat) /\ data \in Seq(Int \X Nat) /\ Len(c) = Len(data)
    BY <1>1 DEF Bytes
  <2>2. QED
    BY <1>2, <2>1, SeqEqual
<1>4. QED
  BY <1>3 DEF c

\* What is received was sent.
LEMMA ReceivedWas ==
  ASSUME Inv, NEW t \in Askers, Serves(t), NEW v \in Askers, NEW i \in 1..Len(toUri'[v])
  PROVE  \E j \in 1..Len(toUri[v]) : toUri'[v][i] = toUri[v][j]
<1>1. toUri[v] \in Seq(UriPayloads)
  BY UrisTyped
<1>2. CASE toUri'[v] = toUri[v]
  BY <1>2
<1>3. CASE toUri'[v] = <<>>
  BY <1>3
<1>4. CASE toUri[v] # <<>> /\ toUri'[v] = Tail(toUri[v])
  <2>1. i + 1 \in 1..Len(toUri[v]) /\ toUri'[v][i] = toUri[v][i + 1]
    BY <1>1, <1>4
  <2>2. QED
    BY <2>1
<1>5. v # t => toUri'[v] = toUri[v]
  BY DEF Serves
<1>6. \/ toUri'[t] = toUri[t] \/ toUri'[t] = <<>>
      \/ toUri[t] # <<>> /\ toUri'[t] = Tail(toUri[t])
  BY DEF Serves, Resumes, Provides, Refuses, Responds, Forgets, HandsOn
<1>7. QED
  BY <1>2, <1>3, <1>4, <1>5, <1>6

\* What is offered was offered, or is a block opened now.
LEMMA OfferedWas ==
  ASSUME Inv, NEW t \in Askers, Serves(t), NEW v \in Askers, NEW i \in 1..Len(Offers'[v])
  PROVE  \/ \E j \in 1..Len(Offers[v]) : Offers'[v][i] = Offers[v][j]
         \/ /\ Offers'[v][i].block = NoBlock /\ Offers'[v][i].result = "Error"
         \/ /\ Offers'[v][i].block = opened' /\ opened' = opened + 1
<1>1. Offers[v] \in Seq(UriPayloads)
  BY OffersTyped DEF Inv, OfferSets
<1>2. CASE Offers'[v] = Offers[v]
  BY <1>2
<1>3. CASE Offers'[v] = <<>>
  BY <1>3
<1>4. ASSUME NEW p \in UriPayloads, Offers'[v] = Append(Offers[v], p)
      PROVE  Offers'[v][i] = p \/ \E j \in 1..Len(Offers[v]) : Offers'[v][i] = Offers[v][j]
  BY <1>1, <1>4
<1>5. v # t => Offers'[v] = Offers[v]
  BY DEF Serves
<1>6. CASE Resumes(t)
  BY <1>2, <1>5, <1>6 DEF Resumes
<1>7. CASE Forgets(t)
  BY <1>2, <1>3, <1>5, <1>7 DEF Forgets
<1>8. CASE Provides(t)
  BY <1>2, <1>4, <1>5, <1>8 DEF Provides, HandsOn
<1>9. CASE Refuses(t)
  BY <1>2, <1>4, <1>5, <1>9 DEF Refuses, HandsOn
<1>10. CASE Responds(t)
  BY <1>2, <1>4, <1>5, <1>10 DEF Responds, HandsOn
<1>11. QED
  BY <1>6, <1>7, <1>8, <1>9, <1>10 DEF Serves

\* An update of a URI session keeps every block on its request.
LEMMA FollowServes ==
  ASSUME Inv, NEW t \in Askers, Serves(t), NEW f \in Plans, Follow(f)
  PROVE  Follow(f)'
<1>1. /\ transfers' = transfers /\ upload' = upload /\ Wants' = Wants
      /\ uri' = uri /\ posted' = posted
      /\ opened' \in Nat /\ opened \in Nat /\ opened <= opened'
      /\ \A b \in BlockIds : b <= opened => SameContent(blocks, blocks', b)
  BY InvParts DEF Serves, Wants
<1>2. \A b \in BlockIds : b > opened \/ InOffers(Offers, b) => f[b] = 0
  BY DEF Follow, OffersFollow
<1>3. OffersFollow(f)'
  <2>1. ASSUME NEW b \in BlockIds, b > opened'
        PROVE  f[b] = 0
    BY <1>1, <1>2, <2>1 DEF BlockIds
  <2>2. ASSUME NEW b \in BlockIds, InOffers(Offers', b)
        PROVE  f[b] = 0
    <3>0. PICK v \in Askers : \E i \in 1..Len(Offers'[v]) : Offers'[v][i].block = b
      BY <2>2 DEF InOffers
    <3>1. PICK i \in 1..Len(Offers'[v]) : Offers'[v][i].block = b
      BY <3>0
    <3>2. CASE \E j \in 1..Len(Offers[v]) : Offers'[v][i] = Offers[v][j]
      BY <1>2, <3>1, <3>2 DEF InOffers
    <3>3. CASE Offers'[v][i].block = NoBlock
      BY <3>1, <3>3, Bounds
    <3>4. CASE Offers'[v][i].block = opened' /\ opened' = opened + 1
      BY <1>1, <1>2, <3>1, <3>4 DEF BlockIds
    <3>5. QED
      BY <3>2, <3>3, <3>4, OfferedWas
  <2>3. QED
    BY <2>1, <2>2 DEF OffersFollow
<1>4. ASSUME NEW k \in Links
      PROVE  LinkFollows(f, k)'
  <2>1. LinkFollows(f, k) /\ Sound(transfers[k], blocks) /\ transfers[k].block <= opened
        /\ transfers[k] \in TransferSessions
    BY InvParts DEF Follow, Inv, LinksOK
  <2>2. ASSUME transfers[k].state \in Pushes
        PROVE  blocks'[transfers[k].block].data = blocks[transfers[k].block].data
    <3>1. transfers[k].block \in BlockIds
      BY <2>1, <2>2, Bounds DEF Sound, TransferSessions
    <3>2. QED
      BY <1>1, <2>1, <3>1 DEF SameContent
  <2>3. QED
    BY <1>1, <2>1, <2>2 DEF LinkFollows
<1>5. ASSUME NEW v \in Askers
      PROVE  PendingFollows(f, serving[v].pending)'
  <2> DEFINE b == serving'[v].pending
  <2>1. SUFFICES ASSUME b # NoBlock
                 PROVE  /\ b <= opened' /\ Line(blocks'[b].data, f[b])
                        /\ f[b] = 0 => blocks'[b].data = <<>>
    BY DEF PendingFollows
  <2>2. CASE b = serving[v].pending
    <3>1. /\ b <= opened /\ Line(blocks[b].data, f[b])
          /\ f[b] = 0 => blocks[b].data = <<>>
      BY <2>1, <2>2 DEF Follow, PendingFollows
    <3>2. b \in BlockIds
      <4>1. serving[v] \in Servings
        BY UrisTyped
      <4>2. QED
        BY <2>1, <2>2, <4>1, Bounds DEF Servings
    <3>3. blocks'[b].data = blocks[b].data
      BY <1>1, <3>1, <3>2 DEF SameContent
    <3>4. b <= opened'
      BY <1>1, <3>1, <3>2 DEF BlockIds
    <3>5. QED
      BY <3>1, <3>3, <3>4
  <2>3. CASE b # serving[v].pending
    <3>1. b = opened' /\ blocks'[opened'].data = <<>>
      BY <2>1, <2>3 DEF Serves, Resumes, Provides, Refuses, Responds, Forgets
    <3>2. opened' <= opened'
      BY <1>1
    <3>3. QED
      BY <3>1, <3>2, EmptyLine
  <2>4. QED
    BY <2>2, <2>3
<1>6. ASSUME NEW v \in Askers
      PROVE  AskerFollows(f, uri[v])'
  BY <1>1 DEF Follow, AskerFollows
<1>7. ASSUME NEW v \in Askers, NEW i \in 1..Len(toUri'[v])
      PROVE  RequestFollows(f, toUri[v][i])'
  <2>1. PICK j \in 1..Len(toUri[v]) : toUri'[v][i] = toUri[v][j]
    BY <1>7, ReceivedWas
  <2>2. RequestFollows(f, toUri[v][j])
    BY DEF Follow
  <2>3. QED
    BY <1>1, <2>1, <2>2 DEF RequestFollows
<1>8. QED
  BY <1>3, <1>4, <1>5, <1>6, <1>7 DEF Follow

\* The service is given what was posted.
LEMMA GivesWhole ==
  ASSUME Inv, NEW t \in Askers, Gives(t), toUri[t] # <<>>, NEW f \in Plans, Follow(f)
  PROVE  LET h == Head(toUri[t])
         IN  h.n \in 1..Len(posted) /\ PostData(t, h) = Content(h.n, posted[h.n])
<1> DEFINE h == Head(toUri[t])
           b == serving[t].pending
<1>1. h.command = "URIRequest" /\ AcceptsPostData(t, h)
  BY DEF Gives
<1>2. toUri[t] \in Seq(UriPayloads) /\ serving[t] \in Servings
  BY UrisTyped
<1>3. h \in UriPayloads /\ 1 \in 1..Len(toUri[t]) /\ toUri[t][1] = h
  BY <1>2, TailIs
<1>4. RequestFollows(f, h)
  BY <1>3 DEF Follow
<1>5. /\ h.n \in 1..Len(posted) /\ h.size = posted[h.n]
      /\ IF h.block = NoBlock \/ h.size = 0 THEN h.data = Content(h.n, h.size)
         ELSE f[h.block] = h.n
  BY <1>1, <1>4 DEF RequestFollows
<1>6. CASE h.block = NoBlock \/ h.size = 0
  BY <1>5, <1>6 DEF PostData
<1>7. CASE ~(h.block = NoBlock \/ h.size = 0)
  <2>1. b = h.block /\ Len(blocks[b].data) = h.size /\ PostData(t, h) = blocks[b].data
    BY <1>1, <1>7 DEF AcceptsPostData, PostData
  <2>2. b \in BlockIds /\ h.n \in 0..MaxRequests /\ h.size \in 0..MaxSize
    BY <1>2, <1>3, <1>7, <2>1, Bounds DEF Servings, UriPayloads
  <2>3. blocks[b].data \in Bytes
    BY <2>2, InvParts DEF Cells
  <2>4. PendingFollows(f, b)
    BY DEF Follow
  <2>5. Line(blocks[b].data, h.n)
    BY <1>5, <1>7, <2>1, <2>2, <2>4, Bounds DEF PendingFollows
  <2>6. blocks[b].data = Content(h.n, h.size)
    BY <2>1, <2>2, <2>3, <2>5, WholeLine
  <2>7. QED
    BY <1>5, <2>1, <2>6
<1>8. QED
  BY <1>6, <1>7

\* An update of a URI session keeps post data whole.
LEMMA PostsServes ==
  ASSUME Inv, PostsOK, NEW t \in Askers, Serves(t)
  PROVE  PostsOK'
<1>1. PICK f \in Plans : Follow(f)
  BY DEF PostsOK, Plans
<1>2. Follow(f)'
  BY <1>1, FollowServes
<1>3. uri' = uri /\ posted' = posted /\ opened \in Nat
  BY InvParts DEF Serves
<1>4. ASSUME NEW v \in Askers
      PROVE  Posts(uri[v])'
  BY <1>3 DEF PostsOK, Posts
<1>5. ASSUME NEW v \in Askers, NEW i \in 1..Len(Offers'[v]), Offers'[v][i].result = "Success"
      PROVE  Offers'[v][i].block # NoBlock
  <2>1. CASE \E j \in 1..Len(Offers[v]) : Offers'[v][i] = Offers[v][j]
    BY <1>5, <2>1 DEF PostsOK
  <2>2. CASE Offers'[v][i].block = opened' /\ opened' = opened + 1
    BY <1>3, <2>2, Bounds
  <2>3. QED
    BY <1>5, <2>1, <2>2, OfferedWas
<1>6. ASSUME NEW s \in served'
      PROVE  s.n \in 1..Len(posted) /\ s.data = Content(s.n, posted[s.n])
  <2>1. CASE s \in served
    BY <2>1 DEF PostsOK
  <2>2. CASE s \notin served
    <3>1. Gives(t) /\ toUri[t] # <<>>
      BY <1>6, <2>2 DEF Serves, Resumes, Provides, Refuses, Responds, Forgets, HandsOn
    <3>2. s = [n |-> Head(toUri[t]).n, data |-> PostData(t, Head(toUri[t]))]
      BY <1>6, <2>2, <3>1 DEF Gives
    <3>3. QED
      BY <1>1, <3>1, <3>2, GivesWhole
  <2>3. QED
    BY <2>1, <2>2
<1>7. QED
  BY <1>2, <1>3, <1>4, <1>5, <1>6 DEF PostsOK, Plans

-----------------------------------------------------------------------------
(* Post data, and the end of a transfer session.                           *)

\* What the end of a session changes.
LEMMA TerminatedIs ==
  ASSUME Inv, NEW l \in Links, TransferTerminated(l), UNCHANGED uriVars
  PROVE  /\ context[l].state = "Closed" /\ opened' = opened /\ context' = context
         /\ uri' = uri /\ serving' = serving /\ toUri' = toUri /\ fromUri' = fromUri
         /\ posted' = posted /\ served' = served /\ answers' = answers
         /\ transfers'[l].state = "None" /\ upload'[l] = <<>>
         /\ Wants'[l] = NoBlock
         /\ \A b \in BlockIds : SameContent(blocks, blocks', b)
         /\ \A k \in Links : k # l =>
              /\ transfers'[k] = transfers[k] /\ upload'[k] = upload[k]
              /\ download'[k] = download[k] /\ Wants'[k] = Wants[k]
<1> DEFINE s == NoTransfer
           b == transfers[l].block
           e == <<>>
<1>1. /\ context[l].state = "Closed"
      /\ transfers' = [transfers EXCEPT ![l] = s]
      /\ upload' = [upload EXCEPT ![l] = e]
      /\ download' = [download EXCEPT ![l] = e]
      /\ blocks' = IF b = NoBlock THEN blocks ELSE EndTransfer(blocks, b)
      /\ opened' = opened /\ context' = context
  BY DEF TransferTerminated
<1>2. /\ uri' = uri /\ serving' = serving /\ toUri' = toUri /\ fromUri' = fromUri
      /\ posted' = posted /\ served' = served /\ answers' = answers
  BY DEF uriVars
<1>3. s.state = "None" /\ Wanted(s, e) = NoBlock
  BY DEF NoTransfer, Wanted, Pushes
<1> HIDE DEF s, e
<1>4. /\ blocks \in Cells /\ transfers \in [Links -> TransferSessions]
      /\ upload \in [Links -> Wire] /\ download \in [Links -> Wire]
  BY InvParts
<1>5. /\ transfers'[l] = s /\ upload'[l] = e
      /\ \A k \in Links : k # l => /\ transfers'[k] = transfers[k]
                                   /\ upload'[k] = upload[k] /\ download'[k] = download[k]
  BY <1>1, <1>4
<1>6. Wants'[l] = NoBlock /\ \A k \in Links : k # l => Wants'[k] = Wants[k]
  BY <1>3, <1>5 DEF Wants
<1>7. \A c \in BlockIds : SameContent(blocks, blocks', c)
  <2>1. b \in 0..MaxBlocks /\ (b # NoBlock => b \in BlockIds)
    BY <1>4, Bounds DEF TransferSessions
  <2>2. CASE b = NoBlock
    BY <1>1, <2>2 DEF SameContent
  <2>3. CASE b # NoBlock
    BY <1>1, <1>4, <2>1, <2>3, EndIs DEF SameContent
  <2>4. QED
    BY <2>2, <2>3
<1>8. QED
  BY <1>1, <1>2, <1>3, <1>5, <1>6, <1>7 DEF e

\* The end of a session keeps every block on its request.
LEMMA FollowTerminated ==
  ASSUME Inv, NEW l \in Links, TransferTerminated(l), UNCHANGED uriVars,
         NEW f \in Plans, Follow(f)
  PROVE  Follow(f)'
<1>1. /\ context[l].state = "Closed" /\ opened' = opened /\ Offers' = Offers
      /\ uri' = uri /\ serving' = serving /\ toUri' = toUri /\ posted' = posted
      /\ transfers'[l].state = "None" /\ Wants'[l] = NoBlock
      /\ \A b \in BlockIds : blocks'[b].data = blocks[b].data
      /\ \A k \in Links : k # l =>
           /\ transfers'[k] = transfers[k] /\ upload'[k] = upload[k]
           /\ Wants'[k] = Wants[k]
  BY TerminatedIs DEF Offers, SameContent
<1>2. OffersFollow(f)'
  BY <1>1 DEF Follow, OffersFollow
<1>3. ASSUME NEW k \in Links
      PROVE  LinkFollows(f, k)'
  <2>1. LinkFollows(f, k) /\ Sound(transfers[k], blocks) /\ transfers[k] \in TransferSessions
    BY InvParts DEF Follow, Inv, LinksOK
  <2>2. CASE k = l
    BY <1>1, <2>2 DEF LinkFollows, Pushes
  <2>3. CASE k # l
    <3>1. transfers[k].state \in Pushes => transfers[k].block \in BlockIds
      BY <2>1, Bounds DEF Sound, TransferSessions
    <3>2. QED
      BY <1>1, <2>1, <2>3, <3>1 DEF LinkFollows
  <2>4. QED
    BY <2>2, <2>3
<1>4. ASSUME NEW t \in Askers
      PROVE  PendingFollows(f, serving[t].pending)'
  <2>1. serving[t] \in Servings /\ PendingFollows(f, serving[t].pending)
    BY UrisTyped DEF Follow
  <2>2. serving[t].pending # NoBlock => serving[t].pending \in BlockIds
    BY <2>1, Bounds DEF Servings
  <2>3. QED
    BY <1>1, <2>1, <2>2 DEF PendingFollows
<1>5. ASSUME NEW t \in Askers
      PROVE  AskerFollows(f, uri[t])'
  <2>1. AskerFollows(f, uri[t]) /\ OnLink(uri[t], context, upload)
        /\ uri[t].link \in Links \cup {NoLink}
    BY UrisTyped DEF Follow, Inv, AskersOK
  <2>2. uri[t].call \in PushCalls => uri[t].link \in Links /\ uri[t].link # l
    BY <1>1, <2>1 DEF OnLink, PushCalls, LinkCalls
  <2>3. QED
    BY <1>1, <2>1, <2>2 DEF AskerFollows
<1>6. ASSUME NEW t \in Askers, NEW i \in 1..Len(toUri'[t])
      PROVE  RequestFollows(f, toUri[t][i])'
  BY <1>1 DEF Follow, RequestFollows
<1>7. QED
  BY <1>2, <1>3, <1>4, <1>5, <1>6 DEF Follow

\* The threads of transfer sessions keep post data whole.
LEMMA PostsLink ==
  ASSUME Inv, PostsOK, NEW l \in Links, UpdateLink(l)
  PROVE  PostsOK'
<1>1. PICK f \in Plans : Follow(f)
  BY DEF PostsOK, Plans
<1>2. Follow(f)'
  BY <1>1, FollowUpdate, FollowTerminated DEF UpdateLink
<1>3. /\ uri' = uri /\ posted' = posted /\ served' = served /\ Offers' = Offers
  BY DEF UpdateLink, uriVars, Offers
<1>4. QED
  BY <1>2, <1>3 DEF PostsOK, Posts, Plans

-----------------------------------------------------------------------------
(* What a step of a client changes.                                        *)

\* A link is left alone.
Rests(k) ==
  /\ transfers'[k] = transfers[k] /\ upload'[k] = upload[k]
  /\ download'[k] = download[k] /\ context'[k] = context[k]

\* A payload of a push or an abort is sent, a reply is taken, or neither.
Speaks(l) ==
  /\ transfers'[l] = transfers[l]
  /\ \/ upload'[l] = upload[l]
     \/ \E p \in TransferPayloads : ~IsRequest(p) /\ upload'[l] = Append(upload[l], p)
  /\ download'[l] = download[l] \/ (download[l] # <<>> /\ download'[l] = Tail(download[l]))

\* The client t does something, on no other link than l.
Steps(t, l) ==
  /\ blocks' = blocks /\ opened' = opened /\ served' = served /\ answers' = answers
  /\ l \in Links \cup {NoLink} /\ (l = uri[t].link \/ context[l].state = "Closed")
  /\ \A k \in Links : k # l => Rests(k)
  /\ \A v \in Askers : v # t => /\ uri'[v] = uri[v] /\ serving'[v] = serving[v]
                                /\ toUri'[v] = toUri[v] /\ Offers'[v] = Offers[v]
  /\ serving'[t].pending = serving[t].pending
  /\ Offers'[t] = Offers[t] \/ (Offers[t] # <<>> /\ Offers'[t] = Tail(Offers[t]))

\* The links of the others rest.
LEMMA OthersRest ==
  ASSUME Inv, NEW t \in Askers, NEW l, Steps(t, l), NEW v \in Askers, v # t,
         uri[v].link # NoLink
  PROVE  uri[v].link \in Links /\ Rests(uri[v].link)
<1>1. uri[v].link \in Links /\ context[uri[v].link].state # "Closed"
  BY UrisTyped DEF Inv, AskersOK, OnLink
<1>2. uri[t].link # uri[v].link
  BY DEF Inv, AskersOK
<1>3. uri[v].link # l
  BY <1>1, <1>2 DEF Steps
<1>4. QED
  BY <1>1, <1>3 DEF Steps

\* What is offered after it was offered before.
LEMMA OfferedBefore ==
  ASSUME Inv, NEW t \in Askers, NEW l, Steps(t, l), NEW v \in Askers,
         NEW i \in 1..Len(Offers'[v])
  PROVE  \E j \in 1..Len(Offers[v]) : Offers'[v][i] = Offers[v][j]
<1>1. Offers[v] \in Seq(UriPayloads)
  BY OffersTyped DEF Inv, OfferSets
<1>2. CASE Offers'[v] = Offers[v]
  BY <1>2
<1>3. CASE Offers[v] # <<>> /\ Offers'[v] = Tail(Offers[v])
  <2>1. i + 1 \in 1..Len(Offers[v]) /\ Offers'[v][i] = Offers[v][i + 1]
    BY <1>1, <1>3
  <2>2. QED
    BY <2>1
<1>4. QED
  BY <1>2, <1>3 DEF Steps

\* What t sends and takes on a link leaves what is pushed there in line.
LEMMA FollowSpeaks ==
  ASSUME Inv, NEW l \in Links, NEW f \in Plans, LinkFollows(f, l), blocks' = blocks,
         transfers'[l] = transfers[l],
         \/ upload'[l] = upload[l]
         \/ \E p \in TransferPayloads :
              /\ ~IsRequest(p) /\ upload'[l] = Append(upload[l], p)
              /\ transfers[l].state \in Pushes /\ p.command = "TransferDataChunk" =>
                   p.data = <<<<f[transfers[l].block],
                                transfers[l].done + Len(upload[l]) + 1>>>>
  PROVE  LinkFollows(f, l)' /\ Wants'[l] = Wants[l]
<1>1. CASE upload'[l] = upload[l]
  <2>1. Wants'[l] = Wants[l]
    BY <1>1 DEF Wants
  <2>2. QED
    BY <1>1, <2>1 DEF LinkFollows
<1>2. ASSUME NEW p \in TransferPayloads, ~IsRequest(p), upload'[l] = Append(upload[l], p),
             transfers[l].state \in Pushes /\ p.command = "TransferDataChunk" =>
               p.data = <<<<f[transfers[l].block],
                            transfers[l].done + Len(upload[l]) + 1>>>>
      PROVE  LinkFollows(f, l)' /\ Wants'[l] = Wants[l]
  <2>1. upload[l] \in Wire /\ transfers[l] \in TransferSessions
    BY InvParts
  <2>2. Wants'[l] = Wants[l]
    BY <1>2, <2>1, WantedAppend DEF Wants
  <2>3. ASSUME transfers[l].state \in Pushes
        PROVE  Chunks(upload'[l], f[transfers[l].block], transfers[l].done)
    <3>1. transfers[l].done \in Nat
      BY <2>1, Bounds DEF TransferSessions
    <3>2. Chunks(upload[l], f[transfers[l].block], transfers[l].done)
      BY <2>3 DEF LinkFollows
    <3>3. QED
      BY <1>2, <2>1, <2>3, <3>1, <3>2, ChunksAppend
  <2>4. QED
    BY <2>2, <2>3 DEF LinkFollows
<1>3. QED
  BY <1>1, <1>2

\* g plans more than f: blocks that are nobody's offer any more.
Plans2(f, g) ==
  /\ \A b \in BlockIds : f[b] # 0 => g[b] = f[b]
  /\ \A b \in BlockIds : g[b] # f[b] => b <= opened /\ ~InOffers(Offers', b)

\* The requests that t posted before were not changed.
Posted(t) ==
  posted' = posted \/ \E size \in 0..MaxSize : posted' = Append(posted, size)

\* They are still where they were.
LEMMA PostedBefore ==
  ASSUME Inv, NEW t \in Askers, Posted(t), NEW n \in 1..Len(posted)
  PROVE  n \in 1..Len(posted') /\ posted'[n] = posted[n]
<1>1. posted \in Seq(0..MaxSize)
  BY UrisTyped
<1>2. QED
  BY <1>1 DEF Posted

\* A step of a client keeps post data whole if it does on its side.
LEMMA PostsStep ==
  ASSUME Inv, PostsOK, NEW t \in Askers, NEW l, Steps(t, l),
         NEW f \in Plans, NEW g \in Plans, Follow(f), Plans2(f, g), Posted(t),
         l \in Links => LinkFollows(g, l)',
         Posts(uri[t])', AskerFollows(g, uri[t])',
         \A i \in 1..Len(toUri'[t]) : RequestFollows(g, toUri[t][i])'
  PROVE  PostsOK'
<1>1. /\ blocks' = blocks /\ opened' = opened /\ served' = served
      /\ \A k \in Links : k # l => Rests(k)
      /\ \A v \in Askers : v # t => /\ uri'[v] = uri[v] /\ serving'[v] = serving[v]
                                    /\ toUri'[v] = toUri[v] /\ Offers'[v] = Offers[v]
      /\ serving'[t].pending = serving[t].pending
  BY DEF Steps
<1>2. OffersFollow(g)'
  <2>1. ASSUME NEW b \in BlockIds, b > opened
        PROVE  g[b] = 0
    <3>1. f[b] = 0
      BY <2>1 DEF Follow, OffersFollow
    <3>2. ~(b <= opened)
      BY <2>1, InvParts DEF BlockIds
    <3>3. QED
      BY <3>1, <3>2 DEF Plans2
  <2>2. ASSUME NEW b \in BlockIds, InOffers(Offers', b)
        PROVE  g[b] = 0
    <3>1. PICK v \in Askers : \E i \in 1..Len(Offers'[v]) : Offers'[v][i].block = b
      BY <2>2 DEF InOffers
    <3>2. PICK i \in 1..Len(Offers'[v]) : Offers'[v][i].block = b
      BY <3>1
    <3>3. \E j \in 1..Len(Offers[v]) : Offers'[v][i] = Offers[v][j]
      BY OfferedBefore
    <3>4. InOffers(Offers, b)
      BY <3>2, <3>3 DEF InOffers
    <3>5. f[b] = 0
      BY <3>4 DEF Follow, OffersFollow
    <3>6. QED
      BY <2>2, <3>5 DEF Plans2
  <2>3. QED
    BY <1>1, <2>1, <2>2 DEF OffersFollow
<1>3. ASSUME NEW k \in Links
      PROVE  LinkFollows(g, k)'
  <2>1. CASE k = l
    BY <2>1
  <2>2. CASE k # l
    <3>1. LinkFollows(f, k) /\ Sound(transfers[k], blocks) /\ transfers[k] \in TransferSessions
          /\ Wants[k] \in 0..MaxBlocks
      BY InvParts, WantsTyped DEF Follow, Inv, LinksOK, WantSets
    <3>2. /\ transfers'[k] = transfers[k] /\ upload'[k] = upload[k] /\ Wants'[k] = Wants[k]
      BY <1>1, <2>2 DEF Rests, Wants
    <3>3. Wants[k] # NoBlock => g[Wants[k]] = f[Wants[k]] /\ f[Wants[k]] # 0
      BY <3>1, Bounds DEF LinkFollows, Plans2
    <3>4. transfers[k].state \in Pushes => transfers[k].block = Wants[k] /\ Wants[k] # NoBlock
      BY <3>1 DEF Wants, Wanted, Sound
    <3>5. QED
      BY <1>1, <3>1, <3>2, <3>3, <3>4 DEF LinkFollows
  <2>3. QED
    BY <2>1, <2>2
<1>4. ASSUME NEW v \in Askers
      PROVE  PendingFollows(g, serving[v].pending)'
  <2> DEFINE b == serving[v].pending
  <2>1. serving[v] \in Servings /\ PendingFollows(f, b) /\ serving'[v].pending = b
    BY <1>1, UrisTyped DEF Follow
  <2>2. b # NoBlock => b \in BlockIds
    BY <2>1, Bounds DEF Servings
  <2>3. CASE b # NoBlock /\ f[b] # 0
    BY <1>1, <2>1, <2>2, <2>3 DEF PendingFollows, Plans2
  <2>4. CASE b # NoBlock /\ f[b] = 0
    <3>1. b <= opened /\ blocks[b].data = <<>>
      BY <2>1, <2>4 DEF PendingFollows
    <3>2. QED
      BY <1>1, <2>1, <3>1, EmptyLine DEF PendingFollows
  <2>5. CASE b = NoBlock
    BY <2>1, <2>5 DEF PendingFollows
  <2>6. QED
    BY <2>3, <2>4, <2>5
<1>5. ASSUME NEW v \in Askers
      PROVE  AskerFollows(g, uri[v])'
  <2>1. CASE v = t
    BY <2>1
  <2>2. CASE v # t
    <3>1. uri'[v] = uri[v] /\ AskerFollows(f, uri[v]) /\ OnLink(uri[v], context, upload)
          /\ Posts(uri[v]) /\ posted \in Seq(0..MaxSize)
      BY <1>1, <2>2, UrisTyped DEF Follow, Inv, AskersOK, PostsOK
    <3>2. ASSUME uri[v].call \in PushCalls
          PROVE  /\ uri[v].link \in Links /\ Rests(uri[v].link)
                 /\ uri[v].block \in BlockIds /\ uri[v].n # 0
      <4>1. uri[v].link # NoLink
        BY <3>1, <3>2 DEF OnLink, PushCalls, LinkCalls
      <4>2. uri[v].link \in Links /\ Rests(uri[v].link)
        BY <2>2, <4>1, OthersRest
      <4>3. uri[v].block \in BlockIds /\ uri[v].n \in 1..Len(posted)
        BY <3>1, <3>2 DEF AskerFollows, Posts
      <4>4. QED
        BY <3>1, <4>2, <4>3
    <3>3. ASSUME uri[v].call \in PushCalls
          PROVE  g[uri[v].block] = uri[v].n /\ Wants'[uri[v].link] = Wants[uri[v].link]
      BY <3>1, <3>2, <3>3 DEF AskerFollows, Plans2, Rests, Wants
    <3>4. QED
      BY <3>1, <3>2, <3>3 DEF AskerFollows, Rests
  <2>3. QED
    BY <2>1, <2>2
<1>6. ASSUME NEW v \in Askers, NEW i \in 1..Len(toUri'[v])
      PROVE  RequestFollows(g, toUri[v][i])'
  <2>1. CASE v = t
    BY <1>6, <2>1
  <2>2. CASE v # t
    <3> DEFINE p == toUri[v][i]
    <3>1. toUri'[v] = toUri[v] /\ toUri[v] \in Seq(UriPayloads) /\ posted \in Seq(0..MaxSize)
      BY <1>1, <2>2, UrisTyped
    <3>2. RequestFollows(f, p) /\ p \in UriPayloads
      BY <1>6, <3>1 DEF Follow
    <3>3. p.block # NoBlock => p.block \in BlockIds
      BY <3>2, Bounds DEF UriPayloads
    <3>4. CASE p.command = "URIRequest"
      <4>1. p.n \in 1..Len(posted') /\ p.size = posted'[p.n] /\ p.n # 0
        BY <3>1, <3>2, <3>4, PostedBefore DEF RequestFollows
      <4>2. p.block # NoBlock /\ p.size # 0 => g[p.block] = p.n
        BY <3>2, <3>3, <3>4, <4>1 DEF RequestFollows, Plans2
      <4>3. QED
        BY <3>1, <3>2, <3>4, <4>1, <4>2 DEF RequestFollows
    <3>5. CASE p.command # "URIRequest"
      BY <3>1, <3>5 DEF RequestFollows
    <3>6. QED
      BY <3>4, <3>5
  <2>3. QED
    BY <2>1, <2>2
<1>7. Follow(g)'
  BY <1>2, <1>3, <1>4, <1>5, <1>6 DEF Follow
<1>8. ASSUME NEW v \in Askers
      PROVE  Posts(uri[v])'
  <2>1. CASE v = t
    BY <2>1
  <2>2. CASE v # t
    <3>1. uri'[v] = uri[v] /\ Posts(uri[v])
      BY <1>1, <2>2 DEF PostsOK
    <3>2. QED
      BY <3>1, PostedBefore DEF Posts
  <2>3. QED
    BY <2>1, <2>2
<1>9. ASSUME NEW v \in Askers, NEW i \in 1..Len(Offers'[v]), Offers'[v][i].result = "Success"
      PROVE  Offers'[v][i].block # NoBlock
  BY <1>9, OfferedBefore DEF PostsOK
<1>10. ASSUME NEW s \in served'
       PROVE  s.n \in 1..Len(posted') /\ s.data = Content(s.n, posted'[s.n])
  BY <1>1, PostedBefore DEF PostsOK
<1>11. QED
  BY <1>7, <1>8, <1>9, <1>10 DEF PostsOK, Plans

\* The plan is the same.
LEMMA SamePlan ==
  ASSUME NEW f
  PROVE  Plans2(f, f)
  BY DEF Plans2

\* What t has sent is still right.
LEMMA RequestsBefore ==
  ASSUME Inv, NEW t \in Askers, Posted(t), NEW f \in Plans, Follow(f),
         NEW i \in 1..Len(toUri[t])
  PROVE  /\ toUri[t][i] \in UriPayloads
         /\ toUri'[t][i] = toUri[t][i] => RequestFollows(f, toUri[t][i])'
<1> DEFINE p == toUri[t][i]
<1>1. toUri[t] \in Seq(UriPayloads) /\ RequestFollows(f, p)
  BY UrisTyped DEF Follow
<1>2. p \in UriPayloads
  BY <1>1
<1>3. p.command = "URIRequest" => p.n \in 1..Len(posted') /\ p.size = posted'[p.n]
  BY <1>1, PostedBefore DEF RequestFollows
<1>4. QED
  BY <1>1, <1>2, <1>3 DEF RequestFollows

\* A step of a client that is not about post data.
LEMMA PostsQuiet ==
  ASSUME Inv, PostsOK, NEW t \in Askers, NEW l, l = uri[t].link, Steps(t, l),
         posted' = posted, toUri'[t] = toUri[t],
         l # NoLink =>
           /\ transfers'[l] = transfers[l]
           /\ \/ upload'[l] = upload[l]
              \/ \E p \in TransferPayloads :
                   /\ ~IsRequest(p) /\ p.command # "TransferDataChunk"
                   /\ upload'[l] = Append(upload[l], p),
         uri'[t].call \notin {"PostResponse"} \cup PushCalls
  PROVE  PostsOK'
<1>1. PICK f \in Plans : Follow(f)
  BY DEF PostsOK, Plans
<1>2. l \in Links \cup {NoLink}
  BY UrisTyped
<1>3. ASSUME l \in Links
      PROVE  LinkFollows(f, l)'
  <2>1. LinkFollows(f, l) /\ l # NoLink /\ blocks' = blocks
    BY <1>1, <1>2, <1>3, Bounds2 DEF Follow, Steps
  <2>2. /\ transfers'[l] = transfers[l]
        /\ \/ upload'[l] = upload[l]
           \/ \E p \in TransferPayloads :
                /\ ~IsRequest(p) /\ p.command # "TransferDataChunk"
                /\ upload'[l] = Append(upload[l], p)
    BY <2>1
  <2>3. \/ upload'[l] = upload[l]
        \/ \E p \in TransferPayloads :
             /\ ~IsRequest(p) /\ upload'[l] = Append(upload[l], p)
             /\ transfers[l].state \in Pushes /\ p.command = "TransferDataChunk" =>
                  p.data = <<<<f[transfers[l].block],
                               transfers[l].done + Len(upload[l]) + 1>>>>
    BY <2>2
  <2>4. QED
    BY <1>3, <2>1, <2>2, <2>3, FollowSpeaks
<1>4. Posts(uri[t])' /\ AskerFollows(f, uri[t])'
  BY DEF Posts, AskerFollows
<1>5. Posted(t) /\ Plans2(f, f)
  BY SamePlan DEF Posted
<1>6. \A i \in 1..Len(toUri'[t]) : RequestFollows(f, toUri[t][i])'
  BY <1>1, <1>5, RequestsBefore
<1>7. QED
  BY <1>1, <1>3, <1>4, <1>5, <1>6, PostsStep

-----------------------------------------------------------------------------
(* Responses, and what a step of a client changes.                         *)

\* What is told stays told when more is, and no block that is closed changes.
LEMMA TellsMore ==
  ASSUME NEW s, NEW in, NEW out, NEW bs, NEW cs, NEW D, NEW E, D \subseteq E,
         \A b \in BlockIds : bs[b].closed => SameContent(bs, cs, b),
         Tells(s, in, out, bs, D)
  PROVE  Tells(s, in, out, cs, E)
<1>1. \A p : Fair(p, D) => Fair(p, E)
  BY DEF Fair
<1>2. QED
  BY <1>1 DEF Tells, SameContent

\* The same of an offer.
LEMMA CarriesMore ==
  ASSUME NEW p, NEW bs, NEW cs, NEW D, NEW E, D \subseteq E,
         \A b \in BlockIds : bs[b].closed => SameContent(bs, cs, b),
         OffersTold(p, bs, D)
  PROVE  OffersTold(p, cs, E)
  BY DEF OffersTold, SameContent

\* What the client sends and takes leaves the rest as it was.
LEMMA TellsSpeaks ==
  ASSUME NEW s, NEW in \in Wire, NEW out \in Wire, NEW bs, NEW D, Tells(s, in, out, bs, D),
         NEW in2, in2 = in \/ \E p \in TransferPayloads : ~IsRequest(p) /\ in2 = Append(in, p),
         NEW out2, out2 = out \/ (out # <<>> /\ out2 = Tail(out))
  PROVE  Tells(s, in2, out2, bs, D)
<1>1. \A i \in 1..Len(out2) : Fair(out2[i], D)
  <2>1. CASE out2 = out
    BY <2>1 DEF Tells
  <2>2. CASE out # <<>> /\ out2 = Tail(out)
    <3>1. \A i \in 1..Len(out2) : i + 1 \in 1..Len(out) /\ out2[i] = out[i + 1]
      BY <2>2 DEF Wire
    <3>2. QED
      BY <3>1 DEF Tells
  <2>3. QED
    BY <2>1, <2>2
<1>2. \A i \in 1..Len(in2) : in2[i].command = "PullRequest" =>
        i \in 1..Len(in) /\ in2[i] = in[i]
  <2>1. CASE in2 = in
    BY <2>1
  <2>2. ASSUME NEW p \in TransferPayloads, ~IsRequest(p), in2 = Append(in, p)
        PROVE  \A i \in 1..Len(in2) : in2[i].command = "PullRequest" =>
                 i \in 1..Len(in) /\ in2[i] = in[i]
    <3>1. \A i \in 1..Len(in2) : (i \in 1..Len(in) /\ in2[i] = in[i]) \/ in2[i] = p
      BY <2>2 DEF Wire
    <3>2. QED
      BY <2>2, <3>1 DEF IsRequest
  <2>3. QED
    BY <2>1, <2>2
<1>3. QED
  BY <1>1, <1>2 DEF Tells

\* A step of a client keeps the responses whole if it does for its own.
LEMMA AnswersStep ==
  ASSUME Inv, AnswersOK, NEW t \in Askers, NEW l, Steps(t, l), AnswerOK(t)'
  PROVE  AnswersOK'
<1>1. /\ blocks' = blocks /\ answers' = answers
      /\ \A v \in Askers : v # t => /\ uri'[v] = uri[v] /\ serving'[v] = serving[v]
                                    /\ toUri'[v] = toUri[v] /\ Offers'[v] = Offers[v]
  BY DEF Steps
<1>2. ASSUME NEW v \in Askers, v # t
      PROVE  AnswerOK(v)'
  <2>1. AnswerOK(v) /\ uri'[v] = uri[v] /\ serving'[v] = serving[v]
        /\ toUri'[v] = toUri[v] /\ Offers'[v] = Offers[v]
    BY <1>1, <1>2 DEF AnswersOK
  <2>2. Told(v)' = Told(v)
    BY <1>1, <2>1 DEF Told
  <2>3. Piped(v)'
    <3>1. Piped(v)
      BY <2>1 DEF AnswerOK
    <3>2. QED
      BY <2>1, <3>1, Zenon DEF Piped
  <2>4. uri[v].link # NoLink => Rests(uri[v].link)
    BY <1>2, OthersRest
  <2>5. QED
    BY <1>1, <2>1, <2>2, <2>3, <2>4 DEF AnswerOK, Rests
<1>3. QED
  BY <1>2 DEF AnswersOK

\* The responses of which t may be told now, it may be told later.
Later(t) ==
  uri'[t].open /\ ~uri'[t].late =>
    uri[t].open /\ ~uri[t].late /\ uri'[t].n = uri[t].n

\* They are no fewer.
LEMMA ToldLater ==
  ASSUME NEW t \in Askers, Later(t), answers \subseteq answers'
  PROVE  Told(t) \subseteq Told(t)'
<1>1. ASSUME NEW d \in Told(t)
      PROVE  d \in Told(t)'
  <2>1. PICK a \in answers :
          a.data = d /\ (uri[t].open /\ ~uri[t].late => a.n = uri[t].n)
    BY <1>1 DEF Told
  <2>2. d \in Bytes /\ a \in answers'
    BY <1>1, <2>1 DEF Told
  <2>3. uri'[t].open /\ ~uri'[t].late => a.n = uri'[t].n
    BY <2>1 DEF Later
  <2>4. QED
    BY <2>1, <2>2, <2>3 DEF Told
<1>2. QED
  BY <1>1

\* A step of a client that asks for nothing new.
LEMMA AnswersQuiet ==
  ASSUME Inv, AnswersOK, NEW t \in Askers, NEW l, l = uri[t].link, Steps(t, l),
         Piped(t)', Later(t), uri'[t].link \in {l, NoLink}, l # NoLink => Speaks(l),
         uri'[t].whole => \/ uri[t].whole /\ uri'[t].received = uri[t].received
                          \/ uri'[t].received \in Told(t)
  PROVE  AnswersOK'
<1>1. blocks' = blocks /\ answers' = answers /\ AnswerOK(t)
  BY DEF Steps, AnswersOK
<1>2. Told(t) \subseteq Told(t)'
  BY <1>1, ToldLater
<1>3. \A b \in BlockIds : blocks[b].closed => SameContent(blocks, blocks', b)
  BY <1>1 DEF SameContent
<1>4. ASSUME NEW i \in 1..Len(Offers'[t])
      PROVE  OffersTold(Offers'[t][i], blocks', Told(t)')
  <2>1. PICK j \in 1..Len(Offers[t]) : Offers'[t][i] = Offers[t][j]
    BY OfferedBefore
  <2>2. OffersTold(Offers[t][j], blocks, Told(t))
    BY <1>1 DEF AnswerOK
  <2>3. QED
    BY <1>2, <1>3, <2>1, <2>2, CarriesMore
<1>5. ASSUME uri'[t].link # NoLink
      PROVE  Tells(transfers'[l], upload'[l], download'[l], blocks', Told(t)')
  <2>1. l # NoLink /\ Speaks(l)
    BY <1>5
  <2>2. Tells(transfers[l], upload[l], download[l], blocks, Told(t))
    BY <1>1, <2>1 DEF AnswerOK
  <2>3. l \in Links /\ upload[l] \in Wire /\ download[l] \in Wire
    BY <2>1, UrisTyped, InvParts
  <2>4. Tells(transfers[l], upload'[l], download'[l], blocks, Told(t))
    BY <2>1, <2>2, <2>3, TellsSpeaks DEF Speaks
  <2>5. Tells(transfers[l], upload'[l], download'[l], blocks', Told(t)')
    BY <1>2, <1>3, <2>4, TellsMore
  <2>6. QED
    BY <2>1, <2>5 DEF Speaks
<1>6. uri'[t].whole => uri'[t].received \in Told(t)'
  BY <1>1, <1>2 DEF AnswerOK
<1>7. uri'[t].link # NoLink => uri'[t].link = l
  OBVIOUS
<1>8. AnswerOK(t)'
  BY <1>4, <1>5, <1>6, <1>7 DEF AnswerOK
<1>9. QED
  BY <1>8, AnswersStep

-----------------------------------------------------------------------------
(* Calls on a link: what they change there.                                *)

\* Nothing but the payloads and the context of a link changes.
Ops(l, up, down) ==
  /\ blocks' = blocks /\ opened' = opened /\ transfers' = transfers
  /\ upload'[l] = up /\ download'[l] = down
  /\ \A k \in Links : k # l => Rests(k)

\* A call that takes a reply, and goes on or ends.
LEMMA TakesOps ==
  ASSUME Inv, NEW l \in Links, NEW c, TakeReply(l, c) \/ CloseLinkTaking(l)
  PROVE  Ops(l, upload[l], Tail(download[l]))
<1> DEFINE e == NoContext
           down == Tail(download[l])
<1>1. /\ blocks' = blocks /\ opened' = opened /\ transfers' = transfers
      /\ upload' = upload /\ download' = [download EXCEPT ![l] = down]
      /\ \/ context' = [context EXCEPT ![l] = c]
         \/ context' = [context EXCEPT ![l] = e]
  BY DEF TakeReply, CloseLinkTaking, ClientKeeps
<1> HIDE DEF e, down
<1>2. download \in [Links -> Wire] /\ context \in [Links -> Contexts]
  BY InvParts, UrisTyped
<1>3. /\ download'[l] = down
      /\ \A k \in Links : k # l => download'[k] = download[k] /\ context'[k] = context[k]
  BY <1>1, <1>2
<1>4. QED
  BY <1>1, <1>3 DEF Ops, Rests, down

\* A call that ends without a reply.
LEMMA ClosesOps ==
  ASSUME Inv, NEW l \in Links, CloseLink(l)
  PROVE  Ops(l, upload[l], download[l])
<1> DEFINE e == NoContext
<1>1. /\ blocks' = blocks /\ opened' = opened /\ transfers' = transfers
      /\ upload' = upload /\ download' = download
      /\ context' = [context EXCEPT ![l] = e]
  BY DEF CloseLink, ClientKeeps
<1> HIDE DEF e
<1>2. context \in [Links -> Contexts]
  BY UrisTyped
<1>3. \A k \in Links : k # l => context'[k] = context[k]
  BY <1>1, <1>2
<1>4. QED
  BY <1>1, <1>3 DEF Ops, Rests

\* A call that sends.
LEMMA SendsOps ==
  ASSUME Inv, NEW l \in Links, NEW p, NEW c, SendTransferPayload(l, p, c)
  PROVE  Ops(l, Append(upload[l], p), download[l])
<1> DEFINE up == Append(upload[l], p)
<1>1. /\ blocks' = blocks /\ opened' = opened /\ transfers' = transfers
      /\ upload' = [upload EXCEPT ![l] = up] /\ download' = download
      /\ context' = [context EXCEPT ![l] = c]
  BY DEF SendTransferPayload, ClientKeeps
<1> HIDE DEF up
<1>2. upload \in [Links -> Wire] /\ context \in [Links -> Contexts]
  BY InvParts, UrisTyped
<1>3. /\ upload'[l] = up
      /\ \A k \in Links : k # l => upload'[k] = upload[k] /\ context'[k] = context[k]
  BY <1>1, <1>2
<1>4. QED
  BY <1>1, <1>3 DEF Ops, Rests, up

\* A call of t on its link l, after which its record is u.
Acts(t, u, l, up, down) ==
  /\ uri' = [uri EXCEPT ![t] = u] /\ l = uri[t].link /\ Ops(l, up, down)
  /\ serving' = serving /\ fromUri' = fromUri /\ served' = served /\ answers' = answers
  /\ \A v \in Askers : v # t => toUri'[v] = toUri[v]

\* Such a call is a step of its client.
LEMMA OpsSteps ==
  ASSUME Inv, NEW t \in Askers, NEW u, NEW l \in Links, NEW up, NEW down,
         Acts(t, u, l, up, down)
  PROVE  /\ l = uri[t].link /\ Steps(t, l) /\ uri'[t] = u /\ Offers'[t] = Offers[t]
         /\ serving'[t] = serving[t] /\ transfers'[l] = transfers[l]
         /\ upload'[l] = up /\ download'[l] = down
<1>1. /\ uri'[t] = u /\ \A v \in Askers : v # t => uri'[v] = uri[v]
  BY UrisTyped DEF Acts
<1>2. Offers' = Offers
  BY DEF Offers, Acts
<1>3. QED
  BY <1>1, <1>2 DEF Steps, Ops, Acts

\* What has ended is as it was otherwise.
LEMMA EndedKeeps ==
  ASSUME NEW u \in Uris
  PROVE  LET v == Ended(u)
         IN  /\ v \in Uris /\ v.call = "None" /\ v.state = "Idle" /\ v.link = NoLink
             /\ v.open = u.open /\ v.late = u.late /\ v.n = u.n
             /\ v.whole = u.whole /\ v.received = u.received
  BY DEF Ended, Uris

-----------------------------------------------------------------------------
(* Calls on a link: what they keep.                                        *)

\* What is to be said of a client's record after a call on its link.
Suits(u, w, D) ==
  /\ u.open = w.open /\ u.late = w.late /\ u.n = w.n
  /\ u.link \in {w.link, NoLink} /\ u.call \notin {"PostResponse", "Response"}
  /\ u.link # NoLink => u.call \in LinkCalls \/ u.state = "ReadResponse"
  /\ u.state = "ReadResponse" => u.call \in {"None", "Sentinel"}
  /\ u.call \in Waits \ {"Abort"} \/ u.state = "ReadResponse" =>
       ~u.whole /\ u.received = <<>>
  /\ u.whole => (w.whole /\ u.received = w.received) \/ u.received \in D

\* What a call may leave to the server, and with which it may not touch post data.
Sends(l, up) ==
  \/ up = upload[l]
  \/ \E p \in TransferPayloads : ~IsRequest(p) /\ up = Append(upload[l], p)

SendsOther(l, up) ==
  \/ up = upload[l]
  \/ \E p \in TransferPayloads :
       /\ ~IsRequest(p) /\ p.command # "TransferDataChunk"
       /\ up = Append(upload[l], p)

\* What it may leave of the replies.
TakesDown(l, down) == down = download[l] \/ (download[l] # <<>> /\ down = Tail(download[l]))

\* What has ended fits.
LEMMA EndedFits ==
  ASSUME NEW u \in Uris, NEW D
  PROVE  Suits(Ended(u), u, D)
<1> DEFINE v == Ended(u)
<1>1. /\ v.call = "None" /\ v.state = "Idle" /\ v.link = NoLink
      /\ v.open = u.open /\ v.late = u.late /\ v.n = u.n
      /\ v.whole = u.whole /\ v.received = u.received
  BY EndedKeeps
<1> HIDE DEF v
<1>2. Suits(v, u, D)
  BY <1>1 DEF Suits, Waits
<1>3. QED
  BY <1>2 DEF v

\* A client with a link is there, and waits for nothing on its own session.
LEMMA LinkedIs ==
  ASSUME Inv, AnswersOK, NEW t \in Askers, uri[t].link # NoLink
  PROVE  /\ uri[t].open /\ serving[t].open
         /\ uri[t].call \notin {"PostResponse", "Response"}
<1>1. Piped(t)
  BY DEF AnswersOK, AnswerOK
<1>2. QED
  BY <1>1 DEF Piped, LinkCalls

\* A call on a link that keeps what is told whole.
LEMMA AnswersLink ==
  ASSUME Inv, AnswersOK, NEW t \in Askers, NEW u, NEW l \in Links, NEW up, NEW down,
         Acts(t, u, l, up, down), toUri'[t] = toUri[t], Suits(u, uri[t], Told(t)),
         Sends(l, up), TakesDown(l, down)
  PROVE  AnswersOK'
<1>1. /\ l = uri[t].link /\ Steps(t, l) /\ uri'[t] = u /\ Offers'[t] = Offers[t]
      /\ serving'[t] = serving[t] /\ transfers'[l] = transfers[l]
      /\ upload'[l] = up /\ download'[l] = down
  BY OpsSteps
<1>2. uri[t].link # NoLink /\ Piped(t)
  BY <1>1, Bounds2 DEF AnswersOK, AnswerOK
<1>3. /\ uri[t].open /\ serving[t].open /\ uri[t].call \notin {"PostResponse", "Response"}
  BY <1>2, LinkedIs
<1>4. Later(t)
  BY <1>1 DEF Suits, Later
<1>5. Piped(t)'
  <2>1. ASSUME u.open, ~u.late
        PROVE  /\ Len(toUri[t]) + Len(Offers[t]) <= 1
               /\ toUri[t] = <<>> /\ Offers[t] = <<>>
    BY <1>2, <1>3, <2>1 DEF Piped, Suits
  <2>2. \A i \in 1..Len(<<>>) : FALSE
    OBVIOUS
  <2>3. u.open
    BY <1>3 DEF Suits
  <2>4. /\ u.link # NoLink => u.call \in LinkCalls \/ u.state = "ReadResponse"
        /\ u.state = "ReadResponse" => u.call \in {"None", "Sentinel"}
        /\ u.call \in Waits \ {"Abort"} \/ u.state = "ReadResponse" =>
             ~u.whole /\ u.received = <<>>
    BY DEF Suits
  <2>5. QED
    BY <1>1, <1>3, <2>1, <2>2, <2>3, <2>4 DEF Piped
<1>6. Speaks(l) /\ u.link \in {l, NoLink}
  BY <1>1 DEF Speaks, Suits, Sends, TakesDown
<1>7. u.whole => (uri[t].whole /\ u.received = uri[t].received) \/ u.received \in Told(t)
  BY DEF Suits
<1>8. QED
  BY <1>1, <1>4, <1>5, <1>6, <1>7, AnswersQuiet

\* A call on a link that is not about post data.
LEMMA LinkQuiet ==
  ASSUME Inv, PostsOK, AnswersOK, NEW t \in Askers, NEW u, NEW l \in Links, NEW up, NEW down,
         Acts(t, u, l, up, down), toUri' = toUri, posted' = posted, Suits(u, uri[t], Told(t)),
         u.call \notin PushCalls, SendsOther(l, up), TakesDown(l, down)
  PROVE  PostsOK' /\ AnswersOK'
<1>1. /\ l = uri[t].link /\ Steps(t, l) /\ uri'[t] = u /\ transfers'[l] = transfers[l] /\ upload'[l] = up
  BY OpsSteps
<1>2. u.call \notin {"PostResponse"} \cup PushCalls
  BY DEF Suits
<1>3. PostsOK'
  <2>1. uri'[t].call \notin {"PostResponse"} \cup PushCalls
    BY <1>1, <1>2
  <2>2. \/ upload'[l] = upload[l]
        \/ \E p \in TransferPayloads :
             /\ ~IsRequest(p) /\ p.command # "TransferDataChunk"
             /\ upload'[l] = Append(upload[l], p)
    BY <1>1 DEF SendsOther
  <2>3. QED
    BY <1>1, <2>1, <2>2, PostsQuiet
<1>4. AnswersOK'
  <2>1. Sends(l, up) /\ toUri'[t] = toUri[t]
    BY DEF Sends, SendsOther
  <2>2. QED
    BY <2>1, AnswersLink
<1>5. QED
  BY <1>3, <1>4

-----------------------------------------------------------------------------
(* Calls on a link that are not about post data.                           *)

\* The requests, the answers and the server are left alone.
UriQuiet ==
  /\ serving' = serving /\ toUri' = toUri /\ fromUri' = fromUri
  /\ posted' = posted /\ served' = served /\ answers' = answers

\* A reply is taken.
LEMMA TakesQuiet ==
  ASSUME Inv, PostsOK, AnswersOK, NEW t \in Askers, NEW u, uri' = [uri EXCEPT ![t] = u],
         NEW l \in Links, l = uri[t].link, UriQuiet, Suits(u, uri[t], Told(t)),
         u.call \notin PushCalls, download[l] # <<>>, NEW c,
         TakeReply(l, c) \/ CloseLinkTaking(l)
  PROVE  PostsOK' /\ AnswersOK'
<1> DEFINE up == upload[l]
           down == Tail(download[l])
<1>1. Ops(l, up, down)
  BY TakesOps
<1>2. SendsOther(l, up) /\ TakesDown(l, down)
  BY DEF SendsOther, TakesDown
<1> HIDE DEF up, down
<1>3. Acts(t, u, l, up, down)
  BY <1>1 DEF Acts, UriQuiet
<1>4. toUri' = toUri /\ posted' = posted
  BY DEF UriQuiet
<1>5. QED
  BY <1>2, <1>3, <1>4, LinkQuiet

\* The link is closed.
LEMMA ClosesQuiet ==
  ASSUME Inv, PostsOK, AnswersOK, NEW t \in Askers, NEW u, uri' = [uri EXCEPT ![t] = u],
         NEW l \in Links, l = uri[t].link, UriQuiet, Suits(u, uri[t], Told(t)),
         u.call \notin PushCalls, CloseLink(l)
  PROVE  PostsOK' /\ AnswersOK'
<1> DEFINE up == upload[l]
           down == download[l]
<1>1. Ops(l, up, down)
  BY ClosesOps
<1>2. SendsOther(l, up) /\ TakesDown(l, down)
  BY DEF SendsOther, TakesDown
<1> HIDE DEF up, down
<1>3. Acts(t, u, l, up, down)
  BY <1>1 DEF Acts, UriQuiet
<1>4. toUri' = toUri /\ posted' = posted
  BY DEF UriQuiet
<1>5. QED
  BY <1>2, <1>3, <1>4, LinkQuiet

\* A reply is taken, or none, and the call has failed.
LEMMA FailsQuiet ==
  ASSUME Inv, PostsOK, AnswersOK, NEW t \in Askers, uri' = [uri EXCEPT ![t] = Ended(uri[t])],
         NEW l \in Links, l = uri[t].link, UriQuiet,
         (download[l] # <<>> /\ CloseLinkTaking(l)) \/ CloseLink(l)
  PROVE  PostsOK' /\ AnswersOK'
<1> DEFINE u == Ended(uri[t])
<1>1. uri[t] \in Uris
  BY UrisTyped
<1>2. Suits(u, uri[t], Told(t)) /\ u.call \notin PushCalls
  BY <1>1, EndedFits, EndedKeeps DEF PushCalls
<1>3. uri' = [uri EXCEPT ![t] = u]
  OBVIOUS
<1> HIDE DEF u
<1>4. CASE download[l] # <<>> /\ CloseLinkTaking(l)
  BY <1>2, <1>3, <1>4, TakesQuiet
<1>5. CASE CloseLink(l)
  BY <1>2, <1>3, <1>5, ClosesQuiet
<1>6. QED
  BY <1>4, <1>5

\* What a call that takes a reply leaves alone.
LEMMA TakesAlone ==
  ASSUME NEW t, NEW call, TakesFromLink(t, call), UNCHANGED uriLinks
  PROVE  UriQuiet
  BY DEF TakesFromLink, AskerKeeps, uriHistory, uriLinks, UriQuiet

\* The reply that a call takes is fair.
LEMMA ReplyFair ==
  ASSUME Inv, AnswersOK, NEW t \in Askers, NEW call, TakesFromLink(t, call), UNCHANGED fromUri
  PROVE  Fair(Reply(uri[t].link), Told(t)) /\ Piped(t)
<1> DEFINE l == uri[t].link
<1>1. l \in Links /\ l # NoLink /\ download[l] # <<>> /\ download[l] \in Wire
  BY TakesIs, InvParts DEF TakesFromLink
<1>2. Tells(transfers[l], upload[l], download[l], blocks, Told(t)) /\ Piped(t)
  BY <1>1 DEF AnswersOK, AnswerOK
<1>3. 1 \in 1..Len(download[l]) /\ Reply(l) = download[l][1]
  BY <1>1 DEF Wire, Reply
<1>4. QED
  BY <1>2, <1>3 DEF Tells

\* OpenPullBlock gets its answer.
LEMMA PullHeaderWhole ==
  ASSUME Inv, PostsOK, AnswersOK, NEW t \in Askers, TakePullHeader(t)
  PROVE  PostsOK' /\ AnswersOK'
<1> DEFINE l == uri[t].link
           p == Reply(l)
           n == p.size
           e == <<>>
           c == [state |-> "InProgress", total |-> n, data |-> e]
           u == [uri[t] EXCEPT !.call = "None", !.state = "ReadResponse"]
           w == [uri[t] EXCEPT !.call = "Abort", !.whole = TRUE]
           v == Ended(uri[t])
           s == Status("Aborted")
           up == Append(upload[l], s)
           down == Tail(download[l])
           Reads == TakeReply(l, c) /\ uri' = [uri EXCEPT ![t] = u]
           Aborts == /\ p.command = "TransferDataHeader" /\ p.size = 0
                     /\ HasRoom(upload[l])
                     /\ download' = [download EXCEPT ![l] = down]
                     /\ upload' = [upload EXCEPT ![l] = up]
                     /\ UNCHANGED context /\ ClientKeeps
                     /\ uri' = [uri EXCEPT ![t] = w]
           Fails == CloseLinkTaking(l) /\ uri' = [uri EXCEPT ![t] = v]
<1>1. /\ TakesFromLink(t, "PullHeader") /\ UNCHANGED uriLinks /\ UNCHANGED fromUri
      /\ Reads \/ Aborts \/ Fails
  BY DEF TakePullHeader, uriLinks
<1>2. UriQuiet
  BY <1>1, TakesAlone
<1>3. /\ uri[t] \in Uris /\ l \in Links /\ download[l] # <<>> /\ uri[t].call = "PullHeader"
  BY <1>1, TakesIs
<1>4. Fair(p, Told(t)) /\ Piped(t)
  BY <1>1, ReplyFair
<1>5. ~uri[t].whole /\ uri[t].received = <<>> /\ uri[t].state # "ReadResponse"
  BY <1>3, <1>4 DEF Piped, Waits
<1>6. CASE Fails
  <2>1. CloseLinkTaking(l) /\ uri' = [uri EXCEPT ![t] = Ended(uri[t])]
    BY <1>6
  <2>2. QED
    BY <1>2, <1>3, <2>1, FailsQuiet
<1>7. CASE Reads
  <2>1. TakeReply(l, c) /\ uri' = [uri EXCEPT ![t] = u]
    BY <1>7
  <2>2. /\ u.open = uri[t].open /\ u.late = uri[t].late /\ u.n = uri[t].n /\ u.link = l
        /\ u.call = "None" /\ u.state = "ReadResponse" /\ u.whole = uri[t].whole
        /\ u.received = uri[t].received
    BY <1>3 DEF Uris
  <2> HIDE DEF c, u
  <2>3. Suits(u, uri[t], Told(t)) /\ u.call \notin PushCalls
    BY <1>5, <2>2 DEF Suits, PushCalls, Waits
  <2>4. QED
    BY <1>2, <1>3, <2>1, <2>3, TakesQuiet
<1>8. CASE Aborts
  <2>1. /\ w.open = uri[t].open /\ w.late = uri[t].late /\ w.n = uri[t].n /\ w.link = l
        /\ w.call = "Abort" /\ w.state = uri[t].state /\ w.whole = TRUE
        /\ w.received = uri[t].received
    BY <1>3 DEF Uris
  <2>2. s \in TransferPayloads /\ ~IsRequest(s) /\ s.command # "TransferDataChunk"
    BY StatusTyped DEF Results, IsRequest
  <2>3. <<>> \in Told(t)
    BY <1>4, <1>8 DEF Fair
  <2>4. Ops(l, up, down)
    <3> HIDE DEF s
    <3>1. /\ download' = [download EXCEPT ![l] = down] /\ upload' = [upload EXCEPT ![l] = up]
          /\ context' = context /\ blocks' = blocks /\ opened' = opened
          /\ transfers' = transfers
      BY <1>8 DEF ClientKeeps
    <3> HIDE DEF up, down
    <3>2. download \in [Links -> Wire] /\ upload \in [Links -> Wire]
      BY InvParts
    <3>3. QED
      BY <1>3, <3>1, <3>2 DEF Ops, Rests
  <2>5. uri' = [uri EXCEPT ![t] = w]
    BY <1>8
  <2> HIDE DEF w, s
  <2>6. SendsOther(l, up) /\ TakesDown(l, down)
    BY <1>3, <2>2 DEF SendsOther, TakesDown
  <2>7. Suits(w, uri[t], Told(t)) /\ w.call \notin PushCalls
    BY <1>5, <2>1, <2>3 DEF Suits, PushCalls, Waits, LinkCalls
  <2> HIDE DEF up, down
  <2>8. Acts(t, w, l, up, down) /\ toUri' = toUri /\ posted' = posted
    BY <1>2, <2>4, <2>5 DEF Acts, UriQuiet
  <2>9. QED
    BY <1>3, <2>6, <2>7, <2>8, LinkQuiet
<1>9. QED
  BY <1>1, <1>6, <1>7, <1>8

\* ReadPullTransferData reads a chunk.
LEMMA ReadResponseWhole ==
  ASSUME Inv, PostsOK, AnswersOK, NEW t \in Askers, ReadResponse(t)
  PROVE  PostsOK' /\ AnswersOK'
<1> DEFINE l == uri[t].link
           c == context[l]
           d == [c EXCEPT !.total = @ - 1, !.data = @ \o Reply(l).data]
           call == IF c.total = 1 THEN "Sentinel" ELSE "None"
           u == [uri[t] EXCEPT !.call = call]
           v == Ended(uri[t])
           Reads == TakeReply(l, d) /\ uri' = [uri EXCEPT ![t] = u]
           Fails == CloseLinkTaking(l) /\ uri' = [uri EXCEPT ![t] = v]
<1>1. /\ TakesFromLink(t, "None") /\ UNCHANGED uriLinks /\ UNCHANGED fromUri
      /\ uri[t].state = "ReadResponse"
      /\ Reads \/ Fails
  BY DEF ReadResponse, uriLinks
<1>2. UriQuiet
  BY <1>1, TakesAlone
<1>3. /\ uri[t] \in Uris /\ l \in Links /\ download[l] # <<>> /\ uri[t].call = "None"
  BY <1>1, TakesIs
<1>4. Piped(t)
  BY <1>1, ReplyFair
<1>5. ~uri[t].whole /\ uri[t].received = <<>>
  BY <1>1, <1>4 DEF Piped
<1>6. CASE Fails
  <2>1. CloseLinkTaking(l) /\ uri' = [uri EXCEPT ![t] = Ended(uri[t])]
    BY <1>6
  <2>2. QED
    BY <1>2, <1>3, <2>1, FailsQuiet
<1>7. CASE Reads
  <2>1. TakeReply(l, d) /\ uri' = [uri EXCEPT ![t] = u]
    BY <1>7
  <2>2. call \in {"None", "Sentinel"}
    OBVIOUS
  <2> HIDE DEF call
  <2>3. /\ u.open = uri[t].open /\ u.late = uri[t].late /\ u.n = uri[t].n /\ u.link = l
        /\ u.call = call /\ u.state = "ReadResponse" /\ u.whole = uri[t].whole
        /\ u.received = uri[t].received
    BY <1>1, <1>3 DEF Uris
  <2> HIDE DEF d, u
  <2>4. Suits(u, uri[t], Told(t)) /\ u.call \notin PushCalls
    BY <1>5, <2>2, <2>3 DEF Suits, PushCalls, Waits
  <2>5. QED
    BY <1>2, <1>3, <2>1, <2>4, TakesQuiet
<1>8. QED
  BY <1>1, <1>6, <1>7

\* It reads the sentinel: what it read is whole if the checksum says so.
LEMMA PullSentinelWhole ==
  ASSUME Inv, PostsOK, AnswersOK, NEW t \in Askers, TakePullSentinel(t)
  PROVE  PostsOK' /\ AnswersOK'
<1> DEFINE l == uri[t].link
           data == context[l].data
           p == Reply(l)
           right == p = Sentinel("Success", data)
           v == Ended(uri[t])
           x == IF right THEN data ELSE uri[t].received
           u == [v EXCEPT !.whole = right, !.received = x]
<1>1. /\ TakesFromLink(t, "Sentinel") /\ UNCHANGED uriLinks /\ UNCHANGED fromUri
      /\ CloseLinkTaking(l)
  BY DEF TakePullSentinel, uriLinks
<1>2. uri' = [uri EXCEPT ![t] = u]
  BY DEF TakePullSentinel
<1>3. UriQuiet
  BY <1>1, TakesAlone
<1>4. /\ uri[t] \in Uris /\ l \in Links /\ download[l] # <<>> /\ context[l] \in Contexts
  BY <1>1, TakesIs
<1>5. Fair(p, Told(t))
  BY <1>1, ReplyFair
<1>6. right => x \in Told(t)
  <2>1. data \in Bytes /\ "Success" \in Results
    BY <1>4 DEF Contexts, Results
  <2>2. ASSUME right
        PROVE  data \in Told(t)
    <3> HIDE DEF data, p
    <3>1. p = Sentinel("Success", data)
      BY <2>2
    <3>2. p.command = "TransferDataSentinel" /\ p.result = "Success" /\ p.data = data
      BY <2>1, <3>1, SentinelTyped
    <3>3. QED
      BY <1>5, <3>2 DEF Fair
  <2>3. QED
    BY <2>2
<1>7. /\ v \in Uris /\ v.call = "None" /\ v.state = "Idle" /\ v.link = NoLink
      /\ v.open = uri[t].open /\ v.late = uri[t].late /\ v.n = uri[t].n
  BY <1>4, EndedKeeps
<1> HIDE DEF v, x, right
<1>8. /\ u.open = v.open /\ u.late = v.late /\ u.n = v.n /\ u.link = v.link
      /\ u.call = v.call /\ u.state = v.state /\ u.whole = right /\ u.received = x
  BY <1>7 DEF Uris
<1> HIDE DEF u
<1>9. Suits(u, uri[t], Told(t)) /\ u.call \notin PushCalls
  BY <1>6, <1>7, <1>8 DEF Suits, PushCalls, Waits
<1>10. QED
  BY <1>1, <1>2, <1>3, <1>4, <1>9, TakesQuiet

\* ClosePullBlock aborts the transfer.
LEMMA AbortWhole ==
  ASSUME Inv, PostsOK, AnswersOK, NEW t \in Askers, AbortRequest(t)
  PROVE  PostsOK' /\ AnswersOK'
<1> DEFINE l == uri[t].link
           c == context[l]
           p == Status("Aborted")
           u == [uri[t] EXCEPT !.state = "Idle", !.call = "Abort"]
           up == Append(upload[l], p)
           down == download[l]
<1>1. /\ uri[t].call = "None" /\ uri[t].state = "ReadResponse"
      /\ SendTransferPayload(l, p, c) /\ uri' = [uri EXCEPT ![t] = u] /\ UriQuiet
  BY DEF AbortRequest, AskerKeeps, uriLinks, uriHistory, UriQuiet
<1>2. uri[t] \in Uris /\ l \in Links /\ Piped(t)
  BY <1>1, UrisTyped DEF Inv, AskersOK, OnLink, AnswersOK, AnswerOK
<1>3. p \in TransferPayloads /\ ~IsRequest(p) /\ p.command # "TransferDataChunk"
  BY StatusTyped DEF Results, IsRequest
<1>4. Ops(l, up, down)
  BY <1>1, <1>2, SendsOps
<1>5. /\ u.open = uri[t].open /\ u.late = uri[t].late /\ u.n = uri[t].n /\ u.link = l
      /\ u.call = "Abort" /\ u.state = "Idle" /\ u.whole = uri[t].whole
      /\ u.received = uri[t].received
  BY <1>2 DEF Uris
<1> HIDE DEF p, c, u
<1>6. Suits(u, uri[t], Told(t)) /\ u.call \notin PushCalls
  BY <1>5 DEF Suits, PushCalls, Waits, LinkCalls
<1>7. SendsOther(l, up) /\ TakesDown(l, down)
  BY <1>3 DEF SendsOther, TakesDown
<1> HIDE DEF up, down
<1>8. Acts(t, u, l, up, down) /\ toUri' = toUri /\ posted' = posted
  BY <1>1, <1>4 DEF Acts, UriQuiet
<1>9. QED
  BY <1>2, <1>6, <1>7, <1>8, LinkQuiet

\* It waits for the sentinel.
LEMMA DiscardWhole ==
  ASSUME Inv, PostsOK, AnswersOK, NEW t \in Askers, DiscardUntilSentinel(t)
  PROVE  PostsOK' /\ AnswersOK'
<1> DEFINE l == uri[t].link
           c == context[l]
           u == uri[t]
           v == Ended(uri[t])
<1>1. /\ TakesFromLink(t, "Abort") /\ UNCHANGED uriLinks /\ UNCHANGED fromUri
      /\ \/ TakeReply(l, c) /\ uri' = uri
         \/ CloseLinkTaking(l) /\ uri' = [uri EXCEPT ![t] = v]
  BY DEF DiscardUntilSentinel, uriLinks
<1>2. UriQuiet
  BY <1>1, TakesAlone
<1>3. /\ uri[t] \in Uris /\ l \in Links /\ download[l] # <<>> /\ uri[t].call = "Abort"
  BY <1>1, TakesIs
<1>4. Piped(t)
  BY <1>1, ReplyFair
<1>5. CASE CloseLinkTaking(l) /\ uri' = [uri EXCEPT ![t] = v]
  BY <1>2, <1>3, <1>5, FailsQuiet
<1>6. CASE TakeReply(l, c) /\ uri' = uri
  <2>1. uri' = [uri EXCEPT ![t] = u]
    BY <1>6, UrisTyped
  <2>2. Suits(u, uri[t], Told(t)) /\ u.call \notin PushCalls
    BY <1>3, <1>4 DEF Suits, PushCalls, Waits, LinkCalls, Piped
  <2> HIDE DEF c, u
  <2>3. QED
    BY <1>2, <1>3, <1>6, <2>1, <2>2, TakesQuiet
<1>7. QED
  BY <1>1, <1>5, <1>6

-----------------------------------------------------------------------------
(* Calls on a link that push post data.                                    *)

\* What is sent to a push is the next chunk of its request, or no chunk.
InOrder(f, l, up) ==
  \/ up = upload[l]
  \/ \E p \in TransferPayloads :
       /\ ~IsRequest(p) /\ up = Append(upload[l], p)
       /\ transfers[l].state \in Pushes /\ p.command = "TransferDataChunk" =>
            p.data = <<<<f[transfers[l].block], transfers[l].done + Len(upload[l]) + 1>>>>

\* A link that is pushed wants its block.
LEMMA PushedIs ==
  ASSUME Inv, NEW l \in Links, transfers[l].state \in Pushes
  PROVE  transfers[l].block = Wants[l] /\ Wants[l] # NoBlock
  BY DEF Inv, LinksOK, Sound, Wants, Wanted

\* A call on a link that pushes goes on.
LEMMA PushStep ==
  ASSUME Inv, PostsOK, AnswersOK, NEW t \in Askers, NEW u, NEW l \in Links, NEW up, NEW down,
         Acts(t, u, l, up, down), toUri' = toUri, posted' = posted, Suits(u, uri[t], Told(t)),
         Sends(l, up), TakesDown(l, down), NEW f \in Plans, Follow(f), InOrder(f, l, up),
         u.link = l, u.call \in PushCalls, uri[t].call \in PushCalls,
         u.n = uri[t].n, u.size = uri[t].size, u.block = uri[t].block,
         transfers[l].state \in Pushes =>
           /\ u.call = "PushStatus" => up = <<>> /\ transfers[l].done = 0
           /\ u.call = "Write" => u.size - u.left = transfers[l].done + Len(up)
  PROVE  PostsOK' /\ AnswersOK'
<1>1. /\ Steps(t, l) /\ uri'[t] = u /\ transfers'[l] = transfers[l] /\ upload'[l] = up
      /\ uri[t].link = l
  BY OpsSteps
<1>2. LinkFollows(f, l) /\ AskerFollows(f, uri[t]) /\ Posts(uri[t]) /\ blocks' = blocks
  BY <1>1 DEF Follow, PostsOK, Steps
<1>3. LinkFollows(f, l)' /\ Wants'[l] = Wants[l]
  <2>1. \/ upload'[l] = upload[l]
        \/ \E p \in TransferPayloads :
             /\ ~IsRequest(p) /\ upload'[l] = Append(upload[l], p)
             /\ transfers[l].state \in Pushes /\ p.command = "TransferDataChunk" =>
                  p.data = <<<<f[transfers[l].block],
                               transfers[l].done + Len(upload[l]) + 1>>>>
    BY <1>1 DEF InOrder
  <2>2. QED
    BY <1>1, <1>2, <2>1, FollowSpeaks
<1>4. Posts(uri[t])'
  BY <1>1, <1>2 DEF Posts, PushCalls
<1>5. AskerFollows(f, uri[t])'
  <2>1. /\ u.block \in BlockIds /\ f[u.block] = u.n /\ Wants[l] \in {NoBlock, u.block}
    BY <1>1, <1>2 DEF AskerFollows
  <2>2. QED
    BY <1>1, <1>3, <2>1 DEF AskerFollows
<1>6. Posted(t) /\ Plans2(f, f)
  BY SamePlan DEF Posted
<1>7. \A i \in 1..Len(toUri'[t]) : RequestFollows(f, toUri[t][i])'
  BY <1>6, RequestsBefore
<1>8. PostsOK'
  BY <1>1, <1>3, <1>4, <1>5, <1>6, <1>7, PostsStep
<1>9. toUri'[t] = toUri[t]
  OBVIOUS
<1>10. AnswersOK'
  BY <1>9, AnswersLink
<1>11. QED
  BY <1>8, <1>10

\* A block is pushed for a request.
LEMMA PlanIs ==
  ASSUME PostsOK
  PROVE  \E f \in Plans : Follow(f)
  BY DEF PostsOK, Plans

\* OpenPushBlock gets its answer.
LEMMA PushStatusWhole ==
  ASSUME Inv, PostsOK, AnswersOK, NEW t \in Askers, TakePushStatus(t)
  PROVE  PostsOK' /\ AnswersOK'
<1> DEFINE l == uri[t].link
           size == uri[t].size
           e == <<>>
           c == [state |-> "InProgress", total |-> size, data |-> e]
           u == [uri[t] EXCEPT !.call = "Write", !.left = size]
           v == Ended(uri[t])
           up == upload[l]
           down == Tail(download[l])
<1>1. /\ TakesFromLink(t, "PushStatus") /\ UNCHANGED uriLinks /\ UNCHANGED fromUri
      /\ \/ TakeReply(l, c) /\ uri' = [uri EXCEPT ![t] = u]
         \/ CloseLinkTaking(l) /\ uri' = [uri EXCEPT ![t] = v]
  BY DEF TakePushStatus, uriLinks
<1>2. UriQuiet
  BY <1>1, TakesAlone
<1>3. /\ uri[t] \in Uris /\ l \in Links /\ download[l] # <<>> /\ uri[t].call = "PushStatus"
  BY <1>1, TakesIs
<1>4. Piped(t)
  BY <1>1, ReplyFair
<1>5. CASE CloseLinkTaking(l) /\ uri' = [uri EXCEPT ![t] = v]
  BY <1>2, <1>3, <1>5, FailsQuiet
<1>6. CASE TakeReply(l, c) /\ uri' = [uri EXCEPT ![t] = u]
  <2>1. ~uri[t].whole /\ uri[t].received = <<>> /\ uri[t].state # "ReadResponse"
    BY <1>3, <1>4 DEF Piped, Waits
  <2>2. /\ u.open = uri[t].open /\ u.late = uri[t].late /\ u.n = uri[t].n /\ u.link = l
        /\ u.call = "Write" /\ u.state = uri[t].state /\ u.whole = uri[t].whole
        /\ u.received = uri[t].received /\ u.size = size /\ u.left = size
        /\ u.block = uri[t].block
    BY <1>3 DEF Uris
  <2>3. PICK f \in Plans : Follow(f)
    BY PlanIs
  <2>4. AskerFollows(f, uri[t])
    BY <2>3 DEF Follow
  <2>5. transfers[l].state \in Pushes => up = <<>> /\ transfers[l].done = 0
    BY <1>3, <2>4 DEF AskerFollows, PushCalls
  <2>6. Ops(l, up, down)
    BY <1>3, <1>6, TakesOps
  <2>7. size \in Nat /\ transfers[l].done \in Nat
    <3>1. size \in Nat
      BY <1>3, Bounds DEF Uris
    <3>2. transfers[l] \in TransferSessions
      BY <1>3, InvParts
    <3>3. QED
      BY <3>1, <3>2, Bounds DEF TransferSessions
  <2>8. transfers[l].state \in Pushes => size - size = transfers[l].done + Len(up)
    <3> HIDE DEF size, up
    <3>1. up = <<>> => Len(up) = 0
      OBVIOUS
    <3>2. size - size = 0
      BY <2>7
    <3>3. QED
      BY <2>5, <3>1, <3>2
  <2> HIDE DEF c, u, size
  <2>9. Suits(u, uri[t], Told(t))
    BY <2>1, <2>2 DEF Suits, LinkCalls
  <2>10. Sends(l, up) /\ TakesDown(l, down) /\ InOrder(f, l, up)
    BY <1>3 DEF Sends, TakesDown, InOrder
  <2> HIDE DEF up, down
  <2>11. Acts(t, u, l, up, down) /\ toUri' = toUri /\ posted' = posted
    BY <1>2, <1>6, <2>6 DEF Acts, UriQuiet
  <2>12. u.call \in PushCalls /\ uri[t].call \in PushCalls
    BY <1>3, <2>2 DEF PushCalls
  <2>13. /\ u.link = l /\ u.n = uri[t].n /\ u.size = uri[t].size /\ u.block = uri[t].block
         /\ transfers[l].state \in Pushes =>
              /\ u.call = "PushStatus" => up = <<>> /\ transfers[l].done = 0
              /\ u.call = "Write" => u.size - u.left = transfers[l].done + Len(up)
    BY <2>2, <2>8 DEF size
  <2>14. QED
    BY <1>3, <2>3, <2>9, <2>10, <2>11, <2>12, <2>13, PushStep
<1>7. QED
  BY <1>1, <1>5, <1>6

\* One more was written, and one more waits.
LEMMA OneMore ==
  ASSUME NEW size \in Nat, NEW left \in Nat, NEW done \in Nat, NEW len \in Nat,
         size - left = done + len
  PROVE  /\ size - left + 1 = done + len + 1
         /\ size - (left - 1) = done + (len + 1)
  OBVIOUS

\* WritePushTransferData sends a chunk.
LEMMA WriteChunkWhole ==
  ASSUME Inv, PostsOK, AnswersOK, NEW t \in Askers, WriteChunk(t)
  PROVE  PostsOK' /\ AnswersOK'
<1> DEFINE l == uri[t].link
           place == uri[t].size - uri[t].left + 1
           one == <<<<uri[t].n, place>>>>
           p == Chunk(one)
           c == Summed(t)
           left == uri[t].left - 1
           u == [uri[t] EXCEPT !.left = left]
           up == Append(upload[l], p)
           down == download[l]
<1>1. /\ uri[t].call = "Write" /\ uri[t].left > 0
      /\ SendTransferPayload(l, p, c) /\ uri' = [uri EXCEPT ![t] = u] /\ UriQuiet
  BY DEF WriteChunk, AskerKeeps, uriLinks, uriHistory, UriQuiet
<1>2. l \in Links /\ upload[l] \in Wire /\ transfers[l] \in TransferSessions
  BY <1>1, UrisTyped, InvParts DEF Inv, AskersOK, OnLink, LinkCalls
<1>3. /\ one \in Bytes /\ Len(one) = 1 /\ uri[t] \in Uris
  BY <1>1, <1>2, SummedIs
<1>4. /\ p \in TransferPayloads /\ ~IsRequest(p) /\ p.data = one
  BY <1>3, ChunkTyped DEF IsRequest
<1>5. Ops(l, up, down)
  BY <1>1, <1>2, SendsOps
<1>6. /\ u.open = uri[t].open /\ u.late = uri[t].late /\ u.n = uri[t].n /\ u.link = l
      /\ u.call = uri[t].call /\ u.state = uri[t].state /\ u.whole = uri[t].whole
      /\ u.received = uri[t].received /\ u.size = uri[t].size /\ u.left = left
      /\ u.block = uri[t].block
  BY <1>3 DEF Uris
<1>7. PICK f \in Plans : Follow(f)
  BY PlanIs
<1>8. transfers[l].state \in Pushes =>
        /\ f[transfers[l].block] = uri[t].n
        /\ uri[t].size - uri[t].left = transfers[l].done + Len(upload[l])
  <2>1. AskerFollows(f, uri[t])
    BY <1>7 DEF Follow
  <2>2. /\ f[uri[t].block] = uri[t].n /\ Wants[l] \in {NoBlock, uri[t].block}
        /\ transfers[l].state \in Pushes =>
             uri[t].size - uri[t].left = transfers[l].done + Len(upload[l])
    BY <1>1, <2>1 DEF AskerFollows, PushCalls
  <2>3. QED
    BY <1>2, <2>2, PushedIs
<1>9. /\ uri[t].size \in Nat /\ uri[t].left \in Nat /\ transfers[l].done \in Nat
      /\ Len(upload[l]) \in Nat /\ Len(up) = Len(upload[l]) + 1
  <2>1. uri[t].size \in Nat /\ uri[t].left \in Nat /\ transfers[l].done \in Nat
    BY <1>2, <1>3, Bounds DEF Uris, TransferSessions
  <2> HIDE DEF p
  <2>2. Len(upload[l]) \in Nat /\ Len(up) = Len(upload[l]) + 1
    BY <1>2, <1>4 DEF Wire
  <2>3. QED
    BY <2>1, <2>2
<1>10. transfers[l].state \in Pushes =>
         /\ place = transfers[l].done + Len(upload[l]) + 1
         /\ uri[t].size - left = transfers[l].done + Len(up)
  <2> HIDE DEF p, up
  <2>1. ASSUME transfers[l].state \in Pushes
        PROVE  /\ place = transfers[l].done + Len(upload[l]) + 1
               /\ uri[t].size - left = transfers[l].done + (Len(upload[l]) + 1)
    <3> DEFINE n == uri[t].size
               m == uri[t].left
               k == transfers[l].done
               x == Len(upload[l])
    <3>1. /\ n \in Nat /\ m \in Nat /\ k \in Nat /\ x \in Nat /\ n - m = k + x
          /\ place = n - m + 1 /\ left = m - 1
      BY <1>8, <1>9, <2>1
    <3> HIDE DEF n, m, k, x, place, left
    <3>2. n - m + 1 = k + x + 1 /\ n - (m - 1) = k + (x + 1)
      BY <3>1, OneMore
    <3>3. QED
      BY <3>1, <3>2 DEF n, k, x
  <2>2. QED
    BY <1>9, <2>1
<1>11. Suits(u, uri[t], Told(t))
  <2>1. Piped(t)
    BY DEF AnswersOK, AnswerOK
  <2> HIDE DEF u
  <2>2. QED
    BY <1>1, <1>6, <2>1 DEF Suits, LinkCalls, Piped
<1>12. InOrder(f, l, up)
  <2> HIDE DEF place, p
  <2>1. transfers[l].state \in Pushes =>
          p.data = <<<<f[transfers[l].block], transfers[l].done + Len(upload[l]) + 1>>>>
    BY <1>4, <1>8, <1>10
  <2>2. QED
    BY <1>4, <2>1 DEF InOrder
<1> HIDE DEF p, c, left, one, u, place
<1>13. Sends(l, up) /\ TakesDown(l, down)
  BY <1>4 DEF Sends, TakesDown
<1> HIDE DEF up, down
<1>14. Acts(t, u, l, up, down) /\ toUri' = toUri /\ posted' = posted
  BY <1>1, <1>5 DEF Acts, UriQuiet
<1>15. u.call \in PushCalls /\ uri[t].call \in PushCalls
  BY <1>1, <1>6 DEF PushCalls
<1>16. /\ u.link = l /\ u.n = uri[t].n /\ u.size = uri[t].size /\ u.block = uri[t].block
       /\ transfers[l].state \in Pushes =>
            /\ u.call = "PushStatus" => up = <<>> /\ transfers[l].done = 0
            /\ u.call = "Write" => u.size - u.left = transfers[l].done + Len(up)
  BY <1>1, <1>6, <1>10
<1>17. QED
  BY <1>2, <1>7, <1>11, <1>12, <1>13, <1>14, <1>15, <1>16, PushStep

\* It has to send a chunk again.
LEMMA WriteTimesOutWhole ==
  ASSUME Inv, PostsOK, AnswersOK, NEW t \in Askers, WriteTimesOut(t)
  PROVE  PostsOK' /\ AnswersOK'
<1> DEFINE l == uri[t].link
           u == uri[t]
           c == Summed(t)
           up == upload[l]
           down == download[l]
<1>1. /\ uri[t].call = "Write" /\ UriQuiet
      /\ context' = [context EXCEPT ![l] = c]
      /\ blocks' = blocks /\ opened' = opened /\ transfers' = transfers
      /\ upload' = upload /\ download' = download /\ uri' = uri
  BY DEF WriteTimesOut, ClientKeeps, uriLinks, uriHistory, UriQuiet
<1>2. l \in Links /\ u \in Uris /\ uri' = [uri EXCEPT ![t] = u]
  BY <1>1, UrisTyped DEF Inv, AskersOK, OnLink, LinkCalls
<1> HIDE DEF c
<1>3. Ops(l, up, down)
  BY <1>1, UrisTyped DEF Ops, Rests
<1>4. PICK f \in Plans : Follow(f)
  BY PlanIs
<1>5. AskerFollows(f, uri[t])
  BY <1>4 DEF Follow
<1>6. transfers[l].state \in Pushes => u.size - u.left = transfers[l].done + Len(up)
  BY <1>1, <1>5 DEF AskerFollows, PushCalls
<1>7. Suits(u, uri[t], Told(t))
  <2>1. Piped(t)
    BY DEF AnswersOK, AnswerOK
  <2>2. QED
    BY <1>1, <2>1 DEF Suits, LinkCalls, Piped
<1>8. Sends(l, up) /\ TakesDown(l, down) /\ InOrder(f, l, up)
  BY DEF Sends, TakesDown, InOrder
<1>9. u.call = "Write" /\ uri[t].call = "Write"
  BY <1>1
<1>10. /\ u.link = l /\ u.n = uri[t].n /\ u.size = uri[t].size /\ u.block = uri[t].block
  OBVIOUS
<1> HIDE DEF u, up, down
<1>11. Acts(t, u, l, up, down) /\ toUri' = toUri /\ posted' = posted
  BY <1>1, <1>2, <1>3 DEF Acts, UriQuiet
<1>12. u.call \in PushCalls /\ uri[t].call \in PushCalls
  BY <1>9 DEF PushCalls
<1>13. transfers[l].state \in Pushes =>
         /\ u.call = "PushStatus" => up = <<>> /\ transfers[l].done = 0
         /\ u.call = "Write" => u.size - u.left = transfers[l].done + Len(up)
  BY <1>6, <1>9
<1>14. QED
  BY <1>2, <1>4, <1>7, <1>8, <1>10, <1>11, <1>12, <1>13, PushStep

\* ClosePushTransfer sends the sentinel.
LEMMA FinalizeWhole ==
  ASSUME Inv, PostsOK, AnswersOK, NEW t \in Askers, FinalizePush(t)
  PROVE  PostsOK' /\ AnswersOK'
<1> DEFINE l == uri[t].link
           c == context[l]
           p == Sentinel("Success", c.data)
           u == [uri[t] EXCEPT !.call = "PushResult"]
           up == Append(upload[l], p)
           down == download[l]
<1>1. /\ uri[t].call = "Write" /\ SendTransferPayload(l, p, c)
      /\ uri' = [uri EXCEPT ![t] = u] /\ UriQuiet
  BY DEF FinalizePush, AskerKeeps, uriLinks, uriHistory, UriQuiet
<1>2. uri[t] \in Uris /\ l \in Links
  BY <1>1, UrisTyped DEF Inv, AskersOK, OnLink, LinkCalls
<1>3. c.data \in Bytes
  <2>1. c \in Contexts
    BY <1>2, UrisTyped
  <2>2. QED
    BY <2>1 DEF Contexts
<1>4. p \in TransferPayloads /\ ~IsRequest(p) /\ p.command # "TransferDataChunk"
  BY <1>3, SentinelTyped DEF Results, IsRequest
<1>5. Ops(l, up, down)
  BY <1>1, <1>2, SendsOps
<1>6. /\ u.open = uri[t].open /\ u.late = uri[t].late /\ u.n = uri[t].n /\ u.link = l
      /\ u.call = "PushResult" /\ u.state = uri[t].state /\ u.whole = uri[t].whole
      /\ u.received = uri[t].received /\ u.size = uri[t].size
      /\ u.block = uri[t].block
  BY <1>2 DEF Uris
<1>7. PICK f \in Plans : Follow(f)
  BY PlanIs
<1> HIDE DEF p, c, u
<1>8. Suits(u, uri[t], Told(t))
  <2>1. Piped(t)
    BY DEF AnswersOK, AnswerOK
  <2>2. ~uri[t].whole /\ uri[t].received = <<>> /\ uri[t].state # "ReadResponse"
    BY <1>1, <2>1 DEF Piped, Waits
  <2>3. QED
    BY <1>6, <2>2 DEF Suits, LinkCalls
<1>9. Sends(l, up) /\ TakesDown(l, down) /\ InOrder(f, l, up)
  BY <1>4 DEF Sends, TakesDown, InOrder
<1> HIDE DEF up, down
<1>10. Acts(t, u, l, up, down) /\ toUri' = toUri /\ posted' = posted
  BY <1>1, <1>5 DEF Acts, UriQuiet
<1>11. u.call \in PushCalls /\ uri[t].call \in PushCalls
  BY <1>1, <1>6 DEF PushCalls
<1>12. /\ u.link = l /\ u.n = uri[t].n /\ u.size = uri[t].size /\ u.block = uri[t].block
       /\ transfers[l].state \in Pushes =>
            /\ u.call = "PushStatus" => up = <<>> /\ transfers[l].done = 0
            /\ u.call = "Write" => u.size - u.left = transfers[l].done + Len(up)
  BY <1>6
<1>13. QED
  BY <1>2, <1>7, <1>8, <1>9, <1>10, <1>11, <1>12, PushStep

\* A request that posts nothing posts the right thing.
LEMMA NothingPosted ==
  ASSUME NEW n \in Int
  PROVE  Content(n, 0) = <<>>
<1> DEFINE z == 0
<1>1. z \in 0..MaxSize
  BY Bounds
<1> HIDE DEF z
<1>2. Content(n, z) \in Seq(Int \X Nat) /\ Len(Content(n, z)) = z
  BY <1>1, ContentTyped DEF Bytes
<1> DEFINE q == Content(n, z)
<1> HIDE DEF q
<1>3. Len(q) = 0
  BY <1>2 DEF q, z
<1>4. q = <<>>
  BY <1>2, <1>3, NoElement DEF q
<1>5. QED
  BY <1>4 DEF q, z

\* The request follows its post data.
LEMMA PushResultLink ==
  ASSUME Inv, PostsOK, AnswersOK, NEW t \in Askers, TakePushResult(t), NEW l, l = uri[t].link
  PROVE  PostsOK' /\ AnswersOK'
<1> DEFINE v == Ended(uri[t])
           u == [v EXCEPT !.call = "Response"]
           e == <<>>
           p == URIRequest(uri[t].n, uri[t].block, uri[t].size, e)
           a == Append(toUri[t], p)
           up == upload[l]
           down == Tail(download[l])
<1>1. /\ TakesFromLink(t, "PushResult") /\ CloseLinkTaking(l) /\ fromUri' = fromUri
      /\ \/ toUri' = [toUri EXCEPT ![t] = a] /\ uri' = [uri EXCEPT ![t] = u]
         \/ toUri' = toUri /\ uri' = [uri EXCEPT ![t] = v]
  BY DEF TakePushResult
<1>2. /\ uri[t] \in Uris /\ l \in Links /\ download[l] # <<>> /\ uri[t].call = "PushResult"
      /\ toUri \in [Askers -> Seq(UriPayloads)]
  BY <1>1, TakesIs
<1>3. /\ serving' = serving /\ posted' = posted /\ served' = served /\ answers' = answers
  BY <1>1 DEF TakesFromLink, AskerKeeps, uriHistory
<1>4. Piped(t)
  BY <1>1, ReplyFair
<1>5. CASE toUri' = toUri /\ uri' = [uri EXCEPT ![t] = v]
  <2>1. UriQuiet
    BY <1>1, <1>3, <1>5 DEF UriQuiet
  <2>2. QED
    BY <1>1, <1>2, <1>5, <2>1, FailsQuiet
<1>6. CASE toUri' = [toUri EXCEPT ![t] = a] /\ uri' = [uri EXCEPT ![t] = u]
  <2>1. /\ v \in Uris /\ v.call = "None" /\ v.state = "Idle" /\ v.link = NoLink
        /\ v.open = uri[t].open /\ v.late = uri[t].late /\ v.n = uri[t].n
        /\ v.whole = uri[t].whole /\ v.received = uri[t].received
    BY <1>2, EndedKeeps
  <2> HIDE DEF v
  <2>2. /\ u.open = uri[t].open /\ u.late = uri[t].late /\ u.n = uri[t].n /\ u.link = NoLink
        /\ u.call = "Response" /\ u.state = "Idle" /\ u.whole = uri[t].whole
        /\ u.received = uri[t].received
    BY <2>1 DEF Uris
  <2>3. /\ p.command = "URIRequest" /\ p.n = uri[t].n /\ p.block = uri[t].block
        /\ p.size = uri[t].size /\ p.data = e
    BY DEF URIRequest, UriPayload
  <2>4. Ops(l, up, down)
    BY <1>1, <1>2, TakesOps
  <2>5. SendsOther(l, up) /\ Sends(l, up) /\ TakesDown(l, down)
    BY <1>2 DEF SendsOther, Sends, TakesDown
  <2> HIDE DEF u, p
  <2>6. toUri'[t] = a /\ \A w \in Askers : w # t => toUri'[w] = toUri[w]
    BY <1>2, <1>6
  <2>7. \A i \in 1..Len(a) : (i \in 1..Len(toUri[t]) /\ a[i] = toUri[t][i]) \/ a[i] = p
    BY <1>2
  <2>8. toUri[t] = <<>> => Len(a) = 1
    BY <1>2
  <2> HIDE DEF up, down, a
  <2>9. Acts(t, u, l, up, down)
    BY <1>1, <1>3, <1>6, <2>4, <2>6 DEF Acts
  <2>10. /\ l = uri[t].link /\ Steps(t, l) /\ uri'[t] = u /\ Offers'[t] = Offers[t]
         /\ serving'[t] = serving[t] /\ transfers'[l] = transfers[l]
         /\ upload'[l] = up /\ download'[l] = down
    BY <1>2, <2>9, OpsSteps
  <2>11. PICK f \in Plans : Follow(f)
    BY PlanIs
  <2>12. LinkFollows(f, l) /\ AskerFollows(f, uri[t]) /\ Posts(uri[t])
    BY <1>2, <2>11 DEF Follow, PostsOK
  <2>13. PostsOK'
    <3>1. Posted(t) /\ Plans2(f, f)
      BY <1>3, SamePlan DEF Posted
    <3>2. LinkFollows(f, l)'
      <4>1. upload'[l] = upload[l] /\ blocks' = blocks
        BY <2>10 DEF up, Steps
      <4>2. QED
        BY <1>2, <2>10, <2>11, <2>12, <4>1, FollowSpeaks
    <3>3. Posts(uri[t])' /\ AskerFollows(f, uri[t])'
      BY <2>2, <2>10 DEF Posts, AskerFollows, PushCalls
    <3>4. /\ p.n \in 1..Len(posted') /\ p.size = posted'[p.n]
          /\ IF p.block = NoBlock \/ p.size = 0 THEN p.data = Content(p.n, p.size)
             ELSE f[p.block] = p.n
      <4>1. /\ uri[t].n \in 1..Len(posted) /\ uri[t].size = posted[uri[t].n]
            /\ uri[t].block \in BlockIds /\ f[uri[t].block] = uri[t].n
        BY <1>2, <2>12 DEF Posts, AskerFollows, PushCalls
      <4>2. p.block # NoBlock
        BY <2>3, <4>1, Bounds
      <4>3. uri[t].n \in Int
        BY <1>2, Bounds2 DEF Uris
      <4>4. p.size = 0 => p.data = Content(p.n, p.size)
        BY <2>3, <4>3, NothingPosted
      <4>5. QED
        BY <1>3, <2>3, <4>1, <4>2, <4>4
    <3>5. ASSUME NEW i \in 1..Len(toUri'[t])
          PROVE  RequestFollows(f, toUri[t][i])'
      <4>1. CASE i \in 1..Len(toUri[t]) /\ toUri'[t][i] = toUri[t][i]
        BY <2>11, <3>1, <4>1, RequestsBefore
      <4>2. CASE toUri'[t][i] = p
        BY <3>4, <4>2 DEF RequestFollows
      <4>3. QED
        <5>1. i \in 1..Len(a) /\ toUri'[t][i] = a[i]
          BY <2>6
        <5>2. QED
          BY <2>7, <4>1, <4>2, <5>1
    <3>6. QED
      BY <2>10, <2>11, <3>1, <3>2, <3>3, <3>5, PostsStep
  <2>14. ~uri[t].whole /\ uri[t].received = <<>>
    BY <1>2, <1>4 DEF Piped, Waits
  <2>15. Piped(t)'
    <3>1. uri[t].open /\ serving[t].open /\ uri[t].link # NoLink
      BY <1>2, LinkedIs, Bounds2
    <3>2. ASSUME ~u.late
          PROVE  /\ Len(a) + Len(Offers[t]) <= 1
                 /\ \A i \in 1..Len(a) : a[i].command = "URIRequest" => a[i].n = u.n
      <4>1. toUri[t] = <<>> /\ Offers[t] = <<>>
        BY <1>2, <1>4, <2>2, <3>1, <3>2 DEF Piped
      <4>2. Len(a) = 1 /\ Len(Offers[t]) = 0
        BY <2>8, <4>1
      <4>3. \A i \in 1..Len(toUri[t]) : FALSE
        BY <4>1
      <4>4. QED
        BY <2>2, <2>3, <2>7, <4>2, <4>3
    <3>3. /\ uri'[t] = u /\ serving'[t].open /\ u.open /\ toUri'[t] = a /\ Offers'[t] = Offers[t]
      BY <2>2, <2>6, <2>10, <3>1
    <3>4. QED
      BY <2>2, <2>14, <3>2, <3>3 DEF Piped
  <2>16. Later(t) /\ uri'[t].link \in {l, NoLink} /\ Speaks(l)
    BY <2>2, <2>5, <2>10 DEF Later, Speaks, Sends, TakesDown
  <2>17. ~uri'[t].whole
    BY <2>2, <2>10, <2>14
  <2>18. AnswersOK'
    BY <1>2, <2>10, <2>15, <2>16, <2>17, AnswersQuiet
  <2>19. QED
    BY <2>13, <2>18
<1>7. QED
  BY <1>1, <1>5, <1>6

\* And so it does on any link.
LEMMA PushResultWhole ==
  ASSUME Inv, PostsOK, AnswersOK, NEW t \in Askers, TakePushResult(t)
  PROVE  PostsOK' /\ AnswersOK'
<1>1. PICK l : l = uri[t].link
  OBVIOUS
<1>2. QED
  BY <1>1, PushResultLink

-----------------------------------------------------------------------------
(* Calls on the session of a tool: what they keep.                         *)

\* A call of t that has no link.
Own(t, u) ==
  /\ uri' = [uri EXCEPT ![t] = u] /\ uri[t].link = NoLink
  /\ UNCHANGED transferVars /\ served' = served /\ answers' = answers
  /\ \A v \in Askers : v # t => serving'[v] = serving[v] /\ toUri'[v] = toUri[v]
  /\ serving'[t].queued = serving[t].queued /\ serving'[t].pending = serving[t].pending
  /\ \/ fromUri' = fromUri
     \/ fromUri[t] # <<>> /\ fromUri' = [fromUri EXCEPT ![t] = Tail(fromUri[t])]

\* The request that it sends has no block.
AsksMore(t) ==
  \/ toUri'[t] = toUri[t]
  \/ \E p \in UriPayloads :
       /\ toUri'[t] = Append(toUri[t], p)
       /\ p.command = "URIRequest" =>
            /\ p.n \in 1..Len(posted') /\ p.size = posted'[p.n]
            /\ p.block = NoBlock /\ p.data = Content(p.n, p.size)

\* What was offered to it, or the rest.
LEMMA OffersOwn ==
  ASSUME Inv, NEW t \in Askers, NEW u, Own(t, u)
  PROVE  /\ Offers'[t] = Offers[t] \/ (Offers[t] # <<>> /\ Offers'[t] = Tail(Offers[t]))
         /\ \A v \in Askers : v # t => Offers'[v] = Offers[v]
<1>1. /\ fromUri \in [Askers -> Seq(UriPayloads)] /\ serving[t] \in Servings
  BY UrisTyped
<1>2. fromUri[t] \in Seq(UriPayloads) /\ serving[t].queued \in Seq(UriPayloads)
  BY <1>1 DEF Servings
<1>3. CASE fromUri' = fromUri
  BY <1>3 DEF Own, Offers
<1>4. CASE fromUri[t] # <<>> /\ fromUri' = [fromUri EXCEPT ![t] = Tail(fromUri[t])]
  <2>1. fromUri'[t] = Tail(fromUri[t]) /\ \A v \in Askers : v # t => fromUri'[v] = fromUri[v]
    BY <1>1, <1>4
  <2>2. /\ Tail(fromUri[t]) \o serving[t].queued = Tail(fromUri[t] \o serving[t].queued)
        /\ fromUri[t] \o serving[t].queued # <<>>
    BY <1>2, <1>4, TailTwo
  <2>3. QED
    BY <2>1, <2>2 DEF Own, Offers
<1>5. QED
  BY <1>3, <1>4 DEF Own

\* Such a call is a step of its client.
LEMMA OwnSteps ==
  ASSUME Inv, NEW t \in Askers, NEW u, Own(t, u)
  PROVE  Steps(t, NoLink) /\ uri'[t] = u /\ uri[t].link = NoLink
<1>1. /\ uri'[t] = u /\ \A v \in Askers : v # t => uri'[v] = uri[v]
  BY UrisTyped DEF Own
<1>2. \A k \in Links : k # NoLink => Rests(k)
  BY DEF Own, transferVars, Rests
<1>3. /\ Offers'[t] = Offers[t] \/ (Offers[t] # <<>> /\ Offers'[t] = Tail(Offers[t]))
      /\ \A v \in Askers : v # t => Offers'[v] = Offers[v]
  BY OffersOwn
<1>4. QED
  BY <1>1, <1>2, <1>3 DEF Own, Steps, transferVars

\* It keeps post data whole.
LEMMA PostsOwn ==
  ASSUME Inv, PostsOK, NEW t \in Askers, NEW u, Own(t, u), Posted(t), Posts(uri[t])',
         u.call \notin PushCalls, AsksMore(t)
  PROVE  PostsOK'
<1> DEFINE l == NoLink
<1>1. Steps(t, l) /\ uri'[t] = u
  BY OwnSteps
<1>2. PICK f \in Plans : Follow(f)
  BY PlanIs
<1>3. l \notin Links /\ Plans2(f, f)
  BY Bounds2, SamePlan
<1>4. AskerFollows(f, uri[t])'
  BY <1>1 DEF AskerFollows
<1>5. ASSUME NEW i \in 1..Len(toUri'[t])
      PROVE  RequestFollows(f, toUri[t][i])'
  <2>1. CASE toUri'[t] = toUri[t]
    BY <1>2, <2>1, RequestsBefore
  <2>2. ASSUME NEW p \in UriPayloads, toUri'[t] = Append(toUri[t], p),
               p.command = "URIRequest" =>
                 /\ p.n \in 1..Len(posted') /\ p.size = posted'[p.n]
                 /\ p.block = NoBlock /\ p.data = Content(p.n, p.size)
        PROVE  RequestFollows(f, toUri[t][i])'
    <3>1. toUri[t] \in Seq(UriPayloads)
      BY UrisTyped
    <3>2. (i \in 1..Len(toUri[t]) /\ toUri'[t][i] = toUri[t][i]) \/ toUri'[t][i] = p
      BY <1>5, <2>2, <3>1
    <3>3. CASE i \in 1..Len(toUri[t]) /\ toUri'[t][i] = toUri[t][i]
      BY <1>2, <3>3, RequestsBefore
    <3>4. CASE toUri'[t][i] = p
      BY <2>2, <3>4 DEF RequestFollows
    <3>5. QED
      BY <3>2, <3>3, <3>4
  <2>3. QED
    BY <2>1, <2>2 DEF AsksMore
<1> HIDE DEF l
<1>6. QED
  BY <1>1, <1>2, <1>3, <1>4, <1>5, PostsStep

\* It keeps the responses whole.
LEMMA AnswersOwn ==
  ASSUME Inv, AnswersOK, NEW t \in Askers, NEW u, Own(t, u), Piped(t)', u.link = NoLink,
         Later(t) \/ Offers'[t] = <<>>,
         u.whole => Later(t) /\ uri[t].whole /\ u.received = uri[t].received
  PROVE  AnswersOK'
<1>1. Steps(t, NoLink) /\ uri'[t] = u /\ uri[t].link = NoLink
  BY OwnSteps
<1>2. CASE Later(t)
  BY <1>1, <1>2, AnswersQuiet
<1>3. CASE Offers'[t] = <<>> /\ ~Later(t)
  <2>1. \A i \in 1..Len(Offers'[t]) : FALSE
    BY <1>3
  <2>2. AnswerOK(t)'
    BY <1>1, <1>3, <2>1 DEF AnswerOK
  <2>3. QED
    BY <1>1, <2>2, AnswersStep
<1>4. QED
  BY <1>2, <1>3

\* Connect.
LEMMA ConnectWhole ==
  ASSUME Inv, PostsOK, AnswersOK, NEW t \in Askers, ConnectUri(t)
  PROVE  PostsOK' /\ AnswersOK'
<1> DEFINE u == [uri[t] EXCEPT !.open = TRUE]
           s == [serving[t] EXCEPT !.open = TRUE]
<1>1. /\ uri' = [uri EXCEPT ![t] = u] /\ serving' = [serving EXCEPT ![t] = s]
      /\ UNCHANGED transferVars /\ fromUri' = fromUri /\ toUri' = toUri
      /\ posted' = posted /\ served' = served /\ answers' = answers
      /\ ~uri[t].open /\ ~serving[t].open
  BY DEF ConnectUri, uriLinks, uriHistory
<1>2. uri[t] \in Uris /\ serving \in [Askers -> Servings] /\ serving[t] \in Servings
  BY UrisTyped
<1>3. /\ u.link = uri[t].link /\ u.call = uri[t].call /\ u.open /\ u.n = uri[t].n
      /\ u.state = uri[t].state /\ u.size = uri[t].size /\ u.late = uri[t].late
      /\ u.whole = uri[t].whole /\ u.received = uri[t].received
  BY <1>2 DEF Uris
<1>4. s.queued = serving[t].queued /\ s.pending = serving[t].pending /\ s.open
  BY <1>2 DEF Servings
<1> HIDE DEF u, s
<1>5. Piped(t) /\ Posts(uri[t]) /\ OnLink(uri[t], context, upload)
  BY DEF AnswersOK, AnswerOK, PostsOK, Inv, AskersOK
<1>6. uri[t].link = NoLink /\ ~uri[t].whole /\ toUri[t] = <<>> /\ Offers[t] = <<>>
  BY <1>1, <1>5 DEF Piped
<1>7. uri[t].call \notin LinkCalls /\ uri[t].state # "ReadResponse"
  BY <1>5, <1>6 DEF OnLink
<1>8. Own(t, u)
  <2>1. serving'[t] = s /\ \A v \in Askers : v # t => serving'[v] = serving[v]
    BY <1>1, <1>2
  <2>2. QED
    BY <1>1, <1>4, <1>6, <2>1 DEF Own
<1>9. uri'[t] = u /\ serving'[t] = s
  BY <1>1, <1>2, UrisTyped
<1>10. Offers'[t] = <<>> /\ toUri'[t] = <<>>
  BY <1>1, <1>4, <1>6, <1>9 DEF Offers
<1>11. Piped(t)'
  <2>1. \A i \in 1..Len(<<>>) : FALSE
    OBVIOUS
  <2>2. Len(<<>>) + Len(<<>>) <= 1
    OBVIOUS
  <2>3. u.call \in Waits \ {"Abort"} => ~u.whole /\ u.received = <<>>
    BY <1>3, <1>5 DEF Piped
  <2>4. /\ u.link = NoLink /\ ~u.whole /\ u.open /\ s.open /\ u.state # "ReadResponse"
    BY <1>3, <1>4, <1>6, <1>7
  <2>5. QED
    BY <1>9, <1>10, <2>1, <2>2, <2>3, <2>4 DEF Piped
<1>12. AnswersOK'
  BY <1>3, <1>6, <1>8, <1>10, <1>11, AnswersOwn
<1>13. PostsOK'
  <2>1. Posts(uri[t])'
    BY <1>1, <1>3, <1>5, <1>9 DEF Posts
  <2>2. Posted(t) /\ AsksMore(t) /\ u.call \notin PushCalls
    BY <1>1, <1>3, <1>7 DEF Posted, AsksMore, PushCalls, LinkCalls
  <2>3. QED
    BY <1>8, <2>1, <2>2, PostsOwn
<1>14. QED
  BY <1>12, <1>13

\* RequestURI sends its first payload.
LEMMA RequestUriWhole ==
  ASSUME Inv, PostsOK, AnswersOK, NEW t \in Askers, NEW size \in 0..MaxSize, RequestURI(t, size)
  PROVE  PostsOK' /\ AnswersOK'
<1> DEFINE n == Len(posted) + 1
           z == NoBlock
           e == <<>>
           data == Content(n, size)
           inline == size <= MaxInline
           p == IF inline THEN URIRequest(n, NoBlock, size, data)
                ELSE URIPostRequest(n, size)
           call == IF inline THEN "Response" ELSE "PostResponse"
           u == [uri[t] EXCEPT !.call = call, !.n = n, !.size = size,
                               !.received = e, !.whole = FALSE]
           a == Append(toUri[t], p)
<1>1. /\ n <= MaxRequests /\ uri[t].state = "Idle" /\ uri[t].call = "None" /\ uri[t].open
      /\ toUri' = [toUri EXCEPT ![t] = a]
      /\ uri' = [uri EXCEPT ![t] = u]
      /\ posted' = Append(posted, size)
      /\ UNCHANGED transferVars /\ serving' = serving /\ fromUri' = fromUri
      /\ served' = served /\ answers' = answers
  BY DEF RequestURI
<1>2. /\ uri[t] \in Uris /\ posted \in Seq(0..MaxSize)
      /\ toUri \in [Askers -> Seq(UriPayloads)] /\ toUri[t] \in Seq(UriPayloads)
  BY UrisTyped
<1>3. /\ n \in 0..MaxRequests /\ n \in Int
      /\ n \in 1..Len(posted') /\ posted'[n] = size
  BY <1>1, <1>2, Bounds2
<1>4. e \in Bytes /\ z \in 0..MaxBlocks
  BY NoBytes, Bounds
<1>5. /\ p \in UriPayloads /\ p.n = n
      /\ p.command = "URIRequest" => p.block = NoBlock /\ p.size = size /\ p.data = data
  <2>1. data \in Bytes
    BY <1>3, ContentTyped
  <2>2. /\ URIRequest(n, NoBlock, size, data)
             = UriPayload("URIRequest", "Success", n, z, size, data)
        /\ URIPostRequest(n, size) = UriPayload("URIPostRequest", "Success", n, z, size, e)
    BY DEF URIRequest, URIPostRequest
  <2>3. /\ "URIRequest" \in URIMessage /\ "URIPostRequest" \in URIMessage
        /\ "Success" \in Results
    BY DEF URIMessage, Results
  <2> HIDE DEF n, z, e, data
  <2>4. /\ UriPayload("URIRequest", "Success", n, z, size, data) \in UriPayloads
        /\ UriPayload("URIPostRequest", "Success", n, z, size, e) \in UriPayloads
    BY <1>3, <1>4, <2>1, <2>3, UriPayloadTyped
  <2>5. p \in UriPayloads
    BY <2>2, <2>4
  <2>6. /\ URIRequest(n, NoBlock, size, data).n = n
        /\ URIRequest(n, NoBlock, size, data).block = NoBlock
        /\ URIRequest(n, NoBlock, size, data).size = size
        /\ URIRequest(n, NoBlock, size, data).data = data
        /\ URIPostRequest(n, size).n = n
        /\ URIPostRequest(n, size).command = "URIPostRequest"
    BY DEF URIRequest, URIPostRequest, UriPayload
  <2>7. QED
    BY <2>5, <2>6
<1>6. call \in {"Response", "PostResponse"}
  OBVIOUS
<1> HIDE DEF n, e, p, call, inline, data
<1>7. /\ u.link = uri[t].link /\ u.call = call /\ u.state = "Idle" /\ u.n = n /\ u.size = size
      /\ u.open /\ u.late = uri[t].late /\ u.received = e /\ u.whole = FALSE
  BY <1>1, <1>2 DEF Uris
<1> HIDE DEF u
<1>8. Piped(t)
  BY DEF AnswersOK, AnswerOK
<1>9. uri[t].link = NoLink /\ serving[t].open
  BY <1>1, <1>8 DEF Piped, LinkCalls
<1>10. toUri'[t] = a /\ \A v \in Askers : v # t => toUri'[v] = toUri[v]
  BY <1>1, <1>2
<1>11. /\ toUri[t] = <<>> => Len(a) = 1
       /\ \A i \in 1..Len(a) : (i \in 1..Len(toUri[t]) /\ a[i] = toUri[t][i]) \/ a[i] = p
  BY <1>2, <1>5
<1>12. Own(t, u)
  BY <1>1, <1>9, <1>10 DEF Own
<1>13. uri'[t] = u /\ Offers'[t] = Offers[t]
  BY <1>1, UrisTyped DEF Offers
<1>14. ~u.late => Offers[t] = <<>> /\ toUri[t] = <<>>
  BY <1>1, <1>7, <1>8 DEF Piped
<1>15. AsksMore(t)
  <2>1. p.command = "URIRequest" =>
          /\ p.n \in 1..Len(posted') /\ p.size = posted'[p.n]
          /\ p.block = NoBlock /\ p.data = Content(p.n, p.size)
    BY <1>3, <1>5 DEF data
  <2>2. QED
    BY <1>5, <1>10, <2>1 DEF AsksMore, a
<1> HIDE DEF a
<1>16. Piped(t)'
  <2>1. ASSUME ~u.late
        PROVE  /\ Len(a) + Len(Offers[t]) <= 1
               /\ \A i \in 1..Len(a) : a[i].command = "URIRequest" => a[i].n = u.n
    <3>1. Len(a) = 1 /\ Len(Offers[t]) = 0 /\ \A i \in 1..Len(toUri[t]) : FALSE
      BY <1>11, <1>14, <2>1
    <3>2. QED
      BY <1>5, <1>7, <1>11, <3>1
  <2>2. serving'[t].open /\ u.link = NoLink /\ u.call \in {"PostResponse", "Response"}
    BY <1>1, <1>6, <1>7, <1>9
  <2>3. u.received = <<>>
    BY <1>7 DEF e
  <2>4. QED
    BY <1>7, <1>10, <1>13, <2>1, <2>2, <2>3 DEF Piped
<1>17. AnswersOK'
  <2>1. Later(t) \/ Offers'[t] = <<>>
    BY <1>7, <1>13, <1>14 DEF Later
  <2>2. QED
    BY <1>7, <1>9, <1>12, <1>16, <2>1, AnswersOwn
<1>18. PostsOK'
  <2>1. Posts(uri[t])'
    BY <1>3, <1>7, <1>13 DEF Posts
  <2>2. Posted(t) /\ u.call \notin PushCalls
    BY <1>1, <1>6, <1>7 DEF Posted, PushCalls
  <2>3. QED
    BY <1>12, <1>15, <2>1, <2>2, PostsOwn
<1>19. QED
  BY <1>17, <1>18

\* The one that there is.
LEMMA OneOfTwo ==
  ASSUME NEW m \in Nat, NEW n \in Nat, m + n <= 1, n >= 1
  PROVE  m = 0 /\ n = 1
  OBVIOUS

\* A call on the session of a tool ends, and says so if that may be too early.
LEMMA OwnEnds ==
  ASSUME Inv, PostsOK, AnswersOK, NEW t \in Askers, NEW u, Own(t, u),
         serving'[t] = serving[t], toUri' = toUri, posted' = posted,
         u.call = "None", u.state = "Idle", u.link = NoLink, u.n = uri[t].n,
         u.open = uri[t].open, u.whole = uri[t].whole, u.received = uri[t].received,
         u.late \/ (u.late = uri[t].late /\ fromUri[t] # <<>> /\ fromUri' # fromUri)
  PROVE  PostsOK' /\ AnswersOK'
<1>1. Steps(t, NoLink) /\ uri'[t] = u /\ uri[t].link = NoLink
  BY OwnSteps
<1>2. Piped(t) /\ toUri'[t] = toUri[t]
  BY DEF AnswersOK, AnswerOK
<1>3. Posted(t) /\ AsksMore(t) /\ Posts(uri[t])' /\ u.call \notin PushCalls
  BY <1>1, <1>2 DEF Posted, AsksMore, Posts, PushCalls
<1>4. PostsOK'
  BY <1>3, PostsOwn
<1>5. Offers[t] \in Seq(UriPayloads)
  BY OffersTyped DEF Inv, OfferSets
<1>6. Offers[t] = <<>> => Offers'[t] = <<>>
  BY <1>1 DEF Steps
<1>7. Piped(t)'
  <2>1. ASSUME u.open, ~u.late
        PROVE  toUri[t] = <<>> /\ Offers'[t] = <<>>
    <3>1. fromUri[t] # <<>> /\ fromUri' = [fromUri EXCEPT ![t] = Tail(fromUri[t])]
      BY <2>1 DEF Own
    <3>2. fromUri[t] \in Seq(UriPayloads) /\ fromUri \in [Askers -> Seq(UriPayloads)]
          /\ serving[t].queued \in Seq(UriPayloads)
      BY UrisTyped DEF Servings
    <3>3. /\ Offers[t] # <<>> /\ Offers'[t] = Tail(Offers[t])
      <4>1. fromUri'[t] = Tail(fromUri[t]) /\ serving'[t] = serving[t]
        BY <3>1, <3>2
      <4>2. QED
        <5> DEFINE q == serving[t].queued
        <5>1. Offers[t] = fromUri[t] \o q /\ Offers'[t] = Tail(fromUri[t]) \o q
          BY <4>1 DEF Offers
        <5>2. q \in Seq(UriPayloads) /\ fromUri[t] \in Seq(UriPayloads)
          BY <3>2
        <5> HIDE DEF q
        <5>3. Tail(fromUri[t]) \o q = Tail(fromUri[t] \o q) /\ fromUri[t] \o q # <<>>
          BY <3>1, <5>2, TailTwo
        <5>4. QED
          BY <5>1, <5>3
    <3>4. /\ Len(toUri[t]) + Len(Offers[t]) <= 1 /\ toUri[t] \in Seq(UriPayloads)
      BY <1>2, <2>1, UrisTyped DEF Piped
    <3>5. Len(Offers[t]) >= 1 /\ Len(toUri[t]) \in Nat /\ Len(Offers[t]) \in Nat
      BY <1>5, <3>3, <3>4
    <3>6. Len(toUri[t]) = 0 /\ Len(Offers[t]) = 1
      <4>1. Len(toUri[t]) + Len(Offers[t]) <= 1
        BY <3>4
      <4>2. QED
        BY <3>5, <4>1, OneOfTwo
    <3>7. toUri[t] = <<>>
      BY <3>4, <3>6
    <3>8. Offers'[t] = <<>>
      <4> DEFINE q == Offers[t]
      <4>1. q \in Seq(UriPayloads) /\ Len(q) = 1 /\ Offers'[t] = Tail(q)
        BY <1>5, <3>3, <3>6
      <4> HIDE DEF q
      <4>2. Tail(q) = <<>>
        BY <4>1
      <4>3. QED
        BY <4>1, <4>2
    <3>9. QED
      BY <3>7, <3>8
  <2>2. /\ ~serving[t].open => toUri[t] = <<>> /\ Offers'[t] = <<>>
    BY <1>2, <1>6 DEF Piped
  <2>3. Len(<<>>) + Len(<<>>) <= 1 /\ \A i \in 1..Len(<<>>) : FALSE
    OBVIOUS
  <2>4. /\ u.open => serving[t].open
        /\ ~u.open => ~u.whole
    BY <1>2 DEF Piped
  <2>5. uri'[t] = u /\ serving'[t] = serving[t] /\ toUri'[t] = toUri[t]
    BY <1>1, <1>2
  <2>6. QED
    BY <2>1, <2>2, <2>3, <2>4, <2>5 DEF Piped, Waits
<1>8. Later(t)
  BY <1>1 DEF Later
<1>9. AnswersOK'
  BY <1>7, <1>8, AnswersOwn
<1>10. QED
  BY <1>4, <1>9

\* A call that takes an answer has no link.
LEMMA AskedAlone ==
  ASSUME Inv, AnswersOK, NEW t \in Askers, uri[t].call \in {"PostResponse", "Response"}
  PROVE  uri[t].link = NoLink /\ ~uri[t].whole /\ uri[t].received = <<>>
<1>1. Piped(t)
  BY DEF AnswersOK, AnswerOK
<1>2. QED
  BY <1>1 DEF Piped, LinkCalls, Waits

\* It fails, or is told nothing.
LEMMA FromUriFails ==
  ASSUME Inv, PostsOK, AnswersOK, NEW t \in Askers, NEW call \in {"PostResponse", "Response"},
         TakesFromUri(t, call), uri' = [uri EXCEPT ![t] = Ended(uri[t])],
         UNCHANGED transferVars, UNCHANGED toUri
  PROVE  PostsOK' /\ AnswersOK'
<1> DEFINE u == Ended(uri[t])
<1>1. /\ fromUri[t] # <<>> /\ fromUri' = [fromUri EXCEPT ![t] = Tail(fromUri[t])]
      /\ serving' = serving /\ posted' = posted /\ served' = served /\ answers' = answers
      /\ uri[t].call = call
  BY DEF TakesFromUri, AskerKeeps, uriHistory
<1>2. uri[t] \in Uris /\ fromUri \in [Askers -> Seq(UriPayloads)]
  BY UrisTyped
<1>3. /\ u.call = "None" /\ u.state = "Idle" /\ u.link = NoLink
      /\ u.open = uri[t].open /\ u.late = uri[t].late /\ u.n = uri[t].n
      /\ u.whole = uri[t].whole /\ u.received = uri[t].received
  BY <1>2, EndedKeeps
<1>4. uri[t].link = NoLink
  BY <1>1, AskedAlone
<1>5. fromUri' # fromUri
  <2>1. fromUri'[t] = Tail(fromUri[t]) /\ fromUri[t] \in Seq(UriPayloads)
    BY <1>1, <1>2
  <2>2. Len(Tail(fromUri[t])) # Len(fromUri[t])
    BY <1>1, <2>1
  <2>3. QED
    BY <2>1, <2>2
<1>6. uri' = [uri EXCEPT ![t] = u]
  OBVIOUS
<1> HIDE DEF u
<1>7. Own(t, u)
  BY <1>1, <1>4, <1>6 DEF Own
<1>8. toUri' = toUri /\ serving'[t] = serving[t]
  BY <1>1
<1>9. QED
  BY <1>1, <1>3, <1>5, <1>7, <1>8, OwnEnds

\* A call times out.
LEMMA AskTimesOutWhole ==
  ASSUME Inv, PostsOK, AnswersOK, NEW t \in Askers, AskTimesOut(t)
  PROVE  PostsOK' /\ AnswersOK'
<1> DEFINE l == uri[t].link
           v == Ended(uri[t])
           late == uri[t].late \/ l = NoLink
           u == [v EXCEPT !.late = late]
<1>1. /\ uri' = [uri EXCEPT ![t] = u] /\ UriQuiet
      /\ IF l = NoLink THEN UNCHANGED transferVars ELSE CloseLink(l)
  BY DEF AskTimesOut, uriLinks, uriHistory, UriQuiet
<1>2. uri[t] \in Uris /\ l \in Links \cup {NoLink}
  BY <1>1, UrisTyped
<1>3. /\ v \in Uris /\ v.call = "None" /\ v.state = "Idle" /\ v.link = NoLink
      /\ v.open = uri[t].open /\ v.late = uri[t].late /\ v.n = uri[t].n
      /\ v.whole = uri[t].whole /\ v.received = uri[t].received
  BY <1>2, EndedKeeps
<1>4. late \in BOOLEAN /\ (l # NoLink => late = uri[t].late) /\ (l = NoLink => late = TRUE)
  BY <1>2 DEF Uris
<1> HIDE DEF v, late
<1>5. /\ u.call = "None" /\ u.state = "Idle" /\ u.link = NoLink
      /\ u.open = uri[t].open /\ u.late = late /\ u.n = uri[t].n
      /\ u.whole = uri[t].whole /\ u.received = uri[t].received
  BY <1>3, <1>4 DEF Uris
<1> HIDE DEF u
<1>6. CASE l = NoLink
  <2>1. Own(t, u)
    BY <1>1, <1>6 DEF Own, UriQuiet
  <2>2. serving'[t] = serving[t] /\ toUri' = toUri /\ posted' = posted
    BY <1>1 DEF UriQuiet
  <2>3. u.late
    BY <1>4, <1>5, <1>6
  <2>4. QED
    BY <1>5, <2>1, <2>2, <2>3, OwnEnds
<1>7. CASE l # NoLink
  <2>1. CloseLink(l) /\ l \in Links
    BY <1>1, <1>2, <1>7
  <2>2. u.late = uri[t].late
    BY <1>4, <1>5, <1>7
  <2>3. Suits(u, uri[t], Told(t)) /\ u.call \notin PushCalls
    BY <1>5, <2>2 DEF Suits, PushCalls, Waits
  <2>4. QED
    BY <1>1, <2>1, <2>3, ClosesQuiet
<1>8. QED
  BY <1>6, <1>7

\* Disconnect closes the link.
LEMMA LeaveLink ==
  ASSUME Inv, PostsOK, AnswersOK, NEW t \in Askers, NEW u, uri' = [uri EXCEPT ![t] = u],
         NEW l \in Links, l = uri[t].link, UriQuiet, CloseLink(l),
         u.call = "None", u.link = NoLink, ~u.open, ~u.whole, u.state = "Idle"
  PROVE  PostsOK' /\ AnswersOK'
<1> DEFINE up == upload[l]
           down == download[l]
<1>1. Ops(l, up, down)
  BY ClosesOps
<1>2. Acts(t, u, l, up, down)
  BY <1>1 DEF Acts, UriQuiet
<1>3. /\ Steps(t, l) /\ uri'[t] = u /\ Offers'[t] = Offers[t]
      /\ serving'[t] = serving[t] /\ transfers'[l] = transfers[l]
      /\ upload'[l] = up /\ download'[l] = down
  BY <1>2, OpsSteps
<1>4. toUri'[t] = toUri[t] /\ posted' = posted
  BY DEF UriQuiet
<1>5. PostsOK'
  <2>1. uri'[t].call \notin {"PostResponse"} \cup PushCalls
    BY <1>3 DEF PushCalls
  <2>2. transfers'[l] = transfers[l] /\ upload'[l] = upload[l]
    BY <1>3
  <2>3. QED
    BY <1>3, <1>4, <2>1, <2>2, PostsQuiet
<1>6. Piped(t)'
  <2>1. Piped(t)
    BY DEF AnswersOK, AnswerOK
  <2>2. QED
    BY <1>3, <1>4, <2>1 DEF Piped, Waits
<1>7. Later(t) /\ Speaks(l)
  BY <1>3 DEF Later, Speaks
<1>8. AnswersOK'
  <2>1. uri'[t].link \in {l, NoLink} /\ ~uri'[t].whole
    BY <1>3
  <2>2. QED
    BY <1>3, <1>6, <1>7, <2>1, AnswersQuiet
<1>9. QED
  BY <1>5, <1>8

\* Disconnect.
LEMMA LeaveWhole ==
  ASSUME Inv, PostsOK, AnswersOK, NEW t \in Askers, LeaveUri(t)
  PROVE  PostsOK' /\ AnswersOK'
<1> DEFINE l == uri[t].link
           u == NoUri
<1>1. /\ uri' = [uri EXCEPT ![t] = u] /\ UriQuiet
      /\ IF l = NoLink THEN UNCHANGED transferVars ELSE CloseLink(l)
  BY DEF LeaveUri, AskerKeeps, uriLinks, uriHistory, UriQuiet
<1>2. l \in Links \cup {NoLink}
  BY UrisTyped
<1>3. u.call = "None" /\ u.link = NoLink /\ ~u.open /\ ~u.whole /\ u.state = "Idle"
  BY DEF NoUri
<1> HIDE DEF u
<1>4. CASE l = NoLink
  <2>1. Own(t, u)
    BY <1>1, <1>4 DEF Own, UriQuiet
  <2>2. Steps(t, NoLink) /\ uri'[t] = u
    BY <2>1, OwnSteps
  <2>3. /\ serving' = serving /\ toUri' = toUri /\ posted' = posted /\ fromUri' = fromUri
    BY <1>1 DEF UriQuiet
  <2>4. Piped(t)'
    <3>1. Piped(t) /\ Offers'[t] = Offers[t]
      BY <2>3 DEF AnswersOK, AnswerOK, Offers
    <3>2. QED
      BY <1>3, <2>2, <2>3, <3>1 DEF Piped, Waits
  <2>5. AnswersOK'
    <3>1. Later(t)
      BY <1>3, <2>2 DEF Later
    <3>2. QED
      BY <1>3, <2>1, <2>4, <3>1, AnswersOwn
  <2>6. PostsOK'
    <3>1. Posted(t) /\ AsksMore(t) /\ Posts(uri[t])' /\ u.call \notin PushCalls
      BY <1>3, <2>2, <2>3 DEF Posted, AsksMore, Posts, PushCalls
    <3>2. QED
      BY <2>1, <3>1, PostsOwn
  <2>7. QED
    BY <2>5, <2>6
<1>5. CASE l # NoLink
  <2>1. CloseLink(l) /\ l \in Links
    BY <1>1, <1>2, <1>5
  <2>2. QED
    BY <1>1, <1>3, <2>1, LeaveLink
<1>6. QED
  BY <1>4, <1>5

-----------------------------------------------------------------------------
(* Calls that open a session for what was offered.                         *)

\* What such a call does, after which the record of t is u and l is asked for p.
Opens(t, u, l, p) ==
  /\ uri' = [uri EXCEPT ![t] = u] /\ OpenBlock(l, p)
  /\ fromUri[t] # <<>> /\ fromUri' = [fromUri EXCEPT ![t] = Tail(fromUri[t])]
  /\ serving' = serving /\ toUri' = toUri /\ posted' = posted /\ served' = served /\ answers' = answers

\* It is a step of its client on a new link.
LEMMA OpensSteps ==
  ASSUME Inv, NEW t \in Askers, NEW u, NEW l \in Links, NEW p \in TransferPayloads,
         Opens(t, u, l, p)
  PROVE  /\ Steps(t, l) /\ uri'[t] = u /\ toUri' = toUri
         /\ serving'[t] = serving[t] /\ posted' = posted
         /\ transfers'[l] = NewTransfer /\ upload'[l] = <<p>> /\ download'[l] = <<>>
         /\ Offers[t] # <<>> /\ Head(Offers[t]) = Head(fromUri[t])
         /\ Offers'[t] = Tail(Offers[t])
<1> DEFINE s == NewTransfer
           one == <<p>>
<1>1. /\ transfers[l].state = "None" /\ context[l].state = "Closed"
      /\ transfers' = [transfers EXCEPT ![l] = s]
      /\ context' = [context EXCEPT ![l].state = "Idle"]
      /\ upload' = [upload EXCEPT ![l] = one]
      /\ blocks' = blocks /\ opened' = opened /\ download' = download
  BY DEF Opens, OpenBlock
<1> HIDE DEF s, one
<1>2. /\ transfers \in [Links -> TransferSessions] /\ upload \in [Links -> Wire]
      /\ context \in [Links -> Contexts]
  BY InvParts, UrisTyped
<1>3. /\ transfers'[l] = s /\ upload'[l] = one
      /\ \A k \in Links : k # l => Rests(k)
  BY <1>1, <1>2 DEF Rests
<1>4. download'[l] = <<>>
  BY <1>1 DEF Inv, LinksOK, Ready
<1>5. uri'[t] = u /\ \A v \in Askers : v # t => uri'[v] = uri[v]
  BY UrisTyped DEF Opens
<1>6. /\ Offers[t] # <<>> /\ Head(Offers[t]) = Head(fromUri[t])
      /\ Offers'[t] = Tail(Offers[t])
      /\ \A v \in Askers : v # t => Offers'[v] = Offers[v]
  <2> DEFINE q == serving[t].queued
             a == fromUri[t]
  <2>1. q \in Seq(UriPayloads) /\ a \in Seq(UriPayloads) /\ a # <<>>
    BY UrisTyped DEF Servings, Opens
  <2>2. /\ fromUri'[t] = Tail(a) /\ serving' = serving
        /\ \A v \in Askers : v # t => fromUri'[v] = fromUri[v]
    BY UrisTyped DEF Opens
  <2>3. Offers[t] = a \o q /\ Offers'[t] = Tail(a) \o q
    BY <2>2 DEF Offers
  <2>4. \A v \in Askers : v # t => Offers'[v] = Offers[v]
    BY <2>2 DEF Offers
  <2> HIDE DEF q
  <2>5. a \o q # <<>> /\ Head(a \o q) = Head(a) /\ Tail(a) \o q = Tail(a \o q)
    BY <2>1, TailTwo
  <2>6. QED
    BY <2>3, <2>4, <2>5
<1>7. QED
  BY <1>1, <1>3, <1>4, <1>5, <1>6 DEF Opens, Steps, s, one

\* What is offered first is not offered again.
LEMMA FirstOffer ==
  ASSUME Inv, NEW t \in Askers, NEW l, Steps(t, l), Offers[t] # <<>>,
         Offers'[t] = Tail(Offers[t]), Head(Offers[t]).block # NoBlock
  PROVE  LET b == Head(Offers[t]).block
         IN  /\ b \in BlockIds /\ b <= opened /\ InOffers(Offers, b)
             /\ ~InOffers(Offers', b)
<1> DEFINE q == Offers[t]
           b == Head(q).block
<1>1. q \in Seq(UriPayloads) /\ Offers \in OfferSets
  BY OffersTyped DEF Inv, OfferSets
<1>2. 1 \in 1..Len(q) /\ q[1] = Head(q) /\ Head(q) \in UriPayloads
  BY <1>1
<1>3. \A i \in 1..Len(Tail(q)) : i + 1 \in 1..Len(q) /\ Tail(q)[i] = q[i + 1] /\ i + 1 # 1
  BY <1>1
<1>4. b <= opened /\ InOffers(Offers, b)
  BY <1>2 DEF Inv, Once, InOffers
<1>5. b \in BlockIds
  BY <1>2, Bounds DEF UriPayloads
<1>6. ASSUME NEW v \in Askers, NEW i \in 1..Len(Offers'[v]), Offers'[v][i].block = b
      PROVE  FALSE
  <2>1. CASE v = t
    <3>1. i + 1 \in 1..Len(Offers[t]) /\ Offers[t][i + 1].block = Offers[t][1].block /\ i + 1 # 1
      BY <1>2, <1>3, <1>6, <2>1
    <3>2. QED
      BY <1>2, <3>1 DEF Inv, Once
  <2>2. CASE v # t
    <3>1. Offers'[v] = Offers[v]
      BY <2>2 DEF Steps
    <3>2. i \in 1..Len(Offers[v]) /\ Offers[v][i].block = Offers[t][1].block
      BY <1>2, <1>6, <3>1
    <3>3. QED
      BY <1>2, <2>2, <3>2 DEF Inv, Once
  <2>3. QED
    BY <2>1, <2>2
<1>7. QED
  BY <1>4, <1>5, <1>6 DEF InOffers

\* What is asked of a session that is new.
LEMMA NewIs ==
  ASSUME NEW p \in TransferPayloads, NEW D
  PROVE  LET s == NewTransfer
         IN  /\ s.state = "Idle" /\ s.state \notin Pushes /\ s.state \notin Pulls
             /\ Fair(s.payload, D)
             /\ Wanted(s, <<p>>) = IF p.command = "PushRequest" THEN p.block ELSE NoBlock
<1>1. NewTransfer.state = "Idle" /\ NewTransfer.payload.command = "TransferStatus"
  BY DEF NewTransfer, NoTransfer, Status
<1>2. <<p>> # <<>> /\ Head(<<p>>) = p
  OBVIOUS
<1>3. QED
  BY <1>1, <1>2 DEF Fair, Pushes, Pulls, Wanted

\* It keeps the responses whole.
LEMMA AnswersOpens ==
  ASSUME Inv, AnswersOK, NEW t \in Askers, NEW u, NEW l \in Links, NEW p \in TransferPayloads,
         Opens(t, u, l, p), uri[t].call \in {"PostResponse", "Response"},
         u.call \in {"PushStatus", "PullHeader"}, u.link = l, u.open = uri[t].open,
         u.late = uri[t].late, u.n = uri[t].n, u.state = uri[t].state,
         u.whole = uri[t].whole, u.received = uri[t].received,
         p.command = "PullRequest" =>
           p.block \in BlockIds /\ blocks[p.block].closed /\ blocks[p.block].data \in Told(t)
  PROVE  AnswersOK'
<1>1. /\ Steps(t, l) /\ uri'[t] = u /\ toUri' = toUri
      /\ serving'[t] = serving[t]
      /\ transfers'[l] = NewTransfer /\ upload'[l] = <<p>> /\ download'[l] = <<>>
      /\ Offers[t] # <<>> /\ Offers'[t] = Tail(Offers[t])
  BY OpensSteps
<1>2. AnswerOK(t) /\ Piped(t) /\ blocks' = blocks /\ answers' = answers
  BY <1>1 DEF AnswersOK, AnswerOK, Steps
<1>3. ~uri[t].whole /\ uri[t].received = <<>> /\ uri[t].state # "ReadResponse"
  BY <1>2 DEF Piped, Waits
<1>4. Offers[t] \in Seq(UriPayloads) /\ toUri[t] \in Seq(UriPayloads)
  BY OffersTyped, UrisTyped DEF Inv, OfferSets
<1>5. serving[t].open
  BY <1>1, <1>2 DEF Piped
<1>6. Piped(t)'
  <2>1. ASSUME u.open, ~u.late
        PROVE  toUri[t] = <<>> /\ Offers'[t] = <<>>
    <3>1. Len(toUri[t]) + Len(Offers[t]) <= 1
      BY <1>2, <2>1 DEF Piped
    <3>2. Len(Offers[t]) >= 1 /\ Len(toUri[t]) \in Nat /\ Len(Offers[t]) \in Nat
      BY <1>1, <1>4
    <3>3. Len(toUri[t]) = 0 /\ Len(Offers[t]) = 1
      BY <3>1, <3>2, OneOfTwo
    <3>4. toUri[t] = <<>>
      BY <1>4, <3>3
    <3> DEFINE q == Offers[t]
    <3>5. q \in Seq(UriPayloads) /\ Len(q) = 1 /\ Offers'[t] = Tail(q)
      BY <1>1, <1>4, <3>3
    <3> HIDE DEF q
    <3>6. Tail(q) = <<>>
      BY <3>5
    <3>7. QED
      BY <3>4, <3>5, <3>6
  <2>2. Len(<<>>) + Len(<<>>) <= 1 /\ \A i \in 1..Len(<<>>) : FALSE
    OBVIOUS
  <2>3. /\ u.call \in LinkCalls /\ u.state # "ReadResponse" /\ ~u.whole /\ u.received = <<>>
        /\ u.call \notin {"PostResponse", "Response"}
    BY <1>3 DEF LinkCalls
  <2>5. u.open
    BY <1>2 DEF Piped
  <2>6. QED
    BY <1>1, <1>5, <2>1, <2>2, <2>3, <2>5 DEF Piped
<1>7. Later(t)
  BY <1>1 DEF Later
<1>8. Told(t) \subseteq Told(t)'
  BY <1>2, <1>7, ToldLater
<1>9. \A b \in BlockIds : blocks[b].closed => SameContent(blocks, blocks', b)
  BY <1>2 DEF SameContent
<1>10. ASSUME NEW i \in 1..Len(Offers'[t])
       PROVE  OffersTold(Offers'[t][i], blocks', Told(t)')
  <2>1. PICK j \in 1..Len(Offers[t]) : Offers'[t][i] = Offers[t][j]
    BY <1>1, OfferedBefore
  <2>2. OffersTold(Offers[t][j], blocks, Told(t))
    BY <1>2 DEF AnswerOK
  <2>3. QED
    BY <1>8, <1>9, <2>1, <2>2, CarriesMore
<1>11. Tells(transfers'[l], upload'[l], download'[l], blocks', Told(t)')
  <2>1. /\ NewTransfer.state \notin Pulls /\ Fair(NewTransfer.payload, Told(t)')
    BY NewIs
  <2>2. /\ \A i \in 1..Len(<<>>) : FALSE
        /\ \A i \in 1..Len(<<p>>) : <<p>>[i] = p
    OBVIOUS
  <2>3. p.command = "PullRequest" =>
          p.block \in BlockIds /\ blocks'[p.block].closed /\ blocks'[p.block].data \in Told(t)'
    BY <1>2, <1>8
  <2>4. QED
    BY <1>1, <2>1, <2>2, <2>3 DEF Tells
<1>12. AnswerOK(t)'
  <2>1. uri'[t].link = l /\ ~uri'[t].whole
    BY <1>1, <1>3
  <2>2. QED
    BY <1>6, <1>10, <1>11, <2>1 DEF AnswerOK
<1>13. QED
  BY <1>1, <1>12, AnswersStep

\* What is right of a request is right under any plan that has more.
LEMMA RequestsMore ==
  ASSUME Inv, NEW f \in Plans, NEW g \in Plans, Follow(f), Plans2(f, g),
         NEW t \in Askers, posted' = posted, toUri' = toUri, NEW i \in 1..Len(toUri[t])
  PROVE  RequestFollows(g, toUri[t][i])'
<1> DEFINE p == toUri[t][i]
<1>1. toUri[t] \in Seq(UriPayloads) /\ RequestFollows(f, p)
  BY UrisTyped DEF Follow
<1>2. p \in UriPayloads
  BY <1>1
<1>3. p.block # NoBlock => p.block \in BlockIds
  BY <1>2, Bounds DEF UriPayloads
<1>4. p.command = "URIRequest" /\ p.block # NoBlock /\ p.size # 0 => g[p.block] = p.n
  BY <1>1, <1>3, Bounds DEF RequestFollows, Plans2
<1>5. QED
  BY <1>1, <1>4 DEF RequestFollows

\* A push that begins for a request pushes its block for it.
LEMMA PostsOpens ==
  ASSUME Inv, PostsOK, NEW t \in Askers, NEW u, NEW l \in Links, NEW p \in TransferPayloads,
         Opens(t, u, l, p), uri[t].call = "PostResponse",
         Head(fromUri[t]).result = "Success",
         u.call = "PushStatus", u.link = l, u.n = uri[t].n, u.size = uri[t].size,
         u.block = Head(fromUri[t]).block,
         p.command = "PushRequest", p.block = u.block
  PROVE  PostsOK'
<1> DEFINE b == Head(Offers[t]).block
           n == uri[t].n
<1>1. /\ Steps(t, l) /\ uri'[t] = u /\ toUri' = toUri /\ posted' = posted
      /\ transfers'[l] = NewTransfer /\ upload'[l] = <<p>>
      /\ Offers[t] # <<>> /\ Offers'[t] = Tail(Offers[t])
      /\ Head(Offers[t]) = Head(fromUri[t])
  BY OpensSteps
<1>2. Offers[t] \in Seq(UriPayloads)
  BY OffersTyped DEF Inv, OfferSets
<1>3. b # NoBlock
  <2>1. 1 \in 1..Len(Offers[t]) /\ Offers[t][1] = Head(Offers[t])
    BY <1>1, <1>2
  <2>2. QED
    BY <1>1, <2>1 DEF PostsOK
<1>4. b \in BlockIds /\ b <= opened /\ InOffers(Offers, b) /\ ~InOffers(Offers', b)
  BY <1>1, <1>3, FirstOffer
<1>5. u.block = b /\ p.block = b
  BY <1>1
<1>6. Posts(uri[t]) /\ n \in 1..Len(posted) /\ u.size = posted[n] /\ n \in 0..MaxRequests
  BY UrisTyped DEF PostsOK, Posts, Uris
<1>7. PICK f \in Plans : Follow(f)
  BY PlanIs
<1>8. f[b] = 0
  BY <1>4, <1>7 DEF Follow, OffersFollow
<1> HIDE DEF b, n
<1>9. PICK g \in Plans : g[b] = n /\ \A c \in BlockIds : c # b => g[c] = f[c]
  <2>1. [f EXCEPT ![b] = n] \in Plans
    BY <1>4, <1>6 DEF Plans
  <2>2. [f EXCEPT ![b] = n][b] = n /\ \A c \in BlockIds : c # b => [f EXCEPT ![b] = n][c] = f[c]
    BY <1>4 DEF Plans
  <2>3. QED
    BY <2>1, <2>2
<1>10. Plans2(f, g)
  BY <1>4, <1>8, <1>9 DEF Plans2
<1>11. Wants'[l] = b /\ transfers'[l].state \notin Pushes
  <2>1. transfers'[l].state \notin Pushes /\ Wanted(transfers'[l], upload'[l]) = b
    BY <1>1, <1>5, NewIs
  <2>2. QED
    BY <2>1 DEF Wants
<1>12. n # 0
  BY <1>6
<1>13. LinkFollows(g, l)'
  BY <1>9, <1>11, <1>12 DEF LinkFollows
<1>14. Posts(uri[t])'
  BY <1>1, <1>6 DEF Posts, n
<1>15. AskerFollows(g, uri[t])'
  <2>1. u.n = n
    BY DEF n
  <2>2. QED
    BY <1>1, <1>4, <1>5, <1>9, <1>11, <2>1 DEF AskerFollows
<1>16. \A i \in 1..Len(toUri'[t]) : RequestFollows(g, toUri[t][i])'
  BY <1>1, <1>7, <1>9, <1>10, RequestsMore
<1>17. Posted(t)
  BY <1>1 DEF Posted
<1>18. QED
  BY <1>1, <1>7, <1>9, <1>10, <1>13, <1>14, <1>15, <1>16, <1>17, PostsStep

\* A pull that begins pushes nothing.
LEMMA PostsPulls ==
  ASSUME Inv, PostsOK, NEW t \in Askers, NEW u, NEW l \in Links, NEW p \in TransferPayloads,
         Opens(t, u, l, p), u.call = "PullHeader", p.command = "PullRequest"
  PROVE  PostsOK'
<1>1. /\ Steps(t, l) /\ uri'[t] = u /\ toUri' = toUri /\ posted' = posted
      /\ transfers'[l] = NewTransfer /\ upload'[l] = <<p>>
  BY OpensSteps
<1>2. PICK f \in Plans : Follow(f)
  BY PlanIs
<1>3. Wants'[l] = NoBlock /\ transfers'[l].state \notin Pushes
  <2>1. transfers'[l].state \notin Pushes /\ Wanted(transfers'[l], upload'[l]) = NoBlock
    BY <1>1, NewIs
  <2>2. QED
    BY <2>1 DEF Wants
<1>4. LinkFollows(f, l)' /\ Posts(uri[t])' /\ AskerFollows(f, uri[t])'
  BY <1>1, <1>3 DEF LinkFollows, Posts, AskerFollows, PushCalls
<1>5. Plans2(f, f) /\ Posted(t)
  BY <1>1, SamePlan DEF Posted
<1>6. \A i \in 1..Len(toUri'[t]) : RequestFollows(f, toUri[t][i])'
  BY <1>1, <1>2, <1>5, RequestsMore
<1>7. QED
  BY <1>1, <1>2, <1>4, <1>5, <1>6, PostsStep

\* It gets the answer to a URIPostRequest.
LEMMA PostResponseWhole ==
  ASSUME Inv, PostsOK, AnswersOK, NEW t \in Askers, TakePostResponse(t)
  PROVE  PostsOK' /\ AnswersOK'
<1> DEFINE h == Head(fromUri[t])
<1>1. /\ TakesFromUri(t, "PostResponse") /\ toUri' = toUri /\ uri[t].call = "PostResponse"
      /\ fromUri[t] # <<>> /\ fromUri' = [fromUri EXCEPT ![t] = Tail(fromUri[t])]
      /\ serving' = serving /\ posted' = posted /\ served' = served /\ answers' = answers
  BY DEF TakePostResponse, TakesFromUri, AskerKeeps, uriHistory
<1>2. CASE uri' = [uri EXCEPT ![t] = Ended(uri[t])] /\ UNCHANGED transferVars
  BY <1>1, <1>2, FromUriFails
<1>3. CASE h.result = "Success" /\ \E l \in Links :
             /\ OpenBlock(l, BlockRequest("PushRequest", h.block, uri[t].size))
             /\ uri' = [uri EXCEPT ![t] = [uri[t] EXCEPT
                          !.call = "PushStatus", !.block = h.block, !.link = l]]
  <2>1. PICK l \in Links :
          /\ OpenBlock(l, BlockRequest("PushRequest", h.block, uri[t].size))
          /\ uri' = [uri EXCEPT ![t] = [uri[t] EXCEPT
                       !.call = "PushStatus", !.block = h.block, !.link = l]]
    BY <1>3
  <2> DEFINE b == h.block
             u == [uri[t] EXCEPT !.call = "PushStatus", !.block = b, !.link = l]
             p == BlockRequest("PushRequest", b, uri[t].size)
  <2>2. uri[t] \in Uris /\ h \in UriPayloads
    BY <1>1, UrisTyped
  <2>3. uri[t].size \in 0..MaxSize /\ b \in 0..MaxBlocks
    BY <2>2 DEF Uris, UriPayloads
  <2>4. uri' = [uri EXCEPT ![t] = u] /\ OpenBlock(l, p)
    BY <2>1
  <2>5. p \in TransferPayloads /\ p.command = "PushRequest" /\ p.block = b
    BY <2>3, BlockRequestTyped DEF TransferMessage
  <2>6. /\ u.call = "PushStatus" /\ u.link = l /\ u.block = b /\ u.n = uri[t].n
        /\ u.size = uri[t].size /\ u.open = uri[t].open /\ u.late = uri[t].late
        /\ u.state = uri[t].state /\ u.whole = uri[t].whole /\ u.received = uri[t].received
    BY <2>2 DEF Uris
  <2> HIDE DEF u, p
  <2>7. Opens(t, u, l, p)
    BY <1>1, <2>4 DEF Opens
  <2>8. Head(fromUri[t]).result = "Success" /\ u.block = Head(fromUri[t]).block
    BY <1>3, <2>6
  <2>9. p.block = u.block
    BY <2>5, <2>6
  <2>10. PostsOK'
    BY <1>1, <2>5, <2>6, <2>7, <2>8, <2>9, PostsOpens
  <2>11. u.call \in {"PushStatus", "PullHeader"} /\ uri[t].call \in {"PostResponse", "Response"}
         /\ p.command # "PullRequest"
    BY <1>1, <2>5, <2>6
  <2>12. AnswersOK'
    BY <2>5, <2>6, <2>7, <2>11, AnswersOpens
  <2>13. QED
    BY <2>10, <2>12
<1>4. QED
  BY <1>2, <1>3 DEF TakePostResponse

\* It gets the answer to a URIRequest.
LEMMA ResponseWhole ==
  ASSUME Inv, PostsOK, AnswersOK, NEW t \in Askers, TakeResponse(t)
  PROVE  PostsOK' /\ AnswersOK'
<1> DEFINE h == Head(fromUri[t])
           z == 0
<1>1. /\ TakesFromUri(t, "Response") /\ toUri' = toUri /\ uri[t].call = "Response"
      /\ fromUri[t] # <<>> /\ fromUri' = [fromUri EXCEPT ![t] = Tail(fromUri[t])]
      /\ serving' = serving /\ posted' = posted /\ served' = served /\ answers' = answers
  BY DEF TakeResponse, TakesFromUri, AskerKeeps, uriHistory
<1>2. CASE uri' = [uri EXCEPT ![t] = Ended(uri[t])] /\ UNCHANGED transferVars
  BY <1>1, <1>2, FromUriFails
<1>3. CASE h.command = "URIResponse" /\ h.result = "Success" /\ \E l \in Links :
             /\ OpenBlock(l, BlockRequest("PullRequest", h.block, z))
             /\ uri' = [uri EXCEPT ![t] = [uri[t] EXCEPT
                          !.call = "PullHeader", !.link = l]]
  <2>1. PICK l \in Links :
          /\ OpenBlock(l, BlockRequest("PullRequest", h.block, z))
          /\ uri' = [uri EXCEPT ![t] = [uri[t] EXCEPT
                       !.call = "PullHeader", !.link = l]]
    BY <1>3
  <2> DEFINE b == h.block
             u == [uri[t] EXCEPT !.call = "PullHeader", !.link = l]
             p == BlockRequest("PullRequest", b, z)
  <2>2. uri[t] \in Uris /\ h \in UriPayloads /\ z \in 0..MaxSize
    BY <1>1, UrisTyped, Bounds
  <2>3. b \in 0..MaxBlocks
    BY <2>2 DEF UriPayloads
  <2>4. uri' = [uri EXCEPT ![t] = u] /\ OpenBlock(l, p)
    BY <2>1
  <2> HIDE DEF z
  <2>5. p \in TransferPayloads /\ p.command = "PullRequest" /\ p.block = b
    BY <2>2, <2>3, BlockRequestTyped DEF TransferMessage
  <2>6. /\ u.call = "PullHeader" /\ u.link = l /\ u.n = uri[t].n
        /\ u.open = uri[t].open /\ u.late = uri[t].late
        /\ u.state = uri[t].state /\ u.whole = uri[t].whole /\ u.received = uri[t].received
    BY <2>2 DEF Uris
  <2> HIDE DEF u, p
  <2>7. Opens(t, u, l, p)
    BY <1>1, <2>4 DEF Opens
  <2>8. PostsOK'
    BY <2>5, <2>6, <2>7, PostsPulls
  <2>9. b \in BlockIds /\ blocks[b].closed /\ blocks[b].data \in Told(t)
    <3>1. Offers[t] # <<>> /\ Head(Offers[t]) = h /\ Offers[t] \in Seq(UriPayloads)
      BY <2>5, <2>7, OpensSteps, OffersTyped DEF Inv, OfferSets
    <3>2. 1 \in 1..Len(Offers[t]) /\ Offers[t][1] = h
      BY <3>1
    <3>3. OffersTold(h, blocks, Told(t))
      BY <3>2 DEF AnswersOK, AnswerOK
    <3>4. QED
      BY <1>3, <3>3 DEF OffersTold
  <2>10. u.call \in {"PushStatus", "PullHeader"} /\ uri[t].call \in {"PostResponse", "Response"}
    BY <1>1, <2>6
  <2>11. AnswersOK'
    BY <2>5, <2>6, <2>7, <2>9, <2>10, AnswersOpens
  <2>12. QED
    BY <2>8, <2>11
<1>4. QED
  BY <1>2, <1>3 DEF TakeResponse

\* The steps of the clients keep post data and responses whole.
LEMMA AskerWhole ==
  ASSUME Inv, PostsOK, AnswersOK, NEW t \in Askers, AskerStep(t)
  PROVE  PostsOK' /\ AnswersOK'
<1>1. CASE ConnectUri(t)
  BY <1>1, ConnectWhole
<1>2. CASE \E size \in 0..MaxSize : RequestURI(t, size)
  BY <1>2, RequestUriWhole
<1>3. CASE TakePostResponse(t)
  BY <1>3, PostResponseWhole
<1>4. CASE TakePushStatus(t)
  BY <1>4, PushStatusWhole
<1>5. CASE WriteChunk(t)
  BY <1>5, WriteChunkWhole
<1>6. CASE WriteTimesOut(t)
  BY <1>6, WriteTimesOutWhole
<1>7. CASE FinalizePush(t)
  BY <1>7, FinalizeWhole
<1>8. CASE TakePushResult(t)
  BY <1>8, PushResultWhole
<1>9. CASE TakeResponse(t)
  BY <1>9, ResponseWhole
<1>10. CASE TakePullHeader(t)
  BY <1>10, PullHeaderWhole
<1>11. CASE ReadResponse(t)
  BY <1>11, ReadResponseWhole
<1>12. CASE TakePullSentinel(t)
  BY <1>12, PullSentinelWhole
<1>13. CASE AbortRequest(t)
  BY <1>13, AbortWhole
<1>14. CASE DiscardUntilSentinel(t)
  BY <1>14, DiscardWhole
<1>15. CASE AskTimesOut(t)
  BY <1>15, AskTimesOutWhole
<1>16. CASE LeaveUri(t)
  BY <1>16, LeaveWhole
<1>17. QED
  BY <1>1, <1>2, <1>3, <1>4, <1>5, <1>6, <1>7, <1>8, <1>9, <1>10, <1>11, <1>12, <1>13,
     <1>14, <1>15, <1>16 DEF AskerStep

-----------------------------------------------------------------------------
(* Responses, and the updates of URI sessions.                             *)

\* A block that is closed is opened.
LEMMA ClosedOpened ==
  ASSUME Inv, NEW b \in BlockIds, blocks[b].closed
  PROVE  b <= opened
<1>1. b > opened => blocks[b] = NewBlock
  BY DEF Inv, Blank
<1>2. ~NewBlock.closed
  BY DEF NewBlock
<1>3. ~(b > opened)
  BY <1>1, <1>2
<1>4. b \in Nat
  BY TransferAssumption DEF BlockIds
<1>5. opened \in Nat
  BY InvParts
<1>6. QED
  BY <1>3, <1>4, <1>5

\* Two queues between which the first payload is handed on.
LEMMA HandedOn ==
  ASSUME NEW S, NEW a \in Seq(S), NEW o \in Seq(S), NEW p \in S, a # <<>>
  PROVE  /\ Len(Tail(a)) + Len(Append(o, p)) = Len(a) + Len(o)
         /\ \A i \in 1..Len(Tail(a)) : i + 1 \in 1..Len(a) /\ Tail(a)[i] = a[i + 1]
         /\ \A i \in 1..Len(Append(o, p)) :
              Append(o, p)[i] = p \/ (i \in 1..Len(o) /\ Append(o, p)[i] = o[i])
  OBVIOUS

\* An update keeps the queues of a session as Piped says.
LEMMA PipedServes ==
  ASSUME Inv, NEW t \in Askers, Serves(t), Piped(t)
  PROVE  Piped(t)'
<1>1. uri' = uri
  BY DEF Serves
<1>2. toUri[t] \in Seq(UriPayloads) /\ Offers[t] \in Seq(UriPayloads)
  BY OffersTyped, UrisTyped DEF Inv, OfferSets
<1>3. CASE Resumes(t)
  <2>1. /\ uri'[t] = uri[t] /\ toUri'[t] = toUri[t] /\ Offers'[t] = Offers[t]
        /\ serving'[t].open = serving[t].open
    BY <1>1, <1>3 DEF Resumes
  <2>2. QED
    BY <2>1, Zenon DEF Piped
<1>4. CASE Forgets(t)
  <2>1. /\ uri'[t] = uri[t] /\ ~uri[t].open /\ toUri'[t] = <<>> /\ Offers'[t] = <<>>
    BY <1>1, <1>4 DEF Forgets
  <2>2. QED
    BY <2>1, Zenon DEF Piped
<1>5. ASSUME NEW p \in UriPayloads, HandsOn(t, p)
      PROVE  Piped(t)'
  <2> DEFINE a == toUri[t]
             o == Offers[t]
  <2>1. /\ uri'[t] = uri[t] /\ serving[t].open /\ serving'[t].open
        /\ a # <<>> /\ toUri'[t] = Tail(a) /\ Offers'[t] = Append(o, p)
    BY <1>1, <1>5 DEF HandsOn
  <2>2. a \in Seq(UriPayloads) /\ o \in Seq(UriPayloads)
    BY <1>2
  <2>3. uri[t].open /\ ~uri[t].late =>
          /\ Len(a) + Len(o) <= 1
          /\ uri[t].call \in {"PostResponse", "Response"}
          /\ \A i \in 1..Len(a) : a[i].command = "URIRequest" => a[i].n = uri[t].n
    BY <2>1 DEF Piped
  <2> HIDE DEF a, o
  <2>4. /\ Len(Tail(a)) + Len(Append(o, p)) = Len(a) + Len(o)
        /\ \A i \in 1..Len(Tail(a)) : i + 1 \in 1..Len(a) /\ Tail(a)[i] = a[i + 1]
    BY <2>1, <2>2, HandedOn
  <2>5. /\ ~uri'[t].open => /\ uri'[t].call = "None" /\ uri'[t].link = NoLink
                            /\ ~uri'[t].whole
        /\ uri'[t].link # NoLink =>
             uri'[t].call \in LinkCalls \/ uri'[t].state = "ReadResponse"
        /\ uri'[t].state = "ReadResponse" => uri'[t].call \in {"None", "Sentinel"}
        /\ uri'[t].call \in Waits \ {"Abort"} \/ uri'[t].state = "ReadResponse" =>
             ~uri'[t].whole /\ uri'[t].received = <<>>
    BY <2>1 DEF Piped
  <2>6. uri'[t].open /\ ~uri'[t].late =>
          /\ Len(toUri'[t]) + Len(Offers'[t]) <= 1
          /\ uri'[t].call \in {"PostResponse", "Response"}
          /\ \A i \in 1..Len(toUri'[t]) :
               toUri'[t][i].command = "URIRequest" => toUri'[t][i].n = uri'[t].n
    BY <2>1, <2>3, <2>4
  <2>7. QED
    BY <2>1, <2>5, <2>6, Zenon DEF Piped
<1>6. QED
  BY <1>3, <1>4, <1>5 DEF Serves, Provides, Refuses, Responds

\* What is offered was offered before, or is what an update answers.
LEMMA OfferedNow ==
  ASSUME Inv, NEW t \in Askers, Serves(t), NEW v \in Askers, NEW i \in 1..Len(Offers'[v])
  PROVE  \/ \E j \in 1..Len(Offers[v]) : Offers'[v][i] = Offers[v][j]
         \/ v = t /\ \E p \in UriPayloads :
              Offers'[t] = Append(Offers[t], p) /\ Offers'[t][i] = p
<1>1. Offers[v] \in Seq(UriPayloads)
  BY OffersTyped DEF Inv, OfferSets
<1>2. CASE Offers'[v] = Offers[v]
  BY <1>2
<1>3. CASE Offers'[v] = <<>>
  BY <1>3
<1>4. ASSUME NEW p \in UriPayloads, v = t, Offers'[t] = Append(Offers[t], p)
      PROVE  \/ Offers'[t][i] = p
             \/ \E j \in 1..Len(Offers[v]) : Offers'[v][i] = Offers[v][j]
  <2> DEFINE o == Offers[v]
  <2>1. o \in Seq(UriPayloads) /\ Offers'[v] = Append(o, p)
    BY <1>1, <1>4
  <2> HIDE DEF o
  <2>2. Append(o, p)[i] = p \/ (i \in 1..Len(o) /\ Append(o, p)[i] = o[i])
    BY <2>1
  <2>3. QED
    BY <1>4, <2>1, <2>2 DEF o
<1>5. v # t => Offers'[v] = Offers[v]
  BY DEF Serves
<1>6. \/ Offers'[t] = Offers[t] \/ Offers'[t] = <<>>
      \/ \E p \in UriPayloads : Offers'[t] = Append(Offers[t], p)
  BY DEF Serves, Resumes, Provides, Refuses, Responds, Forgets, HandsOn
<1>7. QED
  BY <1>2, <1>3, <1>4, <1>5, <1>6

\* A sequence with one more element is another, and says which it is.
LEMMA AppendIs ==
  ASSUME NEW S, NEW o \in Seq(S), NEW p \in S
  PROVE  /\ Append(o, p) # o /\ Append(o, p) # <<>>
         /\ \A q \in S : Append(o, q) = Append(o, p) => q = p
<1>1. /\ Len(Append(o, p)) = Len(o) + 1 /\ Len(o) \in Nat
      /\ \A q \in S : Append(o, q)[Len(o) + 1] = q
  OBVIOUS
<1>2. Append(o, p) # o /\ Append(o, p) # <<>>
  BY <1>1
<1>3. QED
  BY <1>1, <1>2

\* A payload that an update offers carries what a service has told.
LEMMA NewCarries ==
  ASSUME Inv, AnswersOK, NEW t \in Askers, Serves(t), NEW p \in UriPayloads,
         Offers'[t] = Append(Offers[t], p)
  PROVE  OffersTold(p, blocks', Told(t)')
<1>1. Offers[t] \in Seq(UriPayloads) /\ toUri[t] \in Seq(UriPayloads)
  BY OffersTyped, UrisTyped DEF Inv, OfferSets
<1> DEFINE o == Offers[t]
<1>2. o \in Seq(UriPayloads) /\ Offers'[t] = Append(o, p)
  BY <1>1
<1> HIDE DEF o
<1>3. Append(o, p) # o /\ Append(o, p) # <<>>
      /\ \A q \in UriPayloads : Append(o, q) = Append(o, p) => q = p
  BY <1>2, AppendIs
<1>4. ~Resumes(t) /\ ~Forgets(t)
  BY <1>2, <1>3 DEF Resumes, Forgets, o
<1>5. ASSUME NEW q \in UriPayloads, HandsOn(t, q)
      PROVE  q = p
  BY <1>2, <1>3, <1>5 DEF HandsOn, o
<1>6. CASE Provides(t)
  BY <1>5, <1>6 DEF Provides, OffersTold
<1>7. CASE Refuses(t)
  BY <1>5, <1>7 DEF Refuses, OffersTold
<1>8. CASE Responds(t)
  <2>1. PICK q \in UriPayloads, data \in Bytes :
          /\ HandsOn(t, q) /\ q.block = opened' /\ opened' \in BlockIds
          /\ blocks'[opened'].closed /\ blocks'[opened'].data = data /\ Gives(t)
          /\ answers' = answers \cup {[n |-> Head(toUri[t]).n, data |-> data]}
    BY <1>8 DEF Responds
  <2>2. q = p
    BY <1>5, <2>1
  <2>3. toUri[t] # <<>> /\ Head(toUri[t]).command = "URIRequest" /\ uri' = uri
    BY <2>1 DEF Gives, HandsOn, Serves
  <2>4. 1 \in 1..Len(toUri[t]) /\ toUri[t][1] = Head(toUri[t])
    BY <1>1, <2>3
  <2>5. uri[t].open /\ ~uri[t].late => Head(toUri[t]).n = uri[t].n
    BY <2>3, <2>4 DEF AnswersOK, AnswerOK, Piped
  <2>6. data \in Told(t)'
    <3> DEFINE a == [n |-> Head(toUri[t]).n, data |-> data]
    <3>1. a \in answers' /\ a.data = data /\ a.n = Head(toUri[t]).n
      BY <2>1
    <3> HIDE DEF a
    <3>2. uri'[t].open /\ ~uri'[t].late => a.n = uri'[t].n
      BY <2>3, <2>5, <3>1
    <3>3. QED
      BY <3>1, <3>2 DEF Told
  <2>7. QED
    BY <2>1, <2>2, <2>6 DEF OffersTold
<1>9. QED
  BY <1>4, <1>6, <1>7, <1>8 DEF Serves

\* An update of a URI session keeps responses whole.
LEMMA AnswersServes ==
  ASSUME Inv, AnswersOK, NEW t \in Askers, Serves(t)
  PROVE  AnswersOK'
<1>1. /\ uri' = uri /\ transfers' = transfers /\ upload' = upload /\ download' = download
      /\ \A v \in Askers : v # t => /\ serving'[v] = serving[v] /\ toUri'[v] = toUri[v]
                                    /\ Offers'[v] = Offers[v]
  BY DEF Serves
<1>2. \A b \in BlockIds : blocks[b].closed => SameContent(blocks, blocks', b)
  BY ClosedOpened DEF Serves
<1>3. answers \subseteq answers'
  BY DEF Serves, Resumes, Provides, Refuses, Responds, Forgets
<1>4. ASSUME NEW v \in Askers
      PROVE  AnswerOK(v)'
  <2>1. AnswerOK(v) /\ Piped(v) /\ uri'[v] = uri[v]
    BY <1>1 DEF AnswersOK, AnswerOK
  <2>2. Later(v)
    BY <2>1 DEF Later
  <2>3. Told(v) \subseteq Told(v)'
    BY <1>3, <2>2, ToldLater
  <2>4. Piped(v)'
    <3>1. CASE v = t
      BY <2>1, <3>1, PipedServes
    <3>2. CASE v # t
      <4>1. uri'[v] = uri[v] /\ serving'[v] = serving[v] /\ toUri'[v] = toUri[v]
            /\ Offers'[v] = Offers[v]
        BY <1>1, <3>2
      <4>2. QED
        BY <2>1, <4>1, Zenon DEF Piped
    <3>3. QED
      BY <3>1, <3>2
  <2>5. ASSUME NEW i \in 1..Len(Offers'[v])
        PROVE  OffersTold(Offers'[v][i], blocks', Told(v)')
    <3>1. CASE \E j \in 1..Len(Offers[v]) : Offers'[v][i] = Offers[v][j]
      <4>1. PICK j \in 1..Len(Offers[v]) : Offers'[v][i] = Offers[v][j]
        BY <3>1
      <4>2. OffersTold(Offers[v][j], blocks, Told(v))
        BY <2>1 DEF AnswerOK
      <4>3. QED
        BY <1>2, <2>3, <4>1, <4>2, CarriesMore
    <3>2. CASE v = t /\ \E p \in UriPayloads :
                 Offers'[t] = Append(Offers[t], p) /\ Offers'[t][i] = p
      BY <3>2, NewCarries
    <3>3. QED
      BY <3>1, <3>2, OfferedNow
  <2>6. uri'[v].link # NoLink =>
          LET l == uri'[v].link
          IN  Tells(transfers'[l], upload'[l], download'[l], blocks', Told(v)')
    <3>1. ASSUME NEW l, l = uri[v].link, l # NoLink
          PROVE  Tells(transfers[l], upload[l], download[l], blocks', Told(v)')
      <4>1. Tells(transfers[l], upload[l], download[l], blocks, Told(v))
        BY <2>1, <3>1 DEF AnswerOK
      <4>2. QED
        BY <1>2, <2>3, <4>1, TellsMore
    <3>2. QED
      BY <1>1, <2>1, <3>1
  <2>7. uri'[v].whole => uri'[v].received \in Told(v)'
    BY <2>1, <2>3 DEF AnswerOK
  <2>8. QED
    BY <2>4, <2>5, <2>6, <2>7 DEF AnswerOK
<1>5. QED
  BY <1>4 DEF AnswersOK

-----------------------------------------------------------------------------
(* Responses, and what an update of a transfer session sends.              *)

\* The session of r and what it sends tell no other data than D.
Says(out, D) == \A i \in 1..Len(out) : Fair(out[i], D)
Speaking(r, D) ==
  /\ Says(r.out, D) /\ Fair(r.s.payload, D)
  /\ r.s.state \in Pulls => r.s.crc \in D

\* A payload that tells nothing is fair.
LEMMA SilentFair ==
  ASSUME NEW D, NEW p,
         p.command \notin {"TransferDataSentinel", "TransferDataHeader"}
  PROVE  Fair(p, D)
  BY DEF Fair

\* A status tells nothing.
LEMMA StatusFair ==
  ASSUME NEW D, NEW x \in Results
  PROVE  Fair(Status(x), D)
  BY StatusTyped, SilentFair

\* Nor does a chunk: what it carries is told by the sentinel after it.
LEMMA ChunkFair ==
  ASSUME NEW D, NEW data \in Bytes
  PROVE  Fair(Chunk(data), D)
  BY ChunkTyped, SilentFair

\* A sentinel tells the checksum, unless it says that the transfer failed.
LEMMA SentinelFair ==
  ASSUME NEW D, NEW x \in Results, NEW crc \in Bytes, x = "Success" => crc \in D
  PROVE  Fair(Sentinel(x, crc), D)
  BY SentinelTyped DEF Fair

\* A header tells of data only if there is none.
LEMMA HeaderFair ==
  ASSUME NEW D, NEW n \in 0..MaxSize, n = 0 => <<>> \in D
  PROVE  Fair(Header(n), D)
<1> DEFINE s == Status("Success")
<1>1. s \in TransferPayloads
  BY StatusTyped DEF Results
<1> HIDE DEF s
<1>2. Header(n).command = "TransferDataHeader" /\ Header(n).size = n
  BY <1>1 DEF Header, s, TransferPayloads, TransferMessage
<1>3. QED
  BY <1>2 DEF Fair

\* One more payload.
LEMMA SaysMore ==
  ASSUME NEW D, NEW out \in Wire, NEW p \in TransferPayloads, Says(out, D), Fair(p, D)
  PROVE  Says(Append(out, p), D)
<1>1. \A i \in 1..Len(Append(out, p)) :
        Append(out, p)[i] = p \/ (i \in 1..Len(out) /\ Append(out, p)[i] = out[i])
  BY DEF Wire
<1>2. QED
  BY <1>1 DEF Says

\* Sending the scratch payload tells no more than it did.
LEMMA SendScratchSays ==
  ASSUME NEW D, NEW r \in Work, Speaking(r, D),
         NEW next \in {"Idle", "ProcessPullTransfer", "ReceivePushTransferData"},
         next \in Pulls => r.s.state \in Pulls
  PROVE  Speaking(SendScratchPayload(r, next), D)
<1> DEFINE e == Status("Success")
           o == Append(r.out, r.s.payload)
           s == [r.s EXCEPT !.state = next, !.payload = e]
           w == [r EXCEPT !.out = o, !.s = s]
<1>1. e \in TransferPayloads /\ Fair(e, D)
  BY StatusTyped, StatusFair DEF Results
<1>2. r.s \in TransferSessions /\ r.out \in Wire /\ r.in \in Wire /\ r.bs \in Cells
      /\ r.s.payload \in TransferPayloads
  BY WorkParts
<1>3. Says(o, D)
  BY <1>2, SaysMore DEF Speaking
<1>4. SendScratchPayload(r, next) = IF HasRoom(r.out) THEN w ELSE r
  BY <1>2 DEF SendScratchPayload, Work, TransferSessions
<1> HIDE DEF e, o
<1>5. s.state = next /\ s.payload = e /\ s.crc = r.s.crc
  BY <1>1, <1>2 DEF TransferSessions
<1> HIDE DEF s
<1>6. w.s = s /\ w.out = o
  BY DEF Work
<1> HIDE DEF w
<1>7. Speaking(w, D)
  BY <1>1, <1>3, <1>5, <1>6 DEF Speaking
<1>8. QED
  BY <1>4, <1>7

\* Sending a payload and going idle tells what the payload tells.
LEMMA SendAndMoveSays ==
  ASSUME NEW D, NEW r \in Work, Says(r.out, D), NEW p \in TransferPayloads, Fair(p, D)
  PROVE  Speaking(SendAndMoveToIdle(r, p), D)
<1> DEFINE s == [r.s EXCEPT !.state = "SendPayload", !.payload = p]
           w == [r EXCEPT !.s = s]
<1>1. r.s \in TransferSessions /\ r.out \in Wire /\ r.in \in Wire /\ r.bs \in Cells
  BY WorkParts
<1>2. SendAndMoveToIdle(r, p) = SendScratchPayload(w, "Idle")
  BY <1>1 DEF SendAndMoveToIdle, Work, TransferSessions
<1>3. s \in TransferSessions /\ s.state = "SendPayload" /\ s.payload = p
  BY <1>1 DEF TransferSessions
<1> HIDE DEF s
<1>4. w \in Work /\ w.s = s /\ w.out = r.out
  BY <1>1, <1>3 DEF Work
<1> HIDE DEF w
<1>5. Speaking(w, D)
  BY <1>3, <1>4 DEF Speaking, Pulls
<1>6. QED
  BY <1>2, <1>4, <1>5, SendScratchSays DEF Pulls

\* Chunks tell nothing.
LEMMA SendChunksSays ==
  ASSUME NEW D, NEW r \in Work, Len(r.out) <= LinkWindow, Speaking(r, D),
         r.s.done <= r.s.total, r.s.block \in BlockIds,
         Len(r.bs[r.s.block].data) = r.s.total
  PROVE  Speaking(SendChunks(r), D)
<1> DEFINE room == LinkWindow - Len(r.out)
           left == r.s.total - r.s.done
           k == IF room < left THEN room ELSE left
           data == r.bs[r.s.block].data
           n == r.s.done + k
           chunks == [i \in 1..k |-> Chunk(SubSeq(data, r.s.done + i, r.s.done + i))]
           o == r.out \o chunks
           s == [r.s EXCEPT !.done = n]
           w == [r EXCEPT !.s = s, !.out = o]
<1>1. /\ Len(r.out) \in Nat /\ r.s.total \in Nat /\ r.s.done \in Nat
      /\ r.out \in Wire /\ r.s \in TransferSessions
  BY WorkParts, Bounds DEF Wire
<1>2. k \in Nat /\ k <= room /\ k <= left
  <2>1. room \in Nat /\ left \in Nat
    BY <1>1, Bounds
  <2>2. QED
    BY <2>1
<1>3. data \in Bytes /\ Len(data) = r.s.total
  BY WorkParts, CellsTyped
<1>4. SendChunks(r) = w
  BY DEF SendChunks, Work, TransferSessions
<1> HIDE DEF k, data, n
<1>5. \A i \in 1..k : SubSeq(data, r.s.done + i, r.s.done + i) \in Bytes
  <2>1. \A i \in 1..k : r.s.done + i \in 1..Len(data)
    BY <1>1, <1>2, <1>3
  <2>2. QED
    BY <2>1, <1>3, PieceTyped
<1>6. \A i \in 1..k : /\ Chunk(SubSeq(data, r.s.done + i, r.s.done + i)) \in TransferPayloads
                      /\ Fair(Chunk(SubSeq(data, r.s.done + i, r.s.done + i)), D)
  BY <1>5, ChunkTyped, ChunkFair
<1>7. chunks \in Wire /\ Len(chunks) = k /\ \A i \in 1..k : Fair(chunks[i], D)
  BY <1>2, <1>6 DEF Wire
<1> HIDE DEF chunks
<1>8. \A i \in 1..Len(o) : \/ i \in 1..Len(r.out) /\ o[i] = r.out[i]
                           \/ i - Len(r.out) \in 1..k /\ o[i] = chunks[i - Len(r.out)]
  BY <1>1, <1>2, <1>7 DEF Wire
<1>9. Says(o, D)
  BY <1>7, <1>8 DEF Says, Speaking
<1>10. s.state = r.s.state /\ s.crc = r.s.crc /\ s.payload = r.s.payload
  BY <1>1 DEF TransferSessions
<1> HIDE DEF o, s
<1>11. w.s = s /\ w.out = o
  BY DEF Work
<1> HIDE DEF w
<1>12. QED
  BY <1>4, <1>9, <1>10, <1>11 DEF Speaking

\* A pull tells its checksum when it ends.
LEMMA ProcessPullSays ==
  ASSUME NEW D, NEW r \in Work, Len(r.out) <= LinkWindow, Speaking(r, D),
         r.s.state = "ProcessPullTransfer",
         r.s.done <= r.s.total, r.s.block \in BlockIds,
         Len(r.bs[r.s.block].data) = r.s.total
  PROVE  Speaking(ProcessPullSession(r), D)
<1>1. CASE r.in = <<>>
  <2> DEFINE c == SendChunks(r)
             d == Release(c)
             m == Sentinel("Success", c.s.crc)
             f == SendAndMoveToIdle(d, m)
  <2>1. /\ c \in Work /\ c.s.state = r.s.state /\ c.s.block = r.s.block
        /\ c.s.crc = r.s.crc
    BY SendChunksIs
  <2>2. Speaking(c, D)
    BY SendChunksSays
  <2>3. ProcessPullSession(r) = IF c.s.done = c.s.total THEN f ELSE c
    BY <1>1 DEF ProcessPullSession
  <2> HIDE DEF c
  <2>4. c.s.crc \in Bytes /\ c.s.crc \in D
    BY <2>1, <2>2, WorkParts DEF Speaking, Pulls
  <2>5. m \in TransferPayloads /\ Fair(m, D)
    BY <2>4, SentinelTyped, SentinelFair DEF Results
  <2>6. d \in Work /\ d.out = c.out
    BY <2>1, ReleaseIs
  <2> HIDE DEF d, m
  <2>7. Speaking(f, D)
    BY <2>2, <2>5, <2>6, SendAndMoveSays DEF Speaking
  <2> HIDE DEF f
  <2>8. QED
    BY <2>2, <2>3, <2>7
<1>2. CASE r.in # <<>>
  <2> DEFINE a == Consume(r)
             x == IF Head(r.in).command = "TransferStatus" THEN "Aborted" ELSE "Error"
             e == <<>>
             m == Sentinel(x, e)
             f == SendAndMoveToIdle(a, m)
  <2>1. a \in Work /\ a.out = r.out
    BY <1>2, TailTyped
  <2>2. ProcessPullSession(r) = f
    BY <1>2 DEF ProcessPullSession, Consume
  <2> HIDE DEF a
  <2>3. x \in Results /\ e \in Bytes /\ x # "Success"
    BY NoBytes DEF Results
  <2> HIDE DEF x, e
  <2>4. m \in TransferPayloads /\ Fair(m, D)
    BY <2>3, SentinelTyped, SentinelFair
  <2> HIDE DEF m
  <2>5. Speaking(f, D)
    BY <2>1, <2>4, SendAndMoveSays DEF Speaking
  <2>6. QED
    BY <2>2, <2>5
<1>3. QED
  BY <1>1, <1>2

\* A pull begins with its header.
LEMMA PullHeaderSays ==
  ASSUME NEW D, NEW r \in Work, Len(r.out) <= LinkWindow, Speaking(r, D),
         r.s.state = "StartPullTransfer",
         r.s.done <= r.s.total, r.s.block \in BlockIds,
         Len(r.bs[r.s.block].data) = r.s.total
  PROVE  Speaking(SendPullTransferHeader(r), D)
<1> DEFINE c == SendScratchPayload(r, "ProcessPullTransfer")
           f == ProcessPullSession(c)
<1>1. /\ c \in Work /\ Len(c.out) <= LinkWindow
      /\ c.bs = r.bs /\ c.s.block = r.s.block
      /\ c.s.total = r.s.total /\ c.s.done = r.s.done
  BY SendScratchIs
<1>2. Speaking(c, D)
  BY SendScratchSays DEF Pulls
<1>3. SendPullTransferHeader(r) = IF c.s.state = "ProcessPullTransfer" THEN f ELSE c
  BY DEF SendPullTransferHeader
<1> HIDE DEF c
<1>4. c.s.state = "ProcessPullTransfer" => Speaking(f, D)
  BY <1>1, <1>2, ProcessPullSays
<1>5. QED
  BY <1>2, <1>3, <1>4

\* A pull tells the data of its block.
LEMMA StartPullSays ==
  ASSUME NEW D, NEW r \in Work, Len(r.out) <= LinkWindow, NEW b \in BlockIds,
         Says(r.out, D), r.bs[b].data \in D, Len(r.bs[b].data) <= MaxSize
  PROVE  Speaking(StartPull(r, b), D)
<1> DEFINE data == r.bs[b].data
           n == Len(data)
           z == 0
           h == Header(n)
           e == BeginTransfer(r.bs, b)
           s == [r.s EXCEPT !.state = "StartPullTransfer", !.block = b,
                            !.total = n, !.done = z, !.crc = data, !.payload = h]
           w == [r EXCEPT !.bs = e, !.s = s]
<1>1. /\ r.s \in TransferSessions /\ r.in \in Wire /\ r.out \in Wire /\ r.bs \in Cells
  BY WorkParts
<1>2. data \in Bytes /\ n \in 0..MaxSize /\ z \in 0..MaxSize /\ z <= n
  <2>1. data \in Bytes /\ n \in Nat /\ n <= MaxSize
    BY <1>1, CellsTyped DEF Bytes
  <2>2. QED
    BY <2>1, Bounds
<1>3. StartPull(r, b) = SendPullTransferHeader(w)
  BY DEF StartPull, Work
<1>4. n = 0 => <<>> \in D
  <2>1. n = 0 => data = <<>>
    BY <1>2 DEF Bytes
  <2>2. data \in D
    OBVIOUS
  <2> HIDE DEF data
  <2>3. QED
    BY <2>1, <2>2
<1>5. data \in D /\ n = Len(data)
  OBVIOUS
<1> HIDE DEF data
<1>6. h \in TransferPayloads /\ Fair(h, D)
  <2>1. n \in 0..MaxSize /\ (n = 0 => <<>> \in D)
    BY <1>2, <1>4
  <2> HIDE DEF n
  <2>2. QED
    BY <2>1, HeaderTyped, HeaderFair
<1>7. e \in Cells /\ e[b].data = r.bs[b].data
  BY <1>1, BeginIs
<1>8. b \in 0..MaxBlocks
  BY Bounds DEF BlockIds
<1> HIDE DEF n, z, h, e
<1>9. /\ s \in TransferSessions /\ s.state = "StartPullTransfer" /\ s.block = b
      /\ s.total = n /\ s.done = z /\ s.crc = data /\ s.payload = h
  BY <1>1, <1>2, <1>6, <1>8 DEF TransferSessions
<1> HIDE DEF s
<1>10. w \in Work /\ w.s = s /\ w.bs = e /\ w.out = r.out
  BY <1>1, <1>7, <1>9 DEF Work
<1> HIDE DEF w
<1>11. /\ Len(w.bs[w.s.block].data) = w.s.total /\ w.s.done <= w.s.total
       /\ w.s.block \in BlockIds /\ w.s.state = "StartPullTransfer"
       /\ Len(w.out) <= LinkWindow
  BY <1>2, <1>5, <1>7, <1>9, <1>10 DEF data
<1>12. Speaking(w, D)
  BY <1>5, <1>6, <1>9, <1>10 DEF Speaking
<1>13. QED
  BY <1>3, <1>10, <1>11, <1>12, PullHeaderSays

\* A push tells nothing.
LEMMA StartPushSays ==
  ASSUME NEW D, NEW r \in Work, Len(r.out) <= LinkWindow, NEW b \in BlockIds,
         NEW size \in 0..MaxSize, Says(r.out, D)
  PROVE  Speaking(StartPush(r, b, size), D)
<1> DEFINE z == 0
           f == <<>>
           e == BeginTransfer(r.bs, b)
           ok == Status("Success")
           bad == Status("Error")
           s == [r.s EXCEPT !.block = b, !.total = size, !.done = z, !.crc = f]
           s2 == [s EXCEPT !.state = "StartPushTransfer", !.payload = ok]
           w == [r EXCEPT !.bs = e, !.s = s]
           w2 == [w EXCEPT !.s = s2]
<1>1. /\ r.s \in TransferSessions /\ r.in \in Wire /\ r.out \in Wire /\ r.bs \in Cells
  BY WorkParts
<1>2. f \in Bytes /\ z \in 0..MaxSize
  BY NoBytes, Bounds
<1>3. /\ ok \in TransferPayloads /\ bad \in TransferPayloads
      /\ Fair(ok, D) /\ Fair(bad, D)
  BY StatusTyped, StatusFair DEF Results
<1>4. StartPush(r, b, size) =
        IF size > 0 THEN StartPushTransferSession(w2) ELSE SendAndMoveToIdle(w, bad)
  <2>1. StartPush(r, b, size) =
          IF size > 0
          THEN StartPushTransferSession([w EXCEPT !.s.state = "StartPushTransfer",
                                                  !.s.payload = ok])
          ELSE SendAndMoveToIdle(w, bad)
    BY DEF StartPush
  <2>2. [w EXCEPT !.s.state = "StartPushTransfer", !.s.payload = ok] = w2
    BY DEF Work, TransferSessions
  <2>3. QED
    BY <2>1, <2>2
<1>5. e \in Cells
  BY <1>1, BeginIs
<1>6. b \in 0..MaxBlocks
  BY Bounds DEF BlockIds
<1> HIDE DEF z, f, e, ok, bad
<1>7. s \in TransferSessions
  BY <1>1, <1>2, <1>6 DEF TransferSessions
<1> HIDE DEF s
<1>8. /\ s2 \in TransferSessions /\ s2.state = "StartPushTransfer" /\ s2.payload = ok
  BY <1>3, <1>7 DEF TransferSessions
<1> HIDE DEF s2
<1>9. w \in Work /\ w.s = s /\ w.out = r.out
  BY <1>1, <1>5, <1>7 DEF Work
<1> HIDE DEF w
<1>10. w2 \in Work /\ w2.s = s2 /\ w2.out = r.out
  BY <1>8, <1>9 DEF Work
<1> HIDE DEF w2
<1>11. Speaking(w2, D)
  BY <1>3, <1>8, <1>10 DEF Speaking, Pulls
<1>12. Speaking(StartPushTransferSession(w2), D)
  BY <1>10, <1>11, SendScratchSays DEF StartPushTransferSession, Pulls
<1>13. Speaking(SendAndMoveToIdle(w, bad), D)
  BY <1>3, <1>9, SendAndMoveSays
<1>14. QED
  BY <1>4, <1>12, <1>13

\* The end of a push tells nothing.
LEMMA EndPushSays ==
  ASSUME NEW D, NEW r \in Work, Says(r.out, D), r.s.block \in BlockIds,
         NEW e \in Cells, NEW x \in Results
  PROVE  Speaking(SendAndMoveToIdle(Release([r EXCEPT !.bs = e]), Status(x)), D)
<1> DEFINE w == [r EXCEPT !.bs = e]
           d == Release(w)
           m == Status(x)
<1>1. /\ r.s \in TransferSessions /\ r.in \in Wire /\ r.out \in Wire /\ r.bs \in Cells
  BY WorkParts
<1>2. m \in TransferPayloads /\ Fair(m, D)
  BY StatusTyped, StatusFair
<1> HIDE DEF m
<1>3. w \in Work /\ w.s = r.s /\ w.out = r.out
  BY <1>1 DEF Work
<1> HIDE DEF w
<1>4. d \in Work /\ d.out = w.out
  BY <1>3, ReleaseIs
<1> HIDE DEF d
<1>5. Speaking(SendAndMoveToIdle(d, m), D)
  BY <1>2, <1>3, <1>4, SendAndMoveSays
<1>6. QED
  BY <1>5 DEF d, w, m

\* The session handles a request, or a payload of a pull that has ended.
LEMMA ProcessPayloadSays ==
  ASSUME NEW D, NEW r \in Work, Len(r.out) <= LinkWindow, Says(r.out, D),
         NEW p \in TransferPayloads, \A b \in BlockIds : Len(r.bs[b].data) <= MaxSize,
         p.command = "PullRequest" => r.bs[p.block].data \in D
  PROVE  Speaking(ProcessPayload(r, p), D)
<1>1. p.block \in 0..MaxBlocks /\ p.size \in 0..MaxSize
  BY DEF TransferPayloads
<1>2. CASE p.command = "PullRequest" /\ MayPull(r.bs, p.block)
  <2>1. p.block \in BlockIds
    BY <1>1, <1>2, Bounds DEF MayPull, Registered
  <2>2. ProcessPayload(r, p) = StartPull(r, p.block)
    BY <1>2 DEF ProcessPayload
  <2>3. QED
    BY <1>2, <2>1, <2>2, StartPullSays
<1>3. CASE p.command = "PushRequest" /\ MayPush(r.bs, p.block)
  <2>1. p.block \in BlockIds
    BY <1>1, <1>3, Bounds DEF MayPush, Registered
  <2>2. ProcessPayload(r, p) = StartPush(r, p.block, p.size)
    BY <1>3 DEF ProcessPayload
  <2>3. QED
    BY <1>1, <2>1, <2>2, StartPushSays
<1>4. CASE /\ ~(p.command = "PullRequest" /\ MayPull(r.bs, p.block))
           /\ ~(p.command = "PushRequest" /\ MayPush(r.bs, p.block))
  <2> DEFINE e == <<>>
             a == Sentinel("Aborted", e)
             f == Status("Error")
             m == IF p.command = "TransferStatus" THEN a ELSE f
  <2>1. ProcessPayload(r, p) = SendAndMoveToIdle(r, m)
    BY <1>4 DEF ProcessPayload
  <2>2. e \in Bytes
    BY NoBytes
  <2> HIDE DEF e
  <2>3. a \in TransferPayloads /\ f \in TransferPayloads /\ Fair(a, D) /\ Fair(f, D)
    BY <2>2, SentinelTyped, StatusTyped, SentinelFair, StatusFair DEF Results
  <2> HIDE DEF a, f
  <2>4. m \in TransferPayloads /\ Fair(m, D)
    BY <2>3
  <2> HIDE DEF m
  <2>5. QED
    BY <2>1, <2>4, SendAndMoveSays
<1>5. QED
  BY <1>2, <1>3, <1>4

\* The session handles a payload of a push.
LEMMA ReceivePushSays ==
  ASSUME NEW D, NEW r \in Work, Speaking(r, D), r.s.state \notin Pulls,
         r.s.block \in BlockIds, NEW p \in TransferPayloads
  PROVE  Speaking(ReceivePushTransferData(r, p), D)
<1> DEFINE last == /\ p.command = "TransferDataSentinel" /\ p.result = "Success"
                   /\ r.bs[r.s.block].data = p.data
           more == p.command = "TransferDataChunk" /\ r.s.done < r.s.total
<1>1. Says(r.out, D) /\ p.data \in Bytes
  BY DEF Speaking, TransferPayloads
<1>2. CASE more
  <2>1. ReceivePushTransferData(r, p) = TakenIn(r, p.data)
    BY <1>2 DEF TakenIn, ReceivePushTransferData
  <2> DEFINE e == Write(r.bs, r.s.block, p.data)
             n == r.s.done + 1
             s == [r.s EXCEPT !.done = n]
             w == [r EXCEPT !.bs = e, !.s = s]
  <2>2. r.s \in TransferSessions
    BY WorkParts
  <2>3. TakenIn(r, p.data) = w
    BY DEF TakenIn, Work, TransferSessions
  <2> HIDE DEF e, n
  <2>4. s.state = r.s.state /\ s.crc = r.s.crc /\ s.payload = r.s.payload
    BY <2>2 DEF TransferSessions
  <2> HIDE DEF s
  <2>5. w.s = s /\ w.out = r.out
    BY DEF Work
  <2> HIDE DEF w
  <2>6. QED
    BY <2>1, <2>3, <2>4, <2>5 DEF Speaking
<1>3. CASE ~more /\ last
  <2> DEFINE e == Close(r.bs, r.s.block)
             x == "Success"
  <2>1. ReceivePushTransferData(r, p) =
          SendAndMoveToIdle(Release([r EXCEPT !.bs = e]), Status(x))
    BY <1>3 DEF ReceivePushTransferData, Work
  <2>2. e \in Cells /\ x \in Results
    BY WorkParts, CloseIs DEF Results
  <2> HIDE DEF e, x
  <2>3. QED
    BY <1>1, <2>1, <2>2, EndPushSays
<1>4. CASE ~more /\ ~last
  <2> DEFINE e == Reset(r.bs, r.s.block)
             x == IF p.command = "TransferDataSentinel" /\ p.result = "Aborted"
                  THEN "Aborted" ELSE "Error"
  <2>1. ReceivePushTransferData(r, p) =
          SendAndMoveToIdle(Release([r EXCEPT !.bs = e]), Status(x))
    BY <1>4 DEF ReceivePushTransferData, CancelTransfer, Work
  <2>2. e \in Cells /\ x \in Results
    BY WorkParts, ResetIs DEF Results
  <2> HIDE DEF e, x
  <2>3. QED
    BY <1>1, <2>1, <2>2, EndPushSays
<1>5. QED
  BY <1>2, <1>3, <1>4

\* An update tells no more than the session did, or the block that it is asked for.
LEMMA AfterSays ==
  ASSUME NEW D, NEW r, Meets(r), Tells(r.s, r.in, r.out, r.bs, D)
  PROVE  Speaking(After(r), D)
<1>1. r \in Work /\ Len(r.out) <= LinkWindow /\ r.s \in TransferSessions
  BY WorkParts DEF Meets
<1>2. Speaking(r, D)
  BY DEF Tells, Speaking, Says
<1>3. ASSUME r.in # <<>>
      PROVE  /\ Consume(r) \in Work /\ Consume(r).out = r.out /\ Consume(r).s = r.s
             /\ Consume(r).bs = r.bs /\ Head(r.in) \in TransferPayloads
             /\ Head(r.in).command = "PullRequest" => r.bs[Head(r.in).block].data \in D
  <2>1. /\ Consume(r) \in Work /\ Consume(r).out = r.out /\ Consume(r).s = r.s
        /\ Consume(r).bs = r.bs /\ Head(r.in) \in TransferPayloads
    BY <1>1, <1>3, TailTyped
  <2>2. 1 \in 1..Len(r.in) /\ r.in[1] = Head(r.in)
    BY <1>1, <1>3, WorkParts DEF Wire
  <2>3. QED
    BY <2>1, <2>2 DEF Tells
<1>4. CASE r.s.state = "Idle" /\ r.in # <<>>
  <2>1. After(r) = ProcessPayload(Consume(r), Head(r.in))
    BY <1>4 DEF After
  <2> DEFINE c == Consume(r)
             p == Head(r.in)
  <2>2. /\ c \in Work /\ Len(c.out) <= LinkWindow /\ Says(c.out, D)
        /\ p \in TransferPayloads /\ \A b \in BlockIds : Len(c.bs[b].data) <= MaxSize
        /\ p.command = "PullRequest" => c.bs[p.block].data \in D
    BY <1>1, <1>2, <1>3, <1>4 DEF Speaking, Meets
  <2> HIDE DEF c, p
  <2>3. Speaking(ProcessPayload(c, p), D)
    BY <2>2, ProcessPayloadSays
  <2>4. QED
    BY <2>1, <2>3 DEF c, p
<1>5. CASE r.s.state = "ReceivePushTransferData" /\ r.in # <<>>
  <2>1. After(r) = ReceivePushTransferData(Consume(r), Head(r.in))
    BY <1>5 DEF After
  <2> DEFINE c == Consume(r)
             p == Head(r.in)
  <2>2. r.s.block \in BlockIds
    BY <1>1, <1>5, WorkParts, Bounds DEF Meets, Sound, Pushes
  <2>3. /\ c \in Work /\ Speaking(c, D) /\ c.s.state \notin Pulls
        /\ c.s.block \in BlockIds /\ p \in TransferPayloads
    BY <1>2, <1>3, <1>5, <2>2 DEF Speaking, Pulls
  <2> HIDE DEF c, p
  <2>4. Speaking(ReceivePushTransferData(c, p), D)
    BY <2>3, ReceivePushSays
  <2>5. QED
    BY <2>1, <2>4 DEF c, p
<1>6. CASE r.s.state \in Pulls
  <2>1. r.s.done <= r.s.total /\ r.s.block # NoBlock
        /\ Len(r.bs[r.s.block].data) = r.s.total
    BY <1>6 DEF Meets, Sound
  <2>2. r.s.block \in BlockIds
    BY <1>1, <2>1, WorkParts, Bounds
  <2>3. CASE r.s.state = "StartPullTransfer"
    BY <1>1, <1>2, <2>1, <2>2, <2>3, PullHeaderSays DEF After
  <2>4. CASE r.s.state = "ProcessPullTransfer"
    BY <1>1, <1>2, <2>1, <2>2, <2>4, ProcessPullSays DEF After
  <2>5. QED
    BY <1>6, <2>3, <2>4 DEF Pulls
<1>7. CASE r.s.state = "SendPayload"
  BY <1>1, <1>2, <1>7, SendScratchSays DEF After, Pulls
<1>8. CASE r.s.state = "StartPushTransfer"
  BY <1>1, <1>2, <1>8, SendScratchSays DEF After, StartPushTransferSession, Pulls
<1>9. CASE \/ r.s.state \in {"Idle", "None"} /\ r.in = <<>>
           \/ r.s.state = "None"
           \/ r.s.state = "ReceivePushTransferData" /\ r.in = <<>>
  <2>1. After(r) = r
    BY <1>9 DEF After
  <2>2. QED
    BY <1>2, <2>1
<1>10. QED
  BY <1>1, <1>4, <1>5, <1>6, <1>7, <1>8, <1>9 DEF TransferSessions, Pulls

\* An update tells what its session did, and asks for nothing new.
LEMMA TellsAfter ==
  ASSUME NEW D, NEW r, Meets(r), NEW q, q = After(r), Goes(r, q), Changes(r, q),
         \A b \in BlockIds : r.bs[b].closed => SameContent(r.bs, q.bs, b),
         Tells(r.s, r.in, r.out, r.bs, D)
  PROVE  Tells(q.s, q.in, q.out, q.bs, D)
<1>1. Speaking(q, D)
  BY AfterSays
<1>2. r \in Work /\ r.in \in Wire
  BY WorkParts DEF Meets
<1>3. \A i \in 1..Len(q.in) : \E j \in 1..Len(r.in) : q.in[i] = r.in[j]
  <2>1. CASE q.in = r.in
    BY <2>1
  <2>2. CASE r.in # <<>> /\ q.in = Tail(r.in)
    <3>1. \A i \in 1..Len(q.in) : i + 1 \in 1..Len(r.in) /\ q.in[i] = r.in[i + 1]
      BY <1>2, <2>2 DEF Wire
    <3>2. QED
      BY <3>1
  <2>3. QED
    BY <2>1, <2>2 DEF Goes
<1>4. ASSUME NEW i \in 1..Len(q.in), q.in[i].command = "PullRequest"
      PROVE  /\ q.in[i].block \in BlockIds
             /\ q.bs[q.in[i].block].closed /\ q.bs[q.in[i].block].data \in D
  <2>1. PICK j \in 1..Len(r.in) : q.in[i] = r.in[j]
    BY <1>3
  <2>2. /\ r.in[j].block \in BlockIds
        /\ r.bs[r.in[j].block].closed /\ r.bs[r.in[j].block].data \in D
    BY <1>4, <2>1 DEF Tells
  <2>3. QED
    BY <2>1, <2>2 DEF SameContent
<1>5. QED
  BY <1>1, <1>4 DEF Tells, Speaking, Says

\* A step of a transfer thread keeps the responses whole if it does on the links
\* of the clients.
LEMMA AnswersLinks ==
  ASSUME Inv, AnswersOK, UNCHANGED uriVars,
         \A b \in BlockIds : blocks[b].closed => SameContent(blocks, blocks', b),
         \A k \in Links : \A D :
           /\ context[k].state # "Closed"
           /\ Tells(transfers[k], upload[k], download[k], blocks, D)
           => Tells(transfers'[k], upload'[k], download'[k], blocks', D)
  PROVE  AnswersOK'
<1>1. /\ uri' = uri /\ serving' = serving /\ toUri' = toUri /\ Offers' = Offers
      /\ answers' = answers
  BY DEF uriVars, Offers
<1>2. ASSUME NEW t \in Askers
      PROVE  AnswerOK(t)'
  <2>1. AnswerOK(t)
    BY DEF AnswersOK
  <2>2. Told(t)' = Told(t)
    BY <1>1 DEF Told
  <2>3. Piped(t)'
    <3>1. Piped(t) /\ uri'[t] = uri[t] /\ serving'[t] = serving[t]
          /\ toUri'[t] = toUri[t] /\ Offers'[t] = Offers[t]
      BY <1>1, <2>1 DEF AnswerOK
    <3>2. QED
      BY <3>1, Zenon DEF Piped
  <2>4. \A i \in 1..Len(Offers'[t]) : OffersTold(Offers'[t][i], blocks', Told(t)')
    BY <1>1, <2>1, <2>2, CarriesMore DEF AnswerOK
  <2>5. ASSUME uri[t].link # NoLink
        PROVE  Tells(transfers'[uri[t].link], upload'[uri[t].link],
                     download'[uri[t].link], blocks', Told(t))
    <3>1. uri[t].link \in Links /\ context[uri[t].link].state # "Closed"
      BY <2>5, UrisTyped DEF Inv, AskersOK, OnLink
    <3>2. Tells(transfers[uri[t].link], upload[uri[t].link],
                download[uri[t].link], blocks, Told(t))
      BY <2>1, <2>5 DEF AnswerOK
    <3>3. QED
      BY <3>1, <3>2
  <2>6. QED
    BY <1>1, <2>1, <2>2, <2>3, <2>4, <2>5 DEF AnswerOK
<1>3. QED
  BY <1>2 DEF AnswersOK

\* UpdateSession keeps the responses whole.
LEMMA AnswersUpdate ==
  ASSUME Inv, AnswersOK, NEW l \in Links, UpdateTransfer(l), UNCHANGED uriVars
  PROVE  AnswersOK'
<1>1. PICK r \in Work : \E q \in Work : UpdatesLink(l, r, q)
  BY UpdateIs
<1>2. PICK q \in Work : UpdatesLink(l, r, q)
  BY <1>1
<1>3. /\ Meets(r) /\ q = After(r) /\ Goes(r, q) /\ Changes(r, q)
      /\ r.s = transfers[l] /\ r.in = upload[l] /\ r.out = download[l] /\ r.bs = blocks
      /\ transfers'[l] = q.s /\ upload'[l] = q.in /\ download'[l] = q.out
      /\ blocks' = q.bs
      /\ \A k \in Links : k # l =>
           /\ transfers'[k] = transfers[k] /\ upload'[k] = upload[k]
           /\ download'[k] = download[k]
  BY <1>2 DEF UpdatesLink
<1>4. ASSUME NEW b \in BlockIds, r.bs[b].closed
      PROVE  SameContent(r.bs, q.bs, b)
  <2>1. SameContent(r.bs, q.bs, b) \/ (b = r.s.block /\ r.s.state \in Pushes)
    BY <1>2 DEF UpdatesLink
  <2>2. r.s.state \in Pushes => ~r.bs[r.s.block].closed
    BY <1>3 DEF Meets, Sound
  <2>3. QED
    BY <1>4, <2>1, <2>2
<1>5. ASSUME NEW k \in Links, NEW D, Tells(transfers[k], upload[k], download[k], blocks, D)
      PROVE  Tells(transfers'[k], upload'[k], download'[k], blocks', D)
  <2>1. CASE k = l
    <3>1. Tells(r.s, r.in, r.out, r.bs, D)
      BY <1>3, <1>5, <2>1
    <3>2. Tells(q.s, q.in, q.out, q.bs, D)
      BY <1>3, <1>4, <3>1, TellsAfter
    <3>3. QED
      BY <1>3, <2>1, <3>2
  <2>2. CASE k # l
    <3>1. /\ transfers'[k] = transfers[k] /\ upload'[k] = upload[k]
          /\ download'[k] = download[k] /\ blocks = r.bs /\ blocks' = q.bs
      BY <1>3, <2>2
    <3>2. Tells(transfers[k], upload[k], download[k], r.bs, D)
      BY <1>5, <3>1
    <3>3. Tells(transfers[k], upload[k], download[k], q.bs, D)
      BY <1>4, <3>2, TellsMore
    <3>4. QED
      BY <3>1, <3>3
  <2>3. QED
    BY <2>1, <2>2
<1>6. \A b \in BlockIds : blocks[b].closed => SameContent(blocks, blocks', b)
  BY <1>3, <1>4
<1>7. QED
  BY <1>5, <1>6, AnswersLinks

\* The end of a session is on no link of a client.
LEMMA AnswersTerminated ==
  ASSUME Inv, AnswersOK, NEW l \in Links, TransferTerminated(l), UNCHANGED uriVars
  PROVE  AnswersOK'
<1>1. /\ context[l].state = "Closed"
      /\ \A b \in BlockIds : SameContent(blocks, blocks', b)
      /\ \A k \in Links : k # l =>
           /\ transfers'[k] = transfers[k] /\ upload'[k] = upload[k]
           /\ download'[k] = download[k]
  BY TerminatedIs
<1>2. ASSUME NEW k \in Links, NEW D, context[k].state # "Closed",
             Tells(transfers[k], upload[k], download[k], blocks, D)
      PROVE  Tells(transfers'[k], upload'[k], download'[k], blocks', D)
  <2>1. /\ transfers'[k] = transfers[k] /\ upload'[k] = upload[k]
        /\ download'[k] = download[k]
    BY <1>1, <1>2
  <2>2. Tells(transfers[k], upload[k], download[k], blocks', D)
    BY <1>1, <1>2, TellsMore
  <2>3. QED
    BY <2>1, <2>2
<1>3. QED
  BY <1>1, <1>2, AnswersLinks

-----------------------------------------------------------------------------
(* Post data and responses in every behaviour.                             *)

\* Nothing is posted or offered at first.
LEMMA InitWhole == UriInit => PostsOK /\ AnswersOK
<1> SUFFICES ASSUME UriInit PROVE PostsOK /\ AnswersOK
  OBVIOUS
<1> DEFINE e == <<>>
<1>1. Inv
  BY InitInv
<1>2. ASSUME NEW t \in Askers
      PROVE  /\ uri[t].call = "None" /\ uri[t].link = NoLink /\ uri[t].state = "Idle"
             /\ ~uri[t].open /\ ~uri[t].whole
             /\ ~serving[t].open /\ serving[t].pending = NoBlock
             /\ toUri[t] = e /\ Offers[t] = e
  <2>1. uri[t] = NoUri /\ serving[t] = NoServing /\ toUri[t] = e /\ fromUri[t] = e
    BY DEF UriInit
  <2>2. /\ NoUri.call = "None" /\ NoUri.link = NoLink /\ NoUri.state = "Idle"
        /\ ~NoUri.open /\ ~NoUri.whole
    BY DEF NoUri
  <2>3. ~NoServing.open /\ NoServing.pending = NoBlock /\ NoServing.queued = e
    BY DEF NoServing
  <2>4. e \o e = e
    OBVIOUS
  <2>5. Offers[t] = e
    BY <2>1, <2>3, <2>4 DEF Offers
  <2>6. QED
    BY <2>1, <2>2, <2>3, <2>5
<1>3. ASSUME NEW l \in Links
      PROVE  transfers[l].state = "None" /\ Wants[l] = NoBlock
  <2>1. transfers[l] = NoTransfer /\ upload[l] = e
    BY DEF UriInit, TransferInit
  <2>2. NoTransfer.state = "None"
    BY DEF NoTransfer
  <2>3. QED
    BY <2>1, <2>2 DEF Wants, Wanted, Pushes
<1>4. 1..Len(e) = {} /\ served = {}
  BY DEF UriInit
<1> HIDE DEF e
<1>5. PostsOK
  <2> DEFINE f == [b \in BlockIds |-> 0]
  <2>1. f \in [BlockIds -> 0..MaxRequests] /\ \A b \in BlockIds : f[b] = 0
    BY Bounds2
  <2> HIDE DEF f
  <2>2. OffersFollow(f)
    BY <2>1 DEF OffersFollow
  <2>3. \A l \in Links : LinkFollows(f, l)
    BY <1>3 DEF LinkFollows, Pushes
  <2>4. \A t \in Askers : PendingFollows(f, serving[t].pending)
    BY <1>2 DEF PendingFollows
  <2>5. \A t \in Askers : AskerFollows(f, uri[t])
    BY <1>2 DEF AskerFollows, PushCalls
  <2>6. \A t \in Askers : \A i \in 1..Len(toUri[t]) : RequestFollows(f, toUri[t][i])
    BY <1>2, <1>4
  <2>7. Follow(f)
    BY <2>2, <2>3, <2>4, <2>5, <2>6 DEF Follow
  <2>8. \A t \in Askers : Posts(uri[t])
    BY <1>2 DEF Posts, PushCalls
  <2>9. \A t \in Askers : \A i \in 1..Len(Offers[t]) :
          Offers[t][i].result = "Success" => Offers[t][i].block # NoBlock
    BY <1>2, <1>4
  <2>10. QED
    BY <1>4, <2>1, <2>7, <2>8, <2>9 DEF PostsOK
<1>6. AnswersOK
  <2>1. ASSUME NEW t \in Askers
        PROVE  AnswerOK(t)
    <3>1. Piped(t)
      BY <1>2 DEF Piped, Waits, e
    <3>2. \A i \in 1..Len(Offers[t]) : OffersTold(Offers[t][i], blocks, Told(t))
      BY <1>2, <1>4
    <3>3. QED
      BY <1>2, <3>1, <3>2 DEF AnswerOK
  <2>2. QED
    BY <2>1 DEF AnswersOK
<1>7. QED
  BY <1>5, <1>6

\* Every step keeps post data and responses whole.
LEMMA NextWhole ==
  ASSUME Inv, PostsOK, AnswersOK, UriNext
  PROVE  PostsOK' /\ AnswersOK'
<1>1. ASSUME NEW t \in Askers, UpdateUri(t)
      PROVE  PostsOK' /\ AnswersOK'
  BY <1>1, ServesIs, PostsServes, AnswersServes
<1>2. ASSUME NEW l \in Links, UpdateLink(l)
      PROVE  PostsOK' /\ AnswersOK'
  BY <1>2, PostsLink, AnswersUpdate, AnswersTerminated DEF UpdateLink
<1>3. QED
  BY <1>1, <1>2, AskerWhole DEF UriNext

\* A step of another part of the process keeps them too.
LEMMA StutterWhole ==
  ASSUME PostsOK, AnswersOK, UNCHANGED <<transferVars, uriVars>>
  PROVE  PostsOK' /\ AnswersOK'
<1>1. /\ UNCHANGED <<blocks, opened, transfers, upload, download, context>>
      /\ UNCHANGED <<uri, serving, toUri, fromUri, posted, served, answers>>
  BY DEF transferVars, uriVars
<1>2. Offers' = Offers /\ Wants' = Wants
  BY <1>1 DEF Offers, Wants
<1>3. PostsOK'
  <2>1. PICK f \in [BlockIds -> 0..MaxRequests] : Follow(f)
    BY DEF PostsOK
  <2>2. Follow(f)'
    BY <1>1, <1>2, <2>1 DEF Follow, OffersFollow, LinkFollows, PendingFollows,
       AskerFollows, RequestFollows
  <2>3. QED
    BY <1>1, <1>2, <2>2 DEF PostsOK, Posts
<1>4. \A t \in Askers : Told(t)' = Told(t) /\ (Piped(t) => Piped(t)')
  <2>1. ASSUME NEW t \in Askers, Piped(t)
        PROVE  Piped(t)'
    BY <1>1, <1>2, <2>1, Zenon DEF Piped
  <2>2. \A t \in Askers : Told(t)' = Told(t)
    BY <1>1 DEF Told
  <2>3. QED
    BY <2>1, <2>2
<1>5. AnswersOK'
  BY <1>1, <1>2, <1>4 DEF AnswersOK, AnswerOK
<1>6. QED
  BY <1>3, <1>5

\* Post data that is on its way is what was posted with the request its block is
\* pushed for, and what is on its way to a client is what a service wrote.
THEOREM WholeInvariance == UriSpec => [](PostsOK /\ AnswersOK)
<1>1. UriInit => PostsOK /\ AnswersOK
  BY InitWhole
<1>2. Inv /\ (PostsOK /\ AnswersOK) /\ [UriNext]_<<transferVars, uriVars>>
        => (PostsOK /\ AnswersOK)'
  <2>1. ASSUME Inv, PostsOK, AnswersOK, UriNext
        PROVE  (PostsOK /\ AnswersOK)'
    BY <2>1, NextWhole
  <2>2. ASSUME PostsOK, AnswersOK, UNCHANGED <<transferVars, uriVars>>
        PROVE  (PostsOK /\ AnswersOK)'
    BY <2>2, StutterWhole
  <2>3. QED
    BY <2>1, <2>2
<1>3. QED
  BY <1>1, <1>2, TransferInvariance, PTL DEF UriSpec

\* What a service is given is what the client posted with that request
\* (ddURIServer.cpp, ddURIClient.cpp), whatever was pushed or given up before.
THEOREM PostsAreWhole == UriSpec => []PostIsWhole
<1>1. PostsOK => PostIsWhole
  BY DEF PostsOK, PostIsWhole
<1>2. QED
  BY <1>1, WholeInvariance, PTL

\* A response that is read to its end is one that a service wrote, and for this
\* request unless one of the session timed out (ddURIClient.cpp:256).
THEOREM ResponsesAreWhole == UriSpec => []ResponseIsWhole
<1>1. AnswersOK => ResponseIsWhole
  <2>1. ASSUME AnswersOK, NEW t \in Askers, uri[t].whole
        PROVE  \E a \in answers :
                 a.data = uri[t].received /\ (uri[t].late \/ a.n = uri[t].n)
    <3>1. uri[t].received \in Told(t) /\ uri[t].open
      BY <2>1 DEF AnswersOK, AnswerOK, Piped
    <3>2. PICK a \in answers : a.data = uri[t].received
                               /\ (uri[t].open /\ ~uri[t].late => a.n = uri[t].n)
      BY <3>1 DEF Told
    <3>3. QED
      BY <3>1, <3>2
  <2>2. QED
    BY <2>1 DEF ResponseIsWhole
<1>2. QED
  BY <1>1, WholeInvariance, PTL
=============================================================================
