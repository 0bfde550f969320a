--------------------------- MODULE TransferProofs ---------------------------
(***************************************************************************)
(* Proofs about Transfer and Uri: for any number of tools, links, blocks   *)
(* and chunks, the variables keep their types, a block counts the sessions *)
(* that hold it, it does not change while it is pulled, and it has one     *)
(* writer.                                                                 *)
(*                                                                         *)
(* The last is not a fact about transfers: nothing in the transfer server  *)
(* keeps two sessions from pushing the same block.  It holds because every *)
(* block is offered to one client, who asks for it once.                   *)
(***************************************************************************)
EXTENDS Uri, FiniteSetTheorems, TLAPS

-----------------------------------------------------------------------------
(* What the invariant says.                                                *)

Wire == Seq(TransferPayloads)
Cells == [BlockIds -> [registered : BOOLEAN, closed : BOOLEAN, data : Bytes,
                       pending : Int]]
Work == [s : TransferSessions, in : Wire, out : Wire, bs : Cells]

IsRequest(p) == p.command \in {"PullRequest", "PushRequest"}

Sound(s, bs) ==
  /\ s.state \in Pushes =>
       /\ s.block # NoBlock /\ ~bs[s.block].closed
       /\ Len(bs[s.block].data) = s.done /\ s.done <= s.total
  /\ s.state \in Pulls =>
       /\ s.block # NoBlock /\ bs[s.block].closed
       /\ bs[s.block].data = s.crc /\ Len(s.crc) = s.total
       /\ s.done <= s.total

Resting == {"Idle", "SendPayload"}

TakenIn(r, data) ==
  [r EXCEPT !.bs = Write(@, r.s.block, data), !.s.done = @ + 1]

\* What an update of a session does to the blocks and to what it holds.
Goes(r, q) ==
  /\ q \in Work /\ Len(q.out) <= LinkWindow
  /\ q.s.state # "None"
  /\ q.in = r.in \/ (r.in # <<>> /\ q.in = Tail(r.in))

Keeps(r, q) ==
  /\ q.bs = r.bs /\ q.s.block = r.s.block
  /\ q.s.state \in Pushes =>
       /\ r.s.state \in Pushes /\ q.in = r.in
       /\ q.s.total = r.s.total /\ q.s.done = r.s.done
  /\ q.s.state \in Pulls =>
       /\ r.s.state \in Pulls
       /\ q.s.total = r.s.total /\ q.s.crc = r.s.crc /\ q.s.done <= q.s.total

Leaves(r, q) ==
  LET b == r.s.block IN
  /\ r.s.state \in Pulls \cup Pushes
  /\ q.s.block = NoBlock /\ q.s.state \in Resting
  /\ q.bs[b].pending = r.bs[b].pending - 1
  /\ \/ q.bs[b].closed = r.bs[b].closed /\ q.bs[b].data = r.bs[b].data
     \/ /\ r.s.state \in Pushes
        /\ \/ q.bs[b].closed /\ q.bs[b].data = r.bs[b].data
           \/ ~q.bs[b].closed /\ q.bs[b].data = <<>>
  /\ \A c \in BlockIds : c # b => q.bs[c] = r.bs[c]

Joins(r, q) ==
  LET p == Head(r.in)
      b == p.block
  IN
  /\ r.s.state = "Idle"
  /\ r.in # <<>> /\ q.in = Tail(r.in) /\ IsRequest(p)
  /\ b \in BlockIds /\ q.s.block = b /\ r.bs[b].registered
  /\ q.bs[b].pending = r.bs[b].pending + 1
  /\ q.bs[b].closed = r.bs[b].closed /\ q.bs[b].data = r.bs[b].data
  /\ \A c \in BlockIds : c # b => q.bs[c] = r.bs[c]
  /\ q.s.state \in Pulls =>
       /\ p.command = "PullRequest" /\ r.bs[b].closed
       /\ q.s.crc = r.bs[b].data /\ q.s.total = Len(r.bs[b].data)
       /\ q.s.done <= q.s.total
  /\ q.s.state \in Pushes =>
       /\ p.command = "PushRequest" /\ ~r.bs[b].closed
       /\ q.s.done = 0 /\ q.s.total = p.size

TakesChunk(r, q) ==
  LET p == Head(r.in)
      b == r.s.block
  IN
  /\ r.s.state = "ReceivePushTransferData" /\ q.s.state = r.s.state
  /\ r.in # <<>> /\ q.in = Tail(r.in) /\ p.command = "TransferDataChunk"
  /\ r.s.done < r.s.total /\ q.s.block = b
  /\ q.s.done = r.s.done + 1 /\ q.s.total = r.s.total
  /\ q.bs[b].pending = r.bs[b].pending /\ q.bs[b].closed = r.bs[b].closed
  /\ q.bs[b].data = r.bs[b].data \o p.data
  /\ \A c \in BlockIds : c # b => q.bs[c] = r.bs[c]

Changes(r, q) == Keeps(r, q) \/ Leaves(r, q) \/ Joins(r, q) \/ TakesChunk(r, q)

\* What an update finds.
Meets(r) ==
  /\ r \in Work /\ Len(r.out) <= LinkWindow
  /\ r.s.state # "None" /\ Sound(r.s, r.bs)
  /\ \A b \in BlockIds : Len(r.bs[b].data) <= MaxSize
  /\ r.in # <<>> /\ r.s.state = "Idle" /\ IsRequest(Head(r.in)) =>
       r.s.block = NoBlock /\ Tail(r.in) = <<>>
  /\ r.in # <<>> /\ Head(r.in).command = "TransferDataChunk" => Len(Head(r.in).data) = 1

\* What waits on a link: a session without a request is not asked, and one
\* that has ended is empty.
Ready(s, in, out) ==
  /\ s.state = "None" => s.block = NoBlock /\ in = <<>> /\ out = <<>>
  /\ \A i \in 1..Len(in) :
       /\ IsRequest(in[i]) => /\ Len(in) = 1 /\ out = <<>>
                              /\ s.state = "Idle" /\ s.block = NoBlock
       /\ in[i].command = "TransferDataChunk" => Len(in[i].data) = 1

\* The block that a link is pushed, or is asked to be.
Wanted(s, in) ==
  IF s.state \in Pushes THEN s.block
  ELSE IF in # <<>> /\ Head(in).command = "PushRequest" THEN Head(in).block
  ELSE NoBlock

Holders(ts, b) == {l \in Links : ts[l].block = b}
Matches(ts, bs) ==
  \A b \in BlockIds : bs[b].pending = Cardinality(Holders(ts, b))

Wants == [l \in Links |-> Wanted(transfers[l], upload[l])]
Pushing == {l \in Links : transfers[l].state \in Pushes}
Offers == [t \in Askers |-> fromUri[t] \o serving[t].queued]

InOffers(o, b) == \E t \in Askers : \E i \in 1..Len(o[t]) : o[t][i].block = b
Promised(o, w, p, b) ==
  b # NoBlock /\ (InOffers(o, b) \/ \E l \in Links \ p : w[l] = b)

Untouched(cell) == cell.closed \/ cell.data = <<>>

\* Blocks that are not opened yet are new, none is longer than its limit, and
\* what is to be pushed is empty or refused.
Blank(bs, o, w, p, n) ==
  /\ \A b \in BlockIds :
       (b > n => bs[b] = NewBlock) /\ Len(bs[b].data) <= MaxSize
  /\ \A b \in BlockIds : Promised(o, w, p, b) => Untouched(bs[b])

\* Every block is offered to one client, once.
Once(o, w, n) ==
  /\ \A t, v \in Askers : \A i \in 1..Len(o[t]), j \in 1..Len(o[v]) :
       o[t][i].block = o[v][j].block /\ o[t][i].block # NoBlock => t = v /\ i = j
  /\ \A t \in Askers : \A i \in 1..Len(o[t]) :
       /\ o[t][i].block <= n
       /\ o[t][i].block # NoBlock => \A l \in Links : w[l] # o[t][i].block
  /\ \A k, l \in Links : w[k] = w[l] /\ w[k] # NoBlock => k = l
  /\ \A l \in Links : w[l] <= n

LinkCalls == {"PushStatus", "Write", "PushResult", "PullHeader", "Sentinel", "Abort"}
Asking(in) == \E i \in 1..Len(in) : IsRequest(in[i])

\* A call on a link has one, which is open.
OnLink(u, c, up) ==
  /\ u.link # NoLink => c[u.link].state # "Closed"
  /\ u.call \in LinkCalls \/ u.state = "ReadResponse" => u.link # NoLink
  /\ u.state = "ReadResponse" /\ u.call = "None" => c[u.link].total >= 1
  /\ u.call = "Write" => u.left <= u.size
  /\ u.link # NoLink /\ Asking(up[u.link]) => u.call \in {"PushStatus", "PullHeader"}

LinksOK == \A l \in Links :
  /\ Ready(transfers[l], upload[l], download[l]) /\ Sound(transfers[l], blocks)
  /\ transfers[l].block <= opened
  /\ context[l].state # "Closed" => transfers[l].state # "None"
AskersOK ==
  /\ \A t \in Askers : OnLink(uri[t], context, upload) /\ Len(serving[t].queued) <= 1
  /\ \A t, v \in Askers : uri[t].link = uri[v].link /\ uri[t].link # NoLink => t = v

Inv ==
  /\ UriTypeOK
  /\ Matches(transfers, blocks)
  /\ LinksOK
  /\ Blank(blocks, Offers, Wants, Pushing, opened)
  /\ Once(Offers, Wants, opened)
  /\ AskersOK

-----------------------------------------------------------------------------
(* Payloads, and the blocks after an operation on one.                     *)

\* The bounds, and the ids of blocks.
LEMMA Bounds == /\ MaxBlocks \in Nat \ {0} /\ LinkWindow \in Nat \ {0}
                /\ MaxSize \in Nat \ {0} /\ IsFiniteSet(Links)
                /\ NoBlock = 0 /\ NoBlock \notin BlockIds
                /\ \A b \in 0..MaxBlocks : b # NoBlock => b \in BlockIds
  BY TransferAssumption DEF NoBlock, BlockIds

\* Data without chunks.
LEMMA NoBytes == <<>> \in Bytes /\ Len(<<>>) = 0
  BY DEF Bytes

\* A TransferStatus.
LEMMA StatusTyped ==
  ASSUME NEW result \in Results
  PROVE  /\ Status(result) \in TransferPayloads
         /\ Status(result).command = "TransferStatus"
         /\ Status(result).result = result
         /\ Status(result).block = NoBlock
         /\ Status(result).data \in Bytes
<1> DEFINE e == <<>>
           z == 0
<1>1. e \in Bytes /\ z \in 0..MaxBlocks /\ z \in 0..MaxSize
  BY NoBytes, Bounds
<1> HIDE DEF e
<1>2. z = NoBlock
  BY DEF NoBlock
<1> HIDE DEF z
<1>3. Status(result) = [command |-> "TransferStatus", result |-> result,
                        block |-> z, size |-> z, data |-> e]
  BY <1>2 DEF Status, e, z
<1>4. QED
  BY <1>1, <1>2, <1>3 DEF TransferPayloads, TransferMessage

\* A PullRequest or PushRequest.
LEMMA BlockRequestTyped ==
  ASSUME NEW command \in TransferMessage, NEW b \in 0..MaxBlocks,
         NEW size \in 0..MaxSize
  PROVE  /\ BlockRequest(command, b, size) \in TransferPayloads
         /\ BlockRequest(command, b, size).command = command
         /\ BlockRequest(command, b, size).block = b
<1> DEFINE s == Status("Success")
<1>1. s \in TransferPayloads
  BY StatusTyped DEF Results
<1> HIDE DEF s
<1>2. QED
  BY <1>1 DEF BlockRequest, s, TransferPayloads

\* A TransferDataHeader.
LEMMA HeaderTyped ==
  ASSUME NEW size \in 0..MaxSize
  PROVE  /\ Header(size) \in TransferPayloads
         /\ Header(size).command = "TransferDataHeader"
<1> DEFINE s == Status("Success")
<1>1. s \in TransferPayloads
  BY StatusTyped DEF Results
<1> HIDE DEF s
<1>2. QED
  BY <1>1 DEF Header, s, TransferPayloads, TransferMessage

\* A TransferDataChunk.
LEMMA ChunkTyped ==
  ASSUME NEW data \in Bytes
  PROVE  /\ Chunk(data) \in TransferPayloads
         /\ Chunk(data).command = "TransferDataChunk"
         /\ Chunk(data).data = data
<1> DEFINE s == Status("Success")
<1>1. s \in TransferPayloads
  BY StatusTyped DEF Results
<1> HIDE DEF s
<1>2. QED
  BY <1>1 DEF Chunk, s, TransferPayloads, TransferMessage

\* A TransferDataSentinel.
LEMMA SentinelTyped ==
  ASSUME NEW result \in Results, NEW crc \in Bytes
  PROVE  /\ Sentinel(result, crc) \in TransferPayloads
         /\ Sentinel(result, crc).command = "TransferDataSentinel"
         /\ Sentinel(result, crc).result = result
         /\ Sentinel(result, crc).data = crc
<1> DEFINE s == Status(result)
<1>1. s \in TransferPayloads /\ s.result = result
  BY StatusTyped
<1> HIDE DEF s
<1>2. QED
  BY <1>1 DEF Sentinel, s, TransferPayloads, TransferMessage

\* The scratch payload is sent, or stays.
LEMMA SendScratchIs ==
  ASSUME NEW r \in Work, Len(r.out) <= LinkWindow,
         NEW next \in {"Idle", "ProcessPullTransfer", "ReceivePushTransferData"}
  PROVE  LET q == SendScratchPayload(r, next) IN
         /\ q \in Work /\ Len(q.out) <= LinkWindow
         /\ q.in = r.in /\ q.bs = r.bs /\ q.s.block = r.s.block
         /\ q.s.total = r.s.total /\ q.s.done = r.s.done /\ q.s.crc = r.s.crc
         /\ q.s.state \in {r.s.state, next}
<1> DEFINE e == Status("Success")
           o == Append(r.out, r.s.payload)
           s == [r.s EXCEPT !.state = next, !.payload = e]
           w == [r EXCEPT !.out = o, !.s = s]
<1>1. e \in TransferPayloads
  BY StatusTyped DEF Results
<1>2. r.s \in TransferSessions /\ r.out \in Wire /\ r.in \in Wire /\ r.bs \in Cells
  BY DEF Work
<1>3. r.s.payload \in TransferPayloads
  BY <1>2 DEF TransferSessions
<1>4. o \in Wire /\ Len(o) = Len(r.out) + 1
  BY <1>2, <1>3 DEF Wire
<1>5. SendScratchPayload(r, next) = IF HasRoom(r.out) THEN w ELSE r
  BY <1>2 DEF SendScratchPayload, Work, TransferSessions
<1> HIDE DEF e, o
<1>6. /\ s \in TransferSessions /\ s.state = next /\ s.block = r.s.block
      /\ s.total = r.s.total /\ s.done = r.s.done /\ s.crc = r.s.crc
  BY <1>1, <1>2 DEF TransferSessions
<1> HIDE DEF s
<1>7. /\ w \in Work /\ w.s = s /\ w.out = o /\ w.in = r.in /\ w.bs = r.bs
  BY <1>2, <1>4, <1>6 DEF Work
<1> HIDE DEF w
<1>8. HasRoom(r.out) => Len(o) <= LinkWindow
  BY <1>2, <1>4, Bounds DEF HasRoom, Wire
<1>9. QED
  BY <1>5, <1>6, <1>7, <1>8

\* SendAndMoveToIdle changes nothing but the payloads and the state.
LEMMA SendAndMoveIs ==
  ASSUME NEW r \in Work, Len(r.out) <= LinkWindow,
         NEW p \in TransferPayloads
  PROVE  LET q == SendAndMoveToIdle(r, p) IN
         /\ q \in Work /\ Len(q.out) <= LinkWindow
         /\ q.in = r.in /\ q.bs = r.bs /\ q.s.block = r.s.block
         /\ q.s.total = r.s.total /\ q.s.done = r.s.done /\ q.s.crc = r.s.crc
         /\ q.s.state \in Resting
<1> DEFINE s == [r.s EXCEPT !.state = "SendPayload", !.payload = p]
           w == [r EXCEPT !.s = s]
<1>2. r.s \in TransferSessions /\ r.out \in Wire /\ r.in \in Wire /\ r.bs \in Cells
  BY DEF Work
<1>5. SendAndMoveToIdle(r, p) = SendScratchPayload(w, "Idle")
  BY <1>2 DEF SendAndMoveToIdle, Work, TransferSessions
<1>6. /\ s \in TransferSessions /\ s.state = "SendPayload" /\ s.block = r.s.block
      /\ s.total = r.s.total /\ s.done = r.s.done /\ s.crc = r.s.crc
  BY <1>2 DEF TransferSessions
<1> HIDE DEF s
<1>7. /\ w \in Work /\ w.s = s /\ w.out = r.out /\ w.in = r.in /\ w.bs = r.bs
  BY <1>2, <1>6 DEF Work
<1> HIDE DEF w
<1>8. QED
  BY <1>5, <1>6, <1>7, SendScratchIs DEF Resting

\* What a block keeps.
LEMMA CellsTyped ==
  ASSUME NEW bs \in Cells, NEW b \in BlockIds
  PROVE  /\ bs[b].registered \in BOOLEAN /\ bs[b].closed \in BOOLEAN
         /\ bs[b].data \in Bytes /\ bs[b].pending \in Int
  BY DEF Cells

\* BeginTransfer.
LEMMA BeginIs ==
  ASSUME NEW bs \in Cells, NEW b \in BlockIds
  PROVE  LET q == BeginTransfer(bs, b) IN
         /\ q \in Cells
         /\ q[b].pending = bs[b].pending + 1 /\ q[b].closed = bs[b].closed
         /\ q[b].data = bs[b].data /\ q[b].registered = bs[b].registered
         /\ \A c \in BlockIds : c # b => q[c] = bs[c]
  BY DEF Cells, BeginTransfer

\* EndTransfer.
LEMMA EndIs ==
  ASSUME NEW bs \in Cells, NEW b \in BlockIds
  PROVE  LET q == EndTransfer(bs, b) IN
         /\ q \in Cells
         /\ q[b].pending = bs[b].pending - 1 /\ q[b].closed = bs[b].closed
         /\ q[b].data = bs[b].data /\ q[b].registered = bs[b].registered
         /\ \A c \in BlockIds : c # b => q[c] = bs[c]
  BY DEF Cells, EndTransfer

\* Write.
LEMMA WriteIs ==
  ASSUME NEW bs \in Cells, NEW b \in BlockIds, NEW data \in Bytes
  PROVE  LET q == Write(bs, b, data) IN
         /\ q \in Cells
         /\ q[b].pending = bs[b].pending /\ q[b].closed = bs[b].closed
         /\ q[b].data = bs[b].data \o data /\ q[b].registered = bs[b].registered
         /\ \A c \in BlockIds : c # b => q[c] = bs[c]
<1>1. bs[b].data \o data \in Bytes
  BY CellsTyped DEF Bytes
<1>2. QED
  BY <1>1 DEF Cells, Write

\* Close.
LEMMA CloseIs ==
  ASSUME NEW bs \in Cells, NEW b \in BlockIds
  PROVE  LET q == Close(bs, b) IN
         /\ q \in Cells
         /\ q[b].pending = bs[b].pending /\ q[b].closed
         /\ q[b].data = bs[b].data /\ q[b].registered = bs[b].registered
         /\ \A c \in BlockIds : c # b => q[c] = bs[c]
  BY DEF Cells, Close

\* Reset.
LEMMA ResetIs ==
  ASSUME NEW bs \in Cells, NEW b \in BlockIds
  PROVE  LET q == Reset(bs, b) IN
         /\ q \in Cells
         /\ q[b].pending = bs[b].pending /\ ~q[b].closed
         /\ q[b].data = <<>> /\ q[b].registered = bs[b].registered
         /\ \A c \in BlockIds : c # b => q[c] = bs[c]
<1> DEFINE e == <<>>
<1>1. e \in Bytes
  BY NoBytes
<1>2. Reset(bs, b) = [bs EXCEPT ![b].closed = FALSE, ![b].data = e]
  BY DEF Reset
<1> HIDE DEF e
<1>3. /\ Reset(bs, b) \in Cells
      /\ Reset(bs, b)[b].pending = bs[b].pending /\ ~Reset(bs, b)[b].closed
      /\ Reset(bs, b)[b].data = e /\ Reset(bs, b)[b].registered = bs[b].registered
      /\ \A c \in BlockIds : c # b => Reset(bs, b)[c] = bs[c]
  <2> DEFINE g == [bs[b] EXCEPT !.closed = FALSE, !.data = e]
  <2>1. Reset(bs, b) = [bs EXCEPT ![b] = g]
    BY <1>2 DEF Cells
  <2>2. /\ g \in [registered : BOOLEAN, closed : BOOLEAN, data : Bytes, pending : Int]
        /\ g.pending = bs[b].pending /\ ~g.closed /\ g.data = e
        /\ g.registered = bs[b].registered
    BY <1>1 DEF Cells
  <2> HIDE DEF g
  <2>3. QED
    BY <2>1, <2>2 DEF Cells
<1>4. QED
  BY <1>3 DEF e

\* OpenServerBlock.
LEMMA OpenIs ==
  ASSUME NEW bs \in Cells, NEW b \in BlockIds
  PROVE  LET q == OpenServerBlock(bs, b) IN
         /\ q \in Cells
         /\ q[b].pending = bs[b].pending /\ q[b].closed = bs[b].closed
         /\ q[b].data = bs[b].data
         /\ \A c \in BlockIds : c # b => q[c] = bs[c]
  BY DEF Cells, OpenServerBlock

\* CloseServerBlock touches no content.
LEMMA CloseServerBlockIs ==
  ASSUME NEW bs \in Cells, NEW b \in 0..MaxBlocks
  PROVE  LET q == CloseServerBlock(bs, b) IN
         /\ q \in Cells
         /\ \A c \in BlockIds :
              /\ q[c].pending = bs[c].pending /\ q[c].closed = bs[c].closed
              /\ q[c].data = bs[c].data
              /\ bs[c] = NewBlock => q[c] = NewBlock
<1>1. CASE b = NoBlock
  BY <1>1 DEF CloseServerBlock
<1>2. CASE b # NoBlock
  <2>1. b \in BlockIds
    BY <1>2, Bounds
  <2> DEFINE q == [bs EXCEPT ![b].registered = FALSE]
  <2>2. CloseServerBlock(bs, b) = q
    BY <1>2 DEF CloseServerBlock
  <2>3. /\ q \in Cells
        /\ \A c \in BlockIds :
              /\ q[c].pending = bs[c].pending /\ q[c].closed = bs[c].closed
              /\ q[c].data = bs[c].data
    BY <2>1 DEF Cells
  <2>4. NewBlock.registered = FALSE
    BY DEF NewBlock
  <2>5. \A c \in BlockIds : bs[c] = NewBlock => q[c] = NewBlock
    <3> SUFFICES ASSUME NEW c \in BlockIds, bs[c] = NewBlock
                 PROVE  q[c] = NewBlock
      OBVIOUS
    <3>1. bs[c].registered = FALSE
      BY <2>4
    <3>2. q[c] = bs[c]
      <4> DEFINE x == bs[c]
      <4>1. x \in [registered : BOOLEAN, closed : BOOLEAN, data : Bytes, pending : Int]
        BY DEF Cells
      <4>2. q[c] = [x EXCEPT !.registered = FALSE] \/ q[c] = x
        BY <2>1 DEF Cells
      <4>3. x.registered = FALSE
        BY <3>1
      <4> HIDE DEF x
      <4>4. [x EXCEPT !.registered = FALSE] = x
        BY <4>1, <4>3
      <4>5. q[c] = x
        BY <4>2, <4>4
      <4>6. QED
        BY <4>5 DEF x
    <3>3. QED
      BY <3>2
  <2>6. QED
    BY <2>2, <2>3, <2>5
<1>3. QED
  BY <1>1, <1>2

-----------------------------------------------------------------------------
(* The parts of UpdateSession: release, chunks, pulls.                     *)

\* What an update works on.
LEMMA WorkParts ==
  ASSUME NEW r \in Work
  PROVE  /\ r.s \in TransferSessions /\ r.in \in Wire /\ r.out \in Wire
         /\ r.bs \in Cells
         /\ r.s.block \in 0..MaxBlocks /\ r.s.total \in 0..MaxSize
         /\ r.s.done \in 0..MaxSize /\ r.s.crc \in Bytes
         /\ r.s.payload \in TransferPayloads
  BY DEF Work, TransferSessions

\* Release.
LEMMA ReleaseIs ==
  ASSUME NEW r \in Work, r.s.block \in BlockIds
  PROVE  LET q == Release(r)
             b == r.s.block
         IN  /\ q \in Work /\ q.in = r.in /\ q.out = r.out
             /\ q.s.block = NoBlock /\ q.s.state = r.s.state
             /\ q.s.crc = r.s.crc /\ q.s.total = r.s.total /\ q.s.done = r.s.done
             /\ q.bs[b].pending = r.bs[b].pending - 1
             /\ q.bs[b].closed = r.bs[b].closed /\ q.bs[b].data = r.bs[b].data
             /\ q.bs[b].registered = r.bs[b].registered
             /\ \A c \in BlockIds : c # b => q.bs[c] = r.bs[c]
<1> DEFINE e == EndTransfer(r.bs, r.s.block)
           z == NoBlock
           s == [r.s EXCEPT !.block = z]
           w == [r EXCEPT !.bs = e, !.s = s]
<1>1. /\ e \in Cells /\ e[r.s.block].pending = r.bs[r.s.block].pending - 1
      /\ e[r.s.block].closed = r.bs[r.s.block].closed
      /\ e[r.s.block].data = r.bs[r.s.block].data
      /\ e[r.s.block].registered = r.bs[r.s.block].registered
      /\ \A c \in BlockIds : c # r.s.block => e[c] = r.bs[c]
  BY EndIs, WorkParts
<1>2. z \in 0..MaxBlocks
  BY Bounds
<1>3. r.s \in TransferSessions
  BY WorkParts
<1>4. Release(r) = w
  BY DEF Release, Work
<1> HIDE DEF e, z
<1>5. /\ s \in TransferSessions /\ s.block = z /\ s.state = r.s.state
      /\ s.crc = r.s.crc /\ s.total = r.s.total /\ s.done = r.s.done
  BY <1>2, <1>3 DEF TransferSessions
<1> HIDE DEF s
<1>6. /\ w \in Work /\ w.s = s /\ w.bs = e /\ w.in = r.in /\ w.out = r.out
  BY <1>1, <1>5 DEF Work
<1> HIDE DEF w
<1>7. QED
  BY <1>1, <1>4, <1>5, <1>6 DEF z

\* One chunk of the data.
LEMMA PieceTyped ==
  ASSUME NEW data \in Bytes, NEW i \in 1..Len(data)
  PROVE  SubSeq(data, i, i) \in Bytes
  BY DEF Bytes

\* SendChunks sends no more than there is.
LEMMA SendChunksIs ==
  ASSUME NEW r \in Work, Len(r.out) <= LinkWindow,
         r.s.done <= r.s.total, r.s.block \in BlockIds,
         Len(r.bs[r.s.block].data) = r.s.total
  PROVE  LET q == SendChunks(r)
         IN  /\ q \in Work /\ Len(q.out) <= LinkWindow /\ q.in = r.in
             /\ q.bs = r.bs /\ q.s.state = r.s.state /\ q.s.block = r.s.block
             /\ q.s.total = r.s.total /\ q.s.crc = r.s.crc
             /\ q.s.done <= q.s.total
<1> DEFINE room == LinkWindow - Len(r.out)
           left == r.s.total - r.s.done
           k == IF room < left THEN room ELSE left
           data == r.bs[r.s.block].data
           n == r.s.done + k
           chunks == [i \in 1..k |-> Chunk(SubSeq(data, r.s.done + i, r.s.done + i))]
           o == r.out \o chunks
           s == [r.s EXCEPT !.done = n]
           w == [r EXCEPT !.s = s, !.out = o]
<1>1. /\ Len(r.out) \in Nat /\ r.s.total \in Nat /\ r.s.done \in Nat
      /\ r.s.total <= MaxSize /\ r.out \in Wire /\ r.s \in TransferSessions
  BY WorkParts, Bounds DEF Wire
<1>2. k \in Nat /\ k <= room /\ k <= left /\ n \in Nat /\ n <= r.s.total
      /\ n \in 0..MaxSize
  <2>1. room \in Nat /\ left \in Nat /\ MaxSize \in Nat
    BY <1>1, Bounds
  <2>2. k \in Nat /\ k <= room /\ k <= left
    BY <2>1
  <2> HIDE DEF k
  <2>3. QED
    BY <1>1, <2>1, <2>2
<1>3. data \in Bytes /\ Len(data) = r.s.total
  BY WorkParts, CellsTyped
<1>4. SendChunks(r) = w
  BY DEF SendChunks, Work, TransferSessions
<1> HIDE DEF k, data, n
<1>5. \A i \in 1..k : SubSeq(data, r.s.done + i, r.s.done + i) \in Bytes
  <2>1. \A i \in 1..k : r.s.done + i \in 1..Len(data)
    BY <1>1, <1>2, <1>3
  <2>2. QED
    BY <2>1, <1>3, PieceTyped
<1>6. \A i \in 1..k : Chunk(SubSeq(data, r.s.done + i, r.s.done + i)) \in TransferPayloads
  BY <1>5, ChunkTyped
<1>7. chunks \in Wire /\ Len(chunks) = k
  BY <1>2, <1>6 DEF Wire
<1> HIDE DEF chunks
<1>8. o \in Wire /\ Len(o) <= LinkWindow
  BY <1>1, <1>2, <1>7, Bounds DEF Wire
<1>9. /\ s \in TransferSessions /\ s.done = n /\ s.state = r.s.state
      /\ s.block = r.s.block /\ s.total = r.s.total /\ s.crc = r.s.crc
  BY <1>1, <1>2 DEF TransferSessions
<1> HIDE DEF o, s
<1>10. w \in Work /\ w.s = s /\ w.out = o /\ w.in = r.in /\ w.bs = r.bs
  BY <1>8, <1>9 DEF Work
<1> HIDE DEF w
<1>11. QED
  BY <1>2, <1>4, <1>8, <1>9, <1>10

\* A payload is received.
LEMMA TailTyped ==
  ASSUME NEW r \in Work, r.in # <<>>
  PROVE  LET q == Consume(r)
         IN  /\ q \in Work /\ q.in = Tail(r.in) /\ q.out = r.out /\ q.s = r.s
             /\ q.bs = r.bs
             /\ Head(r.in) \in TransferPayloads
<1> DEFINE t == Tail(r.in)
           w == [r EXCEPT !.in = t]
<1>1. r.in \in Wire
  BY WorkParts
<1>2. t \in Wire /\ Head(r.in) \in TransferPayloads
  BY <1>1 DEF Wire
<1>3. Consume(r) = w
  BY DEF Consume, Work
<1> HIDE DEF t
<1>4. w \in Work /\ w.in = t /\ w.out = r.out /\ w.s = r.s /\ w.bs = r.bs
  BY <1>2 DEF Work
<1> HIDE DEF w
<1>5. QED
  BY <1>2, <1>3, <1>4 DEF t

\* A pull goes on, ends or is aborted.
LEMMA ProcessPullIs ==
  ASSUME NEW r \in Work, Len(r.out) <= LinkWindow, r.s.state = "ProcessPullTransfer",
         r.s.done <= r.s.total, r.s.block \in BlockIds,
         Len(r.bs[r.s.block].data) = r.s.total
  PROVE  LET q == ProcessPullSession(r)
             b == r.s.block
         IN  /\ q \in Work /\ Len(q.out) <= LinkWindow /\ q.s.state # "None"
             /\ q.in = r.in \/ (r.in # <<>> /\ q.in = Tail(r.in))
             /\ q.s.state \notin Pushes
             /\ q.s.total = r.s.total /\ q.s.crc = r.s.crc
             /\ \/ /\ q.bs = r.bs /\ q.s.block = b /\ q.s.done <= q.s.total
                   /\ r.in # <<>> => q.s.state \in Resting
                \/ /\ q.s.block = NoBlock /\ q.s.state \in Resting /\ q.in = r.in
                   /\ q.bs[b].pending = r.bs[b].pending - 1
                   /\ q.bs[b].closed = r.bs[b].closed /\ q.bs[b].data = r.bs[b].data
                   /\ q.bs[b].registered = r.bs[b].registered
                   /\ \A c \in BlockIds : c # b => q.bs[c] = r.bs[c]
<1>1. CASE r.in = <<>>
  <2> DEFINE c == SendChunks(r)
             d == Release(c)
             m == Sentinel("Success", c.s.crc)
             f == SendAndMoveToIdle(d, m)
  <2>1. /\ c \in Work /\ Len(c.out) <= LinkWindow /\ c.in = r.in
        /\ c.bs = r.bs /\ c.s.state = r.s.state /\ c.s.block = r.s.block
        /\ c.s.total = r.s.total /\ c.s.crc = r.s.crc /\ c.s.done <= c.s.total
    BY SendChunksIs
  <2>2. ProcessPullSession(r) = IF c.s.done = c.s.total THEN f ELSE c
    BY <1>1 DEF ProcessPullSession
  <2> HIDE DEF c
  <2>3. m \in TransferPayloads
    BY <2>1, WorkParts, SentinelTyped DEF Results
  <2>4. /\ d \in Work /\ d.in = c.in /\ d.out = c.out
        /\ d.s.block = NoBlock /\ d.s.crc = c.s.crc /\ d.s.total = c.s.total
        /\ d.bs[r.s.block].pending = r.bs[r.s.block].pending - 1
        /\ d.bs[r.s.block].closed = r.bs[r.s.block].closed
        /\ d.bs[r.s.block].data = r.bs[r.s.block].data
        /\ d.bs[r.s.block].registered = r.bs[r.s.block].registered
        /\ \A x \in BlockIds : x # r.s.block => d.bs[x] = r.bs[x]
    <3>1. c \in Work /\ c.s.block \in BlockIds
      BY <2>1
    <3>2. /\ d \in Work /\ d.in = c.in /\ d.out = c.out
          /\ d.s.block = NoBlock /\ d.s.crc = c.s.crc /\ d.s.total = c.s.total
          /\ d.bs[c.s.block].pending = c.bs[c.s.block].pending - 1
          /\ d.bs[c.s.block].closed = c.bs[c.s.block].closed
          /\ d.bs[c.s.block].data = c.bs[c.s.block].data
          /\ d.bs[c.s.block].registered = c.bs[c.s.block].registered
          /\ \A x \in BlockIds : x # c.s.block => d.bs[x] = c.bs[x]
      BY <3>1, ReleaseIs
    <3> HIDE DEF d
    <3>3. QED
      BY <2>1, <3>2
  <2> HIDE DEF d, m
  <2>5. /\ f \in Work /\ Len(f.out) <= LinkWindow
        /\ f.in = d.in /\ f.bs = d.bs /\ f.s.block = d.s.block
        /\ f.s.total = d.s.total /\ f.s.crc = d.s.crc
        /\ f.s.state \in Resting
    BY <2>1, <2>3, <2>4, SendAndMoveIs
  <2> HIDE DEF f
  <2>6. QED
    BY <1>1, <2>1, <2>2, <2>4, <2>5 DEF Resting, Pushes
<1>2. CASE r.in # <<>>
  <2> DEFINE a == Consume(r)
             x == IF Head(r.in).command = "TransferStatus" THEN "Aborted" ELSE "Error"
             e == <<>>
             m == Sentinel(x, e)
             f == SendAndMoveToIdle(a, m)
  <2>1. /\ a \in Work /\ a.in = Tail(r.in) /\ a.out = r.out /\ a.s = r.s
        /\ a.bs = r.bs
    BY <1>2, TailTyped
  <2>2. ProcessPullSession(r) = f
    BY <1>2 DEF ProcessPullSession, Consume
  <2> HIDE DEF a
  <2>3. x \in Results /\ e \in Bytes
    BY NoBytes DEF Results
  <2> HIDE DEF x, e
  <2>4. m \in TransferPayloads
    BY <2>3, SentinelTyped
  <2> HIDE DEF m
  <2>5. /\ f \in Work /\ Len(f.out) <= LinkWindow
        /\ f.in = a.in /\ f.bs = a.bs /\ f.s.block = a.s.block
        /\ f.s.total = a.s.total /\ f.s.done = a.s.done /\ f.s.crc = a.s.crc
        /\ f.s.state \in Resting
    BY <2>1, <2>4, SendAndMoveIs
  <2> HIDE DEF f
  <2>6. QED
    BY <1>2, <2>1, <2>2, <2>5 DEF Resting, Pushes
<1>3. QED
  BY <1>1, <1>2

\* A pull begins.
LEMMA PullHeaderIs ==
  ASSUME NEW r \in Work, Len(r.out) <= LinkWindow, r.s.state = "StartPullTransfer",
         r.s.done <= r.s.total, r.s.block \in BlockIds,
         Len(r.bs[r.s.block].data) = r.s.total
  PROVE  LET q == SendPullTransferHeader(r)
             b == r.s.block
         IN  /\ q \in Work /\ Len(q.out) <= LinkWindow /\ q.s.state # "None"
             /\ q.in = r.in \/ (r.in # <<>> /\ q.in = Tail(r.in))
             /\ q.s.state \notin Pushes
             /\ q.s.total = r.s.total /\ q.s.crc = r.s.crc
             /\ \/ /\ q.bs = r.bs /\ q.s.block = b /\ q.s.done <= q.s.total
                   /\ q.s.state \in Pulls \cup Resting
                \/ /\ q.s.block = NoBlock /\ q.s.state \in Resting /\ q.in = r.in
                   /\ q.bs[b].pending = r.bs[b].pending - 1
                   /\ q.bs[b].closed = r.bs[b].closed /\ q.bs[b].data = r.bs[b].data
                   /\ q.bs[b].registered = r.bs[b].registered
                   /\ \A c \in BlockIds : c # b => q.bs[c] = r.bs[c]
<1> DEFINE c == SendScratchPayload(r, "ProcessPullTransfer")
           f == ProcessPullSession(c)
<1>1. /\ c \in Work /\ Len(c.out) <= LinkWindow
      /\ c.in = r.in /\ c.bs = r.bs /\ c.s.block = r.s.block
      /\ c.s.total = r.s.total /\ c.s.done = r.s.done /\ c.s.crc = r.s.crc
      /\ c.s.state \in {"StartPullTransfer", "ProcessPullTransfer"}
  BY SendScratchIs
<1>2. SendPullTransferHeader(r) = IF c.s.state = "ProcessPullTransfer" THEN f ELSE c
  BY DEF SendPullTransferHeader
<1> HIDE DEF c
<1>3. CASE c.s.state = "ProcessPullTransfer"
  <2>1. /\ f \in Work /\ Len(f.out) <= LinkWindow /\ f.s.state # "None"
        /\ f.in = c.in \/ (c.in # <<>> /\ f.in = Tail(c.in))
        /\ f.s.state \notin Pushes
        /\ f.s.total = c.s.total /\ f.s.crc = c.s.crc
        /\ \/ /\ f.bs = c.bs /\ f.s.block = c.s.block /\ f.s.done <= f.s.total
           \/ /\ f.s.block = NoBlock /\ f.s.state \in Resting /\ f.in = c.in
              /\ f.bs[c.s.block].pending = c.bs[c.s.block].pending - 1
              /\ f.bs[c.s.block].closed = c.bs[c.s.block].closed
              /\ f.bs[c.s.block].data = c.bs[c.s.block].data
              /\ f.bs[c.s.block].registered = c.bs[c.s.block].registered
              /\ \A x \in BlockIds : x # c.s.block => f.bs[x] = c.bs[x]
    <3>1. /\ c \in Work /\ Len(c.out) <= LinkWindow /\ c.s.state = "ProcessPullTransfer"
          /\ c.s.done <= c.s.total /\ c.s.block \in BlockIds
          /\ Len(c.bs[c.s.block].data) = c.s.total
      BY <1>1, <1>3
    <3>2. QED
      BY <3>1, ProcessPullIs
  <2> HIDE DEF f
  <2>2. f.s.state \in Pulls \cup Pushes \cup Resting
    BY <2>1, WorkParts DEF Pulls, Pushes, Resting, TransferSessions
  <2>3. QED
    BY <1>1, <1>2, <1>3, <2>1, <2>2
<1>4. CASE c.s.state = "StartPullTransfer"
  BY <1>1, <1>2, <1>4 DEF Pushes, Pulls
<1>5. QED
  BY <1>1, <1>3, <1>4

-----------------------------------------------------------------------------
(* The parts of UpdateSession: requests, pushes, ends.                     *)

\* Blocks that agree in every part.
LEMMA SameCells ==
  ASSUME NEW a \in Cells, NEW c \in Cells, NEW b \in BlockIds,
         a[b].pending = c[b].pending, a[b].closed = c[b].closed,
         a[b].data = c[b].data, a[b].registered = c[b].registered,
         \A d \in BlockIds : d # b => a[d] = c[d]
  PROVE  a = c
<1>1. a[b] = c[b]
  BY DEF Cells
<1>2. \A d \in BlockIds : a[d] = c[d]
  BY <1>1
<1>3. QED
  BY <1>2 DEF Cells

\* A PullRequest is accepted.
LEMMA StartPullIs ==
  ASSUME NEW r \in Work, Len(r.out) <= LinkWindow, NEW b \in BlockIds,
         r.in = <<>>, r.s.block = NoBlock, Len(r.bs[b].data) <= MaxSize
  PROVE  LET q == StartPull(r, b)
         IN  /\ q \in Work /\ Len(q.out) <= LinkWindow /\ q.s.state # "None"
             /\ q.in = r.in /\ q.s.state \notin Pushes
             /\ \/ q.bs = r.bs /\ q.s.block = r.s.block /\ q.s.state \in Resting
                \/ /\ q.s.block = b /\ q.bs[b].registered = r.bs[b].registered
                   /\ q.bs[b].pending = r.bs[b].pending + 1
                   /\ q.bs[b].closed = r.bs[b].closed /\ q.bs[b].data = r.bs[b].data
                   /\ \A c \in BlockIds : c # b => q.bs[c] = r.bs[c]
                   /\ q.s.crc = r.bs[b].data /\ q.s.total = Len(r.bs[b].data)
                   /\ q.s.done <= q.s.total
<1> DEFINE data == r.bs[b].data
           n == Len(data)
           z == 0
           h == Header(n)
           e == BeginTransfer(r.bs, b)
           s == [r.s EXCEPT !.state = "StartPullTransfer", !.block = b,
                            !.total = n, !.done = z, !.crc = data, !.payload = h]
           w == [r EXCEPT !.bs = e, !.s = s]
           q == SendPullTransferHeader(w)
<1>1. /\ r.s \in TransferSessions /\ r.in \in Wire /\ r.out \in Wire /\ r.bs \in Cells
  BY WorkParts
<1>2. data \in Bytes /\ n \in 0..MaxSize /\ z \in 0..MaxSize /\ z <= n
  <2>1. data \in Bytes /\ n \in Nat /\ n <= MaxSize
    BY <1>1, CellsTyped DEF Bytes
  <2>2. QED
    BY <2>1, Bounds
<1>3. StartPull(r, b) = q
  BY DEF StartPull, Work
<1> HIDE DEF data, q
<1>4. h \in TransferPayloads
  BY <1>2, HeaderTyped
<1>5. /\ e \in Cells
      /\ e[b].pending = r.bs[b].pending + 1 /\ e[b].closed = r.bs[b].closed
      /\ e[b].data = r.bs[b].data /\ e[b].registered = r.bs[b].registered
      /\ \A c \in BlockIds : c # b => e[c] = r.bs[c]
  BY <1>1, BeginIs
<1>6. b \in 0..MaxBlocks
  BY Bounds DEF BlockIds
<1>10. n = Len(data)
  OBVIOUS
<1> HIDE DEF n, z, h, e
<1>7. /\ s \in TransferSessions /\ s.state = "StartPullTransfer" /\ s.block = b
      /\ s.total = n /\ s.done = z /\ s.crc = data
  BY <1>1, <1>2, <1>4, <1>6 DEF TransferSessions
<1> HIDE DEF s
<1>8. w \in Work /\ w.s = s /\ w.bs = e /\ w.in = r.in /\ w.out = r.out
  BY <1>1, <1>5, <1>7 DEF Work
<1> HIDE DEF w
<1>9. /\ Len(w.bs[w.s.block].data) = w.s.total /\ w.s.done <= w.s.total
      /\ w.s.block \in BlockIds /\ w.s.state = "StartPullTransfer"
      /\ Len(w.out) <= LinkWindow
  BY <1>2, <1>5, <1>7, <1>8, <1>10 DEF data
<1>11. /\ q \in Work /\ Len(q.out) <= LinkWindow /\ q.s.state # "None"
       /\ q.in = w.in \/ (w.in # <<>> /\ q.in = Tail(w.in))
       /\ q.s.state \notin Pushes
       /\ q.s.total = w.s.total /\ q.s.crc = w.s.crc
       /\ \/ /\ q.bs = w.bs /\ q.s.block = b /\ q.s.done <= q.s.total
          \/ /\ q.s.block = NoBlock /\ q.s.state \in Resting /\ q.in = w.in
             /\ q.bs[b].pending = w.bs[b].pending - 1
             /\ q.bs[b].closed = w.bs[b].closed /\ q.bs[b].data = w.bs[b].data
             /\ q.bs[b].registered = w.bs[b].registered
             /\ \A c \in BlockIds : c # b => q.bs[c] = w.bs[c]
  BY <1>7, <1>8, <1>9, PullHeaderIs DEF q
<1>12. CASE q.s.block = b /\ q.bs = w.bs /\ q.s.done <= q.s.total
  BY <1>3, <1>5, <1>7, <1>8, <1>10, <1>11, <1>12 DEF data
<1>13. CASE /\ q.s.block = NoBlock /\ q.s.state \in Resting
            /\ q.bs[b].pending = w.bs[b].pending - 1
            /\ q.bs[b].closed = w.bs[b].closed /\ q.bs[b].data = w.bs[b].data
            /\ q.bs[b].registered = w.bs[b].registered
            /\ \A c \in BlockIds : c # b => q.bs[c] = w.bs[c]
  <2>1. q.bs \in Cells
    BY <1>11, WorkParts
  <2>2. r.bs[b].pending \in Int
    BY <1>1, CellsTyped
  <2>5. /\ q.bs[b].pending = r.bs[b].pending /\ q.bs[b].closed = r.bs[b].closed
        /\ q.bs[b].data = r.bs[b].data /\ q.bs[b].registered = r.bs[b].registered
    BY <1>5, <1>8, <1>13, <2>2
  <2>6. \A d \in BlockIds : d # b => q.bs[d] = r.bs[d]
    BY <1>5, <1>8, <1>13
  <2>3. q.bs = r.bs
    BY <1>1, <2>1, <2>5, <2>6, SameCells
  <2>4. QED
    BY <1>3, <1>8, <1>11, <1>13, <2>3
<1>14. QED
  BY <1>11, <1>12, <1>13

\* A PushRequest is accepted.
LEMMA StartPushIs ==
  ASSUME NEW r \in Work, Len(r.out) <= LinkWindow, NEW b \in BlockIds,
         NEW size \in 0..MaxSize
  PROVE  LET q == StartPush(r, b, size)
         IN  /\ q \in Work /\ Len(q.out) <= LinkWindow /\ q.s.state # "None"
             /\ q.in = r.in /\ q.s.state \notin Pulls
             /\ q.s.block = b /\ q.bs[b].registered = r.bs[b].registered
             /\ q.bs[b].pending = r.bs[b].pending + 1
             /\ q.bs[b].closed = r.bs[b].closed /\ q.bs[b].data = r.bs[b].data
             /\ \A c \in BlockIds : c # b => q.bs[c] = r.bs[c]
             /\ q.s.done = 0 /\ q.s.total = size
<1> DEFINE z == 0
           f == <<>>
           e == BeginTransfer(r.bs, b)
           ok == Status("Success")
           bad == Status("Error")
           s == [r.s EXCEPT !.block = b, !.total = size, !.done = z, !.crc = f]
           s2 == [s EXCEPT !.state = "StartPushTransfer", !.payload = ok]
           w == [r EXCEPT !.bs = e, !.s = s]
           w2 == [w EXCEPT !.s = s2]
<1>1. /\ r.s \in TransferSessions /\ r.in \in Wire /\ r.out \in Wire /\ r.bs \in Cells
  BY WorkParts
<1>2. f \in Bytes /\ z \in 0..MaxSize /\ z = 0
  BY NoBytes, Bounds
<1>3. ok \in TransferPayloads /\ bad \in TransferPayloads
  BY StatusTyped DEF Results
<1>4. StartPush(r, b, size) =
        IF size > 0 THEN StartPushTransferSession(w2) ELSE SendAndMoveToIdle(w, bad)
  <2>1. StartPush(r, b, size) =
          IF size > 0
          THEN StartPushTransferSession([w EXCEPT !.s.state = "StartPushTransfer",
                                                  !.s.payload = ok])
          ELSE SendAndMoveToIdle(w, bad)
    BY DEF StartPush
  <2>2. [w EXCEPT !.s.state = "StartPushTransfer", !.s.payload = ok] = w2
    BY DEF Work, TransferSessions
  <2>3. QED
    BY <2>1, <2>2
<1>5. /\ e \in Cells
      /\ e[b].pending = r.bs[b].pending + 1 /\ e[b].closed = r.bs[b].closed
      /\ e[b].data = r.bs[b].data /\ e[b].registered = r.bs[b].registered
      /\ \A c \in BlockIds : c # b => e[c] = r.bs[c]
  BY <1>1, BeginIs
<1>6. b \in 0..MaxBlocks
  BY Bounds DEF BlockIds
<1> HIDE DEF z, f, e, ok, bad
<1>7. /\ s \in TransferSessions /\ s.block = b /\ s.total = size /\ s.done = z
      /\ s.crc = f
  BY <1>1, <1>2, <1>6 DEF TransferSessions
<1> HIDE DEF s
<1>8. /\ s2 \in TransferSessions /\ s2.block = b /\ s2.total = size /\ s2.done = z
      /\ s2.crc = f /\ s2.state = "StartPushTransfer"
  BY <1>3, <1>7 DEF TransferSessions
<1> HIDE DEF s2
<1>9. w \in Work /\ w.s = s /\ w.bs = e /\ w.in = r.in /\ w.out = r.out
  BY <1>1, <1>5, <1>7 DEF Work
<1> HIDE DEF w
<1>10. w2 \in Work /\ w2.s = s2 /\ w2.bs = e /\ w2.in = r.in /\ w2.out = r.out
  BY <1>8, <1>9 DEF Work
<1> HIDE DEF w2
<1>11. CASE size > 0
  <2> DEFINE q == SendScratchPayload(w2, "ReceivePushTransferData")
  <2>1. StartPush(r, b, size) = q
    BY <1>4, <1>11 DEF StartPushTransferSession
  <2>2. /\ q \in Work /\ Len(q.out) <= LinkWindow
        /\ q.in = w2.in /\ q.bs = w2.bs /\ q.s.block = w2.s.block
        /\ q.s.total = w2.s.total /\ q.s.done = w2.s.done /\ q.s.crc = w2.s.crc
        /\ q.s.state \in {w2.s.state, "ReceivePushTransferData"}
    BY <1>10, SendScratchIs
  <2> HIDE DEF q
  <2>3. QED
    BY <1>2, <1>5, <1>8, <1>10, <2>1, <2>2 DEF Pulls
<1>12. CASE ~(size > 0)
  <2> DEFINE q == SendAndMoveToIdle(w, bad)
  <2>1. StartPush(r, b, size) = q
    BY <1>4, <1>12
  <2>2. /\ q \in Work /\ Len(q.out) <= LinkWindow
        /\ q.in = w.in /\ q.bs = w.bs /\ q.s.block = w.s.block
        /\ q.s.total = w.s.total /\ q.s.done = w.s.done /\ q.s.crc = w.s.crc
        /\ q.s.state \in Resting
    BY <1>3, <1>9, SendAndMoveIs
  <2> HIDE DEF q
  <2>3. QED
    BY <1>2, <1>5, <1>7, <1>9, <2>1, <2>2 DEF Pulls, Resting
<1>13. QED
  BY <1>11, <1>12

\* A push is cancelled.
LEMMA CancelIs ==
  ASSUME NEW r \in Work, Len(r.out) <= LinkWindow, r.s.block \in BlockIds,
         NEW reason \in Results
  PROVE  LET q == CancelTransfer(r, reason)
             b == r.s.block
         IN  /\ q \in Work /\ Len(q.out) <= LinkWindow /\ q.s.state \in Resting
             /\ q.in = r.in /\ q.s.block = NoBlock
             /\ q.bs[b].pending = r.bs[b].pending - 1
             /\ ~q.bs[b].closed /\ q.bs[b].data = <<>>
             /\ \A c \in BlockIds : c # b => q.bs[c] = r.bs[c]
<1> DEFINE e == Reset(r.bs, r.s.block)
           w == [r EXCEPT !.bs = e]
           d == Release(w)
           m == Status(reason)
           f == SendAndMoveToIdle(d, m)
<1>1. /\ r.s \in TransferSessions /\ r.in \in Wire /\ r.out \in Wire /\ r.bs \in Cells
  BY WorkParts
<1>2. CancelTransfer(r, reason) = f
  BY DEF CancelTransfer, Work
<1>3. /\ e \in Cells
      /\ e[r.s.block].pending = r.bs[r.s.block].pending /\ ~e[r.s.block].closed
      /\ e[r.s.block].data = <<>>
      /\ \A c \in BlockIds : c # r.s.block => e[c] = r.bs[c]
  BY <1>1, ResetIs
<1>4. m \in TransferPayloads
  BY StatusTyped
<1> HIDE DEF e, m
<1>5. w \in Work /\ w.s = r.s /\ w.bs = e /\ w.in = r.in /\ w.out = r.out
  BY <1>1, <1>3 DEF Work
<1> HIDE DEF w
<1>6. /\ d \in Work /\ d.in = w.in /\ d.out = w.out /\ d.s.block = NoBlock
      /\ d.bs[r.s.block].pending = w.bs[r.s.block].pending - 1
      /\ d.bs[r.s.block].closed = w.bs[r.s.block].closed
      /\ d.bs[r.s.block].data = w.bs[r.s.block].data
      /\ \A x \in BlockIds : x # r.s.block => d.bs[x] = w.bs[x]
  BY <1>5, ReleaseIs
<1> HIDE DEF d
<1>7. /\ f \in Work /\ Len(f.out) <= LinkWindow
      /\ f.in = d.in /\ f.bs = d.bs /\ f.s.block = d.s.block
      /\ f.s.state \in Resting
  BY <1>4, <1>5, <1>6, SendAndMoveIs
<1> HIDE DEF f
<1>8. QED
  BY <1>2, <1>3, <1>5, <1>6, <1>7

\* A push succeeds.
LEMMA ClosesIs ==
  ASSUME NEW r \in Work, Len(r.out) <= LinkWindow, r.s.block \in BlockIds
  PROVE  LET q == SendAndMoveToIdle(Release([r EXCEPT !.bs = Close(@, r.s.block)]),
                                    Status("Success"))
             b == r.s.block
         IN  /\ q \in Work /\ Len(q.out) <= LinkWindow /\ q.s.state \in Resting
             /\ q.in = r.in /\ q.s.block = NoBlock
             /\ q.bs[b].pending = r.bs[b].pending - 1
             /\ q.bs[b].closed /\ q.bs[b].data = r.bs[b].data
             /\ \A c \in BlockIds : c # b => q.bs[c] = r.bs[c]
<1> DEFINE e == Close(r.bs, r.s.block)
           w == [r EXCEPT !.bs = e]
           d == Release(w)
           m == Status("Success")
           f == SendAndMoveToIdle(d, m)
<1>1. /\ r.s \in TransferSessions /\ r.in \in Wire /\ r.out \in Wire /\ r.bs \in Cells
  BY WorkParts
<1>2. SendAndMoveToIdle(Release([r EXCEPT !.bs = Close(@, r.s.block)]),
                        Status("Success")) = f
  BY DEF Work
<1>3. /\ e \in Cells
      /\ e[r.s.block].pending = r.bs[r.s.block].pending /\ e[r.s.block].closed
      /\ e[r.s.block].data = r.bs[r.s.block].data
      /\ \A c \in BlockIds : c # r.s.block => e[c] = r.bs[c]
  BY <1>1, CloseIs
<1>4. m \in TransferPayloads
  BY StatusTyped DEF Results
<1> HIDE DEF e, m
<1>5. w \in Work /\ w.s = r.s /\ w.bs = e /\ w.in = r.in /\ w.out = r.out
  BY <1>1, <1>3 DEF Work
<1> HIDE DEF w
<1>6. /\ d \in Work /\ d.in = w.in /\ d.out = w.out /\ d.s.block = NoBlock
      /\ d.bs[r.s.block].pending = w.bs[r.s.block].pending - 1
      /\ d.bs[r.s.block].closed = w.bs[r.s.block].closed
      /\ d.bs[r.s.block].data = w.bs[r.s.block].data
      /\ \A x \in BlockIds : x # r.s.block => d.bs[x] = w.bs[x]
  BY <1>5, ReleaseIs
<1> HIDE DEF d
<1>7. /\ f \in Work /\ Len(f.out) <= LinkWindow
      /\ f.in = d.in /\ f.bs = d.bs /\ f.s.block = d.s.block
      /\ f.s.state \in Resting
  BY <1>4, <1>5, <1>6, SendAndMoveIs
<1> HIDE DEF f
<1>8. QED
  BY <1>2, <1>3, <1>5, <1>6, <1>7

\* A chunk is written.
LEMMA ChunkIs ==
  ASSUME NEW r \in Work, r.s.block \in BlockIds, NEW data \in Bytes,
         r.s.done < r.s.total
  PROVE  LET q == TakenIn(r, data)
             b == r.s.block
         IN  /\ q \in Work /\ q.out = r.out /\ q.in = r.in
             /\ q.s.state = r.s.state /\ q.s.block = b /\ q.s.total = r.s.total
             /\ q.s.done = r.s.done + 1
             /\ q.bs[b].pending = r.bs[b].pending /\ q.bs[b].closed = r.bs[b].closed
             /\ q.bs[b].data = r.bs[b].data \o data
             /\ \A c \in BlockIds : c # b => q.bs[c] = r.bs[c]
<1> DEFINE e == Write(r.bs, r.s.block, data)
           n == r.s.done + 1
           s == [r.s EXCEPT !.done = n]
           w == [r EXCEPT !.bs = e, !.s = s]
<1>1. /\ r.s \in TransferSessions /\ r.in \in Wire /\ r.out \in Wire /\ r.bs \in Cells
  BY WorkParts
<1>2. n \in 0..MaxSize
  BY WorkParts, Bounds
<1>3. TakenIn(r, data) = w
  BY DEF TakenIn, Work, TransferSessions
<1>4. /\ e \in Cells
      /\ e[r.s.block].pending = r.bs[r.s.block].pending
      /\ e[r.s.block].closed = r.bs[r.s.block].closed
      /\ e[r.s.block].data = r.bs[r.s.block].data \o data
      /\ \A c \in BlockIds : c # r.s.block => e[c] = r.bs[c]
  BY <1>1, WriteIs
<1>9. n = r.s.done + 1
  OBVIOUS
<1> HIDE DEF e, n
<1>5. /\ s \in TransferSessions /\ s.state = r.s.state /\ s.block = r.s.block
      /\ s.total = r.s.total /\ s.done = n
  BY <1>1, <1>2 DEF TransferSessions
<1> HIDE DEF s
<1>6. w \in Work /\ w.s = s /\ w.bs = e /\ w.in = r.in /\ w.out = r.out
  BY <1>1, <1>4, <1>5 DEF Work
<1> HIDE DEF w
<1>7. QED
  BY <1>3, <1>4, <1>5, <1>6, <1>9

-----------------------------------------------------------------------------
(* UpdateSession.                                                          *)

\* An idle session handles what it received.
LEMMA ProcessPayloadIs ==
  ASSUME NEW r, Meets(r), r.s.state = "Idle", r.in # <<>>
  PROVE  LET q == ProcessPayload(Consume(r), Head(r.in))
         IN  /\ Goes(r, q) /\ (Keeps(r, q) \/ Joins(r, q))
             /\ q.in = Tail(r.in)
<1> DEFINE p == Head(r.in)
           c == Consume(r)
           q == ProcessPayload(c, p)
<1>1. r \in Work /\ Len(r.out) <= LinkWindow
  BY DEF Meets
<1>2. /\ c \in Work /\ c.in = Tail(r.in) /\ c.out = r.out /\ c.s = r.s
      /\ c.bs = r.bs /\ p \in TransferPayloads
  BY <1>1, TailTyped
<1>3. p.block \in 0..MaxBlocks /\ p.size \in 0..MaxSize
  BY <1>2 DEF TransferPayloads
<1>9. r.s.state \notin Pulls \cup Pushes /\ Resting \cap (Pulls \cup Pushes) = {}
      /\ "None" \notin Resting
  BY DEF Meets, Pulls, Pushes, Resting
<1> HIDE DEF c
<1>4. CASE p.command = "PullRequest" /\ MayPull(c.bs, p.block)
  <2>1. q = StartPull(c, p.block)
    BY <1>4 DEF ProcessPayload
  <2>2. p.block \in BlockIds /\ r.bs[p.block].closed /\ r.bs[p.block].registered
    BY <1>2, <1>3, <1>4, Bounds DEF MayPull, Registered
  <2>3. IsRequest(p)
    BY <1>4 DEF IsRequest
  <2>4. r.s.block = NoBlock /\ c.in = <<>> /\ Len(r.bs[p.block].data) <= MaxSize
    BY <1>2, <2>2, <2>3 DEF Meets
  <2> HIDE DEF q
  <2>5. /\ q \in Work /\ Len(q.out) <= LinkWindow /\ q.s.state # "None"
        /\ q.in = c.in /\ q.s.state \notin Pushes
        /\ \/ q.bs = c.bs /\ q.s.block = c.s.block /\ q.s.state \in Resting
           \/ /\ q.s.block = p.block
              /\ q.bs[p.block].registered = c.bs[p.block].registered
              /\ q.bs[p.block].pending = c.bs[p.block].pending + 1
              /\ q.bs[p.block].closed = c.bs[p.block].closed
              /\ q.bs[p.block].data = c.bs[p.block].data
              /\ \A x \in BlockIds : x # p.block => q.bs[x] = c.bs[x]
              /\ q.s.crc = c.bs[p.block].data /\ q.s.total = Len(c.bs[p.block].data)
              /\ q.s.done <= q.s.total
    <3>1. /\ c \in Work /\ Len(c.out) <= LinkWindow /\ p.block \in BlockIds
          /\ c.in = <<>> /\ c.s.block = NoBlock
          /\ Len(c.bs[p.block].data) <= MaxSize
      BY <1>1, <1>2, <2>2, <2>4
    <3>2. QED
      BY <2>1, <3>1, StartPullIs
  <2>6. Goes(r, q) /\ q.in = Tail(r.in)
    BY <1>2, <2>5 DEF Goes
  <2>7. Keeps(r, q) \/ Joins(r, q)
    <3>1. CASE q.bs = c.bs /\ q.s.block = c.s.block /\ q.s.state \in Resting
      BY <1>2, <1>9, <3>1 DEF Keeps
    <3>2. CASE ~(q.bs = c.bs /\ q.s.block = c.s.block /\ q.s.state \in Resting)
      <4>1. Joins(r, q)
        BY <1>2, <1>4, <2>2, <2>3, <2>5, <3>2 DEF Joins
      <4>2. QED
        BY <4>1
    <3>3. QED
      BY <3>1, <3>2
  <2>8. QED
    BY <2>6, <2>7 DEF q, c
<1>5. CASE p.command = "PushRequest" /\ MayPush(c.bs, p.block)
  <2>1. q = StartPush(c, p.block, p.size)
    BY <1>5 DEF ProcessPayload
  <2>2. p.block \in BlockIds /\ ~r.bs[p.block].closed /\ r.bs[p.block].registered
    BY <1>2, <1>3, <1>5, Bounds DEF MayPush, Registered
  <2>3. IsRequest(p)
    BY <1>5 DEF IsRequest
  <2> HIDE DEF q
  <2>5. /\ q \in Work /\ Len(q.out) <= LinkWindow /\ q.s.state # "None"
        /\ q.in = c.in /\ q.s.state \notin Pulls
        /\ q.s.block = p.block
        /\ q.bs[p.block].registered = c.bs[p.block].registered
        /\ q.bs[p.block].pending = c.bs[p.block].pending + 1
        /\ q.bs[p.block].closed = c.bs[p.block].closed
        /\ q.bs[p.block].data = c.bs[p.block].data
        /\ \A x \in BlockIds : x # p.block => q.bs[x] = c.bs[x]
        /\ q.s.done = 0 /\ q.s.total = p.size
    <3>1. /\ c \in Work /\ Len(c.out) <= LinkWindow /\ p.block \in BlockIds
          /\ p.size \in 0..MaxSize
      BY <1>1, <1>2, <1>3, <2>2
    <3> HIDE DEF p
    <3>2. QED
      BY <2>1, <3>1, StartPushIs
  <2>6. Goes(r, q) /\ q.in = Tail(r.in)
    BY <1>2, <2>5 DEF Goes
  <2>7. Joins(r, q)
    BY <1>2, <1>5, <2>2, <2>3, <2>5 DEF Joins
  <2>8. QED
    BY <2>6, <2>7 DEF q, c
<1>6. CASE /\ ~(p.command = "PullRequest" /\ MayPull(c.bs, p.block))
           /\ ~(p.command = "PushRequest" /\ MayPush(c.bs, p.block))
  <2> DEFINE e == <<>>
             a == Sentinel("Aborted", e)
             f == Status("Error")
             m == IF p.command = "TransferStatus" THEN a ELSE f
             d == SendAndMoveToIdle(c, m)
  <2>1. q = d
    BY <1>6 DEF ProcessPayload
  <2>2. e \in Bytes
    BY NoBytes
  <2> HIDE DEF e
  <2>3. a \in TransferPayloads /\ f \in TransferPayloads
    BY <2>2, SentinelTyped, StatusTyped DEF Results
  <2> HIDE DEF a, f
  <2>4. m \in TransferPayloads
    BY <2>3
  <2> HIDE DEF m, q
  <2>5. /\ d \in Work /\ Len(d.out) <= LinkWindow
        /\ d.in = c.in /\ d.bs = c.bs /\ d.s.block = c.s.block
        /\ d.s.state \in Resting
    BY <1>1, <1>2, <2>4, SendAndMoveIs
  <2> HIDE DEF d
  <2>6. Goes(r, q) /\ q.in = Tail(r.in)
    BY <1>2, <1>9, <2>1, <2>5 DEF Goes
  <2>7. Keeps(r, q)
    BY <1>2, <1>9, <2>1, <2>5 DEF Keeps
  <2>8. QED
    BY <2>6, <2>7 DEF q, c
<1>7. QED
  BY <1>4, <1>5, <1>6

\* A session in a push handles what it received.
LEMMA ReceivePushIs ==
  ASSUME NEW r, Meets(r), r.s.state = "ReceivePushTransferData", r.in # <<>>
  PROVE  LET q == ReceivePushTransferData(Consume(r), Head(r.in))
         IN  /\ Goes(r, q) /\ (TakesChunk(r, q) \/ Leaves(r, q))
             /\ q.in = Tail(r.in)
<1> DEFINE p == Head(r.in)
           c == Consume(r)
           q == ReceivePushTransferData(c, p)
           b == r.s.block
           last == /\ p.command = "TransferDataSentinel" /\ p.result = "Success"
                   /\ c.bs[c.s.block].data = p.data
           more == p.command = "TransferDataChunk" /\ c.s.done < c.s.total
<1>1. r \in Work /\ Len(r.out) <= LinkWindow
  BY DEF Meets
<1>2. /\ c \in Work /\ c.in = Tail(r.in) /\ c.out = r.out /\ c.s = r.s
      /\ c.bs = r.bs /\ p \in TransferPayloads
  BY <1>1, TailTyped
<1>3. p.data \in Bytes
  BY <1>2 DEF TransferPayloads
<1>9. r.s.state \in Pushes /\ Resting \cap (Pulls \cup Pushes) = {}
      /\ "None" \notin Resting
  BY DEF Pulls, Pushes, Resting
<1>8. b \in BlockIds
  BY <1>1, <1>9, Bounds, WorkParts DEF Meets, Sound
<1> HIDE DEF c
<1>4. CASE more
  <2>1. q = TakenIn(c, p.data)
    BY <1>4 DEF TakenIn, ReceivePushTransferData
  <2> HIDE DEF q
  <2>2. /\ q \in Work /\ q.out = c.out /\ q.in = c.in
        /\ q.s.state = c.s.state /\ q.s.block = b /\ q.s.total = c.s.total
        /\ q.s.done = c.s.done + 1
        /\ q.bs[b].pending = c.bs[b].pending /\ q.bs[b].closed = c.bs[b].closed
        /\ q.bs[b].data = c.bs[b].data \o p.data
        /\ \A x \in BlockIds : x # b => q.bs[x] = c.bs[x]
    <3>1. /\ c \in Work /\ c.s.block \in BlockIds /\ c.s.block = b
          /\ p.data \in Bytes /\ c.s.done < c.s.total
      BY <1>2, <1>3, <1>4, <1>8
    <3> HIDE DEF p, b
    <3>2. QED
      BY <2>1, <3>1, ChunkIs
  <2>3. Goes(r, q) /\ q.in = Tail(r.in)
    BY <1>1, <1>2, <2>2 DEF Goes
  <2>4. TakesChunk(r, q)
    BY <1>2, <1>4, <2>2 DEF TakesChunk
  <2>5. QED
    BY <2>3, <2>4 DEF q, c
<1>5. CASE ~more /\ last
  <2>1. q = SendAndMoveToIdle(Release([c EXCEPT !.bs = Close(@, c.s.block)]),
                              Status("Success"))
    BY <1>5 DEF ReceivePushTransferData
  <2> HIDE DEF q
  <2>2. /\ q \in Work /\ Len(q.out) <= LinkWindow /\ q.s.state \in Resting
        /\ q.in = c.in /\ q.s.block = NoBlock
        /\ q.bs[b].pending = c.bs[b].pending - 1
        /\ q.bs[b].closed /\ q.bs[b].data = c.bs[b].data
        /\ \A x \in BlockIds : x # b => q.bs[x] = c.bs[x]
    <3>1. /\ c \in Work /\ c.s.block \in BlockIds /\ c.s.block = b
          /\ Len(c.out) <= LinkWindow
      BY <1>1, <1>2, <1>8
    <3> HIDE DEF p, b
    <3>2. QED
      BY <2>1, <3>1, ClosesIs
  <2>3. Goes(r, q) /\ q.in = Tail(r.in)
    BY <1>2, <1>9, <2>2 DEF Goes
  <2>4. Leaves(r, q)
    BY <1>2, <1>9, <2>2 DEF Leaves
  <2>5. QED
    BY <2>3, <2>4 DEF q, c
<1>6. CASE ~more /\ ~last
  <2> DEFINE x == IF p.command = "TransferDataSentinel" /\ p.result = "Aborted"
                  THEN "Aborted" ELSE "Error"
  <2>1. q = CancelTransfer(c, x)
    BY <1>6 DEF ReceivePushTransferData
  <2>2. x \in Results
    BY DEF Results
  <2> HIDE DEF q, x
  <2>3. /\ q \in Work /\ Len(q.out) <= LinkWindow /\ q.s.state \in Resting
        /\ q.in = c.in /\ q.s.block = NoBlock
        /\ q.bs[b].pending = c.bs[b].pending - 1
        /\ ~q.bs[b].closed /\ q.bs[b].data = <<>>
        /\ \A y \in BlockIds : y # b => q.bs[y] = c.bs[y]
    BY <1>1, <1>2, <1>8, <2>1, <2>2, CancelIs
  <2>4. Goes(r, q) /\ q.in = Tail(r.in)
    BY <1>2, <1>9, <2>3 DEF Goes
  <2>5. Leaves(r, q)
    BY <1>2, <1>9, <2>3 DEF Leaves
  <2>6. QED
    BY <2>4, <2>5 DEF q, c
<1>7. QED
  BY <1>4, <1>5, <1>6

\* A session in a pull.
LEMMA PullsIs ==
  ASSUME NEW r, Meets(r), r.s.state \in Pulls
  PROVE  LET q == IF r.s.state = "StartPullTransfer" THEN SendPullTransferHeader(r)
                  ELSE ProcessPullSession(r)
         IN  Goes(r, q) /\ (Keeps(r, q) \/ Leaves(r, q))
<1> DEFINE q == IF r.s.state = "StartPullTransfer" THEN SendPullTransferHeader(r)
                ELSE ProcessPullSession(r)
           b == r.s.block
<1>1. r \in Work /\ Len(r.out) <= LinkWindow /\ b # NoBlock /\ r.s.done <= r.s.total
      /\ Len(r.bs[b].data) = r.s.total
  BY DEF Meets, Sound
<1>2. b \in BlockIds
  BY <1>1, Bounds, WorkParts
<1>3. r.s.state = "StartPullTransfer" \/ r.s.state = "ProcessPullTransfer"
  BY DEF Pulls
<1>4. /\ q \in Work /\ Len(q.out) <= LinkWindow /\ q.s.state # "None"
      /\ q.in = r.in \/ (r.in # <<>> /\ q.in = Tail(r.in))
      /\ q.s.state \notin Pushes
      /\ q.s.total = r.s.total /\ q.s.crc = r.s.crc
      /\ \/ /\ q.bs = r.bs /\ q.s.block = b /\ q.s.done <= q.s.total
         \/ /\ q.s.block = NoBlock /\ q.s.state \in Resting /\ q.in = r.in
            /\ q.bs[b].pending = r.bs[b].pending - 1
            /\ q.bs[b].closed = r.bs[b].closed /\ q.bs[b].data = r.bs[b].data
            /\ \A c \in BlockIds : c # b => q.bs[c] = r.bs[c]
  <2>1. CASE r.s.state = "StartPullTransfer"
    BY <1>1, <1>2, <2>1, PullHeaderIs
  <2>2. CASE r.s.state = "ProcessPullTransfer"
    BY <1>1, <1>2, <2>2, ProcessPullIs
  <2>3. QED
    BY <1>3, <2>1, <2>2
<1> HIDE DEF q
<1>5. Goes(r, q)
  BY <1>4 DEF Goes
<1>6. CASE q.bs = r.bs /\ q.s.block = b /\ q.s.done <= q.s.total
  <2>1. Keeps(r, q)
    BY <1>4, <1>6 DEF Keeps
  <2>2. QED
    BY <1>5, <2>1 DEF q
<1>7. CASE ~(q.bs = r.bs /\ q.s.block = b /\ q.s.done <= q.s.total)
  <2>1. Leaves(r, q)
    BY <1>4, <1>7 DEF Leaves
  <2>2. QED
    BY <1>5, <2>1 DEF q
<1>8. QED
  BY <1>6, <1>7

\* Every update is one of the four changes.
LEMMA AfterIs ==
  ASSUME NEW r, Meets(r)
  PROVE  LET q == After(r)
         IN  /\ Goes(r, q) /\ Changes(r, q)
             /\ r.in # <<>> /\ r.s.state = "Idle" => q.in = Tail(r.in)
<1>1. r \in Work /\ Len(r.out) <= LinkWindow /\ r.s.state # "None"
      /\ r.s \in TransferSessions
  BY WorkParts DEF Meets
<1>2. CASE r.s.state = "Idle" /\ r.in # <<>>
  <2>1. After(r) = ProcessPayload(Consume(r), Head(r.in))
    BY <1>2 DEF After
  <2>2. QED
    BY <1>2, <2>1, ProcessPayloadIs DEF Changes
<1>3. CASE r.s.state = "ReceivePushTransferData" /\ r.in # <<>>
  <2>1. After(r) = ReceivePushTransferData(Consume(r), Head(r.in))
    BY <1>3 DEF After
  <2>2. QED
    BY <1>3, <2>1, ReceivePushIs DEF Changes
<1>4. CASE r.s.state \in Pulls
  <2>1. After(r) = IF r.s.state = "StartPullTransfer" THEN SendPullTransferHeader(r)
                   ELSE ProcessPullSession(r)
    BY <1>4 DEF After, Pulls
  <2>2. r.s.state # "Idle"
    BY <1>4 DEF Pulls
  <2>3. QED
    BY <1>4, <2>1, <2>2, PullsIs DEF Changes
<1>5. CASE r.s.state = "SendPayload"
  <2> DEFINE q == SendScratchPayload(r, "Idle")
  <2>1. After(r) = q
    BY <1>5 DEF After
  <2>2. /\ q \in Work /\ Len(q.out) <= LinkWindow
        /\ q.in = r.in /\ q.bs = r.bs /\ q.s.block = r.s.block
        /\ q.s.state \in {r.s.state, "Idle"}
    BY <1>1, SendScratchIs
  <2> HIDE DEF q
  <2>3. Goes(r, q) /\ Keeps(r, q)
    BY <1>5, <2>2 DEF Goes, Keeps, Pulls, Pushes
  <2>4. QED
    BY <1>5, <2>1, <2>3 DEF Changes
<1>6. CASE r.s.state = "StartPushTransfer"
  <2> DEFINE q == SendScratchPayload(r, "ReceivePushTransferData")
  <2>1. After(r) = q
    BY <1>6 DEF After, StartPushTransferSession
  <2>2. /\ q \in Work /\ Len(q.out) <= LinkWindow
        /\ q.in = r.in /\ q.bs = r.bs /\ q.s.block = r.s.block
        /\ q.s.total = r.s.total /\ q.s.done = r.s.done
        /\ q.s.state \in {r.s.state, "ReceivePushTransferData"}
    BY <1>1, SendScratchIs
  <2> HIDE DEF q
  <2>3. Goes(r, q) /\ Keeps(r, q)
    BY <1>6, <2>2 DEF Goes, Keeps, Pulls, Pushes
  <2>4. QED
    BY <1>6, <2>1, <2>3 DEF Changes
<1>7. CASE \/ r.s.state = "Idle" /\ r.in = <<>>
           \/ r.s.state = "ReceivePushTransferData" /\ r.in = <<>>
  <2>1. After(r) = r
    BY <1>7 DEF After
  <2>2. Goes(r, r) /\ Keeps(r, r)
    BY <1>1, <1>7 DEF Goes, Keeps, Pulls, Pushes
  <2>3. QED
    BY <1>7, <2>1, <2>2 DEF Changes
<1>8. QED
  BY <1>1, <1>2, <1>3, <1>4, <1>5, <1>6, <1>7 DEF TransferSessions, Pulls

-----------------------------------------------------------------------------
(* Who holds a block, and who is offered one.                              *)

\* The length of two sequences in a row.
LEMMA LenPlus ==
  ASSUME NEW S, NEW a \in Seq(S), NEW c \in Seq(S)
  PROVE  Len(a \o c) = Len(a) + Len(c)
  OBVIOUS

\* Two pieces of data in a row.
LEMMA BytesPlus ==
  ASSUME NEW a \in Bytes, NEW c \in Bytes
  PROVE  a \o c \in Bytes /\ Len(a \o c) = Len(a) + Len(c)
<1>1. Len(a \o c) = Len(a) + Len(c)
  BY LenPlus DEF Bytes
<1>2. QED
  BY <1>1 DEF Bytes

\* A sequence of one element.
LEMMA OneElement ==
  ASSUME NEW S, NEW q \in Seq(S), Len(q) = 1
  PROVE  q # <<>> /\ Len(Tail(q)) = 0
<1>1. q # <<>>
  OBVIOUS
<1>2. QED
  BY <1>1

\* A sequence of none.
LEMMA NoElement ==
  ASSUME NEW S, NEW q \in Seq(S), Len(q) = 0
  PROVE  q = <<>>
  OBVIOUS

\* The holders of a block can be counted.
LEMMA HoldersFinite ==
  ASSUME NEW ts, NEW b
  PROVE  IsFiniteSet(Holders(ts, b)) /\ Cardinality(Holders(ts, b)) \in Nat
<1>1. Holders(ts, b) \subseteq Links
  BY DEF Holders
<1>2. QED
  BY <1>1, Bounds, FS_Subset, FS_CardinalityType

Moves(x, y, bs, cs) ==
  /\ \A b \in BlockIds : b # x /\ b # y => cs[b].pending = bs[b].pending
  /\ x = y /\ x \in BlockIds => cs[x].pending = bs[x].pending
  /\ x # y /\ y \in BlockIds => cs[y].pending = bs[y].pending + 1
  /\ x # y /\ x \in BlockIds => cs[x].pending = bs[x].pending - 1

\* A session that changes its block changes the number of the holders of both.
LEMMA MatchesMoves ==
  ASSUME NEW ts \in [Links -> TransferSessions], NEW s \in TransferSessions,
         NEW l \in Links, NEW bs \in Cells, NEW cs \in Cells, Matches(ts, bs),
         Moves(ts[l].block, s.block, bs, cs)
  PROVE  Matches([ts EXCEPT ![l] = s], cs)
<1> DEFINE us == [ts EXCEPT ![l] = s]
<1>1. us[l] = s /\ \A k \in Links : k # l => us[k] = ts[k]
  OBVIOUS
<1> HIDE DEF us
<1> SUFFICES ASSUME NEW b \in BlockIds
             PROVE  cs[b].pending = Cardinality(Holders(us, b))
  BY DEF Matches, us
<1>2. bs[b].pending = Cardinality(Holders(ts, b))
  BY DEF Matches
<1>0. /\ b # ts[l].block /\ b # s.block => cs[b].pending = bs[b].pending
      /\ b = ts[l].block /\ b = s.block => cs[b].pending = bs[b].pending
      /\ b # ts[l].block /\ b = s.block => cs[b].pending = bs[b].pending + 1
      /\ b = ts[l].block /\ b # s.block => cs[b].pending = bs[b].pending - 1
  BY DEF Moves
<1>3. CASE b # ts[l].block /\ b # s.block
  <2>1. Holders(us, b) = Holders(ts, b)
    BY <1>1, <1>3 DEF Holders
  <2>2. QED
    BY <1>0, <1>2, <1>3, <2>1
<1>4. CASE b = ts[l].block /\ b = s.block
  <2>1. Holders(us, b) = Holders(ts, b)
    BY <1>1, <1>4 DEF Holders
  <2>2. QED
    BY <1>0, <1>2, <1>4, <2>1
<1>5. CASE b # ts[l].block /\ b = s.block
  <2>1. Holders(us, b) = Holders(ts, b) \cup {l} /\ l \notin Holders(ts, b)
    BY <1>1, <1>5 DEF Holders
  <2>2. Cardinality(Holders(us, b)) = Cardinality(Holders(ts, b)) + 1
    BY <2>1, HoldersFinite, FS_AddElement
  <2>3. QED
    BY <1>0, <1>2, <1>5, <2>2
<1>6. CASE b = ts[l].block /\ b # s.block
  <2>1. Holders(us, b) = Holders(ts, b) \ {l} /\ l \in Holders(ts, b)
    BY <1>1, <1>6 DEF Holders
  <2>2. Cardinality(Holders(us, b)) = Cardinality(Holders(ts, b)) - 1
    <3> DEFINE A == Holders(ts, b)
    <3>1. IsFiniteSet(A) /\ Holders(us, b) = A \ {l} /\ l \in A
      BY <2>1, HoldersFinite
    <3> HIDE DEF A
    <3>2. Cardinality(A \ {l}) = Cardinality(A) - 1
      BY <3>1, FS_RemoveElement
    <3>3. QED
      BY <3>1, <3>2 DEF A
  <2>3. QED
    BY <1>0, <1>2, <1>6, <2>2
<1>7. QED
  BY <1>3, <1>4, <1>5, <1>6

\* Nothing changes in the number of holders.
LEMMA MatchesSame ==
  ASSUME NEW ts \in [Links -> TransferSessions], NEW us \in [Links -> TransferSessions],
         NEW bs \in Cells, NEW cs \in Cells, Matches(ts, bs),
         \A l \in Links : us[l].block = ts[l].block,
         \A b \in BlockIds : cs[b].pending = bs[b].pending
  PROVE  Matches(us, cs)
<1>1. \A b \in BlockIds : Holders(us, b) = Holders(ts, b)
  BY DEF Holders
<1>2. QED
  BY <1>1 DEF Matches

\* The blocks of a sequence of answers, when an answer is added or taken.
LEMMA InAppend ==
  ASSUME NEW o \in [Askers -> Seq(UriPayloads)], NEW t \in Askers, NEW p \in UriPayloads,
         NEW b, InOffers([o EXCEPT ![t] = Append(o[t], p)], b)
  PROVE  InOffers(o, b) \/ b = p.block
<1> DEFINE a == Append(o[t], p)
           q == [o EXCEPT ![t] = a]
<1>1. \A i \in 1..Len(a) : (i \in 1..Len(o[t]) /\ a[i] = o[t][i]) \/ a[i] = p
  OBVIOUS
<1> HIDE DEF a
<1>2. q[t] = a /\ \A v \in Askers : v # t => q[v] = o[v]
  OBVIOUS
<1> HIDE DEF q
<1>3. InOffers(q, b)
  BY DEF q, a
<1>4. PICK v \in Askers : \E i \in 1..Len(q[v]) : q[v][i].block = b
  BY <1>3 DEF InOffers
<1>5. CASE v = t
  BY <1>1, <1>2, <1>4, <1>5 DEF InOffers
<1>6. CASE v # t
  BY <1>2, <1>4, <1>6 DEF InOffers
<1>7. QED
  BY <1>5, <1>6

\* An offer is taken.
LEMMA InTail ==
  ASSUME NEW o \in [Askers -> Seq(UriPayloads)], NEW t \in Askers, o[t] # <<>>,
         NEW b, InOffers([o EXCEPT ![t] = Tail(o[t])], b)
  PROVE  InOffers(o, b)
<1> DEFINE a == Tail(o[t])
           q == [o EXCEPT ![t] = a]
<1>1. \A i \in 1..Len(a) : i + 1 \in 1..Len(o[t]) /\ a[i] = o[t][i + 1]
  OBVIOUS
<1> HIDE DEF a
<1>2. q[t] = a /\ \A v \in Askers : v # t => q[v] = o[v]
  OBVIOUS
<1> HIDE DEF q
<1>3. InOffers(q, b)
  BY DEF q, a
<1>4. PICK v \in Askers : \E i \in 1..Len(q[v]) : q[v][i].block = b
  BY <1>3 DEF InOffers
<1>5. CASE v = t
  BY <1>1, <1>2, <1>4, <1>5 DEF InOffers
<1>6. CASE v # t
  BY <1>2, <1>4, <1>6 DEF InOffers
<1>7. QED
  BY <1>5, <1>6

\* The first offer is one.
LEMMA InHead ==
  ASSUME NEW o \in [Askers -> Seq(UriPayloads)], NEW t \in Askers, o[t] # <<>>
  PROVE  InOffers(o, Head(o[t]).block)
<1>1. 1 \in 1..Len(o[t]) /\ o[t][1] = Head(o[t])
  OBVIOUS
<1>2. QED
  BY <1>1 DEF InOffers

\* All offers to one client are dropped.
LEMMA InEmpty ==
  ASSUME NEW o \in [Askers -> Seq(UriPayloads)], NEW t \in Askers,
         NEW b, InOffers([o EXCEPT ![t] = <<>>], b)
  PROVE  InOffers(o, b)
<1> DEFINE a == <<>>
           q == [o EXCEPT ![t] = a]
<1>1. 1..Len(a) = {}
  OBVIOUS
<1> HIDE DEF a
<1>2. q[t] = a /\ \A v \in Askers : v # t => q[v] = o[v]
  OBVIOUS
<1> HIDE DEF q
<1>3. InOffers(q, b)
  BY DEF q, a
<1>4. PICK v \in Askers : \E i \in 1..Len(q[v]) : q[v][i].block = b
  BY <1>3 DEF InOffers
<1>5. CASE v = t
  BY <1>1, <1>2, <1>4, <1>5
<1>6. CASE v # t
  BY <1>2, <1>4, <1>6 DEF InOffers
<1>7. QED
  BY <1>5, <1>6

OfferSets == [Askers -> Seq(UriPayloads)]
WantSets == [Links -> 0..MaxBlocks]

\* What is offered.
LEMMA OfferedTyped ==
  ASSUME NEW o \in OfferSets, NEW t \in Askers, NEW i \in 1..Len(o[t])
  PROVE  o[t][i] \in UriPayloads /\ o[t][i].block \in 0..MaxBlocks
<1>1. o[t] \in Seq(UriPayloads)
  BY DEF OfferSets
<1>2. o[t][i] \in UriPayloads
  BY <1>1
<1>3. QED
  BY <1>2 DEF UriPayloads

\* Fewer are wanted, and more opened.
LEMMA OnceFewerWants ==
  ASSUME NEW o \in OfferSets, NEW w \in WantSets, NEW x \in WantSets,
         NEW n \in Nat, NEW m \in Nat, n <= m, Once(o, w, n),
         \A l \in Links : x[l] = w[l] \/ x[l] = NoBlock
  PROVE  Once(o, x, m)
<1>1. \A t \in Askers : \A i \in 1..Len(o[t]) : o[t][i].block \in 0..MaxBlocks
  BY OfferedTyped
<1>2. \A t, v \in Askers : \A i \in 1..Len(o[t]), j \in 1..Len(o[v]) :
       o[t][i].block = o[v][j].block /\ o[t][i].block # NoBlock => t = v /\ i = j
  BY DEF Once
<1>3. \A t \in Askers : \A i \in 1..Len(o[t]) : o[t][i].block <= m
  BY <1>1, Bounds DEF Once
<1>4. \A t \in Askers : \A i \in 1..Len(o[t]) :
        o[t][i].block # NoBlock => \A l \in Links : x[l] # o[t][i].block
  BY DEF Once
<1>5. \A k, l \in Links : x[k] = x[l] /\ x[k] # NoBlock => k = l
  BY DEF Once
<1>6. \A l \in Links : x[l] <= m
  BY Bounds DEF Once, WantSets
<1>7. QED
  BY <1>2, <1>3, <1>4, <1>5, <1>6 DEF Once

\* Fewer are offered.
LEMMA OnceFewerOffers ==
  ASSUME NEW o \in OfferSets, NEW w \in WantSets, NEW n \in Nat, Once(o, w, n),
         NEW t \in Askers, NEW a \in Seq(UriPayloads),
         \/ a = <<>>
         \/ o[t] # <<>> /\ a = Tail(o[t])
  PROVE  Once([o EXCEPT ![t] = a], w, n)
<1> DEFINE q == [o EXCEPT ![t] = a]
<1>1. PICK d \in {0, 1} : \A i \in 1..Len(a) : i + d \in 1..Len(o[t]) /\ a[i] = o[t][i + d]
  <2>0. o[t] \in Seq(UriPayloads)
    BY DEF OfferSets
  <2>1. CASE a = <<>>
    BY <2>1
  <2>2. CASE o[t] # <<>> /\ a = Tail(o[t])
    <3>1. \A i \in 1..Len(a) : i + 1 \in 1..Len(o[t]) /\ a[i] = o[t][i + 1]
      BY <2>0, <2>2
    <3>2. QED
      BY <3>1
  <2>3. QED
    BY <2>1, <2>2
<1>2. q[t] = a /\ \A v \in Askers : v # t => q[v] = o[v]
  BY DEF OfferSets
<1> DEFINE at(v, i) == IF v = t THEN i + d ELSE i
<1>3. \A v \in Askers : \A i \in 1..Len(q[v]) :
        at(v, i) \in 1..Len(o[v]) /\ q[v][i] = o[v][at(v, i)]
  BY <1>1, <1>2
<1> HIDE DEF q
<1>4. \A v \in Askers : \A i, j \in 1..Len(q[v]) : at(v, i) = at(v, j) => i = j
  OBVIOUS
<1> HIDE DEF at
<1>5. \A u, v \in Askers : \A i \in 1..Len(q[u]), j \in 1..Len(q[v]) :
        q[u][i].block = q[v][j].block /\ q[u][i].block # NoBlock => u = v /\ i = j
  <2> SUFFICES ASSUME NEW u \in Askers, NEW v \in Askers,
                      NEW i \in 1..Len(q[u]), NEW j \in 1..Len(q[v]),
                      q[u][i].block = q[v][j].block, q[u][i].block # NoBlock
               PROVE  u = v /\ i = j
    OBVIOUS
  <2>1. /\ at(u, i) \in 1..Len(o[u]) /\ q[u][i] = o[u][at(u, i)]
        /\ at(v, j) \in 1..Len(o[v]) /\ q[v][j] = o[v][at(v, j)]
    BY <1>3
  <2>2. u = v /\ at(u, i) = at(v, j)
    <3>1. \A k \in 1..Len(o[u]), m \in 1..Len(o[v]) :
            o[u][k].block = o[v][m].block /\ o[u][k].block # NoBlock => u = v /\ k = m
      BY DEF Once
    <3>2. QED
      BY <2>1, <3>1
  <2>3. QED
    BY <1>4, <2>2
<1>6. \A v \in Askers : \A i \in 1..Len(q[v]) :
        /\ q[v][i].block <= n
        /\ q[v][i].block # NoBlock => \A l \in Links : w[l] # q[v][i].block
  BY <1>3 DEF Once
<1>7. QED
  BY <1>5, <1>6 DEF Once, q

\* A block is offered that was not opened before.
LEMMA OnceOffer ==
  ASSUME NEW o \in OfferSets, NEW w \in WantSets, NEW n \in Nat, NEW m \in Nat,
         n <= m, Once(o, w, n), NEW t \in Askers, NEW p \in UriPayloads,
         p.block = NoBlock \/ (p.block = n + 1 /\ p.block <= m)
  PROVE  Once([o EXCEPT ![t] = Append(o[t], p)], w, m)
<1> DEFINE a == Append(o[t], p)
           q == [o EXCEPT ![t] = a]
<1>1. /\ Len(a) = Len(o[t]) + 1 /\ a[Len(o[t]) + 1] = p /\ Len(o[t]) \in Nat
      /\ \A i \in 1..Len(o[t]) : a[i] = o[t][i]
  BY DEF OfferSets
<1>2. q[t] = a /\ \A v \in Askers : v # t => q[v] = o[v]
  BY DEF OfferSets
<1> HIDE DEF a
<1> DEFINE new(v, i) == v = t /\ i = Len(o[t]) + 1
<1>3. \A v \in Askers : \A i \in 1..Len(q[v]) :
        \/ new(v, i) /\ q[v][i] = p
        \/ i \in 1..Len(o[v]) /\ q[v][i] = o[v][i]
  BY <1>1, <1>2
<1> HIDE DEF q
<1>4. /\ \A v \in Askers : \A i \in 1..Len(o[v]) :
           o[v][i].block \in 0..MaxBlocks /\ o[v][i].block <= n
      /\ p.block \in 0..MaxBlocks /\ \A l \in Links : w[l] \in 0..MaxBlocks /\ w[l] <= n
  <2>1. p.block \in 0..MaxBlocks
    BY DEF UriPayloads
  <2>2. \A l \in Links : w[l] \in 0..MaxBlocks /\ w[l] <= n
    BY DEF Once, WantSets
  <2>3. \A v \in Askers : \A i \in 1..Len(o[v]) : o[v][i].block <= n
    BY DEF Once
  <2>4. QED
    BY <2>1, <2>2, <2>3, OfferedTyped
<1>5. p.block # NoBlock => p.block > n
  BY <1>4, Bounds
<1>6. \A u, v \in Askers : \A i, j : new(u, i) /\ new(v, j) => u = v /\ i = j
  OBVIOUS
<1> HIDE DEF new
<1>7. \A u, v \in Askers : \A i \in 1..Len(q[u]), j \in 1..Len(q[v]) :
        q[u][i].block = q[v][j].block /\ q[u][i].block # NoBlock => u = v /\ i = j
  <2> SUFFICES ASSUME NEW u \in Askers, NEW v \in Askers,
                      NEW i \in 1..Len(q[u]), NEW j \in 1..Len(q[v]),
                      q[u][i].block = q[v][j].block, q[u][i].block # NoBlock
               PROVE  u = v /\ i = j
    OBVIOUS
  <2>1. CASE new(u, i) /\ new(v, j)
    BY <1>6, <2>1
  <2>2. CASE i \in 1..Len(o[u]) /\ q[u][i] = o[u][i] /\ j \in 1..Len(o[v]) /\ q[v][j] = o[v][j]
    BY <2>2 DEF Once
  <2>3. CASE i \in 1..Len(o[u]) /\ q[u][i] = o[u][i] /\ q[v][j] = p
    BY <1>4, <1>5, <2>3, Bounds
  <2>4. CASE j \in 1..Len(o[v]) /\ q[v][j] = o[v][j] /\ q[u][i] = p
    BY <1>4, <1>5, <2>4, Bounds
  <2>5. QED
    BY <1>3, <2>1, <2>2, <2>3, <2>4
<1>8. \A v \in Askers : \A i \in 1..Len(q[v]) :
        /\ q[v][i].block <= m
        /\ q[v][i].block # NoBlock => \A l \in Links : w[l] # q[v][i].block
  <2> SUFFICES ASSUME NEW v \in Askers, NEW i \in 1..Len(q[v])
               PROVE  /\ q[v][i].block <= m
                      /\ q[v][i].block # NoBlock => \A l \in Links : w[l] # q[v][i].block
    OBVIOUS
  <2>1. CASE q[v][i] = p
    BY <1>4, <1>5, <2>1, Bounds
  <2>2. CASE i \in 1..Len(o[v]) /\ q[v][i] = o[v][i]
    BY <1>4, <2>2, Bounds DEF Once
  <2>3. QED
    BY <1>3, <2>1, <2>2
<1>9. \A l \in Links : w[l] <= m
  BY <1>4, Bounds
<1>10. \A k, l \in Links : w[k] = w[l] /\ w[k] # NoBlock => k = l
  BY DEF Once
<1>11. QED
  BY <1>7, <1>8, <1>9, <1>10 DEF Once, q, a

\* What was offered is asked for.
LEMMA OnceTake ==
  ASSUME NEW o \in OfferSets, NEW w \in WantSets, NEW n \in Nat, Once(o, w, n),
         NEW t \in Askers, o[t] # <<>>, NEW l \in Links,
         NEW x \in {NoBlock, Head(o[t]).block}
  PROVE  Once([o EXCEPT ![t] = Tail(o[t])], [w EXCEPT ![l] = x], n)
<1> DEFINE a == Tail(o[t])
           h == Head(o[t])
           q == [o EXCEPT ![t] = a]
           y == [w EXCEPT ![l] = x]
<1>1. /\ o[t] \in Seq(UriPayloads) /\ a \in Seq(UriPayloads)
      /\ 1 \in 1..Len(o[t]) /\ o[t][1] = h /\ Len(a) = Len(o[t]) - 1
      /\ \A i \in 1..Len(a) : i + 1 \in 1..Len(o[t]) /\ a[i] = o[t][i + 1]
  BY DEF OfferSets
<1>2. q[t] = a /\ \A v \in Askers : v # t => q[v] = o[v]
  BY DEF OfferSets
<1>3. Once(q, w, n)
  BY <1>1, OnceFewerOffers
<1>4. h.block <= n /\ (h.block # NoBlock => \A k \in Links : w[k] # h.block)
  BY <1>1 DEF Once
<1>5. \A v \in Askers : \A i \in 1..Len(q[v]) :
        q[v][i].block = h.block => h.block = NoBlock
  <2> SUFFICES ASSUME NEW v \in Askers, NEW i \in 1..Len(q[v]),
                      q[v][i].block = h.block, h.block # NoBlock
               PROVE  FALSE
    OBVIOUS
  <2>1. CASE v = t
    <3>4. i \in 1..Len(a) /\ q[v][i] = a[i]
      BY <1>2, <2>1
    <3>5. i + 1 # 1
      BY <3>4
    <3>1. i + 1 \in 1..Len(o[t]) /\ q[v][i] = o[t][i + 1] /\ i + 1 # 1
      BY <1>1, <3>4, <3>5
    <3>2. o[t][i + 1].block = o[t][1].block /\ o[t][1].block # NoBlock
      BY <1>1, <3>1
    <3>3. QED
      BY <1>1, <3>1, <3>2 DEF Once
  <2>2. CASE v # t
    <3>1. i \in 1..Len(o[v]) /\ o[v][i].block = o[t][1].block
      BY <1>1, <1>2, <2>2
    <3>2. QED
      BY <1>1, <2>2, <3>1 DEF Once
  <2>3. QED
    BY <2>1, <2>2
<1> HIDE DEF a, q, h
<1>6. y[l] = x /\ \A k \in Links : k # l => y[k] = w[k]
  BY DEF WantSets
<1>7. x = NoBlock \/ x = h.block
  BY DEF h
<1> HIDE DEF y
<1>8. \A v \in Askers : \A i \in 1..Len(q[v]) :
        /\ q[v][i].block <= n
        /\ q[v][i].block # NoBlock => \A k \in Links : y[k] # q[v][i].block
  BY <1>3, <1>5, <1>6, <1>7 DEF Once
<1>9. \A j, k \in Links : y[j] = y[k] /\ y[j] # NoBlock => j = k
  BY <1>3, <1>4, <1>6, <1>7 DEF Once
<1>10. \A k \in Links : y[k] <= n
  BY <1>3, <1>4, <1>6, <1>7, Bounds DEF Once
<1>11. QED
  BY <1>3, <1>8, <1>9, <1>10 DEF Once, q, y, a

-----------------------------------------------------------------------------
(* What an update keeps.                                                   *)

SameContent(bs, cs, b) == cs[b].closed = bs[b].closed /\ cs[b].data = bs[b].data

\* No request is left after an update, and what is left was there before.
LEMMA UpdateReady ==
  ASSUME NEW r, Meets(r), Ready(r.s, r.in, r.out), NEW q, Goes(r, q),
         r.in # <<>> /\ r.s.state = "Idle" => q.in = Tail(r.in)
  PROVE  Ready(q.s, q.in, q.out) /\ ~Asking(q.in)
<1>1. r.in \in Wire /\ q.in \in Wire
  BY WorkParts DEF Meets, Goes
<1>2. PICK d \in {0, 1} : \A i \in 1..Len(q.in) : i + d \in 1..Len(r.in)
                                               /\ q.in[i] = r.in[i + d]
  <2>1. CASE q.in = r.in
    BY <1>1, <2>1 DEF Wire
  <2>2. CASE r.in # <<>> /\ q.in = Tail(r.in)
    <3>1. \A i \in 1..Len(q.in) : i + 1 \in 1..Len(r.in) /\ q.in[i] = r.in[i + 1]
      BY <1>1, <2>2 DEF Wire
    <3>2. QED
      BY <3>1
  <2>3. QED
    BY <2>1, <2>2 DEF Goes
<1>3. \A i \in 1..Len(q.in) : ~IsRequest(q.in[i])
  <2> SUFFICES ASSUME NEW i \in 1..Len(q.in), IsRequest(q.in[i])
               PROVE  FALSE
    OBVIOUS
  <2>1. i + d \in 1..Len(r.in) /\ IsRequest(r.in[i + d])
    BY <1>2
  <2>2. Len(r.in) = 1 /\ r.s.state = "Idle"
    BY <2>1 DEF Ready
  <2>3. r.in # <<>> /\ Len(Tail(r.in)) = 0
    BY <1>1, <2>2, OneElement DEF Wire
  <2>4. Len(q.in) = 0
    BY <2>2, <2>3
  <2>5. QED
    BY <2>4
<1>4. \A i \in 1..Len(q.in) :
        q.in[i].command = "TransferDataChunk" => Len(q.in[i].data) = 1
  BY <1>2 DEF Ready
<1>5. q.s.state # "None"
  BY DEF Goes
<1>6. QED
  BY <1>3, <1>4, <1>5 DEF Ready, Asking

\* The groups of states.
LEMMA GroupsApart ==
  /\ Pulls \cap Pushes = {} /\ Resting \cap (Pulls \cup Pushes) = {}
  /\ "None" \notin Pulls \cup Pushes \cup Resting /\ "Idle" \in Resting
  BY DEF Pulls, Pushes, Resting

\* The blocks whose content an update may change.
LEMMA UpdateContent ==
  ASSUME NEW r, Meets(r), NEW q, Goes(r, q), Changes(r, q)
  PROVE  \A b \in BlockIds :
           /\ b # r.s.block /\ b # q.s.block => q.bs[b] = r.bs[b]
           /\ \/ SameContent(r.bs, q.bs, b)
              \/ b = r.s.block /\ r.s.state \in Pushes
           /\ Len(q.bs[b].data) <= MaxSize
<1>1. r \in Work /\ q \in Work /\ \A b \in BlockIds : Len(r.bs[b].data) <= MaxSize
  BY DEF Meets, Goes
<1>2. CASE Keeps(r, q)
  BY <1>1, <1>2 DEF Keeps, SameContent
<1>3. CASE Joins(r, q)
  BY <1>1, <1>3 DEF Joins, SameContent
<1>4. CASE Leaves(r, q)
  <2>1. Len(<<>>) <= MaxSize
    BY Bounds
  <2>2. QED
    BY <1>1, <1>4, <2>1 DEF Leaves, SameContent
<1>5. CASE TakesChunk(r, q)
  <2> DEFINE b == r.s.block
             p == Head(r.in)
  <2>1. r.s.state \in Pushes
    BY <1>5 DEF TakesChunk, Pushes
  <2>2. Len(r.bs[b].data) = r.s.done /\ r.s.done < r.s.total /\ b # NoBlock
    BY <1>5, <2>1 DEF Meets, Sound, TakesChunk
  <2>3. b \in BlockIds /\ r.s.total \in 0..MaxSize /\ r.s.done \in 0..MaxSize
    BY <1>1, <2>2, WorkParts, Bounds
  <2>4. r.bs[b].data \in Bytes /\ p.data \in Bytes /\ Len(p.data) = 1
    <3>1. p \in TransferPayloads
      BY <1>1, <1>5, TailTyped DEF TakesChunk
    <3>2. p.data \in Bytes /\ Len(p.data) = 1
      BY <1>5, <3>1 DEF TakesChunk, Meets, TransferPayloads
    <3>3. QED
      BY <1>1, <2>3, <3>2, WorkParts, CellsTyped
  <2>5. Len(r.bs[b].data \o p.data) = r.s.done + 1
    BY <2>2, <2>4, BytesPlus
  <2>6. Len(q.bs[b].data) <= MaxSize
    <3>1. q.bs[b].data = r.bs[b].data \o p.data
      BY <1>5 DEF TakesChunk
    <3>2. Len(q.bs[b].data) = r.s.done + 1
      BY <2>5, <3>1
    <3> HIDE DEF b
    <3>3. QED
      BY <2>2, <2>3, <3>2, Bounds
  <2>7. \A c \in BlockIds : c # b => q.bs[c] = r.bs[c]
    BY <1>5 DEF TakesChunk
  <2>8. QED
    BY <1>1, <2>1, <2>6, <2>7 DEF SameContent
<1>6. QED
  BY <1>2, <1>3, <1>4, <1>5 DEF Changes

\* An update leaves a session that agrees with its block.
LEMMA UpdateSound ==
  ASSUME NEW r, Meets(r), NEW q, Goes(r, q), Changes(r, q),
         r.in # <<>> /\ Head(r.in).command = "PushRequest"
           /\ Head(r.in).block \in BlockIds =>
              Untouched(r.bs[Head(r.in).block])
  PROVE  Sound(q.s, q.bs)
<1>1. /\ r \in Work /\ q \in Work /\ Sound(r.s, r.bs)
  BY DEF Meets, Goes
<1>2. CASE Keeps(r, q)
  <2>1. CASE q.s.state \in Pulls
    BY <1>1, <1>2, <2>1, GroupsApart DEF Keeps, Sound
  <2>2. CASE q.s.state \in Pushes
    BY <1>1, <1>2, <2>2, GroupsApart DEF Keeps, Sound
  <2>3. QED
    BY <2>1, <2>2 DEF Sound
<1>3. CASE Joins(r, q)
  <2> DEFINE b == Head(r.in).block
  <2>0. b \in BlockIds /\ q.s.block = b /\ b # NoBlock /\ SameContent(r.bs, q.bs, b)
    BY <1>3, Bounds DEF Joins, SameContent
  <2>1. CASE q.s.state \in Pulls
    BY <1>3, <2>0, <2>1, GroupsApart DEF Joins, Sound, SameContent
  <2>2. CASE q.s.state \in Pushes
    <3>1. Head(r.in).command = "PushRequest" /\ ~r.bs[b].closed /\ q.s.done = 0
          /\ r.in # <<>>
      BY <1>3, <2>2 DEF Joins
    <3>2. r.bs[b].data = <<>>
      BY <2>0, <3>1 DEF Untouched
    <3>3. Len(q.bs[b].data) = 0
      BY <2>0, <3>2 DEF SameContent
    <3>4. q.s.total \in Nat
      BY <1>1, WorkParts, Bounds
    <3>5. QED
      BY <2>0, <2>2, <3>1, <3>3, <3>4, GroupsApart DEF Sound, SameContent
  <2>3. QED
    BY <2>1, <2>2 DEF Sound
<1>4. CASE Leaves(r, q)
  BY <1>4, GroupsApart DEF Leaves, Sound
<1>5. CASE TakesChunk(r, q)
  <2> DEFINE b == r.s.block
             p == Head(r.in)
  <2>1. r.s.state \in Pushes /\ q.s.state \in Pushes
    BY <1>5 DEF TakesChunk, Pushes
  <2>2. /\ Len(r.bs[b].data) = r.s.done /\ r.s.done < r.s.total /\ b # NoBlock
        /\ ~r.bs[b].closed
    BY <1>5, <2>1 DEF Meets, Sound, TakesChunk
  <2>3. b \in BlockIds /\ r.s.total \in 0..MaxSize /\ r.s.done \in 0..MaxSize
    BY <1>1, <2>2, WorkParts, Bounds
  <2>4. r.bs[b].data \in Bytes /\ p.data \in Bytes /\ Len(p.data) = 1
    <3>1. p \in TransferPayloads
      BY <1>1, <1>5, TailTyped DEF TakesChunk
    <3>2. p.data \in Bytes /\ Len(p.data) = 1
      BY <1>5, <3>1 DEF TakesChunk, Meets, TransferPayloads
    <3>3. QED
      BY <1>1, <2>3, <3>2, WorkParts, CellsTyped
  <2>5. Len(r.bs[b].data \o p.data) = r.s.done + 1
    BY <2>2, <2>4, BytesPlus
  <2>6. /\ q.s.block = b /\ Len(q.bs[b].data) = q.s.done /\ ~q.bs[b].closed
        /\ q.s.done <= q.s.total
    <3>1. /\ q.bs[b].data = r.bs[b].data \o p.data /\ q.s.block = b
          /\ q.s.done = r.s.done + 1 /\ q.s.total = r.s.total
          /\ q.bs[b].closed = r.bs[b].closed
      BY <1>5 DEF TakesChunk
    <3>2. Len(q.bs[b].data) = r.s.done + 1
      BY <2>5, <3>1
    <3> HIDE DEF b
    <3>6. r.s.done \in Int /\ r.s.total \in Int
      BY <2>3, Bounds
    <3>7. r.s.done + 1 <= r.s.total
      BY <2>2, <3>6
    <3>3. Len(q.bs[b].data) = q.s.done /\ q.s.done <= q.s.total
      BY <3>1, <3>2, <3>7
    <3>4. q.s.block = b /\ ~q.bs[b].closed
      BY <2>2, <3>1
    <3>5. QED
      BY <3>3, <3>4
  <2>7. QED
    BY <2>1, <2>2, <2>6, GroupsApart DEF Sound
<1>6. QED
  BY <1>2, <1>3, <1>4, <1>5 DEF Changes

\* An update wants no other block than the session did.
LEMMA UpdateWanted ==
  ASSUME NEW r, Meets(r), Ready(r.s, r.in, r.out), NEW q, Goes(r, q), Changes(r, q),
         r.in # <<>> /\ r.s.state = "Idle" => q.in = Tail(r.in)
  PROVE  /\ Wanted(q.s, q.in) \in {Wanted(r.s, r.in), NoBlock}
         /\ q.s.state \notin Pushes => Wanted(q.s, q.in) = NoBlock
<1>1. ~Asking(q.in) /\ q.in \in Wire
  BY UpdateReady, WorkParts DEF Goes
<1>2. q.in # <<>> => ~IsRequest(Head(q.in))
  BY <1>1 DEF Asking, Wire
<1>3. q.s.state \notin Pushes => Wanted(q.s, q.in) = NoBlock
  BY <1>2 DEF Wanted, IsRequest
<1>4. CASE q.s.state \in Pushes
  <2>1. CASE Keeps(r, q)
    BY <1>4, <2>1 DEF Keeps, Wanted
  <2>2. CASE Joins(r, q)
    <3>1. r.s.state \notin Pushes
      BY <2>2 DEF Joins, Pushes
    <3>2. QED
      BY <1>4, <2>2, <3>1 DEF Joins, Wanted
  <2>3. CASE Leaves(r, q)
    BY <1>4, <2>3, GroupsApart DEF Leaves
  <2>4. CASE TakesChunk(r, q)
    <3>1. r.s.state \in Pushes
      BY <2>4 DEF TakesChunk, Pushes
    <3>2. QED
      BY <1>4, <2>4, <3>1 DEF TakesChunk, Wanted
  <2>5. QED
    BY <2>1, <2>2, <2>3, <2>4 DEF Changes
<1>5. QED
  BY <1>3, <1>4

\* An update counts the session in and out.
LEMMA UpdateMatches ==
  ASSUME NEW r, Meets(r), NEW q, Goes(r, q), Changes(r, q),
         NEW ts \in [Links -> TransferSessions], NEW l \in Links, ts[l] = r.s,
         Matches(ts, r.bs)
  PROVE  Matches([ts EXCEPT ![l] = q.s], q.bs)
<1>1. r \in Work /\ q \in Work /\ r.bs \in Cells /\ q.bs \in Cells
      /\ q.s \in TransferSessions /\ r.s.block \in 0..MaxBlocks
      /\ q.s.block \in 0..MaxBlocks
  BY WorkParts DEF Meets, Goes
<1> DEFINE s == q.s
           b == r.s.block
<1>2. CASE Keeps(r, q)
  <2>1. q.bs = r.bs /\ s.block = ts[l].block
    BY <1>2 DEF Keeps
  <2>2. QED
    <3>1. Moves(ts[l].block, s.block, r.bs, q.bs)
      BY <2>1 DEF Moves
    <3>2. QED
      BY <1>1, <3>1, MatchesMoves
<1>3. CASE TakesChunk(r, q)
  <2>1. s.block = ts[l].block /\ \A c \in BlockIds : q.bs[c].pending = r.bs[c].pending
    BY <1>3 DEF TakesChunk
  <2>2. QED
    <3>1. Moves(ts[l].block, s.block, r.bs, q.bs)
      BY <2>1 DEF Moves
    <3>2. QED
      BY <1>1, <3>1, MatchesMoves
<1>4. CASE Leaves(r, q)
  <2>1. r.s.block # NoBlock
    BY <1>4 DEF Leaves, Meets, Sound
  <2>2. /\ s.block = NoBlock /\ s.block # ts[l].block /\ NoBlock \notin BlockIds
        /\ q.bs[ts[l].block].pending = r.bs[ts[l].block].pending - 1
        /\ \A c \in BlockIds : c # ts[l].block /\ c # s.block =>
             q.bs[c].pending = r.bs[c].pending
    BY <1>4, <2>1, Bounds DEF Leaves
  <2>3. QED
    <3>1. Moves(ts[l].block, s.block, r.bs, q.bs)
      BY <2>2 DEF Moves
    <3>2. QED
      BY <1>1, <3>1, MatchesMoves
<1>5. CASE Joins(r, q)
  <2>1. r.s.block = NoBlock
    BY <1>5 DEF Joins, Meets
  <2>2. /\ s.block \in BlockIds /\ s.block # ts[l].block /\ ts[l].block \notin BlockIds
        /\ q.bs[s.block].pending = r.bs[s.block].pending + 1
        /\ \A c \in BlockIds : c # ts[l].block /\ c # s.block =>
             q.bs[c].pending = r.bs[c].pending
    BY <1>5, <2>1, Bounds DEF Joins
  <2>3. QED
    <3>1. Moves(ts[l].block, s.block, r.bs, q.bs)
      BY <2>2 DEF Moves
    <3>2. QED
      BY <1>1, <3>1, MatchesMoves
<1>6. QED
  BY <1>2, <1>3, <1>4, <1>5 DEF Changes

\* An update holds no block that is not opened.
LEMMA UpdateBlock ==
  ASSUME NEW r, Meets(r), NEW q, Goes(r, q), Changes(r, q), NEW n \in Nat,
         r.s.block <= n, \A b \in BlockIds : b > n => r.bs[b] = NewBlock
  PROVE  /\ q.s.block <= n
         /\ \A b \in BlockIds : b > n => q.bs[b] = NewBlock
<1>0. r \in Work /\ q \in Work /\ r.s.block \in Nat /\ NoBlock <= n
  BY WorkParts, Bounds DEF Meets, Goes
<1>1. q.s.block <= n
  <2>1. CASE Joins(r, q)
    <3>1. q.s.block \in BlockIds /\ r.bs[q.s.block].registered
      BY <2>1 DEF Joins
    <3>2. ~NewBlock.registered
      BY DEF NewBlock
    <3>3. ~(q.s.block > n)
      BY <3>1, <3>2
    <3>4. QED
      BY <1>0, <3>1, <3>3, WorkParts, Bounds
  <2>2. CASE Keeps(r, q) \/ Leaves(r, q) \/ TakesChunk(r, q)
    BY <1>0, <2>2 DEF Keeps, Leaves, TakesChunk
  <2>3. QED
    BY <2>1, <2>2 DEF Changes
<1>2. ASSUME NEW b \in BlockIds, b > n
      PROVE  q.bs[b] = NewBlock
  <2>1. b # r.s.block /\ b # q.s.block
    BY <1>0, <1>1, <1>2, WorkParts, Bounds DEF BlockIds
  <2>2. QED
    BY <1>2, <2>1, UpdateContent
<1>3. QED
  BY <1>1, <1>2

-----------------------------------------------------------------------------
(* The updates of transfer sessions.                                       *)

\* The types of the variables of Transfer.
LEMMA InvParts ==
  ASSUME Inv
  PROVE  /\ blocks \in Cells /\ opened \in 0..MaxBlocks /\ opened \in Nat
         /\ transfers \in [Links -> TransferSessions]
         /\ upload \in [Links -> Wire] /\ download \in [Links -> Wire]
         /\ context \in [Links -> [state : {"Closed", "Idle", "InProgress", "Error"},
                                   total : 0..MaxSize, data : Bytes]]
         /\ \A l \in Links : Len(upload[l]) <= LinkWindow /\ Len(download[l]) <= LinkWindow
<1>1. TransferTypeOK
  BY DEF Inv, UriTypeOK
<1>2. blocks \in Cells
  BY <1>1 DEF TransferTypeOK, Cells
<1>3. opened \in Nat
  BY <1>1, Bounds DEF TransferTypeOK
<1>4. QED
  BY <1>1, <1>2, <1>3 DEF TransferTypeOK, Wire

\* The types of the offers.
LEMMA OffersTyped ==
  ASSUME UriTypeOK
  PROVE  Offers \in OfferSets
<1>1. \A t \in Askers : fromUri[t] \in Seq(UriPayloads) /\ serving[t].queued \in Seq(UriPayloads)
  BY DEF UriTypeOK
<1>2. \A t \in Askers : fromUri[t] \o serving[t].queued \in Seq(UriPayloads)
  BY <1>1
<1>3. QED
  BY <1>2 DEF Offers, OfferSets

\* The type of what a link wants.
LEMMA WantedTyped ==
  ASSUME NEW s \in TransferSessions, NEW in \in Wire
  PROVE  Wanted(s, in) \in 0..MaxBlocks
<1>1. s.block \in 0..MaxBlocks /\ NoBlock \in 0..MaxBlocks
  BY Bounds DEF TransferSessions
<1>2. in # <<>> => Head(in).block \in 0..MaxBlocks
  <2>1. in # <<>> => Head(in) \in TransferPayloads
    BY DEF Wire
  <2>2. QED
    BY <2>1 DEF TransferPayloads
<1>3. QED
  BY <1>1, <1>2 DEF Wanted

\* The types of what the links want.
LEMMA WantsTyped ==
  ASSUME Inv
  PROVE  Wants \in WantSets
  BY InvParts, WantedTyped DEF Wants, WantSets

\* A count of holders is a natural number.
LEMMA BlocksTyped ==
  ASSUME NEW ts, NEW bs \in Cells, Matches(ts, bs)
  PROVE  bs \in [BlockIds -> [registered : BOOLEAN, closed : BOOLEAN,
                              data : Bytes, pending : Nat]]
<1>1. \A b \in BlockIds : bs[b].pending \in Nat
  BY HoldersFinite DEF Matches
<1>2. QED
  BY <1>1 DEF Cells

\* What an update finds is as the invariant says.
LEMMA BeforeMeets ==
  ASSUME Inv, NEW l \in Links, transfers[l].state # "None"
  PROVE  LET r == Before(l)
         IN  /\ Meets(r) /\ Ready(r.s, r.in, r.out)
             /\ r.s = transfers[l] /\ r.in = upload[l] /\ r.out = download[l]
             /\ r.bs = blocks
             /\ r.in # <<>> /\ Head(r.in).command = "PushRequest"
                  /\ Head(r.in).block \in BlockIds =>
                    Untouched(r.bs[Head(r.in).block])
<1> DEFINE r == Before(l)
<1>1. /\ r.s = transfers[l] /\ r.in = upload[l] /\ r.out = download[l]
      /\ r.bs = blocks
  BY DEF Before
<1>2. r \in Work
  BY InvParts DEF Before, Work
<1>3. Ready(transfers[l], upload[l], download[l]) /\ Sound(transfers[l], blocks)
  BY DEF Inv, LinksOK
<1>4. \A b \in BlockIds : Len(blocks[b].data) <= MaxSize
  BY DEF Inv, Blank
<1> HIDE DEF r
<1>5. ASSUME r.in # <<>>
      PROVE  1 \in 1..Len(r.in) /\ r.in[1] = Head(r.in)
  BY <1>2, <1>5, WorkParts DEF Wire
<1>6. ASSUME r.in # <<>>, IsRequest(Head(r.in))
      PROVE  r.s.block = NoBlock /\ Tail(r.in) = <<>> /\ r.s.state = "Idle"
  <2>1. Len(r.in) = 1 /\ r.s.block = NoBlock /\ r.s.state = "Idle"
    BY <1>1, <1>3, <1>5, <1>6 DEF Ready
  <2>2. Len(Tail(r.in)) = 0 /\ Tail(r.in) \in Wire
    BY <1>2, <1>6, <2>1, OneElement, WorkParts DEF Wire
  <2>3. Tail(r.in) = <<>>
    <3> DEFINE q == Tail(r.in)
    <3>1. q \in Seq(TransferPayloads) /\ Len(q) = 0
      BY <2>2 DEF Wire
    <3> HIDE DEF q
    <3>2. q = <<>>
      BY <3>1, NoElement
    <3>3. QED
      BY <3>2 DEF q
  <2>4. QED
    BY <2>1, <2>3
<1>7. ASSUME r.in # <<>>, Head(r.in).command = "TransferDataChunk"
      PROVE  Len(Head(r.in).data) = 1
  BY <1>1, <1>3, <1>5, <1>7 DEF Ready
<1>8. Meets(r)
  <2>1. Len(r.out) <= LinkWindow
    BY <1>1, InvParts
  <2>2. QED
    BY <1>1, <1>2, <1>3, <1>4, <1>6, <1>7, <2>1 DEF Meets
<1>9. ASSUME r.in # <<>>, Head(r.in).command = "PushRequest", Head(r.in).block \in BlockIds
      PROVE  Untouched(r.bs[Head(r.in).block])
  <2> DEFINE b == Head(r.in).block
  <2>1. transfers[l].state = "Idle"
    BY <1>1, <1>6, <1>9 DEF IsRequest
  <2>2. l \notin Pushing /\ Wants[l] = b
    BY <1>1, <1>9, <2>1 DEF Pushing, Wants, Wanted, Pushes
  <2>3. Promised(Offers, Wants, Pushing, b)
    BY <1>9, <2>2, Bounds DEF Promised
  <2>4. QED
    BY <1>1, <1>9, <2>3 DEF Inv, Blank
<1>10. QED
  BY <1>1, <1>3, <1>8, <1>9 DEF r

\* UpdateSession keeps the invariant.
LEMMA UpdateTransferInv ==
  ASSUME Inv, NEW l \in Links, UpdateTransfer(l), UNCHANGED uriVars
  PROVE  Inv'
<1> DEFINE r == Before(l)
           q == After(r)
<1>1. /\ transfers[l].state # "None"
      /\ transfers' = [transfers EXCEPT ![l] = q.s]
      /\ upload' = [upload EXCEPT ![l] = q.in]
      /\ download' = [download EXCEPT ![l] = q.out]
      /\ blocks' = q.bs /\ opened' = opened /\ context' = context
  BY DEF UpdateTransfer
<1>2. /\ uri' = uri /\ serving' = serving /\ toUri' = toUri /\ fromUri' = fromUri
      /\ posted' = posted /\ timeouts' = timeouts
  BY DEF uriVars
<1>3. /\ Meets(r) /\ Ready(r.s, r.in, r.out)
      /\ r.s = transfers[l] /\ r.in = upload[l] /\ r.out = download[l] /\ r.bs = blocks
      /\ r.in # <<>> /\ Head(r.in).command = "PushRequest"
            /\ Head(r.in).block \in BlockIds =>
              Untouched(r.bs[Head(r.in).block])
  BY <1>1, BeforeMeets
<1>4. /\ Goes(r, q) /\ Changes(r, q)
      /\ r.in # <<>> /\ r.s.state = "Idle" => q.in = Tail(r.in)
  BY <1>3, AfterIs
<1> HIDE DEF q, r
<1>5. q \in Work /\ Len(q.out) <= LinkWindow /\ q.s.state # "None" /\ r \in Work
      /\ q.s \in TransferSessions /\ q.in \in Wire /\ q.out \in Wire /\ q.bs \in Cells
  BY <1>3, <1>4, WorkParts DEF Goes, Meets
<1>6. /\ blocks \in Cells /\ opened \in 0..MaxBlocks /\ opened \in Nat
      /\ transfers \in [Links -> TransferSessions]
      /\ upload \in [Links -> Wire] /\ download \in [Links -> Wire]
      /\ \A k \in Links : Len(upload[k]) <= LinkWindow /\ Len(download[k]) <= LinkWindow
  BY InvParts
<1>7. /\ transfers'[l] = q.s /\ upload'[l] = q.in /\ download'[l] = q.out
      /\ \A k \in Links : k # l => /\ transfers'[k] = transfers[k]
                                   /\ upload'[k] = upload[k] /\ download'[k] = download[k]
  BY <1>1, <1>6
<1>8. Matches(transfers, blocks)
  BY DEF Inv
<1>9. Matches(transfers, blocks)'
  <2>1. Matches([transfers EXCEPT ![l] = q.s], q.bs)
    BY <1>3, <1>4, <1>6, <1>8, UpdateMatches
  <2>2. QED
    BY <1>1, <2>1 DEF Matches
<1>10. UriTypeOK'
  <2>1. UriTypeOK
    BY DEF Inv
  <2>2. blocks' \in [BlockIds -> [registered : BOOLEAN, closed : BOOLEAN,
                                  data : Bytes, pending : Nat]]
    <3>1. Matches(transfers', q.bs)
      BY <1>1, <1>9 DEF Matches
    <3>2. QED
      BY <1>1, <1>5, <3>1, BlocksTyped
  <2>3. /\ transfers' \in [Links -> TransferSessions]
        /\ upload' \in [Links -> Wire] /\ download' \in [Links -> Wire]
    BY <1>1, <1>5, <1>6
  <2>4. Len(q.in) <= LinkWindow
    <3>1. Len(r.in) <= LinkWindow /\ r.in \in Wire
      BY <1>3, <1>5, <1>6, WorkParts
    <3>2. CASE q.in = r.in
      BY <3>1, <3>2
    <3>3. CASE r.in # <<>> /\ q.in = Tail(r.in)
      <4>1. Len(q.in) = Len(r.in) - 1 /\ Len(r.in) \in Nat
        BY <3>1, <3>3 DEF Wire
      <4>2. QED
        BY <3>1, <4>1, Bounds
    <3>4. QED
      BY <1>4, <3>2, <3>3 DEF Goes
  <2>5. \A k \in Links : Len(upload'[k]) <= LinkWindow /\ Len(download'[k]) <= LinkWindow
    BY <1>5, <1>6, <1>7, <2>4
  <2>6. TransferTypeOK'
    BY <1>1, <2>1, <2>2, <2>3, <2>5 DEF UriTypeOK, TransferTypeOK, Wire
  <2>7. QED
    BY <1>2, <2>1, <2>6 DEF UriTypeOK
<1>11. \A b \in BlockIds :
         /\ b # r.s.block /\ b # q.s.block => q.bs[b] = r.bs[b]
         /\ \/ SameContent(r.bs, q.bs, b)
            \/ b = r.s.block /\ r.s.state \in Pushes
         /\ Len(q.bs[b].data) <= MaxSize
  BY <1>3, <1>4, UpdateContent
<1>12. /\ Wanted(q.s, q.in) \in {Wanted(r.s, r.in), NoBlock}
       /\ q.s.state \notin Pushes => Wanted(q.s, q.in) = NoBlock
  BY <1>3, <1>4, UpdateWanted
<1>13. Once(Offers, Wants, opened)
  BY DEF Inv
<1>14. Wants[l] = Wanted(r.s, r.in) /\ Wants'[l] = Wanted(q.s, q.in)
       /\ \A k \in Links : k # l => Wants'[k] = Wants[k]
  BY <1>3, <1>7 DEF Wants
<1>15. Offers' = Offers
  BY <1>2 DEF Offers
<1>16. Wants' \in WantSets /\ Wants \in WantSets /\ Offers \in OfferSets
  <2>1. Wants \in WantSets /\ UriTypeOK
    BY WantsTyped DEF Inv
  <2>2. Wanted(q.s, q.in) \in 0..MaxBlocks
    BY <1>5, WantedTyped
  <2>3. Wants' = [k \in Links |-> Wants'[k]]
    BY DEF Wants
  <2>4. \A k \in Links : Wants'[k] \in 0..MaxBlocks
    BY <1>14, <2>1, <2>2 DEF WantSets
  <2>5. QED
    BY <2>1, <2>3, <2>4, OffersTyped DEF WantSets
<1>17. Once(Offers, Wants, opened)'
  <2>1. Once(Offers, Wants', opened)
    BY <1>6, <1>12, <1>13, <1>14, <1>16, OnceFewerWants
  <2>2. QED
    BY <1>1, <1>15, <2>1 DEF Once
<1>18. r.s.block <= opened /\ \A b \in BlockIds : b > opened => r.bs[b] = NewBlock
  BY <1>3 DEF Inv, LinksOK, Blank
<1>19. q.s.block <= opened /\ \A b \in BlockIds : b > opened => q.bs[b] = NewBlock
  BY <1>3, <1>4, <1>6, <1>18, UpdateBlock
<1>20. ASSUME NEW k \in Links, k # l, transfers[k].block = r.s.block,
              transfers[k].state \in Pushes, r.s.state \in Pushes
       PROVE  FALSE
  <2>1. Wants[k] = Wants[l] /\ Wants[k] # NoBlock
    BY <1>3, <1>14, <1>20 DEF Wants, Wanted, Inv, LinksOK, Sound
  <2>2. QED
    BY <1>13, <1>20, <2>1 DEF Once
<1>21. LinksOK'
  <2>1. Ready(q.s, q.in, q.out)
    BY <1>3, <1>4, UpdateReady
  <2>2. Sound(q.s, q.bs)
    BY <1>3, <1>4, UpdateSound
  <2>3. ASSUME NEW k \in Links
        PROVE  /\ Ready(transfers'[k], upload'[k], download'[k])
               /\ Sound(transfers'[k], blocks')
               /\ transfers'[k].block <= opened'
               /\ context'[k].state # "Closed" => transfers'[k].state # "None"
    <3>1. CASE k = l
      BY <1>1, <1>5, <1>7, <1>19, <2>1, <2>2, <3>1
    <3>2. CASE k # l
      <4>1. /\ Ready(transfers[k], upload[k], download[k]) /\ Sound(transfers[k], blocks)
            /\ transfers[k].block <= opened
            /\ context[k].state # "Closed" => transfers[k].state # "None"
        BY DEF Inv, LinksOK
      <4> DEFINE b == transfers[k].block
      <4>2. b \in 0..MaxBlocks
        BY <1>6 DEF TransferSessions
      <4>3. Sound(transfers[k], q.bs)
        <5>1. CASE transfers[k].state \in Pulls \cup Pushes
          <6>1. b \in BlockIds
            BY <4>1, <4>2, <5>1, Bounds DEF Sound
          <6>2. SameContent(blocks, q.bs, b)
            <7>1. CASE b = r.s.block /\ r.s.state \in Pushes
              <8>1. transfers[k].state \notin Pushes
                BY <1>20, <3>2, <7>1
              <8>2. blocks[b].closed /\ ~blocks[b].closed
                BY <1>3, <4>1, <5>1, <7>1, <8>1 DEF Sound, Meets
              <8>3. QED
                BY <8>2
            <7>2. CASE ~(b = r.s.block /\ r.s.state \in Pushes)
              BY <1>3, <1>11, <6>1, <7>2
            <7>3. QED
              BY <7>1, <7>2
          <6>3. QED
            BY <4>1, <6>1, <6>2 DEF Sound, SameContent
        <5>2. CASE transfers[k].state \notin Pulls \cup Pushes
          BY <5>2 DEF Sound
        <5>3. QED
          BY <5>1, <5>2
      <4>4. QED
        BY <1>1, <1>7, <3>2, <4>1, <4>3
    <3>3. QED
      BY <3>1, <3>2
  <2>4. QED
    BY <2>3 DEF LinksOK
<1>22. Blank(blocks, Offers, Wants, Pushing, opened)'
  <2>1. ASSUME NEW b \in BlockIds, Promised(Offers, Wants', Pushing', b)
        PROVE  Untouched(q.bs[b])
    <3>1. b # NoBlock /\ (InOffers(Offers, b) \/ \E k \in Links \ Pushing' : Wants'[k] = b)
      BY <2>1 DEF Promised
    <3>2. InOffers(Offers, b) \/ \E k \in Links \ Pushing : k # l /\ Wants[k] = b
      <4>1. ASSUME NEW k \in Links \ Pushing', Wants'[k] = b
            PROVE  k # l /\ k \notin Pushing /\ Wants[k] = b
        <5>1. k # l
          BY <1>7, <1>12, <1>14, <3>1, <4>1 DEF Pushing
        <5>2. QED
          BY <1>7, <1>14, <4>1, <5>1 DEF Pushing
      <4>2. QED
        BY <3>1, <4>1
    <3>3. Promised(Offers, Wants, Pushing, b)
      BY <3>1, <3>2 DEF Promised
    <3>4. Untouched(blocks[b])
      BY <3>3 DEF Inv, Blank
    <3>5. ~(b = r.s.block /\ r.s.state \in Pushes)
      <4> SUFFICES ASSUME b = r.s.block, r.s.state \in Pushes
                   PROVE  FALSE
        OBVIOUS
      <4>1. Wants[l] = b /\ l \in Pushing
        BY <1>3, <1>14 DEF Wanted, Pushing
      <4>2. CASE InOffers(Offers, b)
        BY <1>13, <3>1, <4>1, <4>2 DEF InOffers, Once
      <4>3. CASE \E k \in Links \ Pushing : k # l /\ Wants[k] = b
        BY <1>13, <3>1, <4>1, <4>3 DEF Once
      <4>4. QED
        BY <3>2, <4>2, <4>3
    <3>6. SameContent(blocks, q.bs, b)
      BY <1>3, <1>11, <3>5
    <3>7. QED
      BY <3>4, <3>6 DEF Untouched, SameContent
  <2>2. Blank(q.bs, Offers, Wants', Pushing', opened)
    BY <1>11, <1>19, <2>1 DEF Blank
  <2>3. QED
    BY <1>1, <1>15, <2>2 DEF Blank
<1>23. AskersOK'
  <2>1. ~Asking(q.in)
    BY <1>3, <1>4, UpdateReady
  <2>2. \A k \in Links : Asking(upload'[k]) => Asking(upload[k])
    BY <1>7, <2>1
  <2>3. \A t \in Askers : OnLink(uri[t], context, upload')
    <3> SUFFICES ASSUME NEW t \in Askers
                 PROVE  OnLink(uri[t], context, upload')
      OBVIOUS
    <3>1. OnLink(uri[t], context, upload)
      BY DEF Inv, AskersOK
    <3>2. uri[t].link # NoLink => uri[t].link \in Links
      BY DEF Inv, UriTypeOK
    <3>3. QED
      BY <2>2, <3>1, <3>2 DEF OnLink
  <2>4. QED
    BY <1>1, <1>2, <2>3 DEF Inv, AskersOK, OnLink
<1>24. QED
  BY <1>9, <1>10, <1>17, <1>21, <1>22, <1>23 DEF Inv

-----------------------------------------------------------------------------
(* The end of a transfer session, and what the server answers.             *)

Contexts == [state : {"Closed", "Idle", "InProgress", "Error"},
             total : 0..MaxSize, data : Bytes]
Servings == [open : BOOLEAN, response : 0..MaxBlocks,
             pending : 0..MaxBlocks, queued : Seq(UriPayloads)]

\* SessionTerminated keeps the invariant.
LEMMA TerminatedInv ==
  ASSUME Inv, NEW l \in Links, TransferTerminated(l), UNCHANGED uriVars
  PROVE  Inv'
<1> DEFINE s == NoTransfer
           b == transfers[l].block
           cs == IF b = NoBlock THEN blocks ELSE EndTransfer(blocks, b)
           e == <<>>
<1>1. /\ transfers[l].state # "None" /\ context[l].state = "Closed"
      /\ transfers' = [transfers EXCEPT ![l] = s]
      /\ upload' = [upload EXCEPT ![l] = e]
      /\ download' = [download EXCEPT ![l] = e]
      /\ blocks' = cs /\ opened' = opened /\ context' = context
  BY DEF TransferTerminated
<1>2. /\ uri' = uri /\ serving' = serving /\ toUri' = toUri /\ fromUri' = fromUri
      /\ posted' = posted /\ timeouts' = timeouts
  BY DEF uriVars
<1>3. s \in TransferSessions /\ s.state = "None" /\ s.block = NoBlock
  <2> DEFINE z == 0
             p == Status("Success")
  <2>1. z \in 0..MaxBlocks /\ z \in 0..MaxSize /\ e \in Bytes /\ p \in TransferPayloads
    BY Bounds, NoBytes, StatusTyped DEF Results
  <2>2. s = [state |-> "None", block |-> z, total |-> z, done |-> z, crc |-> e, payload |-> p]
    BY DEF NoTransfer, NoBlock
  <2>3. z = NoBlock
    BY DEF NoBlock
  <2> HIDE DEF z, e, p, s
  <2>4. QED
    BY <2>1, <2>2, <2>3 DEF TransferSessions
<1>4. e \in Wire /\ Len(e) = 0 /\ 1..Len(e) = {} /\ e = <<>>
  BY DEF Wire
<1> HIDE DEF s, e
<1>6. /\ blocks \in Cells /\ opened \in 0..MaxBlocks /\ opened \in Nat
      /\ transfers \in [Links -> TransferSessions]
      /\ upload \in [Links -> Wire] /\ download \in [Links -> Wire]
      /\ \A k \in Links : Len(upload[k]) <= LinkWindow /\ Len(download[k]) <= LinkWindow
  BY InvParts
<1>7. /\ transfers'[l] = s /\ upload'[l] = e /\ download'[l] = e
      /\ \A k \in Links : k # l => /\ transfers'[k] = transfers[k]
                                   /\ upload'[k] = upload[k] /\ download'[k] = download[k]
  BY <1>1, <1>6
<1>5. b \in 0..MaxBlocks /\ (b # NoBlock => b \in BlockIds)
  BY <1>6, Bounds DEF TransferSessions
<1>8. /\ cs \in Cells /\ \A c \in BlockIds : SameContent(blocks, cs, c)
      /\ \A c \in BlockIds : c # b => cs[c] = blocks[c]
      /\ b \in BlockIds => cs[b].pending = blocks[b].pending - 1
  <2>1. CASE b = NoBlock
    BY <1>6, <2>1, Bounds DEF SameContent
  <2>2. CASE b # NoBlock
    BY <1>5, <1>6, <2>2, EndIs DEF SameContent
  <2>3. QED
    BY <2>1, <2>2
<1> HIDE DEF cs
<1>9. Matches(transfers, blocks)'
  <2>0. Matches(transfers, blocks)
    BY DEF Inv
  <2>1. Moves(transfers[l].block, s.block, blocks, cs)
    BY <1>3, <1>5, <1>8, Bounds DEF Moves
  <2>2. Matches([transfers EXCEPT ![l] = s], cs)
    BY <1>3, <1>6, <1>8, <2>0, <2>1, MatchesMoves
  <2>3. QED
    BY <1>1, <2>2 DEF Matches
<1>10. UriTypeOK'
  <2>1. UriTypeOK
    BY DEF Inv
  <2>2. blocks' \in [BlockIds -> [registered : BOOLEAN, closed : BOOLEAN,
                                  data : Bytes, pending : Nat]]
    <3>1. Matches(transfers', cs)
      BY <1>1, <1>9 DEF Matches
    <3>2. QED
      BY <1>1, <1>8, <3>1, BlocksTyped
  <2>3. /\ transfers' \in [Links -> TransferSessions]
        /\ upload' \in [Links -> Wire] /\ download' \in [Links -> Wire]
    BY <1>1, <1>3, <1>4, <1>6
  <2>5. \A k \in Links : Len(upload'[k]) <= LinkWindow /\ Len(download'[k]) <= LinkWindow
    BY <1>4, <1>6, <1>7, Bounds
  <2>6. TransferTypeOK'
    BY <1>1, <2>1, <2>2, <2>3, <2>5 DEF UriTypeOK, TransferTypeOK, Wire
  <2>7. QED
    BY <1>2, <2>1, <2>6 DEF UriTypeOK
<1>11. s.state \notin Pulls \cup Pushes
  BY <1>3, GroupsApart
<1>12. Wanted(s, e) = NoBlock
  BY <1>4, <1>11 DEF Wanted
<1>13. Once(Offers, Wants, opened)
  BY DEF Inv
<1>14. Wants'[l] = NoBlock /\ \A k \in Links : k # l => Wants'[k] = Wants[k]
  BY <1>7, <1>12 DEF Wants
<1>15. Offers' = Offers
  BY <1>2 DEF Offers
<1>16. Wants' \in WantSets /\ Wants \in WantSets /\ Offers \in OfferSets
  <2>1. Wants \in WantSets /\ UriTypeOK
    BY WantsTyped DEF Inv
  <2>3. Wants' = [k \in Links |-> Wants'[k]]
    BY DEF Wants
  <2>4. \A k \in Links : Wants'[k] \in 0..MaxBlocks
    BY <1>14, <2>1, Bounds DEF WantSets
  <2>5. QED
    BY <2>1, <2>3, <2>4, OffersTyped DEF WantSets
<1>17. Once(Offers, Wants, opened)'
  <2>1. Once(Offers, Wants', opened)
    BY <1>6, <1>13, <1>14, <1>16, OnceFewerWants
  <2>2. QED
    BY <1>1, <1>15, <2>1 DEF Once
<1>21. LinksOK'
  <2>3. ASSUME NEW k \in Links
        PROVE  /\ Ready(transfers'[k], upload'[k], download'[k])
               /\ Sound(transfers'[k], blocks')
               /\ transfers'[k].block <= opened'
               /\ context'[k].state # "Closed" => transfers'[k].state # "None"
    <3>1. CASE k = l
      <4>1. Ready(s, e, e)
        BY <1>3, <1>4 DEF Ready
      <4>2. Sound(s, cs)
        BY <1>11 DEF Sound
      <4>3. s.block <= opened
        BY <1>3, <1>6, Bounds
      <4>4. QED
        BY <1>1, <1>7, <3>1, <4>1, <4>2, <4>3
    <3>2. CASE k # l
      <4>1. /\ Ready(transfers[k], upload[k], download[k]) /\ Sound(transfers[k], blocks)
            /\ transfers[k].block <= opened
            /\ context[k].state # "Closed" => transfers[k].state # "None"
        BY DEF Inv, LinksOK
      <4>2. transfers[k].block # NoBlock => transfers[k].block \in BlockIds
        BY <1>6, Bounds DEF TransferSessions
      <4>3. Sound(transfers[k], cs)
        BY <1>8, <4>1, <4>2 DEF Sound, SameContent
      <4>4. QED
        BY <1>1, <1>7, <3>2, <4>1, <4>3
    <3>3. QED
      BY <3>1, <3>2
  <2>4. QED
    BY <2>3 DEF LinksOK
<1>22. Blank(blocks, Offers, Wants, Pushing, opened)'
  <2>1. ASSUME NEW b2 \in BlockIds, Promised(Offers, Wants', Pushing', b2)
        PROVE  Untouched(cs[b2])
    <3>1. b2 # NoBlock /\ (InOffers(Offers, b2) \/ \E k \in Links \ Pushing' : Wants'[k] = b2)
      BY <2>1 DEF Promised
    <3>2. \A k \in Links \ Pushing' : Wants'[k] = b2 => k \notin Pushing /\ Wants[k] = b2
      BY <1>7, <1>14, <3>1 DEF Pushing
    <3>3. Promised(Offers, Wants, Pushing, b2)
      BY <3>1, <3>2 DEF Promised
    <3>4. QED
      BY <1>8, <3>3 DEF Inv, Blank, Untouched, SameContent
  <2>3. ASSUME NEW c \in BlockIds
        PROVE  (c > opened => cs[c] = NewBlock) /\ Len(cs[c].data) <= MaxSize
    <3>1. (c > opened => blocks[c] = NewBlock) /\ Len(blocks[c].data) <= MaxSize
      BY DEF Inv, Blank
    <3>2. c > opened => c # b
      <4>1. b <= opened
        BY DEF Inv, LinksOK
      <4>2. QED
        BY <4>1, <1>5, <1>6, Bounds
    <3>3. QED
      BY <1>8, <3>1, <3>2 DEF SameContent
  <2>2. Blank(cs, Offers, Wants', Pushing', opened)
    BY <2>1, <2>3 DEF Blank
  <2>4. QED
    BY <1>1, <1>15, <2>2 DEF Blank
<1>23. AskersOK'
  <2>1. ~Asking(e)
    BY <1>4 DEF Asking
  <2>2. \A k \in Links : Asking(upload'[k]) => Asking(upload[k])
    BY <1>7, <2>1
  <2>3. \A t \in Askers : OnLink(uri[t], context, upload')
    <3> SUFFICES ASSUME NEW t \in Askers
                 PROVE  OnLink(uri[t], context, upload')
      OBVIOUS
    <3>1. OnLink(uri[t], context, upload)
      BY DEF Inv, AskersOK
    <3>2. uri[t].link # NoLink => uri[t].link \in Links
      BY DEF Inv, UriTypeOK
    <3>3. QED
      BY <2>2, <3>1, <3>2 DEF OnLink
  <2>4. QED
    BY <1>1, <1>2, <2>3 DEF Inv, AskersOK, OnLink
<1>24. QED
  BY <1>9, <1>10, <1>17, <1>21, <1>22, <1>23 DEF Inv

\* What a step of the URI server keeps.
LEMMA ServeInv ==
  ASSUME Inv, UNCHANGED <<transfers, upload, download, context, uri, posted, timeouts>>,
         blocks' \in Cells, opened' \in 0..MaxBlocks, opened <= opened',
         \A b \in BlockIds :
           /\ blocks'[b].pending = blocks[b].pending
           /\ b <= opened => SameContent(blocks, blocks', b)
           /\ b > opened' => blocks'[b] = NewBlock
           /\ Len(blocks'[b].data) <= MaxSize,
         Once(Offers', Wants, opened'),
         \A b \in BlockIds : InOffers(Offers', b) =>
           InOffers(Offers, b) \/ Untouched(blocks'[b]),
         serving' \in [Askers -> Servings],
         toUri' \in [Askers -> Seq(UriPayloads)],
         fromUri' \in [Askers -> Seq(UriPayloads)],
         \A t \in Askers : Len(serving'[t].queued) <= 1
  PROVE  Inv'
<1>1. /\ transfers' = transfers /\ upload' = upload /\ download' = download
      /\ context' = context /\ uri' = uri /\ posted' = posted /\ timeouts' = timeouts
  OBVIOUS
<1>2. /\ blocks \in Cells /\ opened \in Nat /\ opened' \in Nat
      /\ transfers \in [Links -> TransferSessions]
  BY InvParts, Bounds
<1>3. Matches(transfers, blocks)'
  <2>1. Matches(transfers, blocks')
    BY DEF Inv, Matches
  <2>2. QED
    BY <1>1, <2>1 DEF Matches
<1>4. UriTypeOK'
  <2>1. UriTypeOK
    BY DEF Inv
  <2>2. blocks' \in [BlockIds -> [registered : BOOLEAN, closed : BOOLEAN,
                                  data : Bytes, pending : Nat]]
    <3>1. Matches(transfers, blocks')
      BY <1>1, <1>3 DEF Matches
    <3>2. QED
      BY <3>1, BlocksTyped
  <2>3. TransferTypeOK'
    BY <1>1, <2>1, <2>2 DEF UriTypeOK, TransferTypeOK
  <2>4. QED
    BY <1>1, <2>1, <2>3 DEF UriTypeOK, Servings
<1>5. Wants' = Wants /\ Pushing' = Pushing
  BY <1>1 DEF Wants, Pushing
<1>6. Once(Offers, Wants, opened)'
  BY <1>5 DEF Once
<1>7. LinksOK'
  <2>1. ASSUME NEW k \in Links
        PROVE  Sound(transfers[k], blocks') /\ transfers[k].block <= opened'
    <3>1. Sound(transfers[k], blocks) /\ transfers[k].block <= opened
      BY DEF Inv, LinksOK
    <3>2. transfers[k].block \in 0..MaxBlocks
      BY <1>2 DEF TransferSessions
    <3>3. transfers[k].block # NoBlock =>
            transfers[k].block \in BlockIds /\ SameContent(blocks, blocks', transfers[k].block)
      BY <3>1, <3>2, Bounds
    <3>4. transfers[k].block <= opened'
      BY <1>2, <3>1, <3>2, Bounds
    <3>5. QED
      BY <3>1, <3>3, <3>4 DEF Sound, SameContent
  <2>2. QED
    BY <1>1, <2>1 DEF Inv, LinksOK
<1>8. Blank(blocks, Offers, Wants, Pushing, opened)'
  <2>1. ASSUME NEW b \in BlockIds, Promised(Offers', Wants, Pushing, b)
        PROVE  Untouched(blocks'[b])
    <3>1. CASE Promised(Offers, Wants, Pushing, b)
      <4>1. Untouched(blocks[b])
        BY <3>1 DEF Inv, Blank
      <4>2. b <= opened
        <5>1. Once(Offers, Wants, opened)
          BY DEF Inv
        <5>2. CASE InOffers(Offers, b)
          BY <5>1, <5>2 DEF Once, InOffers
        <5>3. CASE \E l \in Links \ Pushing : Wants[l] = b
          BY <5>1, <5>3 DEF Once
        <5>4. QED
          BY <3>1, <5>2, <5>3 DEF Promised
      <4>3. QED
        BY <4>1, <4>2 DEF Untouched, SameContent
    <3>2. CASE ~Promised(Offers, Wants, Pushing, b)
      BY <2>1, <3>2 DEF Promised
    <3>3. QED
      BY <3>1, <3>2
  <2>2. Blank(blocks', Offers', Wants, Pushing, opened')
    BY <2>1 DEF Blank
  <2>3. QED
    BY <1>5, <2>2 DEF Blank
<1>9. AskersOK'
  BY <1>1 DEF Inv, AskersOK, OnLink
<1>10. QED
  BY <1>3, <1>4, <1>6, <1>7, <1>8, <1>9 DEF Inv

\* A payload of the URI protocol.
LEMMA UriPayloadTyped ==
  ASSUME NEW command \in URIMessage, NEW result \in Results, NEW n \in 0..MaxRequests,
         NEW b \in 0..MaxBlocks, NEW size \in 0..MaxSize, NEW data \in Bytes
  PROVE  UriPayload(command, result, n, b, size, data) \in UriPayloads
  BY DEF UriPayload, UriPayloads

\* The bounds of Uri.
LEMMA Bounds2 == /\ MaxInline \in Nat /\ MaxRequests \in Nat /\ MaxLate \in Nat
                 /\ ResponseSizes \subseteq 0..MaxSize /\ NoLink \notin Links
  BY UriAssumption

\* An answer.
LEMMA AnswerTyped ==
  ASSUME NEW result \in Results, NEW b \in 0..MaxBlocks
  PROVE  /\ URIResponse(result, b) \in UriPayloads
         /\ URIPostResponse(result, b) \in UriPayloads
         /\ URIResponse(result, b).block = b /\ URIPostResponse(result, b).block = b
<1> DEFINE z == 0
           e == <<>>
<1>1. z \in 0..MaxRequests /\ z \in 0..MaxSize /\ e \in Bytes
  BY Bounds, Bounds2, NoBytes
<1>2. /\ URIResponse(result, b) = UriPayload("URIResponse", result, z, b, z, e)
      /\ URIPostResponse(result, b) = UriPayload("URIPostResponse", result, z, b, z, e)
  BY DEF URIResponse, URIPostResponse
<1> HIDE DEF z, e
<1>3. QED
  BY <1>1, <1>2, UriPayloadTyped DEF UriPayload, URIMessage

\* What is sent or queued last comes last.
LEMMA AppendTwo ==
  ASSUME NEW S, NEW a \in Seq(S), NEW p \in S
  PROVE  /\ Append(a, p) \o <<>> = Append(a \o <<>>, p)
         /\ a \o <<p>> = Append(a \o <<>>, p)
  OBVIOUS

\* What was sent first comes first.
LEMMA TailTwo ==
  ASSUME NEW S, NEW a \in Seq(S), NEW c \in Seq(S), a # <<>>
  PROVE  Tail(a) \o c = Tail(a \o c) /\ Head(a \o c) = Head(a) /\ a \o c # <<>>
  OBVIOUS

-----------------------------------------------------------------------------
(* The updates of URI sessions.                                            *)

\* Post data and responses.
LEMMA ContentTyped ==
  ASSUME NEW n \in Int, NEW size \in 0..MaxSize
  PROVE  Content(n, size) \in Bytes /\ Len(Content(n, size)) = size
<1> DEFINE S == Int \X Nat
<1>1. size \in Nat
  BY Bounds
<1>2. \A i \in 1..size : <<n, i>> \in S
  BY <1>1
<1> HIDE DEF S
<1>3. [i \in 1..size |-> <<n, i>>] \in Seq(S)
  BY <1>1, <1>2
<1>4. Len([i \in 1..size |-> <<n, i>>]) = size
  BY <1>1, <1>3
<1>5. QED
  BY <1>3, <1>4 DEF Content, Bytes, S

\* The types of the server.
LEMMA ServingTyped ==
  ASSUME UriTypeOK
  PROVE  /\ serving \in [Askers -> Servings]
         /\ fromUri \in [Askers -> Seq(UriPayloads)]
         /\ toUri \in [Askers -> Seq(UriPayloads)]
  BY DEF UriTypeOK, Servings

\* An answer is offered, at once or later.
LEMMA RespondIs ==
  ASSUME Inv, NEW t \in Askers, NEW next \in Servings, NEW p \in UriPayloads,
         serving[t].queued = <<>>, Respond(t, next, p)
  PROVE  /\ serving' \in [Askers -> Servings]
         /\ fromUri' \in [Askers -> Seq(UriPayloads)]
         /\ \A v \in Askers : Len(serving'[v].queued) <= 1
         /\ Offers' = [Offers EXCEPT ![t] = Append(Offers[t], p)]
         /\ serving' = [serving EXCEPT ![t] = [next EXCEPT !.queued = serving'[t].queued]]
<1> DEFINE room == HasRoom(fromUri[t])
           e == <<>>
           one == <<p>>
           qd == IF room THEN e ELSE one
           s == [next EXCEPT !.queued = qd]
           f == IF room THEN Append(fromUri[t], p) ELSE fromUri[t]
<1>1. fromUri' = [fromUri EXCEPT ![t] = f] /\ serving' = [serving EXCEPT ![t] = s]
  BY DEF Respond
<1>2. /\ serving \in [Askers -> Servings]
      /\ fromUri \in [Askers -> Seq(UriPayloads)]
  BY ServingTyped DEF Inv
<1>3. e \in Seq(UriPayloads) /\ one \in Seq(UriPayloads) /\ Len(e) <= 1 /\ Len(one) <= 1
  OBVIOUS
<1>4. f \in Seq(UriPayloads)
  BY <1>2
<1>5. f \o qd = Append(fromUri[t] \o e, p)
  <2>1. fromUri[t] \in Seq(UriPayloads)
    BY <1>2
  <2>2. CASE room
    BY <2>1, <2>2, AppendTwo
  <2>3. CASE ~room
    BY <2>1, <2>3, AppendTwo
  <2>4. QED
    BY <2>2, <2>3
<1>6. serving[t].queued = e
  OBVIOUS
<1>7. qd \in Seq(UriPayloads) /\ Len(qd) <= 1
  BY <1>3
<1> HIDE DEF qd, f, e, one
<1>8. s \in Servings /\ s.queued = qd
  BY <1>7 DEF Servings
<1>9. s = [next EXCEPT !.queued = s.queued]
  BY <1>8
<1> HIDE DEF s
<1>10. /\ serving'[t] = s /\ fromUri'[t] = f
       /\ \A v \in Askers : v # t => serving'[v] = serving[v] /\ fromUri'[v] = fromUri[v]
  BY <1>1, <1>2
<1>11. /\ serving' \in [Askers -> Servings] /\ fromUri' \in [Askers -> Seq(UriPayloads)]
  BY <1>1, <1>2, <1>4, <1>8
<1>12. \A v \in Askers : Len(serving'[v].queued) <= 1
  BY <1>7, <1>8, <1>10 DEF Inv, AskersOK
<1>13. Offers' = [Offers EXCEPT ![t] = Append(Offers[t], p)]
  <2>1. \A v \in Askers : Offers'[v] = fromUri'[v] \o serving'[v].queued
    BY DEF Offers
  <2>2. Offers'[t] = Append(Offers[t], p)
    BY <1>5, <1>6, <1>8, <1>10 DEF Offers
  <2>3. \A v \in Askers : v # t => Offers'[v] = Offers[v]
    BY <1>10 DEF Offers
  <2>4. QED
    BY <2>2, <2>3 DEF Offers
<1>14. QED
  BY <1>1, <1>9, <1>10, <1>11, <1>12, <1>13

\* An answer that waited is sent.
LEMMA SendQueuedInv ==
  ASSUME Inv, NEW t \in Askers, SendQueued(t)
  PROVE  Inv'
<1> DEFINE p == Head(serving[t].queued)
           e == <<>>
           f == Append(fromUri[t], p)
           s == [serving[t] EXCEPT !.queued = e]
<1>1. /\ serving[t].queued # <<>> /\ HasRoom(fromUri[t])
      /\ UNCHANGED <<transfers, upload, download, context, uri, posted, timeouts>>
      /\ blocks' = blocks /\ opened' = opened /\ toUri' = toUri
  BY DEF SendQueued, ServingKeeps
<1>2. fromUri' = [fromUri EXCEPT ![t] = f] /\ serving' = [serving EXCEPT ![t] = s]
  BY <1>1 DEF SendQueued, Respond
<1>3. /\ serving \in [Askers -> Servings]
      /\ fromUri \in [Askers -> Seq(UriPayloads)]
      /\ toUri \in [Askers -> Seq(UriPayloads)]
  BY ServingTyped DEF Inv
<1>4. /\ serving[t].queued \in Seq(UriPayloads) /\ Len(serving[t].queued) <= 1
      /\ serving[t] \in Servings
  BY <1>3 DEF Inv, AskersOK, Servings
<1>5. /\ p \in UriPayloads /\ serving[t].queued = <<p>>
  BY <1>1, <1>4
<1>6. f \in Seq(UriPayloads) /\ e \in Seq(UriPayloads) /\ Len(e) <= 1
  BY <1>3, <1>5
<1>7. f \o e = fromUri[t] \o serving[t].queued
  <2>1. fromUri[t] \in Seq(UriPayloads)
    BY <1>3
  <2>2. Append(fromUri[t], p) \o <<>> = fromUri[t] \o <<p>>
    BY <1>5, <2>1, AppendTwo
  <2>3. QED
    BY <1>5, <2>2
<1> HIDE DEF f, e
<1>8. s \in Servings /\ s.queued = e
  BY <1>4, <1>6 DEF Servings
<1> HIDE DEF s, p
<1>9. /\ serving'[t] = s /\ fromUri'[t] = f
      /\ \A v \in Askers : v # t => serving'[v] = serving[v] /\ fromUri'[v] = fromUri[v]
  BY <1>2, <1>3
<1>10. /\ serving' \in [Askers -> Servings] /\ fromUri' \in [Askers -> Seq(UriPayloads)]
  BY <1>2, <1>3, <1>6, <1>8
<1>11. \A v \in Askers : Len(serving'[v].queued) <= 1
  BY <1>6, <1>8, <1>9 DEF Inv, AskersOK
<1>12. Offers' = Offers
  BY <1>7, <1>8, <1>9 DEF Offers
<1>13. /\ blocks \in Cells /\ opened \in 0..MaxBlocks /\ opened \in Nat
  BY InvParts
<1>14. /\ \A b \in BlockIds :
            /\ blocks'[b].pending = blocks[b].pending
            /\ b <= opened => SameContent(blocks, blocks', b)
            /\ b > opened' => blocks'[b] = NewBlock
            /\ Len(blocks'[b].data) <= MaxSize
       /\ blocks' \in Cells /\ opened' \in 0..MaxBlocks /\ opened <= opened'
  BY <1>1, <1>13 DEF SameContent, Inv, Blank
<1>15. /\ Once(Offers', Wants, opened')
       /\ \A b \in BlockIds : InOffers(Offers', b) =>
            InOffers(Offers, b) \/ Untouched(blocks'[b])
  BY <1>1, <1>12 DEF Inv
<1>16. toUri' \in [Askers -> Seq(UriPayloads)]
  BY <1>1, <1>3
<1>17. QED
  BY <1>1, <1>10, <1>11, <1>14, <1>15, <1>16, ServeInv

\* The server takes a request.
LEMMA ReceivesIs ==
  ASSUME Inv, NEW t \in Askers, NEW command, ReceivesUri(t, command)
  PROVE  /\ serving[t].queued = <<>>
         /\ Head(toUri[t]) \in UriPayloads
         /\ toUri' \in [Askers -> Seq(UriPayloads)]
         /\ UNCHANGED <<transfers, upload, download, context, uri, posted, timeouts>>
<1> DEFINE a == Tail(toUri[t])
<1>1. /\ serving[t].queued = <<>> /\ toUri[t] # <<>>
      /\ toUri' = [toUri EXCEPT ![t] = a]
      /\ UNCHANGED <<transfers, upload, download, context, uri, posted, timeouts>>
  BY DEF ReceivesUri, ServingKeeps
<1>2. toUri \in [Askers -> Seq(UriPayloads)]
  BY ServingTyped DEF Inv
<1>3. toUri[t] \in Seq(UriPayloads)
  BY <1>2
<1>4. a \in Seq(UriPayloads) /\ Head(toUri[t]) \in UriPayloads
  BY <1>1, <1>3
<1> HIDE DEF a
<1>5. QED
  BY <1>1, <1>2, <1>4

\* What a step that answers keeps.
LEMMA AnswerInv ==
  ASSUME Inv, NEW t \in Askers, NEW next \in Servings, NEW p \in UriPayloads,
         NEW command, ReceivesUri(t, command), Respond(t, next, p),
         blocks' \in Cells, opened' \in 0..MaxBlocks, opened <= opened',
         \A b \in BlockIds :
           /\ blocks'[b].pending = blocks[b].pending
           /\ b <= opened => SameContent(blocks, blocks', b)
           /\ b > opened' => blocks'[b] = NewBlock
           /\ Len(blocks'[b].data) <= MaxSize,
         \/ p.block = NoBlock
         \/ /\ p.block = opened + 1 /\ p.block <= opened'
            /\ Untouched(blocks'[p.block])
  PROVE  Inv'
<1>1. /\ serving[t].queued = <<>>
      /\ toUri' \in [Askers -> Seq(UriPayloads)]
      /\ UNCHANGED <<transfers, upload, download, context, uri, posted, timeouts>>
  BY ReceivesIs
<1>2. /\ serving' \in [Askers -> Servings]
      /\ fromUri' \in [Askers -> Seq(UriPayloads)]
      /\ \A v \in Askers : Len(serving'[v].queued) <= 1
      /\ Offers' = [Offers EXCEPT ![t] = Append(Offers[t], p)]
  BY <1>1, RespondIs
<1>3. Offers \in OfferSets /\ Wants \in WantSets /\ Once(Offers, Wants, opened)
  BY OffersTyped, WantsTyped DEF Inv
<1>4. opened \in Nat /\ opened' \in Nat
  BY InvParts, Bounds
<1>5. Once(Offers', Wants, opened')
  BY <1>2, <1>3, <1>4, OnceOffer
<1>6. ASSUME NEW b \in BlockIds, InOffers(Offers', b)
      PROVE  InOffers(Offers, b) \/ Untouched(blocks'[b])
  <2>1. InOffers(Offers, b) \/ b = p.block
    BY <1>2, <1>3, <1>6, InAppend DEF OfferSets
  <2>2. QED
    BY <2>1, Bounds
<1>7. QED
  BY <1>1, <1>2, <1>5, <1>6, ServeInv

\* A block before it is opened.
LEMMA NewBlockIs ==
  /\ NewBlock.data = <<>> /\ Len(NewBlock.data) = 0 /\ NewBlock.data \in Bytes
  /\ ~NewBlock.closed
  BY NoBytes DEF NewBlock

\* HandlePostRequest keeps the invariant.
LEMMA PostRequestInv ==
  ASSUME Inv, NEW t \in Askers, HandlePostRequest(t)
  PROVE  Inv'
<1> DEFINE b == opened + 1
<1>1. ReceivesUri(t, "URIPostRequest") /\ PostBlock(t) = b
  BY DEF HandlePostRequest, PostBlock
<1>2. /\ blocks \in Cells /\ opened \in 0..MaxBlocks /\ opened \in Nat /\ opened < b
      /\ b \in Nat
  BY InvParts
<1>3. serving[t] \in Servings
  BY ServingTyped DEF Inv
<1>4. \A c \in BlockIds : (c > opened => blocks[c] = NewBlock) /\ Len(blocks[c].data) <= MaxSize
  BY DEF Inv, Blank
<1>5. CASE /\ b <= MaxBlocks /\ opened' = IF b > opened THEN b ELSE opened
           /\ blocks' = OpenServerBlock(blocks, b)
           /\ Respond(t, [serving[t] EXCEPT !.pending = b], URIPostResponse("Success", b))
  <2> DEFINE next == [serving[t] EXCEPT !.pending = b]
             p == URIPostResponse("Success", b)
  <2>1. opened' = b /\ b \in BlockIds /\ b \in 0..MaxBlocks
    BY <1>2, <1>5, Bounds DEF BlockIds
  <2>2. next \in Servings
    BY <1>3, <2>1 DEF Servings
  <2>3. p \in UriPayloads /\ p.block = b
    BY <2>1, AnswerTyped DEF Results
  <2> HIDE DEF next, p
  <2>4. /\ blocks' \in Cells
        /\ blocks'[b].pending = blocks[b].pending
        /\ SameContent(blocks, blocks', b)
        /\ \A c \in BlockIds : c # b => blocks'[c] = blocks[c]
    BY <1>2, <1>5, <2>1, OpenIs DEF SameContent
  <2>5. Untouched(blocks'[b])
    BY <1>2, <1>4, <2>1, <2>4, NewBlockIs DEF Untouched, SameContent
  <2>6. \A c \in BlockIds :
          /\ blocks'[c].pending = blocks[c].pending
          /\ c <= opened => SameContent(blocks, blocks', c)
          /\ c > opened' => blocks'[c] = NewBlock
          /\ Len(blocks'[c].data) <= MaxSize
    BY <1>2, <1>4, <2>1, <2>4 DEF SameContent, BlockIds
  <2>7. Respond(t, next, p)
    BY <1>5 DEF next, p
  <2>8. opened <= opened' /\ opened' \in 0..MaxBlocks /\ p.block <= opened'
    BY <1>2, <2>1, <2>3
  <2>9. QED
    BY <1>1, <2>1, <2>2, <2>3, <2>4, <2>5, <2>6, <2>7, <2>8, AnswerInv
<1>6. CASE /\ Respond(t, serving[t], URIPostResponse("Error", NoBlock))
           /\ UNCHANGED <<blocks, opened>>
  <2> DEFINE p == URIPostResponse("Error", NoBlock)
  <2>1. p \in UriPayloads /\ p.block = NoBlock
    BY AnswerTyped, Bounds DEF Results
  <2> HIDE DEF p
  <2>2. Respond(t, serving[t], p)
    BY <1>6 DEF p
  <2>3. /\ blocks' \in Cells /\ opened' \in 0..MaxBlocks /\ opened <= opened'
        /\ \A c \in BlockIds :
             /\ blocks'[c].pending = blocks[c].pending
             /\ c <= opened => SameContent(blocks, blocks', c)
             /\ c > opened' => blocks'[c] = NewBlock
             /\ Len(blocks'[c].data) <= MaxSize
    BY <1>2, <1>4, <1>6 DEF SameContent
  <2>4. QED
    BY <1>1, <1>3, <2>1, <2>2, <2>3, AnswerInv
<1>7. QED
  BY <1>1, <1>5, <1>6 DEF HandlePostRequest

\* Closing a block in the manager keeps its content.
LEMMA ClosedIs ==
  ASSUME Inv, NEW b \in 0..MaxBlocks, NEW bs \in Cells,
         \A c \in BlockIds :
           /\ bs[c].pending = blocks[c].pending /\ SameContent(blocks, bs, c)
           /\ c > opened => bs[c] = NewBlock
  PROVE  LET cs == CloseServerBlock(bs, b)
         IN  /\ cs \in Cells
             /\ \A c \in BlockIds :
                  /\ cs[c].pending = blocks[c].pending /\ SameContent(blocks, cs, c)
                  /\ c > opened => cs[c] = NewBlock
                  /\ Len(cs[c].data) <= MaxSize
<1>1. \A c \in BlockIds : Len(blocks[c].data) <= MaxSize
  BY DEF Inv, Blank
<1>2. QED
  BY <1>1, CloseServerBlockIs DEF SameContent

\* HandleRequest keeps the invariant.
LEMMA RequestInv ==
  ASSUME Inv, NEW t \in Askers, HandleRequest(t)
  PROVE  Inv'
<1> DEFINE b == opened + 1
           r == Head(toUri[t])
           fails == URIResponse("Error", NoBlock)
           closed == CloseServerBlock(blocks, serving[t].pending)
           idle == [serving[t] EXCEPT !.pending = NoBlock]
<1>1. ReceivesUri(t, "URIRequest") /\ ResponseBlock(t) = b
  BY DEF HandleRequest, ResponseBlock
<1>2. /\ blocks \in Cells /\ opened \in 0..MaxBlocks /\ opened \in Nat /\ opened < b
      /\ b \in Nat
  BY InvParts
<1>3. serving[t] \in Servings
  BY ServingTyped DEF Inv
<1>4. \A c \in BlockIds : (c > opened => blocks[c] = NewBlock) /\ Len(blocks[c].data) <= MaxSize
  BY DEF Inv, Blank
<1>5. fails \in UriPayloads /\ fails.block = NoBlock
  BY AnswerTyped, Bounds DEF Results
<1>6. /\ closed \in Cells
      /\ \A c \in BlockIds :
           /\ closed[c].pending = blocks[c].pending /\ SameContent(blocks, closed, c)
           /\ c > opened => closed[c] = NewBlock
           /\ Len(closed[c].data) <= MaxSize
  <2>1. serving[t].pending \in 0..MaxBlocks
    BY <1>3 DEF Servings
  <2>2. QED
    BY <1>2, <1>4, <2>1, ClosedIs DEF SameContent
<1>7. r \in UriPayloads /\ r.n \in 0..MaxRequests
  <2>1. r \in UriPayloads
    BY <1>1, ReceivesIs
  <2>2. QED
    BY <2>1 DEF UriPayloads
<1>8. idle \in Servings
  <2> DEFINE z == NoBlock
  <2>1. z \in 0..MaxBlocks
    BY Bounds
  <2> HIDE DEF z
  <2>2. [serving[t] EXCEPT !.pending = z] \in Servings
    BY <1>3, <2>1 DEF Servings
  <2>3. QED
    BY <2>2 DEF z
<1>9. \/ /\ Respond(t, serving[t], fails)
         /\ UNCHANGED <<blocks, opened>>
      \/ /\ blocks' = closed /\ Respond(t, idle, fails) /\ opened' = opened
      \/ /\ b <= MaxBlocks /\ opened' = IF b > opened THEN b ELSE opened
         /\ \/ \E size \in ResponseSizes :
                 /\ blocks' = Close(Write(OpenServerBlock(closed, b), b,
                                          Response(r.n, size)), b)
                 /\ Respond(t, [idle EXCEPT !.response = b], URIResponse("Success", b))
            \/ /\ blocks' = Close(OpenServerBlock(closed, b), b)
               /\ Respond(t, [idle EXCEPT !.response = b], fails)
  BY <1>1 DEF HandleRequest
<1> HIDE DEF fails, closed, idle, r
<1>10. CASE Respond(t, serving[t], fails) /\ UNCHANGED <<blocks, opened>>
  <2>3. /\ blocks' \in Cells /\ opened' \in 0..MaxBlocks /\ opened <= opened'
        /\ \A c \in BlockIds :
             /\ blocks'[c].pending = blocks[c].pending
             /\ c <= opened => SameContent(blocks, blocks', c)
             /\ c > opened' => blocks'[c] = NewBlock
             /\ Len(blocks'[c].data) <= MaxSize
    BY <1>2, <1>4, <1>10 DEF SameContent
  <2>4. QED
    BY <1>1, <1>3, <1>5, <1>10, <2>3, AnswerInv
<1>11. CASE blocks' = closed /\ Respond(t, idle, fails) /\ opened' = opened
  <2>3. /\ blocks' \in Cells /\ opened' \in 0..MaxBlocks /\ opened <= opened'
        /\ \A c \in BlockIds :
             /\ blocks'[c].pending = blocks[c].pending
             /\ c <= opened => SameContent(blocks, blocks', c)
             /\ c > opened' => blocks'[c] = NewBlock
             /\ Len(blocks'[c].data) <= MaxSize
    BY <1>2, <1>6, <1>11
  <2>4. QED
    BY <1>1, <1>5, <1>8, <1>11, <2>3, AnswerInv
<1>12. ASSUME b <= MaxBlocks, opened' = IF b > opened THEN b ELSE opened,
              NEW bs \in Cells, blocks' = Close(bs, b),
              \A c \in BlockIds :
                /\ bs[c].pending = blocks[c].pending
                /\ c # b => bs[c] = closed[c]
                /\ Len(bs[c].data) <= MaxSize,
              NEW p \in UriPayloads, p.block \in {NoBlock, b},
              Respond(t, [idle EXCEPT !.response = b], p)
       PROVE  Inv'
  <2> DEFINE next == [idle EXCEPT !.response = b]
  <2>1. opened' = b /\ b \in BlockIds /\ b \in 0..MaxBlocks
    BY <1>2, <1>12, Bounds DEF BlockIds
  <2>2. next \in Servings
    BY <1>8, <2>1 DEF Servings
  <2> HIDE DEF next
  <2>3. /\ blocks' \in Cells /\ blocks'[b].closed
        /\ blocks'[b].pending = bs[b].pending /\ blocks'[b].data = bs[b].data
        /\ \A c \in BlockIds : c # b => blocks'[c] = bs[c]
    BY <1>12, <2>1, CloseIs
  <2>4. \A c \in BlockIds :
          /\ blocks'[c].pending = blocks[c].pending
          /\ c <= opened => SameContent(blocks, blocks', c)
          /\ c > opened' => blocks'[c] = NewBlock
          /\ Len(blocks'[c].data) <= MaxSize
    <3> SUFFICES ASSUME NEW c \in BlockIds
                 PROVE  /\ blocks'[c].pending = blocks[c].pending
                        /\ c <= opened => SameContent(blocks, blocks', c)
                        /\ c > opened' => blocks'[c] = NewBlock
                        /\ Len(blocks'[c].data) <= MaxSize
      OBVIOUS
    <3>1. CASE c = b
      BY <1>2, <1>12, <2>1, <2>3, <3>1
    <3>2. CASE c # b
      <4>1. blocks'[c] = closed[c]
        BY <1>12, <2>3, <3>2
      <4>2. c > opened' => c > opened
        BY <1>2, <2>1 DEF BlockIds
      <4>3. QED
        BY <1>6, <4>1, <4>2 DEF SameContent
    <3>3. QED
      BY <3>1, <3>2
  <2>5. Untouched(blocks'[b])
    BY <2>3 DEF Untouched
  <2>6. Respond(t, next, p)
    BY <1>12 DEF next
  <2>7. opened <= opened' /\ opened' \in 0..MaxBlocks
        /\ (p.block = NoBlock \/ (p.block = b /\ p.block <= opened'
                                  /\ Untouched(blocks'[p.block])))
    BY <1>2, <1>12, <2>1, <2>5
  <2>8. QED
    BY <1>1, <1>12, <2>2, <2>3, <2>4, <2>6, <2>7, AnswerInv
<1>13. ASSUME b <= MaxBlocks
       PROVE  LET os == OpenServerBlock(closed, b)
              IN  /\ os \in Cells /\ b \in BlockIds
                  /\ os[b].data = <<>> /\ os[b].pending = blocks[b].pending
                  /\ \A c \in BlockIds : c # b => os[c] = closed[c]
                  /\ \A c \in BlockIds : /\ os[c].pending = blocks[c].pending
                                         /\ Len(os[c].data) <= MaxSize
  <2>1. b \in BlockIds
    BY <1>2, <1>13, Bounds DEF BlockIds
  <2>2. closed[b].data = <<>>
    BY <1>2, <1>6, <2>1, NewBlockIs
  <2>3. QED
    BY <1>6, <2>1, <2>2, OpenIs
<1>14. ASSUME b <= MaxBlocks, opened' = IF b > opened THEN b ELSE opened,
              NEW size \in ResponseSizes,
              blocks' = Close(Write(OpenServerBlock(closed, b), b, Response(r.n, size)), b),
              Respond(t, [idle EXCEPT !.response = b], URIResponse("Success", b))
       PROVE  Inv'
  <2> DEFINE os == OpenServerBlock(closed, b)
             data == Response(r.n, size)
             bs == Write(os, b, data)
             p == URIResponse("Success", b)
  <2>0. b \in BlockIds /\ b \in 0..MaxBlocks
    BY <1>2, <1>14, Bounds DEF BlockIds
  <2>1. data \in Bytes /\ Len(data) <= MaxSize
    <3>1. size \in 0..MaxSize /\ -r.n \in Int /\ size <= MaxSize
      BY <1>7, Bounds, Bounds2
    <3>2. QED
      BY <3>1, ContentTyped DEF Response
  <2>2. p \in UriPayloads /\ p.block = b
    BY <2>0, AnswerTyped DEF Results
  <2>3. /\ os \in Cells
        /\ os[b].data = <<>> /\ os[b].pending = blocks[b].pending
        /\ \A c \in BlockIds : c # b => os[c] = closed[c]
        /\ \A c \in BlockIds : /\ os[c].pending = blocks[c].pending
                               /\ Len(os[c].data) <= MaxSize
    BY <1>13, <1>14
  <2> HIDE DEF os, data, p
  <2>4. /\ bs \in Cells
        /\ bs[b].pending = os[b].pending /\ bs[b].data = os[b].data \o data
        /\ \A c \in BlockIds : c # b => bs[c] = os[c]
    BY <2>0, <2>1, <2>3, WriteIs
  <2>5. Len(bs[b].data) = Len(data)
    <3>1. Len(os[b].data) = 0 /\ os[b].data \in Bytes /\ Len(data) \in Nat
      BY <2>0, <2>1, <2>3, NoBytes DEF Bytes
    <3>2. QED
      BY <2>1, <2>4, <3>1, BytesPlus
  <2> HIDE DEF bs
  <2>6. blocks' = Close(bs, b) /\ Respond(t, [idle EXCEPT !.response = b], p)
    BY <1>14 DEF bs, os, data, p
  <2>7. \A c \in BlockIds :
          /\ bs[c].pending = blocks[c].pending
          /\ c # b => bs[c] = closed[c]
          /\ Len(bs[c].data) <= MaxSize
    BY <2>1, <2>3, <2>4, <2>5
  <2>8. QED
    BY <1>12, <1>14, <2>2, <2>4, <2>6, <2>7
<1>15. ASSUME b <= MaxBlocks, opened' = IF b > opened THEN b ELSE opened,
              blocks' = Close(OpenServerBlock(closed, b), b),
              Respond(t, [idle EXCEPT !.response = b], fails)
       PROVE  Inv'
  <2> DEFINE os == OpenServerBlock(closed, b)
  <2>3. /\ os \in Cells
        /\ \A c \in BlockIds : /\ os[c].pending = blocks[c].pending
                               /\ c # b => os[c] = closed[c]
                               /\ Len(os[c].data) <= MaxSize
    BY <1>13, <1>15
  <2>4. blocks' = Close(os, b)
    BY <1>15
  <2> HIDE DEF os
  <2>5. QED
    BY <1>5, <1>12, <1>15, <2>3, <2>4
<1>16. QED
  BY <1>9, <1>10, <1>11, <1>14, <1>15

\* The end of a URI session keeps the invariant.
LEMMA UriTerminatedInv ==
  ASSUME Inv, NEW t \in Askers, UriTerminated(t)
  PROVE  Inv'
<1> DEFINE e == <<>>
           s == NoServing
           bs == CloseServerBlock(blocks, serving[t].response)
           cs == CloseServerBlock(bs, serving[t].pending)
<1>1. /\ blocks' = cs
      /\ serving' = [serving EXCEPT ![t] = s]
      /\ toUri' = [toUri EXCEPT ![t] = e]
      /\ fromUri' = [fromUri EXCEPT ![t] = e]
      /\ UNCHANGED <<transfers, upload, download, context, uri, posted, timeouts>>
      /\ opened' = opened
  BY DEF UriTerminated, ServingKeeps
<1>2. /\ serving \in [Askers -> Servings]
      /\ fromUri \in [Askers -> Seq(UriPayloads)]
      /\ toUri \in [Askers -> Seq(UriPayloads)]
  BY ServingTyped DEF Inv
<1>3. s \in Servings /\ s.queued = e
  <2> DEFINE z == NoBlock
  <2>1. z \in 0..MaxBlocks /\ e \in Seq(UriPayloads)
    BY Bounds
  <2>2. s = [open |-> FALSE, response |-> z, pending |-> z, queued |-> e]
    BY DEF NoServing
  <2> HIDE DEF z, e, s
  <2>3. QED
    BY <2>1, <2>2 DEF Servings
<1>4. e \in Seq(UriPayloads) /\ Len(e) <= 1 /\ e \o e = e
  OBVIOUS
<1>5. /\ blocks \in Cells /\ opened \in 0..MaxBlocks /\ opened \in Nat
      /\ \A c \in BlockIds : c > opened => blocks[c] = NewBlock
  BY InvParts DEF Inv, Blank
<1>6. serving[t].response \in 0..MaxBlocks /\ serving[t].pending \in 0..MaxBlocks
  BY <1>2 DEF Servings
<1>7. /\ bs \in Cells
      /\ \A c \in BlockIds :
           /\ bs[c].pending = blocks[c].pending /\ SameContent(blocks, bs, c)
           /\ c > opened => bs[c] = NewBlock
  BY <1>5, <1>6, ClosedIs DEF SameContent
<1> HIDE DEF bs
<1>8. /\ cs \in Cells
      /\ \A c \in BlockIds :
           /\ cs[c].pending = blocks[c].pending /\ SameContent(blocks, cs, c)
           /\ c > opened => cs[c] = NewBlock
           /\ Len(cs[c].data) <= MaxSize
  BY <1>6, <1>7, ClosedIs
<1> HIDE DEF cs, e, s
<1>9. /\ serving'[t] = s /\ fromUri'[t] = e
      /\ \A v \in Askers : v # t => serving'[v] = serving[v] /\ fromUri'[v] = fromUri[v]
  BY <1>1, <1>2
<1>10. /\ serving' \in [Askers -> Servings] /\ fromUri' \in [Askers -> Seq(UriPayloads)]
       /\ toUri' \in [Askers -> Seq(UriPayloads)]
  BY <1>1, <1>2, <1>3, <1>4
<1>11. \A v \in Askers : Len(serving'[v].queued) <= 1
  BY <1>3, <1>4, <1>9 DEF Inv, AskersOK
<1>12. Offers' = [Offers EXCEPT ![t] = e]
  <2>1. Offers'[t] = e
    BY <1>3, <1>4, <1>9 DEF Offers
  <2>2. \A v \in Askers : v # t => Offers'[v] = Offers[v]
    BY <1>9 DEF Offers
  <2>3. QED
    BY <2>1, <2>2 DEF Offers
<1>13. Offers \in OfferSets /\ Wants \in WantSets /\ Once(Offers, Wants, opened)
  BY OffersTyped, WantsTyped DEF Inv
<1>14. Once(Offers', Wants, opened)
  BY <1>4, <1>5, <1>12, <1>13, OnceFewerOffers DEF e
<1>15. \A b \in BlockIds : InOffers(Offers', b) => InOffers(Offers, b)
  BY <1>12, <1>13, InEmpty DEF e, OfferSets
<1>16. /\ \A b \in BlockIds :
            /\ blocks'[b].pending = blocks[b].pending
            /\ b <= opened => SameContent(blocks, blocks', b)
            /\ b > opened' => blocks'[b] = NewBlock
            /\ Len(blocks'[b].data) <= MaxSize
       /\ blocks' \in Cells /\ opened' \in 0..MaxBlocks /\ opened <= opened'
       /\ Once(Offers', Wants, opened')
  BY <1>1, <1>5, <1>8, <1>14
<1>17. QED
  BY <1>1, <1>10, <1>11, <1>15, <1>16, ServeInv

-----------------------------------------------------------------------------
(* What the steps of the clients share.                                    *)

Uris == [open : BOOLEAN, state : {"Idle", "ReadResponse"},
         call : Waits \cup {"None"}, n : 0..MaxRequests, size : 0..MaxSize,
         left : 0..MaxSize, block : 0..MaxBlocks, link : Links \cup {NoLink},
         received : Bytes, whole : BOOLEAN, late : BOOLEAN]

\* What a call may do on its link.
Talks(l) ==
  /\ \/ upload'[l] = upload[l]
     \/ /\ ~Asking(upload[l]) /\ HasRoom(upload[l])
        /\ \E p \in TransferPayloads :
             /\ ~IsRequest(p) /\ (p.command = "TransferDataChunk" => Len(p.data) = 1)
             /\ upload'[l] = Append(upload[l], p)
  /\ \/ download'[l] = download[l]
     \/ download[l] # <<>> /\ download'[l] = Tail(download[l])

Leaves4(l) == upload'[l] = upload[l] /\ download'[l] = download[l]
              /\ context'[l] = context[l]

\* One value of a function is replaced.
LEMMA ExceptIs ==
  ASSUME NEW A, NEW B, NEW f \in [A -> B], NEW x \in A, NEW y \in B,
         NEW g, g = [f EXCEPT ![x] = y]
  PROVE  g[x] = y /\ g \in [A -> B] /\ \A z \in A : z # x => g[z] = f[z]
  OBVIOUS

\* Something else than a request is sent.
LEMMA AskingAppend ==
  ASSUME NEW q \in Wire, NEW p \in TransferPayloads, ~IsRequest(p), ~Asking(q)
  PROVE  ~Asking(Append(q, p))
<1> DEFINE a == Append(q, p)
<1>1. \A i \in 1..Len(a) : (i \in 1..Len(q) /\ a[i] = q[i]) \/ a[i] = p
  BY DEF Wire
<1> HIDE DEF a
<1>2. ~Asking(a)
  BY <1>1 DEF Asking
<1>3. QED
  BY <1>2 DEF a

\* It asks for no other block.
LEMMA WantedAppend ==
  ASSUME NEW s, NEW q \in Wire, NEW p \in TransferPayloads, ~IsRequest(p)
  PROVE  Wanted(s, Append(q, p)) = Wanted(s, q)
<1>1. p.command # "PushRequest"
  BY DEF IsRequest
<1>2. CASE q = <<>>
  <2>1. Append(q, p) # <<>> /\ Head(Append(q, p)) = p
    BY <1>2 DEF Wire
  <2>2. QED
    BY <1>1, <1>2, <2>1 DEF Wanted
<1>3. CASE q # <<>>
  <2>1. Append(q, p) # <<>> /\ Head(Append(q, p)) = Head(q)
    BY <1>3 DEF Wire
  <2>2. QED
    BY <1>3, <2>1 DEF Wanted
<1>4. QED
  BY <1>2, <1>3

\* A link on which something is sent or taken.
LEMMA ReadyTalks ==
  ASSUME NEW s, NEW in \in Wire, NEW out \in Wire, Ready(s, in, out), s.state # "None",
         NEW in2 \in Wire, NEW out2 \in Wire,
         \/ in2 = in
         \/ /\ ~Asking(in)
            /\ \E p \in TransferPayloads :
                 /\ ~IsRequest(p) /\ (p.command = "TransferDataChunk" => Len(p.data) = 1)
                 /\ in2 = Append(in, p),
         out2 = out \/ (out # <<>> /\ out2 = Tail(out))
  PROVE  Ready(s, in2, out2)
<1>1. CASE in2 = in
  BY <1>1 DEF Ready
<1>2. CASE /\ ~Asking(in)
           /\ \E p \in TransferPayloads :
                /\ ~IsRequest(p) /\ (p.command = "TransferDataChunk" => Len(p.data) = 1)
                /\ in2 = Append(in, p)
  <2>1. PICK p \in TransferPayloads :
          /\ ~IsRequest(p) /\ (p.command = "TransferDataChunk" => Len(p.data) = 1)
          /\ in2 = Append(in, p)
    BY <1>2
  <2>2. \A i \in 1..Len(in2) : (i \in 1..Len(in) /\ in2[i] = in[i]) \/ in2[i] = p
    BY <2>1 DEF Wire
  <2>3. ~Asking(in2)
    BY <1>2, <2>1, AskingAppend
  <2>4. QED
    BY <2>1, <2>2, <2>3 DEF Ready, Asking
<1>3. QED
  BY <1>1, <1>2

\* What a step of a client keeps that opens no session.
LEMMA AskInv ==
  ASSUME Inv, NEW t \in Askers, NEW u \in Uris, uri' = [uri EXCEPT ![t] = u],
         UNCHANGED <<blocks, opened, transfers>>,
         serving' \in [Askers -> Servings],
         \A v \in Askers : serving'[v].queued = serving[v].queued,
         fromUri' = fromUri \/
           (fromUri[t] # <<>> /\ fromUri' = [fromUri EXCEPT ![t] = Tail(fromUri[t])]),
         toUri' \in [Askers -> Seq(UriPayloads)], posted' \in Seq(0..MaxSize),
         timeouts' \in 0..MaxLate,
         upload' \in [Links -> Wire], download' \in [Links -> Wire],
         context' \in [Links -> Contexts],
         \A k \in Links : k # uri[t].link => Leaves4(k),
         uri[t].link # NoLink => Talks(uri[t].link),
         u.link \in {uri[t].link, NoLink}, OnLink(u, context', upload')
  PROVE  Inv'
<1>1. /\ blocks \in Cells /\ opened \in 0..MaxBlocks /\ opened \in Nat
      /\ transfers \in [Links -> TransferSessions]
      /\ upload \in [Links -> Wire] /\ download \in [Links -> Wire]
      /\ \A l \in Links : Len(upload[l]) <= LinkWindow /\ Len(download[l]) <= LinkWindow
  BY InvParts
<1>2. uri \in [Askers -> Uris]
  BY DEF Inv, UriTypeOK, Uris
<1>3. uri[t].link \in Links \cup {NoLink}
  BY <1>2 DEF Uris
<1>4. /\ uri'[t] = u /\ \A v \in Askers : v # t => uri'[v] = uri[v]
      /\ uri' \in [Askers -> Uris]
  BY <1>2
<1>5. Matches(transfers, blocks)'
  BY DEF Inv, Matches
<1>6. \A l \in Links : Len(upload'[l]) <= LinkWindow /\ Len(download'[l]) <= LinkWindow
  <2> SUFFICES ASSUME NEW l \in Links
               PROVE  Len(upload'[l]) <= LinkWindow /\ Len(download'[l]) <= LinkWindow
    OBVIOUS
  <2>1. CASE l # uri[t].link
    BY <1>1, <2>1 DEF Leaves4
  <2>2. CASE l = uri[t].link
    <3>1. Talks(l)
      BY <2>2, Bounds2
    <3>2. Len(upload'[l]) <= LinkWindow
      <4>1. CASE upload'[l] = upload[l]
        BY <1>1, <4>1
      <4>2. CASE /\ HasRoom(upload[l])
                 /\ \E p \in TransferPayloads : upload'[l] = Append(upload[l], p)
        <5>1. PICK p \in TransferPayloads : upload'[l] = Append(upload[l], p)
          BY <4>2
        <5>2. Len(upload'[l]) = Len(upload[l]) + 1 /\ Len(upload[l]) \in Nat
          BY <1>1, <5>1 DEF Wire
        <5>3. QED
          BY <4>2, <5>2, Bounds DEF HasRoom
      <4>3. QED
        BY <3>1, <4>1, <4>2 DEF Talks
    <3>3. Len(download'[l]) <= LinkWindow
      <4>1. CASE download'[l] = download[l]
        BY <1>1, <4>1
      <4>2. CASE download[l] # <<>> /\ download'[l] = Tail(download[l])
        <5>1. Len(download'[l]) = Len(download[l]) - 1 /\ Len(download[l]) \in Nat
          BY <1>1, <4>2 DEF Wire
        <5>2. QED
          BY <1>1, <5>1, Bounds
      <4>3. QED
        BY <3>1, <4>1, <4>2 DEF Talks
    <3>4. QED
      BY <3>2, <3>3
  <2>3. QED
    BY <2>1, <2>2
<1>7. fromUri' \in [Askers -> Seq(UriPayloads)]
  <2>1. fromUri \in [Askers -> Seq(UriPayloads)]
    BY ServingTyped DEF Inv
  <2>2. fromUri[t] # <<>> => Tail(fromUri[t]) \in Seq(UriPayloads)
    BY <2>1
  <2>3. QED
    BY <2>1, <2>2
<1>8. UriTypeOK'
  <2>1. UriTypeOK
    BY DEF Inv
  <2>2. TransferTypeOK'
    BY <1>6, <2>1 DEF UriTypeOK, TransferTypeOK, Wire, Contexts
  <2>3. QED
    BY <1>4, <1>7, <2>1, <2>2 DEF UriTypeOK, Uris, Servings
<1>9. LinksOK'
  <2>1. ASSUME NEW l \in Links
        PROVE  /\ Ready(transfers[l], upload'[l], download'[l])
               /\ context'[l].state # "Closed" => transfers[l].state # "None"
    <3>0. /\ Ready(transfers[l], upload[l], download[l])
          /\ context[l].state # "Closed" => transfers[l].state # "None"
      BY DEF Inv, LinksOK
    <3>1. CASE l # uri[t].link
      BY <3>0, <3>1 DEF Leaves4
    <3>2. CASE l = uri[t].link
      <4>1. Talks(l)
        BY <3>2, Bounds2
      <4>2. context[l].state # "Closed"
        BY <3>2, Bounds2 DEF Inv, AskersOK, OnLink
      <4>3. transfers[l].state # "None"
        BY <3>0, <4>2
      <4>4. Ready(transfers[l], upload'[l], download'[l])
        BY <1>1, <3>0, <4>1, <4>3, ReadyTalks DEF Talks
      <4>5. QED
        BY <4>3, <4>4
    <3>3. QED
      BY <3>1, <3>2
  <2>2. QED
    BY <2>1 DEF Inv, LinksOK
<1>10. Wants' = Wants /\ Pushing' = Pushing
  <2>1. ASSUME NEW l \in Links
        PROVE  Wanted(transfers[l], upload'[l]) = Wanted(transfers[l], upload[l])
    <3>1. CASE l # uri[t].link
      BY <3>1 DEF Leaves4
    <3>2. CASE l = uri[t].link
      <4>1. Talks(l)
        BY <3>2, Bounds2
      <4>2. upload'[l] = upload[l] \/ \E p \in TransferPayloads :
              ~IsRequest(p) /\ upload'[l] = Append(upload[l], p)
        BY <4>1 DEF Talks
      <4>3. QED
        BY <1>1, <4>2, WantedAppend
    <3>3. QED
      BY <3>1, <3>2
  <2>2. QED
    BY <2>1 DEF Wants, Pushing
<1>11. Offers \in OfferSets /\ Wants \in WantSets /\ Once(Offers, Wants, opened)
  BY OffersTyped, WantsTyped DEF Inv
<1>12. \/ Offers' = Offers
       \/ Offers[t] # <<>> /\ Offers' = [Offers EXCEPT ![t] = Tail(Offers[t])]
  <2>1. CASE fromUri' = fromUri
    BY <2>1 DEF Offers
  <2>2. CASE fromUri[t] # <<>> /\ fromUri' = [fromUri EXCEPT ![t] = Tail(fromUri[t])]
    <3>1. /\ fromUri \in [Askers -> Seq(UriPayloads)] /\ serving \in [Askers -> Servings]
      BY ServingTyped DEF Inv
    <3>2. fromUri[t] \in Seq(UriPayloads) /\ serving[t].queued \in Seq(UriPayloads)
      BY <3>1 DEF Servings
    <3>3. Tail(fromUri[t]) \o serving[t].queued = Tail(Offers[t]) /\ Offers[t] # <<>>
      BY <2>2, <3>2, TailTwo DEF Offers
    <3>4. fromUri'[t] = Tail(fromUri[t]) /\ \A v \in Askers : v # t => fromUri'[v] = fromUri[v]
      BY <2>2, <3>1
    <3>5. Offers'[t] = Tail(Offers[t]) /\ \A v \in Askers : v # t => Offers'[v] = Offers[v]
      BY <3>3, <3>4 DEF Offers
    <3>6. QED
      BY <3>3, <3>5 DEF Offers
  <2>3. QED
    BY <2>1, <2>2
<1>13. Once(Offers', Wants, opened) /\ \A b \in BlockIds : InOffers(Offers', b) => InOffers(Offers, b)
  <2>1. CASE Offers' = Offers
    BY <1>11, <2>1
  <2>2. CASE Offers[t] # <<>> /\ Offers' = [Offers EXCEPT ![t] = Tail(Offers[t])]
    <3>1. Offers[t] \in Seq(UriPayloads)
      BY <1>11 DEF OfferSets
    <3>2. Tail(Offers[t]) \in Seq(UriPayloads)
      BY <2>2, <3>1
    <3>3. Once(Offers', Wants, opened)
      BY <1>1, <1>11, <2>2, <3>2, OnceFewerOffers
    <3>4. \A b \in BlockIds : InOffers(Offers', b) => InOffers(Offers, b)
      BY <1>11, <2>2, InTail DEF OfferSets
    <3>5. QED
      BY <3>3, <3>4
  <2>3. QED
    BY <1>12, <2>1, <2>2
<1>14. Once(Offers, Wants, opened)'
  <2>1. opened' = opened
    BY <1>1
  <2>2. QED
    BY <1>10, <1>13, <2>1
<1>15. Blank(blocks, Offers, Wants, Pushing, opened)'
  <2>1. \A b \in BlockIds : Promised(Offers', Wants, Pushing, b) =>
                              Promised(Offers, Wants, Pushing, b)
    BY <1>13 DEF Promised
  <2>2. Blank(blocks, Offers', Wants, Pushing, opened)
    BY <2>1 DEF Inv, Blank
  <2>3. QED
    BY <1>10, <2>2 DEF Blank
<1>16. AskersOK'
  <2>1. ASSUME NEW v \in Askers
        PROVE  OnLink(uri'[v], context', upload')
    <3>1. CASE v = t
      BY <1>4, <3>1
    <3>2. CASE v # t
      <4>1. OnLink(uri[v], context, upload) /\ uri'[v] = uri[v]
        BY <1>4, <3>2 DEF Inv, AskersOK
      <4>2. uri[v].link # NoLink => uri[v].link \in Links /\ Leaves4(uri[v].link)
        <5>1. uri[v].link # NoLink => uri[v].link # uri[t].link
          BY <3>2 DEF Inv, AskersOK
        <5>2. uri[v].link \in Links \cup {NoLink}
          BY <1>2 DEF Uris
        <5>3. QED
          BY <5>1, <5>2
      <4>3. QED
        BY <4>1, <4>2 DEF OnLink, Leaves4
    <3>3. QED
      BY <3>1, <3>2
  <2>2. \A v, w \in Askers : uri'[v].link = uri'[w].link /\ uri'[v].link # NoLink => v = w
    BY <1>4 DEF Inv, AskersOK
  <2>3. QED
    BY <2>1, <2>2 DEF Inv, AskersOK
<1>17. QED
  BY <1>5, <1>8, <1>9, <1>14, <1>15, <1>16 DEF Inv

\* What a step keeps that opens a session for what was offered.
LEMMA OpensInv ==
  ASSUME Inv, NEW t \in Askers, NEW u \in Uris, uri' = [uri EXCEPT ![t] = u],
         NEW l \in Links, fromUri[t] # <<>>,
         NEW command \in {"PushRequest", "PullRequest"}, NEW size \in 0..MaxSize,
         OpenBlock(l, BlockRequest(command, Head(fromUri[t]).block, size)),
         fromUri' = [fromUri EXCEPT ![t] = Tail(fromUri[t])],
         UNCHANGED <<serving, toUri, posted, timeouts>>,
         u.link = l, u.call \in {"PushStatus", "PullHeader"}
  PROVE  Inv'
<1> DEFINE b == Head(fromUri[t]).block
           p == BlockRequest(command, b, size)
           s == NewTransfer
           one == <<p>>
           c == [context[l] EXCEPT !.state = "Idle"]
<1>1. /\ transfers[l].state = "None" /\ context[l].state = "Closed"
      /\ transfers' = [transfers EXCEPT ![l] = s]
      /\ context' = [context EXCEPT ![l].state = "Idle"]
      /\ upload' = [upload EXCEPT ![l] = one]
      /\ blocks' = blocks /\ opened' = opened /\ download' = download
  BY DEF OpenBlock
<1>2. /\ blocks \in Cells /\ opened \in 0..MaxBlocks /\ opened \in Nat
      /\ transfers \in [Links -> TransferSessions]
      /\ upload \in [Links -> Wire] /\ download \in [Links -> Wire]
      /\ context \in [Links -> Contexts]
      /\ \A k \in Links : Len(upload[k]) <= LinkWindow /\ Len(download[k]) <= LinkWindow
  BY InvParts DEF Contexts
<1>3. uri \in [Askers -> Uris]
  BY DEF Inv, UriTypeOK, Uris
<1>4. /\ fromUri \in [Askers -> Seq(UriPayloads)] /\ serving \in [Askers -> Servings]
      /\ fromUri[t] \in Seq(UriPayloads) /\ serving[t].queued \in Seq(UriPayloads)
  BY ServingTyped DEF Inv, Servings
<1>5. b \in 0..MaxBlocks
  <2>1. Head(fromUri[t]) \in UriPayloads
    BY <1>4
  <2>2. QED
    BY <2>1 DEF UriPayloads
<1>6. p \in TransferPayloads /\ p.command = command /\ p.block = b
  BY <1>5, BlockRequestTyped DEF TransferMessage
<1>7. one \in Wire /\ Len(one) = 1 /\ one[1] = p /\ Head(one) = p /\ one # <<>>
  BY <1>6 DEF Wire
<1>8. /\ s \in TransferSessions /\ s.state = "Idle" /\ s.block = NoBlock
  <2> DEFINE z == 0
             e == <<>>
             q == Status("Success")
  <2>1. z \in 0..MaxBlocks /\ z \in 0..MaxSize /\ e \in Bytes /\ q \in TransferPayloads
    BY Bounds, NoBytes, StatusTyped DEF Results
  <2>2. s = [state |-> "Idle", block |-> z, total |-> z, done |-> z, crc |-> e, payload |-> q]
    BY DEF NewTransfer, NoTransfer, NoBlock
  <2>3. z = NoBlock
    BY DEF NoBlock
  <2> HIDE DEF z, e, q, s
  <2>4. QED
    BY <2>1, <2>2, <2>3 DEF TransferSessions
<1>9. /\ c \in Contexts /\ c.state = "Idle" /\ context' = [context EXCEPT ![l] = c]
  <2>1. context[l] \in Contexts
    BY <1>2
  <2>2. c \in Contexts /\ c.state = "Idle"
    BY <2>1 DEF Contexts
  <2>3. QED
    BY <1>1, <1>2, <2>2
<1> HIDE DEF s, p, one, c
<1>10. /\ transfers'[l] = s /\ upload'[l] = one /\ context'[l] = c
       /\ \A k \in Links : k # l => /\ transfers'[k] = transfers[k]
                                    /\ upload'[k] = upload[k] /\ context'[k] = context[k]
       /\ transfers' \in [Links -> TransferSessions] /\ upload' \in [Links -> Wire]
       /\ context' \in [Links -> Contexts]
  <2>1. /\ transfers'[l] = s /\ transfers' \in [Links -> TransferSessions]
        /\ \A k \in Links : k # l => transfers'[k] = transfers[k]
    <3>1. transfers \in [Links -> TransferSessions] /\ s \in TransferSessions
          /\ transfers' = [transfers EXCEPT ![l] = s]
      BY <1>1, <1>2, <1>8
    <3>2. QED
      BY <3>1, ExceptIs
  <2>2. /\ upload'[l] = one /\ upload' \in [Links -> Wire]
        /\ \A k \in Links : k # l => upload'[k] = upload[k]
    <3>1. upload \in [Links -> Wire] /\ one \in Wire /\ upload' = [upload EXCEPT ![l] = one]
      BY <1>1, <1>2, <1>7
    <3>2. QED
      BY <3>1, ExceptIs
  <2>3. /\ context'[l] = c /\ context' \in [Links -> Contexts]
        /\ \A k \in Links : k # l => context'[k] = context[k]
    <3>1. context \in [Links -> Contexts] /\ c \in Contexts
          /\ context' = [context EXCEPT ![l] = c]
      BY <1>2, <1>9
    <3>2. QED
      BY <3>1, ExceptIs
  <2>4. QED
    BY <2>1, <2>2, <2>3
<1>11. /\ uri'[t] = u /\ \A v \in Askers : v # t => uri'[v] = uri[v]
       /\ uri' \in [Askers -> Uris]
  BY <1>3
<1>12. /\ transfers[l].block = NoBlock /\ upload[l] = <<>> /\ download[l] = <<>>
  BY <1>1 DEF Inv, LinksOK, Ready
<1>13. Matches(transfers, blocks)'
  <2>1. \A k \in Links : transfers'[k].block = transfers[k].block
    BY <1>8, <1>10, <1>12
  <2>2. \A d \in BlockIds : blocks[d].pending = blocks'[d].pending
    BY <1>1
  <2>3. /\ transfers \in [Links -> TransferSessions] /\ blocks \in Cells
        /\ transfers' \in [Links -> TransferSessions] /\ blocks' \in Cells
        /\ Matches(transfers, blocks)
    BY <1>1, <1>2, <1>10 DEF Inv
  <2>4. Matches(transfers', blocks')
    BY <2>1, <2>2, <2>3, MatchesSame
  <2>5. QED
    BY <2>4 DEF Matches, Holders
<1>14. UriTypeOK'
  <2>1. UriTypeOK
    BY DEF Inv
  <2>2. \A k \in Links : Len(upload'[k]) <= LinkWindow
    <3>1. Len(upload'[l]) <= LinkWindow
      <4>1. Len(upload'[l]) = 1
        BY <1>7, <1>10
      <4>2. QED
        BY <4>1, Bounds
    <3>2. \A k \in Links : k # l => Len(upload'[k]) <= LinkWindow
      BY <1>2, <1>10
    <3>3. QED
      BY <3>1, <3>2
  <2>3. TransferTypeOK'
    BY <1>1, <1>10, <2>1, <2>2 DEF UriTypeOK, TransferTypeOK, Wire, Contexts
  <2>4. fromUri' \in [Askers -> Seq(UriPayloads)]
    <3>1. Tail(fromUri[t]) \in Seq(UriPayloads)
      BY <1>4
    <3>2. QED
      BY <1>4, <3>1
  <2>5. QED
    BY <1>11, <2>1, <2>3, <2>4 DEF UriTypeOK, Uris
<1>15. LinksOK'
  <2>1. ASSUME NEW k \in Links
        PROVE  /\ Ready(transfers'[k], upload'[k], download[k])
               /\ Sound(transfers'[k], blocks)
               /\ transfers'[k].block <= opened
               /\ context'[k].state # "Closed" => transfers'[k].state # "None"
    <3>1. CASE k = l
      <4>1. \A i \in 1..Len(one) : i = 1
        BY <1>7
      <4>2. one[1].command # "TransferDataChunk"
        BY <1>6, <1>7
      <4>3. Ready(s, one, download[l])
        BY <1>7, <1>8, <1>12, <4>1, <4>2 DEF Ready
      <4>4. Sound(s, blocks)
        BY <1>8, GroupsApart DEF Sound
      <4>5. QED
        BY <1>2, <1>8, <1>10, <3>1, <4>3, <4>4, Bounds
    <3>2. CASE k # l
      BY <1>10, <3>2 DEF Inv, LinksOK
    <3>3. QED
      BY <3>1, <3>2
  <2>2. QED
    BY <1>1, <2>1 DEF LinksOK
<1>16. Offers \in OfferSets /\ Wants \in WantSets /\ Once(Offers, Wants, opened)
  BY OffersTyped, WantsTyped DEF Inv
<1>17. /\ Offers[t] # <<>> /\ Head(Offers[t]).block = b
       /\ Offers' = [Offers EXCEPT ![t] = Tail(Offers[t])]
  <2>1. /\ Tail(fromUri[t]) \o serving[t].queued = Tail(Offers[t]) /\ Offers[t] # <<>>
        /\ Head(Offers[t]) = Head(fromUri[t])
    BY <1>4, TailTwo DEF Offers
  <2>2. fromUri'[t] = Tail(fromUri[t]) /\ \A v \in Askers : v # t => fromUri'[v] = fromUri[v]
    BY <1>4
  <2>3. Offers'[t] = Tail(Offers[t])
    <3>1. Offers'[t] = fromUri'[t] \o serving[t].queued
      BY DEF Offers
    <3>2. QED
      BY <2>1, <2>2, <3>1
  <2>5. \A v \in Askers : v # t => Offers'[v] = Offers[v]
    <3>1. \A v \in Askers : /\ Offers'[v] = fromUri'[v] \o serving[v].queued
                            /\ Offers[v] = fromUri[v] \o serving[v].queued
      BY DEF Offers
    <3>2. QED
      BY <2>2, <3>1
  <2>4. QED
    BY <2>1, <2>3, <2>5 DEF Offers
<1> DEFINE x == Wanted(s, one)
<1>18. x \in {NoBlock, b}
  BY <1>6, <1>7, <1>8 DEF Wanted, Pushes
<1> HIDE DEF x
<1>19. Wants' = [Wants EXCEPT ![l] = x]
  <2>1. Wants'[l] = x /\ \A k \in Links : k # l => Wants'[k] = Wants[k]
    BY <1>10 DEF Wants, x
  <2>2. QED
    BY <2>1 DEF Wants
<1>20. Once(Offers, Wants, opened)'
  <2>1. Once(Offers', Wants', opened)
    BY <1>2, <1>16, <1>17, <1>18, <1>19, OnceTake
  <2>2. QED
    BY <1>1, <2>1 DEF Once
<1>21. Pushing' = Pushing
  <2>1. transfers'[l].state \notin Pushes /\ transfers[l].state \notin Pushes
    BY <1>1, <1>8, <1>10, GroupsApart
  <2>2. QED
    BY <1>10, <2>1 DEF Pushing
<1>22. Blank(blocks, Offers, Wants, Pushing, opened)'
  <2>1. ASSUME NEW d \in BlockIds, Promised(Offers', Wants', Pushing, d)
        PROVE  Promised(Offers, Wants, Pushing, d)
    <3>1. CASE InOffers(Offers', d)
      <4>1. InOffers(Offers, d)
        BY <1>16, <1>17, <3>1, InTail DEF OfferSets
      <4>2. QED
        BY <2>1, <4>1 DEF Promised
    <3>2. CASE \E k \in Links \ Pushing : Wants'[k] = d
      <4>1. PICK k \in Links \ Pushing : Wants'[k] = d
        BY <3>2
      <4>2. CASE k = l
        <5>1. d = b
          BY <1>16, <1>18, <1>19, <2>1, <4>1, <4>2 DEF WantSets, Promised
        <5>2. InOffers(Offers, b)
          BY <1>16, <1>17, InHead DEF OfferSets
        <5>3. QED
          BY <2>1, <5>1, <5>2 DEF Promised
      <4>3. CASE k # l
        <5>1. Wants[k] = d
          BY <1>16, <1>19, <4>1, <4>3 DEF WantSets
        <5>2. QED
          BY <2>1, <4>1, <5>1 DEF Promised
      <4>4. QED
        BY <4>2, <4>3
    <3>3. QED
      BY <2>1, <3>1, <3>2 DEF Promised
  <2>2. Blank(blocks, Offers', Wants', Pushing, opened)
    BY <2>1 DEF Inv, Blank
  <2>3. QED
    BY <1>1, <1>21, <2>2 DEF Blank
<1>23. AskersOK'
  <2>0. \A v \in Askers : uri[v].link # l
    BY <1>1, Bounds2 DEF Inv, AskersOK, OnLink
  <2>1. ASSUME NEW v \in Askers
        PROVE  OnLink(uri'[v], context', upload')
    <3>1. CASE v = t
      <4>1. context'[l].state # "Closed" /\ u.link # NoLink
        BY <1>9, <1>10, Bounds2
      <4>2. OnLink(u, context', upload')
        BY <4>1 DEF OnLink
      <4>3. QED
        BY <1>11, <3>1, <4>2
    <3>2. CASE v # t
      <4>1. OnLink(uri[v], context, upload) /\ uri'[v] = uri[v]
        BY <1>11, <3>2 DEF Inv, AskersOK
      <4>2. uri[v].link \in Links \cup {NoLink}
        BY <1>3 DEF Uris
      <4>3. QED
        BY <1>10, <2>0, <4>1, <4>2 DEF OnLink
    <3>3. QED
      BY <3>1, <3>2
  <2>2. \A v, w \in Askers : uri'[v].link = uri'[w].link /\ uri'[v].link # NoLink => v = w
    BY <1>11, <2>0 DEF Inv, AskersOK
  <2>3. QED
    BY <2>1, <2>2 DEF Inv, AskersOK
<1>24. QED
  BY <1>13, <1>14, <1>15, <1>20, <1>22, <1>23 DEF Inv

-----------------------------------------------------------------------------
(* The links of the clients.                                               *)

\* A call goes on with its link, or has none any more.
Stays(u, l, c) ==
  /\ u.link = l /\ c.state # "Closed"
  /\ u.state = "ReadResponse" /\ u.call = "None" => c.total >= 1
  /\ u.call = "Write" => u.left <= u.size
Ends(u) == u.link = NoLink /\ u.call \notin LinkCalls /\ u.state # "ReadResponse"

\* What a step does to the payloads of a link.
Sent(q, up) ==
  \/ up = q
  \/ /\ HasRoom(q)
     /\ \E p \in TransferPayloads :
          /\ ~IsRequest(p) /\ (p.command = "TransferDataChunk" => Len(p.data) = 1)
          /\ up = Append(q, p)
Drawn(q, down) == down = q \/ (q # <<>> /\ down = Tail(q))

\* A context of a TransferClient.
LEMMA ContextTyped ==
  ASSUME NEW state \in {"Closed", "Idle", "InProgress", "Error"},
         NEW total \in 0..MaxSize, NEW data \in Bytes
  PROVE  LET c == [state |-> state, total |-> total, data |-> data]
         IN  /\ c \in Contexts /\ c.state = state /\ c.total = total
             /\ c.data = data
  BY DEF Contexts

\* The context of a closed one.
LEMMA NoContextTyped == NoContext \in Contexts
<1> DEFINE e == <<>>
           z == 0
<1>1. e \in Bytes /\ z \in 0..MaxSize
  BY NoBytes, Bounds
<1>2. NoContext = [state |-> "Closed", total |-> z, data |-> e]
  BY DEF NoContext
<1> HIDE DEF e, z
<1>3. QED
  BY <1>1, <1>2, ContextTyped

\* The types of the clients.
LEMMA UrisTyped ==
  ASSUME Inv
  PROVE  /\ uri \in [Askers -> Uris] /\ context \in [Links -> Contexts]
         /\ serving \in [Askers -> Servings]
         /\ fromUri \in [Askers -> Seq(UriPayloads)]
         /\ toUri \in [Askers -> Seq(UriPayloads)]
         /\ posted \in Seq(0..MaxSize) /\ timeouts \in 0..MaxLate
         /\ \A t \in Askers : uri[t].link \in Links \cup {NoLink}
<1>1. uri \in [Askers -> Uris] /\ posted \in Seq(0..MaxSize) /\ timeouts \in 0..MaxLate
  BY DEF Inv, UriTypeOK, Uris
<1>2. context \in [Links -> Contexts]
  BY InvParts DEF Contexts
<1>3. \A t \in Askers : uri[t].link \in Links \cup {NoLink}
  BY <1>1 DEF Uris
<1>4. QED
  BY <1>1, <1>2, <1>3, ServingTyped DEF Inv

\* A request on the link of a call is the call's, and nothing answered it.
LEMMA FreeLink ==
  ASSUME Inv, NEW t \in Askers, uri[t].link \in Links,
         \/ uri[t].call \notin {"PushStatus", "PullHeader"}
         \/ download[uri[t].link] # <<>>
  PROVE  ~Asking(upload[uri[t].link])
<1> DEFINE l == uri[t].link
<1>1. uri[t].call \notin {"PushStatus", "PullHeader"} => ~Asking(upload[l])
  BY Bounds2 DEF Inv, AskersOK, OnLink
<1>2. download[l] # <<>> => ~Asking(upload[l])
  BY DEF Inv, LinksOK, Ready, Asking
<1>3. QED
  BY <1>1, <1>2

\* What a step of a client keeps that leaves the transfers alone.
LEMMA QuietInv ==
  ASSUME Inv, NEW t \in Askers, NEW u \in Uris, uri' = [uri EXCEPT ![t] = u],
         UNCHANGED transferVars,
         serving' \in [Askers -> Servings],
         \A v \in Askers : serving'[v].queued = serving[v].queued,
         fromUri' = fromUri \/
           (fromUri[t] # <<>> /\ fromUri' = [fromUri EXCEPT ![t] = Tail(fromUri[t])]),
         toUri' \in [Askers -> Seq(UriPayloads)], posted' \in Seq(0..MaxSize),
         timeouts' \in 0..MaxLate,
         u.link \in {uri[t].link, NoLink}, OnLink(u, context, upload)
  PROVE  Inv'
<1>1. /\ UNCHANGED <<blocks, opened, transfers>>
      /\ upload' = upload /\ download' = download /\ context' = context
  BY DEF transferVars
<1>2. /\ upload' \in [Links -> Wire] /\ download' \in [Links -> Wire]
      /\ context' \in [Links -> Contexts]
  BY <1>1, InvParts, UrisTyped
<1>3. \A k \in Links : k # uri[t].link => Leaves4(k)
  BY <1>1 DEF Leaves4
<1>4. uri[t].link # NoLink => Talks(uri[t].link)
  BY <1>1 DEF Talks
<1>5. OnLink(u, context', upload')
  BY <1>1
<1>6. QED
  BY <1>1, <1>2, <1>3, <1>4, <1>5, AskInv

\* What a step of a client keeps that talks on its link.
LEMMA LinkInv ==
  ASSUME Inv, NEW t \in Askers, NEW u \in Uris, uri' = [uri EXCEPT ![t] = u],
         NEW l \in Links, l = uri[t].link,
         UNCHANGED <<blocks, opened, transfers>>,
         serving' = serving, fromUri' = fromUri, posted' = posted,
         toUri' \in [Askers -> Seq(UriPayloads)], timeouts' \in 0..MaxLate,
         NEW up \in Wire, NEW down \in Wire, NEW c \in Contexts,
         upload' = [upload EXCEPT ![l] = up],
         download' = [download EXCEPT ![l] = down],
         context' = [context EXCEPT ![l] = c],
         Sent(upload[l], up), Drawn(download[l], down),
         Ends(u) \/ Stays(u, l, c),
         up # upload[l] \/ u.link = l => ~Asking(upload[l])
  PROVE  Inv'
<1>1. /\ upload' \in [Links -> Wire] /\ upload'[l] = up
      /\ \A k \in Links : k # l => upload'[k] = upload[k]
  BY InvParts, ExceptIs
<1>2. /\ download' \in [Links -> Wire] /\ download'[l] = down
      /\ \A k \in Links : k # l => download'[k] = download[k]
  BY InvParts, ExceptIs
<1>3. /\ context' \in [Links -> Contexts] /\ context'[l] = c
      /\ \A k \in Links : k # l => context'[k] = context[k]
  BY UrisTyped, ExceptIs
<1>4. \A k \in Links : k # uri[t].link => Leaves4(k)
  BY <1>1, <1>2, <1>3 DEF Leaves4
<1>5. uri[t].link # NoLink => Talks(uri[t].link)
  <2>1. CASE up = upload[l]
    BY <1>1, <1>2, <2>1 DEF Talks, Drawn
  <2>2. CASE /\ up # upload[l] /\ HasRoom(upload[l])
             /\ \E p \in TransferPayloads :
                  /\ ~IsRequest(p) /\ (p.command = "TransferDataChunk" => Len(p.data) = 1)
                  /\ up = Append(upload[l], p)
    BY <1>1, <1>2, <2>2 DEF Talks, Drawn
  <2>3. QED
    BY <2>1, <2>2 DEF Sent
<1>6. u.link = l => ~Asking(up)
  <2>1. CASE up = upload[l]
    BY <2>1
  <2>2. CASE \E p \in TransferPayloads : ~IsRequest(p) /\ up = Append(upload[l], p)
    <3>1. upload[l] \in Wire
      BY InvParts
    <3>2. QED
      BY <2>2, <3>1, AskingAppend
  <2>3. QED
    BY <2>1, <2>2 DEF Sent
<1>7. OnLink(u, context', upload')
  <2>1. CASE Ends(u)
    BY <2>1 DEF Ends, OnLink, LinkCalls
  <2>2. CASE Stays(u, l, c)
    BY <1>1, <1>3, <1>6, <2>2, Bounds2 DEF Stays, OnLink
  <2>3. QED
    BY <2>1, <2>2
<1>8. u.link \in {uri[t].link, NoLink}
  BY DEF Ends, Stays
<1>9. /\ serving' \in [Askers -> Servings] /\ posted' \in Seq(0..MaxSize)
      /\ \A v \in Askers : serving'[v].queued = serving[v].queued
  BY UrisTyped
<1>10. QED
  BY <1>1, <1>2, <1>3, <1>4, <1>5, <1>7, <1>8, <1>9, AskInv

\* A call that is over.
LEMMA EndedIs ==
  ASSUME NEW u \in Uris
  PROVE  /\ Ended(u) \in Uris /\ Ends(Ended(u)) /\ Ended(u).call = "None"
         /\ Ended(u).state = "Idle" /\ Ended(u).link = NoLink
  BY DEF Uris, Ended, Ends, LinkCalls

\* What one step puts into a record of uri.
LEMMA AskedTyped ==
  ASSUME NEW u \in Uris, NEW call \in Waits \cup {"None"}
  PROVE  LET v == [u EXCEPT !.call = call]
         IN  /\ v \in Uris /\ v.call = call /\ v.link = u.link /\ v.state = u.state
             /\ v.left = u.left /\ v.size = u.size
  BY DEF Uris

-----------------------------------------------------------------------------
(* Calls on the session of a tool.                                         *)

\* The server is left alone.
LEMMA QueuedSame ==
  ASSUME Inv, UNCHANGED serving
  PROVE  /\ serving' \in [Askers -> Servings]
         /\ \A v \in Askers : serving'[v].queued = serving[v].queued
  BY UrisTyped

\* Connect.
LEMMA ConnectInv ==
  ASSUME Inv, NEW t \in Askers, ConnectUri(t)
  PROVE  Inv'
<1> DEFINE u == [uri[t] EXCEPT !.open = TRUE]
           s == [serving[t] EXCEPT !.open = TRUE]
<1>1. /\ uri' = [uri EXCEPT ![t] = u] /\ serving' = [serving EXCEPT ![t] = s]
      /\ UNCHANGED transferVars /\ fromUri' = fromUri /\ toUri' = toUri
      /\ posted' = posted /\ timeouts' = timeouts
  BY DEF ConnectUri, uriLinks, uriHistory
<1>2. uri[t] \in Uris /\ serving \in [Askers -> Servings] /\ serving[t] \in Servings
  BY UrisTyped
<1>3. /\ u \in Uris /\ u.link = uri[t].link /\ u.call = uri[t].call
      /\ u.state = uri[t].state /\ u.left = uri[t].left /\ u.size = uri[t].size
  BY <1>2 DEF Uris
<1>4. s \in Servings /\ s.queued = serving[t].queued
  BY <1>2 DEF Servings
<1> HIDE DEF u, s
<1>5. OnLink(u, context, upload)
  <2>1. OnLink(uri[t], context, upload)
    BY DEF Inv, AskersOK
  <2>2. QED
    BY <1>3, <2>1 DEF OnLink
<1>6. /\ serving' \in [Askers -> Servings] /\ serving'[t] = s
      /\ \A v \in Askers : v # t => serving'[v] = serving[v]
  BY <1>1, <1>2, <1>4, ExceptIs
<1>7. \A v \in Askers : serving'[v].queued = serving[v].queued
  BY <1>4, <1>6
<1>8. /\ toUri' \in [Askers -> Seq(UriPayloads)] /\ posted' \in Seq(0..MaxSize)
      /\ timeouts' \in 0..MaxLate
  BY <1>1, UrisTyped
<1>9. QED
  BY <1>1, <1>3, <1>5, <1>6, <1>7, <1>8, QuietInv

\* RequestURI sends its first payload.
LEMMA RequestUriInv ==
  ASSUME Inv, NEW t \in Askers, NEW size \in 0..MaxSize, RequestURI(t, size)
  PROVE  Inv'
<1> DEFINE n == Len(posted) + 1
           z == NoBlock
           e == <<>>
           inline == size <= MaxInline
           p == IF inline THEN URIRequest(n, NoBlock, size, Content(n, size))
                ELSE URIPostRequest(n, size)
           call == IF inline THEN "Response" ELSE "PostResponse"
           u == [uri[t] EXCEPT !.call = call, !.n = n, !.size = size,
                               !.received = e, !.whole = FALSE]
           a == Append(toUri[t], p)
<1>1. /\ n <= MaxRequests /\ uri[t].state = "Idle" /\ uri[t].call = "None"
      /\ toUri' = [toUri EXCEPT ![t] = a]
      /\ uri' = [uri EXCEPT ![t] = u]
      /\ posted' = Append(posted, size)
      /\ UNCHANGED transferVars /\ serving' = serving /\ fromUri' = fromUri
      /\ timeouts' = timeouts
  BY DEF RequestURI
<1>2. /\ uri[t] \in Uris /\ posted \in Seq(0..MaxSize) /\ timeouts \in 0..MaxLate
      /\ toUri \in [Askers -> Seq(UriPayloads)] /\ toUri[t] \in Seq(UriPayloads)
  BY UrisTyped
<1>3. n \in 0..MaxRequests /\ n \in Int
  BY <1>1, <1>2, Bounds2
<1>4. e \in Bytes /\ z \in 0..MaxBlocks
  BY NoBytes, Bounds
<1>5. p \in UriPayloads
  <2>1. Content(n, size) \in Bytes
    BY <1>3, ContentTyped
  <2>2. /\ URIRequest(n, NoBlock, size, Content(n, size))
             = UriPayload("URIRequest", "Success", n, z, size, Content(n, size))
        /\ URIPostRequest(n, size) = UriPayload("URIPostRequest", "Success", n, z, size, e)
    BY DEF URIRequest, URIPostRequest
  <2>3. /\ "URIRequest" \in URIMessage /\ "URIPostRequest" \in URIMessage
        /\ "Success" \in Results
    BY DEF URIMessage, Results
  <2> HIDE DEF n, z, e
  <2>4. /\ UriPayload("URIRequest", "Success", n, z, size, Content(n, size)) \in UriPayloads
        /\ UriPayload("URIPostRequest", "Success", n, z, size, e) \in UriPayloads
    BY <1>3, <1>4, <2>1, <2>3, UriPayloadTyped
  <2>5. QED
    BY <2>2, <2>4
<1>6. call \in Waits \cup {"None"} /\ call \notin LinkCalls /\ call # "Write"
  BY DEF Waits, LinkCalls
<1> HIDE DEF n, e, p, call, inline
<1>7. /\ u \in Uris /\ u.link = uri[t].link /\ u.call = call /\ u.state = "Idle"
  BY <1>1, <1>2, <1>3, <1>4, <1>6 DEF Uris
<1> HIDE DEF u
<1>8. OnLink(u, context, upload)
  <2>1. OnLink(uri[t], context, upload)
    BY DEF Inv, AskersOK
  <2>2. uri[t].link # NoLink => ~Asking(upload[uri[t].link])
    BY <1>1, <2>1 DEF OnLink
  <2>3. QED
    BY <1>6, <1>7, <2>1, <2>2 DEF OnLink
<1>9. /\ toUri' \in [Askers -> Seq(UriPayloads)] /\ posted' \in Seq(0..MaxSize)
      /\ timeouts' \in 0..MaxLate
  <2>1. a \in Seq(UriPayloads)
    BY <1>2, <1>5
  <2>2. toUri' \in [Askers -> Seq(UriPayloads)]
    BY <1>1, <1>2, <2>1
  <2>3. posted' \in Seq(0..MaxSize)
    BY <1>1, <1>2
  <2>4. QED
    BY <1>1, <1>2, <2>2, <2>3
<1>10. QED
  BY <1>1, <1>7, <1>8, <1>9, QueuedSame, QuietInv

\* A call on the session of the tool that fails, or is told nothing.
LEMMA FromUriEnds ==
  ASSUME Inv, NEW t \in Askers, NEW call, TakesFromUri(t, call),
         uri' = [uri EXCEPT ![t] = Ended(uri[t])], UNCHANGED transferVars,
         UNCHANGED toUri
  PROVE  Inv'
<1>1. /\ fromUri[t] # <<>> /\ fromUri' = [fromUri EXCEPT ![t] = Tail(fromUri[t])]
      /\ serving' = serving /\ posted' = posted /\ timeouts' = timeouts
  BY DEF TakesFromUri, AskerKeeps, uriHistory
<1>2. uri[t] \in Uris
  BY UrisTyped
<1>3. Ended(uri[t]) \in Uris /\ Ended(uri[t]).link = NoLink /\ OnLink(Ended(uri[t]), context, upload)
  BY <1>2, EndedIs DEF OnLink, LinkCalls
<1>4. /\ toUri' \in [Askers -> Seq(UriPayloads)] /\ posted' \in Seq(0..MaxSize)
      /\ timeouts' \in 0..MaxLate
  BY <1>1, UrisTyped
<1>5. QED
  BY <1>1, <1>3, <1>4, QueuedSame, QuietInv

\* It gets the answer to a URIPostRequest.
LEMMA PostResponseInv ==
  ASSUME Inv, NEW t \in Askers, TakePostResponse(t)
  PROVE  Inv'
<1> DEFINE p == Head(fromUri[t])
<1>1. /\ TakesFromUri(t, "PostResponse") /\ toUri' = toUri
      /\ fromUri[t] # <<>> /\ fromUri' = [fromUri EXCEPT ![t] = Tail(fromUri[t])]
      /\ serving' = serving /\ posted' = posted /\ timeouts' = timeouts
  BY DEF TakePostResponse, TakesFromUri, AskerKeeps, uriHistory
<1>2. CASE uri' = [uri EXCEPT ![t] = Ended(uri[t])] /\ UNCHANGED transferVars
  BY <1>1, <1>2, FromUriEnds
<1>3. CASE \E l \in Links :
             /\ OpenBlock(l, BlockRequest("PushRequest", p.block, uri[t].size))
             /\ uri' = [uri EXCEPT ![t] = [uri[t] EXCEPT
                          !.call = "PushStatus", !.block = p.block, !.link = l]]
  <2>1. PICK l \in Links :
          /\ OpenBlock(l, BlockRequest("PushRequest", p.block, uri[t].size))
          /\ uri' = [uri EXCEPT ![t] = [uri[t] EXCEPT
                       !.call = "PushStatus", !.block = p.block, !.link = l]]
    BY <1>3
  <2> DEFINE b == p.block
             u == [uri[t] EXCEPT !.call = "PushStatus", !.block = b, !.link = l]
  <2>2. uri[t] \in Uris /\ p \in UriPayloads
    BY <1>1, UrisTyped
  <2>3. uri[t].size \in 0..MaxSize /\ b \in 0..MaxBlocks
    BY <2>2 DEF Uris, UriPayloads
  <2>4. uri' = [uri EXCEPT ![t] = u]
    BY <2>1
  <2> HIDE DEF b
  <2>5. u \in Uris /\ u.link = l /\ u.call = "PushStatus"
    BY <2>2, <2>3 DEF Uris, Waits
  <2> HIDE DEF u
  <2>6. OpenBlock(l, BlockRequest("PushRequest", Head(fromUri[t]).block, uri[t].size))
    BY <2>1
  <2>7. QED
    BY <1>1, <2>3, <2>4, <2>5, <2>6, OpensInv
<1>4. QED
  BY <1>2, <1>3 DEF TakePostResponse

\* It gets the answer to a URIRequest.
LEMMA ResponseInv ==
  ASSUME Inv, NEW t \in Askers, TakeResponse(t)
  PROVE  Inv'
<1> DEFINE p == Head(fromUri[t])
           z == 0
<1>1. /\ TakesFromUri(t, "Response") /\ toUri' = toUri
      /\ fromUri[t] # <<>> /\ fromUri' = [fromUri EXCEPT ![t] = Tail(fromUri[t])]
      /\ serving' = serving /\ posted' = posted /\ timeouts' = timeouts
  BY DEF TakeResponse, TakesFromUri, AskerKeeps, uriHistory
<1>2. CASE uri' = [uri EXCEPT ![t] = Ended(uri[t])] /\ UNCHANGED transferVars
  BY <1>1, <1>2, FromUriEnds
<1>3. CASE \E l \in Links :
             /\ OpenBlock(l, BlockRequest("PullRequest", p.block, z))
             /\ uri' = [uri EXCEPT ![t] = [uri[t] EXCEPT
                          !.call = "PullHeader", !.link = l]]
  <2>1. PICK l \in Links :
          /\ OpenBlock(l, BlockRequest("PullRequest", p.block, z))
          /\ uri' = [uri EXCEPT ![t] = [uri[t] EXCEPT
                       !.call = "PullHeader", !.link = l]]
    BY <1>3
  <2> DEFINE u == [uri[t] EXCEPT !.call = "PullHeader", !.link = l]
  <2>2. uri[t] \in Uris /\ z \in 0..MaxSize
    BY UrisTyped, Bounds
  <2>3. uri' = [uri EXCEPT ![t] = u]
    BY <2>1
  <2>4. u \in Uris /\ u.link = l /\ u.call = "PullHeader"
    BY <2>2 DEF Uris, Waits
  <2>5. OpenBlock(l, BlockRequest("PullRequest", Head(fromUri[t]).block, z))
    BY <2>1
  <2> HIDE DEF u, z
  <2>6. QED
    BY <1>1, <2>2, <2>3, <2>4, <2>5, OpensInv
<1>4. QED
  BY <1>2, <1>3 DEF TakeResponse

-----------------------------------------------------------------------------
(* Calls that push.                                                        *)

\* A call that is over, whose link is closed; it took a reply if there was one.
LEMMA LinkEnds ==
  ASSUME Inv, NEW t \in Askers, NEW u \in Uris, uri' = [uri EXCEPT ![t] = u],
         NEW l \in Links, l = uri[t].link, Ends(u),
         CloseLink(l) \/ (download[l] # <<>> /\ CloseLinkTaking(l)),
         serving' = serving, fromUri' = fromUri, posted' = posted,
         toUri' \in [Askers -> Seq(UriPayloads)], timeouts' \in 0..MaxLate
  PROVE  Inv'
<1> DEFINE up == upload[l]
           c == NoContext
<1>1. /\ upload \in [Links -> Wire] /\ download \in [Links -> Wire] /\ up \in Wire
      /\ download[l] \in Wire
  BY InvParts
<1>2. /\ UNCHANGED <<blocks, opened, transfers>> /\ upload' = upload
      /\ context' = [context EXCEPT ![l] = c]
  BY DEF CloseLink, CloseLinkTaking, ClientKeeps
<1>3. upload' = [upload EXCEPT ![l] = up] /\ c \in Contexts
  BY <1>1, <1>2, NoContextTyped
<1>4. u.link # l
  BY Bounds2 DEF Ends
<1> HIDE DEF up, c
<1>5. CASE CloseLink(l)
  <2> DEFINE down == download[l]
  <2>1. download' = [download EXCEPT ![l] = down] /\ down \in Wire
    BY <1>1, <1>5 DEF CloseLink
  <2>2. up = upload[l]
    BY DEF up
  <2>3. Sent(upload[l], up) /\ Drawn(download[l], down)
    BY <2>2 DEF Sent, Drawn
  <2> HIDE DEF down
  <2>4. QED
    BY <1>1, <1>2, <1>3, <1>4, <2>1, <2>2, <2>3, LinkInv
<1>6. CASE download[l] # <<>> /\ CloseLinkTaking(l)
  <2> DEFINE down == Tail(download[l])
  <2>1. download' = [download EXCEPT ![l] = down]
    BY <1>6 DEF CloseLinkTaking
  <2>2. up = upload[l]
    BY DEF up
  <2>3. down \in Wire
    BY <1>1, <1>6 DEF Wire
  <2>4. Sent(upload[l], up) /\ Drawn(download[l], down)
    BY <1>6, <2>2 DEF Sent, Drawn
  <2> HIDE DEF down
  <2>5. QED
    BY <1>1, <1>2, <1>3, <1>4, <2>1, <2>2, <2>3, <2>4, LinkInv
<1>7. QED
  BY <1>5, <1>6

\* A call that takes a reply and goes on.
LEMMA LinkTakes ==
  ASSUME Inv, NEW t \in Askers, NEW u \in Uris, uri' = [uri EXCEPT ![t] = u],
         NEW l \in Links, l = uri[t].link, NEW c \in Contexts, Stays(u, l, c),
         TakeReply(l, c), serving' = serving, fromUri' = fromUri,
         posted' = posted, toUri' = toUri, timeouts' = timeouts
  PROVE  Inv'
<1> DEFINE up == upload[l]
           down == Tail(download[l])
<1>1. /\ upload \in [Links -> Wire] /\ download \in [Links -> Wire] /\ up \in Wire
      /\ download[l] \in Wire
  BY InvParts
<1>2. /\ UNCHANGED <<blocks, opened, transfers>> /\ upload' = upload
      /\ download[l] # <<>> /\ download' = [download EXCEPT ![l] = down]
      /\ context' = [context EXCEPT ![l] = c]
  BY DEF TakeReply, ClientKeeps
<1>3. upload' = [upload EXCEPT ![l] = up]
  BY <1>1, <1>2
<1>4. ~Asking(upload[l])
  BY <1>2, FreeLink
<1>5. down \in Wire
  BY <1>1, <1>2 DEF Wire
<1>6. /\ toUri' \in [Askers -> Seq(UriPayloads)] /\ timeouts' \in 0..MaxLate
  BY UrisTyped
<1>7. Sent(upload[l], up) /\ Drawn(download[l], down) /\ up = upload[l]
  BY <1>2 DEF Sent, Drawn
<1> HIDE DEF up, down
<1>8. QED
  BY <1>1, <1>2, <1>3, <1>4, <1>5, <1>6, <1>7, LinkInv

\* A call that sends something but a request, and goes on.
LEMMA LinkSends ==
  ASSUME Inv, NEW t \in Askers, NEW u \in Uris, uri' = [uri EXCEPT ![t] = u],
         NEW l \in Links, l = uri[t].link, NEW c \in Contexts, Stays(u, l, c),
         uri[t].call \notin {"PushStatus", "PullHeader"},
         NEW p \in TransferPayloads, ~IsRequest(p),
         p.command = "TransferDataChunk" => Len(p.data) = 1,
         SendTransferPayload(l, p, c), serving' = serving, fromUri' = fromUri,
         posted' = posted, toUri' = toUri, timeouts' = timeouts
  PROVE  Inv'
<1> DEFINE up == Append(upload[l], p)
           down == download[l]
<1>1. /\ upload \in [Links -> Wire] /\ download \in [Links -> Wire] /\ down \in Wire
      /\ upload[l] \in Wire
  BY InvParts
<1>2. /\ UNCHANGED <<blocks, opened, transfers>> /\ download' = download
      /\ HasRoom(upload[l]) /\ upload' = [upload EXCEPT ![l] = up]
      /\ context' = [context EXCEPT ![l] = c]
  BY DEF SendTransferPayload, ClientKeeps
<1>3. download' = [download EXCEPT ![l] = down]
  BY <1>1, <1>2
<1>4. ~Asking(upload[l])
  BY FreeLink
<1>5. up \in Wire
  BY <1>1 DEF Wire
<1>6. /\ toUri' \in [Askers -> Seq(UriPayloads)] /\ timeouts' \in 0..MaxLate
  BY UrisTyped
<1>7. Sent(upload[l], up) /\ Drawn(download[l], down)
  BY <1>2 DEF Sent, Drawn
<1> HIDE DEF up, down
<1>8. QED
  BY <1>1, <1>2, <1>3, <1>4, <1>5, <1>6, <1>7, LinkInv

\* What a call knows that takes a reply from its link.
LEMMA TakesIs ==
  ASSUME Inv, NEW t \in Askers, NEW call, TakesFromLink(t, call), UNCHANGED fromUri
  PROVE  /\ uri[t] \in Uris /\ uri[t].call = call /\ uri[t].link \in Links
         /\ download[uri[t].link] # <<>> /\ Reply(uri[t].link) \in TransferPayloads
         /\ serving' = serving /\ posted' = posted /\ timeouts' = timeouts
         /\ timeouts' \in 0..MaxLate
         /\ toUri \in [Askers -> Seq(UriPayloads)]
         /\ context[uri[t].link] \in Contexts /\ context[uri[t].link].state # "Closed"
<1>1. /\ uri[t].call = call /\ uri[t].link # NoLink /\ download[uri[t].link] # <<>>
      /\ serving' = serving /\ posted' = posted /\ timeouts' = timeouts
  BY DEF TakesFromLink, AskerKeeps, uriHistory
<1>2. uri[t] \in Uris /\ uri[t].link \in Links
  BY <1>1, UrisTyped
<1>3. Reply(uri[t].link) \in TransferPayloads
  BY <1>1, <1>2, InvParts DEF Wire, Reply
<1>4. context[uri[t].link] \in Contexts
  BY <1>2, UrisTyped
<1>5. context[uri[t].link].state # "Closed"
  BY <1>1 DEF Inv, AskersOK, OnLink
<1>6. QED
  BY <1>1, <1>2, <1>3, <1>4, <1>5, UrisTyped

\* OpenPushBlock gets its answer.
LEMMA PushStatusInv ==
  ASSUME Inv, NEW t \in Askers, TakePushStatus(t)
  PROVE  Inv'
<1> DEFINE l == uri[t].link
           size == uri[t].size
           e == <<>>
           c == [state |-> "InProgress", total |-> size, data |-> e]
           u == [uri[t] EXCEPT !.call = "Write", !.left = size]
           v == Ended(uri[t])
<1>1. /\ TakesFromLink(t, "PushStatus") /\ toUri' = toUri /\ fromUri' = fromUri
      /\ \/ TakeReply(l, c) /\ uri' = [uri EXCEPT ![t] = u]
         \/ CloseLinkTaking(l) /\ uri' = [uri EXCEPT ![t] = v]
  BY DEF TakePushStatus, uriLinks
<1>2. /\ uri[t] \in Uris /\ l \in Links /\ download[l] # <<>>
      /\ serving' = serving /\ posted' = posted /\ timeouts' = timeouts
      /\ timeouts' \in 0..MaxLate /\ toUri' \in [Askers -> Seq(UriPayloads)]
      /\ uri[t].call = "PushStatus"
  BY <1>1, TakesIs
<1>3. size \in 0..MaxSize /\ size <= size
  BY <1>2 DEF Uris
<1>4. c \in Contexts /\ c.state = "InProgress" /\ c.total = size
  BY <1>3, NoBytes, ContextTyped
<1>5. u \in Uris /\ u.link = l /\ u.call = "Write" /\ u.left = size /\ u.size = size
  BY <1>2, <1>3 DEF Uris, Waits
<1>6. v \in Uris /\ Ends(v)
  BY <1>2, EndedIs
<1> HIDE DEF c, u, v
<1>7. CASE TakeReply(l, c) /\ uri' = [uri EXCEPT ![t] = u]
  <2>1. Stays(u, l, c)
    BY <1>3, <1>4, <1>5 DEF Stays
  <2>2. QED
    BY <1>1, <1>2, <1>4, <1>5, <1>7, <2>1, LinkTakes
<1>8. CASE CloseLinkTaking(l) /\ uri' = [uri EXCEPT ![t] = v]
  BY <1>1, <1>2, <1>6, <1>8, LinkEnds
<1>9. QED
  BY <1>1, <1>7, <1>8

\* The context of a write after one more chunk, and the chunk.
LEMMA SummedIs ==
  ASSUME Inv, NEW t \in Askers, uri[t].call = "Write", uri[t].left > 0,
         uri[t].link \in Links
  PROVE  LET u == uri[t]
             one == <<<<u.n, u.size - u.left + 1>>>>
         IN  /\ Summed(t) \in Contexts /\ Summed(t).state = context[u.link].state
             /\ Summed(t).state # "Closed"
             /\ one \in Bytes /\ Len(one) = 1
             /\ u.left - 1 \in 0..MaxSize /\ u.left - 1 <= u.size /\ u \in Uris
<1> DEFINE u == uri[t]
           pair == <<u.n, u.size - u.left + 1>>
           one == <<pair>>
           c == context[u.link]
<1>1. u \in Uris /\ c \in Contexts
  BY UrisTyped
<1>2. /\ u.n \in 0..MaxRequests /\ u.size \in 0..MaxSize /\ u.left \in 0..MaxSize
      /\ u.left <= u.size /\ c.state # "Closed"
  BY <1>1, Bounds2 DEF Uris, Inv, AskersOK, OnLink
<1>3. pair \in Int \X Nat
  <2>1. u.n \in Int /\ u.size - u.left + 1 \in Nat
    BY <1>2, Bounds, Bounds2
  <2>2. QED
    BY <2>1
<1>4. c.data \in Bytes
  BY <1>1 DEF Contexts
<1> DEFINE d == Append(c.data, pair)
<1>5. Summed(t) = [c EXCEPT !.data = d]
  BY DEF Summed
<1> HIDE DEF pair
<1>6. d \in Bytes /\ one \in Bytes /\ Len(one) = 1
  BY <1>3, <1>4 DEF Bytes
<1> HIDE DEF d, c
<1>7. [c EXCEPT !.data = d] \in Contexts /\ [c EXCEPT !.data = d].state = c.state
  BY <1>1, <1>6 DEF Contexts
<1>8. u.left - 1 \in 0..MaxSize /\ u.left - 1 <= u.size
  BY <1>2, Bounds
<1>9. QED
  BY <1>1, <1>2, <1>5, <1>6, <1>7, <1>8 DEF c, pair

\* WritePushTransferData sends a chunk.
LEMMA WriteChunkInv ==
  ASSUME Inv, NEW t \in Askers, WriteChunk(t)
  PROVE  Inv'
<1> DEFINE l == uri[t].link
           one == <<<<uri[t].n, uri[t].size - uri[t].left + 1>>>>
           p == Chunk(one)
           c == Summed(t)
           left == uri[t].left - 1
           u == [uri[t] EXCEPT !.left = left]
<1>1. /\ uri[t].call = "Write" /\ uri[t].left > 0
      /\ SendTransferPayload(l, p, c)
      /\ uri' = [uri EXCEPT ![t] = u] /\ serving' = serving /\ posted' = posted
      /\ timeouts' = timeouts /\ toUri' = toUri /\ fromUri' = fromUri
  BY DEF WriteChunk, AskerKeeps, uriLinks, uriHistory
<1>2. l \in Links
  BY <1>1, UrisTyped DEF Inv, AskersOK, OnLink, LinkCalls
<1>3. /\ c \in Contexts /\ c.state # "Closed" /\ one \in Bytes /\ Len(one) = 1
      /\ left \in 0..MaxSize /\ left <= uri[t].size /\ uri[t] \in Uris
  BY <1>1, <1>2, SummedIs
<1>4. /\ p \in TransferPayloads /\ ~IsRequest(p) /\ Len(p.data) = 1
  BY <1>3, ChunkTyped DEF IsRequest
<1> HIDE DEF p, c, left, one
<1>5. /\ u \in Uris /\ u.link = l /\ u.call = "Write" /\ u.left = left
      /\ u.size = uri[t].size
  BY <1>1, <1>3 DEF Uris
<1> HIDE DEF u
<1>6. Stays(u, l, c)
  BY <1>3, <1>5 DEF Stays
<1>7. uri[t].call \notin {"PushStatus", "PullHeader"}
  BY <1>1
<1>8. QED
  BY <1>1, <1>2, <1>3, <1>4, <1>5, <1>6, <1>7, LinkSends

\* It has to send a chunk again.
LEMMA WriteTimesOutInv ==
  ASSUME Inv, NEW t \in Askers, WriteTimesOut(t)
  PROVE  Inv'
<1> DEFINE l == uri[t].link
           u == uri[t]
           c == Summed(t)
           up == upload[l]
           down == download[l]
<1>1. /\ uri[t].call = "Write" /\ uri[t].left > 0
      /\ timeouts < MaxLate /\ timeouts' = timeouts + 1
      /\ context' = [context EXCEPT ![l] = c]
      /\ UNCHANGED <<blocks, opened, transfers>>
      /\ upload' = upload /\ download' = download /\ uri' = uri
      /\ serving' = serving /\ posted' = posted /\ toUri' = toUri /\ fromUri' = fromUri
  BY DEF WriteTimesOut, ClientKeeps, uriLinks, uriHistory
<1>2. l \in Links
  BY <1>1, UrisTyped DEF Inv, AskersOK, OnLink, LinkCalls
<1>3. c \in Contexts /\ c.state # "Closed"
  BY <1>1, <1>2, SummedIs
<1>4. /\ up \in Wire /\ down \in Wire /\ upload' = [upload EXCEPT ![l] = up]
      /\ download' = [download EXCEPT ![l] = down] /\ uri' = [uri EXCEPT ![t] = u]
      /\ u \in Uris /\ toUri' \in [Askers -> Seq(UriPayloads)]
  BY <1>1, <1>2, InvParts, UrisTyped
<1>5. timeouts' \in 0..MaxLate
  BY <1>1, UrisTyped, Bounds2
<1> HIDE DEF c
<1>6. Stays(u, l, c)
  BY <1>1, <1>3 DEF Stays, Inv, AskersOK, OnLink
<1>7. ~Asking(upload[l])
  BY <1>1, <1>2, FreeLink
<1>8. Sent(upload[l], up) /\ Drawn(download[l], down) /\ u.link = l
  BY DEF Sent, Drawn
<1> HIDE DEF up, down, u
<1>9. QED
  BY <1>1, <1>2, <1>3, <1>4, <1>5, <1>6, <1>7, <1>8, LinkInv

-----------------------------------------------------------------------------
(* Calls that end a push and begin a pull.                                 *)

\* ClosePushTransfer sends the sentinel.
LEMMA FinalizeInv ==
  ASSUME Inv, NEW t \in Askers, FinalizePush(t)
  PROVE  Inv'
<1> DEFINE l == uri[t].link
           c == context[l]
           p == Sentinel("Success", c.data)
           u == [uri[t] EXCEPT !.call = "PushResult"]
<1>1. /\ uri[t].call = "Write"
      /\ SendTransferPayload(l, p, c)
      /\ uri' = [uri EXCEPT ![t] = u] /\ serving' = serving /\ posted' = posted
      /\ timeouts' = timeouts /\ toUri' = toUri /\ fromUri' = fromUri
  BY DEF FinalizePush, AskerKeeps, uriLinks, uriHistory
<1>2. uri[t] \in Uris /\ l \in Links
  BY <1>1, UrisTyped DEF Inv, AskersOK, OnLink, LinkCalls
<1>3. c \in Contexts /\ c.state # "Closed" /\ c.data \in Bytes
  <2>1. c \in Contexts
    BY <1>2, UrisTyped
  <2>2. c.state # "Closed"
    BY <1>2, Bounds2 DEF Inv, AskersOK, OnLink
  <2>3. QED
    BY <2>1, <2>2 DEF Contexts
<1>4. p \in TransferPayloads /\ ~IsRequest(p) /\ p.command # "TransferDataChunk"
  BY <1>3, SentinelTyped DEF Results, IsRequest
<1> HIDE DEF p, c
<1>5. u \in Uris /\ u.link = l /\ u.call = "PushResult"
  BY <1>2, AskedTyped DEF Waits
<1> HIDE DEF u
<1>6. Stays(u, l, c)
  BY <1>3, <1>5 DEF Stays
<1>7. uri[t].call \notin {"PushStatus", "PullHeader"}
  BY <1>1
<1>8. QED
  BY <1>1, <1>2, <1>3, <1>4, <1>5, <1>6, <1>7, LinkSends

\* It gets its answer.
LEMMA PushResultInv ==
  ASSUME Inv, NEW t \in Askers, TakePushResult(t)
  PROVE  Inv'
<1> DEFINE l == uri[t].link
           v == Ended(uri[t])
           u == [v EXCEPT !.call = "Response"]
           e == <<>>
           p == URIRequest(uri[t].n, uri[t].block, uri[t].size, e)
           a == Append(toUri[t], p)
<1>1. /\ TakesFromLink(t, "PushResult") /\ CloseLinkTaking(l) /\ fromUri' = fromUri
      /\ \/ toUri' = [toUri EXCEPT ![t] = a] /\ uri' = [uri EXCEPT ![t] = u]
         \/ toUri' = toUri /\ uri' = [uri EXCEPT ![t] = v]
  BY DEF TakePushResult
<1>2. /\ uri[t] \in Uris /\ l \in Links /\ download[l] # <<>>
      /\ serving' = serving /\ posted' = posted
      /\ timeouts' \in 0..MaxLate /\ toUri \in [Askers -> Seq(UriPayloads)]
  BY <1>1, TakesIs
<1>3. v \in Uris /\ Ends(v)
  BY <1>2, EndedIs
<1>4. u \in Uris /\ Ends(u)
  <2> HIDE DEF v
  <2>1. "Response" \in Waits \cup {"None"}
    BY DEF Waits
  <2>2. u \in Uris /\ u.call = "Response" /\ u.link = v.link /\ u.state = v.state
    BY <1>3, <2>1, AskedTyped
  <2>3. QED
    BY <1>3, <2>2 DEF Ends, LinkCalls
<1>5. p \in UriPayloads
  <2>1. /\ uri[t].n \in 0..MaxRequests /\ uri[t].block \in 0..MaxBlocks
        /\ uri[t].size \in 0..MaxSize
    BY <1>2 DEF Uris
  <2>2. e \in Bytes /\ "URIRequest" \in URIMessage /\ "Success" \in Results
    BY NoBytes DEF URIMessage, Results
  <2>3. p = UriPayload("URIRequest", "Success", uri[t].n, uri[t].block, uri[t].size, e)
    BY DEF URIRequest
  <2> HIDE DEF e, p
  <2>4. QED
    BY <2>1, <2>2, <2>3, UriPayloadTyped
<1> HIDE DEF u, v, p
<1>6. [toUri EXCEPT ![t] = a] \in [Askers -> Seq(UriPayloads)]
  <2>1. a \in Seq(UriPayloads)
    BY <1>2, <1>5
  <2>2. QED
    BY <1>2, <2>1
<1>7. toUri' \in [Askers -> Seq(UriPayloads)]
  BY <1>1, <1>2, <1>6
<1>8. CASE uri' = [uri EXCEPT ![t] = u]
  BY <1>1, <1>2, <1>4, <1>7, <1>8, LinkEnds
<1>9. CASE uri' = [uri EXCEPT ![t] = v]
  BY <1>1, <1>2, <1>3, <1>7, <1>9, LinkEnds
<1>10. QED
  BY <1>1, <1>8, <1>9

\* A call that takes a reply, sends something but a request, and goes on.
LEMMA LinkAnswers ==
  ASSUME Inv, NEW t \in Askers, NEW u \in Uris, uri' = [uri EXCEPT ![t] = u],
         NEW l \in Links, l = uri[t].link, Stays(u, l, context[l]),
         download[l] # <<>>, download' = [download EXCEPT ![l] = Tail(download[l])],
         NEW p \in TransferPayloads, ~IsRequest(p), p.command # "TransferDataChunk",
         HasRoom(upload[l]),
         upload' = [upload EXCEPT ![l] = Append(upload[l], p)],
         UNCHANGED context, ClientKeeps, serving' = serving, fromUri' = fromUri,
         posted' = posted, toUri' = toUri, timeouts' = timeouts
  PROVE  Inv'
<1> DEFINE up == Append(upload[l], p)
           down == Tail(download[l])
           c == context[l]
<1>1. /\ upload[l] \in Wire /\ download[l] \in Wire
      /\ UNCHANGED <<blocks, opened, transfers>>
  BY InvParts DEF ClientKeeps
<1>2. c \in Contexts /\ context' = [context EXCEPT ![l] = c]
  BY UrisTyped
<1>3. ~Asking(upload[l])
  BY FreeLink
<1>4. up \in Wire /\ down \in Wire
  BY <1>1 DEF Wire
<1>5. /\ toUri' \in [Askers -> Seq(UriPayloads)] /\ timeouts' \in 0..MaxLate
  BY UrisTyped
<1>6. Stays(u, l, c)
  OBVIOUS
<1>7. Sent(upload[l], up) /\ Drawn(download[l], down)
  BY DEF Sent, Drawn
<1>8. /\ upload' = [upload EXCEPT ![l] = up] /\ download' = [download EXCEPT ![l] = down]
  OBVIOUS
<1> HIDE DEF c, up, down
<1>9. QED
  BY <1>1, <1>2, <1>3, <1>4, <1>5, <1>6, <1>7, <1>8, LinkInv

\* OpenPullBlock gets its answer.
LEMMA PullHeaderInv ==
  ASSUME Inv, NEW t \in Askers, TakePullHeader(t)
  PROVE  Inv'
<1> DEFINE l == uri[t].link
           p == Reply(l)
           n == p.size
           e == <<>>
           c == [state |-> "InProgress", total |-> n, data |-> e]
           u == [uri[t] EXCEPT !.call = "None", !.state = "ReadResponse"]
           w == [uri[t] EXCEPT !.call = "Abort", !.whole = TRUE]
           v == Ended(uri[t])
           s == Status("Aborted")
           up == Append(upload[l], s)
           down == Tail(download[l])
           Reads == n > 0 /\ TakeReply(l, c) /\ uri' = [uri EXCEPT ![t] = u]
           Aborts == /\ HasRoom(upload[l])
                     /\ download' = [download EXCEPT ![l] = down]
                     /\ upload' = [upload EXCEPT ![l] = up]
                     /\ UNCHANGED context /\ ClientKeeps
                     /\ uri' = [uri EXCEPT ![t] = w]
           Fails == CloseLinkTaking(l) /\ uri' = [uri EXCEPT ![t] = v]
<1>1. /\ TakesFromLink(t, "PullHeader") /\ toUri' = toUri /\ fromUri' = fromUri
      /\ Reads \/ Aborts \/ Fails
  BY DEF TakePullHeader, uriLinks
<1>2. /\ uri[t] \in Uris /\ l \in Links /\ download[l] # <<>> /\ p \in TransferPayloads
      /\ serving' = serving /\ posted' = posted /\ timeouts' = timeouts
      /\ timeouts' \in 0..MaxLate /\ toUri' \in [Askers -> Seq(UriPayloads)]
      /\ uri[t].call = "PullHeader"
      /\ context[l] \in Contexts /\ context[l].state # "Closed"
  BY <1>1, TakesIs
<1>3. v \in Uris /\ Ends(v)
  BY <1>2, EndedIs
<1>4. CASE Fails
  <2> HIDE DEF v
  <2>1. CloseLinkTaking(l) /\ uri' = [uri EXCEPT ![t] = v]
    BY <1>4
  <2>2. QED
    BY <1>1, <1>2, <1>3, <2>1, LinkEnds
<1>5. CASE Reads
  <2>1. n \in 0..MaxSize
    BY <1>2 DEF TransferPayloads
  <2>2. c \in Contexts /\ c.state = "InProgress" /\ c.total = n
    BY <2>1, NoBytes, ContextTyped
  <2>3. u \in Uris /\ u.link = l /\ u.call = "None"
    BY <1>2 DEF Uris
  <2>4. TakeReply(l, c) /\ uri' = [uri EXCEPT ![t] = u] /\ n > 0
    BY <1>5
  <2> HIDE DEF n, c, u
  <2>5. Stays(u, l, c)
    BY <2>1, <2>2, <2>3, <2>4, Bounds DEF Stays
  <2>6. QED
    BY <1>1, <1>2, <2>2, <2>3, <2>4, <2>5, LinkTakes
<1>6. CASE Aborts
  <2>1. /\ w \in Uris /\ w.link = l /\ w.call = "Abort" /\ w.state = uri[t].state
    BY <1>2 DEF Uris, Waits
  <2>2. s \in TransferPayloads /\ ~IsRequest(s) /\ s.command # "TransferDataChunk"
    BY StatusTyped DEF Results, IsRequest
  <2>3. /\ HasRoom(upload[l]) /\ ClientKeeps /\ UNCHANGED context
        /\ download' = [download EXCEPT ![l] = down]
        /\ upload' = [upload EXCEPT ![l] = up]
        /\ uri' = [uri EXCEPT ![t] = w]
    BY <1>6
  <2> HIDE DEF w, s
  <2>4. Stays(w, l, context[l])
    BY <1>2, <2>1 DEF Stays
  <2>5. QED
    BY <1>1, <1>2, <2>1, <2>2, <2>3, <2>4, LinkAnswers
<1>7. QED
  BY <1>1, <1>4, <1>5, <1>6

\* ReadPullTransferData reads a chunk.
LEMMA ReadResponseInv ==
  ASSUME Inv, NEW t \in Askers, ReadResponse(t)
  PROVE  Inv'
<1> DEFINE l == uri[t].link
           c == context[l]
           n == c.total - 1
           x == c.data \o Reply(l).data
           d == [c EXCEPT !.total = n, !.data = x]
           call == IF c.total = 1 THEN "Sentinel" ELSE "None"
           u == [uri[t] EXCEPT !.call = call]
           v == Ended(uri[t])
           Reads == TakeReply(l, d) /\ uri' = [uri EXCEPT ![t] = u]
           Fails == CloseLinkTaking(l) /\ uri' = [uri EXCEPT ![t] = v]
<1>1. /\ TakesFromLink(t, "None") /\ toUri' = toUri /\ fromUri' = fromUri
      /\ uri[t].state = "ReadResponse"
      /\ Reads \/ Fails
  BY DEF ReadResponse, uriLinks
<1>2. /\ uri[t] \in Uris /\ l \in Links /\ download[l] # <<>> /\ Reply(l) \in TransferPayloads
      /\ serving' = serving /\ posted' = posted /\ timeouts' = timeouts
      /\ timeouts' \in 0..MaxLate /\ toUri' \in [Askers -> Seq(UriPayloads)]
      /\ uri[t].call = "None" /\ c \in Contexts /\ c.state # "Closed"
  BY <1>1, TakesIs
<1>3. v \in Uris /\ Ends(v)
  BY <1>2, EndedIs
<1>4. CASE Fails
  <2> HIDE DEF v
  <2>1. CloseLinkTaking(l) /\ uri' = [uri EXCEPT ![t] = v]
    BY <1>4
  <2>2. QED
    BY <1>1, <1>2, <1>3, <2>1, LinkEnds
<1>5. CASE Reads
  <2>1. TakeReply(l, d) /\ uri' = [uri EXCEPT ![t] = u]
    BY <1>5
  <2>2. c.total \in 0..MaxSize /\ c.total >= 1 /\ c.data \in Bytes
    BY <1>1, <1>2 DEF Contexts, Inv, AskersOK, OnLink
  <2>3. n \in 0..MaxSize /\ (c.total # 1 => n >= 1)
    BY <2>2, Bounds
  <2>4. Reply(l).data \in Bytes
    BY <1>2 DEF TransferPayloads
  <2>5. x \in Bytes
    BY <2>2, <2>4, BytesPlus
  <2>6. call \in Waits \cup {"None"} /\ call \in {"Sentinel", "None"}
        /\ (call = "None" => c.total # 1)
    BY DEF Waits
  <2> HIDE DEF n, x, call, c
  <2>7. d \in Contexts /\ d.state = c.state /\ d.total = n
    BY <1>2, <2>3, <2>5 DEF Contexts
  <2>8. u \in Uris /\ u.link = l /\ u.call = call
    BY <1>2, <2>6, AskedTyped
  <2> HIDE DEF d, u
  <2>9. Stays(u, l, d)
    BY <1>2, <2>3, <2>6, <2>7, <2>8 DEF Stays
  <2>10. QED
    BY <1>1, <1>2, <2>1, <2>7, <2>8, <2>9, LinkTakes
<1>6. QED
  BY <1>1, <1>4, <1>5

-----------------------------------------------------------------------------
(* Calls that end a pull, and ends of all kinds.                           *)

\* It reads the sentinel.
LEMMA PullSentinelInv ==
  ASSUME Inv, NEW t \in Askers, TakePullSentinel(t)
  PROVE  Inv'
<1> DEFINE l == uri[t].link
           right == Reply(l) = Sentinel("Success", context[l].data)
           v == Ended(uri[t])
           x == IF right THEN context[l].data ELSE uri[t].received
           u == [v EXCEPT !.whole = right, !.received = x]
<1>1. /\ TakesFromLink(t, "Sentinel") /\ toUri' = toUri /\ fromUri' = fromUri
      /\ CloseLinkTaking(l)
  BY DEF TakePullSentinel, uriLinks
<1>2. uri' = [uri EXCEPT ![t] = u]
  BY DEF TakePullSentinel
<1>3. /\ uri[t] \in Uris /\ l \in Links /\ download[l] # <<>>
      /\ serving' = serving /\ posted' = posted /\ context[l] \in Contexts
      /\ timeouts' \in 0..MaxLate /\ toUri \in [Askers -> Seq(UriPayloads)]
  BY <1>1, TakesIs
<1>4. v \in Uris /\ Ends(v)
  BY <1>3, EndedIs
<1>5. x \in Bytes
  BY <1>3, <1>4 DEF Uris, Contexts
<1>6. right \in BOOLEAN
  OBVIOUS
<1> HIDE DEF v, x, right
<1>7. u \in Uris /\ u.link = v.link /\ u.call = v.call /\ u.state = v.state
  BY <1>4, <1>5, <1>6 DEF Uris
<1>8. Ends(u)
  BY <1>4, <1>7 DEF Ends
<1> HIDE DEF u
<1>9. toUri' \in [Askers -> Seq(UriPayloads)]
  BY <1>1, <1>3
<1>10. QED
  BY <1>1, <1>2, <1>3, <1>7, <1>8, <1>9, LinkEnds

\* ClosePullBlock aborts the transfer.
LEMMA AbortInv ==
  ASSUME Inv, NEW t \in Askers, AbortRequest(t)
  PROVE  Inv'
<1> DEFINE l == uri[t].link
           c == context[l]
           p == Status("Aborted")
           u == [uri[t] EXCEPT !.state = "Idle", !.call = "Abort"]
<1>1. /\ uri[t].call = "None" /\ uri[t].state = "ReadResponse"
      /\ SendTransferPayload(l, p, c)
      /\ uri' = [uri EXCEPT ![t] = u] /\ serving' = serving /\ posted' = posted
      /\ timeouts' = timeouts /\ toUri' = toUri /\ fromUri' = fromUri
  BY DEF AbortRequest, AskerKeeps, uriLinks, uriHistory
<1>2. uri[t] \in Uris /\ l \in Links
  BY <1>1, UrisTyped DEF Inv, AskersOK, OnLink
<1>3. c \in Contexts /\ c.state # "Closed"
  BY <1>2, UrisTyped, Bounds2 DEF Inv, AskersOK, OnLink
<1>4. p \in TransferPayloads /\ ~IsRequest(p) /\ p.command # "TransferDataChunk"
  BY StatusTyped DEF Results, IsRequest
<1>5. u \in Uris /\ u.link = l /\ u.call = "Abort" /\ u.state = "Idle"
  BY <1>2 DEF Uris, Waits
<1> HIDE DEF p, c, u
<1>6. Stays(u, l, c)
  BY <1>3, <1>5 DEF Stays
<1>7. uri[t].call \notin {"PushStatus", "PullHeader"}
  BY <1>1
<1>8. QED
  BY <1>1, <1>2, <1>3, <1>4, <1>5, <1>6, <1>7, LinkSends

\* It waits for the sentinel.
LEMMA DiscardInv ==
  ASSUME Inv, NEW t \in Askers, DiscardUntilSentinel(t)
  PROVE  Inv'
<1> DEFINE l == uri[t].link
           c == context[l]
           u == uri[t]
           v == Ended(uri[t])
<1>1. /\ TakesFromLink(t, "Abort") /\ toUri' = toUri /\ fromUri' = fromUri
      /\ \/ TakeReply(l, c) /\ uri' = uri
         \/ CloseLinkTaking(l) /\ uri' = [uri EXCEPT ![t] = v]
  BY DEF DiscardUntilSentinel, uriLinks
<1>2. /\ uri[t] \in Uris /\ l \in Links /\ download[l] # <<>>
      /\ serving' = serving /\ posted' = posted /\ timeouts' = timeouts
      /\ timeouts' \in 0..MaxLate /\ toUri' \in [Askers -> Seq(UriPayloads)]
      /\ uri[t].call = "Abort" /\ c \in Contexts /\ c.state # "Closed"
  BY <1>1, TakesIs
<1>3. v \in Uris /\ Ends(v)
  BY <1>2, EndedIs
<1> HIDE DEF v
<1>4. CASE CloseLinkTaking(l) /\ uri' = [uri EXCEPT ![t] = v]
  BY <1>1, <1>2, <1>3, <1>4, LinkEnds
<1>5. CASE TakeReply(l, c) /\ uri' = uri
  <2>1. Stays(u, l, c)
    BY <1>2 DEF Stays
  <2>2. uri' = [uri EXCEPT ![t] = u]
    BY <1>5, UrisTyped
  <2> HIDE DEF c, u
  <2>3. u \in Uris
    BY <1>2 DEF u
  <2>4. QED
    BY <1>1, <1>2, <1>5, <2>1, <2>2, <2>3, LinkTakes
<1>6. QED
  BY <1>1, <1>4, <1>5

\* A call times out.
LEMMA AskTimesOutInv ==
  ASSUME Inv, NEW t \in Askers, AskTimesOut(t)
  PROVE  Inv'
<1> DEFINE l == uri[t].link
           v == Ended(uri[t])
           late == uri[t].late \/ l = NoLink
           u == [v EXCEPT !.late = late]
<1>1. /\ timeouts < MaxLate /\ timeouts' = timeouts + 1
      /\ uri' = [uri EXCEPT ![t] = u]
      /\ toUri' = toUri /\ fromUri' = fromUri /\ serving' = serving /\ posted' = posted
      /\ IF l = NoLink THEN UNCHANGED transferVars ELSE CloseLink(l)
  BY DEF AskTimesOut, uriLinks, uriHistory
<1>2. /\ uri[t] \in Uris /\ l \in Links \cup {NoLink}
      /\ toUri' \in [Askers -> Seq(UriPayloads)] /\ posted' \in Seq(0..MaxSize)
  BY <1>1, UrisTyped
<1>3. timeouts' \in 0..MaxLate
  BY <1>1, UrisTyped, Bounds2
<1>4. v \in Uris /\ Ends(v)
  BY <1>2, EndedIs
<1>5. late \in BOOLEAN
  BY <1>2 DEF Uris
<1> HIDE DEF v, late
<1>6. u \in Uris /\ u.link = v.link /\ u.call = v.call /\ u.state = v.state
  BY <1>4, <1>5 DEF Uris
<1> HIDE DEF u
<1>7. Ends(u)
  BY <1>4, <1>6 DEF Ends
<1>8. CASE l = NoLink
  <2>1. UNCHANGED transferVars
    BY <1>1, <1>8
  <2>2. OnLink(u, context, upload) /\ u.link = NoLink
    BY <1>7 DEF Ends, OnLink, LinkCalls
  <2>3. QED
    BY <1>1, <1>2, <1>3, <1>6, <2>1, <2>2, QueuedSame, QuietInv
<1>9. CASE l # NoLink
  <2>1. CloseLink(l) /\ l \in Links
    BY <1>1, <1>2, <1>9
  <2>2. QED
    BY <1>1, <1>2, <1>3, <1>6, <1>7, <2>1, LinkEnds
<1>10. QED
  BY <1>8, <1>9

\* Disconnect.
LEMMA LeaveInv ==
  ASSUME Inv, NEW t \in Askers, LeaveUri(t)
  PROVE  Inv'
<1> DEFINE l == uri[t].link
           u == NoUri
<1>1. /\ uri' = [uri EXCEPT ![t] = u]
      /\ toUri' = toUri /\ fromUri' = fromUri /\ serving' = serving /\ posted' = posted
      /\ timeouts' = timeouts
      /\ IF l = NoLink THEN UNCHANGED transferVars ELSE CloseLink(l)
  BY DEF LeaveUri, AskerKeeps, uriLinks, uriHistory
<1>2. /\ l \in Links \cup {NoLink} /\ timeouts' \in 0..MaxLate
      /\ toUri' \in [Askers -> Seq(UriPayloads)] /\ posted' \in Seq(0..MaxSize)
  BY <1>1, UrisTyped
<1>3. u \in Uris /\ Ends(u)
  <2> DEFINE e == <<>>
             z == 0
             x == NoBlock
  <2>1. e \in Bytes /\ z \in 0..MaxRequests /\ z \in 0..MaxSize /\ x \in 0..MaxBlocks
    BY NoBytes, Bounds, Bounds2
  <2>2. u = [open |-> FALSE, state |-> "Idle", call |-> "None", n |-> z, size |-> z,
             left |-> z, block |-> x, link |-> NoLink, received |-> e,
             whole |-> FALSE, late |-> FALSE]
    BY DEF NoUri
  <2> HIDE DEF e, z, x, u
  <2>3. u \in Uris
    BY <2>1, <2>2 DEF Uris
  <2>4. u.call = "None" /\ u.link = NoLink /\ u.state = "Idle"
    BY <2>2
  <2>5. QED
    BY <2>3, <2>4 DEF Ends, LinkCalls
<1> HIDE DEF u
<1>8. CASE l = NoLink
  <2>1. UNCHANGED transferVars
    BY <1>1, <1>8
  <2>2. OnLink(u, context, upload) /\ u.link = NoLink
    BY <1>3 DEF Ends, OnLink, LinkCalls
  <2>3. QED
    BY <1>1, <1>2, <1>3, <2>1, <2>2, QueuedSame, QuietInv
<1>9. CASE l # NoLink
  <2>1. CloseLink(l) /\ l \in Links
    BY <1>1, <1>2, <1>9
  <2>2. QED
    BY <1>1, <1>2, <1>3, <2>1, LinkEnds
<1>10. QED
  BY <1>8, <1>9

-----------------------------------------------------------------------------
(* The invariant, and what follows from it.                                *)

\* The initial state.
LEMMA InitInv == UriInit => Inv
<1> SUFFICES ASSUME UriInit PROVE Inv
  OBVIOUS
<1> DEFINE e == <<>>
           z == 0
           s == NoTransfer
           u == NoUri
           v == NoServing
           c == NoContext
           n == NewBlock
<1>1. /\ blocks = [b \in BlockIds |-> n] /\ opened = z
      /\ transfers = [l \in Links |-> s] /\ context = [l \in Links |-> c]
      /\ upload = [l \in Links |-> e] /\ download = [l \in Links |-> e]
      /\ uri = [t \in Askers |-> u] /\ serving = [t \in Askers |-> v]
      /\ toUri = [t \in Askers |-> e] /\ fromUri = [t \in Askers |-> e]
      /\ posted = e /\ timeouts = z
  BY DEF UriInit, TransferInit
<1>2. /\ z \in 0..MaxBlocks /\ z \in 0..MaxSize /\ z \in 0..MaxRequests /\ z \in 0..MaxLate
      /\ z = NoBlock /\ \A b \in BlockIds : b > z
  BY Bounds, Bounds2 DEF BlockIds
<1>3. /\ e \in Bytes /\ e \in Wire /\ e \in Seq(UriPayloads) /\ e \in Seq(0..MaxSize)
      /\ Len(e) = 0 /\ Len(e) <= LinkWindow /\ 1..Len(e) = {} /\ e \o e = e
  BY NoBytes, Bounds DEF Wire
<1>4. /\ s \in TransferSessions /\ s.state = "None" /\ s.block = NoBlock
  <2> DEFINE q == Status("Success")
  <2>1. q \in TransferPayloads
    BY StatusTyped DEF Results
  <2>2. s = [state |-> "None", block |-> z, total |-> z, done |-> z, crc |-> e, payload |-> q]
    BY DEF NoTransfer, NoBlock
  <2> HIDE DEF z, e, q, s
  <2>3. QED
    BY <1>2, <1>3, <2>1, <2>2 DEF TransferSessions
<1>5. /\ u \in Uris /\ u.link = NoLink /\ u.call = "None" /\ u.state = "Idle"
  <2>1. u = [open |-> FALSE, state |-> "Idle", call |-> "None", n |-> z, size |-> z,
             left |-> z, block |-> z, link |-> NoLink, received |-> e,
             whole |-> FALSE, late |-> FALSE]
    BY <1>2 DEF NoUri
  <2> HIDE DEF e, z, u
  <2>2. u \in Uris
    BY <1>2, <1>3, <2>1 DEF Uris
  <2>3. u.call = "None" /\ u.link = NoLink /\ u.state = "Idle"
    BY <2>1
  <2>4. QED
    BY <2>2, <2>3
<1>6. v \in Servings /\ v.queued = e
  <2>1. v = [open |-> FALSE, response |-> z, pending |-> z, queued |-> e]
    BY <1>2 DEF NoServing
  <2> HIDE DEF e, z, v
  <2>2. QED
    BY <1>2, <1>3, <2>1 DEF Servings
<1>7. c \in Contexts /\ c.state = "Closed"
  BY NoContextTyped DEF NoContext
<1>8. /\ n \in [registered : BOOLEAN, closed : BOOLEAN, data : Bytes, pending : Nat]
      /\ n.pending = 0 /\ n.data = e /\ n = NewBlock
  <2>1. n = [registered |-> FALSE, closed |-> FALSE, data |-> e, pending |-> z]
    BY DEF NewBlock
  <2>2. n = NewBlock /\ z = 0 /\ z \in Nat
    OBVIOUS
  <2> HIDE DEF e, z, n
  <2>3. QED
    BY <1>3, <2>1, <2>2
<1> HIDE DEF e, s, u, v, c, n
<1>9. TransferTypeOK
  <2>1. /\ blocks \in [BlockIds -> [registered : BOOLEAN, closed : BOOLEAN,
                                    data : Bytes, pending : Nat]]
        /\ opened \in 0..MaxBlocks
    BY <1>1, <1>2, <1>8
  <2>2. transfers \in [Links -> TransferSessions]
    BY <1>1, <1>4
  <2>3. upload \in [Links -> Seq(TransferPayloads)] /\ download \in [Links -> Seq(TransferPayloads)]
    BY <1>1, <1>3 DEF Wire
  <2>4. context \in [Links -> [state : {"Closed", "Idle", "InProgress", "Error"},
                               total : 0..MaxSize, data : Bytes]]
    BY <1>1, <1>7 DEF Contexts
  <2>5. \A l \in Links : Len(upload[l]) <= LinkWindow /\ Len(download[l]) <= LinkWindow
    BY <1>1, <1>3
  <2>6. QED
    BY <2>1, <2>2, <2>3, <2>4, <2>5 DEF TransferTypeOK
<1>10. UriTypeOK
  <2>1. uri \in [Askers -> Uris] /\ serving \in [Askers -> Servings]
    BY <1>1, <1>5, <1>6
  <2>2. /\ toUri \in [Askers -> Seq(UriPayloads)] /\ fromUri \in [Askers -> Seq(UriPayloads)]
        /\ posted \in Seq(0..MaxSize) /\ timeouts \in 0..MaxLate
    BY <1>1, <1>2, <1>3
  <2>3. QED
    BY <1>9, <2>1, <2>2 DEF UriTypeOK, Uris, Servings
<1>11. Matches(transfers, blocks)
  <2>1. \A b \in BlockIds : Holders(transfers, b) = {}
    BY <1>1, <1>4, Bounds DEF Holders
  <2>2. Cardinality({}) = 0
    BY FS_EmptySet
  <2>3. \A b \in BlockIds : blocks[b].pending = 0
    BY <1>1, <1>8
  <2>4. QED
    BY <2>1, <2>2, <2>3 DEF Matches
<1>12. LinksOK
  <2>1. ASSUME NEW l \in Links
        PROVE  /\ Ready(transfers[l], upload[l], download[l]) /\ Sound(transfers[l], blocks)
               /\ transfers[l].block <= opened
               /\ context[l].state = "Closed"
    <3>1. transfers[l] = s /\ upload[l] = e /\ download[l] = e /\ context[l] = c
      BY <1>1
    <3>2. Ready(s, e, e)
      BY <1>3, <1>4 DEF Ready, e
    <3>3. Sound(s, blocks)
      BY <1>4, GroupsApart DEF Sound
    <3>4. s.block <= opened
      BY <1>1, <1>2, <1>4
    <3>5. QED
      BY <1>7, <3>1, <3>2, <3>3, <3>4
  <2>2. QED
    BY <2>1 DEF LinksOK
<1>13. /\ \A t \in Askers : Offers[t] = e
       /\ \A l \in Links : Wants[l] = NoBlock
  <2>1. \A t \in Askers : Offers[t] = e
    <3>1. \A t \in Askers : Offers[t] = e \o e
      BY <1>1, <1>6 DEF Offers
    <3>2. QED
      BY <1>3, <3>1
  <2>2. \A l \in Links : Wants[l] = NoBlock
    <3>1. \A l \in Links : transfers[l] = s /\ upload[l] = <<>>
      BY <1>1 DEF e
    <3>2. QED
      BY <1>4, <3>1, GroupsApart DEF Wants, Wanted
  <2>3. QED
    BY <2>1, <2>2
<1>14. Blank(blocks, Offers, Wants, Pushing, opened)
  <2>1. \A b \in BlockIds : ~Promised(Offers, Wants, Pushing, b)
    BY <1>3, <1>13 DEF Promised, InOffers
  <2>2. \A b \in BlockIds : blocks[b] = NewBlock /\ Len(blocks[b].data) <= MaxSize
    BY <1>1, <1>3, <1>8, Bounds
  <2>3. QED
    BY <2>1, <2>2 DEF Blank
<1>15. Once(Offers, Wants, opened)
  BY <1>1, <1>2, <1>3, <1>13 DEF Once
<1>16. AskersOK
  <2>1. \A t \in Askers : uri[t] = u /\ serving[t] = v
    BY <1>1
  <2>2. \A t \in Askers : OnLink(uri[t], context, upload)
    BY <1>5, <2>1 DEF OnLink, LinkCalls
  <2>3. \A t \in Askers : Len(serving[t].queued) <= 1
    BY <1>3, <1>6, <2>1
  <2>4. QED
    BY <1>5, <2>1, <2>2, <2>3 DEF AskersOK
<1>17. QED
  BY <1>10, <1>11, <1>12, <1>14, <1>15, <1>16 DEF Inv

\* Every step of a client.
LEMMA AskerStepInv ==
  ASSUME Inv, NEW t \in Askers, AskerStep(t)
  PROVE  Inv'
<1>1. CASE ConnectUri(t)
  BY <1>1, ConnectInv
<1>2. CASE \E size \in 0..MaxSize : RequestURI(t, size)
  BY <1>2, RequestUriInv
<1>3. CASE TakePostResponse(t)
  BY <1>3, PostResponseInv
<1>4. CASE TakePushStatus(t)
  BY <1>4, PushStatusInv
<1>5. CASE WriteChunk(t)
  BY <1>5, WriteChunkInv
<1>6. CASE WriteTimesOut(t)
  BY <1>6, WriteTimesOutInv
<1>7. CASE FinalizePush(t)
  BY <1>7, FinalizeInv
<1>8. CASE TakePushResult(t)
  BY <1>8, PushResultInv
<1>9. CASE TakeResponse(t)
  BY <1>9, ResponseInv
<1>10. CASE TakePullHeader(t)
  BY <1>10, PullHeaderInv
<1>11. CASE ReadResponse(t)
  BY <1>11, ReadResponseInv
<1>12. CASE TakePullSentinel(t)
  BY <1>12, PullSentinelInv
<1>13. CASE AbortRequest(t)
  BY <1>13, AbortInv
<1>14. CASE DiscardUntilSentinel(t)
  BY <1>14, DiscardInv
<1>15. CASE AskTimesOut(t)
  BY <1>15, AskTimesOutInv
<1>16. CASE LeaveUri(t)
  BY <1>16, LeaveInv
<1>17. QED
  BY <1>1, <1>2, <1>3, <1>4, <1>5, <1>6, <1>7, <1>8, <1>9, <1>10, <1>11, <1>12,
     <1>13, <1>14, <1>15, <1>16 DEF AskerStep

\* Every step.
LEMMA NextInv ==
  ASSUME Inv, UriNext
  PROVE  Inv'
<1>1. ASSUME NEW t \in Askers, UpdateUri(t)
      PROVE  Inv'
  BY <1>1, SendQueuedInv, PostRequestInv, RequestInv, UriTerminatedInv DEF UpdateUri
<1>2. ASSUME NEW l \in Links, UpdateLink(l)
      PROVE  Inv'
  BY <1>2, UpdateTransferInv, TerminatedInv DEF UpdateLink
<1>3. QED
  BY <1>1, <1>2, AskerStepInv DEF UriNext

\* A step of another part of the process.
LEMMA StutterInv ==
  ASSUME Inv, UNCHANGED <<transferVars, uriVars>>
  PROVE  Inv'
<1>1. /\ UNCHANGED <<blocks, opened, transfers, upload, download, context>>
      /\ UNCHANGED <<uri, serving, toUri, fromUri, posted, timeouts>>
  BY DEF transferVars, uriVars
<1>2. UriTypeOK'
  BY <1>1 DEF Inv, UriTypeOK, TransferTypeOK
<1>3. Matches(transfers, blocks)'
  BY <1>1 DEF Inv, Matches
<1>4. LinksOK'
  BY <1>1 DEF Inv, LinksOK
<1>5. Offers' = Offers /\ Wants' = Wants /\ Pushing' = Pushing
  BY <1>1 DEF Offers, Wants, Pushing
<1>6. /\ Blank(blocks, Offers, Wants, Pushing, opened)'
      /\ Once(Offers, Wants, opened)'
  BY <1>1, <1>5 DEF Inv, Blank, Once
<1>7. AskersOK'
  BY <1>1 DEF Inv, AskersOK
<1>8. QED
  BY <1>2, <1>3, <1>4, <1>6, <1>7 DEF Inv

\* The invariant holds in every behaviour of the services and their clients.
THEOREM TransferInvariance == UriSpec => []Inv
<1>1. UriInit => Inv
  BY InitInv
<1>2. Inv /\ [UriNext]_<<transferVars, uriVars>> => Inv'
  BY NextInv, StutterInv
<1>3. QED
  BY <1>1, <1>2, PTL DEF UriSpec

\* Every variable has its type: no block is longer than its limit and no session
\* holds more than its window (ddTransferServer.cpp, ddURIServer.cpp).
THEOREM UriTypeCorrect == UriSpec => []UriTypeOK
<1>1. Inv => UriTypeOK
  BY DEF Inv
<1>2. QED
  BY <1>1, TransferInvariance, PTL

\* ServerBlock::EndTransfer (ddTransferManager.cpp:277) always has a transfer to
\* end: a block counts exactly the sessions that hold it.
THEOREM PendingCounted == UriSpec => []PendingMatchesHolders
<1>1. Inv => PendingMatchesHolders
  BY DEF Inv, Matches, Holders, PendingMatchesHolders
<1>2. QED
  BY <1>1, TransferInvariance, PTL

\* A block that is pulled stays closed and as it was when the pull began
\* (ddTransferServer.cpp:115).
THEOREM ReadBlocksStable == UriSpec => []PulledIsStable
<1>1. Inv => PulledIsStable
  BY DEF Inv, LinksOK, Sound, PulledIsStable
<1>2. QED
  BY <1>1, TransferInvariance, PTL

\* The links that are pushed want different blocks.
LEMMA InvOneWriter ==
  ASSUME Inv
  PROVE  OneWriter
<1>1. \A l \in Links : transfers[l].state \in Pushes =>
        /\ transfers[l].block # NoBlock /\ ~blocks[transfers[l].block].closed
        /\ Wants[l] = transfers[l].block
  BY DEF Inv, LinksOK, Sound, Wants, Wanted
<1>2. \A k, l \in Links : Wants[k] = Wants[l] /\ Wants[k] # NoBlock => k = l
  BY DEF Inv, Once
<1>3. QED
  BY <1>1, <1>2 DEF OneWriter

\* A block that is pushed is open, as Write and Close assert
\* (ddTransferManager.cpp:191, 219), and pushed by one session.
THEOREM WrittenByOne == UriSpec => []OneWriter
<1>1. Inv => OneWriter
  BY InvOneWriter
<1>2. QED
  BY <1>1, TransferInvariance, PTL
=============================================================================
