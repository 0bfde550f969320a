------------------------------ MODULE Transfer ------------------------------
(***************************************************************************)
(* The transfer of blocks: the server blocks of a process                  *)
(* (src/ddTransferManager.cpp), the sessions through which they are pulled *)
(* and pushed (src/protocols/ddTransferServer.cpp), and the clients at     *)
(* their other ends (src/protocols/ddTransferClient.cpp).                  *)
(*                                                                         *)
(* UpdateSession is an operator from a session, with its link and the      *)
(* blocks, to what they are after the call.  A pulled or pushed chunk is   *)
(* one element of a sequence, and a checksum is the data it was made of.   *)
(***************************************************************************)
EXTENDS Integers, Sequences, FiniteSets

CONSTANTS
  Links,      \* objects for transfer sessions, used again when terminated
  MaxBlocks,  \* bound: blocks opened in a behaviour
  LinkWindow, \* payloads a session holds before a send must wait
  MaxSize     \* bound: chunks in a block

ASSUME TransferAssumption ==
  /\ IsFiniteSet(Links)
  /\ {MaxBlocks, LinkWindow, MaxSize} \subseteq Nat \ {0}

VARIABLES
  blocks,    \* the server blocks
  opened,    \* how many of them have been opened
  transfers, \* the TransferSession at the server's end of a link
  upload,    \* payloads the server has not received
  download,  \* payloads the client has not received
  context    \* the TransferClient's m_transferContext

transferVars == <<blocks, opened, transfers, upload, download, context>>

\* A random id differs from every other: ids are numbers in their order.
NoBlock == 0
BlockIds == 1..MaxBlocks

Bytes == Seq(Int \X Nat)

TransferMessage == {"PullRequest", "PushRequest", "TransferDataHeader",
                    "TransferDataChunk", "TransferDataSentinel",
                    "TransferStatus"}
Results == {"Success", "Error", "Aborted"}

\* size is that of the block, data the chunk or the checksum.
TransferPayloads ==
  [command : TransferMessage, result : Results, block : 0..MaxBlocks,
   size : 0..MaxSize, data : Bytes]

Status(result) == [command |-> "TransferStatus", result |-> result,
                   block |-> NoBlock, size |-> 0, data |-> <<>>]
BlockRequest(command, b, size) ==
  [Status("Success") EXCEPT !.command = command, !.block = b, !.size = size]
Header(size) ==
  [Status("Success") EXCEPT !.command = "TransferDataHeader", !.size = size]
Chunk(data) ==
  [Status("Success") EXCEPT !.command = "TransferDataChunk", !.data = data]
Sentinel(result, crc) ==
  [Status(result) EXCEPT !.command = "TransferDataSentinel", !.data = crc]

NewBlock == [registered |-> FALSE, closed |-> FALSE, data |-> <<>>,
             pending |-> 0]

NoTransfer == [state |-> "None", block |-> NoBlock, total |-> 0, done |-> 0,
               crc |-> <<>>, payload |-> Status("Success")]
NewTransfer == [NoTransfer EXCEPT !.state = "Idle"]

\* total is what is still to be read, data what was read or written.
NoContext == [state |-> "Closed", total |-> 0, data |-> <<>>]

TransferInit ==
  /\ blocks = [b \in BlockIds |-> NewBlock] /\ opened = 0
  /\ transfers = [l \in Links |-> NoTransfer]
  /\ upload = [l \in Links |-> <<>>] /\ download = [l \in Links |-> <<>>]
  /\ context = [l \in Links |-> NoContext]

-----------------------------------------------------------------------------
(* Server blocks.                                                          *)

\* GetServerBlock does not find a block that was closed in the manager; who
\* holds it already keeps it.
Registered(bs, b) == b # NoBlock /\ bs[b].registered

OpenServerBlock(bs, b) == [bs EXCEPT ![b].registered = TRUE]

CloseServerBlock(bs, b) ==
  IF b = NoBlock THEN bs ELSE [bs EXCEPT ![b].registered = FALSE]

BeginTransfer(bs, b) == [bs EXCEPT ![b].pending = @ + 1]
EndTransfer(bs, b) == [bs EXCEPT ![b].pending = @ - 1]
Write(bs, b, data) == [bs EXCEPT ![b].data = @ \o data]
Close(bs, b) == [bs EXCEPT ![b].closed = TRUE]
Reset(bs, b) == [bs EXCEPT ![b].closed = FALSE, ![b].data = <<>>]

-----------------------------------------------------------------------------
(* The server: r.s is the session, r.in and r.out are its payloads, r.bs   *)
(* the blocks.                                                             *)

HasRoom(out) == Len(out) < LinkWindow

\* The scratch payload is sent, or stays for the next update.
SendScratchPayload(r, next) ==
  IF HasRoom(r.out)
  THEN [r EXCEPT !.out = Append(@, r.s.payload), !.s.state = next,
                 !.s.payload = Status("Success")]
  ELSE r

SendAndMoveToIdle(r, payload) ==
  SendScratchPayload(
    [r EXCEPT !.s.state = "SendPayload", !.s.payload = payload], "Idle")

\* The transfer has ended for the block.
Release(r) == [r EXCEPT !.bs = EndTransfer(@, r.s.block), !.s.block = NoBlock]

\* As many chunks as the window takes.
SendChunks(r) ==
  LET room == LinkWindow - Len(r.out)
      left == r.s.total - r.s.done
      k == IF room < left THEN room ELSE left
      data == r.bs[r.s.block].data
  IN  [r EXCEPT !.s.done = @ + k,
                !.out = @ \o [i \in 1..k |->
                   Chunk(SubSeq(data, r.s.done + i, r.s.done + i))]]

\* An abort leaves the block with the session, until it terminates.
ProcessPullSession(r) ==
  IF r.in = <<>>
  THEN LET c == SendChunks(r)
       IN  IF c.s.done = c.s.total
           THEN SendAndMoveToIdle(Release(c), Sentinel("Success", c.s.crc))
           ELSE c
  ELSE SendAndMoveToIdle([r EXCEPT !.in = Tail(@)],
         Sentinel(IF Head(r.in).command = "TransferStatus" THEN "Aborted"
                  ELSE "Error", <<>>))

SendPullTransferHeader(r) ==
  LET sent == SendScratchPayload(r, "ProcessPullTransfer")
  IN  IF sent.s.state = "ProcessPullTransfer" THEN ProcessPullSession(sent)
      ELSE sent

StartPushTransferSession(r) == SendScratchPayload(r, "ReceivePushTransferData")

MayPull(bs, b) == Registered(bs, b) /\ bs[b].closed
MayPush(bs, b) == Registered(bs, b) /\ ~bs[b].closed

StartPull(r, b) ==
  LET data == r.bs[b].data
  IN  SendPullTransferHeader(
        [r EXCEPT !.bs = BeginTransfer(@, b),
                  !.s = [@ EXCEPT !.state = "StartPullTransfer", !.block = b,
                           !.total = Len(data), !.done = 0, !.crc = data,
                           !.payload = Header(Len(data))]])

StartPush(r, b, size) ==
  LET begun == [r EXCEPT !.bs = BeginTransfer(@, b),
                         !.s = [@ EXCEPT !.block = b, !.total = size,
                                         !.done = 0, !.crc = <<>>]]
  IN  IF size > 0
      THEN StartPushTransferSession(
             [begun EXCEPT !.s.state = "StartPushTransfer",
                           !.s.payload = Status("Success")])
      ELSE SendAndMoveToIdle(begun, Status("Error"))

\* A status that comes when everything was sent is a late abort.
ProcessPayload(r, p) ==
  CASE p.command = "PullRequest" /\ MayPull(r.bs, p.block) ->
         StartPull(r, p.block)
    [] p.command = "PushRequest" /\ MayPush(r.bs, p.block) ->
         StartPush(r, p.block, p.size)
    [] p.command = "TransferStatus" ->
         SendAndMoveToIdle(r, Sentinel("Aborted", <<>>))
    [] OTHER -> SendAndMoveToIdle(r, Status("Error"))

CancelTransfer(r, reason) ==
  SendAndMoveToIdle(Release([r EXCEPT !.bs = Reset(@, r.s.block)]),
                    Status(reason))

\* One turn of the loop of ReceivePushTransferData.
ReceivePushTransferData(r, p) ==
  CASE p.command = "TransferDataChunk" /\ r.s.done < r.s.total ->
         [r EXCEPT !.bs = Write(@, r.s.block, p.data), !.s.done = @ + 1]
    [] /\ p.command = "TransferDataSentinel" /\ p.result = "Success"
       /\ r.bs[r.s.block].data = p.data ->
         SendAndMoveToIdle(Release([r EXCEPT !.bs = Close(@, r.s.block)]),
                           Status("Success"))
    [] OTHER -> CancelTransfer(r,
         IF p.command = "TransferDataSentinel" /\ p.result = "Aborted"
         THEN "Aborted" ELSE "Error")

\* Mutant for TransferSession::~TransferSession: the block is not told.
TerminatedKeepsPending(l) ==
  /\ transfers[l].state # "None" /\ context[l].state = "Closed"
  /\ UNCHANGED blocks
  /\ transfers' = [transfers EXCEPT ![l] = NoTransfer]
  /\ upload' = [upload EXCEPT ![l] = <<>>]
  /\ download' = [download EXCEPT ![l] = <<>>]
  /\ UNCHANGED <<opened, context>>

TransferTerminated(l) ==
  /\ transfers[l].state # "None" /\ context[l].state = "Closed"
  /\ blocks' = IF transfers[l].block = NoBlock THEN blocks
               ELSE EndTransfer(blocks, transfers[l].block)
  /\ transfers' = [transfers EXCEPT ![l] = NoTransfer]
  /\ upload' = [upload EXCEPT ![l] = <<>>]
  /\ download' = [download EXCEPT ![l] = <<>>]
  /\ UNCHANGED <<opened, context>>

Before(l) == [s |-> transfers[l], in |-> upload[l], out |-> download[l],
              bs |-> blocks]

Consume(r) == [r EXCEPT !.in = Tail(@)]

\* TransferSession::UpdateSession.
After(r) ==
  CASE r.s.state = "Idle" /\ r.in # <<>> ->
         ProcessPayload(Consume(r), Head(r.in))
    [] r.s.state = "SendPayload" -> SendScratchPayload(r, "Idle")
    [] r.s.state = "StartPullTransfer" -> SendPullTransferHeader(r)
    [] r.s.state = "ProcessPullTransfer" -> ProcessPullSession(r)
    [] r.s.state = "StartPushTransfer" -> StartPushTransferSession(r)
    [] r.s.state = "ReceivePushTransferData" /\ r.in # <<>> ->
         ReceivePushTransferData(Consume(r), Head(r.in))
    [] OTHER -> r

UpdateTransfer(l) ==
  LET r == After(Before(l))
  IN  /\ transfers[l].state # "None" /\ r # Before(l)
      /\ transfers' = [transfers EXCEPT ![l] = r.s]
      /\ upload' = [upload EXCEPT ![l] = r.in]
      /\ download' = [download EXCEPT ![l] = r.out]
      /\ blocks' = r.bs
      /\ UNCHANGED <<opened, context>>
-----------------------------------------------------------------------------
(* The clients.                                                            *)

ClientKeeps == UNCHANGED <<blocks, opened, transfers>>

\* OpenPullBlock and OpenPushBlock: a new session, and the request on it.
OpenBlock(l, request) ==
  /\ transfers[l].state = "None" /\ context[l].state = "Closed"
  /\ transfers' = [transfers EXCEPT ![l] = NewTransfer]
  /\ context' = [context EXCEPT ![l].state = "Idle"]
  /\ upload' = [upload EXCEPT ![l] = <<request>>]
  /\ UNCHANGED <<blocks, opened, download>>

\* The next payload of the server, and the context after it.
Reply(l) == Head(download[l])
TakeReply(l, c) ==
  /\ download[l] # <<>>
  /\ download' = [download EXCEPT ![l] = Tail(@)]
  /\ context' = [context EXCEPT ![l] = c]
  /\ ClientKeeps /\ UNCHANGED upload

SendTransferPayload(l, payload, c) ==
  /\ HasRoom(upload[l])
  /\ upload' = [upload EXCEPT ![l] = Append(@, payload)]
  /\ context' = [context EXCEPT ![l] = c]
  /\ ClientKeeps /\ UNCHANGED download

\* Disconnect with nothing in progress, or after an error.
CloseLink(l) ==
  /\ context' = [context EXCEPT ![l] = NoContext]
  /\ ClientKeeps /\ UNCHANGED <<upload, download>>

CloseLinkTaking(l) ==
  /\ context' = [context EXCEPT ![l] = NoContext]
  /\ download' = [download EXCEPT ![l] = Tail(@)]
  /\ ClientKeeps /\ UNCHANGED upload
-----------------------------------------------------------------------------
TransferSessions == [
  state : {"None", "Idle", "SendPayload", "StartPullTransfer",
           "ProcessPullTransfer", "StartPushTransfer",
           "ReceivePushTransferData"},
  block : 0..MaxBlocks, total : 0..MaxSize, done : 0..MaxSize,
  crc : Bytes, payload : TransferPayloads]

\* Every variable has its type, no block has more chunks than its limit, and
\* no session holds more than its window.
TransferTypeOK ==
  /\ blocks \in [BlockIds -> [registered : BOOLEAN, closed : BOOLEAN,
                              data : Bytes, pending : Nat]]
  /\ opened \in 0..MaxBlocks
  /\ transfers \in [Links -> TransferSessions]
  /\ upload \in [Links -> Seq(TransferPayloads)]
  /\ download \in [Links -> Seq(TransferPayloads)]
  /\ context \in [Links -> [state : {"Closed", "Idle", "InProgress", "Error"},
                            total : 0..MaxSize, data : Bytes]]
  /\ \A l \in Links :
       Len(upload[l]) <= LinkWindow /\ Len(download[l]) <= LinkWindow

\* ServerBlock::EndTransfer (ddTransferManager.cpp:277) asserts that there is a
\* transfer to end: a block counts exactly the sessions that hold it, whether
\* they finish, are aborted, fail their checksum or lose their client.
PendingMatchesHolders ==
  \A b \in BlockIds :
    blocks[b].pending = Cardinality({l \in Links : transfers[l].block = b})

Pulls == {"StartPullTransfer", "ProcessPullTransfer"}
Pushes == {"StartPushTransfer", "ReceivePushTransferData"}

\* A block does not change under those who read it (ddTransferServer.cpp:115,
\* 255): it stays closed, whatever is pushed, cancelled or released meanwhile.
PulledIsStable ==
  \A l \in Links : transfers[l].state \in Pulls =>
    LET s == transfers[l]
    IN  /\ s.block # NoBlock /\ blocks[s.block].closed
        /\ blocks[s.block].data = s.crc /\ Len(s.crc) = s.total

\* Write and Close (ddTransferManager.cpp:191, 219) assert that the block is
\* open: it has one writer, who closes it.
OneWriter ==
  \A l \in Links : transfers[l].state \in Pushes =>
    /\ ~blocks[transfers[l].block].closed
    /\ \A k \in Links : transfers[k].state \in Pushes
         /\ transfers[k].block = transfers[l].block => k = l
=============================================================================
