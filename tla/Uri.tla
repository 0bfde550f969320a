-------------------------------- MODULE Uri --------------------------------
(***************************************************************************)
(* Requests to the services of a process: the server                       *)
(* (src/protocols/ddURIServer.cpp) that hands a request and its post data  *)
(* to a service and keeps the response in a block, and the clients         *)
(* (src/protocols/ddURIClient.cpp) that push post data and pull responses  *)
(* through Transfer.                                                       *)
(*                                                                         *)
(* A step of a client is what it does between two waits; a step of the     *)
(* server is one update of a session, on the thread that also updates the  *)
(* transfer sessions.                                                      *)
(***************************************************************************)
EXTENDS Transfer

CONSTANTS
  Askers,      \* tools with a URI client, each with one session at a time
  NoLink,      \* no transfer session
  MaxInline,   \* chunks of post data that fit into a request
  ResponseSizes, \* how many chunks a response may have
  MaxRequests, \* bound: requests in a behaviour
  MaxLate      \* bound: calls that time out in a behaviour

ASSUME UriAssumption ==
  /\ NoLink \notin Links
  /\ {MaxInline, MaxRequests, MaxLate} \subseteq Nat
  /\ ResponseSizes \subseteq 0..MaxSize

VARIABLES
  uri,      \* a tool's URIClient and the RequestURI it has begun
  serving,  \* the URISession of a tool's session
  toUri,    \* payloads the server has not received
  fromUri,  \* payloads the client has not received
  posted,   \* history: the sizes of the post data of the requests
  served,   \* history: the post data the services were given
  answers,  \* history: the responses the services wrote
  timeouts  \* how many calls have timed out

uriVars == <<uri, serving, toUri, fromUri, posted, served, answers, timeouts>>
uriLinks == <<toUri, fromUri>>
uriHistory == <<posted, served, answers>>

\* The post data of the n-th request, and what a service writes for it.
Content(n, size) == [i \in 1..size |-> <<n, i>>]
Response(n, size) == Content(-n, size)

URIMessage == {"URIRequest", "URIResponse", "URIPostRequest", "URIPostResponse"}

\* n is the request string; data is what a request carries inline.
UriPayload(command, result, n, b, size, data) ==
  [command |-> command, result |-> result, n |-> n, block |-> b, size |-> size,
   data |-> data]
URIRequest(n, b, size, data) ==
  UriPayload("URIRequest", "Success", n, b, size, data)
URIPostRequest(n, size) ==
  UriPayload("URIPostRequest", "Success", n, NoBlock, size, <<>>)
URIResponse(result, b) == UriPayload("URIResponse", result, 0, b, 0, <<>>)
URIPostResponse(result, b) ==
  UriPayload("URIPostResponse", result, 0, b, 0, <<>>)

\* call is what RequestURI or ReadResponse waits for; left is the post data
\* that is not written yet; late says that a call of this session timed out.
NoUri == [open |-> FALSE, state |-> "Idle", call |-> "None", n |-> 0,
          size |-> 0, left |-> 0, block |-> NoBlock, link |-> NoLink,
          received |-> <<>>, whole |-> FALSE, late |-> FALSE]

NoServing == [open |-> FALSE, response |-> NoBlock, pending |-> NoBlock,
              queued |-> <<>>]

UriInit ==
  /\ TransferInit
  /\ uri = [t \in Askers |-> NoUri]
  /\ serving = [t \in Askers |-> NoServing]
  /\ toUri = [t \in Askers |-> <<>>] /\ fromUri = [t \in Askers |-> <<>>]
  /\ posted = <<>> /\ served = {} /\ answers = {} /\ timeouts = 0

-----------------------------------------------------------------------------
(* The clients.                                                            *)

AskerKeeps == UNCHANGED <<serving, uriHistory, timeouts>>

\* The request fails, or what it waits for is there; the link is closed.
Ended(u) == [u EXCEPT !.call = "None", !.state = "Idle", !.link = NoLink]

ConnectUri(t) ==
  /\ ~uri[t].open /\ ~serving[t].open
  /\ uri' = [uri EXCEPT ![t].open = TRUE]
  /\ serving' = [serving EXCEPT ![t].open = TRUE]
  /\ UNCHANGED <<transferVars, uriLinks, uriHistory, timeouts>>

\* Post data that does not fit into the request needs a block first.
RequestURI(t, size) ==
  LET n == Len(posted) + 1
      inline == size <= MaxInline
  IN  /\ n <= MaxRequests
      /\ uri[t].open /\ uri[t].state = "Idle" /\ uri[t].call = "None"
      /\ HasRoom(toUri[t])
      /\ toUri' = [toUri EXCEPT ![t] = Append(@,
           IF inline THEN URIRequest(n, NoBlock, size, Content(n, size))
           ELSE URIPostRequest(n, size))]
      /\ uri' = [uri EXCEPT ![t] = [@ EXCEPT
           !.call = IF inline THEN "Response" ELSE "PostResponse", !.n = n,
           !.size = size, !.received = <<>>, !.whole = FALSE]]
      /\ posted' = Append(posted, size)
      /\ UNCHANGED <<transferVars, serving, fromUri, served, answers, timeouts>>

\* A call that takes the next payload on the tool's URI session.
TakesFromUri(t, call) ==
  /\ uri[t].call = call /\ fromUri[t] # <<>>
  /\ fromUri' = [fromUri EXCEPT ![t] = Tail(@)]
  /\ AskerKeeps

\* The command of the payload is not looked at.
TakePostResponse(t) ==
  LET p == Head(fromUri[t])
  IN  /\ TakesFromUri(t, "PostResponse")
      /\ IF p.result = "Success"
         THEN \E l \in Links :
                /\ OpenBlock(l, BlockRequest("PushRequest", p.block, uri[t].size))
                /\ uri' = [uri EXCEPT ![t] = [@ EXCEPT
                     !.call = "PushStatus", !.block = p.block, !.link = l]]
         ELSE uri' = [uri EXCEPT ![t] = Ended(@)] /\ UNCHANGED transferVars
      /\ UNCHANGED toUri

\* A call that takes the next payload on the tool's transfer session.
TakesFromLink(t, call) ==
  /\ uri[t].call = call /\ uri[t].link # NoLink /\ download[uri[t].link] # <<>>
  /\ AskerKeeps

TakePushStatus(t) ==
  LET l == uri[t].link
      p == Reply(l)
  IN  /\ TakesFromLink(t, "PushStatus")
      /\ IF p.command = "TransferStatus" /\ p.result = "Success"
         THEN /\ TakeReply(l, [state |-> "InProgress", total |-> uri[t].size,
                               data |-> <<>>])
              /\ uri' = [uri EXCEPT ![t] = [@ EXCEPT
                   !.call = "Write", !.left = uri[t].size]]
         ELSE CloseLinkTaking(l) /\ uri' = [uri EXCEPT ![t] = Ended(@)]
      /\ UNCHANGED uriLinks

\* The context after the next chunk went into the checksum.
Summed(t) ==
  LET u == uri[t]
  IN  [context[u.link] EXCEPT !.data = Append(@, <<u.n, u.size - u.left + 1>>)]

WriteChunk(t) ==
  LET u == uri[t]
  IN  /\ u.call = "Write" /\ u.left > 0
      /\ SendTransferPayload(u.link, Chunk(<<<<u.n, u.size - u.left + 1>>>>),
                             Summed(t))
      /\ uri' = [uri EXCEPT ![t].left = @ - 1]
      /\ AskerKeeps /\ UNCHANGED uriLinks

\* The send gives up and is repeated, and so is the checksum.
WriteTimesOut(t) ==
  LET l == uri[t].link
  IN  /\ uri[t].call = "Write" /\ uri[t].left > 0
      /\ ~HasRoom(upload[l])
      /\ timeouts < MaxLate /\ timeouts' = timeouts + 1
      /\ context' = [context EXCEPT ![l] = Summed(t)]
      /\ ClientKeeps
      /\ UNCHANGED <<upload, download, uri, serving, uriLinks, uriHistory>>

\* ClosePushTransfer.
FinalizePush(t) ==
  LET c == context[uri[t].link]
  IN  /\ uri[t].call = "Write" /\ uri[t].left = 0
      /\ SendTransferPayload(uri[t].link, Sentinel("Success", c.data), c)
      /\ uri' = [uri EXCEPT ![t].call = "PushResult"]
      /\ AskerKeeps /\ UNCHANGED uriLinks

\* The request follows its post data.
TakePushResult(t) ==
  LET u == uri[t]
  IN  /\ TakesFromLink(t, "PushResult")
      /\ CloseLinkTaking(u.link)
      /\ IF Reply(u.link).command = "TransferStatus"
            /\ Reply(u.link).result = "Success"
         THEN /\ HasRoom(toUri[t])
              /\ toUri' = [toUri EXCEPT ![t] =
                   Append(@, URIRequest(u.n, u.block, u.size, <<>>))]
              /\ uri' = [uri EXCEPT ![t] = [Ended(@) EXCEPT
                                              !.call = "Response"]]
         ELSE uri' = [uri EXCEPT ![t] = Ended(@)] /\ UNCHANGED toUri
      /\ UNCHANGED fromUri

\* An answer of another kind is a success without a response.
TakeResponse(t) ==
  LET p == Head(fromUri[t])
  IN  /\ TakesFromUri(t, "Response")
      /\ IF p.command = "URIResponse" /\ p.result = "Success"
         THEN \E l \in Links :
                /\ OpenBlock(l, BlockRequest("PullRequest", p.block, 0))
                /\ uri' = [uri EXCEPT ![t] = [@ EXCEPT
                     !.call = "PullHeader", !.link = l]]
         ELSE uri' = [uri EXCEPT ![t] = Ended(@)] /\ UNCHANGED transferVars
      /\ UNCHANGED toUri

\* A block without data is closed at once, which aborts its transfer.
TakePullHeader(t) ==
  LET l == uri[t].link
      p == Reply(l)
  IN  /\ TakesFromLink(t, "PullHeader")
      /\ CASE p.command = "TransferDataHeader" /\ p.size > 0 ->
                /\ TakeReply(l, [state |-> "InProgress", total |-> p.size,
                                 data |-> <<>>])
                /\ uri' = [uri EXCEPT ![t] = [@ EXCEPT
                     !.call = "None", !.state = "ReadResponse"]]
           [] p.command = "TransferDataHeader" /\ p.size = 0 ->
                /\ HasRoom(upload[l])
                /\ download' = [download EXCEPT ![l] = Tail(@)]
                /\ upload' = [upload EXCEPT ![l] = Append(@, Status("Aborted"))]
                /\ UNCHANGED context /\ ClientKeeps
                /\ uri' = [uri EXCEPT ![t] = [@ EXCEPT
                     !.call = "Abort", !.whole = TRUE]]
           [] OTHER -> CloseLinkTaking(l) /\ uri' = [uri EXCEPT ![t] = Ended(@)]
      /\ UNCHANGED uriLinks

\* ReadPullTransferData, a chunk in a call; the call that reads the last chunk
\* goes on to the sentinel.
ReadResponse(t) ==
  LET l == uri[t].link
      c == context[l]
  IN  /\ uri[t].state = "ReadResponse"
      /\ TakesFromLink(t, "None")
      /\ IF Reply(l).command = "TransferDataChunk"
         THEN /\ TakeReply(l, [c EXCEPT !.total = @ - 1,
                                        !.data = @ \o Reply(l).data])
              /\ uri' = [uri EXCEPT ![t].call =
                           IF c.total = 1 THEN "Sentinel" ELSE "None"]
         ELSE CloseLinkTaking(l) /\ uri' = [uri EXCEPT ![t] = Ended(@)]
      /\ UNCHANGED uriLinks

TakePullSentinel(t) ==
  LET l == uri[t].link
      right == Reply(l) = Sentinel("Success", context[l].data)
  IN  /\ TakesFromLink(t, "Sentinel")
      /\ CloseLinkTaking(l)
      /\ uri' = [uri EXCEPT ![t] = [Ended(@) EXCEPT
           !.whole = right,
           !.received = IF right THEN context[l].data ELSE uri[t].received]]
      /\ UNCHANGED uriLinks

\* ClosePullBlock, which aborts the transfer.
AbortRequest(t) ==
  LET l == uri[t].link
  IN  /\ uri[t].state = "ReadResponse" /\ uri[t].call = "None"
      /\ SendTransferPayload(l, Status("Aborted"), context[l])
      /\ uri' = [uri EXCEPT ![t] = [@ EXCEPT !.state = "Idle", !.call = "Abort"]]
      /\ AskerKeeps /\ UNCHANGED uriLinks

DiscardUntilSentinel(t) ==
  LET l == uri[t].link
  IN  /\ TakesFromLink(t, "Abort")
      /\ IF Reply(l).command = "TransferDataSentinel"
         THEN CloseLinkTaking(l) /\ uri' = [uri EXCEPT ![t] = Ended(@)]
         ELSE TakeReply(l, context[l]) /\ UNCHANGED uri
      /\ UNCHANGED uriLinks

\* A call gives up while its answer may be under way.
AskTimesOut(t) ==
  LET u == uri[t]
  IN  /\ timeouts < MaxLate /\ timeouts' = timeouts + 1
      /\ u.call \notin {"None", "Write"} \/ u.state = "ReadResponse"
      /\ IF u.link = NoLink
         THEN fromUri[t] = <<>> /\ UNCHANGED transferVars
         ELSE download[u.link] = <<>> /\ CloseLink(u.link)
      /\ uri' = [uri EXCEPT ![t] = [Ended(@) EXCEPT
                   !.late = u.late \/ u.link = NoLink]]
      /\ UNCHANGED <<serving, uriLinks, uriHistory>>

\* Disconnect, or the end of the tool's process in any call.
LeaveUri(t) ==
  /\ uri[t].open
  /\ uri' = [uri EXCEPT ![t] = NoUri]
  /\ IF uri[t].link = NoLink THEN UNCHANGED transferVars
     ELSE CloseLink(uri[t].link)
  /\ AskerKeeps /\ UNCHANGED uriLinks

-----------------------------------------------------------------------------
(* The server: URISession.                                                 *)

ServingKeeps ==
  UNCHANGED <<uri, posted, timeouts, transfers, upload, download, context>>

\* The answer is sent, or queued until there is room.
Respond(t, next, p) ==
  LET room == HasRoom(fromUri[t])
  IN  /\ fromUri' = [fromUri EXCEPT ![t] = IF room THEN Append(@, p) ELSE @]
      /\ serving' = [serving EXCEPT ![t] =
           [next EXCEPT !.queued = IF room THEN <<>> ELSE <<p>>]]

SendQueued(t) ==
  /\ serving[t].queued # <<>> /\ HasRoom(fromUri[t])
  /\ Respond(t, serving[t], Head(serving[t].queued))
  /\ ServingKeeps /\ UNCHANGED <<blocks, opened, toUri, served, answers>>

\* A session with a queued answer receives nothing.
ReceivesUri(t, command) ==
  /\ serving[t].open /\ serving[t].queued = <<>>
  /\ toUri[t] # <<>> /\ Head(toUri[t]).command = command
  /\ toUri' = [toUri EXCEPT ![t] = Tail(@)]
  /\ ServingKeeps

\* Mutant: a block that is pending already is offered again.
PostBlockAgain(t) ==
  IF serving[t].pending = NoBlock THEN opened + 1 ELSE serving[t].pending

PostBlock(t) == opened + 1

\* The service says whether it takes post data of that size.
HandlePostRequest(t) ==
  LET b == PostBlock(t)
  IN  /\ ReceivesUri(t, "URIPostRequest")
      /\ \/ /\ b <= MaxBlocks /\ opened' = IF b > opened THEN b ELSE opened
            /\ blocks' = OpenServerBlock(blocks, b)
            /\ Respond(t, [serving[t] EXCEPT !.pending = b],
                       URIPostResponse("Success", b))
         \/ /\ Respond(t, serving[t], URIPostResponse("Error", NoBlock))
            /\ UNCHANGED <<blocks, opened>>
      /\ UNCHANGED <<served, answers>>

\* The post data of a request that is accepted.
PostData(t, p) ==
  IF p.size = 0 \/ p.block = NoBlock THEN p.data
  ELSE blocks[serving[t].pending].data

\* Mutant: any pending block will do, also one that is not pushed yet.
AcceptsAnyPending(t, p) ==
  LET b == serving[t].pending
  IN  IF p.size = 0 \/ p.block = NoBlock
      THEN p.size = 0 \/ b = NoBlock
      ELSE b # NoBlock

AcceptsPostData(t, p) ==
  LET b == serving[t].pending
  IN  IF p.size = 0 \/ p.block = NoBlock
      THEN p.size = 0 \/ b = NoBlock
      ELSE b = p.block /\ Len(blocks[b].data) = p.size

\* Mutant: the session keeps the block of its first response.
ResponseBlockOnce(t) ==
  IF serving[t].response = NoBlock THEN opened + 1 ELSE serving[t].response

ResponseBlock(t) == opened + 1

\* The service writes a response, or fails: whatever it wrote then, nobody
\* learns the block.  A request string that is malformed is not looked at any
\* further; it cannot have a block, since it was refused before.
HandleRequest(t) ==
  LET p == Head(toUri[t])
      b == ResponseBlock(t)
      fails == URIResponse("Error", NoBlock)
      closed == CloseServerBlock(blocks, serving[t].pending)
      idle == [serving[t] EXCEPT !.pending = NoBlock]
  IN  /\ ReceivesUri(t, "URIRequest")
      /\ \/ /\ p.block = NoBlock
            /\ Respond(t, serving[t], fails)
            /\ UNCHANGED <<blocks, opened, served, answers>>
         \/ /\ ~AcceptsPostData(t, p)
            /\ blocks' = closed
            /\ Respond(t, idle, fails)
            /\ UNCHANGED <<opened, served, answers>>
         \/ /\ AcceptsPostData(t, p)
            /\ b <= MaxBlocks /\ opened' = IF b > opened THEN b ELSE opened
            /\ served' = served \cup {[n |-> p.n, data |-> PostData(t, p)]}
            /\ \/ \E size \in ResponseSizes :
                    LET data == Response(p.n, size)
                    IN  /\ blocks' =
                             Close(Write(OpenServerBlock(closed, b), b, data), b)
                        /\ answers' = answers \cup {[n |-> p.n, data |-> data]}
                        /\ Respond(t, [idle EXCEPT !.response = b],
                                   URIResponse("Success", b))
               \/ /\ blocks' = Close(OpenServerBlock(closed, b), b)
                  /\ Respond(t, [idle EXCEPT !.response = b], fails)
                  /\ UNCHANGED answers

\* ~URISession.
UriTerminated(t) ==
  /\ serving[t].open /\ ~uri[t].open
  /\ blocks' = CloseServerBlock(CloseServerBlock(blocks, serving[t].response),
                                serving[t].pending)
  /\ serving' = [serving EXCEPT ![t] = NoServing]
  /\ toUri' = [toUri EXCEPT ![t] = <<>>]
  /\ fromUri' = [fromUri EXCEPT ![t] = <<>>]
  /\ ServingKeeps /\ UNCHANGED <<opened, served, answers>>
-----------------------------------------------------------------------------
AskerStep(t) ==
  \/ ConnectUri(t) \/ \E size \in 0..MaxSize : RequestURI(t, size)
  \/ TakePostResponse(t) \/ TakePushStatus(t)
  \/ WriteChunk(t) \/ WriteTimesOut(t) \/ FinalizePush(t) \/ TakePushResult(t)
  \/ TakeResponse(t) \/ TakePullHeader(t) \/ ReadResponse(t) \/ TakePullSentinel(t)
  \/ AbortRequest(t) \/ DiscardUntilSentinel(t)
  \/ AskTimesOut(t) \/ LeaveUri(t)

UpdateUri(t) ==
  SendQueued(t) \/ HandlePostRequest(t) \/ HandleRequest(t) \/ UriTerminated(t)

UpdateLink(l) ==
  (UpdateTransfer(l) \/ TransferTerminated(l)) /\ UNCHANGED uriVars

UriNext ==
  \/ \E t \in Askers : AskerStep(t) \/ UpdateUri(t)
  \/ \E l \in Links : UpdateLink(l)

UriSpec == UriInit /\ [][UriNext]_<<transferVars, uriVars>>
-----------------------------------------------------------------------------
UriPayloads ==
  [command : URIMessage, result : Results, n : 0..MaxRequests,
   block : 0..MaxBlocks, size : 0..MaxSize, data : Bytes]

Waits == {"PostResponse", "PushStatus", "Write", "PushResult", "Response",
          "PullHeader", "Sentinel", "Abort"}

UriTypeOK ==
  /\ TransferTypeOK
  /\ uri \in [Askers -> [
       open : BOOLEAN, state : {"Idle", "ReadResponse"},
       call : Waits \cup {"None"}, n : 0..MaxRequests, size : 0..MaxSize,
       left : 0..MaxSize, block : 0..MaxBlocks, link : Links \cup {NoLink},
       received : Bytes, whole : BOOLEAN, late : BOOLEAN]]
  /\ serving \in [Askers -> [open : BOOLEAN, response : 0..MaxBlocks,
                             pending : 0..MaxBlocks, queued : Seq(UriPayloads)]]
  /\ toUri \in [Askers -> Seq(UriPayloads)]
  /\ fromUri \in [Askers -> Seq(UriPayloads)]
  /\ posted \in Seq(0..MaxSize)
  /\ timeouts \in 0..MaxLate

\* HandleRequest of a service (ddURIServer.cpp:228-281): it sees exactly the
\* data that was posted with the request, however many requests before it were
\* given up half-way and whatever block an old answer made the client push to.
PostIsWhole ==
  \A s \in served : s.data = Content(s.n, posted[s.n])

\* ReadResponse (ddURIClient.cpp:256): a response that is read to its end is
\* what a service wrote for one request, and for this one unless a request of
\* the session has timed out.
ResponseIsWhole ==
  \A t \in Askers : uri[t].whole =>
    \E a \in answers :
      a.data = uri[t].received /\ (uri[t].late \/ a.n = uri[t].n)
=============================================================================
