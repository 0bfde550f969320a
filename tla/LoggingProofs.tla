--------------------------- MODULE LoggingProofs ---------------------------
(***************************************************************************)
(* Proofs about Logging: for any number of tools, levels, categories and   *)
(* window, the variables keep their types, whoever waits in DisableLogging *)
(* is woken, a call that succeeds leaves nothing of it on the way, and     *)
(* every tool gets the messages that passed its filter, each once and in   *)
(* their order.                                                            *)
(***************************************************************************)
EXTENDS Logging, TLAPS

-----------------------------------------------------------------------------
(* Queues of payloads.                                                     *)

\* Appending to the second of two queues.
LEMMA AppendConcat ==
  ASSUME NEW a \in Seq(LogPayloads), NEW b \in Seq(LogPayloads), NEW p \in LogPayloads
  PROVE  a \o Append(b, p) = Append(a \o b, p)
<1> DEFINE x == a \o Append(b, p)
           y == Append(a \o b, p)
<1>1. x \in Seq(LogPayloads) /\ y \in Seq(LogPayloads) /\ Len(x) = Len(y)
  OBVIOUS
<1>2. \A i \in 1..Len(x) : x[i] = y[i]
  OBVIOUS
<1> HIDE DEF x, y
<1>3. x = y
  BY <1>1, <1>2
<1>4. QED
  BY <1>3 DEF x, y

\* Three queues in a row.
LEMMA Assoc ==
  ASSUME NEW a \in Seq(LogPayloads), NEW b \in Seq(LogPayloads), NEW c \in Seq(LogPayloads)
  PROVE  a \o (b \o c) = (a \o b) \o c
  OBVIOUS

\* A queue is its two parts.
LEMMA Split ==
  ASSUME NEW q \in Seq(LogPayloads), NEW k \in 0..Len(q)
  PROVE  SubSeq(q, 1, k) \o SubSeq(q, k + 1, Len(q)) = q
<1> DEFINE a == SubSeq(q, 1, k)
           b == SubSeq(q, k + 1, Len(q))
           x == a \o b
<1>1. /\ a \in Seq(LogPayloads) /\ b \in Seq(LogPayloads)
      /\ Len(a) = k /\ Len(b) = Len(q) - k
      /\ \A i \in 1..k : a[i] = q[i]
      /\ \A i \in 1..(Len(q) - k) : b[i] = q[k + i]
  OBVIOUS
<1> HIDE DEF a, b
<1>2. x \in Seq(LogPayloads) /\ Len(x) = Len(q)
      /\ \A i \in 1..Len(x) : x[i] = IF i <= k THEN a[i] ELSE b[i - k]
  BY <1>1
<1>3. \A i \in 1..Len(x) : x[i] = q[i]
  BY <1>1, <1>2
<1> HIDE DEF x
<1>4. x = q
  BY <1>2, <1>3
<1>5. QED
  BY <1>4 DEF x, a, b

\* The first of two queues in a row.
LEMMA HeadTail ==
  ASSUME NEW q \in Seq(LogPayloads), NEW a \in Seq(LogPayloads), q # <<>>
  PROVE  Tail(q \o a) = Tail(q) \o a /\ Head(q \o a) = Head(q)
  OBVIOUS

\* The elements of two queues in a row.
LEMMA ConcatIs ==
  ASSUME NEW a \in Seq(LogPayloads), NEW b \in Seq(LogPayloads)
  PROVE  /\ a \o b \in Seq(LogPayloads) /\ Len(a \o b) = Len(a) + Len(b)
         /\ Len(a) \in Nat /\ Len(b) \in Nat
         /\ \A i \in 1..(Len(a) + Len(b)) :
              (a \o b)[i] = IF i <= Len(a) THEN a[i] ELSE b[i - Len(a)]
  OBVIOUS

\* Moving the first of one queue to the end of the other.
LEMMA HeadMoves ==
  ASSUME NEW a \in Seq(LogPayloads), NEW q \in Seq(LogPayloads), q # <<>>
  PROVE  Append(a, Head(q)) \o Tail(q) = a \o q
<1> DEFINE h == Head(q)
           t == Tail(q)
           one == <<h>>
<1>1. /\ h \in LogPayloads /\ t \in Seq(LogPayloads) /\ Len(t) = Len(q) - 1
      /\ \A i \in 1..(Len(q) - 1) : t[i] = q[i + 1]
      /\ h = q[1] /\ Len(q) \in Nat /\ Len(q) > 0
  OBVIOUS
<1>2. one \in Seq(LogPayloads) /\ Len(one) = 1 /\ one[1] = h
  BY <1>1
<1>3. Append(a, h) = a \o one
  BY <1>1
<1>4. q = one \o t
  <2> DEFINE x == one \o t
  <2> HIDE DEF h, t, one
  <2>0. /\ x \in Seq(LogPayloads) /\ Len(x) = Len(one) + Len(t)
        /\ \A i \in 1..(Len(one) + Len(t)) :
             x[i] = IF i <= Len(one) THEN one[i] ELSE t[i - Len(one)]
    <3>1. one \in Seq(LogPayloads) /\ t \in Seq(LogPayloads)
      BY <1>1, <1>2
    <3>2. QED
      BY <3>1, ConcatIs
  <2> HIDE DEF x
  <2>1. x \in Seq(LogPayloads) /\ Len(x) = Len(q)
        /\ \A i \in 1..Len(x) : x[i] = IF i <= 1 THEN one[i] ELSE t[i - 1]
    BY <1>1, <1>2, <2>0
  <2>2. \A i \in 1..Len(x) : x[i] = q[i]
    BY <1>1, <1>2, <2>1
  <2>3. q = x
    BY <2>1, <2>2
  <2>4. QED
    BY <2>3 DEF x
<1> HIDE DEF h, t, one
<1>5. a \o (one \o t) = (a \o one) \o t
  BY <1>1, <1>2, Assoc
<1>6. Append(a, h) \o t = a \o q
  BY <1>3, <1>4, <1>5
<1>7. QED
  BY <1>6 DEF h, t

Requests ==
  {"EnableLoggingRequest", "DisableLogging", "QueryCategoriesRequest"}
LogAnswers == {"EnableLoggingResponse", "QueryCategoriesNumResponse"}

\* A session and what its client has sent: requests only, and the scratch
\* payload is what its state says.
SaneLogger(s, in) ==
  /\ ~s.open => s = NoLogger
  /\ \A i \in 1..Len(in) : in[i].command \in Requests
  /\ s.state = "ProcessPayload" => s.scratch.command \in Requests
  /\ s.state \in {"SendPayload", "SendCategoriesNumResponse"} =>
       s.scratch.command \in LogAnswers

\* SendMessages has passed on the first k messages.
Passed(s, out, k, t, sent) ==
  /\ t = [s EXCEPT !.messages = SubSeq(s.messages, k + 1, Len(s.messages))]
  /\ sent = out \o SubSeq(s.messages, 1, k)

Numbers(s, k) ==
  [i \in 1..k |-> LogPayload("QueryCategoriesDataResponse", s.numItems + i)]

\* What an update does to a session s, its input and its output.
ReceivesLog(s, in, out, t, rest, sent) ==
  /\ s.state = "ReceivePayload" /\ in # <<>>
  /\ t = [s EXCEPT !.state = "ProcessPayload", !.scratch = Head(in)]
  /\ rest = Tail(in) /\ sent = out
PassesOn(s, in, out, t, rest, sent) ==
  /\ \/ s.state = "ReceivePayload" /\ in = <<>> /\ s.enabled
     \/ s.state = "FinishLogging" /\ s.messages # <<>>
  /\ \E k \in 0..Len(s.messages) : Passed(s, out, k, t, sent)
  /\ rest = in
Lists(s, in, out, t, rest, sent) ==
  /\ s.state = "ProcessPayload" /\ s.scratch.command = "QueryCategoriesRequest"
  /\ t = [s EXCEPT !.state = "SendCategoriesNumResponse",
            !.scratch = LogPayload("QueryCategoriesNumResponse", numCategories)]
  /\ rest = in /\ sent = out
Enables(s, in, out, t, rest, sent) ==
  /\ s.state = "ProcessPayload" /\ s.scratch.command = "EnableLoggingRequest"
  /\ t = [s EXCEPT !.filter = s.scratch.n, !.enabled = TRUE,
            !.state = "SendPayload",
            !.scratch = LogPayload("EnableLoggingResponse", 0)]
  /\ rest = in /\ sent = out
Disables(s, in, out, t, rest, sent) ==
  /\ s.state = "ProcessPayload" /\ s.scratch.command = "DisableLogging"
  /\ t = HandleDisableLogging(s)
  /\ rest = in /\ sent = out
Finishes(s, in, out, t, rest, sent) ==
  /\ s.state = "FinishLogging" /\ s.messages = <<>>
  /\ t = [s EXCEPT !.state = "ReceivePayload"]
  /\ rest = in /\ sent = out
Replies(s, in, out, t, rest, sent) ==
  /\ s.state = "SendPayload"
  /\ t = [s EXCEPT !.state = "ReceivePayload"]
  /\ rest = in /\ sent = Append(out, s.scratch)
CountsLog(s, in, out, t, rest, sent) ==
  /\ s.state = "SendCategoriesNumResponse"
  /\ \/ /\ s.scratch.n > 0
        /\ t = [s EXCEPT !.state = "SendCategoriesDataResponse", !.numItems = 0]
     \/ s.scratch.n = 0 /\ t = [s EXCEPT !.state = "ReceivePayload"]
  /\ rest = in /\ sent = Append(out, s.scratch)
Items(s, in, out, t, rest, sent) ==
  /\ s.state = "SendCategoriesDataResponse" /\ s.numItems < numCategories
  /\ \E k \in 0..(numCategories - s.numItems) :
       /\ t = [s EXCEPT !.numItems = @ + k]
       /\ sent = out \o Numbers(s, k)
  /\ rest = in
Listed(s, in, out, t, rest, sent) ==
  /\ s.state = "SendCategoriesDataResponse" /\ s.numItems >= numCategories
  /\ t = [s EXCEPT !.state = "ReceivePayload"]
  /\ rest = in /\ sent = out

Updates(s, in, out, t, rest, sent) ==
  \/ ReceivesLog(s, in, out, t, rest, sent)
  \/ PassesOn(s, in, out, t, rest, sent)
  \/ Lists(s, in, out, t, rest, sent) \/ Enables(s, in, out, t, rest, sent)
  \/ Disables(s, in, out, t, rest, sent) \/ Finishes(s, in, out, t, rest, sent)
  \/ Replies(s, in, out, t, rest, sent) \/ CountsLog(s, in, out, t, rest, sent)
  \/ Items(s, in, out, t, rest, sent) \/ Listed(s, in, out, t, rest, sent)
  \/ t = s /\ rest = in /\ sent = out

\* SendMessages passes on a first part of what waits.
LEMMA SendMessagesPasses ==
  ASSUME NEW s \in Loggers, NEW in \in Seq(LogPayloads),
         NEW out \in Seq(LogPayloads), Len(out) <= LogWindow
  PROVE  LET a == SendMessages([s |-> s, in |-> in, out |-> out])
         IN  /\ \E k \in 0..Len(s.messages) : Passed(s, out, k, a.s, a.out)
             /\ a.in = in /\ Len(a.out) <= LogWindow
<1> USE LoggingAssumption
<1> DEFINE b == [s |-> s, in |-> in, out |-> out]
           room == LogWindow - Len(out)
           left == Len(s.messages)
           k == IF room < left THEN room ELSE left
           b1 == [b EXCEPT !.out = out \o SubSeq(s.messages, 1, k)]
           m == SubSeq(s.messages, k + 1, left)
           a == SendMessages(b)
<1>1. s.messages \in Seq(LogPayloads) /\ left \in Nat /\ LogWindow \in Nat
  BY DEF Loggers
<1>2. k \in 0..left /\ k <= room /\ room \in Int
  BY <1>1
<1>3. a = [b1 EXCEPT !.s.messages = m]
  BY DEF SendMessages
<1>4. a.s = [s EXCEPT !.messages = m] /\ a.in = in
      /\ a.out = out \o SubSeq(s.messages, 1, k)
  BY <1>3
<1>5. SubSeq(s.messages, 1, k) \in Seq(LogPayloads)
      /\ Len(SubSeq(s.messages, 1, k)) = k
  <2> HIDE DEF k
  <2>1. QED
    BY <1>1, <1>2
<1>6. Len(out \o SubSeq(s.messages, 1, k)) = Len(out) + k
  <2> HIDE DEF k
  <2>1. QED
    BY <1>5
<1>7. Len(a.out) <= LogWindow
  <2> HIDE DEF k, a
  <2>1. k <= LogWindow - Len(out) /\ k \in Int /\ Len(out) \in Nat
    BY <1>2
  <2>2. QED
    BY <1>1, <1>4, <1>6, <2>1
<1>8. Passed(s, out, k, a.s, a.out)
  BY <1>4 DEF Passed
<1>9. QED
  <2> HIDE DEF k, a
  <2>1. /\ \E kk \in 0..Len(s.messages) : Passed(s, out, kk, a.s, a.out)
        /\ a.in = in /\ Len(a.out) <= LogWindow
    BY <1>2, <1>4, <1>7, <1>8
  <2>2. QED
    BY <2>1 DEF a

\* A payload is sent, or the session tries again later.
LEMMA SendScratchSends ==
  ASSUME NEW s \in Loggers, NEW in \in Seq(LogPayloads),
         NEW out \in Seq(LogPayloads), Len(out) <= LogWindow, NEW next
  PROVE  LET b == [s |-> s, in |-> in, out |-> out]
             a == SendScratch(b, next)
         IN  \/ a = b
             \/ /\ a = [s |-> [s EXCEPT !.state = next], in |-> in,
                        out |-> Append(out, s.scratch)]
                /\ Len(a.out) <= LogWindow
<1> USE LoggingAssumption
<1> DEFINE b == [s |-> s, in |-> in, out |-> out]
           b1 == [b EXCEPT !.out = Append(out, s.scratch)]
           a == SendScratch(b, next)
<1>1. CASE ~Fits(out)
  BY <1>1 DEF SendScratch
<1>2. CASE Fits(out)
  <2>1. a = [b1 EXCEPT !.s.state = next]
    BY <1>2 DEF SendScratch
  <2>2. a = [s |-> [s EXCEPT !.state = next], in |-> in,
             out |-> Append(out, s.scratch)]
    BY <2>1
  <2>3. Len(Append(out, s.scratch)) <= LogWindow
    BY <1>2 DEF Fits, Loggers
  <2>4. QED
    BY <2>2, <2>3
<1>3. QED
  BY <1>1, <1>2

\* The number of the categories is sent.
LEMMA SendNumSends ==
  ASSUME NEW s \in Loggers, NEW in \in Seq(LogPayloads),
         NEW out \in Seq(LogPayloads), Len(out) <= LogWindow,
         s.state = "SendCategoriesNumResponse"
  PROVE  LET b == [s |-> s, in |-> in, out |-> out]
             a == SendNumCategories(b)
         IN  \/ a = b
             \/ CountsLog(s, in, out, a.s, a.in, a.out) /\ Len(a.out) <= LogWindow
<1> DEFINE b == [s |-> s, in |-> in, out |-> out]
           some == s.scratch.n > 0
           next == IF some THEN "SendCategoriesDataResponse"
                   ELSE "ReceivePayload"
           c == SendScratch(b, next)
           a == SendNumCategories(b)
           sent == Append(out, s.scratch)
<1>1. a = IF some /\ c # b THEN [c EXCEPT !.s.numItems = 0] ELSE c
  BY DEF SendNumCategories
<1>2. \/ c = b
      \/ /\ c = [s |-> [s EXCEPT !.state = next], in |-> in, out |-> sent]
         /\ Len(sent) <= LogWindow
  <2> HIDE DEF next
  <2>1. QED
    BY SendScratchSends
<1>3. CASE c = b
  BY <1>1, <1>3
<1>4. CASE c # b
  <2>1. c = [s |-> [s EXCEPT !.state = next], in |-> in, out |-> sent]
        /\ Len(sent) <= LogWindow
    BY <1>2, <1>4
  <2>2. CASE some
    <3>1. next = "SendCategoriesDataResponse"
      BY <2>2
    <3>2. a = [c EXCEPT !.s.numItems = 0]
      BY <1>1, <1>4, <2>2
    <3> HIDE DEF next, c
    <3>3. a.s = [c.s EXCEPT !.numItems = 0] /\ a.in = in /\ a.out = sent
      <4> HIDE DEF sent
      <4>1. QED
        BY <2>1, <3>2
    <3>4. c.s = [s EXCEPT !.state = "SendCategoriesDataResponse"]
      BY <2>1, <3>1
    <3>5. a.s = [s EXCEPT !.state = "SendCategoriesDataResponse",
                          !.numItems = 0]
      BY <3>3, <3>4 DEF Loggers
    <3> HIDE DEF a
    <3>6. CountsLog(s, in, out, a.s, a.in, a.out)
      BY <2>2, <3>3, <3>5 DEF CountsLog
    <3>7. QED
      BY <2>1, <3>3, <3>6 DEF a
  <2>3. CASE ~some
    <3>1. next = "ReceivePayload" /\ a = c
      BY <1>1, <2>3
    <3>2. s.scratch.n = 0
      BY <2>3 DEF Loggers, LogPayloads
    <3> HIDE DEF next, c
    <3>3. a.s = [s EXCEPT !.state = "ReceivePayload"] /\ a.in = in
          /\ a.out = sent
      <4> HIDE DEF sent
      <4>1. QED
        BY <2>1, <3>1
    <3> HIDE DEF a
    <3>6. CountsLog(s, in, out, a.s, a.in, a.out)
      BY <3>2, <3>3 DEF CountsLog
    <3>7. QED
      BY <2>1, <3>3, <3>6 DEF a
  <2>4. QED
    BY <2>2, <2>3
<1>5. QED
  BY <1>3, <1>4

\* As many categories as the session takes.
LEMMA SendCategoriesSends ==
  ASSUME NEW s \in Loggers, NEW in \in Seq(LogPayloads), numCategories \in Nat,
         NEW out \in Seq(LogPayloads), Len(out) <= LogWindow,
         s.state = "SendCategoriesDataResponse"
  PROVE  LET b == [s |-> s, in |-> in, out |-> out]
             a == SendCategories(b)
         IN  /\ \/ Items(s, in, out, a.s, a.in, a.out)
                \/ Listed(s, in, out, a.s, a.in, a.out)
             /\ Len(a.out) <= LogWindow
<1> USE LoggingAssumption
<1> DEFINE b == [s |-> s, in |-> in, out |-> out]
           room == LogWindow - Len(out)
           left == numCategories - s.numItems
           k == IF room < left THEN room ELSE left
           a == SendCategories(b)
<1>1. s.numItems \in Nat /\ left \in Int /\ room \in Nat
  BY DEF Loggers
<1>2. CASE ~(left > 0)
  <2>1. a = [b EXCEPT !.s.state = "ReceivePayload"]
    BY <1>2 DEF SendCategories
  <2>2. a.s = [s EXCEPT !.state = "ReceivePayload"] /\ a.in = in /\ a.out = out
    BY <2>1
  <2>3. s.numItems >= numCategories
    BY <1>1, <1>2
  <2> HIDE DEF a
  <2>4. Listed(s, in, out, a.s, a.in, a.out) /\ Len(a.out) <= LogWindow
    BY <2>2, <2>3 DEF Listed
  <2>5. QED
    BY <2>4 DEF a
<1>3. CASE left > 0
  <2> DEFINE more == [i \in 1..k |->
               LogPayload("QueryCategoriesDataResponse", s.numItems + i)]
             b1 == [b EXCEPT !.s.numItems = @ + k]
  <2>1. k \in 0..left /\ k <= room
    BY <1>1, <1>3
  <2>2. a = [b1 EXCEPT !.out = out \o more]
    BY <1>3 DEF SendCategories
  <2>3. s.numItems < numCategories
    BY <1>1, <1>3
  <2>4. more = Numbers(s, k)
    BY DEF Numbers
  <2> HIDE DEF k, more
  <2>5. a.s = [s EXCEPT !.numItems = @ + k] /\ a.in = in
        /\ a.out = out \o more
    BY <2>2
  <2>6. more \in Seq(LogPayloads) /\ Len(more) = k
    <3>1. k \in Nat
      BY <1>1, <2>1
    <3>2. \A i \in 1..k : LogPayload("QueryCategoriesDataResponse", s.numItems + i)
            \in LogPayloads
      <4>1. \A i \in 1..k : s.numItems + i \in Nat
        BY <1>1, <3>1
      <4>2. "QueryCategoriesDataResponse" \in LoggingMessage
        BY DEF LoggingMessage
      <4>3. QED
        BY <4>1, <4>2 DEF LogPayload, LogPayloads
    <3>3. QED
      BY <3>1, <3>2 DEF more
  <2>7. Len(out \o more) <= LogWindow
    <3>1. Len(out \o more) = Len(out) + k
      BY <2>6
    <3>2. QED
      BY <1>1, <2>1, <3>1
  <2> HIDE DEF a
  <2>8. Items(s, in, out, a.s, a.in, a.out)
    BY <2>1, <2>3, <2>4, <2>5 DEF Items
  <2>9. QED
    BY <2>5, <2>7, <2>8 DEF a
<1>4. QED
  BY <1>2, <1>3

\* An update is one of the named changes, or changes nothing.
LEMMA AfterUpdateIs ==
  ASSUME NEW s \in Loggers, NEW in \in Seq(LogPayloads), numCategories \in Nat,
         NEW out \in Seq(LogPayloads), Len(out) <= LogWindow, SaneLogger(s, in)
  PROVE  LET a == AfterUpdate([s |-> s, in |-> in, out |-> out])
         IN  /\ Updates(s, in, out, a.s, a.in, a.out)
             /\ Len(a.out) <= LogWindow
<1> DEFINE b == [s |-> s, in |-> in, out |-> out]
           a == AfterUpdate(b)
<1> SUFFICES Updates(s, in, out, a.s, a.in, a.out) /\ Len(a.out) <= LogWindow
  OBVIOUS
<1>b. b.s = s /\ b.in = in /\ b.out = out
  OBVIOUS
<1>1. CASE s.state = "ReceivePayload" /\ in # <<>>
  <2>1. a.s = [s EXCEPT !.state = "ProcessPayload", !.scratch = Head(in)]
        /\ a.in = Tail(in) /\ a.out = out
    <3> DEFINE a1 == [b EXCEPT !.s.state = "ProcessPayload"]
               a2 == [a1 EXCEPT !.s.scratch = Head(in)]
    <3>0. a = [b EXCEPT !.s.state = "ProcessPayload", !.s.scratch = Head(b.in),
                        !.in = Tail(@)]
      BY <1>1, <1>b DEF AfterUpdate
    <3>1. a = [a2 EXCEPT !.in = Tail(in)]
      BY <3>0
    <3>2. a1.s = [s EXCEPT !.state = "ProcessPayload"]
          /\ a1.in = in /\ a1.out = out
      OBVIOUS
    <3>3. a.s = [a1.s EXCEPT !.scratch = Head(in)] /\ a.in = Tail(in)
          /\ a.out = a1.out
      <4> HIDE DEF a1
      <4>1. a1 \in [{"s", "in", "out"} -> {a1.s, a1.in, a1.out}]
        BY DEF a1
      <4>2. QED
        BY <3>1, <4>1
    <3>4. QED
      <4> HIDE DEF a1
      <4>1. QED
        BY <3>2, <3>3 DEF Loggers
  <2> HIDE DEF a
  <2>2. ReceivesLog(s, in, out, a.s, a.in, a.out)
    BY <1>1, <2>1 DEF ReceivesLog
  <2>3. QED
    BY <2>1, <2>2 DEF Updates
<1>2. CASE \/ s.state = "ReceivePayload" /\ in = <<>> /\ s.enabled
           \/ s.state = "FinishLogging" /\ s.messages # <<>>
  <2>1. a = SendMessages(b)
    BY <1>2, <1>b DEF AfterUpdate
  <2>2. /\ \E k \in 0..Len(s.messages) : Passed(s, out, k, a.s, a.out)
        /\ a.in = in /\ Len(a.out) <= LogWindow
    BY <2>1, SendMessagesPasses
  <2> HIDE DEF a
  <2>3. PassesOn(s, in, out, a.s, a.in, a.out)
    BY <1>2, <2>2 DEF PassesOn
  <2>4. QED
    BY <2>2, <2>3 DEF Updates
<1>3. CASE s.state = "ProcessPayload"
  <2>1. a = [b EXCEPT !.s = ProcessRequest(@)]
    BY <1>3, <1>b DEF AfterUpdate
  <2>2. a.s = ProcessRequest(s) /\ a.in = in /\ a.out = out
    BY <2>1
  <2> HIDE DEF a
  <2>3. \/ Lists(s, in, out, a.s, a.in, a.out)
        \/ Enables(s, in, out, a.s, a.in, a.out)
        \/ Disables(s, in, out, a.s, a.in, a.out)
    <3>1. s.scratch.command \in Requests
      BY <1>3 DEF SaneLogger
    <3>2. QED
      BY <1>3, <2>2, <3>1 DEF ProcessRequest, Requests, Lists, Enables, Disables
  <2>4. QED
    BY <2>2, <2>3 DEF Updates
<1>4. CASE s.state = "FinishLogging" /\ s.messages = <<>>
  <2>1. a = [b EXCEPT !.s.state = "ReceivePayload"]
    BY <1>4, <1>b DEF AfterUpdate
  <2>2. a.s = [s EXCEPT !.state = "ReceivePayload"] /\ a.in = in /\ a.out = out
    BY <2>1
  <2> HIDE DEF a
  <2>3. Finishes(s, in, out, a.s, a.in, a.out)
    BY <1>4, <2>2 DEF Finishes
  <2>4. QED
    BY <2>2, <2>3 DEF Updates
<1>5. CASE s.state = "SendPayload"
  <2>1. a = SendScratch(b, "ReceivePayload")
    BY <1>5, <1>b DEF AfterUpdate
  <2> HIDE DEF a
  <2>2. \/ a = b
        \/ /\ a = [s |-> [s EXCEPT !.state = "ReceivePayload"], in |-> in,
                   out |-> Append(out, s.scratch)]
           /\ Len(a.out) <= LogWindow
    BY <2>1, SendScratchSends
  <2>3. a # b => Replies(s, in, out, a.s, a.in, a.out)
    BY <1>5, <2>2 DEF Replies
  <2>4. QED
    BY <2>2, <2>3, <1>b DEF Updates
<1>6. CASE s.state = "SendCategoriesNumResponse"
  <2>1. a = SendNumCategories(b)
    BY <1>6, <1>b DEF AfterUpdate
  <2>2. \/ a = b
        \/ CountsLog(s, in, out, a.s, a.in, a.out) /\ Len(a.out) <= LogWindow
    BY <1>6, <2>1, SendNumSends
  <2> HIDE DEF a
  <2>3. QED
    BY <2>2, <1>b DEF Updates
<1>7. CASE s.state = "SendCategoriesDataResponse"
  <2>1. a = SendCategories(b)
    BY <1>7, <1>b DEF AfterUpdate
  <2>2. /\ \/ Items(s, in, out, a.s, a.in, a.out)
           \/ Listed(s, in, out, a.s, a.in, a.out)
        /\ Len(a.out) <= LogWindow
    BY <1>7, <2>1, SendCategoriesSends
  <2> HIDE DEF a
  <2>3. QED
    BY <2>2 DEF Updates
<1>8. CASE s.state = "ReceivePayload" /\ in = <<>> /\ ~s.enabled
  <2>1. a = b
    BY <1>8, <1>b DEF AfterUpdate
  <2> HIDE DEF a
  <2>2. QED
    BY <2>1, <1>b DEF Updates
<1>9. QED
  BY <1>1, <1>2, <1>3, <1>4, <1>5, <1>6, <1>7, <1>8 DEF Loggers

\* The parts of a payload sequence.
LEMMA Parts ==
  ASSUME NEW q \in Seq(LogPayloads), NEW k \in 0..Len(q)
  PROVE  /\ SubSeq(q, 1, k) \in Seq(LogPayloads)
         /\ SubSeq(q, k + 1, Len(q)) \in Seq(LogPayloads)
         /\ Len(SubSeq(q, 1, k)) = k
         /\ Len(SubSeq(q, k + 1, Len(q))) = Len(q) - k
         /\ \A i \in 1..k : SubSeq(q, 1, k)[i] = q[i]
         /\ \A i \in 1..(Len(q) - k) : SubSeq(q, k + 1, Len(q))[i] = q[k + i]
  OBVIOUS

\* The payloads of the categories.
LEMMA NumbersAre ==
  ASSUME NEW s \in Loggers, NEW k \in Nat
  PROVE  /\ Numbers(s, k) \in Seq(LogPayloads) /\ Len(Numbers(s, k)) = k
         /\ \A i \in 1..k :
              Numbers(s, k)[i].command = "QueryCategoriesDataResponse"
<1> DEFINE q == [i \in 1..k |->
              LogPayload("QueryCategoriesDataResponse", s.numItems + i)]
<1>1. \A i \in 1..k :
        /\ q[i] = LogPayload("QueryCategoriesDataResponse", s.numItems + i)
        /\ q[i] \in LogPayloads
  BY DEF Loggers, LogPayload, LogPayloads, LoggingMessage
<1>2. q \in Seq(LogPayloads) /\ Len(q) = k
  <2>1. q \in [1..k -> LogPayloads]
    BY <1>1
  <2> HIDE DEF q
  <2>2. QED
    BY <2>1
<1>3. \A i \in 1..k : q[i].command = "QueryCategoriesDataResponse"
  BY <1>1 DEF LogPayload
<1>4. QED
  BY <1>2, <1>3 DEF Numbers

\* What an update makes of a session and of its queues has its type.
LEMMA UpdatesType ==
  ASSUME NEW s \in Loggers, NEW in \in Seq(LogPayloads), numCategories \in Nat,
         NEW out \in Seq(LogPayloads), SaneLogger(s, in), s.open,
         NEW t, NEW rest, NEW sent, Updates(s, in, out, t, rest, sent)
  PROVE  /\ t \in Loggers /\ t.open /\ rest \in Seq(LogPayloads)
         /\ sent \in Seq(LogPayloads) /\ Len(rest) <= Len(in)
         /\ SaneLogger(t, rest)
<1>1. CASE ReceivesLog(s, in, out, t, rest, sent)
  <2>1. in # <<>> /\ Head(in) \in LogPayloads /\ Head(in) = in[1]
        /\ rest = Tail(in)
    BY <1>1 DEF ReceivesLog
  <2>2. rest \in Seq(LogPayloads) /\ Len(rest) = Len(in) - 1
        /\ \A i \in 1..Len(rest) : rest[i] = in[i + 1]
    BY <2>1
  <2>3. Head(in).command \in Requests
    BY <2>1 DEF SaneLogger
  <2>4. t \in Loggers /\ t.open /\ t.state = "ProcessPayload"
        /\ t.scratch = Head(in) /\ sent = out
    BY <1>1, <2>1 DEF ReceivesLog, Loggers
  <2>5. \A i \in 1..Len(rest) : rest[i].command \in Requests
    BY <2>2 DEF SaneLogger
  <2>6. QED
    BY <2>2, <2>3, <2>4, <2>5 DEF SaneLogger
<1>2. CASE PassesOn(s, in, out, t, rest, sent)
  <2>1. PICK k \in 0..Len(s.messages) : Passed(s, out, k, t, sent)
    BY <1>2 DEF PassesOn
  <2>2. s.messages \in Seq(LogPayloads)
    BY DEF Loggers
  <2> DEFINE m == SubSeq(s.messages, k + 1, Len(s.messages))
             q == SubSeq(s.messages, 1, k)
  <2>3. m \in Seq(LogPayloads) /\ q \in Seq(LogPayloads)
    BY <2>2, Parts
  <2>4. t = [s EXCEPT !.messages = m] /\ sent = out \o q
    BY <2>1 DEF Passed
  <2> HIDE DEF m, q
  <2>5. t \in Loggers /\ t.open /\ t.state = s.state /\ t.scratch = s.scratch
    BY <2>3, <2>4 DEF Loggers
  <2>6. sent \in Seq(LogPayloads) /\ rest = in
    BY <1>2, <2>3, <2>4 DEF PassesOn
  <2>7. QED
    BY <2>5, <2>6 DEF SaneLogger
<1>3. CASE \/ Lists(s, in, out, t, rest, sent)
           \/ Enables(s, in, out, t, rest, sent)
  <2> DEFINE p == LogPayload("QueryCategoriesNumResponse", numCategories)
             e == LogPayload("EnableLoggingResponse", 0)
  <2>0. /\ p \in LogPayloads /\ p.command = "QueryCategoriesNumResponse"
        /\ e \in LogPayloads /\ e.command = "EnableLoggingResponse"
        /\ s.scratch.n \in Nat
    BY DEF LogPayload, LogPayloads, LoggingMessage, Loggers
  <2> HIDE DEF p, e
  <2>1. t \in Loggers /\ t.open /\ t.scratch.command \in LogAnswers
        /\ t.state # "ProcessPayload"
    <3>1. CASE Lists(s, in, out, t, rest, sent)
      <4>1. t = [s EXCEPT !.state = "SendCategoriesNumResponse", !.scratch = p]
        BY <3>1 DEF Lists, p
      <4>2. QED
        BY <2>0, <4>1 DEF Loggers, LogAnswers
    <3>2. CASE Enables(s, in, out, t, rest, sent)
      <4>1. t = [s EXCEPT !.filter = s.scratch.n, !.enabled = TRUE,
                   !.state = "SendPayload", !.scratch = e]
        BY <3>2 DEF Enables, e
      <4>2. QED
        BY <2>0, <4>1 DEF Loggers, LogAnswers
    <3>3. QED
      BY <1>3, <3>1, <3>2
  <2>2. rest = in /\ sent = out
    BY <1>3 DEF Lists, Enables
  <2>3. QED
    BY <2>1, <2>2 DEF SaneLogger
<1>4. CASE Disables(s, in, out, t, rest, sent)
  <2> DEFINE p == LogPayload("LogMessageSentinel", 0)
             m == Append(s.messages, p)
  <2>1. m \in Seq(LogPayloads)
    BY DEF Loggers, LogPayload, LogPayloads, LoggingMessage
  <2>2. t = [s EXCEPT !.enabled = FALSE, !.state = "FinishLogging",
                      !.messages = m]
    BY <1>4 DEF Disables, HandleDisableLogging
  <2> HIDE DEF m
  <2>3. t \in Loggers /\ t.open /\ t.state = "FinishLogging"
    BY <2>1, <2>2 DEF Loggers
  <2>4. QED
    BY <1>4, <2>3 DEF Disables, SaneLogger
<1>5. CASE \/ Finishes(s, in, out, t, rest, sent)
           \/ Listed(s, in, out, t, rest, sent)
           \/ Replies(s, in, out, t, rest, sent)
           \/ CountsLog(s, in, out, t, rest, sent)
  <2> DEFINE after == "SendCategoriesDataResponse"
  <2>1. \/ t = [s EXCEPT !.state = "ReceivePayload"]
        \/ t = [s EXCEPT !.state = after, !.numItems = 0]
    BY <1>5 DEF Finishes, Listed, Replies, CountsLog
  <2>2. t \in Loggers /\ t.open /\ t.state \in {"ReceivePayload", after}
    <3>1. CASE t = [s EXCEPT !.state = "ReceivePayload"]
      BY <3>1 DEF Loggers
    <3>2. CASE t = [s EXCEPT !.state = after, !.numItems = 0]
      BY <3>2 DEF Loggers
    <3>3. QED
      BY <2>1, <3>1, <3>2
  <2>3. rest = in /\ (sent = out \/ sent = Append(out, s.scratch))
    BY <1>5 DEF Finishes, Listed, Replies, CountsLog
  <2>4. sent \in Seq(LogPayloads)
    <3>1. s.scratch \in LogPayloads
      BY DEF Loggers
    <3>2. QED
      BY <2>3, <3>1
  <2>5. QED
    BY <2>2, <2>3, <2>4 DEF SaneLogger
<1>6. CASE Items(s, in, out, t, rest, sent)
  <2>1. PICK k \in 0..(numCategories - s.numItems) :
          /\ t = [s EXCEPT !.numItems = @ + k]
          /\ sent = out \o Numbers(s, k)
    BY <1>6 DEF Items
  <2>2. s.numItems \in Nat /\ k \in Nat
    BY <1>6, <2>1 DEF Items, Loggers
  <2>3. t \in Loggers /\ t.open /\ t.state = "SendCategoriesDataResponse"
    <3> DEFINE n == s.numItems + k
    <3>1. n \in Nat /\ t = [s EXCEPT !.numItems = n]
      BY <2>1, <2>2
    <3> HIDE DEF n
    <3>2. s.state = "SendCategoriesDataResponse"
      BY <1>6 DEF Items
    <3>3. QED
      BY <3>1, <3>2 DEF Loggers
  <2>4. rest = in /\ sent \in Seq(LogPayloads)
    BY <1>6, <2>1, <2>2, NumbersAre DEF Items
  <2>5. QED
    BY <2>3, <2>4 DEF SaneLogger
<1>7. CASE t = s /\ rest = in /\ sent = out
  BY <1>7
<1>8. QED
  BY <1>1, <1>2, <1>3, <1>4, <1>5, <1>6, <1>7 DEF Updates

Sane(r) ==
  /\ SaneLogger(loggers[r], toLogger[r])
  /\ reader[r].call = "QueryData" => reader[r].left > 0

\* The types, and what the types rest on.
Typed == LoggingTypeOK /\ \A r \in Readers : Sane(r)

Kept(q) ==
  /\ loggers'[q] = loggers[q] /\ reader'[q] = reader[q]
  /\ toLogger'[q] = toLogger[q] /\ toReader'[q] = toReader[q]
  /\ given'[q] = given[q] /\ gathered'[q] = gathered[q]

\* A step that changes no session but the client's end of one.
LEMMA ReaderChanges ==
  ASSUME Typed, NEW r \in Readers, NEW u \in ReaderStates,
         u.call = "QueryData" => u.left > 0,
         reader' = [reader EXCEPT ![r] = u],
         loggers' = loggers, toLogger' = toLogger, given' = given,
         toReader' \in [Readers -> Seq(LogPayloads)],
         \A q \in Readers : Len(toReader'[q]) <= LogWindow,
         gathered' \in [Readers -> Seq(Nat)], numCategories' = numCategories,
         logs' = logs, logCalls' \in Nat, logLate' \in Nat
  PROVE  Typed'
<1>1. reader' \in [Readers -> ReaderStates]
  BY DEF Typed, LoggingTypeOK
<1>2. LoggingTypeOK'
  BY <1>1 DEF Typed, LoggingTypeOK
<1>3. ASSUME NEW q \in Readers
      PROVE  Sane(q)'
  <2>1. Sane(q) /\ (q # r => reader'[q] = reader[q]) /\ (q = r => reader'[q] = u)
    BY DEF Typed, LoggingTypeOK
  <2>2. QED
    BY <2>1 DEF Sane
<1>4. QED
  BY <1>2, <1>3 DEF Typed

\* A payload is taken for an answer.
LEMMA TakesAnswerTyped ==
  ASSUME Typed, NEW r \in Readers, NEW call, NEW command,
         NEW next \in ReaderStates, next.call = "QueryData" => next.left > 0,
         TakesAnswer(r, call, command, next)
  PROVE  Typed'
<1> DEFINE u == IF Head(toReader[r]).command = command THEN next
                ELSE Failed(reader[r])
<1>1. reader[r] \in ReaderStates
  BY DEF Typed, LoggingTypeOK
<1>2. u \in ReaderStates /\ (u.call = "QueryData" => u.left > 0)
  BY <1>1 DEF Failed, ReaderStates
<1>3. reader' = [reader EXCEPT ![r] = u]
  BY DEF TakesAnswer
<1>4. /\ toReader' \in [Readers -> Seq(LogPayloads)]
      /\ \A q \in Readers : Len(toReader'[q]) <= LogWindow
  <2> DEFINE t == Tail(toReader[r])
  <2>1. toReader[r] \in Seq(LogPayloads) /\ Len(toReader[r]) <= LogWindow
        /\ toReader[r] # <<>> /\ LogWindow \in Nat
    BY LoggingAssumption DEF Typed, LoggingTypeOK, TakesAnswer
  <2>2. t \in Seq(LogPayloads) /\ Len(t) <= LogWindow
    BY <2>1
  <2>3. toReader' = [toReader EXCEPT ![r] = t]
    BY DEF TakesAnswer
  <2> HIDE DEF t
  <2>4. QED
    BY <2>2, <2>3 DEF Typed, LoggingTypeOK
<1> HIDE DEF u
<1>5. QED
  BY <1>2, <1>3, <1>4, ReaderChanges DEF TakesAnswer, ReaderKeeps, Typed, LoggingTypeOK

\* The three answers.
LEMMA AnswersTyped ==
  ASSUME Typed, NEW r \in Readers,
         TakeEnableAnswer(r) \/ TakeNumAnswer(r) \/ TakeDataAnswer(r)
  PROVE  Typed'
<1>0. reader[r] \in ReaderStates /\ Sane(r)
      /\ toReader[r] \in Seq(LogPayloads)
  BY DEF Typed, LoggingTypeOK
<1>1. CASE TakeEnableAnswer(r)
  <2> DEFINE u == [reader[r] EXCEPT !.call = "Enabled"]
  <2>1. u \in ReaderStates /\ u.call # "QueryData"
    BY <1>0 DEF ReaderStates
  <2>2. TakesAnswer(r, "Enable", "EnableLoggingResponse", u)
    BY <1>1 DEF TakeEnableAnswer
  <2> HIDE DEF u
  <2>3. QED
    BY <2>1, <2>2, TakesAnswerTyped
<1>2. CASE TakeNumAnswer(r)
  <2> DEFINE n == Head(toReader[r]).n
             c == IF n = 0 THEN "None" ELSE "QueryData"
             u == [reader[r] EXCEPT !.call = c, !.left = n]
  <2>1. TakesAnswer(r, "QueryNum", "QueryCategoriesNumResponse", u)
    BY <1>2 DEF TakeNumAnswer
  <2>2. n \in Nat
    <3>1. Head(toReader[r]) \in LogPayloads
      BY <1>0, <2>1 DEF TakesAnswer
    <3>2. QED
      BY <3>1 DEF LogPayloads
  <2> HIDE DEF n
  <2>3. u \in ReaderStates /\ (u.call = "QueryData" => u.left > 0)
    <3>1. c \in {"None", "QueryData"} /\ (c = "QueryData" => n > 0)
      BY <2>2
    <3> HIDE DEF c
    <3>2. u \in ReaderStates /\ u.call = c /\ u.left = n
      BY <1>0, <2>2, <3>1 DEF ReaderStates
    <3>3. QED
      BY <3>1, <3>2
  <2> HIDE DEF u
  <2>4. QED
    BY <2>1, <2>3, TakesAnswerTyped
<1>3. CASE TakeDataAnswer(r)
  <2> DEFINE n == reader[r].left - 1
             c == IF n = 0 THEN "None" ELSE "QueryData"
             u == [reader[r] EXCEPT !.call = c, !.left = n]
  <2>1. TakesAnswer(r, "QueryData", "QueryCategoriesDataResponse", u)
    BY <1>3 DEF TakeDataAnswer
  <2>2. n \in Nat
    BY <1>0, <2>1 DEF TakesAnswer, Sane, ReaderStates
  <2> HIDE DEF n
  <2>3. u \in ReaderStates /\ (u.call = "QueryData" => u.left > 0)
    <3>1. c \in {"None", "QueryData"} /\ (c = "QueryData" => n > 0)
      BY <2>2
    <3> HIDE DEF c
    <3>2. u \in ReaderStates /\ u.call = c /\ u.left = n
      BY <1>0, <2>2, <3>1 DEF ReaderStates
    <3>3. QED
      BY <3>1, <3>2
  <2> HIDE DEF u
  <2>4. QED
    BY <2>1, <2>3, TakesAnswerTyped
<1>4. QED
  BY <1>1, <1>2, <1>3

\* A call goes on, or ends, with the client u.
LEMMA CallChanges ==
  ASSUME Typed, NEW r \in Readers, NEW u \in ReaderStates,
         u.call = "QueryData" => u.call = reader[r].call /\ u.left = reader[r].left,
         reader' = [reader EXCEPT ![r] = u],
         SetLogging(r) \/ ClearFinished(r) \/ WakeFinished(r)
           \/ AnswerTimesOut(r) \/ AnswerLost(r) \/ ReaderTerminated(r)
  PROVE  Typed'
<1>1. u.call = "QueryData" => u.left > 0
  BY DEF Sane, Typed
<1>2. logLate' \in Nat /\ gathered' = gathered /\ OnlyReader(r)
  BY LoggingAssumption
  DEF SetLogging, ClearFinished, WakeFinished, AnswerTimesOut, AnswerLost,
      ReaderTerminated, Typed, LoggingTypeOK
<1>3. QED
  BY <1>1, <1>2, ReaderChanges
  DEF OnlyReader, ReaderKeeps, Typed, LoggingTypeOK

\* What ends a call, or goes on with one, or the session.
LEMMA CallGoesOnTyped ==
  ASSUME Typed, NEW r \in Readers,
         SetLogging(r) \/ ClearFinished(r) \/ WakeFinished(r)
           \/ AnswerTimesOut(r) \/ AnswerLost(r) \/ ReaderTerminated(r)
  PROVE  Typed'
<1> DEFINE v == reader[r]
<1>0. v \in ReaderStates /\ Sane(r)
  BY DEF Typed, LoggingTypeOK
<1>2. CASE SetLogging(r)
  <2> DEFINE u == [v EXCEPT !.call = "Clear", !.state = "Logging"]
  <2>1. u \in ReaderStates /\ u.call = "Clear"
    BY <1>0 DEF ReaderStates
  <2>2. reader' = [reader EXCEPT ![r] = u]
    BY <1>2 DEF SetLogging
  <2> HIDE DEF u
  <2>3. QED
    BY <2>1, <2>2, CallChanges
<1>3. CASE ClearFinished(r)
  <2> DEFINE u == [v EXCEPT !.call = "None", !.finished = FALSE]
  <2>1. u \in ReaderStates /\ u.call = "None"
    BY <1>0 DEF ReaderStates
  <2>2. reader' = [reader EXCEPT ![r] = u]
    BY <1>3 DEF ClearFinished
  <2> HIDE DEF u
  <2>3. QED
    BY <2>1, <2>2, CallChanges
<1>4. CASE WakeFinished(r)
  <2> DEFINE next == IF v.state = "LoggingFinished" THEN "Idle" ELSE v.state
             u == [v EXCEPT !.call = "None", !.state = next]
  <2>1. u \in ReaderStates /\ u.call = "None"
    <3>1. next \in {"Idle", "Logging", "LoggingFinished"}
      BY <1>0 DEF ReaderStates
    <3> HIDE DEF next
    <3>2. QED
      BY <1>0, <3>1 DEF ReaderStates
  <2>2. reader' = [reader EXCEPT ![r] = u]
    BY <1>4 DEF WakeFinished
  <2> HIDE DEF u
  <2>3. QED
    BY <2>1, <2>2, CallChanges
<1>5. CASE AnswerTimesOut(r) \/ AnswerLost(r)
  <2> DEFINE u == Failed(v)
  <2>1. u \in ReaderStates /\ u.call = "None"
    BY <1>0 DEF ReaderStates, Failed
  <2>2. reader' = [reader EXCEPT ![r] = u]
    BY <1>5 DEF AnswerTimesOut, AnswerLost
  <2> HIDE DEF u
  <2>3. QED
    BY <2>1, <2>2, CallChanges
<1>6. CASE ReaderTerminated(r)
  <2> DEFINE w == ResetState(v)
             u == [w EXCEPT !.connected = FALSE]
  <2>1. w \in ReaderStates /\ w.call = v.call /\ w.left = v.left
    <3>1. <<>> \in Seq(Nat)
      OBVIOUS
    <3> DEFINE e == <<>>
    <3> HIDE DEF e
    <3>2. w = [v EXCEPT !.state = "Idle", !.messages = e, !.finished = TRUE]
      BY DEF ResetState, e
    <3> HIDE DEF w
    <3>3. QED
      BY <1>0, <3>1, <3>2 DEF ReaderStates, e
  <2>2. reader' = [reader EXCEPT ![r] = u]
    BY <1>6 DEF ReaderTerminated
  <2> HIDE DEF w
  <2>3. u \in ReaderStates /\ u.call = v.call /\ u.left = v.left
    BY <2>1 DEF ReaderStates
  <2> HIDE DEF u
  <2>4. QED
    BY <2>2, <2>3, CallChanges
<1>7. QED
  BY <1>2, <1>3, <1>4, <1>5, <1>6

\* What the client gathers and the tool reads.
LEMMA MessagesTyped ==
  ASSUME Typed, NEW r \in Readers, ReadLogMessages(r) \/ UpdateReader(r)
  PROVE  Typed'
<1> DEFINE v == reader[r]
<1>0. v \in ReaderStates /\ Sane(r) /\ v.messages \in Seq(Nat)
      /\ toReader[r] \in Seq(LogPayloads) /\ gathered[r] \in Seq(Nat)
      /\ Len(toReader[r]) <= LogWindow
  BY DEF Typed, LoggingTypeOK, ReaderStates
<1>1. CASE ReadLogMessages(r)
  <2> DEFINE u == [v EXCEPT !.messages = <<>>]
             g == gathered[r] \o v.messages
  <2>1. u \in ReaderStates /\ u.call = v.call /\ u.left = v.left
    <3> DEFINE e == <<>>
    <3>1. e \in Seq(Nat) /\ u = [v EXCEPT !.messages = e]
      OBVIOUS
    <3> HIDE DEF e, u
    <3>2. QED
      BY <1>0, <3>1 DEF ReaderStates
  <2>2. reader' = [reader EXCEPT ![r] = u] /\ gathered' = [gathered EXCEPT ![r] = g]
    BY <1>1 DEF ReadLogMessages
  <2>3. g \in Seq(Nat)
    BY <1>0
  <2> HIDE DEF u, g
  <2>4. gathered' \in [Readers -> Seq(Nat)]
    BY <2>2, <2>3 DEF Typed, LoggingTypeOK
  <2>5. u.call = "QueryData" => u.left > 0
    BY <1>0, <2>1 DEF Sane
  <2>6. QED
    BY <1>1, <2>1, <2>2, <2>4, <2>5, ReaderChanges
    DEF ReadLogMessages, OnlyReader, ReaderKeeps, Typed, LoggingTypeOK
<1>2. CASE UpdateReader(r)
  <2> DEFINE p == Head(toReader[r])
             t == Tail(toReader[r])
             m == Append(v.messages, p.n)
             u == CASE p.command = "LogMessage" -> [v EXCEPT !.messages = m]
                    [] p.command = "LogMessageSentinel" ->
                         [v EXCEPT !.state = "LoggingFinished", !.finished = TRUE]
                    [] OTHER -> [v EXCEPT !.unexpected = TRUE]
  <2>1. p \in LogPayloads /\ p.n \in Nat /\ p.command \in LoggingMessage
        /\ t \in Seq(LogPayloads) /\ Len(t) <= LogWindow
    <3>1. toReader[r] # <<>> /\ LogWindow \in Nat
      BY <1>2, LoggingAssumption DEF UpdateReader
    <3>2. p \in LogPayloads /\ t \in Seq(LogPayloads) /\ Len(t) <= LogWindow
      BY <1>0, <3>1
    <3>3. QED
      BY <3>2 DEF LogPayloads
  <2>2. m \in Seq(Nat)
    BY <1>0, <2>1
  <2>3. reader' = [reader EXCEPT ![r] = u] /\ toReader' = [toReader EXCEPT ![r] = t]
    BY <1>2 DEF UpdateReader
  <2>4. u \in ReaderStates /\ u.call = v.call /\ u.left = v.left
    <3> HIDE DEF m, p
    <3>1. CASE p.command = "LogMessage"
      BY <1>0, <2>2, <3>1 DEF ReaderStates
    <3>2. CASE p.command = "LogMessageSentinel"
      BY <1>0, <3>2 DEF ReaderStates
    <3>3. CASE p.command \notin {"LogMessage", "LogMessageSentinel"}
      BY <1>0, <3>3 DEF ReaderStates
    <3>4. QED
      BY <3>1, <3>2, <3>3
  <2> HIDE DEF u, t
  <2>5. /\ toReader' \in [Readers -> Seq(LogPayloads)]
        /\ \A q \in Readers : Len(toReader'[q]) <= LogWindow
    BY <2>1, <2>3 DEF Typed, LoggingTypeOK
  <2>6. u.call = "QueryData" => u.left > 0
    BY <1>0, <2>4 DEF Sane
  <2>7. /\ loggers' = loggers /\ toLogger' = toLogger /\ given' = given
        /\ gathered' \in [Readers -> Seq(Nat)]
        /\ numCategories' = numCategories
        /\ logs' = logs /\ logCalls' \in Nat /\ logLate' \in Nat
    BY <1>2 DEF UpdateReader, ReaderKeeps, Typed, LoggingTypeOK
  <2> HIDE DEF v
  <2>8. QED
    BY <2>3, <2>4, <2>5, <2>6, <2>7, ReaderChanges
<1>3. QED
  BY <1>1, <1>2

\* A tool connects: what was left of an earlier session is gone.
LEMMA ConnectTyped ==
  ASSUME Typed, NEW r \in Readers, ConnectReader(r)
  PROVE  Typed'
<1> DEFINE v == reader[r]
           e == <<>>
           w == [v EXCEPT !.state = "Idle", !.messages = e, !.finished = TRUE]
           u == [w EXCEPT !.connected = TRUE, !.failed = FALSE,
                          !.unexpected = FALSE]
           s == [loggers[r] EXCEPT !.open = TRUE]
<1>0. /\ v \in ReaderStates /\ v.call = "None" /\ loggers[r] \in Loggers
      /\ loggers[r] = NoLogger
  BY DEF Typed, Sane, SaneLogger, LoggingTypeOK, ConnectReader
<1>1. e \in Seq(Nat) /\ e \in Seq(LogPayloads) /\ Len(e) = 0
  OBVIOUS
<1>2. u \in ReaderStates /\ u.call = "None"
  <2> HIDE DEF e
  <2>1. w \in ReaderStates /\ w.call = "None"
    BY <1>0, <1>1 DEF ReaderStates
  <2> HIDE DEF w
  <2>2. QED
    BY <2>1 DEF ReaderStates
<1>3. s \in Loggers /\ s.open /\ s.state = "ReceivePayload"
  <2>1. loggers[r].state = "ReceivePayload"
    BY <1>0 DEF NoLogger
  <2>2. QED
    BY <1>0, <2>1 DEF Loggers
<1>4. SaneLogger(s, e)
  BY <1>3 DEF SaneLogger
<1>5. /\ reader' = [reader EXCEPT ![r] = u]
      /\ loggers' = [loggers EXCEPT ![r] = s]
      /\ toLogger' = [toLogger EXCEPT ![r] = e]
      /\ toReader' = [toReader EXCEPT ![r] = e]
      /\ given' = [given EXCEPT ![r] = e]
      /\ gathered' = [gathered EXCEPT ![r] = e]
      /\ UNCHANGED <<numCategories, logs, logCalls, logLate>>
  BY DEF ConnectReader, ResetState
<1> HIDE DEF u, s, e, v
<1>6. LoggingTypeOK'
  BY <1>1, <1>2, <1>3, <1>5, LoggingAssumption DEF Typed, LoggingTypeOK
<1>7. ASSUME NEW q \in Readers PROVE Sane(q)'
  BY <1>2, <1>4, <1>5 DEF Typed, LoggingTypeOK, Sane
<1>8. QED
  BY <1>6, <1>7 DEF Typed

\* A request.
LEMMA RequestsTyped ==
  ASSUME Typed, NEW r \in Readers, NEW state, NEW command \in Requests,
         NEW n \in Nat, NEW call \in {"Enable", "QueryNum", "Disable"},
         RequestsLog(r, state, command, n, call)
  PROVE  Typed'
<1> DEFINE v == reader[r]
           u == [v EXCEPT !.call = call]
           p == LogPayload(command, n)
           in == Append(toLogger[r], p)
<1>0. /\ v \in ReaderStates /\ toLogger[r] \in Seq(LogPayloads)
      /\ SaneLogger(loggers[r], toLogger[r])
  BY DEF Typed, LoggingTypeOK, Sane
<1>1. u \in ReaderStates /\ u.call # "QueryData"
  BY <1>0 DEF ReaderStates
<1>2. p \in LogPayloads /\ p.command = command
  BY DEF LogPayload, LogPayloads, LoggingMessage, Requests
<1>3. in \in Seq(LogPayloads) /\ Len(in) <= LogWindow
      /\ \A i \in 1..Len(in) : in[i].command \in Requests
  <2> HIDE DEF p
  <2>1. Len(toLogger[r]) < LogWindow
    BY DEF RequestsLog, Fits
  <2>2. in \in Seq(LogPayloads) /\ Len(in) = Len(toLogger[r]) + 1
        /\ \A i \in 1..Len(in) : in[i] = IF i = Len(in) THEN p ELSE toLogger[r][i]
    BY <1>0, <1>2
  <2>3. QED
    BY <1>0, <1>2, <2>1, <2>2, LoggingAssumption DEF SaneLogger
<1>4. SaneLogger(loggers[r], in)
  BY <1>0, <1>3 DEF SaneLogger
<1>5. /\ reader' = [reader EXCEPT ![r] = u]
      /\ toLogger' = [toLogger EXCEPT ![r] = in]
      /\ UNCHANGED <<loggers, numCategories, logs, given, toReader, gathered,
                     logLate>>
      /\ logCalls' = logCalls + 1
  BY DEF RequestsLog, ReaderKeeps
<1> HIDE DEF u, in, v
<1>6. LoggingTypeOK'
  BY <1>1, <1>3, <1>5 DEF Typed, LoggingTypeOK
<1>7. ASSUME NEW q \in Readers PROVE Sane(q)'
  BY <1>1, <1>4, <1>5 DEF Typed, LoggingTypeOK, Sane
<1>8. QED
  BY <1>6, <1>7 DEF Typed

\* The update of a session, as a change of its part of the state.
LEMMA UpdateLoggerIs ==
  ASSUME Typed, NEW r \in Readers, UpdateLogger(r)
  PROVE  /\ loggers[r].open
         /\ Updates(loggers[r], toLogger[r], toReader[r],
                    loggers'[r], toLogger'[r], toReader'[r])
         /\ Len(toReader'[r]) <= LogWindow
         /\ \A q \in Readers : q # r => Kept(q)
         /\ LoggerKeeps /\ UNCHANGED <<numCategories, logs, given>>
         /\ loggers' = [loggers EXCEPT ![r] = loggers'[r]]
         /\ toLogger' = [toLogger EXCEPT ![r] = toLogger'[r]]
         /\ toReader' = [toReader EXCEPT ![r] = toReader'[r]]
<1> DEFINE b == [s |-> loggers[r], in |-> toLogger[r], out |-> toReader[r]]
           a == AfterUpdate(b)
<1>1. /\ loggers[r] \in Loggers /\ toLogger[r] \in Seq(LogPayloads)
      /\ toReader[r] \in Seq(LogPayloads) /\ Len(toReader[r]) <= LogWindow
      /\ SaneLogger(loggers[r], toLogger[r]) /\ numCategories \in Nat
  BY DEF Typed, LoggingTypeOK, Sane
<1>2. /\ Updates(loggers[r], toLogger[r], toReader[r], a.s, a.in, a.out)
      /\ Len(a.out) <= LogWindow
  BY <1>1, AfterUpdateIs
<1>3. /\ loggers' = [loggers EXCEPT ![r] = a.s]
      /\ toLogger' = [toLogger EXCEPT ![r] = a.in]
      /\ toReader' = [toReader EXCEPT ![r] = a.out]
      /\ loggers[r].open
      /\ LoggerKeeps /\ UNCHANGED <<numCategories, logs, given>>
  BY DEF UpdateLogger
<1> HIDE DEF a, b
<1>4. loggers'[r] = a.s /\ toLogger'[r] = a.in /\ toReader'[r] = a.out
  BY <1>3 DEF Typed, LoggingTypeOK
<1>5. \A q \in Readers : q # r => Kept(q)
  BY <1>3 DEF Typed, LoggingTypeOK, Kept, LoggerKeeps
<1>6. QED
  BY <1>2, <1>3, <1>4, <1>5

\* An update of the session.
LEMMA UpdateLoggerTyped ==
  ASSUME Typed, NEW r \in Readers, UpdateLogger(r)
  PROVE  Typed'
<1>1. /\ loggers[r] \in Loggers /\ toLogger[r] \in Seq(LogPayloads)
      /\ toReader[r] \in Seq(LogPayloads) /\ Len(toLogger[r]) <= LogWindow
      /\ SaneLogger(loggers[r], toLogger[r]) /\ numCategories \in Nat
  BY DEF Typed, LoggingTypeOK, Sane
<1>2. /\ loggers'[r] \in Loggers /\ toLogger'[r] \in Seq(LogPayloads)
      /\ toReader'[r] \in Seq(LogPayloads)
      /\ Len(toLogger'[r]) <= Len(toLogger[r])
      /\ SaneLogger(loggers'[r], toLogger'[r])
  BY <1>1, UpdateLoggerIs, UpdatesType
<1>3. Len(toLogger'[r]) <= LogWindow
  BY <1>1, <1>2, LoggingAssumption
<1> DEFINE s == loggers'[r]
           in == toLogger'[r]
           out == toReader'[r]
<1>4. /\ loggers' = [loggers EXCEPT ![r] = s]
      /\ toLogger' = [toLogger EXCEPT ![r] = in]
      /\ toReader' = [toReader EXCEPT ![r] = out]
      /\ Len(out) <= LogWindow
      /\ LoggerKeeps /\ UNCHANGED <<numCategories, logs, given>>
  BY UpdateLoggerIs
<1>5. /\ s \in Loggers /\ in \in Seq(LogPayloads) /\ out \in Seq(LogPayloads)
      /\ Len(in) <= LogWindow /\ SaneLogger(s, in)
  BY <1>2, <1>3
<1> HIDE DEF s, in, out
<1>6. LoggingTypeOK'
  BY <1>4, <1>5 DEF Typed, LoggingTypeOK, LoggerKeeps
<1>7. ASSUME NEW q \in Readers PROVE Sane(q)'
  BY <1>4, <1>5 DEF Typed, LoggingTypeOK, Sane, LoggerKeeps
<1>8. QED
  BY <1>6, <1>7 DEF Typed

\* The end of the session.
LEMMA ClosingTyped ==
  ASSUME Typed, NEW r \in Readers, LoggerTerminated(r)
  PROVE  Typed'
<1>1. NoLogger \in Loggers /\ SaneLogger(NoLogger, toLogger[r])
  <2> DEFINE e == <<>>
             p == LogPayload("LogMessage", 0)
             z == 0
  <2>1. e \in Seq(LogPayloads) /\ p \in LogPayloads /\ z \in Nat
    BY DEF LogPayload, LogPayloads, LoggingMessage
  <2>2. NoLogger = [open |-> FALSE, state |-> "ReceivePayload",
                    enabled |-> FALSE, filter |-> z, messages |-> e,
                    numItems |-> z, scratch |-> p]
    BY DEF NoLogger
  <2> HIDE DEF e, p, z
  <2>3. NoLogger \in Loggers /\ NoLogger.state = "ReceivePayload"
    BY <2>1, <2>2 DEF Loggers
  <2>4. QED
    BY <2>3 DEF Typed, Sane, SaneLogger
<1>2. /\ loggers' = [loggers EXCEPT ![r] = NoLogger]
      /\ UNCHANGED <<reader, gathered, logCalls, logLate, numCategories,
                     toLogger, toReader, logs, given>>
  BY DEF LoggerTerminated, LoggerKeeps
<1>3. LoggingTypeOK'
  BY <1>1, <1>2 DEF Typed, LoggingTypeOK
<1>4. ASSUME NEW q \in Readers PROVE Sane(q)'
  BY <1>1, <1>2 DEF Typed, LoggingTypeOK, Sane
<1>5. QED
  BY <1>3, <1>4 DEF Typed

\* What Log makes of a session s and its output out.
Queued(s, out, p, t, sent) ==
  LET queue == Append(s.messages, p)
  IN  \/ t = [s EXCEPT !.messages = queue] /\ sent = out
      \/ /\ t = [s EXCEPT !.messages = Tail(queue)]
         /\ sent = Append(out, Head(queue))

\* What a session makes of a message is one of the two cases of Queued.
LEMMA QueueOrSendIs ==
  ASSUME NEW s \in Loggers, NEW out \in Seq(LogPayloads), NEW p \in LogPayloads,
         Len(out) <= LogWindow
  PROVE  LET a == QueueOrSend([s |-> s, out |-> out], p)
         IN  Queued(s, out, p, a.s, a.out) /\ Len(a.out) <= LogWindow
<1> USE LoggingAssumption
<1> DEFINE b == [s |-> s, out |-> out]
           queue == Append(s.messages, p)
           a == QueueOrSend(b, p)
<1>1. CASE Fits(out)
  <2> DEFINE b1 == [b EXCEPT !.out = Append(out, Head(queue))]
             o == Append(out, Head(queue))
  <2>1. a = [b1 EXCEPT !.s.messages = Tail(queue)]
    BY <1>1 DEF QueueOrSend
  <2>2. Len(o) <= LogWindow
    BY <1>1 DEF Fits
  <2> HIDE DEF queue
  <2>3. a.s = [s EXCEPT !.messages = Tail(queue)] /\ a.out = o
    BY <2>1
  <2> HIDE DEF a, b
  <2>4. Queued(s, out, p, a.s, a.out) /\ Len(a.out) <= LogWindow
    BY <2>2, <2>3 DEF Queued, queue
  <2>5. QED
    BY <2>4 DEF a, b
<1>2. CASE ~Fits(out)
  <2>1. a = [b EXCEPT !.s.messages = queue]
    BY <1>2 DEF QueueOrSend
  <2> HIDE DEF queue
  <2>2. a.s = [s EXCEPT !.messages = queue] /\ a.out = out
    BY <2>1
  <2> HIDE DEF a, b
  <2>3. Queued(s, out, p, a.s, a.out) /\ Len(a.out) <= LogWindow
    BY <2>2 DEF Queued, queue
  <2>4. QED
    BY <2>3 DEF a, b
<1>3. QED
  BY <1>1, <1>2

\* What is sent and what then waits are what was, and the message at the end.
LEMMA QueuedAtEnd ==
  ASSUME NEW s \in Loggers, NEW out \in Seq(LogPayloads), NEW p \in LogPayloads,
         NEW t, NEW sent, Queued(s, out, p, t, sent)
  PROVE  /\ t \in Loggers /\ t = [s EXCEPT !.messages = t.messages]
         /\ sent \in Seq(LogPayloads) /\ t.messages \in Seq(LogPayloads)
         /\ sent \o t.messages = Append(out \o s.messages, p)
<1> DEFINE queue == Append(s.messages, p)
<1>1. s.messages \in Seq(LogPayloads)
  BY DEF Loggers
<1>2. queue \in Seq(LogPayloads) /\ queue # <<>>
      /\ out \o queue = Append(out \o s.messages, p)
  BY <1>1, AppendConcat
<1>3. \/ t = [s EXCEPT !.messages = queue] /\ sent = out
      \/ t = [s EXCEPT !.messages = Tail(queue)] /\ sent = Append(out, Head(queue))
  BY DEF Queued
<1> HIDE DEF queue
<1>4. Head(queue) \in LogPayloads /\ Tail(queue) \in Seq(LogPayloads)
  BY <1>2
<1>7. Append(out, Head(queue)) \o Tail(queue) = out \o queue
  BY <1>2, HeadMoves
<1>5. CASE t = [s EXCEPT !.messages = queue] /\ sent = out
  <2>1. t \in Loggers /\ t.messages = queue
    BY <1>2, <1>5 DEF Loggers
  <2>2. QED
    BY <1>2, <1>5, <2>1
<1>6. CASE /\ t = [s EXCEPT !.messages = Tail(queue)]
           /\ sent = Append(out, Head(queue))
  <2>1. t \in Loggers /\ t.messages = Tail(queue)
    BY <1>4, <1>6 DEF Loggers
  <2>2. sent \in Seq(LogPayloads)
    BY <1>4, <1>6
  <2>3. QED
    BY <1>2, <1>4, <1>6, <1>7, <2>1, <2>2
<1>8. QED
  BY <1>3, <1>5, <1>6

\* What Log does to the part of a reader.
Logged(r, level) ==
  LET p == LogPayload("LogMessage", logs + 1)
  IN  \/ Kept(r) /\ ~Passes(loggers[r], level)
      \/ /\ Passes(loggers[r], level)
         /\ Queued(loggers[r], toReader[r], p, loggers'[r], toReader'[r])
         /\ given'[r] = Append(given[r], logs + 1)
         /\ reader'[r] = reader[r] /\ toLogger'[r] = toLogger[r]
         /\ gathered'[r] = gathered[r]

\* A call of Log, reader by reader.
LEMMA LogIs ==
  ASSUME Typed, NEW level \in Levels, Log(level)
  PROVE  /\ loggers' \in [Readers -> Loggers]
         /\ toReader' \in [Readers -> Seq(LogPayloads)]
         /\ given' \in [Readers -> Seq(Nat)]
         /\ logs' = logs + 1 /\ UNCHANGED <<numCategories, toLogger>>
         /\ LoggerKeeps
         /\ \A r \in Readers : Logged(r, level) /\ Len(toReader'[r]) <= LogWindow
<1> DEFINE n == logs + 1
           p == LogPayload("LogMessage", n)
           reached == {r \in Readers : Passes(loggers[r], level)}
           a(r) == QueueOrSend([s |-> loggers[r], out |-> toReader[r]], p)
<1>1. n \in Nat /\ p \in LogPayloads
  BY DEF Typed, LoggingTypeOK, LogPayload, LogPayloads, LoggingMessage
<1>2. /\ logs' = n /\ LoggerKeeps /\ UNCHANGED <<numCategories, toLogger>>
      /\ loggers' = [r \in Readers |->
           IF r \in reached THEN a(r).s ELSE loggers[r]]
      /\ toReader' = [r \in Readers |->
           IF r \in reached THEN a(r).out ELSE toReader[r]]
      /\ given' = [r \in Readers |->
           IF r \in reached THEN Append(given[r], n) ELSE given[r]]
  BY DEF Log
<1>3. ASSUME NEW r \in Readers
      PROVE  /\ Len(a(r).out) <= LogWindow
             /\ Queued(loggers[r], toReader[r], p, a(r).s, a(r).out)
  <2>1. loggers[r] \in Loggers /\ toReader[r] \in Seq(LogPayloads)
        /\ Len(toReader[r]) <= LogWindow
    BY DEF Typed, LoggingTypeOK
  <2> HIDE DEF p
  <2>2. QED
    BY <1>1, <2>1, QueueOrSendIs
<1>4. ASSUME NEW r \in Readers
      PROVE  a(r).s \in Loggers /\ a(r).out \in Seq(LogPayloads)
  <2>1. loggers[r] \in Loggers /\ toReader[r] \in Seq(LogPayloads)
    BY DEF Typed, LoggingTypeOK
  <2> HIDE DEF a, p
  <2>2. QED
    BY <1>1, <1>3, <2>1, QueuedAtEnd
<1>5. ASSUME NEW r \in Readers
      PROVE  /\ loggers'[r] = IF r \in reached THEN a(r).s ELSE loggers[r]
             /\ toReader'[r] = IF r \in reached THEN a(r).out ELSE toReader[r]
             /\ given'[r] = IF r \in reached THEN Append(given[r], n) ELSE given[r]
             /\ r \in reached <=> Passes(loggers[r], level)
  <2> HIDE DEF a
  <2>1. QED
    BY <1>2
<1> HIDE DEF a
<1>6. /\ loggers' \in [Readers -> Loggers]
      /\ toReader' \in [Readers -> Seq(LogPayloads)]
      /\ given' \in [Readers -> Seq(Nat)]
  <2>1. \A r \in Readers : /\ a(r).s \in Loggers /\ loggers[r] \in Loggers
                           /\ toReader[r] \in Seq(LogPayloads)
                           /\ a(r).out \in Seq(LogPayloads)
                           /\ given[r] \in Seq(Nat) /\ Append(given[r], n) \in Seq(Nat)
    <3>1. ASSUME NEW r \in Readers
          PROVE  /\ loggers[r] \in Loggers /\ toReader[r] \in Seq(LogPayloads)
                 /\ given[r] \in Seq(Nat) /\ Append(given[r], n) \in Seq(Nat)
      BY <1>1 DEF Typed, LoggingTypeOK
    <3>2. QED
      BY <1>3, <1>4, <3>1
  <2> HIDE DEF n, reached
  <2>2. QED
    BY <1>2, <2>1
<1>7. ASSUME NEW r \in Readers
      PROVE  Logged(r, level) /\ Len(toReader'[r]) <= LogWindow
  <2>1. Len(toReader[r]) <= LogWindow
    BY DEF Typed, LoggingTypeOK
  <2>2. CASE r \in reached
    <3>1. loggers'[r] = a(r).s /\ toReader'[r] = a(r).out
          /\ given'[r] = Append(given[r], n) /\ Passes(loggers[r], level)
          /\ reader'[r] = reader[r] /\ toLogger'[r] = toLogger[r]
          /\ gathered'[r] = gathered[r]
      BY <1>2, <1>5, <2>2 DEF LoggerKeeps
    <3> HIDE DEF reached
    <3>2. Logged(r, level)
      BY <1>3, <3>1 DEF Logged
    <3>3. QED
      BY <1>3, <3>1, <3>2
  <2>3. CASE r \notin reached
    <3>1. Kept(r) /\ ~Passes(loggers[r], level) /\ toReader'[r] = toReader[r]
      BY <1>2, <1>5, <2>3 DEF LoggerKeeps, Kept
    <3>2. QED
      BY <2>1, <3>1 DEF Logged
  <2>4. QED
    BY <2>2, <2>3
<1>8. QED
  BY <1>2, <1>6, <1>7

\* A call of Log.
LEMMA LogTyped ==
  ASSUME Typed, NEW level \in Levels, Log(level)
  PROVE  Typed'
<1>0. /\ loggers' \in [Readers -> Loggers]
      /\ toReader' \in [Readers -> Seq(LogPayloads)]
      /\ given' \in [Readers -> Seq(Nat)]
      /\ logs' = logs + 1 /\ UNCHANGED <<numCategories, toLogger>>
      /\ LoggerKeeps
      /\ \A r \in Readers : Logged(r, level) /\ Len(toReader'[r]) <= LogWindow
  BY LogIs
<1>1. LoggingTypeOK'
  BY <1>0 DEF Typed, LoggingTypeOK, LoggerKeeps
<1>2. ASSUME NEW r \in Readers PROVE Sane(r)'
  <2>1. Sane(r) /\ loggers[r] \in Loggers
    BY DEF Typed, LoggingTypeOK
  <2>2. CASE Kept(r)
    BY <2>1, <2>2 DEF Kept, Sane
  <2>3. CASE ~Kept(r)
    <3> DEFINE p == LogPayload("LogMessage", logs + 1)
               m == loggers'[r].messages
    <3>a. p \in LogPayloads /\ toReader[r] \in Seq(LogPayloads)
      BY DEF Typed, LoggingTypeOK, LogPayload, LogPayloads, LoggingMessage
    <3>b. /\ Passes(loggers[r], level)
          /\ Queued(loggers[r], toReader[r], p, loggers'[r], toReader'[r])
          /\ reader'[r] = reader[r] /\ toLogger'[r] = toLogger[r]
      BY <1>0, <2>3 DEF Logged
    <3> HIDE DEF p
    <3>c. m \in Seq(LogPayloads) /\ loggers'[r] = [loggers[r] EXCEPT !.messages = m]
      BY <2>1, <3>a, <3>b, QueuedAtEnd
    <3> HIDE DEF m
    <3>1. /\ loggers'[r].open /\ loggers'[r].state = loggers[r].state
          /\ loggers'[r].scratch = loggers[r].scratch
      BY <2>1, <3>b, <3>c DEF Loggers, Passes
    <3>2. QED
      BY <2>1, <3>b, <3>1 DEF Sane, SaneLogger
  <2>4. QED
    BY <2>2, <2>3
<1>3. QED
  BY <1>1, <1>2 DEF Typed

\* The three requests.
LEMMA RequestTyped ==
  ASSUME Typed, NEW r \in Readers,
         \/ \E level \in Levels : EnableLogging(r, level)
         \/ QueryCategories(r) \/ DisableLogging(r)
  PROVE  Typed'
<1>1. ASSUME NEW level \in Levels, EnableLogging(r, level) PROVE Typed'
  <2>1. "EnableLoggingRequest" \in Requests /\ level \in Nat
    BY LoggingAssumption DEF Requests
  <2>2. QED
    BY <1>1, <2>1, RequestsTyped DEF EnableLogging
<1>2. CASE QueryCategories(r)
  <2>1. "QueryCategoriesRequest" \in Requests
    BY DEF Requests
  <2>2. QED
    BY <1>2, <2>1, RequestsTyped DEF QueryCategories
<1>3. CASE DisableLogging(r)
  <2>1. "DisableLogging" \in Requests
    BY DEF Requests
  <2>2. QED
    BY <1>3, <2>1, RequestsTyped DEF DisableLogging
<1>4. QED
  BY <1>1, <1>2, <1>3

\* The initial state.
LEMMA InitTyped ==
  ASSUME LoggingInit
  PROVE  Typed
<1> DEFINE e == <<>>
           p == LogPayload("LogMessage", 0)
           z == 0
<1>1. e \in Seq(LogPayloads) /\ e \in Seq(Nat) /\ Len(e) = 0 /\ z \in Nat
      /\ p \in LogPayloads
  BY DEF LogPayload, LogPayloads, LoggingMessage
<1>2. /\ loggers = [r \in Readers |-> NoLogger] /\ numCategories = z
      /\ reader = [r \in Readers |-> NoReader]
      /\ toLogger = [r \in Readers |-> e] /\ toReader = [r \in Readers |-> e]
      /\ given = [r \in Readers |-> e] /\ gathered = [r \in Readers |-> e]
      /\ logs = z /\ logCalls = z /\ logLate = z
  BY DEF LoggingInit
<1>3. NoLogger = [open |-> FALSE, state |-> "ReceivePayload",
                    enabled |-> FALSE, filter |-> z, messages |-> e,
                    numItems |-> z, scratch |-> p]
      /\ NoReader = [connected |-> FALSE, state |-> "Idle", messages |-> e,
             finished |-> TRUE, call |-> "None", left |-> z,
             failed |-> FALSE, unexpected |-> FALSE]
  BY DEF NoLogger, NoReader
<1>4. z <= LogWindow /\ LogWindow \in Nat
  BY LoggingAssumption
<1>5. Len(e) <= LogWindow
  BY <1>1, <1>4
<1> HIDE DEF e, p, z
<1>6. NoLogger \in Loggers /\ NoLogger.state = "ReceivePayload"
      /\ NoReader \in ReaderStates /\ NoReader.call = "None"
  BY <1>1, <1>3 DEF Loggers, ReaderStates
<1>7. LoggingTypeOK
  BY <1>1, <1>2, <1>5, <1>6 DEF LoggingTypeOK
<1>8. ASSUME NEW r \in Readers PROVE Sane(r)
  <2>1. SaneLogger(NoLogger, e)
    BY <1>1, <1>6 DEF SaneLogger
  <2>2. QED
    BY <1>2, <1>6, <2>1 DEF Sane
<1>9. QED
  BY <1>7, <1>8 DEF Typed

\* Every step keeps the types.
LEMMA NextTyped ==
  ASSUME Typed, [LoggingNext]_logVars
  PROVE  Typed'
<1>1. ASSUME NEW r \in Readers, ReaderStep(r) PROVE Typed'
  BY <1>1, ConnectTyped, RequestTyped, AnswersTyped, CallGoesOnTyped,
     MessagesTyped DEF ReaderStep
<1>2. ASSUME NEW r \in Readers, UpdateLogger(r) \/ LoggerTerminated(r)
      PROVE  Typed'
  BY <1>2, UpdateLoggerTyped, ClosingTyped
<1>3. CASE AddCategoryTable
  <2>1. LoggingTypeOK'
    BY <1>3 DEF AddCategoryTable, LoggerKeeps, Typed, LoggingTypeOK
  <2>2. QED
    BY <1>3, <2>1 DEF AddCategoryTable, LoggerKeeps, Typed, Sane
<1>4. ASSUME NEW level \in Levels, Log(level) PROVE Typed'
  BY <1>4, LogTyped
<1>5. CASE UNCHANGED logVars
  BY <1>5 DEF logVars, Typed, LoggingTypeOK, Sane
<1>6. QED
  BY <1>1, <1>2, <1>3, <1>4, <1>5 DEF LoggingNext

\* The types, and what a session can be sent, hold in every behaviour.
THEOREM TypedInductive == LoggingSpec => []Typed
<1>1. LoggingInit => Typed
  BY InitTyped
<1>2. Typed /\ [LoggingNext]_logVars => Typed'
  BY NextTyped
<1>3. QED
  BY <1>1, <1>2, PTL DEF LoggingSpec

\* Every variable has its type, and no session holds more than its window
\* (the server and the clients of the logging protocol).
THEOREM LoggingTypeCorrect == LoggingSpec => []LoggingTypeOK
<1>1. Typed => LoggingTypeOK
  BY DEF Typed
<1>2. QED
  BY <1>1, TypedInductive, PTL

-----------------------------------------------------------------------------
(* The sentinel.                                                           *)

Has(q, command) == \E i \in 1..Len(q) : q[i].command = command

Awaited(s, in, out) ==
  \/ ~s.open
  \/ Has(in, "DisableLogging")
  \/ s.state = "ProcessPayload" /\ s.scratch.command = "DisableLogging"
  \/ Has(out, "LogMessageSentinel") \/ Has(s.messages, "LogMessageSentinel")

Woken(r) ==
  reader[r].call = "Disable" /\ ~reader[r].finished =>
    /\ reader[r].connected /\ reader[r].state = "Logging"
    /\ Awaited(loggers[r], toLogger[r], toReader[r])

\* A payload in two queues in a row.
LEMMA HasConcat ==
  ASSUME NEW a \in Seq(LogPayloads), NEW b \in Seq(LogPayloads), NEW c
  PROVE  Has(a \o b, c) <=> Has(a, c) \/ Has(b, c)
<1> DEFINE q == a \o b
<1>1. /\ Len(q) = Len(a) + Len(b) /\ Len(a) \in Nat /\ Len(b) \in Nat
      /\ \A i \in 1..Len(q) : q[i] = IF i <= Len(a) THEN a[i] ELSE b[i - Len(a)]
  OBVIOUS
<1> HIDE DEF q
<1>2. ASSUME NEW i \in 1..Len(q), q[i].command = c
      PROVE  Has(a, c) \/ Has(b, c)
  <2>1. CASE i <= Len(a)
    BY <1>1, <1>2, <2>1 DEF Has
  <2>2. CASE ~(i <= Len(a))
    <3>1. i - Len(a) \in 1..Len(b) /\ q[i] = b[i - Len(a)]
      BY <1>1, <2>2
    <3>2. QED
      BY <1>2, <3>1 DEF Has
  <2>3. QED
    BY <2>1, <2>2
<1>3. ASSUME NEW i \in 1..Len(a), a[i].command = c
      PROVE  Has(q, c)
  BY <1>1, <1>3 DEF Has
<1>4. ASSUME NEW i \in 1..Len(b), b[i].command = c
      PROVE  Has(q, c)
  <2>1. i + Len(a) \in 1..Len(q) /\ q[i + Len(a)] = b[i]
    BY <1>1
  <2>2. QED
    BY <1>4, <2>1 DEF Has
<1>5. Has(q, c) <=> Has(a, c) \/ Has(b, c)
  BY <1>2, <1>3, <1>4 DEF Has
<1>6. QED
  BY <1>5 DEF q

\* A payload in a queue that grows.
LEMMA HasAppend ==
  ASSUME NEW a \in Seq(LogPayloads), NEW p \in LogPayloads, NEW c
  PROVE  Has(Append(a, p), c) <=> Has(a, c) \/ p.command = c
<1>1. /\ Len(Append(a, p)) = Len(a) + 1 /\ Len(a) \in Nat
      /\ \A i \in 1..Len(a) : Append(a, p)[i] = a[i]
      /\ Append(a, p)[Len(a) + 1] = p
  OBVIOUS
<1> DEFINE q == Append(a, p)
<1> HIDE DEF q
<1>2. Has(q, c) <=> Has(a, c) \/ p.command = c
  BY <1>1 DEF Has, q
<1>3. QED
  BY <1>2 DEF q

\* A payload in a queue whose first is taken.
LEMMA HasTail ==
  ASSUME NEW a \in Seq(LogPayloads), a # <<>>, NEW c
  PROVE  Has(a, c) => Has(Tail(a), c) \/ Head(a).command = c
<1>1. /\ Len(Tail(a)) = Len(a) - 1 /\ Len(a) \in Nat
      /\ \A i \in 1..(Len(a) - 1) : Tail(a)[i] = a[i + 1]
      /\ Head(a) = a[1]
  OBVIOUS
<1> DEFINE t == Tail(a)
<1> HIDE DEF t
<1>2. ASSUME NEW i \in 1..Len(a), a[i].command = c, i # 1
      PROVE  Has(t, c)
  <2>1. i - 1 \in 1..Len(t) /\ t[i - 1] = a[i]
    BY <1>1, <1>2 DEF t
  <2>2. QED
    BY <1>2, <2>1 DEF Has
<1>3. Has(a, c) => Has(t, c) \/ Head(a).command = c
  BY <1>1, <1>2 DEF Has
<1>4. QED
  BY <1>3 DEF t

\* An update keeps the sentinel, or the request for it, on its way.
LEMMA UpdatesAwaited ==
  ASSUME NEW s \in Loggers, NEW in \in Seq(LogPayloads), numCategories \in Nat,
         NEW out \in Seq(LogPayloads), SaneLogger(s, in), s.open,
         NEW t, NEW rest, NEW sent, Updates(s, in, out, t, rest, sent),
         Awaited(s, in, out)
  PROVE  Awaited(t, rest, sent)
<1> DEFINE D == "DisableLogging"
           S == "LogMessageSentinel"
<1>0. s.messages \in Seq(LogPayloads) /\ s.scratch \in LogPayloads
  BY DEF Loggers
<1>1. CASE ReceivesLog(s, in, out, t, rest, sent)
  <2>1. in # <<>> /\ rest = Tail(in) /\ sent = out
        /\ t = [s EXCEPT !.state = "ProcessPayload", !.scratch = Head(in)]
        /\ s.state # "ProcessPayload"
    BY <1>1 DEF ReceivesLog
  <2>2. /\ t.state = "ProcessPayload" /\ t.scratch = Head(in)
        /\ t.messages = s.messages
    BY <2>1 DEF Loggers
  <2>3. Has(in, D) => Has(rest, D) \/ Head(in).command = D
    BY <2>1, HasTail
  <2>4. QED
    BY <2>1, <2>2, <2>3 DEF Awaited
<1>2. CASE PassesOn(s, in, out, t, rest, sent)
  <2>1. PICK k \in 0..Len(s.messages) : Passed(s, out, k, t, sent)
    BY <1>2 DEF PassesOn
  <2> DEFINE m == SubSeq(s.messages, k + 1, Len(s.messages))
             q == SubSeq(s.messages, 1, k)
  <2>2. m \in Seq(LogPayloads) /\ q \in Seq(LogPayloads) /\ q \o m = s.messages
    BY <1>0, Parts, Split
  <2>3. t = [s EXCEPT !.messages = m] /\ sent = out \o q
    BY <2>1 DEF Passed
  <2> HIDE DEF m, q
  <2>4. t.messages = m /\ t.state = s.state /\ s.state # "ProcessPayload"
    BY <1>2, <2>3 DEF Loggers, PassesOn
  <2>5. Has(s.messages, S) => Has(q, S) \/ Has(m, S)
    <3>1. Has(q \o m, S) <=> Has(q, S) \/ Has(m, S)
      BY <2>2, HasConcat
    <3>2. QED
      BY <2>2, <3>1
  <2>6. Has(out, S) \/ Has(q, S) => Has(sent, S)
    BY <2>2, <2>3, HasConcat
  <2>7. rest = in
    BY <1>2 DEF PassesOn
  <2>8. QED
    BY <2>4, <2>5, <2>6, <2>7 DEF Awaited
<1>3. CASE \/ Lists(s, in, out, t, rest, sent)
           \/ Enables(s, in, out, t, rest, sent)
  <2>1. s.scratch.command # D /\ rest = in /\ sent = out
        /\ t.messages = s.messages
    BY <1>3 DEF Lists, Enables, Loggers
  <2>2. QED
    BY <2>1 DEF Awaited
<1>4. CASE Disables(s, in, out, t, rest, sent)
  <2> DEFINE p == LogPayload(S, 0)
             m == Append(s.messages, p)
  <2>1. p \in LogPayloads /\ p.command = S
    BY DEF LogPayload, LogPayloads, LoggingMessage
  <2>2. Has(m, S)
    BY <1>0, <2>1, HasAppend
  <2>3. t = [s EXCEPT !.enabled = FALSE, !.state = "FinishLogging",
                      !.messages = m]
    BY <1>4 DEF Disables, HandleDisableLogging
  <2> HIDE DEF m
  <2>4. t.messages = m
    BY <2>3 DEF Loggers
  <2>5. QED
    BY <2>2, <2>4 DEF Awaited
<1>5. CASE \/ Finishes(s, in, out, t, rest, sent)
           \/ Listed(s, in, out, t, rest, sent)
           \/ Replies(s, in, out, t, rest, sent)
           \/ CountsLog(s, in, out, t, rest, sent)
  <2>1. \/ t = [s EXCEPT !.state = "ReceivePayload"]
        \/ t = [s EXCEPT !.state = "SendCategoriesDataResponse", !.numItems = 0]
    BY <1>5 DEF Finishes, Listed, Replies, CountsLog
  <2>2. t.messages = s.messages
    BY <2>1 DEF Loggers
  <2>3. rest = in /\ (sent = out \/ sent = Append(out, s.scratch))
        /\ s.state # "ProcessPayload"
    BY <1>5 DEF Finishes, Listed, Replies, CountsLog
  <2>4. Has(out, S) => Has(sent, S)
    <3>1. Has(Append(out, s.scratch), S) <=> Has(out, S) \/ s.scratch.command = S
      BY <1>0, HasAppend
    <3>2. QED
      BY <2>3, <3>1
  <2>5. QED
    BY <2>2, <2>3, <2>4 DEF Awaited
<1>6. CASE Items(s, in, out, t, rest, sent)
  <2>1. PICK k \in 0..(numCategories - s.numItems) :
          /\ t = [s EXCEPT !.numItems = @ + k]
          /\ sent = out \o Numbers(s, k)
    BY <1>6 DEF Items
  <2>2. Numbers(s, k) \in Seq(LogPayloads)
    BY NumbersAre
  <2>3. Has(out, S) => Has(sent, S)
    BY <2>1, <2>2, HasConcat
  <2>4. t.messages = s.messages /\ rest = in /\ s.state # "ProcessPayload"
    BY <1>6, <2>1 DEF Items, Loggers
  <2>5. QED
    BY <2>3, <2>4 DEF Awaited
<1>7. CASE t = s /\ rest = in /\ sent = out
  BY <1>7
<1>8. QED
  BY <1>1, <1>2, <1>3, <1>4, <1>5, <1>6, <1>7 DEF Updates

\* A call of Log moves what is awaited at most from one queue to the next.
LEMMA QueuedAwaited ==
  ASSUME NEW s \in Loggers, NEW in \in Seq(LogPayloads),
         NEW out \in Seq(LogPayloads), NEW p \in LogPayloads,
         NEW t, NEW sent, Queued(s, out, p, t, sent),
         Awaited(s, in, out)
  PROVE  Awaited(t, in, sent)
<1> DEFINE S == "LogMessageSentinel"
<1>0. s.messages \in Seq(LogPayloads)
  BY DEF Loggers
<1> DEFINE m == t.messages
<1>1. /\ t = [s EXCEPT !.messages = m] /\ sent \in Seq(LogPayloads)
      /\ m \in Seq(LogPayloads) /\ sent \o m = Append(out \o s.messages, p)
  BY QueuedAtEnd
<1>2. t.state = s.state /\ t.open = s.open /\ t.scratch = s.scratch
  <2> HIDE DEF m
  <2>1. QED
    BY <1>1 DEF Loggers
<1>3. Has(out, S) \/ Has(s.messages, S) => Has(Append(out \o s.messages, p), S)
  <2> DEFINE q == out \o s.messages
  <2>1. q \in Seq(LogPayloads) /\ (Has(out, S) \/ Has(s.messages, S) => Has(q, S))
    BY <1>0, HasConcat
  <2> HIDE DEF q
  <2>2. Has(q, S) => Has(Append(q, p), S)
    BY <2>1, HasAppend
  <2>3. QED
    BY <2>1, <2>2 DEF q
<1>4. Has(sent \o m, S) => Has(sent, S) \/ Has(m, S)
  BY <1>1, HasConcat
<1>5. QED
  BY <1>1, <1>2, <1>3, <1>4 DEF Awaited

\* No answer begins a DisableLogging.
LEMMA AnswersWoken ==
  ASSUME Typed, NEW r \in Readers,
         TakeEnableAnswer(r) \/ TakeNumAnswer(r) \/ TakeDataAnswer(r)
  PROVE  reader'[r].call # "Disable"
<1>0. reader[r] \in ReaderStates /\ reader \in [Readers -> ReaderStates]
  BY DEF Typed, LoggingTypeOK
<1>1. ASSUME NEW call, NEW command, NEW next, next.call # "Disable",
             TakesAnswer(r, call, command, next)
      PROVE  reader'[r].call # "Disable"
  <2>1. Failed(reader[r]).call = "None"
    BY <1>0 DEF Failed, ReaderStates
  <2>2. reader'[r] = next \/ reader'[r] = Failed(reader[r])
    BY <1>0, <1>1 DEF TakesAnswer
  <2>3. QED
    BY <1>1, <2>1, <2>2
<1>2. CASE TakeEnableAnswer(r)
  BY <1>0, <1>1, <1>2 DEF TakeEnableAnswer, ReaderStates
<1>3. CASE TakeNumAnswer(r)
  <2> DEFINE n == Head(toReader[r]).n
             c == IF n = 0 THEN "None" ELSE "QueryData"
             u == [reader[r] EXCEPT !.call = c, !.left = n]
  <2>1. TakesAnswer(r, "QueryNum", "QueryCategoriesNumResponse", u)
    BY <1>3 DEF TakeNumAnswer
  <2>2. c # "Disable"
    OBVIOUS
  <2> HIDE DEF n, c
  <2>3. u.call # "Disable"
    BY <1>0, <2>2 DEF ReaderStates
  <2> HIDE DEF u
  <2>4. QED
    BY <1>1, <2>1, <2>3
<1>4. CASE TakeDataAnswer(r)
  <2> DEFINE n == reader[r].left - 1
             c == IF n = 0 THEN "None" ELSE "QueryData"
             u == [reader[r] EXCEPT !.call = c, !.left = n]
  <2>1. TakesAnswer(r, "QueryData", "QueryCategoriesDataResponse", u)
    BY <1>4 DEF TakeDataAnswer
  <2>2. c # "Disable"
    OBVIOUS
  <2> HIDE DEF n, c
  <2>3. u.call # "Disable"
    BY <1>0, <2>2 DEF ReaderStates
  <2> HIDE DEF u
  <2>4. QED
    BY <1>1, <2>1, <2>3
<1>5. QED
  BY <1>2, <1>3, <1>4

\* What a tool and its message thread do leaves other tools alone.
LEMMA OthersKept ==
  ASSUME Typed, NEW r \in Readers, NEW q \in Readers, q # r,
         ReaderStep(r) \/ UpdateLogger(r) \/ LoggerTerminated(r)
  PROVE  Kept(q)
<1> USE DEF Typed, LoggingTypeOK, Kept, ReaderKeeps, LoggerKeeps
<1>1. CASE ConnectReader(r)
  BY <1>1 DEF ConnectReader
<1>2. ASSUME NEW state, NEW command, NEW n, NEW call,
             RequestsLog(r, state, command, n, call)
      PROVE  Kept(q)
  BY <1>2 DEF RequestsLog
<1>3. ASSUME NEW call, NEW command, NEW next,
             TakesAnswer(r, call, command, next)
      PROVE  Kept(q)
  BY <1>3 DEF TakesAnswer
<1>4. CASE SetLogging(r) \/ ClearFinished(r)
  BY <1>4 DEF SetLogging, ClearFinished, OnlyReader
<1>5. CASE AnswerTimesOut(r) \/ AnswerLost(r)
  BY <1>5 DEF AnswerTimesOut, AnswerLost, OnlyReader
<1>6. CASE ReadLogMessages(r) \/ ReaderTerminated(r)
  BY <1>6 DEF ReadLogMessages, ReaderTerminated, OnlyReader
<1>7. CASE WakeFinished(r) \/ UpdateReader(r)
  BY <1>7 DEF WakeFinished, UpdateReader, OnlyReader
<1>8. CASE UpdateLogger(r)
  BY <1>8, UpdateLoggerIs
<1>9. CASE LoggerTerminated(r)
  BY <1>9 DEF LoggerTerminated
<1>10. CASE TakeEnableAnswer(r) \/ TakeNumAnswer(r) \/ TakeDataAnswer(r)
  BY <1>3, <1>10 DEF TakeEnableAnswer, TakeNumAnswer, TakeDataAnswer
<1>11. CASE \/ \E level \in Levels : EnableLogging(r, level)
            \/ QueryCategories(r) \/ DisableLogging(r)
  BY <1>2, <1>11 DEF EnableLogging, QueryCategories, DisableLogging
<1>12. QED
  BY <1>1, <1>4, <1>5, <1>6, <1>7, <1>8, <1>9, <1>10, <1>11 DEF ReaderStep

\* Every step of a client.
LEMMA ReaderStepWoken ==
  ASSUME Typed, NEW r \in Readers, ReaderStep(r), Woken(r)
  PROVE  Woken(r)'
<1>0. /\ reader[r] \in ReaderStates /\ reader \in [Readers -> ReaderStates]
      /\ toReader[r] \in Seq(LogPayloads) /\ toReader \in [Readers -> Seq(LogPayloads)]
      /\ toLogger[r] \in Seq(LogPayloads) /\ toLogger \in [Readers -> Seq(LogPayloads)]
  BY DEF Typed, LoggingTypeOK
<1>1. ASSUME reader'[r].call # "Disable" \/ reader'[r].finished
      PROVE  Woken(r)'
  BY <1>1 DEF Woken
<1>2. CASE ConnectReader(r)
  <2>1. reader'[r] = [ResetState(reader[r]) EXCEPT
          !.connected = TRUE, !.failed = FALSE, !.unexpected = FALSE]
    BY <1>0, <1>2 DEF ConnectReader
  <2>2. ResetState(reader[r]).call = "None"
    BY <1>0, <1>2 DEF ConnectReader, ResetState, ReaderStates
  <2>3. reader'[r].call = ResetState(reader[r]).call
    <3> DEFINE w == ResetState(reader[r])
    <3>1. DOMAIN w = DOMAIN reader[r]
      BY DEF ResetState
    <3>2. "call" \in DOMAIN w
      BY <1>0, <3>1 DEF ReaderStates
    <3> HIDE DEF w
    <3>3. QED
      BY <2>1, <3>2 DEF w
  <2>4. QED
    BY <1>1, <2>2, <2>3
<1>3. CASE (\E level \in Levels : EnableLogging(r, level)) \/ QueryCategories(r)
  <2>1. PICK c \in {"Enable", "QueryNum"} : reader' = [reader EXCEPT ![r].call = c]
    BY <1>3 DEF EnableLogging, QueryCategories, RequestsLog
  <2>2. reader'[r].call = c
    BY <1>0, <2>1 DEF ReaderStates
  <2>3. QED
    BY <1>1, <2>2
<1>4. CASE DisableLogging(r)
  <2> DEFINE p == LogPayload("DisableLogging", 0)
  <2>1. reader' = [reader EXCEPT ![r].call = "Disable"]
        /\ reader[r].connected /\ reader[r].state = "Logging"
        /\ toLogger' = [toLogger EXCEPT ![r] = Append(@, p)]
    BY <1>4 DEF DisableLogging, RequestsLog
  <2>2. p \in LogPayloads /\ p.command = "DisableLogging"
    BY DEF LogPayload, LogPayloads, LoggingMessage
  <2>3. Has(toLogger'[r], "DisableLogging")
    <3>1. toLogger'[r] = Append(toLogger[r], p)
      BY <1>0, <2>1
    <3> HIDE DEF p
    <3>2. QED
      BY <1>0, <2>2, <3>1, HasAppend
  <2>4. reader'[r].connected /\ reader'[r].state = "Logging"
    BY <1>0, <2>1 DEF ReaderStates
  <2>5. QED
    BY <2>3, <2>4 DEF Woken, Awaited
<1>5. CASE TakeEnableAnswer(r) \/ TakeNumAnswer(r) \/ TakeDataAnswer(r)
  BY <1>1, <1>5, AnswersWoken
<1>6. CASE SetLogging(r) \/ ClearFinished(r)
  <2>1. \/ reader'[r] = [reader[r] EXCEPT !.call = "Clear", !.state = "Logging"]
        \/ reader'[r] = [reader[r] EXCEPT !.call = "None", !.finished = FALSE]
    BY <1>0, <1>6 DEF SetLogging, ClearFinished
  <2>2. reader'[r].call # "Disable"
    BY <1>0, <2>1 DEF ReaderStates
  <2>3. QED
    BY <1>1, <2>2
<1>7. CASE WakeFinished(r)
  <2>1. reader'[r].call # "Disable"
    BY <1>0, <1>7 DEF WakeFinished, ReaderStates
  <2>2. QED
    BY <1>1, <2>1
<1>8. CASE AnswerTimesOut(r) \/ AnswerLost(r)
  <2>1. reader'[r].call # "Disable"
    BY <1>0, <1>8 DEF AnswerTimesOut, AnswerLost, Failed, ReaderStates
  <2>2. QED
    BY <1>1, <2>1
<1>9. CASE ReaderTerminated(r)
  <2>1. reader'[r] = [ResetState(reader[r]) EXCEPT !.connected = FALSE]
    BY <1>0, <1>9 DEF ReaderTerminated
  <2>2. ResetState(reader[r]).finished
    BY <1>0 DEF ResetState, ReaderStates
  <2>3. reader'[r].finished
    <3> DEFINE w == ResetState(reader[r])
    <3>1. DOMAIN w = DOMAIN reader[r]
      BY DEF ResetState
    <3>2. "finished" \in DOMAIN w
      BY <1>0, <3>1 DEF ReaderStates
    <3> HIDE DEF w
    <3>3. QED
      BY <2>1, <2>2, <3>2 DEF w
  <2>4. QED
    BY <1>1, <2>3
<1>10. CASE ReadLogMessages(r)
  <2>1. reader' = [reader EXCEPT ![r].messages = <<>>]
        /\ UNCHANGED <<loggers, toLogger, toReader>>
    BY <1>10 DEF ReadLogMessages, OnlyReader, ReaderKeeps
  <2>2. /\ reader'[r].call = reader[r].call
        /\ reader'[r].finished = reader[r].finished
        /\ reader'[r].connected = reader[r].connected
        /\ reader'[r].state = reader[r].state
    BY <1>0, <2>1 DEF ReaderStates
  <2>3. QED
    BY <2>1, <2>2 DEF Woken
<1>11. CASE UpdateReader(r)
  <2> DEFINE p == Head(toReader[r])
  <2>1. toReader[r] # <<>> /\ toReader'[r] = Tail(toReader[r])
        /\ UNCHANGED <<loggers, toLogger>>
    BY <1>0, <1>11 DEF UpdateReader, ReaderKeeps
  <2>2. CASE p.command = "LogMessageSentinel"
    <3>1. reader'[r].finished
      BY <1>0, <1>11, <2>2 DEF UpdateReader, ReaderStates
    <3>2. QED
      BY <1>1, <3>1
  <2>3. CASE p.command # "LogMessageSentinel"
    <3>1. \/ reader'[r] = [reader[r] EXCEPT !.messages = Append(@, p.n)]
          \/ reader'[r] = [reader[r] EXCEPT !.unexpected = TRUE]
      BY <1>0, <1>11, <2>3 DEF UpdateReader
    <3>2. /\ reader'[r].call = reader[r].call
          /\ reader'[r].finished = reader[r].finished
          /\ reader'[r].connected = reader[r].connected
          /\ reader'[r].state = reader[r].state
      BY <1>0, <3>1 DEF ReaderStates
    <3>3. Has(toReader[r], "LogMessageSentinel") =>
            Has(toReader'[r], "LogMessageSentinel")
      BY <1>0, <2>1, <2>3, HasTail
    <3>4. QED
      BY <2>1, <3>2, <3>3 DEF Woken, Awaited
  <2>4. QED
    BY <2>2, <2>3
<1>12. QED
  BY <1>2, <1>3, <1>4, <1>5, <1>6, <1>7, <1>8, <1>9, <1>10, <1>11 DEF ReaderStep

\* Every step.
LEMMA NextWoken ==
  ASSUME Typed, \A r \in Readers : Woken(r), [LoggingNext]_logVars
  PROVE  \A r \in Readers : Woken(r)'
<1> SUFFICES ASSUME NEW q \in Readers PROVE Woken(q)'
  OBVIOUS
<1>0. /\ loggers[q] \in Loggers /\ toLogger[q] \in Seq(LogPayloads)
      /\ toReader[q] \in Seq(LogPayloads) /\ numCategories \in Nat
      /\ SaneLogger(loggers[q], toLogger[q]) /\ loggers \in [Readers -> Loggers]
  BY DEF Typed, LoggingTypeOK, Sane
<1>1. ASSUME NEW r \in Readers, q # r,
             ReaderStep(r) \/ UpdateLogger(r) \/ LoggerTerminated(r)
      PROVE  Woken(q)'
  BY <1>1, OthersKept DEF Kept, Woken
<1>2. CASE ReaderStep(q)
  BY <1>2, ReaderStepWoken
<1>3. CASE UpdateLogger(q)
  <2>1. Awaited(loggers[q], toLogger[q], toReader[q]) =>
          Awaited(loggers'[q], toLogger'[q], toReader'[q])
    BY <1>0, <1>3, UpdateLoggerIs, UpdatesAwaited
  <2>2. reader' = reader
    BY <1>3 DEF UpdateLogger, LoggerKeeps
  <2>3. QED
    BY <2>1, <2>2 DEF Woken
<1>4. CASE LoggerTerminated(q)
  <2>1. ~loggers'[q].open /\ reader' = reader
    BY <1>0, <1>4 DEF LoggerTerminated, LoggerKeeps, NoLogger
  <2>2. QED
    BY <2>1 DEF Woken, Awaited
<1>5. CASE AddCategoryTable \/ UNCHANGED logVars
  BY <1>5 DEF AddCategoryTable, LoggerKeeps, logVars, Woken
<1>6. ASSUME NEW level \in Levels, Log(level) PROVE Woken(q)'
  <2> DEFINE p == LogPayload("LogMessage", logs + 1)
  <2>1. Logged(q, level) /\ toReader'[q] \in Seq(LogPayloads)
    BY <1>6, LogIs
  <2>2. CASE Kept(q)
    BY <2>2 DEF Kept, Woken
  <2>3. CASE ~Kept(q)
    <3>1. /\ Queued(loggers[q], toReader[q], p, loggers'[q], toReader'[q])
          /\ reader'[q] = reader[q] /\ toLogger'[q] = toLogger[q]
      BY <2>1, <2>3 DEF Logged
    <3>2. p \in LogPayloads
      BY DEF Typed, LoggingTypeOK, LogPayload, LogPayloads, LoggingMessage
    <3> HIDE DEF p
    <3>3. Awaited(loggers[q], toLogger[q], toReader[q]) =>
            Awaited(loggers'[q], toLogger[q], toReader'[q])
      BY <1>0, <2>1, <3>1, <3>2, QueuedAwaited
    <3>4. QED
      BY <3>1, <3>3 DEF Woken
  <2>4. QED
    BY <2>2, <2>3
<1>7. QED
  BY <1>1, <1>2, <1>3, <1>4, <1>5, <1>6 DEF LoggingNext

\* Whoever waits in DisableLogging (loggingClient.cpp:151) is woken by the end of
\* its session or by a sentinel that is on its way.
THEOREM SentinelComes == LoggingSpec => []SentinelIsComing
<1> DEFINE W == \A r \in Readers : Woken(r)
<1>1. LoggingInit => W
  BY DEF LoggingInit, NoReader, Woken
<1>2. Typed /\ W /\ [LoggingNext]_logVars => W'
  BY NextWoken
<1>3. Typed /\ W => SentinelIsComing
  <2> SUFFICES ASSUME Typed, W, NEW r \in Readers,
                      reader[r].call = "Disable", ~reader[r].finished
               PROVE  /\ reader[r].connected /\ reader[r].state = "Logging"
                      /\ \/ ~loggers[r].open
                         \/ \E p \in {toLogger[r][i] : i \in DOMAIN toLogger[r]} :
                              p.command = "DisableLogging"
                         \/ /\ loggers[r].state = "ProcessPayload"
                            /\ loggers[r].scratch.command = "DisableLogging"
                         \/ LET left == toReader[r] \o loggers[r].messages
                            IN  \E i \in DOMAIN left :
                                  left[i].command = "LogMessageSentinel"
    BY DEF SentinelIsComing
  <2>1. /\ toLogger[r] \in Seq(LogPayloads) /\ toReader[r] \in Seq(LogPayloads)
        /\ loggers[r].messages \in Seq(LogPayloads)
    BY DEF Typed, LoggingTypeOK, Loggers
  <2>2. reader[r].connected /\ reader[r].state = "Logging"
        /\ Awaited(loggers[r], toLogger[r], toReader[r])
    BY DEF Woken
  <2> DEFINE left == toReader[r] \o loggers[r].messages
             in == toLogger[r]
  <2>3. left \in Seq(LogPayloads) /\ in \in Seq(LogPayloads)
    BY <2>1
  <2>4. Has(toReader[r], "LogMessageSentinel")
          \/ Has(loggers[r].messages, "LogMessageSentinel")
        => Has(left, "LogMessageSentinel")
    BY <2>1, HasConcat
  <2> HIDE DEF left, in
  <2>5. Has(left, "LogMessageSentinel") =>
          \E i \in DOMAIN left : left[i].command = "LogMessageSentinel"
    BY <2>3 DEF Has
  <2>6. Has(in, "DisableLogging") =>
          \E p \in {in[i] : i \in DOMAIN in} : p.command = "DisableLogging"
    BY <2>3 DEF Has
  <2>7. QED
    BY <2>2, <2>4, <2>5, <2>6 DEF Awaited, left, in
<1> HIDE DEF W
<1>4. QED
  BY <1>1, <1>2, <1>3, TypedInductive, PTL DEF LoggingSpec

-----------------------------------------------------------------------------
(* Where a session and its tool are: the phase of the tool's call says what *)
(* is in the queues and what the session does with it.                     *)

Only(q, c) == \A i \in 1..Len(q) : q[i].command = c
OnlyLogs(q) == Only(q, "LogMessage")

\* One payload c among log messages, and one at the end of them.
OneOf(q, c) ==
  \E k \in 1..Len(q) :
    /\ q[k].command = c
    /\ \A i \in 1..Len(q) : i # k => q[i].command = "LogMessage"
LastIs(q, c) ==
  /\ q # <<>> /\ q[Len(q)].command = c
  /\ \A i \in 1..Len(q) : i # Len(q) => q[i].command = "LogMessage"

\* The session has nothing to send, or is about to find that out.
Inactive(s) == ~s.enabled /\ s.messages = <<>>
CalmLog(s) ==
  /\ Inactive(s)
  /\ \/ s.state \in {"ReceivePayload", "FinishLogging"}
     \/ s.state = "SendCategoriesDataResponse" /\ s.numItems = numCategories
Quiet(s, in, out) == in = <<>> /\ out = <<>> /\ CalmLog(s)

Asked(in, c) == Len(in) = 1 /\ in[1].command = c
Processing(s, in, c) ==
  in = <<>> /\ s.state = "ProcessPayload" /\ s.scratch.command = c

\* The session passes on what is logged.
Streaming(s) == s.enabled /\ s.state = "ReceivePayload" /\ OnlyLogs(s.messages)
Flowing(s, in, out) == in = <<>> /\ Streaming(s) /\ OnlyLogs(out)

Enabling(s, in, out) ==
  \/ Asked(in, "EnableLoggingRequest") /\ out = <<>> /\ CalmLog(s)
  \/ Processing(s, in, "EnableLoggingRequest") /\ out = <<>> /\ Inactive(s)
  \/ /\ in = <<>> /\ s.enabled /\ s.state = "SendPayload"
     /\ OnlyLogs(s.messages) /\ OnlyLogs(out)
     /\ s.scratch.command = "EnableLoggingResponse"
  \/ in = <<>> /\ Streaming(s) /\ OneOf(out, "EnableLoggingResponse")

Disabling(s, in, out) ==
  \/ Asked(in, "DisableLogging") /\ Streaming(s) /\ OnlyLogs(out)
  \/ /\ Processing(s, in, "DisableLogging") /\ s.enabled
     /\ OnlyLogs(s.messages) /\ OnlyLogs(out)
  \/ /\ in = <<>> /\ ~s.enabled /\ s.state = "FinishLogging"
     /\ OnlyLogs(out) /\ LastIs(s.messages, "LogMessageSentinel")
  \/ /\ in = <<>> /\ Inactive(s)
     /\ s.state \in {"FinishLogging", "ReceivePayload"}
     /\ LastIs(out, "LogMessageSentinel")

\* The categories that are still to be sent.
Rest(s) == IF s.state = "SendCategoriesDataResponse"
           THEN numCategories - s.numItems ELSE 0
Listing(s) ==
  /\ s.state \in {"SendCategoriesDataResponse", "ReceivePayload"}
  /\ Inactive(s) /\ Rest(s) >= 0

QueryingNum(s, in, out) ==
  \/ Asked(in, "QueryCategoriesRequest") /\ out = <<>> /\ CalmLog(s)
  \/ Processing(s, in, "QueryCategoriesRequest") /\ out = <<>> /\ Inactive(s)
  \/ /\ in = <<>> /\ out = <<>> /\ Inactive(s)
     /\ s.state = "SendCategoriesNumResponse"
     /\ s.scratch = LogPayload("QueryCategoriesNumResponse", numCategories)
  \/ /\ in = <<>> /\ Listing(s) /\ out # <<>>
     /\ out[1] = LogPayload("QueryCategoriesNumResponse", numCategories)
     /\ Only(Tail(out), "QueryCategoriesDataResponse")
     /\ Len(out) - 1 + Rest(s) = numCategories

QueryingData(s, in, out, left) ==
  /\ in = <<>> /\ Listing(s) /\ Only(out, "QueryCategoriesDataResponse")
  /\ Len(out) + Rest(s) = left /\ left > 0

Phase(u, s, in, out) ==
  \/ u.state = "Idle" /\ u.call = "None" /\ Quiet(s, in, out)
  \/ u.state = "Idle" /\ u.call = "Enable" /\ Enabling(s, in, out)
  \/ u.state = "Idle" /\ u.call = "Enabled" /\ Flowing(s, in, out)
  \/ u.state = "Logging" /\ u.call = "Clear" /\ Flowing(s, in, out)
  \/ /\ u.state = "Logging" /\ u.call = "None" /\ ~u.finished
     /\ Flowing(s, in, out)
  \/ /\ u.state = "Logging" /\ u.call = "Disable" /\ ~u.finished
     /\ Disabling(s, in, out)
  \/ u.state = "LoggingFinished" /\ u.call = "Disable" /\ Quiet(s, in, out)
  \/ u.state = "Idle" /\ u.call = "QueryNum" /\ QueryingNum(s, in, out)
  \/ /\ u.state = "Idle" /\ u.call = "QueryData"
     /\ QueryingData(s, in, out, u.left)

Right(r) ==
  reader[r].connected /\ loggers[r].open /\ ~reader[r].failed =>
    /\ ~reader[r].unexpected
    /\ Phase(reader[r], loggers[r], toLogger[r], toReader[r])

-----------------------------------------------------------------------------

\* Two queues in a row.
LEMMA OnlyConcat ==
  ASSUME NEW a \in Seq(LogPayloads), NEW b \in Seq(LogPayloads), NEW c
  PROVE  Only(a \o b, c) <=> Only(a, c) /\ Only(b, c)
<1> DEFINE q == a \o b
<1>1. /\ Len(q) = Len(a) + Len(b) /\ Len(a) \in Nat /\ Len(b) \in Nat
      /\ \A i \in 1..Len(q) : q[i] = IF i <= Len(a) THEN a[i] ELSE b[i - Len(a)]
  OBVIOUS
<1> HIDE DEF q
<1>2. Only(q, c) => Only(a, c) /\ Only(b, c)
  <2> SUFFICES ASSUME Only(q, c) PROVE Only(a, c) /\ Only(b, c)
    OBVIOUS
  <2>1. \A i \in 1..Len(a) : i \in 1..Len(q) /\ q[i] = a[i]
    BY <1>1
  <2>2. \A i \in 1..Len(b) :
          i + Len(a) \in 1..Len(q) /\ q[i + Len(a)] = b[i]
    BY <1>1
  <2>3. QED
    BY <2>1, <2>2 DEF Only
<1>3. Only(a, c) /\ Only(b, c) => Only(q, c)
  <2> SUFFICES ASSUME Only(a, c), Only(b, c), NEW i \in 1..Len(q)
               PROVE  q[i].command = c
    BY DEF Only
  <2>1. \/ i \in 1..Len(a) /\ q[i] = a[i]
        \/ i - Len(a) \in 1..Len(b) /\ q[i] = b[i - Len(a)]
    BY <1>1
  <2>2. QED
    BY <2>1 DEF Only
<1>4. QED
  BY <1>2, <1>3 DEF q

\* A queue that grows.
LEMMA OnlyAppend ==
  ASSUME NEW a \in Seq(LogPayloads), NEW p \in LogPayloads, NEW c,
         Only(a, c), p.command = c
  PROVE  Only(Append(a, p), c)
<1>1. /\ Len(Append(a, p)) = Len(a) + 1 /\ Len(a) \in Nat
      /\ \A i \in 1..Len(a) : Append(a, p)[i] = a[i]
      /\ Append(a, p)[Len(a) + 1] = p
  OBVIOUS
<1> DEFINE q == Append(a, p)
<1> HIDE DEF q
<1>2. Only(q, c)
  BY <1>1 DEF Only, q
<1>3. QED
  BY <1>2 DEF q

\* A queue whose first is taken.
LEMMA OnlyTail ==
  ASSUME NEW a \in Seq(LogPayloads), a # <<>>, NEW c
  PROVE  /\ Only(a, c) <=> Head(a).command = c /\ Only(Tail(a), c)
         /\ Tail(a) \in Seq(LogPayloads) /\ Head(a) \in LogPayloads
         /\ Head(a) = a[1] /\ Len(Tail(a)) = Len(a) - 1
<1> DEFINE t == Tail(a)
<1>1. /\ Len(t) = Len(a) - 1 /\ Len(a) \in Nat /\ Len(a) > 0
      /\ \A i \in 1..(Len(a) - 1) : t[i] = a[i + 1]
      /\ Head(a) = a[1]
      /\ t \in Seq(LogPayloads) /\ Head(a) \in LogPayloads
  OBVIOUS
<1> HIDE DEF t
<1>2. Only(a, c) => a[1].command = c /\ Only(t, c)
  BY <1>1 DEF Only
<1>3. ASSUME a[1].command = c, Only(t, c), NEW i \in 1..Len(a)
      PROVE  a[i].command = c
  <2>1. i = 1 \/ i - 1 \in 1..Len(t)
    BY <1>1
  <2>2. i - 1 \in 1..Len(t) => t[i - 1] = a[i]
    BY <1>1
  <2>3. QED
    BY <1>3, <2>1, <2>2 DEF Only
<1>4. Only(a, c) <=> a[1].command = c /\ Only(t, c)
  BY <1>2, <1>3 DEF Only
<1>5. QED
  BY <1>1, <1>4 DEF t

\* The two parts of a queue.
LEMMA OnlyParts ==
  ASSUME NEW q \in Seq(LogPayloads), NEW k \in 0..Len(q), NEW c, Only(q, c)
  PROVE  Only(SubSeq(q, 1, k), c) /\ Only(SubSeq(q, k + 1, Len(q)), c)
<1> DEFINE a == SubSeq(q, 1, k)
           b == SubSeq(q, k + 1, Len(q))
<1>1. a \in Seq(LogPayloads) /\ b \in Seq(LogPayloads) /\ a \o b = q
  BY Parts, Split
<1> HIDE DEF a, b
<1>2. Only(a \o b, c)
  BY <1>1
<1>3. Only(a, c) /\ Only(b, c)
  BY <1>1, <1>2, OnlyConcat
<1>4. QED
  BY <1>3 DEF a, b

\* One payload among log messages.
LEMMA OneOfAppend ==
  ASSUME NEW a \in Seq(LogPayloads), NEW p \in LogPayloads, NEW c
  PROVE  /\ OnlyLogs(a) /\ p.command = c => OneOf(Append(a, p), c)
         /\ OneOf(a, c) /\ p.command = "LogMessage" => OneOf(Append(a, p), c)
<1> DEFINE q == Append(a, p)
<1>1. /\ Len(q) = Len(a) + 1 /\ Len(a) \in Nat
      /\ \A i \in 1..Len(a) : q[i] = a[i]
      /\ q[Len(a) + 1] = p
  OBVIOUS
<1> HIDE DEF q
<1>2. ASSUME OnlyLogs(a), p.command = c PROVE OneOf(q, c)
  <2>1. Len(q) \in 1..Len(q) /\ q[Len(q)].command = c
    BY <1>1, <1>2
  <2>2. \A i \in 1..Len(q) : i # Len(q) => q[i].command = "LogMessage"
    BY <1>1, <1>2 DEF OnlyLogs, Only
  <2>3. QED
    BY <2>1, <2>2 DEF OneOf
<1>3. ASSUME OneOf(a, c), p.command = "LogMessage" PROVE OneOf(q, c)
  <2>1. PICK k \in 1..Len(a) :
          /\ a[k].command = c
          /\ \A i \in 1..Len(a) : i # k => a[i].command = "LogMessage"
    BY <1>3 DEF OneOf
  <2>2. k \in 1..Len(q) /\ q[k].command = c
    BY <1>1, <2>1
  <2>3. \A i \in 1..Len(q) : i # k => q[i].command = "LogMessage"
    BY <1>1, <1>3, <2>1
  <2>4. QED
    BY <2>2, <2>3 DEF OneOf
<1>4. QED
  BY <1>2, <1>3 DEF q

\* The one payload, with log messages behind.
LEMMA OneOfConcat ==
  ASSUME NEW a \in Seq(LogPayloads), NEW b \in Seq(LogPayloads), NEW c,
         OneOf(a, c), OnlyLogs(b)
  PROVE  OneOf(a \o b, c)
<1> DEFINE q == a \o b
<1>1. /\ Len(q) = Len(a) + Len(b) /\ Len(a) \in Nat /\ Len(b) \in Nat
      /\ \A i \in 1..Len(q) : q[i] = IF i <= Len(a) THEN a[i] ELSE b[i - Len(a)]
  OBVIOUS
<1> HIDE DEF q
<1>2. PICK k \in 1..Len(a) :
        /\ a[k].command = c
        /\ \A i \in 1..Len(a) : i # k => a[i].command = "LogMessage"
  BY DEF OneOf
<1>3. k \in 1..Len(q) /\ q[k].command = c
  BY <1>1, <1>2
<1>4. ASSUME NEW i \in 1..Len(q), i # k PROVE q[i].command = "LogMessage"
  <2>1. \/ i \in 1..Len(a) /\ q[i] = a[i]
        \/ i - Len(a) \in 1..Len(b) /\ q[i] = b[i - Len(a)]
    BY <1>1
  <2>2. QED
    BY <1>2, <1>4, <2>1 DEF OnlyLogs, Only
<1>5. OneOf(q, c)
  BY <1>3, <1>4 DEF OneOf
<1>6. QED
  BY <1>5 DEF q

\* The one payload is taken.
LEMMA OneOfHead ==
  ASSUME NEW a \in Seq(LogPayloads), NEW c, c # "LogMessage", OneOf(a, c)
  PROVE  /\ a # <<>>
         /\ Head(a).command = c => OnlyLogs(Tail(a))
<1>1. PICK k \in 1..Len(a) :
        /\ a[k].command = c
        /\ \A i \in 1..Len(a) : i # k => a[i].command = "LogMessage"
  BY DEF OneOf
<1>2. a # <<>> /\ Len(a) \in Nat /\ Head(a) = a[1]
      /\ Len(Tail(a)) = Len(a) - 1 /\ 1 \in 1..Len(a)
      /\ \A i \in 1..Len(Tail(a)) : Tail(a)[i] = a[i + 1] /\ i + 1 \in 1..Len(a)
  BY <1>1
<1>3. Head(a).command = c => k = 1
  BY <1>1, <1>2
<1>4. QED
  BY <1>1, <1>2, <1>3 DEF OnlyLogs, Only

\* The last payload is in the second part, unless that is empty.
LEMMA LastIsParts ==
  ASSUME NEW q \in Seq(LogPayloads), NEW c, LastIs(q, c), NEW k \in 0..Len(q)
  PROVE  /\ k = Len(q) => /\ SubSeq(q, 1, k) = q
                          /\ SubSeq(q, k + 1, Len(q)) = <<>>
         /\ k < Len(q) => /\ OnlyLogs(SubSeq(q, 1, k))
                          /\ LastIs(SubSeq(q, k + 1, Len(q)), c)
<1> DEFINE a == SubSeq(q, 1, k)
           b == SubSeq(q, k + 1, Len(q))
<1>1. /\ a \in Seq(LogPayloads) /\ b \in Seq(LogPayloads)
      /\ Len(a) = k /\ Len(b) = Len(q) - k
      /\ \A i \in 1..k : a[i] = q[i]
      /\ \A i \in 1..(Len(q) - k) : b[i] = q[k + i]
  BY Parts
<1> HIDE DEF a, b
<1>2. ASSUME k = Len(q) PROVE a = q /\ b = <<>>
  BY <1>1, <1>2
<1>3. ASSUME k < Len(q) PROVE OnlyLogs(a) /\ LastIs(b, c)
  <2>1. Len(b) > 0 /\ b[Len(b)] = q[Len(q)] /\ Len(q) \in Nat
    BY <1>1, <1>3
  <2>2. \A i \in 1..Len(b) : i # Len(b) => b[i].command = "LogMessage"
    BY <1>1, <1>3 DEF LastIs
  <2>3. OnlyLogs(a)
    BY <1>1, <1>3 DEF LastIs, OnlyLogs, Only
  <2>4. b # <<>> /\ b[Len(b)].command = c
    BY <1>1, <2>1 DEF LastIs
  <2>5. QED
    BY <2>2, <2>3, <2>4 DEF LastIs
<1>4. QED
  BY <1>2, <1>3 DEF a, b

\* The last payload, with log messages before.
LEMMA LastIsConcat ==
  ASSUME NEW a \in Seq(LogPayloads), NEW b \in Seq(LogPayloads), NEW c,
         OnlyLogs(a), LastIs(b, c)
  PROVE  LastIs(a \o b, c)
<1> DEFINE q == a \o b
<1>1. /\ Len(q) = Len(a) + Len(b) /\ Len(a) \in Nat /\ Len(b) \in Nat
      /\ \A i \in 1..Len(q) : q[i] = IF i <= Len(a) THEN a[i] ELSE b[i - Len(a)]
      /\ q \in Seq(LogPayloads)
  BY ConcatIs
<1> HIDE DEF q
<1>2. Len(b) > 0
  BY DEF LastIs
<1>3. q # <<>> /\ q[Len(q)] = b[Len(b)]
  BY <1>1, <1>2
<1>4. ASSUME NEW i \in 1..Len(q), i # Len(q) PROVE q[i].command = "LogMessage"
  <2>1. \/ i \in 1..Len(a) /\ q[i] = a[i]
        \/ i - Len(a) \in 1..Len(b) /\ i - Len(a) # Len(b) /\ q[i] = b[i - Len(a)]
    BY <1>1, <1>4
  <2>2. QED
    BY <2>1 DEF OnlyLogs, Only, LastIs
<1>5. LastIs(q, c)
  BY <1>3, <1>4 DEF LastIs
<1>6. QED
  BY <1>5 DEF q

\* A payload behind log messages.
LEMMA LastIsAppend ==
  ASSUME NEW a \in Seq(LogPayloads), NEW p \in LogPayloads, OnlyLogs(a)
  PROVE  LastIs(Append(a, p), p.command)
<1> DEFINE q == Append(a, p)
<1>1. /\ Len(q) = Len(a) + 1 /\ Len(a) \in Nat /\ q # <<>>
      /\ \A i \in 1..Len(a) : q[i] = a[i]
      /\ q[Len(a) + 1] = p
  OBVIOUS
<1> HIDE DEF q
<1>2. q[Len(q)] = p /\ \A i \in 1..Len(q) : i # Len(q) => i \in 1..Len(a)
  BY <1>1
<1>3. LastIs(q, p.command)
  BY <1>1, <1>2 DEF LastIs, OnlyLogs, Only
<1>4. QED
  BY <1>3 DEF q

\* The first is taken from log messages before a last payload.
LEMMA LastIsHead ==
  ASSUME NEW q \in Seq(LogPayloads), NEW c, LastIs(q, c), c # "LogMessage"
  PROVE  /\ Head(q).command \in {c, "LogMessage"}
         /\ Head(q).command = c => Tail(q) = <<>>
         /\ Head(q).command = "LogMessage" => LastIs(Tail(q), c)
<1> DEFINE t == Tail(q)
<1>1. /\ q # <<>> /\ Len(q) \in Nat /\ Len(q) > 0 /\ Head(q) = q[1]
      /\ t \in Seq(LogPayloads) /\ Len(t) = Len(q) - 1
      /\ \A i \in 1..(Len(q) - 1) : t[i] = q[i + 1]
  BY DEF LastIs
<1> HIDE DEF t
<1>2. CASE Len(q) = 1
  <2>1. t = <<>> /\ Head(q).command = c
    BY <1>1, <1>2 DEF LastIs
  <2>2. QED
    BY <2>1 DEF t
<1>3. CASE Len(q) > 1
  <2>1. Head(q).command = "LogMessage"
    BY <1>1, <1>3 DEF LastIs
  <2>2. t # <<>> /\ t[Len(t)] = q[Len(q)] /\ Len(t) \in Nat
    BY <1>1, <1>3
  <2>3. \A i \in 1..Len(t) : i # Len(t) => t[i].command = "LogMessage"
    BY <1>1, <1>3 DEF LastIs
  <2>4. LastIs(t, c)
    BY <2>2, <2>3 DEF LastIs
  <2>5. QED
    BY <2>1, <2>4 DEF t
<1>4. QED
  BY <1>1, <1>2, <1>3

\* What the session passes on when it has only log messages.
LEMMA PassesLogs ==
  ASSUME NEW s \in Loggers, NEW in \in Seq(LogPayloads),
         NEW out \in Seq(LogPayloads), OnlyLogs(s.messages), NEW t, NEW rest, NEW sent,
         PassesOn(s, in, out, t, rest, sent)
  PROVE  /\ OnlyLogs(t.messages) /\ rest = in
         /\ t.state = s.state /\ t.enabled = s.enabled
         /\ OnlyLogs(out) => OnlyLogs(sent)
         /\ OneOf(out, "EnableLoggingResponse") =>
              OneOf(sent, "EnableLoggingResponse")
<1>0. s.messages \in Seq(LogPayloads)
  BY DEF Loggers
<1>1. PICK k \in 0..Len(s.messages) : Passed(s, out, k, t, sent)
  BY DEF PassesOn
<1> DEFINE m == SubSeq(s.messages, k + 1, Len(s.messages))
           q == SubSeq(s.messages, 1, k)
<1>2. m \in Seq(LogPayloads) /\ q \in Seq(LogPayloads)
      /\ OnlyLogs(q) /\ OnlyLogs(m)
  BY <1>0, Parts, OnlyParts DEF OnlyLogs
<1>3. t = [s EXCEPT !.messages = m] /\ sent = out \o q /\ rest = in
  BY <1>1 DEF Passed, PassesOn
<1> HIDE DEF m, q
<1>4. t.messages = m /\ t.state = s.state /\ t.enabled = s.enabled
  BY <1>3 DEF Loggers
<1>5. OnlyLogs(out) => OnlyLogs(sent)
  BY <1>2, <1>3, OnlyConcat DEF OnlyLogs
<1>6. OneOf(out, "EnableLoggingResponse") =>
        OneOf(sent, "EnableLoggingResponse")
  BY <1>2, <1>3, OneOfConcat
<1>7. QED
  BY <1>2, <1>3, <1>4, <1>5, <1>6

\* What an update does to a calm session.
LEMMA UpdatesCalm ==
  ASSUME NEW s \in Loggers, NEW in \in Seq(LogPayloads), numCategories \in Nat,
         NEW out \in Seq(LogPayloads), CalmLog(s), NEW t, NEW rest, NEW sent,
         Updates(s, in, out, t, rest, sent)
  PROVE  \/ CalmLog(t) /\ rest = in /\ sent = out
         \/ /\ in # <<>> /\ rest = Tail(in) /\ sent = out /\ Inactive(t)
            /\ t.state = "ProcessPayload" /\ t.scratch = Head(in)
<1>1. s.state \in {"ReceivePayload", "FinishLogging",
                   "SendCategoriesDataResponse"}
      /\ ~s.enabled /\ s.messages = <<>>
      /\ (s.state = "SendCategoriesDataResponse" => s.numItems = numCategories)
  BY DEF CalmLog, Inactive
<1>2. CASE ReceivesLog(s, in, out, t, rest, sent)
  <2>1. in # <<>> /\ rest = Tail(in) /\ sent = out
        /\ t = [s EXCEPT !.state = "ProcessPayload", !.scratch = Head(in)]
    BY <1>2 DEF ReceivesLog
  <2>2. t.state = "ProcessPayload" /\ t.scratch = Head(in) /\ Inactive(t)
    BY <1>1, <2>1 DEF Loggers, Inactive
  <2>3. QED
    BY <2>1, <2>2
<1>3. CASE \/ Finishes(s, in, out, t, rest, sent)
           \/ Listed(s, in, out, t, rest, sent)
  <2>1. t = [s EXCEPT !.state = "ReceivePayload"] /\ rest = in /\ sent = out
    BY <1>3 DEF Finishes, Listed
  <2>2. t.state = "ReceivePayload" /\ Inactive(t)
    BY <1>1, <2>1 DEF Loggers, Inactive
  <2>3. QED
    BY <2>1, <2>2 DEF CalmLog
<1>4. CASE t = s /\ rest = in /\ sent = out
  BY <1>4
<1>5. ~PassesOn(s, in, out, t, rest, sent)
  BY <1>1 DEF PassesOn
<1>6. ~Items(s, in, out, t, rest, sent)
  BY <1>1 DEF Items
<1>7. QED
  BY <1>1, <1>2, <1>3, <1>4, <1>5, <1>6
  DEF Updates, Lists, Enables, Disables, Replies, CountsLog

\* A queue of one request.
LEMMA AskedIs ==
  ASSUME NEW in \in Seq(LogPayloads), NEW c, Asked(in, c)
  PROVE  in # <<>> /\ Tail(in) = <<>> /\ Head(in).command = c
<1>1. Len(in) = 1 /\ in[1].command = c
  BY DEF Asked
<1>0. in # <<>>
  <2>1. Len(in) = 1
    BY DEF Asked
  <2>2. QED
    BY <2>1
<1>2. in # <<>> /\ Head(in) = in[1]
  BY <1>0
<1> DEFINE t == Tail(in)
<1>3. t \in Seq(LogPayloads) /\ Len(t) = 0
  BY <1>1, <1>2
<1> HIDE DEF t
<1>4. t = <<>>
  BY <1>3
<1>5. QED
  BY <1>1, <1>2, <1>4 DEF t

\* EnableLogging is asked for, handled and answered.
LEMMA UpdatesEnabling ==
  ASSUME NEW s \in Loggers, NEW in \in Seq(LogPayloads), numCategories \in Nat,
         NEW out \in Seq(LogPayloads), Enabling(s, in, out),
         NEW t, NEW rest, NEW sent, Updates(s, in, out, t, rest, sent)
  PROVE  Enabling(t, rest, sent)
<1> DEFINE E == "EnableLoggingRequest"
           R == "EnableLoggingResponse"
<1>0. s.messages \in Seq(LogPayloads) /\ s.scratch \in LogPayloads
  BY DEF Loggers
<1>1. CASE Asked(in, E) /\ out = <<>> /\ CalmLog(s)
  <2>1. \/ CalmLog(t) /\ rest = in /\ sent = out
        \/ /\ in # <<>> /\ rest = Tail(in) /\ sent = out /\ Inactive(t)
           /\ t.state = "ProcessPayload" /\ t.scratch = Head(in)
    <3>1. CalmLog(s)
      BY <1>1
    <3>2. QED
      BY <3>1, UpdatesCalm
  <2>2. Tail(in) = <<>> /\ Head(in).command = E
    BY <1>1, AskedIs
  <2>3. QED
    BY <1>1, <2>1, <2>2 DEF Enabling, Processing
<1>2. CASE Processing(s, in, E) /\ out = <<>> /\ Inactive(s)
  <2>1. \/ Enables(s, in, out, t, rest, sent)
        \/ t = s /\ rest = in /\ sent = out
    BY <1>2 DEF Processing, Updates, ReceivesLog, PassesOn, Lists, Disables,
                Finishes, Replies, CountsLog, Items, Listed
  <2>2. CASE Enables(s, in, out, t, rest, sent)
    <3> DEFINE p == LogPayload(R, 0)
    <3>1. t = [s EXCEPT !.filter = s.scratch.n, !.enabled = TRUE,
                 !.state = "SendPayload", !.scratch = p]
          /\ rest = in /\ sent = out
      BY <2>2 DEF Enables
    <3>2. p.command = R
      BY DEF LogPayload
    <3> HIDE DEF p
    <3>3. t.enabled /\ t.state = "SendPayload" /\ t.messages = s.messages
          /\ t.scratch = p
      BY <3>1 DEF Loggers
    <3>4. OnlyLogs(<<>>)
      BY DEF OnlyLogs, Only
    <3>5. in = <<>> /\ out = <<>> /\ s.messages = <<>>
      BY <1>2 DEF Processing, Inactive
    <3>6. QED
      BY <3>1, <3>2, <3>3, <3>4, <3>5 DEF Enabling
  <2>3. QED
    BY <1>2, <2>1, <2>2 DEF Enabling
<1>3. CASE /\ in = <<>> /\ s.enabled /\ s.state = "SendPayload"
           /\ OnlyLogs(s.messages) /\ OnlyLogs(out) /\ s.scratch.command = R
  <2>1. \/ Replies(s, in, out, t, rest, sent)
        \/ t = s /\ rest = in /\ sent = out
    BY <1>3 DEF Updates, ReceivesLog, PassesOn, Lists, Enables, Disables,
                Finishes, CountsLog, Items, Listed
  <2>2. CASE Replies(s, in, out, t, rest, sent)
    <3>1. t = [s EXCEPT !.state = "ReceivePayload"] /\ rest = in
          /\ sent = Append(out, s.scratch)
      BY <2>2 DEF Replies
    <3>2. t.enabled /\ t.state = "ReceivePayload" /\ t.messages = s.messages
      BY <1>3, <3>1 DEF Loggers
    <3>3. OneOf(sent, R)
      BY <1>0, <1>3, <3>1, OneOfAppend
    <3>4. QED
      BY <1>3, <3>1, <3>2, <3>3 DEF Enabling, Streaming
  <2>3. QED
    BY <1>3, <2>1, <2>2 DEF Enabling
<1>4. CASE in = <<>> /\ Streaming(s) /\ OneOf(out, R)
  <2>1. \/ PassesOn(s, in, out, t, rest, sent)
        \/ t = s /\ rest = in /\ sent = out
    BY <1>4 DEF Streaming, Updates, ReceivesLog, Lists, Enables, Disables,
                Finishes, Replies, CountsLog, Items, Listed
  <2>2. CASE PassesOn(s, in, out, t, rest, sent)
    <3>1. OnlyLogs(s.messages) /\ OneOf(out, R)
      BY <1>4 DEF Streaming
    <3>2. /\ OnlyLogs(t.messages) /\ rest = in
          /\ t.state = s.state /\ t.enabled = s.enabled
          /\ OneOf(sent, R)
      BY <2>2, <3>1, PassesLogs
    <3>3. QED
      BY <1>4, <3>2 DEF Enabling, Streaming
  <2>3. QED
    BY <1>4, <2>1, <2>2 DEF Enabling
<1>5. QED
  BY <1>1, <1>2, <1>3, <1>4 DEF Enabling

\* Messages are passed on.
LEMMA UpdatesFlowing ==
  ASSUME NEW s \in Loggers, NEW in \in Seq(LogPayloads),
         NEW out \in Seq(LogPayloads), Flowing(s, in, out), NEW t, NEW rest, NEW sent,
         Updates(s, in, out, t, rest, sent)
  PROVE  Flowing(t, rest, sent)
<1>1. \/ PassesOn(s, in, out, t, rest, sent)
      \/ t = s /\ rest = in /\ sent = out
  BY DEF Flowing, Streaming, Updates, ReceivesLog, Lists, Enables, Disables,
         Finishes, Replies, CountsLog, Items, Listed
<1>2. CASE PassesOn(s, in, out, t, rest, sent)
  <2>1. OnlyLogs(s.messages) /\ OnlyLogs(out)
    BY DEF Flowing, Streaming
  <2>2. /\ OnlyLogs(t.messages) /\ rest = in
        /\ t.state = s.state /\ t.enabled = s.enabled /\ OnlyLogs(sent)
    BY <1>2, <2>1, PassesLogs
  <2>3. QED
    BY <2>2 DEF Flowing, Streaming
<1>3. QED
  BY <1>1, <1>2

\* DisableLogging is asked for and handled, and the sentinel sent.
LEMMA UpdatesDisabling ==
  ASSUME NEW s \in Loggers, NEW in \in Seq(LogPayloads), numCategories \in Nat,
         NEW out \in Seq(LogPayloads), Disabling(s, in, out),
         NEW t, NEW rest, NEW sent, Updates(s, in, out, t, rest, sent)
  PROVE  Disabling(t, rest, sent)
<1> DEFINE D == "DisableLogging"
           S == "LogMessageSentinel"
<1>0. s.messages \in Seq(LogPayloads) /\ s.scratch \in LogPayloads
  BY DEF Loggers
<1>1. CASE Asked(in, D) /\ Streaming(s) /\ OnlyLogs(out)
  <2>1. \/ ReceivesLog(s, in, out, t, rest, sent)
        \/ PassesOn(s, in, out, t, rest, sent)
        \/ t = s /\ rest = in /\ sent = out
    BY <1>1 DEF Streaming, Updates, Lists, Enables, Disables,
                Finishes, Replies, CountsLog, Items, Listed
  <2>2. CASE ReceivesLog(s, in, out, t, rest, sent)
    <3>1. t = [s EXCEPT !.state = "ProcessPayload", !.scratch = Head(in)]
          /\ rest = Tail(in) /\ sent = out
      BY <2>2 DEF ReceivesLog
    <3>2. Tail(in) = <<>> /\ Head(in).command = D
      BY <1>1, AskedIs
    <3>3. t.state = "ProcessPayload" /\ t.scratch = Head(in)
          /\ t.messages = s.messages /\ t.enabled = s.enabled
      BY <3>1 DEF Loggers
    <3>4. QED
      BY <1>1, <3>1, <3>2, <3>3 DEF Disabling, Processing, Streaming
  <2>3. CASE PassesOn(s, in, out, t, rest, sent)
    <3>1. OnlyLogs(s.messages)
      BY <1>1 DEF Streaming
    <3>2. /\ OnlyLogs(t.messages) /\ rest = in
          /\ t.state = s.state /\ t.enabled = s.enabled /\ OnlyLogs(sent)
      BY <1>1, <2>3, <3>1, PassesLogs
    <3>3. QED
      BY <1>1, <3>2 DEF Disabling, Streaming
  <2>4. QED
    BY <1>1, <2>1, <2>2, <2>3 DEF Disabling
<1>2. CASE /\ Processing(s, in, D) /\ s.enabled
           /\ OnlyLogs(s.messages) /\ OnlyLogs(out)
  <2>1. \/ Disables(s, in, out, t, rest, sent)
        \/ t = s /\ rest = in /\ sent = out
    BY <1>2 DEF Processing, Updates, ReceivesLog, PassesOn, Lists, Enables,
                Finishes, Replies, CountsLog, Items, Listed
  <2>2. CASE Disables(s, in, out, t, rest, sent)
    <3> DEFINE p == LogPayload(S, 0)
               m == Append(s.messages, p)
    <3>1. t = [s EXCEPT !.enabled = FALSE, !.state = "FinishLogging",
                        !.messages = m]
          /\ rest = in /\ sent = out
      BY <2>2 DEF Disables, HandleDisableLogging
    <3>2. p \in LogPayloads /\ p.command = S
      BY DEF LogPayload, LogPayloads, LoggingMessage
    <3> HIDE DEF p
    <3>3. LastIs(m, S)
      BY <1>0, <1>2, <3>2, LastIsAppend
    <3> HIDE DEF m
    <3>4. ~t.enabled /\ t.state = "FinishLogging" /\ t.messages = m
      BY <3>1 DEF Loggers
    <3>5. QED
      BY <1>2, <3>1, <3>3, <3>4 DEF Disabling, Processing
  <2>3. QED
    BY <1>2, <2>1, <2>2 DEF Disabling
<1>3. CASE /\ in = <<>> /\ ~s.enabled /\ s.state = "FinishLogging"
           /\ OnlyLogs(out) /\ LastIs(s.messages, S)
  <2>0. s.messages # <<>>
    BY <1>3 DEF LastIs
  <2>1. \/ PassesOn(s, in, out, t, rest, sent)
        \/ t = s /\ rest = in /\ sent = out
    BY <1>3, <2>0 DEF Updates, ReceivesLog, Lists, Enables, Disables,
                Finishes, Replies, CountsLog, Items, Listed
  <2>2. CASE PassesOn(s, in, out, t, rest, sent)
    <3>1. PICK k \in 0..Len(s.messages) : Passed(s, out, k, t, sent)
      BY <2>2 DEF PassesOn
    <3> DEFINE m == SubSeq(s.messages, k + 1, Len(s.messages))
               q == SubSeq(s.messages, 1, k)
    <3>2. m \in Seq(LogPayloads) /\ q \in Seq(LogPayloads)
      BY <1>0, Parts
    <3>3. /\ k = Len(s.messages) => q = s.messages /\ m = <<>>
          /\ k < Len(s.messages) => OnlyLogs(q) /\ LastIs(m, S)
      BY <1>0, <1>3, LastIsParts
    <3>4. t = [s EXCEPT !.messages = m] /\ sent = out \o q /\ rest = in
      BY <2>2, <3>1 DEF Passed, PassesOn
    <3>5. k = Len(s.messages) \/ k < Len(s.messages)
      BY <1>0
    <3> HIDE DEF m, q
    <3>6. t.messages = m /\ t.state = "FinishLogging" /\ ~t.enabled
      BY <1>3, <3>4 DEF Loggers
    <3>7. CASE k = Len(s.messages)
      <4>1. LastIs(sent, S)
        BY <1>0, <1>3, <3>3, <3>4, <3>7, LastIsConcat
      <4>2. QED
        BY <1>3, <3>3, <3>4, <3>6, <3>7, <4>1 DEF Disabling, Inactive
    <3>8. CASE k < Len(s.messages)
      <4>1. OnlyLogs(sent)
        BY <1>3, <3>2, <3>3, <3>4, <3>8, OnlyConcat DEF OnlyLogs
      <4>2. QED
        BY <1>3, <3>3, <3>4, <3>6, <3>8, <4>1 DEF Disabling
    <3>9. QED
      BY <3>5, <3>7, <3>8
  <2>3. QED
    BY <1>3, <2>1, <2>2 DEF Disabling
<1>4. CASE /\ in = <<>> /\ Inactive(s)
           /\ s.state \in {"FinishLogging", "ReceivePayload"}
           /\ LastIs(out, S)
  <2>1. \/ Finishes(s, in, out, t, rest, sent)
        \/ t = s /\ rest = in /\ sent = out
    BY <1>4 DEF Inactive, Updates, ReceivesLog, PassesOn, Lists, Enables, Disables,
                Replies, CountsLog, Items, Listed
  <2>2. CASE Finishes(s, in, out, t, rest, sent)
    <3>1. t = [s EXCEPT !.state = "ReceivePayload"] /\ rest = in /\ sent = out
      BY <2>2 DEF Finishes
    <3>2. t.state = "ReceivePayload" /\ Inactive(t)
      BY <1>4, <3>1 DEF Loggers, Inactive
    <3>3. QED
      BY <1>4, <3>1, <3>2 DEF Disabling
  <2>3. QED
    BY <1>4, <2>1, <2>2 DEF Disabling
<1>5. QED
  BY <1>1, <1>2, <1>3, <1>4 DEF Disabling

\* A session that lists the categories: what it sends it has not to send any
\* longer.
LEMMA UpdatesListing ==
  ASSUME NEW s \in Loggers, NEW in, numCategories \in Nat, in = <<>>,
         NEW out \in Seq(LogPayloads), Listing(s),
         NEW t, NEW rest, NEW sent, Updates(s, in, out, t, rest, sent)
  PROVE  /\ rest = in /\ Listing(t) /\ Rest(t) \in Nat
         /\ \E more \in Seq(LogPayloads) :
              /\ sent = out \o more
              /\ Only(more, "QueryCategoriesDataResponse")
              /\ Len(more) + Rest(t) = Rest(s)
<1> DEFINE d == "SendCategoriesDataResponse"
           e == <<>>
<1>0. /\ s.state \in {d, "ReceivePayload"} /\ ~s.enabled /\ s.messages = <<>>
      /\ s.numItems \in Nat /\ Rest(s) \in Nat
      /\ Rest(s) = IF s.state = d THEN numCategories - s.numItems ELSE 0
  BY DEF Listing, Inactive, Rest, Loggers
<1>e. /\ e \in Seq(LogPayloads) /\ Len(e) = 0 /\ out \o e = out
      /\ Only(e, "QueryCategoriesDataResponse")
  BY DEF Only
<1>1. \/ Items(s, in, out, t, rest, sent) \/ Listed(s, in, out, t, rest, sent)
      \/ t = s /\ rest = in /\ sent = out
  BY <1>0 DEF Updates, ReceivesLog, PassesOn, Lists, Enables, Disables,
              Finishes, Replies, CountsLog
<1>2. CASE Items(s, in, out, t, rest, sent)
  <2>1. PICK k \in 0..(numCategories - s.numItems) :
          /\ t = [s EXCEPT !.numItems = @ + k]
          /\ sent = out \o Numbers(s, k)
    BY <1>2 DEF Items
  <2>2. k \in Nat /\ s.state = d /\ rest = in
    BY <1>0, <1>2, <2>1 DEF Items
  <2> DEFINE n == s.numItems + k
             more == Numbers(s, k)
  <2>3. more \in Seq(LogPayloads) /\ Len(more) = k
        /\ Only(more, "QueryCategoriesDataResponse")
    BY <2>2, NumbersAre DEF Only
  <2>4. n \in Nat /\ n <= numCategories
    BY <1>0, <2>1, <2>2
  <2>5. t = [s EXCEPT !.numItems = n]
    BY <2>1
  <2> HIDE DEF n
  <2>6. t.numItems = n /\ t.state = d /\ ~t.enabled /\ t.messages = <<>>
    BY <1>0, <2>2, <2>5 DEF Loggers
  <2>7. Rest(t) = numCategories - n
    BY <2>6 DEF Rest
  <2>8. Listing(t)
    BY <2>4, <2>6, <2>7 DEF Listing, Inactive
  <2>9. Len(more) + Rest(t) = Rest(s)
    BY <1>0, <2>2, <2>3, <2>7 DEF n
  <2> HIDE DEF more
  <2>10. sent = out \o more
    BY <2>1 DEF more
  <2>11. QED
    <3>1. Rest(t) \in Nat
      BY <2>4, <2>7
    <3>2. QED
      BY <2>2, <2>3, <2>8, <2>9, <2>10, <3>1
<1>3. CASE Listed(s, in, out, t, rest, sent)
  <2>1. t = [s EXCEPT !.state = "ReceivePayload"] /\ rest = in /\ sent = out
        /\ s.state = d /\ s.numItems >= numCategories
    BY <1>3 DEF Listed
  <2>2. t.state = "ReceivePayload" /\ ~t.enabled /\ t.messages = <<>>
    BY <1>0, <2>1 DEF Loggers
  <2>3. Rest(t) = 0 /\ Rest(s) = 0
    BY <1>0, <2>1, <2>2 DEF Rest
  <2>4. Listing(t)
    BY <2>2, <2>3 DEF Listing, Inactive
  <2> HIDE DEF e
  <2>5. sent = out \o e /\ Len(e) + Rest(t) = Rest(s)
    BY <1>e, <2>1, <2>3
  <2>6. \E more \in Seq(LogPayloads) :
          /\ sent = out \o more
          /\ Only(more, "QueryCategoriesDataResponse")
          /\ Len(more) + Rest(t) = Rest(s)
    BY <1>e, <2>5
  <2>7. rest = in /\ Rest(t) \in Nat
    BY <2>1, <2>3
  <2>8. QED
    BY <2>4, <2>6, <2>7
<1>4. CASE t = s /\ rest = in /\ sent = out
  <2> HIDE DEF e
  <2>1. sent = out \o e /\ Len(e) + Rest(t) = Rest(s)
    BY <1>0, <1>e, <1>4
  <2>2. QED
    BY <1>0, <1>e, <1>4, <2>1
<1>5. QED
  BY <1>1, <1>2, <1>3, <1>4

\* The categories are sent while the client takes them.
LEMMA UpdatesQueryingData ==
  ASSUME NEW s \in Loggers, NEW in, numCategories \in Nat, NEW left \in Nat,
         NEW out \in Seq(LogPayloads), QueryingData(s, in, out, left),
         NEW t, NEW rest, NEW sent, Updates(s, in, out, t, rest, sent)
  PROVE  QueryingData(t, rest, sent, left)
<1> DEFINE D == "QueryCategoriesDataResponse"
<1>1. /\ in = <<>> /\ Listing(s) /\ Only(out, D)
      /\ Len(out) + Rest(s) = left /\ left > 0
  BY DEF QueryingData
<1>2. rest = in /\ Listing(t)
  BY <1>1, UpdatesListing
<1>3. PICK more \in Seq(LogPayloads) :
        /\ sent = out \o more /\ Only(more, D)
        /\ Len(more) + Rest(t) = Rest(s)
  BY <1>1, UpdatesListing
<1>4. Only(sent, D)
  BY <1>1, <1>3, OnlyConcat
<1>5. Len(sent) = Len(out) + Len(more) /\ Len(out) \in Nat /\ Len(more) \in Nat
  BY <1>3, ConcatIs
<1>6. Rest(t) \in Nat
  BY <1>1, UpdatesListing
<1>7. Len(sent) + Rest(t) = left
  BY <1>1, <1>3, <1>5, <1>6
<1>8. QED
  BY <1>1, <1>2, <1>4, <1>7 DEF QueryingData

\* QueryCategories is asked for and handled, and answered with the number.
LEMMA UpdatesQueryingNum ==
  ASSUME NEW s \in Loggers, NEW in \in Seq(LogPayloads), numCategories \in Nat,
         NEW out \in Seq(LogPayloads), QueryingNum(s, in, out),
         NEW t, NEW rest, NEW sent, Updates(s, in, out, t, rest, sent)
  PROVE  QueryingNum(t, rest, sent)
<1> DEFINE Q == "QueryCategoriesRequest"
           D == "QueryCategoriesDataResponse"
           num == LogPayload("QueryCategoriesNumResponse", numCategories)
<1>0. num \in LogPayloads /\ num.n = numCategories
  BY DEF LogPayload, LogPayloads, LoggingMessage
<1>1. CASE Asked(in, Q) /\ out = <<>> /\ CalmLog(s)
  <2>1. \/ CalmLog(t) /\ rest = in /\ sent = out
        \/ /\ in # <<>> /\ rest = Tail(in) /\ sent = out /\ Inactive(t)
           /\ t.state = "ProcessPayload" /\ t.scratch = Head(in)
    <3>1. CalmLog(s)
      BY <1>1
    <3>2. QED
      BY <3>1, UpdatesCalm
  <2>2. Tail(in) = <<>> /\ Head(in).command = Q
    BY <1>1, AskedIs
  <2>3. QED
    BY <1>1, <2>1, <2>2 DEF QueryingNum, Processing
<1>2. CASE Processing(s, in, Q) /\ out = <<>> /\ Inactive(s)
  <2>1. \/ Lists(s, in, out, t, rest, sent)
        \/ t = s /\ rest = in /\ sent = out
    BY <1>2 DEF Processing, Updates, ReceivesLog, PassesOn, Enables, Disables,
                Finishes, Replies, CountsLog, Items, Listed
  <2>2. CASE Lists(s, in, out, t, rest, sent)
    <3>1. t = [s EXCEPT !.state = "SendCategoriesNumResponse", !.scratch = num]
          /\ rest = in /\ sent = out
      BY <2>2 DEF Lists
    <3> HIDE DEF num
    <3>2. t.state = "SendCategoriesNumResponse" /\ t.scratch = num /\ Inactive(t)
      BY <1>2, <3>1 DEF Loggers, Inactive
    <3>3. QED
      BY <1>2, <3>1, <3>2 DEF QueryingNum, Processing, num
  <2>3. QED
    BY <1>2, <2>1, <2>2 DEF QueryingNum
<1>3. CASE /\ in = <<>> /\ out = <<>> /\ Inactive(s)
           /\ s.state = "SendCategoriesNumResponse" /\ s.scratch = num
  <2>1. \/ CountsLog(s, in, out, t, rest, sent)
        \/ t = s /\ rest = in /\ sent = out
    BY <1>3 DEF Updates, ReceivesLog, PassesOn, Lists, Enables, Disables,
                Finishes, Replies, Items, Listed
  <2>2. CASE CountsLog(s, in, out, t, rest, sent)
    <3>1. /\ \/ /\ numCategories > 0
                /\ t = [s EXCEPT !.state = "SendCategoriesDataResponse",
                                 !.numItems = 0]
             \/ numCategories = 0 /\ t = [s EXCEPT !.state = "ReceivePayload"]
          /\ rest = in /\ sent = Append(out, num)
      BY <1>0, <1>3, <2>2 DEF CountsLog
    <3>2. Listing(t) /\ Rest(t) = numCategories
      <4>1. CASE /\ numCategories > 0
                 /\ t = [s EXCEPT !.state = "SendCategoriesDataResponse",
                                  !.numItems = 0]
        <5>1. t.state = "SendCategoriesDataResponse" /\ t.numItems = 0
              /\ Inactive(t)
          BY <1>3, <4>1 DEF Loggers, Inactive
        <5>2. QED
          BY <5>1 DEF Listing, Rest
      <4>2. CASE numCategories = 0 /\ t = [s EXCEPT !.state = "ReceivePayload"]
        <5>1. t.state = "ReceivePayload" /\ Inactive(t)
          BY <1>3, <4>2 DEF Loggers, Inactive
        <5>2. QED
          BY <4>2, <5>1 DEF Listing, Rest
      <4>3. QED
        BY <3>1, <4>1, <4>2
    <3> HIDE DEF num
    <3>3. sent # <<>> /\ sent[1] = num /\ Len(sent) = 1 /\ Tail(sent) = <<>>
      <4>1. sent = <<num>>
        BY <1>3, <3>1
      <4>2. QED
        BY <4>1
    <3>4. Only(Tail(sent), D)
      <4>1. Only(<<>>, D)
        BY DEF Only
      <4>2. QED
        BY <3>3, <4>1
    <3>5. Len(sent) - 1 + Rest(t) = numCategories
      BY <3>2, <3>3
    <3>6. QED
      BY <1>3, <3>1, <3>2, <3>3, <3>4, <3>5 DEF QueryingNum, num
  <2>3. QED
    BY <1>3, <2>1, <2>2 DEF QueryingNum
<1>4. CASE /\ in = <<>> /\ Listing(s) /\ out # <<>> /\ out[1] = num
           /\ Only(Tail(out), D) /\ Len(out) - 1 + Rest(s) = numCategories
  <2>0. in = <<>> /\ Listing(s) /\ out # <<>> /\ Only(Tail(out), D)
    BY <1>4
  <2>a. in = <<>> /\ Listing(s)
    BY <1>4
  <2>1. rest = in /\ Listing(t) /\ Rest(t) \in Nat
    BY <2>a, UpdatesListing
  <2>2. PICK more \in Seq(LogPayloads) :
          /\ sent = out \o more /\ Only(more, D)
          /\ Len(more) + Rest(t) = Rest(s)
    BY <2>a, UpdatesListing
  <2>3. Tail(sent) = Tail(out) \o more /\ Head(sent) = Head(out)
    BY <2>0, <2>2, HeadTail
  <2>4. Len(sent) = Len(out) + Len(more) /\ Len(out) \in Nat /\ Len(more) \in Nat
        /\ sent \in Seq(LogPayloads)
    BY <2>2, ConcatIs
  <2>5. Len(out) > 0 /\ sent # <<>>
    <3>1. Len(out) > 0
      BY <2>0
    <3>2. Len(sent) > 0
      BY <2>4, <3>1
    <3>3. QED
      BY <3>1, <3>2
  <2>6. sent[1] = out[1]
    BY <2>0, <2>3, <2>4, <2>5
  <2>7. Tail(out) \in Seq(LogPayloads)
    BY <2>0
  <2>8. Only(Tail(sent), D)
    <3>1. Only(Tail(out) \o more, D)
      BY <2>0, <2>2, <2>7, OnlyConcat
    <3>2. QED
      BY <2>3, <3>1
  <2>9. Len(sent) - 1 + Rest(t) = numCategories
    BY <1>4, <2>1, <2>2, <2>4
  <2>10. QED
    BY <1>4, <2>1, <2>5, <2>6, <2>8, <2>9 DEF QueryingNum
<1>5. QED
  BY <1>1, <1>2, <1>3, <1>4 DEF QueryingNum

\* Nothing is asked of a quiet session.
LEMMA UpdatesQuiet ==
  ASSUME NEW s \in Loggers, NEW in \in Seq(LogPayloads), numCategories \in Nat,
         NEW out \in Seq(LogPayloads), Quiet(s, in, out),
         NEW t, NEW rest, NEW sent, Updates(s, in, out, t, rest, sent)
  PROVE  Quiet(t, rest, sent)
<1>1. CalmLog(s)
  BY DEF Quiet
<1>2. \/ CalmLog(t) /\ rest = in /\ sent = out
      \/ in # <<>>
  BY <1>1, UpdatesCalm
<1>3. QED
  BY <1>2 DEF Quiet

\* An update of the session keeps the phase of its tool.
LEMMA UpdatesPhase ==
  ASSUME NEW u \in ReaderStates, NEW s \in Loggers, numCategories \in Nat,
         NEW in \in Seq(LogPayloads), NEW out \in Seq(LogPayloads),
         Phase(u, s, in, out),
         NEW t, NEW rest, NEW sent, Updates(s, in, out, t, rest, sent)
  PROVE  Phase(u, t, rest, sent)
<1>1. Quiet(s, in, out) => Quiet(t, rest, sent)
  BY UpdatesQuiet
<1>2. Enabling(s, in, out) => Enabling(t, rest, sent)
  BY UpdatesEnabling
<1>3. Flowing(s, in, out) => Flowing(t, rest, sent)
  BY UpdatesFlowing
<1>4. Disabling(s, in, out) => Disabling(t, rest, sent)
  BY UpdatesDisabling
<1>5. QueryingNum(s, in, out) => QueryingNum(t, rest, sent)
  BY UpdatesQueryingNum
<1>6. QueryingData(s, in, out, u.left) => QueryingData(t, rest, sent, u.left)
  <2>1. u.left \in Nat
    BY DEF ReaderStates
  <2>2. QED
    BY <2>1, UpdatesQueryingData
<1>7. QED
  BY <1>1, <1>2, <1>3, <1>4, <1>5, <1>6 DEF Phase

\* A message that passes the filter of a session keeps the phase of its tool.
LEMMA QueuedLogs ==
  ASSUME NEW s \in Loggers, NEW out \in Seq(LogPayloads), NEW p \in LogPayloads,
         p.command = "LogMessage", OnlyLogs(s.messages),
         NEW t, NEW sent, Queued(s, out, p, t, sent)
  PROVE  /\ OnlyLogs(t.messages) /\ t.state = s.state /\ t.enabled = s.enabled
         /\ t.scratch = s.scratch
         /\ OnlyLogs(out) => OnlyLogs(sent)
         /\ OneOf(out, "EnableLoggingResponse") =>
              OneOf(sent, "EnableLoggingResponse")
<1> DEFINE queue == Append(s.messages, p)
<1>0. s.messages \in Seq(LogPayloads)
  BY DEF Loggers
<1>1. queue \in Seq(LogPayloads) /\ queue # <<>>
  BY <1>0
<1>2. OnlyLogs(queue)
  BY <1>0, OnlyAppend DEF OnlyLogs
<1>3. \/ t = [s EXCEPT !.messages = queue] /\ sent = out
      \/ t = [s EXCEPT !.messages = Tail(queue)] /\ sent = Append(out, Head(queue))
  BY DEF Queued
<1> HIDE DEF queue
<1>4. Head(queue).command = "LogMessage" /\ OnlyLogs(Tail(queue))
      /\ Head(queue) \in LogPayloads
  BY <1>1, <1>2, OnlyTail DEF OnlyLogs
<1>5. /\ OnlyLogs(out) => OnlyLogs(Append(out, Head(queue)))
      /\ OneOf(out, "EnableLoggingResponse") =>
           OneOf(Append(out, Head(queue)), "EnableLoggingResponse")
  BY <1>4, OnlyAppend, OneOfAppend DEF OnlyLogs
<1>6. /\ t.messages = queue \/ t.messages = Tail(queue)
      /\ t.state = s.state /\ t.enabled = s.enabled /\ t.scratch = s.scratch
  BY <1>3 DEF Loggers
<1>7. QED
  BY <1>2, <1>3, <1>4, <1>5, <1>6

\* The same for the phase of a tool.
LEMMA QueuedPhase ==
  ASSUME NEW u \in ReaderStates, NEW s \in Loggers,
         NEW in \in Seq(LogPayloads), NEW out \in Seq(LogPayloads),
         NEW p \in LogPayloads, p.command = "LogMessage",
         Phase(u, s, in, out), s.enabled,
         NEW t, NEW sent, Queued(s, out, p, t, sent)
  PROVE  Phase(u, t, in, sent)
<1>0. ASSUME OnlyLogs(s.messages)
      PROVE  /\ OnlyLogs(t.messages) /\ t.state = s.state /\ t.enabled
             /\ t.scratch = s.scratch
             /\ OnlyLogs(out) => OnlyLogs(sent)
             /\ OneOf(out, "EnableLoggingResponse") =>
                  OneOf(sent, "EnableLoggingResponse")
  BY <1>0, QueuedLogs
<1>1. ~Inactive(s) /\ ~CalmLog(s) /\ ~Quiet(s, in, out) /\ ~QueryingNum(s, in, out)
      /\ ~QueryingData(s, in, out, u.left)
  BY DEF Inactive, CalmLog, Quiet, QueryingNum, QueryingData, Listing
<1>2. Flowing(s, in, out) => Flowing(t, in, sent)
  BY <1>0 DEF Flowing, Streaming
<1>3. Enabling(s, in, out) => Enabling(t, in, sent)
  BY <1>0, <1>1 DEF Enabling, Streaming
<1>4. Disabling(s, in, out) => Disabling(t, in, sent)
  BY <1>0, <1>1 DEF Disabling, Streaming, Processing
<1>5. QED
  BY <1>1, <1>2, <1>3, <1>4 DEF Phase

\* A step that gives a reader a phase keeps it right: the phases depend on no
\* other variable but the number of categories.
LEMMA PhaseIsRight ==
  ASSUME numCategories' = numCategories, NEW r, NEW u, NEW s, NEW in, NEW out,
         reader'[r] = u, loggers'[r] = s, toLogger'[r] = in, toReader'[r] = out,
         u.connected /\ s.open /\ ~u.failed =>
           ~u.unexpected /\ Phase(u, s, in, out)
  PROVE  Right(r)'
<1>1. (Phase(reader[r], loggers[r], toLogger[r], toReader[r]))' <=>
         Phase(u, s, in, out)
  BY DEF Phase, Quiet, CalmLog, Enabling, Flowing, Disabling, QueryingNum,
         QueryingData, Listing, Rest
<1>2. QED
  BY <1>1 DEF Right

\* A tool connects to a session without a past.
LEMMA ConnectRight ==
  ASSUME Typed, NEW r \in Readers, ConnectReader(r)
  PROVE  Right(r)'
<1> DEFINE v == reader[r]
           e == <<>>
           w == [v EXCEPT !.state = "Idle", !.messages = e, !.finished = TRUE]
           u == [w EXCEPT !.connected = TRUE, !.failed = FALSE,
                          !.unexpected = FALSE]
           s == [loggers[r] EXCEPT !.open = TRUE]
<1>0. /\ v \in ReaderStates /\ v.call = "None" /\ loggers[r] \in Loggers
      /\ loggers[r] = NoLogger
  BY DEF Typed, Sane, SaneLogger, LoggingTypeOK, ConnectReader
<1>2. u.state = "Idle" /\ u.call = "None" /\ ~u.unexpected
  <2> HIDE DEF e
  <2>1. DOMAIN w = DOMAIN v /\ w.state = "Idle" /\ w.call = "None"
    BY <1>0 DEF ReaderStates
  <2>2. DOMAIN v = {"connected", "state", "messages", "finished", "left",
                    "failed", "unexpected", "call"}
    BY <1>0 DEF ReaderStates
  <2> HIDE DEF w
  <2>3. QED
    BY <2>1, <2>2
<1>3. CalmLog(s)
  <2>1. loggers[r].state = "ReceivePayload" /\ ~loggers[r].enabled
        /\ loggers[r].messages = <<>>
    BY <1>0 DEF NoLogger
  <2>2. s.state = "ReceivePayload" /\ ~s.enabled /\ s.messages = <<>>
    BY <1>0, <2>1 DEF Loggers
  <2>3. QED
    BY <2>2 DEF CalmLog, Inactive
<1>4. /\ reader' = [reader EXCEPT ![r] = u]
      /\ loggers' = [loggers EXCEPT ![r] = s]
      /\ toLogger' = [toLogger EXCEPT ![r] = e]
      /\ toReader' = [toReader EXCEPT ![r] = e]
      /\ numCategories' = numCategories
  BY DEF ConnectReader, ResetState
<1> HIDE DEF u, s, e
<1>5. /\ reader'[r] = u /\ loggers'[r] = s /\ toLogger'[r] = e
      /\ toReader'[r] = e
  BY <1>4 DEF Typed, LoggingTypeOK
<1>6. Quiet(s, e, e)
  BY <1>3 DEF Quiet, e
<1>7. Phase(u, s, e, e)
  BY <1>2, <1>6 DEF Phase
<1>8. QED
  BY <1>2, <1>4, <1>5, <1>7, PhaseIsRight

\* What a request makes of the client and its queue.
LEMMA RequestsLogIs ==
  ASSUME Typed, NEW r \in Readers, NEW state, NEW command, NEW n,
         NEW call, RequestsLog(r, state, command, n, call), toLogger[r] = <<>>
  PROVE  /\ Asked(toLogger'[r], command)
         /\ LET u == reader'[r]
            IN  /\ u.state = state /\ u.call = call
                /\ u.finished = reader[r].finished
                /\ u.unexpected = reader[r].unexpected
                /\ u.failed = reader[r].failed
         /\ reader[r].state = state /\ reader[r].call = "None"
         /\ reader[r].connected
         /\ UNCHANGED <<loggers, toReader, numCategories>>
<1>0. reader[r] \in ReaderStates /\ reader \in [Readers -> ReaderStates]
      /\ toLogger \in [Readers -> Seq(LogPayloads)]
  BY DEF Typed, LoggingTypeOK
<1> DEFINE p == LogPayload(command, n)
<1>1. toLogger'[r] = Append(<<>>, p) /\ p.command = command
  BY <1>0 DEF RequestsLog, LogPayload
<1> HIDE DEF p
<1>2. Asked(toLogger'[r], command)
  <2>1. toLogger'[r] = <<p>>
    BY <1>1
  <2>2. QED
    BY <1>1, <2>1 DEF Asked
<1>3. reader'[r] = [reader[r] EXCEPT !.call = call]
  BY <1>0 DEF RequestsLog
<1>4. QED
  BY <1>0, <1>2, <1>3 DEF RequestsLog, ReaderKeeps, ReaderStates

\* A request begins its phase.
LEMMA RequestRight ==
  ASSUME Typed, NEW r \in Readers, Right(r),
         \/ \E level \in Levels : EnableLogging(r, level)
         \/ QueryCategories(r) \/ DisableLogging(r)
  PROVE  Right(r)'
<1> DEFINE u == reader'[r]
           s == loggers[r]
           in == toLogger'[r]
           out == toReader[r]
<1>0. UNCHANGED <<loggers, toReader, numCategories>>
  BY DEF EnableLogging, QueryCategories, DisableLogging, RequestsLog, ReaderKeeps
<1>1. SUFFICES ASSUME u.connected, s.open, ~u.failed
               PROVE  ~u.unexpected /\ Phase(u, s, in, out)
  <2> HIDE DEF u, s, in, out
  <2>1. reader'[r] = u /\ loggers'[r] = s /\ toLogger'[r] = in
        /\ toReader'[r] = out
    BY <1>0 DEF u, s, in, out
  <2>2. QED
    BY <1>0, <2>1, PhaseIsRight
<1>2. ASSUME reader[r].connected, ~reader[r].failed
      PROVE  ~reader[r].unexpected /\ Phase(reader[r], s, toLogger[r], out)
  BY <1>1, <1>2 DEF Right
<1>3. reader[r].connected /\ reader[r].call = "None" /\ ~reader[r].failed
  <2>1. reader[r] \in ReaderStates /\ reader \in [Readers -> ReaderStates]
    BY DEF Typed, LoggingTypeOK
  <2>2. \E call : reader' = [reader EXCEPT ![r].call = call]
    BY DEF EnableLogging, QueryCategories, DisableLogging, RequestsLog
  <2>3. u.failed = reader[r].failed
    BY <2>1, <2>2 DEF ReaderStates
  <2>4. QED
    BY <1>1, <2>3
    DEF EnableLogging, QueryCategories, DisableLogging, RequestsLog
<1>4. ~reader[r].unexpected /\ Phase(reader[r], s, toLogger[r], out)
  BY <1>2, <1>3
<1>5. ASSUME NEW level \in Levels, EnableLogging(r, level)
      PROVE  ~u.unexpected /\ Phase(u, s, in, out)
  <2>1. Quiet(s, toLogger[r], out)
    BY <1>3, <1>4, <1>5 DEF Phase, EnableLogging, RequestsLog
  <2>2. toLogger[r] = <<>>
    BY <2>1 DEF Quiet
  <2>3. /\ Asked(in, "EnableLoggingRequest")
        /\ u.state = "Idle" /\ u.call = "Enable"
        /\ u.unexpected = reader[r].unexpected
    BY <1>5, <2>2, RequestsLogIs DEF EnableLogging
  <2> HIDE DEF u, s, in, out
  <2>4. Enabling(s, in, out)
    BY <2>1, <2>3 DEF Quiet, Enabling
  <2>5. QED
    BY <1>4, <2>3, <2>4 DEF Phase
<1>6. CASE QueryCategories(r)
  <2>1. Quiet(s, toLogger[r], out)
    BY <1>3, <1>4, <1>6 DEF Phase, QueryCategories, RequestsLog
  <2>2. toLogger[r] = <<>>
    BY <2>1 DEF Quiet
  <2>3. /\ Asked(in, "QueryCategoriesRequest")
        /\ u.state = "Idle" /\ u.call = "QueryNum"
        /\ u.unexpected = reader[r].unexpected
    BY <1>6, <2>2, RequestsLogIs DEF QueryCategories
  <2> HIDE DEF u, s, in, out
  <2>4. QueryingNum(s, in, out)
    BY <2>1, <2>3 DEF Quiet, QueryingNum
  <2>5. QED
    BY <1>4, <2>3, <2>4 DEF Phase
<1>7. CASE DisableLogging(r)
  <2>1. Flowing(s, toLogger[r], out) /\ ~reader[r].finished
    BY <1>3, <1>4, <1>7 DEF Phase, DisableLogging, RequestsLog
  <2>2. toLogger[r] = <<>>
    BY <2>1 DEF Flowing
  <2>3. /\ Asked(in, "DisableLogging")
        /\ u.state = "Logging" /\ u.call = "Disable"
        /\ u.unexpected = reader[r].unexpected
        /\ u.finished = reader[r].finished
    BY <1>7, <2>2, RequestsLogIs DEF DisableLogging
  <2> HIDE DEF u, s, in, out
  <2>4. Disabling(s, in, out)
    BY <2>1, <2>3 DEF Flowing, Disabling
  <2>5. QED
    BY <1>4, <2>1, <2>3, <2>4 DEF Phase
<1>8. QED
  BY <1>5, <1>6, <1>7

\* What the taking of an answer makes of a client that has not failed.
LEMMA TakesAnswerIs ==
  ASSUME Typed, NEW r \in Readers, NEW call, NEW command,
         NEW next, TakesAnswer(r, call, command, next), ~reader'[r].failed
  PROVE  /\ reader'[r] = next /\ Head(toReader[r]).command = command
         /\ reader[r].call = call /\ reader[r].connected
         /\ toReader[r] # <<>> /\ toReader'[r] = Tail(toReader[r])
         /\ UNCHANGED <<loggers, toLogger, numCategories>>
<1>0. reader[r] \in ReaderStates /\ reader \in [Readers -> ReaderStates]
      /\ toReader \in [Readers -> Seq(LogPayloads)]
  BY DEF Typed, LoggingTypeOK
<1>1. Failed(reader[r]).failed
  BY <1>0 DEF Failed, ReaderStates
<1>2. reader'[r] = IF Head(toReader[r]).command = command THEN next
                   ELSE Failed(reader[r])
  BY <1>0 DEF TakesAnswer
<1>3. Head(toReader[r]).command = command
  BY <1>1, <1>2
<1>4. QED
  BY <1>0, <1>2, <1>3 DEF TakesAnswer, ReaderKeeps

\* The answer to EnableLogging ends its phase.
LEMMA EnabledRight ==
  ASSUME Typed, NEW r \in Readers, Right(r), TakeEnableAnswer(r)
  PROVE  Right(r)'
<1> DEFINE u == [reader[r] EXCEPT !.call = "Enabled"]
           s == loggers[r]
           in == toLogger[r]
           out == Tail(toReader[r])
           R == "EnableLoggingResponse"
<1>0. reader[r] \in ReaderStates /\ toReader[r] \in Seq(LogPayloads)
      /\ reader \in [Readers -> ReaderStates]
  BY DEF Typed, LoggingTypeOK
<1>1. TakesAnswer(r, "Enable", R, u)
  BY DEF TakeEnableAnswer
<1>2. CASE reader'[r].failed
  <2>1. numCategories' = numCategories
    BY <1>1 DEF TakesAnswer, ReaderKeeps
  <2>2. QED
    BY <1>2 DEF Right
<1>3. CASE ~reader'[r].failed
  <2>1. /\ reader'[r] = u /\ Head(toReader[r]).command = R
        /\ reader[r].call = "Enable" /\ reader[r].connected
        /\ toReader[r] # <<>> /\ toReader'[r] = out
        /\ UNCHANGED <<loggers, toLogger, numCategories>>
    BY <1>1, <1>3, TakesAnswerIs
  <2>2. /\ u.call = "Enabled" /\ u.state = reader[r].state
        /\ u.failed = reader[r].failed /\ u.unexpected = reader[r].unexpected
    BY <1>0 DEF ReaderStates
  <2>3. ASSUME u.connected, s.open, ~u.failed
        PROVE  ~u.unexpected /\ Phase(u, s, in, out)
    <3>1. ~reader[r].unexpected
          /\ Phase(reader[r], s, in, toReader[r])
      BY <2>1, <2>2, <2>3 DEF Right
    <3>2. reader[r].state = "Idle" /\ Enabling(s, in, toReader[r])
      BY <2>1, <3>1 DEF Phase
    <3> DEFINE q == toReader[r]
    <3>3. q # <<>> /\ Head(q).command = R /\ q \in Seq(LogPayloads)
      BY <1>0, <2>1
    <3>4. ~OnlyLogs(q)
      BY <3>3, OnlyTail DEF OnlyLogs
    <3>5. in = <<>> /\ Streaming(s) /\ OneOf(q, R)
      BY <3>2, <3>3, <3>4 DEF Enabling
    <3>6. OnlyLogs(out)
      BY <3>3, <3>5, OneOfHead
    <3> HIDE DEF u, s, in, out
    <3>7. Flowing(s, in, out)
      BY <3>5, <3>6 DEF Flowing
    <3>8. QED
      BY <2>2, <3>1, <3>2, <3>7 DEF Phase
  <2> HIDE DEF u, s, in, out
  <2>4. loggers'[r] = s /\ toLogger'[r] = in
    BY <2>1 DEF s, in
  <2>5. QED
    BY <2>1, <2>3, <2>4, PhaseIsRight
<1>4. QED
  BY <1>2, <1>3

\* An answer that moves the phase of the call keeps it right.
LEMMA AnswerLogRight ==
  ASSUME Typed, NEW r \in Readers, Right(r), NEW call, NEW command,
         NEW u, TakesAnswer(r, call, command, u),
         u.failed = reader[r].failed, u.unexpected = reader[r].unexpected,
         (/\ Phase(reader[r], loggers[r], toLogger[r], toReader[r])
          /\ toReader[r] # <<>> /\ Head(toReader[r]).command = command
          /\ reader[r].call = call)
           => Phase(u, loggers[r], toLogger[r], Tail(toReader[r]))
  PROVE  Right(r)'
<1> DEFINE s == loggers[r]
           in == toLogger[r]
           out == Tail(toReader[r])
<1>1. CASE reader'[r].failed
  BY <1>1 DEF Right
<1>2. CASE ~reader'[r].failed
  <2>1. /\ reader'[r] = u /\ Head(toReader[r]).command = command
        /\ reader[r].call = call /\ reader[r].connected
        /\ toReader[r] # <<>> /\ toReader'[r] = out
        /\ UNCHANGED <<loggers, toLogger, numCategories>>
    BY <1>2, TakesAnswerIs
  <2>2. ASSUME u.connected, s.open, ~u.failed
        PROVE  ~u.unexpected /\ Phase(u, s, in, out)
    BY <2>1, <2>2 DEF Right
  <2> HIDE DEF s, in, out
  <2>3. loggers'[r] = s /\ toLogger'[r] = in
    BY <2>1 DEF s, in
  <2>4. QED
    BY <2>1, <2>2, <2>3, PhaseIsRight
<1>3. QED
  BY <1>1, <1>2

\* The number of the categories and, one by one, the categories.
LEMMA NumTaken ==
  ASSUME NEW s \in Loggers, numCategories \in Nat, NEW in,
         NEW out \in Seq(LogPayloads), QueryingNum(s, in, out), out # <<>>
  PROVE  /\ Head(out).n = numCategories
         /\ numCategories = 0 => Quiet(s, in, Tail(out))
         /\ numCategories > 0 => QueryingData(s, in, Tail(out), numCategories)
<1> DEFINE t == Tail(out)
<1>1. /\ in = <<>> /\ Listing(s)
      /\ out[1] = LogPayload("QueryCategoriesNumResponse", numCategories)
      /\ Only(t, "QueryCategoriesDataResponse")
      /\ Len(out) - 1 + Rest(s) = numCategories
  BY DEF QueryingNum
<1>2. /\ Head(out) = out[1] /\ t \in Seq(LogPayloads) /\ Len(t) = Len(out) - 1
      /\ Len(t) \in Nat
  BY OnlyTail
<1> HIDE DEF t
<1>3. Head(out).n = numCategories
  BY <1>1, <1>2 DEF LogPayload
<1>4. Rest(s) \in Int /\ Rest(s) >= 0 /\ s.numItems \in Nat
  BY <1>1 DEF Loggers, Rest, Listing
<1>5. ASSUME numCategories = 0 PROVE Quiet(s, in, t)
  <2>1. Len(t) = 0 /\ Rest(s) = 0
    BY <1>1, <1>2, <1>4, <1>5
  <2>2. t = <<>>
    BY <1>2, <2>1
  <2>3. CalmLog(s)
    BY <1>1, <1>4, <2>1 DEF Rest, Listing, CalmLog
  <2>4. QED
    BY <1>1, <2>2, <2>3 DEF Quiet
<1>6. ASSUME numCategories > 0 PROVE QueryingData(s, in, t, numCategories)
  BY <1>1, <1>2, <1>6 DEF QueryingData
<1>7. QED
  BY <1>3, <1>5, <1>6 DEF t

\* A category is taken, maybe the last.
LEMMA DataTaken ==
  ASSUME NEW s \in Loggers, numCategories \in Nat, NEW in, NEW left \in Nat,
         NEW out \in Seq(LogPayloads), QueryingData(s, in, out, left), out # <<>>
  PROVE  /\ left - 1 = 0 => Quiet(s, in, Tail(out))
         /\ left - 1 # 0 => QueryingData(s, in, Tail(out), left - 1)
<1> DEFINE t == Tail(out)
<1>1. /\ in = <<>> /\ Listing(s) /\ Len(out) + Rest(s) = left /\ left > 0
      /\ Only(t, "QueryCategoriesDataResponse")
  BY OnlyTail DEF QueryingData
<1>2. /\ t \in Seq(LogPayloads) /\ Len(t) = Len(out) - 1
      /\ Len(t) \in Nat
  BY OnlyTail
<1> HIDE DEF t
<1>4. Rest(s) \in Int /\ Rest(s) >= 0 /\ s.numItems \in Nat
  BY <1>1 DEF Loggers, Rest, Listing
<1>5. ASSUME left - 1 = 0 PROVE Quiet(s, in, t)
  <2>1. Len(t) = 0 /\ Rest(s) = 0
    BY <1>1, <1>2, <1>4, <1>5
  <2>2. t = <<>>
    BY <1>2, <2>1
  <2>3. CalmLog(s)
    BY <1>1, <1>4, <2>1 DEF Rest, Listing, CalmLog
  <2>4. QED
    BY <1>1, <2>2, <2>3 DEF Quiet
<1>6. ASSUME left - 1 # 0 PROVE QueryingData(s, in, t, left - 1)
  BY <1>1, <1>2, <1>4, <1>6 DEF QueryingData
<1>7. QED
  BY <1>5, <1>6 DEF t

\* The answer to QueryCategories begins that of the categories.
LEMMA NumRight ==
  ASSUME Typed, NEW r \in Readers, Right(r), TakeNumAnswer(r)
  PROVE  Right(r)'
<1> DEFINE n == Head(toReader[r]).n
           c == IF n = 0 THEN "None" ELSE "QueryData"
           u == [reader[r] EXCEPT !.call = c, !.left = n]
           s == loggers[r]
           in == toLogger[r]
           out == toReader[r]
<1>0. /\ reader[r] \in ReaderStates /\ toReader[r] \in Seq(LogPayloads)
      /\ loggers[r] \in Loggers /\ numCategories \in Nat
  BY DEF Typed, LoggingTypeOK
<1>1. TakesAnswer(r, "QueryNum", "QueryCategoriesNumResponse", u)
  BY DEF TakeNumAnswer
<1>2. /\ u.call = c /\ u.state = reader[r].state /\ u.left = n
      /\ u.failed = reader[r].failed /\ u.unexpected = reader[r].unexpected
  <2> HIDE DEF c, n
  <2>1. QED
    BY <1>0 DEF ReaderStates
<1>3. ASSUME Phase(reader[r], s, in, out), out # <<>>,
             reader[r].call = "QueryNum"
      PROVE  Phase(u, s, in, Tail(out))
  <2>1. reader[r].state = "Idle" /\ QueryingNum(s, in, out)
    BY <1>3 DEF Phase
  <2>2. /\ n = numCategories
        /\ numCategories = 0 => Quiet(s, in, Tail(out))
        /\ numCategories > 0 => QueryingData(s, in, Tail(out), numCategories)
    <3> HIDE DEF s, in
    <3>0. s \in Loggers
      BY <1>0 DEF s
    <3>1. QED
      BY <1>0, <1>3, <2>1, <3>0, NumTaken
  <2> DEFINE A == Quiet(s, in, Tail(out))
             B == QueryingData(s, in, Tail(out), n)
  <2>a. (n = 0 => A) /\ (n # 0 => B)
    <3>1. n = numCategories
      BY <2>2
    <3>2. numCategories = 0 \/ numCategories > 0
      BY <1>0
    <3> HIDE DEF n, s, in
    <3>3. QED
      BY <2>2, <3>1, <3>2
  <2> HIDE DEF A, B
  <2>3. (c = "None" /\ A) \/ (c = "QueryData" /\ B)
    BY <2>a
  <2> USE DEF A, B
  <2> HIDE DEF u, s, in, c, n
  <2>4. QED
    BY <1>2, <2>1, <2>3 DEF Phase
<1> HIDE DEF u
<1>4. (/\ Phase(reader[r], loggers[r], toLogger[r], toReader[r])
       /\ toReader[r] # <<>>
       /\ Head(toReader[r]).command = "QueryCategoriesNumResponse"
       /\ reader[r].call = "QueryNum")
        => Phase(u, loggers[r], toLogger[r], Tail(toReader[r]))
  BY <1>3
<1>5. QED
  BY <1>1, <1>2, <1>4, AnswerLogRight

\* A category leaves the phase, or ends it.
LEMMA DataRight ==
  ASSUME Typed, NEW r \in Readers, Right(r), TakeDataAnswer(r)
  PROVE  Right(r)'
<1> DEFINE n == reader[r].left - 1
           c == IF n = 0 THEN "None" ELSE "QueryData"
           u == [reader[r] EXCEPT !.call = c, !.left = n]
           s == loggers[r]
           in == toLogger[r]
           out == toReader[r]
<1>0. /\ reader[r] \in ReaderStates /\ toReader[r] \in Seq(LogPayloads)
      /\ loggers[r] \in Loggers /\ numCategories \in Nat
  BY DEF Typed, LoggingTypeOK
<1>1. TakesAnswer(r, "QueryData", "QueryCategoriesDataResponse", u)
  BY DEF TakeDataAnswer
<1>2. /\ u.call = c /\ u.state = reader[r].state /\ u.left = n
      /\ u.failed = reader[r].failed /\ u.unexpected = reader[r].unexpected
  <2> HIDE DEF c, n
  <2>1. QED
    BY <1>0 DEF ReaderStates
<1>3. ASSUME Phase(reader[r], s, in, out), out # <<>>,
             reader[r].call = "QueryData"
      PROVE  Phase(u, s, in, Tail(out))
  <2>0. reader[r].left \in Nat
    BY <1>0 DEF ReaderStates
  <2>1. reader[r].state = "Idle" /\ QueryingData(s, in, out, reader[r].left)
    BY <1>3 DEF Phase
  <2>2. /\ n = 0 => Quiet(s, in, Tail(out))
        /\ n # 0 => QueryingData(s, in, Tail(out), n)
    <3> HIDE DEF s, in
    <3>0. s \in Loggers
      BY <1>0 DEF s
    <3>1. QED
      BY <1>0, <1>3, <2>0, <2>1, <3>0, DataTaken
  <2> DEFINE A == Quiet(s, in, Tail(out))
             B == QueryingData(s, in, Tail(out), n)
  <2>a. (n = 0 => A) /\ (n # 0 => B)
    BY <2>2
  <2> HIDE DEF A, B
  <2>3. (c = "None" /\ A) \/ (c = "QueryData" /\ B)
    BY <2>a
  <2> USE DEF A, B
  <2> HIDE DEF u, s, in, c, n
  <2>4. QED
    BY <1>2, <2>1, <2>3 DEF Phase
<1> HIDE DEF u
<1>4. (/\ Phase(reader[r], loggers[r], toLogger[r], toReader[r])
       /\ toReader[r] # <<>>
       /\ Head(toReader[r]).command = "QueryCategoriesDataResponse"
       /\ reader[r].call = "QueryData")
        => Phase(u, loggers[r], toLogger[r], Tail(toReader[r]))
  BY <1>3
<1>5. QED
  BY <1>1, <1>2, <1>4, AnswerLogRight

\* A step of the tool's thread that touches nothing but the client.
LEMMA CallRight ==
  ASSUME Typed, NEW r \in Readers, Right(r), NEW u,
         reader' = [reader EXCEPT ![r] = u], OnlyReader(r),
         u.failed = reader[r].failed, u.unexpected = reader[r].unexpected,
         u.connected => reader[r].connected,
         (/\ reader[r].connected
          /\ Phase(reader[r], loggers[r], toLogger[r], toReader[r]))
           => Phase(u, loggers[r], toLogger[r], toReader[r])
  PROVE  Right(r)'
<1> DEFINE s == loggers[r]
           in == toLogger[r]
           out == toReader[r]
<1>1. /\ reader'[r] = u /\ loggers'[r] = s /\ toLogger'[r] = in
      /\ toReader'[r] = out /\ numCategories' = numCategories
  BY DEF Typed, LoggingTypeOK, OnlyReader, ReaderKeeps
<1>2. ASSUME u.connected, s.open, ~u.failed
      PROVE  ~u.unexpected /\ Phase(u, s, in, out)
  BY <1>2 DEF Right
<1> HIDE DEF s, in, out
<1>3. QED
  BY <1>1, <1>2, PhaseIsRight

\* The first statement that ends EnableLogging.
LEMMA SetRight ==
  ASSUME Typed, NEW r \in Readers, Right(r), SetLogging(r)
  PROVE  Right(r)'
<1> DEFINE u == [reader[r] EXCEPT !.call = "Clear", !.state = "Logging"]
<1>0. reader[r] \in ReaderStates /\ reader[r].call = "Enabled"
  BY DEF Typed, LoggingTypeOK, SetLogging
<1>1. /\ u.call = "Clear" /\ u.state = "Logging"
      /\ u.failed = reader[r].failed /\ u.unexpected = reader[r].unexpected
      /\ u.connected = reader[r].connected
  BY <1>0 DEF ReaderStates
<1>2. reader' = [reader EXCEPT ![r] = u] /\ OnlyReader(r)
  BY DEF SetLogging
<1> HIDE DEF u
<1>3. Phase(reader[r], loggers[r], toLogger[r], toReader[r])
        => Phase(u, loggers[r], toLogger[r], toReader[r])
  BY <1>0, <1>1 DEF Phase
<1>4. QED
  BY <1>1, <1>2, <1>3, CallRight

\* The second statement that ends EnableLogging.
LEMMA ClearLogRight ==
  ASSUME Typed, NEW r \in Readers, Right(r), ClearFinished(r)
  PROVE  Right(r)'
<1> DEFINE u == [reader[r] EXCEPT !.call = "None", !.finished = FALSE]
<1>0. reader[r] \in ReaderStates /\ reader[r].call = "Clear"
  BY DEF Typed, LoggingTypeOK, ClearFinished
<1>1. /\ u.call = "None" /\ u.state = reader[r].state /\ ~u.finished
      /\ u.failed = reader[r].failed /\ u.unexpected = reader[r].unexpected
      /\ u.connected = reader[r].connected
  BY <1>0 DEF ReaderStates
<1>2. reader' = [reader EXCEPT ![r] = u] /\ OnlyReader(r)
  BY DEF ClearFinished
<1> HIDE DEF u
<1>3. Phase(reader[r], loggers[r], toLogger[r], toReader[r])
        => Phase(u, loggers[r], toLogger[r], toReader[r])
  BY <1>0, <1>1 DEF Phase
<1>4. QED
  BY <1>1, <1>2, <1>3, CallRight

\* DisableLogging ends.
LEMMA WakeRight ==
  ASSUME Typed, NEW r \in Readers, Right(r), WakeFinished(r)
  PROVE  Right(r)'
<1> DEFINE v == reader[r]
           c == IF v.state = "LoggingFinished" THEN "Idle" ELSE v.state
           u == [v EXCEPT !.call = "None", !.state = c]
<1>0. v \in ReaderStates /\ v.call = "Disable" /\ v.finished
  BY DEF Typed, LoggingTypeOK, WakeFinished
<1>2. reader' = [reader EXCEPT ![r] = u] /\ OnlyReader(r)
  BY DEF WakeFinished
<1>5. v.state = "LoggingFinished" => c = "Idle"
  OBVIOUS
<1> HIDE DEF c
<1>1. /\ u.call = "None" /\ u.state = c
      /\ u.failed = v.failed /\ u.unexpected = v.unexpected
      /\ u.connected = v.connected
  BY <1>0 DEF ReaderStates
<1> HIDE DEF u
<1>3. Phase(v, loggers[r], toLogger[r], toReader[r])
        => Phase(u, loggers[r], toLogger[r], toReader[r])
  BY <1>0, <1>1, <1>5 DEF Phase
<1>4. QED
  BY <1>1, <1>2, <1>3, CallRight

\* What ends a call without an answer, or the session, leaves nothing to keep.
LEMMA EndedRight ==
  ASSUME Typed, NEW r \in Readers,
         \/ AnswerTimesOut(r) \/ AnswerLost(r) \/ ReaderTerminated(r)
         \/ LoggerTerminated(r) \/ AddCategoryTable
  PROVE  Right(r)'
<1>0. reader[r] \in ReaderStates /\ loggers[r] \in Loggers
      /\ reader \in [Readers -> ReaderStates] /\ loggers \in [Readers -> Loggers]
  BY DEF Typed, LoggingTypeOK
<1>1. CASE AnswerTimesOut(r) \/ AnswerLost(r)
  <2>1. reader'[r] = Failed(reader[r])
    BY <1>0, <1>1 DEF AnswerTimesOut, AnswerLost
  <2>2. reader'[r].failed
    BY <1>0, <2>1 DEF Failed, ReaderStates
  <2>3. QED
    BY <2>2 DEF Right
<1>2. CASE ReaderTerminated(r)
  <2> DEFINE v == ResetState(reader[r])
  <2>1. reader'[r] = [v EXCEPT !.connected = FALSE]
    BY <1>0, <1>2 DEF ReaderTerminated
  <2>2. "connected" \in DOMAIN v
    BY <1>0 DEF ResetState, ReaderStates
  <2> HIDE DEF v
  <2>3. ~reader'[r].connected
    BY <2>1, <2>2
  <2>4. QED
    BY <2>3 DEF Right
<1>3. CASE LoggerTerminated(r)
  <2>1. ~loggers'[r].open
    BY <1>0, <1>3 DEF LoggerTerminated, NoLogger
  <2>2. QED
    BY <2>1 DEF Right
<1>4. CASE AddCategoryTable
  <2>1. ~loggers'[r].open
    BY <1>4 DEF AddCategoryTable
  <2>2. QED
    BY <2>1 DEF Right
<1>5. QED
  BY <1>1, <1>2, <1>3, <1>4

\* The tool reads its messages.
LEMMA ReadRight ==
  ASSUME Typed, NEW r \in Readers, Right(r), ReadLogMessages(r)
  PROVE  Right(r)'
<1> DEFINE e == <<>>
           u == [reader[r] EXCEPT !.messages = e]
<1>0. reader[r] \in ReaderStates
  BY DEF Typed, LoggingTypeOK
<1>2. reader' = [reader EXCEPT ![r] = u] /\ OnlyReader(r)
  BY DEF ReadLogMessages
<1> HIDE DEF e
<1>1. /\ u.call = reader[r].call /\ u.state = reader[r].state
      /\ u.finished = reader[r].finished /\ u.left = reader[r].left
      /\ u.failed = reader[r].failed /\ u.unexpected = reader[r].unexpected
      /\ u.connected = reader[r].connected
  BY <1>0 DEF ReaderStates
<1> HIDE DEF u
<1>3. Phase(reader[r], loggers[r], toLogger[r], toReader[r])
        => Phase(u, loggers[r], toLogger[r], toReader[r])
  BY <1>1 DEF Phase
<1>4. QED
  BY <1>1, <1>2, <1>3, CallRight

\* What arrives while the client logs is a message, or the sentinel that the
\* call waits for, which is the last.
LEMMA ArrivesPhase ==
  ASSUME NEW u, NEW s \in Loggers, NEW in \in Seq(LogPayloads),
         NEW out \in Seq(LogPayloads), out # <<>>, u.state = "Logging",
         Phase(u, s, in, out), NEW w, w.state = "Logging", w.call = u.call,
         w.finished = u.finished
  PROVE  \/ Head(out).command = "LogMessage" /\ Phase(w, s, in, Tail(out))
         \/ /\ Head(out).command = "LogMessageSentinel" /\ u.call = "Disable"
            /\ Quiet(s, in, Tail(out))
<1> DEFINE t == Tail(out)
           h == Head(out)
<1>0. OnlyLogs(out) => h.command = "LogMessage" /\ OnlyLogs(t)
  BY OnlyTail DEF OnlyLogs
<1>1. LastIs(out, "LogMessageSentinel") =>
        /\ h.command \in {"LogMessageSentinel", "LogMessage"}
        /\ h.command = "LogMessageSentinel" => t = <<>>
        /\ h.command = "LogMessage" => LastIs(t, "LogMessageSentinel")
  BY LastIsHead
<1> HIDE DEF t, h
<1>2. Flowing(s, in, out) =>
        h.command = "LogMessage" /\ Flowing(s, in, t)
  BY <1>0 DEF Flowing
<1>3. Disabling(s, in, out) =>
        \/ h.command = "LogMessage" /\ Disabling(s, in, t)
        \/ h.command = "LogMessageSentinel" /\ Quiet(s, in, t)
  <2> SUFFICES ASSUME Disabling(s, in, out)
               PROVE  \/ h.command = "LogMessage" /\ Disabling(s, in, t)
                      \/ h.command = "LogMessageSentinel" /\ Quiet(s, in, t)
    OBVIOUS
  <2>1. CASE OnlyLogs(out)
    <3>0. h.command = "LogMessage" /\ OnlyLogs(t)
      BY <1>0, <2>1
    <3>1. ~LastIs(out, "LogMessageSentinel")
      <4>1. ASSUME LastIs(out, "LogMessageSentinel") PROVE FALSE
        <5>1. Len(out) \in 1..Len(out)
          BY <4>1 DEF LastIs
        <5>2. QED
          BY <2>1, <4>1, <5>1 DEF LastIs, OnlyLogs, Only
      <4>2. QED
        BY <4>1
    <3>2. Disabling(s, in, t)
      BY <3>0, <3>1 DEF Disabling
    <3>3. QED
      BY <3>0, <3>2
  <2>2. CASE /\ in = <<>> /\ Inactive(s)
             /\ s.state \in {"FinishLogging", "ReceivePayload"}
             /\ LastIs(out, "LogMessageSentinel")
    <3>1. CalmLog(s)
      BY <2>2 DEF CalmLog
    <3>2. CASE h.command = "LogMessageSentinel"
      BY <1>1, <2>2, <3>1, <3>2 DEF Quiet
    <3>3. CASE h.command = "LogMessage"
      BY <1>1, <2>2, <3>3 DEF Disabling
    <3>4. QED
      BY <1>1, <2>2, <3>2, <3>3
  <2>3. QED
    BY <2>1, <2>2 DEF Disabling
<1>4. Flowing(s, in, out) \/ (u.call = "Disable" /\ Disabling(s, in, out))
  <2>1. u.state # "Idle" /\ u.state # "LoggingFinished"
    OBVIOUS
  <2>2. QED
    BY <2>1, Zenon DEF Phase
<1>5. h.command = "LogMessage" => Phase(w, s, in, t)
  BY <1>2, <1>3 DEF Phase, Quiet
<1>6. QED
  BY <1>2, <1>3, <1>4, <1>5 DEF t, h

\* The three outcomes of a turn of the client's loop.
LEMMA UpdateReaderIs ==
  ASSUME Typed, NEW r \in Readers, UpdateReader(r)
  PROVE  LET u == reader[r]
             v == reader'[r]
             h == Head(toReader[r])
         IN  /\ u.connected /\ u.state = "Logging" /\ toReader[r] # <<>>
             /\ toReader' = [toReader EXCEPT ![r] = Tail(toReader[r])]
             /\ toReader'[r] = Tail(toReader[r])
             /\ v.call = u.call /\ v.left = u.left /\ v.failed = u.failed
             /\ v.connected = u.connected
             /\ \/ /\ h.command = "LogMessage" /\ v.state = u.state
                   /\ v.messages = Append(u.messages, h.n)
                   /\ v.finished = u.finished /\ v.unexpected = u.unexpected
                \/ /\ h.command = "LogMessageSentinel" /\ v.finished
                   /\ v.state = "LoggingFinished"
                   /\ v.messages = u.messages /\ v.unexpected = u.unexpected
                \/ /\ h.command \notin {"LogMessage", "LogMessageSentinel"}
                   /\ v.state = u.state /\ v.messages = u.messages
                   /\ v.finished = u.finished /\ v.unexpected
             /\ UNCHANGED <<loggers, numCategories, toLogger, logs, given,
                            gathered>>
<1> DEFINE u == reader[r]
           h == Head(toReader[r])
           ms == Append(u.messages, h.n)
<1>0. u \in ReaderStates /\ reader \in [Readers -> ReaderStates]
      /\ toReader \in [Readers -> Seq(LogPayloads)]
  BY DEF Typed, LoggingTypeOK
<1>1. /\ u.connected /\ u.state = "Logging" /\ toReader[r] # <<>>
      /\ toReader' = [toReader EXCEPT ![r] = Tail(toReader[r])]
      /\ UNCHANGED <<loggers, numCategories, toLogger, logs, given, gathered>>
      /\ reader' = [reader EXCEPT ![r] =
           CASE h.command = "LogMessage" -> [u EXCEPT !.messages = ms]
             [] h.command = "LogMessageSentinel" ->
                  [u EXCEPT !.state = "LoggingFinished", !.finished = TRUE]
             [] OTHER -> [u EXCEPT !.unexpected = TRUE]]
  BY DEF UpdateReader, ReaderKeeps
<1> HIDE DEF h, ms
<1>2. \/ h.command = "LogMessage" /\ reader'[r] = [u EXCEPT !.messages = ms]
      \/ /\ h.command = "LogMessageSentinel"
         /\ reader'[r] = [u EXCEPT !.state = "LoggingFinished", !.finished = TRUE]
      \/ /\ h.command \notin {"LogMessage", "LogMessageSentinel"}
         /\ reader'[r] = [u EXCEPT !.unexpected = TRUE]
  <2>1. CASE h.command = "LogMessage"
    BY <1>0, <1>1, <2>1
  <2>2. CASE h.command = "LogMessageSentinel"
    BY <1>0, <1>1, <2>2
  <2>3. CASE h.command \notin {"LogMessage", "LogMessageSentinel"}
    BY <1>0, <1>1, <2>3
  <2>4. QED
    BY <2>1, <2>2, <2>3
<1>3. toReader'[r] = Tail(toReader[r])
  BY <1>0, <1>1
<1>4. CASE h.command = "LogMessage" /\ reader'[r] = [u EXCEPT !.messages = ms]
  BY <1>0, <1>1, <1>3, <1>4 DEF ReaderStates, h, ms
<1>5. CASE /\ h.command = "LogMessageSentinel"
           /\ reader'[r] = [u EXCEPT !.state = "LoggingFinished", !.finished = TRUE]
  BY <1>0, <1>1, <1>3, <1>5 DEF ReaderStates, h
<1>6. CASE /\ h.command \notin {"LogMessage", "LogMessageSentinel"}
           /\ reader'[r] = [u EXCEPT !.unexpected = TRUE]
  BY <1>0, <1>1, <1>3, <1>6 DEF ReaderStates, h
<1>7. QED
  BY <1>2, <1>4, <1>5, <1>6

\* The message thread takes what arrives.
LEMMA ArrivalRight ==
  ASSUME Typed, NEW r \in Readers, Right(r), UpdateReader(r)
  PROVE  Right(r)'
<1> DEFINE u == reader[r]
           v == reader'[r]
           s == loggers[r]
           in == toLogger[r]
           out == toReader[r]
           t == Tail(out)
           h == Head(out)
<1>0. s \in Loggers /\ in \in Seq(LogPayloads) /\ out \in Seq(LogPayloads)
  BY DEF Typed, LoggingTypeOK
<1>1. /\ u.connected /\ u.state = "Logging" /\ out # <<>> /\ toReader'[r] = t
      /\ v.call = u.call /\ v.failed = u.failed
      /\ \/ /\ h.command = "LogMessage" /\ v.state = u.state
            /\ v.finished = u.finished /\ v.unexpected = u.unexpected
         \/ /\ h.command = "LogMessageSentinel" /\ v.state = "LoggingFinished"
            /\ v.unexpected = u.unexpected
         \/ h.command \notin {"LogMessage", "LogMessageSentinel"}
      /\ UNCHANGED <<loggers, numCategories, toLogger>>
  BY UpdateReaderIs
<1>2. ASSUME s.open, ~v.failed
      PROVE  ~v.unexpected /\ Phase(v, s, in, t)
  <2>1. ~u.unexpected /\ Phase(u, s, in, out)
    BY <1>1, <1>2 DEF Right
  <2>2. ASSUME h.command = "LogMessage"
        PROVE  ~v.unexpected /\ Phase(v, s, in, t)
    <3>1. v.state = "Logging" /\ v.finished = u.finished
          /\ v.unexpected = u.unexpected
      BY <1>1, <2>2
    <3> HIDE DEF s, in, out, u, v
    <3>2. \/ h.command = "LogMessage" /\ Phase(v, s, in, t)
          \/ h.command = "LogMessageSentinel"
      BY <1>0, <1>1, <2>1, <3>1, ArrivesPhase
    <3>3. QED
      BY <2>1, <2>2, <3>1, <3>2
  <2>3. ASSUME h.command # "LogMessage"
        PROVE  ~v.unexpected /\ Phase(v, s, in, t)
    <3> HIDE DEF s, in, out, u, v
    <3>1. /\ h.command = "LogMessageSentinel" /\ u.call = "Disable"
          /\ Quiet(s, in, t)
      BY <1>0, <1>1, <2>1, <2>3, ArrivesPhase
    <3> HIDE DEF t, h
    <3>2. v.state = "LoggingFinished" /\ v.unexpected = u.unexpected
          /\ v.call = "Disable"
      BY <1>1, <3>1
    <3>3. QED
      BY <2>1, <3>1, <3>2 DEF Phase
  <2>4. QED
    BY <2>2, <2>3
<1> HIDE DEF s, in, t, v
<1>3. reader'[r] = v /\ loggers'[r] = s /\ toLogger'[r] = in /\ toReader'[r] = t
      /\ numCategories' = numCategories
  BY <1>1 DEF s, in, v
<1>4. QED
  BY <1>2, <1>3, PhaseIsRight

\* The server's steps.
LEMMA UpdateRight ==
  ASSUME Typed, NEW r \in Readers, Right(r), UpdateLogger(r)
  PROVE  Right(r)'
<1> DEFINE u == reader[r]
           s == loggers[r]
           in == toLogger[r]
           out == toReader[r]
           t == loggers'[r]
           rest == toLogger'[r]
           sent == toReader'[r]
<1>0. /\ s \in Loggers /\ in \in Seq(LogPayloads) /\ out \in Seq(LogPayloads)
      /\ u \in ReaderStates /\ numCategories \in Nat
  BY DEF Typed, LoggingTypeOK
<1>1. /\ s.open /\ Updates(s, in, out, t, rest, sent)
      /\ LoggerKeeps /\ numCategories' = numCategories
  BY UpdateLoggerIs
<1>2. reader'[r] = u
  BY <1>1 DEF LoggerKeeps
<1>3. ASSUME u.connected, ~u.failed
      PROVE  ~u.unexpected /\ Phase(u, t, rest, sent)
  <2>1. ~u.unexpected /\ Phase(u, s, in, out)
    BY <1>1, <1>3 DEF Right
  <2> HIDE DEF u, s, in, out, t, rest, sent
  <2>2. QED
    BY <1>0, <1>1, <2>1, UpdatesPhase
<1>4. loggers'[r] = t /\ toLogger'[r] = rest /\ toReader'[r] = sent
  OBVIOUS
<1> HIDE DEF u, t, rest, sent
<1>5. QED
  BY <1>1, <1>2, <1>3, <1>4, PhaseIsRight

\* A message is logged.
LEMMA LogRight ==
  ASSUME Typed, NEW r \in Readers, Right(r), NEW level \in Levels, Log(level)
  PROVE  Right(r)'
<1> DEFINE u == reader[r]
           s == loggers[r]
           in == toLogger[r]
           out == toReader[r]
           t == loggers'[r]
           sent == toReader'[r]
           p == LogPayload("LogMessage", logs + 1)
<1>0. /\ s \in Loggers /\ in \in Seq(LogPayloads) /\ out \in Seq(LogPayloads)
      /\ u \in ReaderStates /\ p \in LogPayloads /\ p.command = "LogMessage"
  BY DEF Typed, LoggingTypeOK, LogPayload, LogPayloads, LoggingMessage
<1>1. Logged(r, level) /\ numCategories' = numCategories
  BY LogIs
<1> HIDE DEF p
<1>2. CASE Kept(r)
  <2>1. reader'[r] = u /\ loggers'[r] = s /\ toLogger'[r] = in
        /\ toReader'[r] = out
    BY <1>2 DEF Kept
  <2>2. u.connected /\ s.open /\ ~u.failed =>
          ~u.unexpected /\ Phase(u, s, in, out)
    BY DEF Right
  <2> HIDE DEF u, s, in, out
  <2>3. QED
    BY <1>1, <2>1, <2>2, PhaseIsRight
<1>3. CASE /\ Passes(s, level) /\ Queued(s, out, p, t, sent)
           /\ reader'[r] = u /\ toLogger'[r] = in
  <2>1. s.open /\ s.enabled
    BY <1>3 DEF Passes
  <2>2. ASSUME u.connected, ~u.failed
        PROVE  ~u.unexpected /\ Phase(u, t, in, sent)
    <3>1. ~u.unexpected /\ Phase(u, s, in, out)
      BY <2>1, <2>2 DEF Right
    <3> HIDE DEF u, s, in, out, t, sent
    <3>2. QED
      BY <1>0, <1>3, <2>1, <3>1, QueuedPhase
  <2>3. loggers'[r] = t /\ toReader'[r] = sent
    OBVIOUS
  <2> HIDE DEF u, in, t, sent
  <2>4. QED
    BY <1>1, <1>3, <2>2, <2>3, PhaseIsRight
<1>4. QED
  BY <1>1, <1>2, <1>3 DEF Logged, p

\* A step of another reader.
LEMMA KeptRight ==
  ASSUME NEW r \in Readers, Right(r), Kept(r), numCategories' = numCategories
  PROVE  Right(r)'
<1> DEFINE u == reader[r]
           s == loggers[r]
           in == toLogger[r]
           out == toReader[r]
<1>1. reader'[r] = u /\ loggers'[r] = s /\ toLogger'[r] = in
      /\ toReader'[r] = out
  BY DEF Kept
<1>2. u.connected /\ s.open /\ ~u.failed => ~u.unexpected /\ Phase(u, s, in, out)
  BY DEF Right
<1> HIDE DEF u, s, in, out
<1>3. QED
  BY <1>1, <1>2, PhaseIsRight

\* A step of the reader itself.
LEMMA StepRight ==
  ASSUME Typed, NEW r \in Readers, Right(r),
         ReaderStep(r) \/ UpdateLogger(r) \/ LoggerTerminated(r)
  PROVE  Right(r)'
<1>1. CASE \/ ConnectReader(r) \/ TakeEnableAnswer(r)
           \/ TakeNumAnswer(r) \/ TakeDataAnswer(r)
           \/ SetLogging(r) \/ ClearFinished(r) \/ WakeFinished(r)
  BY <1>1, ConnectRight, EnabledRight, NumRight, DataRight,
     SetRight, ClearLogRight, WakeRight
<1>2. CASE \/ \E level \in Levels : EnableLogging(r, level)
           \/ QueryCategories(r) \/ DisableLogging(r)
  BY <1>2, RequestRight
<1>3. CASE \/ AnswerTimesOut(r) \/ AnswerLost(r) \/ ReaderTerminated(r)
           \/ LoggerTerminated(r)
  BY <1>3, EndedRight
<1>4. CASE ReadLogMessages(r) \/ UpdateReader(r) \/ UpdateLogger(r)
  BY <1>4, ReadRight, ArrivalRight, UpdateRight
<1>5. QED
  BY <1>1, <1>2, <1>3, <1>4 DEF ReaderStep

\* Every step keeps the phases.
LEMMA NextLogRight ==
  ASSUME Typed, \A r \in Readers : Right(r), [LoggingNext]_logVars
  PROVE  \A r \in Readers : Right(r)'
<1> SUFFICES ASSUME NEW q \in Readers PROVE Right(q)'
  OBVIOUS
<1>1. ASSUME NEW r \in Readers,
             ReaderStep(r) \/ UpdateLogger(r) \/ LoggerTerminated(r)
      PROVE  Right(q)'
  <2>1. CASE q = r
    BY <1>1, <2>1, StepRight
  <2>2. CASE q # r
    <3>1. Kept(q)
      BY <1>1, <2>2, OthersKept
    <3>2. numCategories' = numCategories
      BY <1>1 DEF ReaderStep, ConnectReader, EnableLogging, QueryCategories,
         DisableLogging, RequestsLog, TakeEnableAnswer, TakeNumAnswer,
         TakeDataAnswer, TakesAnswer, SetLogging, ClearFinished, WakeFinished,
         AnswerTimesOut, AnswerLost, ReadLogMessages, UpdateReader,
         ReaderTerminated, OnlyReader, ReaderKeeps, UpdateLogger,
         LoggerTerminated
    <3>3. QED
      BY <3>1, <3>2, KeptRight
  <2>3. QED
    BY <2>1, <2>2
<1>2. ASSUME NEW level \in Levels, Log(level) PROVE Right(q)'
  BY <1>2, LogRight
<1>3. CASE AddCategoryTable
  BY <1>3, EndedRight
<1>4. CASE UNCHANGED logVars
  BY <1>4, KeptRight DEF logVars, Kept
<1>5. QED
  BY <1>1, <1>2, <1>3, <1>4 DEF LoggingNext

\* The phases are right in every behaviour.
THEOREM RightInductive == LoggingSpec => [](\A r \in Readers : Right(r))
<1>1. LoggingInit => \A r \in Readers : Right(r)
  BY DEF LoggingInit, NoReader, Right
<1>2. /\ Typed /\ (\A r \in Readers : Right(r)) /\ [LoggingNext]_logVars
      => (\A r \in Readers : Right(r))'
  BY NextLogRight
<1>3. QED
  BY <1>1, <1>2, TypedInductive, PTL DEF LoggingSpec

\* After a DisableLogging or QueryCategories that succeeded nothing of it is left
\* on the way, and nothing unexpected comes while a client logs
\* (loggingClient.cpp:83, 138, 179).
THEOREM QuietAfterCalls == LoggingSpec => []DisabledIsQuiet
<1>1. (\A r \in Readers : Right(r)) => DisabledIsQuiet
  <2> SUFFICES ASSUME NEW r \in Readers, Right(r), reader[r].connected,
                      loggers[r].open, ~reader[r].failed
               PROVE  /\ ~reader[r].unexpected
                      /\ reader[r].state = "Idle" /\ reader[r].call = "None" =>
                           /\ toReader[r] = <<>> /\ toLogger[r] = <<>>
                           /\ loggers[r].messages = <<>> /\ ~loggers[r].enabled
    BY DEF DisabledIsQuiet
  <2>1. ~reader[r].unexpected
        /\ Phase(reader[r], loggers[r], toLogger[r], toReader[r])
    BY DEF Right
  <2>2. ASSUME reader[r].state = "Idle", reader[r].call = "None"
        PROVE  Quiet(loggers[r], toLogger[r], toReader[r])
    BY <2>1, <2>2 DEF Phase
  <2>3. QED
    BY <2>1, <2>2 DEF Quiet, CalmLog, Inactive
<1>2. QED
  BY <1>1, RightInductive, PTL

-----------------------------------------------------------------------------
(* The order of the messages: h is what a tool has, q what is on its way.  *)

Found(q) == {i \in 1..Len(q) : q[i].command = "LogMessage"}
Contents(g) == {g[i] : i \in 1..Len(g)}
Carried(q) == {q[i].n : i \in Found(q)}

\* Both rise, the second above the first, and none above n.
Rising(h, q, n) ==
  /\ \A i, j \in 1..Len(h) : i < j => h[i] < h[j]
  /\ \A i, j \in Found(q) : i < j => q[i].n < q[j].n
  /\ \A i \in 1..Len(h), j \in Found(q) : h[i] < q[j].n
  /\ \A i \in 1..Len(h) : h[i] <= n
  /\ \A j \in Found(q) : q[j].n <= n
Whole(g, h, q) == Contents(g) = Contents(h) \cup Carried(q)

\* f finds the messages of t in q.
Finds(f, t, q) ==
  /\ \A j \in Found(t) : f[j] \in Found(q) /\ q[f[j]].n = t[j].n
  /\ \A i, j \in Found(t) : i < j => f[i] < f[j]

\* The messages that are left still rise.
LEMMA FewerRise ==
  ASSUME NEW h, NEW q, NEW n, Rising(h, q, n), NEW t, NEW f, Finds(f, t, q)
  PROVE  Rising(h, t, n)
<1>1. ASSUME NEW j \in Found(t)
      PROVE  f[j] \in Found(q) /\ q[f[j]].n = t[j].n
  BY DEF Finds
<1>2. ASSUME NEW i \in Found(t), NEW j \in Found(t), i < j
      PROVE  t[i].n < t[j].n
  <2>1. f[i] < f[j]
    BY <1>2 DEF Finds
  <2>2. QED
    BY <1>1, <2>1 DEF Rising
<1>3. ASSUME NEW i \in 1..Len(h), NEW j \in Found(t)
      PROVE  h[i] < t[j].n
  BY <1>1 DEF Rising
<1>4. ASSUME NEW j \in Found(t) PROVE t[j].n <= n
  BY <1>1 DEF Rising
<1>5. QED
  BY <1>2, <1>3, <1>4 DEF Rising

\* The messages that are all left are the same.
LEMMA SameCarried ==
  ASSUME NEW q, NEW t, NEW f, Finds(f, t, q),
         \A i \in Found(q) : \E j \in Found(t) : f[j] = i
  PROVE  Carried(t) = Carried(q)
<1>1. ASSUME NEW j \in Found(t) PROVE t[j].n \in Carried(q)
  <2>1. f[j] \in Found(q) /\ q[f[j]].n = t[j].n
    BY DEF Finds
  <2>2. QED
    BY <2>1 DEF Carried
<1>2. ASSUME NEW i \in Found(q) PROVE q[i].n \in Carried(t)
  <2>1. PICK j \in Found(t) : f[j] = i
    OBVIOUS
  <2>2. q[f[j]].n = t[j].n
    BY DEF Finds
  <2>3. QED
    BY <2>1, <2>2 DEF Carried
<1>3. QED
  BY <1>1, <1>2 DEF Carried

\* The first on the way is taken: a message by whom it is for.
LEMMA TailFinds ==
  ASSUME NEW q \in Seq(LogPayloads), q # <<>>
  PROVE  LET f == [j \in 1..Len(Tail(q)) |-> j + 1]
         IN  /\ Finds(f, Tail(q), q)
             /\ \A i \in Found(q) : i # 1 => \E j \in Found(Tail(q)) : f[j] = i
<1> DEFINE t == Tail(q)
           f == [j \in 1..Len(t) |-> j + 1]
<1>1. /\ Len(t) = Len(q) - 1 /\ Len(q) \in Nat /\ Len(q) > 0
      /\ \A j \in 1..(Len(q) - 1) : t[j] = q[j + 1]
  OBVIOUS
<1> HIDE DEF t
<1>2. ASSUME NEW j \in Found(t)
      PROVE  f[j] = j + 1 /\ f[j] \in Found(q) /\ q[f[j]].n = t[j].n /\ j \in Nat
  <2>1. j \in 1..Len(t) /\ t[j].command = "LogMessage"
    BY DEF Found
  <2>2. f[j] = j + 1 /\ t[j] = q[j + 1] /\ j + 1 \in 1..Len(q) /\ j \in Nat
    BY <1>1, <2>1
  <2>3. QED
    BY <2>1, <2>2 DEF Found
<1>3. ASSUME NEW i \in Found(q), i # 1 PROVE \E j \in Found(t) : f[j] = i
  <2>1. i \in 1..Len(q) /\ q[i].command = "LogMessage"
    BY DEF Found
  <2>2. i - 1 \in 1..Len(t) /\ t[i - 1] = q[i] /\ f[i - 1] = i
    BY <1>1, <1>3, <2>1
  <2>3. i - 1 \in Found(t)
    BY <2>1, <2>2 DEF Found
  <2>4. QED
    BY <2>2, <2>3
<1>4. Finds(f, t, q)
  <2>1. \A i, j \in Found(t) : i < j => f[i] < f[j]
    BY <1>2
  <2> HIDE DEF f
  <2>2. QED
    BY <1>2, <2>1 DEF Finds
<1>5. QED
  BY <1>3, <1>4 DEF t

\* The first on the way is taken: the rest rises, also when a message moves to
\* what the tool has.
LEMMA TailRises ==
  ASSUME NEW h \in Seq(Nat), NEW n \in Nat, NEW q \in Seq(LogPayloads), q # <<>>,
         Rising(h, q, n)
  PROVE  /\ Rising(h, Tail(q), n)
         /\ Head(q).command # "LogMessage" => Carried(Tail(q)) = Carried(q)
         /\ Head(q).command = "LogMessage" =>
              /\ Rising(Append(h, Head(q).n), Tail(q), n)
              /\ Contents(Append(h, Head(q).n)) \cup Carried(Tail(q)) =
                   Contents(h) \cup Carried(q)
<1> DEFINE t == Tail(q)
           f == [j \in 1..Len(t) |-> j + 1]
           x == Head(q).n
           g == Append(h, x)
<1>1. /\ Finds(f, t, q)
      /\ \A i \in Found(q) : i # 1 => \E j \in Found(t) : f[j] = i
  BY TailFinds
<1>2. Head(q) = q[1] /\ 1 \in 1..Len(q) /\ Len(q) \in Nat /\ x \in Nat
      /\ q[1].n \in Nat
  <2>1. Head(q) = q[1] /\ 1 \in 1..Len(q) /\ Len(q) \in Nat /\ q[1] \in LogPayloads
    OBVIOUS
  <2>2. QED
    BY <2>1 DEF LogPayloads
<1>3. \A j \in Found(t) : j \in Nat /\ j > 0 /\ f[j] = j + 1
  BY DEF Found
<1> HIDE DEF f, t
<1>4. Rising(h, t, n)
  BY <1>1, FewerRise
<1>5. ASSUME q[1].command # "LogMessage" PROVE Carried(t) = Carried(q)
  <2>1. 1 \notin Found(q)
    BY <1>5 DEF Found
  <2>2. \A i \in Found(q) : \E j \in Found(t) : f[j] = i
    BY <1>1, <2>1
  <2>3. QED
    BY <1>1, <2>2, SameCarried
<1>6. ASSUME q[1].command = "LogMessage"
      PROVE  /\ Rising(g, t, n)
             /\ Contents(g) \cup Carried(t) = Contents(h) \cup Carried(q)
  <2>1. 1 \in Found(q)
    BY <1>2, <1>6 DEF Found
  <2>2. /\ Len(g) = Len(h) + 1 /\ Len(h) \in Nat /\ g[Len(h) + 1] = x
        /\ \A i \in 1..Len(h) : g[i] = h[i] /\ h[i] \in Nat
    BY <1>2
  <2>x. x = q[1].n
    BY <1>2
  <2> HIDE DEF g, x
  <2>3. ASSUME NEW j \in Found(t) PROVE x < t[j].n
    <3>1. f[j] \in Found(q) /\ q[f[j]].n = t[j].n
      BY <1>1 DEF Finds
    <3>2. 1 < f[j]
      BY <1>3
    <3>3. QED
      BY <2>1, <2>x, <3>1, <3>2 DEF Rising
  <2>4. \A i \in 1..Len(h) : h[i] < x
    BY <2>1, <2>x DEF Rising
  <2>5. x <= n
    BY <2>1, <2>x DEF Rising
  <2>6. ASSUME NEW i \in 1..Len(g), NEW j \in 1..Len(g), i < j PROVE g[i] < g[j]
    <3>1. i \in 1..Len(h) /\ g[i] = h[i]
      BY <2>2, <2>6
    <3>2. CASE j \in 1..Len(h)
      BY <2>2, <2>6, <3>1, <3>2, <1>4 DEF Rising
    <3>3. CASE j = Len(h) + 1
      BY <2>2, <2>4, <3>1, <3>3
    <3>4. QED
      BY <2>2, <3>2, <3>3
  <2>7. ASSUME NEW i \in 1..Len(g), NEW j \in Found(t) PROVE g[i] < t[j].n
    <3>1. CASE i \in 1..Len(h)
      BY <2>2, <3>1, <1>4 DEF Rising
    <3>2. CASE i = Len(h) + 1
      BY <2>2, <2>3, <3>2
    <3>3. QED
      BY <2>2, <3>1, <3>2
  <2>8. ASSUME NEW i \in 1..Len(g) PROVE g[i] <= n
    <3>1. CASE i \in 1..Len(h)
      BY <2>2, <3>1, <1>4 DEF Rising
    <3>2. CASE i = Len(h) + 1
      BY <2>2, <2>5, <3>2
    <3>3. QED
      BY <2>2, <3>1, <3>2
  <2>9. Rising(g, t, n)
    BY <1>4, <2>6, <2>7, <2>8 DEF Rising
  <2>10. Contents(g) = Contents(h) \cup {x}
    <3>1. \A i \in 1..Len(g) : g[i] \in Contents(h) \cup {x}
      <4>1. \A i \in 1..Len(g) : i \in 1..Len(h) \/ i = Len(h) + 1
        BY <2>2
      <4>2. QED
        BY <2>2, <4>1 DEF Contents
    <3>2. x \in Contents(g) /\ Contents(h) \subseteq Contents(g)
      <4>1. Len(h) + 1 \in 1..Len(g)
        BY <2>2
      <4>2. \A i \in 1..Len(h) : i \in 1..Len(g)
        BY <2>2
      <4>3. QED
        BY <2>2, <4>1, <4>2 DEF Contents
    <3>3. QED
      BY <3>1, <3>2 DEF Contents
  <2>11. Carried(q) = Carried(t) \cup {x}
    <3>1. ASSUME NEW j \in Found(t) PROVE t[j].n \in Carried(q)
      <4>1. f[j] \in Found(q) /\ q[f[j]].n = t[j].n
        BY <1>1 DEF Finds
      <4>2. QED
        BY <4>1 DEF Carried
    <3>2. ASSUME NEW i \in Found(q) PROVE q[i].n \in Carried(t) \cup {x}
      <4>1. CASE i = 1
        BY <2>x, <4>1
      <4>2. CASE i # 1
        <5>1. PICK j \in Found(t) : f[j] = i
          BY <1>1, <4>2
        <5>2. q[i].n = t[j].n
          BY <1>1, <5>1 DEF Finds
        <5>3. QED
          BY <5>2 DEF Carried
      <4>3. QED
        BY <4>1, <4>2
    <3>3. x \in Carried(q)
      BY <2>1, <2>x DEF Carried
    <3>4. QED
      BY <3>1, <3>2, <3>3 DEF Carried
  <2>12. QED
    BY <2>9, <2>10, <2>11
<1>7. QED
  BY <1>2, <1>4, <1>5, <1>6 DEF t

\* Payloads of another kind come in between.
LEMMA OthersRise ==
  ASSUME NEW a \in Seq(LogPayloads), NEW m \in Seq(LogPayloads),
         NEW b \in Seq(LogPayloads),
         \A i \in 1..Len(m) : m[i].command # "LogMessage",
         NEW h, NEW n, Rising(h, a \o b, n)
  PROVE  /\ Rising(h, (a \o m) \o b, n)
         /\ Carried((a \o m) \o b) = Carried(a \o b)
<1> DEFINE q == a \o b
           am == a \o m
           t == am \o b
           f == [j \in 1..Len(t) |-> IF j <= Len(a) THEN j ELSE j - Len(m)]
<1>1. /\ Len(q) = Len(a) + Len(b) /\ Len(a) \in Nat /\ Len(b) \in Nat
      /\ \A i \in 1..(Len(a) + Len(b)) :
           q[i] = IF i <= Len(a) THEN a[i] ELSE b[i - Len(a)]
  BY ConcatIs
<1>2. /\ am \in Seq(LogPayloads) /\ Len(am) = Len(a) + Len(m) /\ Len(m) \in Nat
      /\ \A i \in 1..(Len(a) + Len(m)) :
           am[i] = IF i <= Len(a) THEN a[i] ELSE m[i - Len(a)]
  BY ConcatIs
<1> HIDE DEF am
<1>3. /\ Len(t) = Len(am) + Len(b)
      /\ \A i \in 1..(Len(am) + Len(b)) :
           t[i] = IF i <= Len(am) THEN am[i] ELSE b[i - Len(am)]
  BY <1>2, ConcatIs
<1> HIDE DEF q, t
<1>a. ASSUME NEW j \in 1..Len(a)
      PROVE  q[j] = a[j] /\ t[j] = a[j] /\ j \in 1..Len(q) /\ j \in 1..Len(t)
  <2>1. j \in 1..(Len(a) + Len(b)) /\ j \in 1..(Len(a) + Len(m)) /\ j <= Len(a)
        /\ j \in 1..(Len(am) + Len(b)) /\ j <= Len(am)
    BY <1>1, <1>2
  <2>2. q[j] = a[j]
    BY <1>1, <2>1
  <2>3. t[j] = am[j]
    BY <1>3, <2>1
  <2>4. am[j] = a[j]
    BY <1>2, <2>1
  <2>5. QED
    BY <1>1, <1>3, <2>1, <2>2, <2>3, <2>4
<1>b. ASSUME NEW k \in 1..Len(m)
      PROVE  t[Len(a) + k] = m[k]
  <2> DEFINE j == Len(a) + k
  <2>1. j \in 1..(Len(a) + Len(m)) /\ ~(j <= Len(a)) /\ j - Len(a) = k
        /\ j \in 1..(Len(am) + Len(b)) /\ j <= Len(am)
    BY <1>1, <1>2
  <2> HIDE DEF j
  <2>3. t[j] = am[j]
    BY <1>3, <2>1
  <2>4. am[j] = m[j - Len(a)]
    BY <1>2, <2>1
  <2>5. QED
    BY <2>1, <2>3, <2>4 DEF j
<1>c. ASSUME NEW k \in 1..Len(b)
      PROVE  /\ q[Len(a) + k] = b[k] /\ t[Len(am) + k] = b[k]
             /\ Len(a) + k \in 1..Len(q) /\ Len(am) + k \in 1..Len(t)
             /\ f[Len(am) + k] = Len(a) + k
  <2> DEFINE j == Len(a) + k
             l == Len(am) + k
  <2>1. /\ j \in 1..(Len(a) + Len(b)) /\ ~(j <= Len(a)) /\ j - Len(a) = k
        /\ l \in 1..(Len(am) + Len(b)) /\ ~(l <= Len(am)) /\ l - Len(am) = k
        /\ ~(l <= Len(a)) /\ l - Len(m) = j
    BY <1>1, <1>2
  <2> HIDE DEF j, l
  <2>3. t[l] = b[l - Len(am)]
    BY <1>3, <2>1
  <2>4. q[j] = b[j - Len(a)]
    BY <1>1, <2>1
  <2>6. l \in 1..Len(t) /\ j \in 1..Len(q)
    BY <1>1, <1>3, <2>1
  <2>7. f[l] = j
    BY <2>1, <2>6
  <2>5. QED
    BY <2>1, <2>3, <2>4, <2>6, <2>7 DEF j, l
<1>d. ASSUME NEW j \in 1..Len(t)
      PROVE  \/ j \in 1..Len(a) /\ f[j] = j
             \/ \E k \in 1..Len(m) : j = Len(a) + k
             \/ \E k \in 1..Len(b) : j = Len(am) + k
  <2>1. CASE j <= Len(a)
    BY <1>1, <2>1
  <2>2. CASE j > Len(a) /\ j <= Len(am)
    <3>1. j - Len(a) \in 1..Len(m) /\ j = Len(a) + (j - Len(a))
      BY <1>1, <1>2, <2>2
    <3>2. QED
      BY <3>1
  <2>3. CASE j > Len(am)
    <3>1. j - Len(am) \in 1..Len(b) /\ j = Len(am) + (j - Len(am))
      BY <1>1, <1>2, <1>3, <2>3
    <3>2. QED
      BY <3>1
  <2>4. QED
    BY <1>1, <1>2, <2>1, <2>2, <2>3
<1> HIDE DEF f
<1>4. ASSUME NEW j \in Found(t)
      PROVE  /\ f[j] \in Found(q) /\ q[f[j]] = t[j]
             /\ \/ j \in 1..Len(a) /\ f[j] = j
                \/ j > Len(a) /\ f[j] = j - Len(m) /\ f[j] > Len(a)
  <2>1. j \in 1..Len(t) /\ t[j].command = "LogMessage"
    BY DEF Found
  <2>2. CASE j \in 1..Len(a) /\ f[j] = j
    <3>1. j \in 1..Len(q) /\ q[j] = t[j]
      BY <1>a, <2>2
    <3>2. QED
      BY <2>1, <2>2, <3>1 DEF Found
  <2>3. CASE \E k \in 1..Len(m) : j = Len(a) + k
    BY <1>b, <2>1, <2>3
  <2>4. CASE \E k \in 1..Len(b) : j = Len(am) + k
    <3>1. PICK k \in 1..Len(b) : j = Len(am) + k
      BY <2>4
    <3>2. f[j] = Len(a) + k /\ Len(a) + k \in 1..Len(q) /\ q[Len(a) + k] = t[j]
      BY <1>c, <3>1
    <3>3. f[j] \in Found(q) /\ q[f[j]] = t[j]
      BY <2>1, <3>2 DEF Found
    <3>4. j > Len(a) /\ f[j] = j - Len(m) /\ f[j] > Len(a)
      BY <1>1, <1>2, <3>1, <3>2
    <3>5. QED
      BY <3>3, <3>4
  <2>5. QED
    BY <1>d, <2>1, <2>2, <2>3, <2>4
<1>5. ASSUME NEW i \in Found(q) PROVE \E j \in Found(t) : f[j] = i
  <2>1. i \in 1..Len(q) /\ q[i].command = "LogMessage"
    BY DEF Found
  <2>2. CASE i \in 1..Len(a)
    <3>1. i \in 1..Len(t) /\ t[i] = q[i]
      BY <1>a, <2>2
    <3>2. i \in Found(t)
      BY <2>1, <3>1 DEF Found
    <3>3. f[i] = i
      BY <1>4, <3>2, <2>2
    <3>4. QED
      BY <3>2, <3>3
  <2>3. CASE i \notin 1..Len(a)
    <3>1. i - Len(a) \in 1..Len(b) /\ i = Len(a) + (i - Len(a))
      BY <1>1, <2>1, <2>3
    <3>2. PICK k \in 1..Len(b) : i = Len(a) + k
      BY <3>1
    <3>3. Len(am) + k \in 1..Len(t) /\ f[Len(am) + k] = i /\ t[Len(am) + k] = q[i]
      BY <1>c, <3>2
    <3>4. Len(am) + k \in Found(t)
      BY <2>1, <3>3 DEF Found
    <3>5. QED
      BY <3>3, <3>4
  <2>4. QED
    BY <2>2, <2>3
<1>6. \A i, j \in Found(t) : i < j => f[i] < f[j]
  <2> SUFFICES ASSUME NEW i \in Found(t), NEW j \in Found(t), i < j
               PROVE  f[i] < f[j]
    OBVIOUS
  <2>1. i \in Nat /\ j \in Nat
    BY <1>1, <1>2, <1>3 DEF Found
  <2>2. \/ i \in 1..Len(a) /\ f[i] = i
        \/ i > Len(a) /\ f[i] = i - Len(m) /\ f[i] > Len(a)
    BY <1>4
  <2>3. \/ j \in 1..Len(a) /\ f[j] = j
        \/ j > Len(a) /\ f[j] = j - Len(m) /\ f[j] > Len(a)
    BY <1>4
  <2>4. QED
    BY <1>1, <1>2, <2>1, <2>2, <2>3
<1>7. Finds(f, t, q)
  BY <1>4, <1>6 DEF Finds
<1>8. Rising(h, q, n)
  BY DEF q
<1>9. Rising(h, t, n) /\ Carried(t) = Carried(q)
  BY <1>5, <1>7, <1>8, FewerRise, SameCarried
<1>10. QED
  BY <1>9 DEF q, t, am

\* What the session still held is lost with it.
LEMMA PrefixRises ==
  ASSUME NEW a \in Seq(LogPayloads), NEW b \in Seq(LogPayloads),
         NEW h, NEW n, Rising(h, a \o b, n)
  PROVE  Rising(h, a, n)
<1> DEFINE q == a \o b
           f == [j \in 1..Len(a) |-> j]
<1>1. /\ Len(q) = Len(a) + Len(b) /\ Len(a) \in Nat /\ Len(b) \in Nat
      /\ \A i \in 1..(Len(a) + Len(b)) :
           q[i] = IF i <= Len(a) THEN a[i] ELSE b[i - Len(a)]
  BY ConcatIs
<1> HIDE DEF q
<1>2. ASSUME NEW j \in Found(a)
      PROVE  f[j] = j /\ f[j] \in Found(q) /\ q[f[j]].n = a[j].n
  <2>1. j \in 1..Len(a) /\ a[j].command = "LogMessage"
    BY DEF Found
  <2>2. f[j] = j /\ q[j] = a[j] /\ j \in 1..Len(q)
    BY <1>1, <2>1
  <2>3. QED
    BY <2>1, <2>2 DEF Found
<1> HIDE DEF f
<1>3. Finds(f, a, q)
  BY <1>2 DEF Finds
<1>4. QED
  BY <1>3, FewerRise DEF q

\* One more message is logged: for others, or for the end of what is on its way.
LEMMA LaterRises ==
  ASSUME NEW h \in Seq(Nat), NEW q \in Seq(LogPayloads), NEW n \in Nat,
         Rising(h, q, n)
  PROVE  Rising(h, q, n + 1)
<1>1. \A i \in 1..Len(h) : h[i] \in Nat
  OBVIOUS
<1>2. \A i \in Found(q) : q[i].n \in Nat
  <2>1. \A i \in 1..Len(q) : q[i] \in LogPayloads
    OBVIOUS
  <2>2. QED
    BY <2>1 DEF Found, LogPayloads
<1>3. QED
  BY <1>1, <1>2 DEF Rising

\* The next message goes to the end of what is on its way.
LEMMA LoggedRises ==
  ASSUME NEW h \in Seq(Nat), NEW q \in Seq(LogPayloads), NEW n \in Nat,
         Rising(h, q, n), NEW p \in LogPayloads, p.command = "LogMessage",
         p.n = n + 1
  PROVE  /\ Rising(h, Append(q, p), n + 1)
         /\ Carried(Append(q, p)) = Carried(q) \cup {n + 1}
<1> DEFINE t == Append(q, p)
<1>1. /\ Len(t) = Len(q) + 1 /\ Len(q) \in Nat
      /\ \A i \in 1..Len(q) : t[i] = q[i]
      /\ t[Len(q) + 1] = p
  OBVIOUS
<1> HIDE DEF t
<1>2. \A i \in 1..Len(h) : h[i] \in Nat
  OBVIOUS
<1>3. Found(t) = Found(q) \cup {Len(q) + 1}
  <2>1. ASSUME NEW i \in Found(q) PROVE i \in Found(t)
    BY <1>1 DEF Found
  <2>2. Len(q) + 1 \in Found(t)
    BY <1>1 DEF Found
  <2>3. ASSUME NEW i \in Found(t), i # Len(q) + 1 PROVE i \in Found(q)
    <3>1. i \in 1..Len(q) /\ t[i].command = "LogMessage"
      BY <1>1, <2>3 DEF Found
    <3>2. QED
      BY <1>1, <3>1 DEF Found
  <2>4. QED
    BY <2>1, <2>2, <2>3
<1>4. \A i \in Found(q) : /\ i \in 1..Len(q) /\ t[i] = q[i] /\ t[i].n \in Nat
  <2>1. \A i \in 1..Len(q) : q[i] \in LogPayloads
    OBVIOUS
  <2>2. QED
    BY <1>1, <2>1 DEF Found, LogPayloads
<1>5. Rising(h, q, n + 1)
  BY LaterRises
<1>6. ASSUME NEW i \in Found(t), NEW j \in Found(t), i < j
      PROVE  t[i].n < t[j].n
  <2>1. i \in Found(q)
    BY <1>1, <1>3, <1>4, <1>6
  <2>2. CASE j \in Found(q)
    <3>1. q[i].n < q[j].n
      BY <1>6, <2>1, <2>2 DEF Rising
    <3>2. QED
      BY <1>4, <2>1, <2>2, <3>1
  <2>3. CASE j = Len(q) + 1
    <3>1. q[i].n <= n
      BY <2>1 DEF Rising
    <3>2. t[j].n = n + 1 /\ t[i].n = q[i].n /\ q[i].n \in Nat
      BY <1>1, <1>4, <2>1, <2>3
    <3>3. QED
      BY <3>1, <3>2
  <2>4. QED
    BY <1>3, <2>2, <2>3
<1>7. ASSUME NEW i \in 1..Len(h), NEW j \in Found(t) PROVE h[i] < t[j].n
  <2>1. CASE j \in Found(q)
    BY <1>4, <2>1 DEF Rising
  <2>2. CASE j = Len(q) + 1
    <3>1. h[i] <= n /\ h[i] \in Nat
      BY <1>2 DEF Rising
    <3>2. QED
      BY <1>1, <2>2, <3>1
  <2>3. QED
    BY <1>3, <2>1, <2>2
<1>8. ASSUME NEW j \in Found(t) PROVE t[j].n <= n + 1
  <2>1. CASE j \in Found(q)
    BY <1>4, <1>5, <2>1 DEF Rising
  <2>2. CASE j = Len(q) + 1
    BY <1>1, <2>2
  <2>3. QED
    BY <1>3, <2>1, <2>2
<1>9. Rising(h, t, n + 1)
  BY <1>5, <1>6, <1>7, <1>8 DEF Rising
<1>10. Carried(t) = Carried(q) \cup {n + 1}
  <2>1. t[Len(q) + 1].n = n + 1
    BY <1>1
  <2>2. QED
    BY <1>3, <1>4, <2>1 DEF Carried
<1>11. QED
  BY <1>9, <1>10 DEF t

\* The contents of a history that grows.
LEMMA ContentsAppend ==
  ASSUME NEW g \in Seq(Nat), NEW x \in Nat
  PROVE  Contents(Append(g, x)) = Contents(g) \cup {x}
<1> DEFINE t == Append(g, x)
<1>1. /\ Len(t) = Len(g) + 1 /\ Len(g) \in Nat /\ t[Len(g) + 1] = x
      /\ \A i \in 1..Len(g) : t[i] = g[i]
  OBVIOUS
<1> HIDE DEF t
<1>2. \A i \in 1..Len(t) : i \in 1..Len(g) \/ i = Len(g) + 1
  BY <1>1
<1>3. Len(g) + 1 \in 1..Len(t) /\ \A i \in 1..Len(g) : i \in 1..Len(t)
  BY <1>1
<1>4. Contents(t) = Contents(g) \cup {x}
  BY <1>1, <1>2, <1>3 DEF Contents
<1>5. QED
  BY <1>4 DEF t

\* q has become t by payloads of another kind that came in between.
Extra(q, t) ==
  \E a, m, b \in Seq(LogPayloads) :
    /\ q = a \o b /\ t = (a \o m) \o b
    /\ \A i \in 1..Len(m) : m[i].command # "LogMessage"

\* Such payloads change nothing about the messages.
LEMMA ExtraRises ==
  ASSUME NEW q, NEW t, Extra(q, t), NEW h, NEW n, Rising(h, q, n)
  PROVE  Rising(h, t, n) /\ Carried(t) = Carried(q)
<1>1. PICK a \in Seq(LogPayloads), m \in Seq(LogPayloads), b \in Seq(LogPayloads) :
        /\ q = a \o b /\ t = (a \o m) \o b
        /\ \A i \in 1..Len(m) : m[i].command # "LogMessage"
  BY DEF Extra
<1>2. Rising(h, a \o b, n)
  BY <1>1
<1>3. Rising(h, (a \o m) \o b, n) /\ Carried((a \o m) \o b) = Carried(a \o b)
  BY <1>1, <1>2, OthersRise
<1>4. QED
  BY <1>1, <1>3

\* One such payload.
LEMMA OneExtra ==
  ASSUME NEW a \in Seq(LogPayloads), NEW b \in Seq(LogPayloads),
         NEW p \in LogPayloads, p.command # "LogMessage"
  PROVE  Extra(a \o b, Append(a, p) \o b)
<1> DEFINE m == <<p>>
<1>1. /\ m \in Seq(LogPayloads) /\ Append(a, p) = a \o m
      /\ \A i \in 1..Len(m) : m[i].command # "LogMessage"
  OBVIOUS
<1> HIDE DEF m
<1>2. Append(a, p) \o b = (a \o m) \o b
  BY <1>1
<1>3. QED
  BY <1>1, <1>2 DEF Extra

\* One such payload at the end.
LEMMA ExtraAtEnd ==
  ASSUME NEW a \in Seq(LogPayloads), NEW b \in Seq(LogPayloads),
         NEW p \in LogPayloads, p.command # "LogMessage"
  PROVE  Extra(a \o b, a \o Append(b, p))
<1> DEFINE e == <<>>
           q == a \o b
<1>1. e \in Seq(LogPayloads) /\ q \in Seq(LogPayloads)
  OBVIOUS
<1>2. q \o e = q /\ Append(q, p) \in Seq(LogPayloads)
      /\ Append(q, p) \o e = Append(q, p)
  OBVIOUS
<1>3. a \o Append(b, p) = Append(q, p)
  BY AppendConcat
<1> HIDE DEF e, q
<1>4. Extra(q \o e, Append(q, p) \o e)
  BY <1>1, OneExtra
<1>5. Extra(q, Append(q, p))
  BY <1>2, <1>4
<1>6. QED
  BY <1>3, <1>5 DEF q

\* An update of a session keeps what is on the way to its tool, but for
\* payloads of another kind.
LEMMA UpdatesComing ==
  ASSUME NEW s \in Loggers, NEW in \in Seq(LogPayloads), numCategories \in Nat,
         NEW out \in Seq(LogPayloads), SaneLogger(s, in),
         NEW t, NEW rest, NEW sent, Updates(s, in, out, t, rest, sent)
  PROVE  LET q == out \o s.messages
             c == sent \o t.messages
         IN  t.open = s.open /\ (c = q \/ Extra(q, c))
<1> DEFINE ms == s.messages
<1>0. ms \in Seq(LogPayloads) /\ s.scratch \in LogPayloads /\ s.numItems \in Nat
  BY DEF Loggers
<1>1. CASE \/ ReceivesLog(s, in, out, t, rest, sent) \/ Lists(s, in, out, t, rest, sent)
           \/ Enables(s, in, out, t, rest, sent) \/ Finishes(s, in, out, t, rest, sent)
           \/ Listed(s, in, out, t, rest, sent)
           \/ t = s /\ rest = in /\ sent = out
  <2>1. t.messages = ms /\ sent = out /\ t.open = s.open
    BY <1>1 DEF ReceivesLog, Lists, Enables, Finishes, Listed, Loggers
  <2>2. QED
    BY <2>1
<1>2. CASE PassesOn(s, in, out, t, rest, sent)
  <2>1. PICK k \in 0..Len(ms) : Passed(s, out, k, t, sent)
    BY <1>2 DEF PassesOn
  <2> DEFINE a == SubSeq(ms, 1, k)
             b == SubSeq(ms, k + 1, Len(ms))
  <2>2. a \in Seq(LogPayloads) /\ b \in Seq(LogPayloads) /\ a \o b = ms
    BY <1>0, Parts, Split
  <2>3. t = [s EXCEPT !.messages = b] /\ sent = out \o a
    BY <2>1 DEF Passed
  <2> HIDE DEF a, b
  <2>4. t.messages = b /\ t.open = s.open
    BY <2>3 DEF Loggers
  <2>5. out \o (a \o b) = (out \o a) \o b
    BY <2>2, Assoc
  <2>6. sent \o t.messages = out \o ms
    BY <2>2, <2>3, <2>4, <2>5
  <2>7. QED
    BY <2>4, <2>6
<1>3. CASE Disables(s, in, out, t, rest, sent)
  <2> DEFINE p == LogPayload("LogMessageSentinel", 0)
             qs == Append(ms, p)
  <2>1. p \in LogPayloads /\ p.command # "LogMessage"
    BY DEF LogPayload, LogPayloads, LoggingMessage
  <2>2. sent = out /\ t = [s EXCEPT !.enabled = FALSE, !.state = "FinishLogging",
                                    !.messages = qs]
    BY <1>3 DEF Disables, HandleDisableLogging
  <2> HIDE DEF p
  <2>3. Extra(out \o ms, out \o qs)
    BY <1>0, <2>1, ExtraAtEnd
  <2> HIDE DEF qs
  <2>4. t.messages = qs /\ t.open = s.open
    BY <2>2 DEF Loggers
  <2>5. QED
    BY <2>2, <2>3, <2>4
<1>4. CASE Replies(s, in, out, t, rest, sent) \/ CountsLog(s, in, out, t, rest, sent)
  <2>1. s.scratch.command # "LogMessage"
    BY <1>4 DEF SaneLogger, LogAnswers, Replies, CountsLog
  <2> DEFINE z == 0
  <2>2. \/ t = [s EXCEPT !.state = "ReceivePayload"]
        \/ t = [s EXCEPT !.state = "SendCategoriesDataResponse", !.numItems = z]
    BY <1>4 DEF Replies, CountsLog
  <2> HIDE DEF z
  <2>3. t.messages = ms /\ t.open = s.open
    BY <2>2 DEF Loggers
  <2>4. sent = Append(out, s.scratch)
    BY <1>4 DEF Replies, CountsLog
  <2>5. Extra(out \o ms, Append(out, s.scratch) \o ms)
    BY <1>0, <2>1, OneExtra
  <2>6. QED
    BY <2>3, <2>4, <2>5
<1>5. CASE Items(s, in, out, t, rest, sent)
  <2>1. PICK k \in 0..(numCategories - s.numItems) :
          t = [s EXCEPT !.numItems = @ + k] /\ sent = out \o Numbers(s, k)
    BY <1>5 DEF Items
  <2>2. k \in Nat
    BY <1>0
  <2> DEFINE m == Numbers(s, k)
  <2>3. m \in Seq(LogPayloads) /\ \A i \in 1..Len(m) : m[i].command # "LogMessage"
    BY <2>2, NumbersAre
  <2> HIDE DEF m
  <2>4. t.messages = ms /\ t.open = s.open
    BY <2>1 DEF Loggers
  <2>5. Extra(out \o ms, (out \o m) \o ms)
    BY <1>0, <2>3 DEF Extra
  <2>6. QED
    BY <2>1, <2>4, <2>5 DEF m
<1>6. QED
  BY <1>1, <1>2, <1>3, <1>4, <1>5 DEF Updates

\* What a tool has read or holds, and what is on its way to it.
Had(r) == gathered[r] \o reader[r].messages
ComingLog(r) == toReader[r] \o loggers[r].messages
Ordered(r) ==
  reader[r].connected =>
    /\ Rising(Had(r), ComingLog(r), logs)
    /\ loggers[r].open /\ ~reader[r].failed =>
         Whole(given[r], Had(r), ComingLog(r))

\* The types of the parts of a reader.
LEMMA OrderedTyped ==
  ASSUME Typed, NEW r \in Readers
  PROVE  /\ Had(r) \in Seq(Nat) /\ ComingLog(r) \in Seq(LogPayloads)
         /\ given[r] \in Seq(Nat) /\ gathered[r] \in Seq(Nat)
         /\ toReader[r] \in Seq(LogPayloads) /\ logs \in Nat
         /\ reader[r] \in ReaderStates /\ loggers[r] \in Loggers
         /\ reader[r].messages \in Seq(Nat)
         /\ loggers[r].messages \in Seq(LogPayloads)
<1>1. /\ given[r] \in Seq(Nat) /\ gathered[r] \in Seq(Nat)
      /\ toReader[r] \in Seq(LogPayloads) /\ logs \in Nat
      /\ reader[r] \in ReaderStates /\ loggers[r] \in Loggers
  BY DEF Typed, LoggingTypeOK
<1>2. /\ reader[r].messages \in Seq(Nat)
      /\ loggers[r].messages \in Seq(LogPayloads)
  BY <1>1 DEF ReaderStates, Loggers
<1>3. Had(r) \in Seq(Nat) /\ ComingLog(r) \in Seq(LogPayloads)
  BY <1>1, <1>2 DEF Had, ComingLog
<1>4. QED
  BY <1>1, <1>2, <1>3

\* The order after a step, from what it makes of the three sequences.
LEMMA OrderIs ==
  ASSUME NEW r, NEW h, NEW q, NEW g, NEW n, Had(r)' = h, ComingLog(r)' = q,
         given'[r] = g, logs' = n,
         reader'[r].connected =>
           Rising(h, q, n)
             /\ (loggers'[r].open /\ ~reader'[r].failed => Whole(g, h, q))
  PROVE  Ordered(r)'
<1>1. (Rising(Had(r), ComingLog(r), logs))' <=> Rising(h, q, n)
  BY DEF Rising, Found
<1>2. (Whole(given[r], Had(r), ComingLog(r)))' <=> Whole(g, h, q)
  BY DEF Whole, Contents, Carried, Found
<1>3. QED
  BY <1>1, <1>2 DEF Ordered

\* What is kept stays in order, also when others are sent a message.
LEMMA SameOrdered ==
  ASSUME Typed, NEW r \in Readers, Ordered(r),
         Had(r)' = Had(r), ComingLog(r)' = ComingLog(r), given'[r] = given[r],
         logs' = logs \/ logs' = logs + 1,
         reader'[r].connected => reader[r].connected,
         loggers'[r].open /\ ~reader'[r].failed =>
           loggers[r].open /\ ~reader[r].failed
  PROVE  Ordered(r)'
<1> DEFINE h == Had(r)
           q == ComingLog(r)
<1>0. h \in Seq(Nat) /\ q \in Seq(LogPayloads) /\ logs \in Nat
  BY OrderedTyped
<1>1. SUFFICES ASSUME reader'[r].connected
               PROVE  /\ Rising(Had(r)', ComingLog(r)', logs')
                      /\ loggers'[r].open /\ ~reader'[r].failed =>
                           Whole(given'[r], Had(r)', ComingLog(r)')
  BY DEF Ordered, Rising, Whole, Contents, Carried, Found
<1>2. Rising(h, q, logs)
  BY <1>1 DEF Ordered
<1> HIDE DEF h, q
<1>3. Rising(h, q, logs')
  BY <1>0, <1>2, LaterRises
<1>4. loggers'[r].open /\ ~reader'[r].failed => Whole(given[r], h, q)
  BY <1>1 DEF Ordered, h, q
<1>5. QED
  BY <1>3, <1>4 DEF h, q

\* A step of another reader.
LEMMA KeptOrdered ==
  ASSUME Typed, NEW r \in Readers, Ordered(r), Kept(r),
         logs' = logs \/ logs' = logs + 1
  PROVE  Ordered(r)'
<1>1. Had(r)' = Had(r) /\ ComingLog(r)' = ComingLog(r)
  BY DEF Kept, Had, ComingLog
<1>2. QED
  BY <1>1, SameOrdered DEF Kept

\* The calls that touch neither the messages nor their queue.
LEMMA CallOrdered ==
  ASSUME Typed, NEW r \in Readers, Ordered(r),
         \/ \E level \in Levels : EnableLogging(r, level)
         \/ QueryCategories(r) \/ DisableLogging(r)
         \/ SetLogging(r) \/ ClearFinished(r) \/ WakeFinished(r)
         \/ AnswerTimesOut(r) \/ AnswerLost(r) \/ ReaderTerminated(r)
  PROVE  Ordered(r)'
<1>0. reader[r] \in ReaderStates /\ reader \in [Readers -> ReaderStates]
  BY DEF Typed, LoggingTypeOK
<1>1. UNCHANGED <<loggers, logs, given, toReader, gathered>>
  BY DEF EnableLogging, QueryCategories, DisableLogging, RequestsLog,
         SetLogging, ClearFinished, WakeFinished, AnswerTimesOut, AnswerLost,
         ReaderTerminated, OnlyReader, ReaderKeeps
<1>2. CASE ReaderTerminated(r)
  <2> DEFINE v == ResetState(reader[r])
  <2>1. reader'[r] = [v EXCEPT !.connected = FALSE]
    BY <1>0, <1>2 DEF ReaderTerminated
  <2>2. "connected" \in DOMAIN v
    BY <1>0 DEF ResetState, ReaderStates
  <2> HIDE DEF v
  <2>3. ~reader'[r].connected
    BY <2>1, <2>2
  <2>4. QED
    BY <2>3 DEF Ordered
<1>3. CASE ~ReaderTerminated(r)
  <2>1. /\ reader'[r].messages = reader[r].messages
        /\ reader'[r].connected = reader[r].connected
        /\ reader[r].failed => reader'[r].failed
    <3>1. CASE \/ \E level \in Levels : EnableLogging(r, level)
               \/ QueryCategories(r) \/ DisableLogging(r)
      <4>1. \E call : reader' = [reader EXCEPT ![r].call = call]
        BY <3>1 DEF EnableLogging, QueryCategories, DisableLogging, RequestsLog
      <4>2. QED
        BY <1>0, <4>1 DEF ReaderStates
    <3>2. CASE SetLogging(r)
      BY <1>0, <3>2 DEF SetLogging, ReaderStates
    <3>3. CASE ClearFinished(r)
      BY <1>0, <3>3 DEF ClearFinished, ReaderStates
    <3>4. CASE WakeFinished(r)
      <4> DEFINE v == reader[r]
                 c == IF v.state = "LoggingFinished" THEN "Idle" ELSE v.state
      <4>1. reader' = [reader EXCEPT ![r] =
                         [v EXCEPT !.call = "None", !.state = c]]
        BY <3>4 DEF WakeFinished
      <4> HIDE DEF c
      <4>2. QED
        BY <1>0, <4>1 DEF ReaderStates
    <3>5. CASE AnswerTimesOut(r) \/ AnswerLost(r)
      <4>1. reader'[r] = Failed(reader[r])
        BY <1>0, <3>5 DEF AnswerTimesOut, AnswerLost
      <4>2. QED
        BY <1>0, <4>1 DEF Failed, ReaderStates
    <3>6. QED
      BY <1>3, <3>1, <3>2, <3>3, <3>4, <3>5
  <2>2. Had(r)' = Had(r) /\ ComingLog(r)' = ComingLog(r)
    BY <1>1, <2>1 DEF Had, ComingLog
  <2>3. QED
    BY <1>1, <2>1, <2>2, SameOrdered
<1>4. QED
  BY <1>2, <1>3

\* The tool reads what the client has gathered.
LEMMA ReadOrdered ==
  ASSUME Typed, NEW r \in Readers, Ordered(r), ReadLogMessages(r)
  PROVE  Ordered(r)'
<1> DEFINE e == <<>>
           ms == reader[r].messages
           g == gathered[r]
<1>0. /\ reader[r] \in ReaderStates /\ ms \in Seq(Nat) /\ g \in Seq(Nat)
      /\ reader \in [Readers -> ReaderStates] /\ gathered \in [Readers -> Seq(Nat)]
  BY OrderedTyped DEF Typed, LoggingTypeOK
<1>1. (g \o ms) \o e = g \o ms
  <2>1. g \o ms \in Seq(Nat)
    BY <1>0
  <2>2. QED
    BY <2>1
<1>2. /\ reader' = [reader EXCEPT ![r].messages = e]
      /\ gathered' = [gathered EXCEPT ![r] = g \o ms]
      /\ UNCHANGED <<loggers, toReader, logs, given>>
  BY DEF ReadLogMessages, OnlyReader, ReaderKeeps
<1> HIDE DEF e
<1>3. /\ reader'[r].messages = e /\ gathered'[r] = g \o ms
      /\ reader'[r].connected = reader[r].connected
      /\ reader'[r].failed = reader[r].failed
  BY <1>0, <1>2 DEF ReaderStates
<1>4. Had(r)' = Had(r) /\ ComingLog(r)' = ComingLog(r)
  BY <1>1, <1>2, <1>3 DEF Had, ComingLog
<1>5. QED
  BY <1>2, <1>3, <1>4, SameOrdered

\* The session ends, and what it still held is lost.
LEMMA EndOrdered ==
  ASSUME Typed, NEW r \in Readers, Ordered(r), LoggerTerminated(r)
  PROVE  Ordered(r)'
<1> DEFINE h == Had(r)
           a == toReader[r]
           b == loggers[r].messages
           e == <<>>
<1>0. /\ h \in Seq(Nat) /\ a \in Seq(LogPayloads) /\ b \in Seq(LogPayloads)
      /\ loggers \in [Readers -> Loggers]
  BY OrderedTyped DEF Typed, LoggingTypeOK
<1>1. loggers'[r] = NoLogger
      /\ UNCHANGED <<reader, gathered, toReader, logs, given>>
  BY <1>0 DEF LoggerTerminated, LoggerKeeps
<1>2. ~loggers'[r].open /\ loggers'[r].messages = e
  BY <1>1 DEF NoLogger
<1>3. Had(r)' = h /\ ComingLog(r)' = a
  <2>1. a \o e = a
    BY <1>0
  <2>2. QED
    BY <1>1, <1>2, <2>1 DEF Had, ComingLog
<1>4. ASSUME reader'[r].connected PROVE Rising(h, a, logs)
  <2>1. Rising(h, a \o b, logs)
    BY <1>1, <1>4 DEF Ordered, ComingLog
  <2> HIDE DEF h, a, b
  <2>2. QED
    BY <1>0, <2>1, PrefixRises
<1>5. ASSUME reader'[r].connected PROVE Rising(Had(r)', ComingLog(r)', logs')
  BY <1>1, <1>3, <1>4, <1>5
<1>6. QED
  BY <1>2, <1>5 DEF Ordered, Rising, Found

\* An update of the session.
LEMMA UpdateOrdered ==
  ASSUME Typed, NEW r \in Readers, Ordered(r), UpdateLogger(r)
  PROVE  Ordered(r)'
<1> DEFINE s == loggers[r]
           in == toLogger[r]
           out == toReader[r]
           t == loggers'[r]
           rest == toLogger'[r]
           sent == toReader'[r]
           h == Had(r)
           q == ComingLog(r)
           c == sent \o t.messages
<1>0. /\ s \in Loggers /\ in \in Seq(LogPayloads) /\ out \in Seq(LogPayloads)
      /\ numCategories \in Nat /\ SaneLogger(s, in)
  BY DEF Typed, LoggingTypeOK, Sane
<1>1. /\ s.open /\ Updates(s, in, out, t, rest, sent)
      /\ UNCHANGED <<reader, gathered, logs, given>>
  BY UpdateLoggerIs DEF LoggerKeeps
<1>2. t.open /\ (c = out \o s.messages \/ Extra(out \o s.messages, c))
  <2> HIDE DEF s, in, out, t, rest, sent
  <2>1. QED
    BY <1>0, <1>1, UpdatesComing
<1>3. Had(r)' = h /\ ComingLog(r)' = c
  BY <1>1 DEF Had, ComingLog
<1>4. q = out \o s.messages
  BY DEF ComingLog
<1> HIDE DEF c
<1>5. CASE c = q
  <2>1. Had(r)' = Had(r) /\ ComingLog(r)' = ComingLog(r)
    BY <1>3, <1>5
  <2>2. QED
    BY <1>1, <2>1, SameOrdered
<1>6. CASE Extra(q, c)
  <2>1. ASSUME reader[r].connected
        PROVE  /\ Rising(h, c, logs)
               /\ ~reader[r].failed => Whole(given[r], h, c)
    <3>1. Rising(h, q, logs) /\ (~reader[r].failed => Whole(given[r], h, q))
      BY <1>1, <2>1 DEF Ordered
    <3> HIDE DEF h, q
    <3>2. Rising(h, c, logs) /\ Carried(c) = Carried(q)
      BY <1>6, <3>1, ExtraRises
    <3>3. QED
      BY <3>1, <3>2 DEF Whole
  <2>2. given'[r] = given[r] /\ logs' = logs /\ reader'[r] = reader[r]
    BY <1>1
  <2> HIDE DEF h
  <2>3. QED
    BY <1>3, <2>1, <2>2, OrderIs
<1>7. QED
  BY <1>2, <1>4, <1>5, <1>6

\* Appending to the second of two histories.
LEMMA NatAppendConcat ==
  ASSUME NEW a \in Seq(Nat), NEW b \in Seq(Nat), NEW p \in Nat
  PROVE  a \o Append(b, p) = Append(a \o b, p)
<1> DEFINE x == a \o Append(b, p)
           y == Append(a \o b, p)
<1>1. x \in Seq(Nat) /\ y \in Seq(Nat) /\ Len(x) = Len(y)
  OBVIOUS
<1>2. \A i \in 1..Len(x) : x[i] = y[i]
  OBVIOUS
<1> HIDE DEF x, y
<1>3. x = y
  BY <1>1, <1>2
<1>4. QED
  BY <1>3 DEF x, y

\* What the taking of the next payload makes of what is on its way.
LEMMA TakenIs ==
  ASSUME Typed, NEW r \in Readers, toReader[r] # <<>>,
         toReader'[r] = Tail(toReader[r]), loggers' = loggers
  PROVE  /\ ComingLog(r) # <<>> /\ ComingLog(r)' = Tail(ComingLog(r))
         /\ Head(ComingLog(r)) = Head(toReader[r])
<1> DEFINE a == toReader[r]
           b == loggers[r].messages
<1>0. a \in Seq(LogPayloads) /\ b \in Seq(LogPayloads) /\ a # <<>>
  BY OrderedTyped
<1>1. ComingLog(r)' = Tail(a) \o b /\ ComingLog(r) = a \o b
  BY DEF ComingLog
<1> HIDE DEF a, b
<1>2. Tail(a \o b) = Tail(a) \o b /\ Head(a \o b) = Head(a)
  BY <1>0, HeadTail
<1>3. a \o b # <<>>
  <2>1. Len(a \o b) = Len(a) + Len(b) /\ Len(a) \in Nat /\ Len(b) \in Nat
    BY <1>0, ConcatIs
  <2>2. Len(a) # 0
    BY <1>0
  <2>3. Len(a \o b) # 0
    BY <2>1, <2>2
  <2>4. QED
    BY <2>3
<1>4. QED
  BY <1>1, <1>2, <1>3 DEF a

\* A payload is taken for an answer: a message only when the call fails.
LEMMA AnswerOrdered ==
  ASSUME Typed, NEW r \in Readers, Ordered(r), NEW call,
         NEW command, command # "LogMessage", NEW next,
         TakesAnswer(r, call, command, next),
         next.messages = reader[r].messages, next.failed = reader[r].failed
  PROVE  Ordered(r)'
<1> DEFINE h == Had(r)
           q == ComingLog(r)
           c == Tail(q)
           n == logs
<1>0. /\ h \in Seq(Nat) /\ q \in Seq(LogPayloads) /\ n \in Nat
      /\ reader[r] \in ReaderStates /\ reader \in [Readers -> ReaderStates]
      /\ toReader \in [Readers -> Seq(LogPayloads)]
  BY OrderedTyped DEF Typed, LoggingTypeOK
<1>1. /\ reader[r].connected /\ toReader[r] # <<>>
      /\ toReader' = [toReader EXCEPT ![r] = Tail(@)]
      /\ UNCHANGED <<loggers, gathered, logs, given>>
  BY DEF TakesAnswer, ReaderKeeps
<1>2. toReader'[r] = Tail(toReader[r])
  BY <1>0, <1>1
<1>3. q # <<>> /\ ComingLog(r)' = c /\ Head(q) = Head(toReader[r])
  BY <1>1, <1>2, TakenIs
<1>4. reader'[r].messages = reader[r].messages
      /\ (~reader'[r].failed =>
            ~reader[r].failed /\ Head(toReader[r]).command = command)
  <2>1. reader'[r] = IF Head(toReader[r]).command = command THEN next
                     ELSE Failed(reader[r])
    BY <1>0 DEF TakesAnswer
  <2>2. Failed(reader[r]).failed
        /\ Failed(reader[r]).messages = reader[r].messages
    BY <1>0 DEF Failed, ReaderStates
  <2>3. QED
    BY <2>1, <2>2
<1>5. Had(r)' = h
  BY <1>1, <1>4 DEF Had
<1>6. /\ Rising(h, q, n)
      /\ loggers[r].open /\ ~reader[r].failed => Whole(given[r], h, q)
  BY <1>1 DEF Ordered
<1> HIDE DEF h, q, n
<1>7. Rising(h, c, n) /\ (Head(q).command # "LogMessage" => Carried(c) = Carried(q))
  BY <1>0, <1>3, <1>6, TailRises
<1>8. ASSUME loggers'[r].open, ~reader'[r].failed
      PROVE  Whole(given[r], h, c)
  <2>1. Head(q).command # "LogMessage"
    BY <1>3, <1>4, <1>8
  <2>2. loggers[r].open /\ ~reader[r].failed
    BY <1>1, <1>4, <1>8
  <2>3. QED
    BY <1>6, <1>7, <2>1, <2>2 DEF Whole
<1> HIDE DEF c
<1>9. given'[r] = given[r] /\ logs' = n
  BY <1>1 DEF n
<1>10. QED
  BY <1>3, <1>5, <1>7, <1>8, <1>9, OrderIs

\* The three answers.
LEMMA AnswersOrdered ==
  ASSUME Typed, NEW r \in Readers, Ordered(r),
         TakeEnableAnswer(r) \/ TakeNumAnswer(r) \/ TakeDataAnswer(r)
  PROVE  Ordered(r)'
<1>0. reader[r] \in ReaderStates
  BY DEF Typed, LoggingTypeOK
<1>1. CASE TakeEnableAnswer(r)
  <2> DEFINE u == [reader[r] EXCEPT !.call = "Enabled"]
  <2>1. TakesAnswer(r, "Enable", "EnableLoggingResponse", u)
    BY <1>1 DEF TakeEnableAnswer
  <2>2. u.messages = reader[r].messages /\ u.failed = reader[r].failed
    BY <1>0 DEF ReaderStates
  <2> HIDE DEF u
  <2>3. QED
    BY <2>1, <2>2, AnswerOrdered
<1>2. CASE TakeNumAnswer(r)
  <2> DEFINE n == Head(toReader[r]).n
             c == IF n = 0 THEN "None" ELSE "QueryData"
             u == [reader[r] EXCEPT !.call = c, !.left = n]
  <2>1. TakesAnswer(r, "QueryNum", "QueryCategoriesNumResponse", u)
    BY <1>2 DEF TakeNumAnswer
  <2> HIDE DEF c, n
  <2>2. u.messages = reader[r].messages /\ u.failed = reader[r].failed
    BY <1>0 DEF ReaderStates
  <2> HIDE DEF u
  <2>3. QED
    BY <2>1, <2>2, AnswerOrdered
<1>3. CASE TakeDataAnswer(r)
  <2> DEFINE n == reader[r].left - 1
             c == IF n = 0 THEN "None" ELSE "QueryData"
             u == [reader[r] EXCEPT !.call = c, !.left = n]
  <2>1. TakesAnswer(r, "QueryData", "QueryCategoriesDataResponse", u)
    BY <1>3 DEF TakeDataAnswer
  <2> HIDE DEF c, n
  <2>2. u.messages = reader[r].messages /\ u.failed = reader[r].failed
    BY <1>0 DEF ReaderStates
  <2> HIDE DEF u
  <2>3. QED
    BY <2>1, <2>2, AnswerOrdered
<1>4. QED
  BY <1>1, <1>2, <1>3

\* The message thread of the client moves what arrives to what the tool has.
LEMMA ArrivalOrdered ==
  ASSUME Typed, NEW r \in Readers, Ordered(r), UpdateReader(r)
  PROVE  Ordered(r)'
<1> DEFINE h == Had(r)
           q == ComingLog(r)
           c == Tail(q)
           n == logs
           x == Head(toReader[r]).n
           ms == reader[r].messages
           g == gathered[r]
<1>0. /\ h \in Seq(Nat) /\ q \in Seq(LogPayloads) /\ n \in Nat
      /\ ms \in Seq(Nat) /\ g \in Seq(Nat) /\ toReader[r] \in Seq(LogPayloads)
  BY OrderedTyped
<1>1. /\ reader[r].connected /\ toReader[r] # <<>>
      /\ toReader'[r] = Tail(toReader[r])
      /\ reader'[r].failed = reader[r].failed
      /\ \/ /\ Head(toReader[r]).command = "LogMessage"
            /\ reader'[r].messages = Append(ms, x)
         \/ /\ Head(toReader[r]).command # "LogMessage"
            /\ reader'[r].messages = ms
      /\ UNCHANGED <<loggers, gathered, logs, given>>
  BY UpdateReaderIs
<1>2. x \in Nat
  <2>1. Head(toReader[r]) \in LogPayloads
    BY <1>0, <1>1, OnlyTail
  <2>2. QED
    BY <2>1 DEF LogPayloads
<1>3. q # <<>> /\ ComingLog(r)' = c /\ Head(q) = Head(toReader[r])
  BY <1>1, TakenIs
<1>4. Append(h, x) = g \o Append(ms, x)
  <2>1. h = g \o ms
    BY DEF Had
  <2> HIDE DEF g, ms, x, h
  <2>2. Append(g \o ms, x) = g \o Append(ms, x)
    BY <1>0, <1>2, NatAppendConcat
  <2>3. QED
    BY <2>1, <2>2
<1>5. \/ Head(q).command = "LogMessage" /\ Had(r)' = Append(h, x)
      \/ Head(q).command # "LogMessage" /\ Had(r)' = h
  BY <1>1, <1>3, <1>4 DEF Had
<1>6. /\ Rising(h, q, n)
      /\ loggers[r].open /\ ~reader[r].failed => Whole(given[r], h, q)
  BY <1>1 DEF Ordered
<1>7. x = Head(q).n
  BY <1>3
<1>8. given'[r] = given[r] /\ logs' = n /\ loggers'[r] = loggers[r]
  BY <1>1
<1> HIDE DEF h, q, n, x
<1>9. /\ Rising(h, c, n)
      /\ Head(q).command # "LogMessage" => Carried(c) = Carried(q)
      /\ Head(q).command = "LogMessage" =>
           /\ Rising(Append(h, x), c, n)
           /\ Contents(Append(h, x)) \cup Carried(c) = Contents(h) \cup Carried(q)
  BY <1>0, <1>3, <1>6, <1>7, TailRises
<1> HIDE DEF c
<1>10. CASE Head(q).command = "LogMessage" /\ Had(r)' = Append(h, x)
  <2> DEFINE k == Append(h, x)
  <2>1. Rising(k, c, n)
        /\ (loggers'[r].open /\ ~reader'[r].failed => Whole(given[r], k, c))
    BY <1>1, <1>6, <1>8, <1>9, <1>10 DEF Whole
  <2>2. Had(r)' = k
    BY <1>10
  <2> HIDE DEF k
  <2>3. QED
    BY <1>3, <1>8, <2>1, <2>2, OrderIs
<1>11. CASE Head(q).command # "LogMessage" /\ Had(r)' = h
  <2>1. Rising(h, c, n)
        /\ (loggers'[r].open /\ ~reader'[r].failed => Whole(given[r], h, c))
    BY <1>1, <1>6, <1>8, <1>9, <1>11 DEF Whole
  <2>2. QED
    BY <1>3, <1>8, <1>11, <2>1, OrderIs
<1>12. QED
  BY <1>5, <1>10, <1>11

\* The next message goes behind all that is on the way.
LEMMA LogOrdered ==
  ASSUME Typed, NEW r \in Readers, Ordered(r), NEW level \in Levels, Log(level)
  PROVE  Ordered(r)'
<1> DEFINE h == Had(r)
           q == ComingLog(r)
           s == loggers[r]
           out == toReader[r]
           t == loggers'[r]
           sent == toReader'[r]
           p == LogPayload("LogMessage", logs + 1)
           c == Append(q, p)
           n == logs
           g == given[r]
<1>0. /\ h \in Seq(Nat) /\ q \in Seq(LogPayloads) /\ n \in Nat /\ g \in Seq(Nat)
      /\ s \in Loggers /\ out \in Seq(LogPayloads)
  BY OrderedTyped
<1>1. Logged(r, level) /\ logs' = n + 1
  BY LogIs
<1>2. p \in LogPayloads /\ p.command = "LogMessage" /\ p.n = n + 1
  BY <1>0 DEF LogPayload, LogPayloads, LoggingMessage
<1>3. CASE Kept(r)
  BY <1>1, <1>3, KeptOrdered
<1>4. CASE /\ Passes(s, level) /\ Queued(s, out, p, t, sent)
           /\ given'[r] = Append(g, n + 1)
           /\ reader'[r] = reader[r] /\ gathered'[r] = gathered[r]
  <2>1. s.open
    BY <1>4 DEF Passes
  <2>2. Had(r)' = h
    BY <1>4 DEF Had
  <2>3. ComingLog(r)' = c
    <3>1. q = out \o s.messages /\ ComingLog(r)' = sent \o t.messages
      BY DEF ComingLog
    <3>0. /\ Queued(s, out, p, t, sent) /\ s \in Loggers
          /\ out \in Seq(LogPayloads) /\ p \in LogPayloads
      BY <1>0, <1>2, <1>4
    <3> HIDE DEF s, out, t, sent, p, q
    <3>2. sent \o t.messages = Append(out \o s.messages, p)
      BY <3>0, QueuedAtEnd
    <3>3. QED
      BY <3>1, <3>2
  <2>4. ASSUME reader[r].connected
        PROVE  /\ Rising(h, q, n)
               /\ ~reader[r].failed => Whole(g, h, q)
    BY <2>1, <2>4 DEF Ordered
  <2>5. given'[r] = Append(g, n + 1)
    BY <1>4
  <2>6. Contents(Append(g, n + 1)) = Contents(g) \cup {n + 1}
    <3> HIDE DEF g, n
    <3>1. n + 1 \in Nat
      BY <1>0
    <3>2. QED
      BY <1>0, <3>1, ContentsAppend
  <2>7. reader'[r] = reader[r]
    BY <1>4
  <2> DEFINE k == n + 1
             l == Append(g, k)
  <2> HIDE DEF h, q, p, n
  <2>8. ASSUME reader[r].connected
        PROVE  Rising(h, c, k) /\ (~reader[r].failed => Whole(l, h, c))
    <3>1. Rising(h, c, k) /\ Carried(c) = Carried(q) \cup {k}
      BY <1>0, <1>2, <2>4, <2>8, LoggedRises
    <3> HIDE DEF c, g
    <3>2. QED
      BY <2>4, <2>6, <2>8, <3>1 DEF Whole
  <2>9. given'[r] = l /\ logs' = k
    BY <1>1, <2>5 DEF n
  <2> HIDE DEF c, k, l
  <2>10. QED
    BY <2>2, <2>3, <2>7, <2>8, <2>9, OrderIs
<1>5. QED
  BY <1>1, <1>3, <1>4 DEF Logged

\* A tool connects, and the history starts again.
LEMMA ConnectOrdered ==
  ASSUME Typed, NEW r \in Readers, ConnectReader(r)
  PROVE  Ordered(r)'
<1> DEFINE e == <<>>
           s == [loggers[r] EXCEPT !.open = TRUE]
           u == ResetState(reader[r])
<1>0. /\ reader[r] \in ReaderStates /\ loggers[r] = NoLogger
      /\ loggers[r] \in Loggers
      /\ reader \in [Readers -> ReaderStates] /\ loggers \in [Readers -> Loggers]
      /\ toReader \in [Readers -> Seq(LogPayloads)]
      /\ given \in [Readers -> Seq(Nat)] /\ gathered \in [Readers -> Seq(Nat)]
  BY DEF Typed, LoggingTypeOK, Sane, SaneLogger, ConnectReader
<1>1. loggers[r].messages = e
  BY <1>0 DEF NoLogger
<1>2. s.messages = e
  BY <1>0, <1>1 DEF Loggers
<1>3. u.messages = e /\ "messages" \in DOMAIN u
  BY <1>0 DEF ResetState, ReaderStates
<1>4. /\ reader' = [reader EXCEPT ![r] = [u EXCEPT !.connected = TRUE,
                      !.failed = FALSE, !.unexpected = FALSE]]
      /\ loggers' = [loggers EXCEPT ![r] = s]
      /\ toReader' = [toReader EXCEPT ![r] = e]
      /\ given' = [given EXCEPT ![r] = e]
      /\ gathered' = [gathered EXCEPT ![r] = e]
      /\ logs' = logs
  BY DEF ConnectReader
<1> HIDE DEF s, u
<1>a. e \o e = e /\ Len(e) = 0
  OBVIOUS
<1> HIDE DEF e
<1>5. /\ reader'[r].messages = e /\ loggers'[r].messages = e
      /\ toReader'[r] = e /\ given'[r] = e /\ gathered'[r] = e
  BY <1>0, <1>2, <1>3, <1>4
<1>6. Had(r)' = e /\ ComingLog(r)' = e
  BY <1>5, <1>a DEF Had, ComingLog
<1>7. Rising(e, e, logs) /\ Whole(e, e, e)
  BY <1>a DEF Rising, Whole, Found, Contents, Carried
<1>8. QED
  BY <1>4, <1>5, <1>6, <1>7, OrderIs

\* A step of the reader itself.
LEMMA StepOrdered ==
  ASSUME Typed, NEW r \in Readers, Ordered(r),
         ReaderStep(r) \/ UpdateLogger(r) \/ LoggerTerminated(r)
  PROVE  Ordered(r)'
<1>1. CASE \/ \E level \in Levels : EnableLogging(r, level)
           \/ QueryCategories(r) \/ DisableLogging(r)
           \/ SetLogging(r) \/ ClearFinished(r) \/ WakeFinished(r)
           \/ AnswerTimesOut(r) \/ AnswerLost(r) \/ ReaderTerminated(r)
  BY <1>1, CallOrdered
<1>2. CASE TakeEnableAnswer(r) \/ TakeNumAnswer(r) \/ TakeDataAnswer(r)
  BY <1>2, AnswersOrdered
<1>3. CASE \/ ConnectReader(r) \/ ReadLogMessages(r) \/ UpdateReader(r)
           \/ UpdateLogger(r) \/ LoggerTerminated(r)
  BY <1>3, ConnectOrdered, ReadOrdered, ArrivalOrdered, UpdateOrdered, EndOrdered
<1>4. QED
  BY <1>1, <1>2, <1>3 DEF ReaderStep

\* Every step keeps the order.
LEMMA NextOrdered ==
  ASSUME Typed, \A r \in Readers : Ordered(r), [LoggingNext]_logVars
  PROVE  \A r \in Readers : Ordered(r)'
<1> SUFFICES ASSUME NEW q \in Readers PROVE Ordered(q)'
  OBVIOUS
<1>1. ASSUME NEW r \in Readers,
             ReaderStep(r) \/ UpdateLogger(r) \/ LoggerTerminated(r)
      PROVE  Ordered(q)'
  <2>1. CASE q = r
    BY <1>1, <2>1, StepOrdered
  <2>2. CASE q # r
    <3>1. Kept(q)
      BY <1>1, <2>2, OthersKept
    <3>2. logs' = logs
      BY <1>1 DEF ReaderStep, ConnectReader, EnableLogging, QueryCategories,
         DisableLogging, RequestsLog, TakeEnableAnswer, TakeNumAnswer,
         TakeDataAnswer, TakesAnswer, SetLogging, ClearFinished, WakeFinished,
         AnswerTimesOut, AnswerLost, ReadLogMessages, UpdateReader,
         ReaderTerminated, OnlyReader, ReaderKeeps, UpdateLogger,
         LoggerTerminated
    <3>3. QED
      BY <3>1, <3>2, KeptOrdered
  <2>3. QED
    BY <2>1, <2>2
<1>2. ASSUME NEW level \in Levels, Log(level) PROVE Ordered(q)'
  BY <1>2, LogOrdered
<1>3. CASE AddCategoryTable \/ UNCHANGED logVars
  <2>1. Kept(q) /\ logs' = logs
    BY <1>3 DEF AddCategoryTable, LoggerKeeps, logVars, Kept
  <2>2. QED
    BY <2>1, KeptOrdered
<1>4. QED
  BY <1>1, <1>2, <1>3 DEF LoggingNext

\* The order is kept in every behaviour.
THEOREM OrderedInductive == LoggingSpec => [](\A r \in Readers : Ordered(r))
<1>1. LoggingInit => \A r \in Readers : Ordered(r)
  BY DEF LoggingInit, NoReader, Ordered
<1>2. /\ Typed /\ (\A r \in Readers : Ordered(r)) /\ [LoggingNext]_logVars
      => (\A r \in Readers : Ordered(r))'
  BY NextOrdered
<1>3. QED
  BY <1>1, <1>2, TypedInductive, PTL DEF LoggingSpec

\* A tool gets the messages that passed its filter in their order and each once
\* (loggingServer.cpp:460-498).
THEOREM MessagesInOrder == LoggingSpec => []LogsInOrder
<1>1. Typed /\ (\A r \in Readers : Ordered(r)) => LogsInOrder
  <2> SUFFICES ASSUME Typed, NEW r \in Readers, Ordered(r), reader[r].connected
               PROVE  LET had == gathered[r] \o reader[r].messages
                          coming == toReader[r] \o loggers[r].messages
                          found == {i \in DOMAIN coming :
                                      coming[i].command = "LogMessage"}
                      IN  /\ \A i, j \in DOMAIN had : i < j => had[i] < had[j]
                          /\ \A i, j \in found : i < j => coming[i].n < coming[j].n
                          /\ \A i \in DOMAIN had, j \in found :
                               had[i] < coming[j].n
                          /\ loggers[r].open /\ ~reader[r].failed =>
                               {given[r][i] : i \in DOMAIN given[r]} =
                                 {had[i] : i \in DOMAIN had}
                                   \cup {coming[i].n : i \in found}
    BY DEF LogsInOrder
  <2> DEFINE h == gathered[r] \o reader[r].messages
             q == toReader[r] \o loggers[r].messages
             g == given[r]
  <2>1. h \in Seq(Nat) /\ q \in Seq(LogPayloads) /\ g \in Seq(Nat)
    BY OrderedTyped DEF Had, ComingLog
  <2>2. /\ Rising(h, q, logs)
        /\ loggers[r].open /\ ~reader[r].failed => Whole(g, h, q)
    BY DEF Ordered, Had, ComingLog
  <2> HIDE DEF h, q, g
  <2>3. DOMAIN h = 1..Len(h) /\ DOMAIN q = 1..Len(q) /\ DOMAIN g = 1..Len(g)
    BY <2>1
  <2> DEFINE found == {i \in DOMAIN q : q[i].command = "LogMessage"}
  <2>4. found = Found(q)
    BY <2>3 DEF Found
  <2> HIDE DEF found
  <2>5. /\ \A i, j \in DOMAIN h : i < j => h[i] < h[j]
        /\ \A i, j \in found : i < j => q[i].n < q[j].n
        /\ \A i \in DOMAIN h, j \in found : h[i] < q[j].n
    BY <2>2, <2>3, <2>4 DEF Rising
  <2>6. loggers[r].open /\ ~reader[r].failed =>
          {g[i] : i \in DOMAIN g} =
            {h[i] : i \in DOMAIN h} \cup {q[i].n : i \in found}
    BY <2>2, <2>3, <2>4 DEF Whole, Contents, Carried
  <2>7. QED
    BY <2>5, <2>6 DEF h, q, g, found
<1>2. QED
  BY <1>1, TypedInductive, OrderedInductive, PTL
=============================================================================
