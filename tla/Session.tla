------------------------------ MODULE Session ------------------------------
(***************************************************************************)
(* A session of the message bus (src/session.h, src/session.cpp): one      *)
(* end of a reliable, ordered, message-oriented stream run over a channel  *)
(* of datagrams.  A session is a record; every method of the class is an   *)
(* operator from a session (and a message) to the session after the call.  *)
(* Whatever the call hands to IMsgChannel::Forward is appended to the      *)
(* field "out", which the session manager drains into the network.         *)
(*                                                                         *)
(* Data is abstracted: the payload of the i-th message a protocol sends    *)
(* on a session is the number i.  Clocks are abstracted: how many of the   *)
(* unacknowledged messages have timed out is a parameter of the update.    *)
(***************************************************************************)
EXTENDS Integers, Sequences

CONSTANTS
  SessionIds,                   \* the session ids the two managers generate
  InvalidSessionId,             \* kInvalidSessionId
  WindowSize,                   \* kDefaultWindowSize, 128 in the code
  MaxRetransmits,               \* kMaxRetransmits, 5 in the code
  FastRetransmitThreshold,      \* kFastRetransmitThreshold, 3 in the code
  MaxUnacknowledgedThreshold    \* kMaxUnacknowledgedThreshold, 5 in the code

ASSUME WindowAssumption ==
  /\ WindowSize \in Nat \ {0}
  /\ MaxRetransmits \in Nat
  /\ FastRetransmitThreshold \in Nat
  /\ MaxUnacknowledgedThreshold \in Nat

Ids == SessionIds \cup {InvalidSessionId}

SessionStates == {"Closed", "Listening", "SynSent", "SynReceived",
                  "Established", "FinWait1", "Closing", "FinWait2"}

\* The states that compare >= Established in the enumeration.
Open == {"Established", "FinWait1", "Closing", "FinWait2"}

\* "Unknown" is message id 0, what a slot no message was written to holds.
MessageTypes == {"Unknown", "Syn", "SynAck", "Fin", "Data", "Ack", "Rst"}

Reasons == {"Success", "Error", "NotReady", "Reset"}

\* A message as a window keeps it: without the window size, which every
\* transmission rewrites.  For a SynAck, data is the acknowledged sequence.
Slots == [type : MessageTypes, sessionId : Ids, seq : Nat, data : Nat]

Messages == [type : MessageTypes, sessionId : Ids, seq : Nat, data : Nat,
             win : Nat]

Blank == [type |-> "Unknown", sessionId |-> InvalidSessionId,
          seq |-> 0, data |-> 0]

Index == 0 .. (WindowSize - 1)

\* The slot of the ring that a sequence number maps to.
Slot(seq) == seq % WindowSize

Least(S) == CHOOSE x \in S : \A y \in S : x <= y

\* Where a scan from "from" stops: at the first number not in S, or at limit.
ScanEnd(S, from, limit) == Least(((from .. limit) \ S) \cup {limit})

MaxAdvertizedSize == WindowSize - (WindowSize \div 2)

NewSendWindow ==
  [messages           |-> [i \in Index |-> Blank],
   valid              |-> [i \in Index |-> FALSE],
   semaphore          |-> WindowSize,
   nextSequence       |-> 1,
   nextUnacknowledged |-> 1,
   lastSent           |-> 0,
   lastAckCount       |-> 0,
   retransmitCount    |-> 0,
   lastAvailableSize  |-> 1]

NewReceiveWindow ==
  [messages             |-> [i \in Index |-> Blank],
   valid                |-> [i \in Index |-> FALSE],
   semaphore            |-> 0,
   nextUnread           |-> 1,
   nextExpected         |-> 1,
   lastUnacknowledged   |-> 1,
   currentAvailableSize |-> MaxAdvertizedSize]

NewSession ==
  [state     |-> "Closed",
   reason    |-> "Success",
   owner     |-> FALSE,
   linkUp    |-> TRUE,
   sessionId |-> InvalidSessionId,
   snd       |-> NewSendWindow,
   rcv       |-> NewReceiveWindow,
   out       |-> << >>]

-----------------------------------------------------------------------------
(* State changes and transmission.                                         *)

SetState(s, state) == [s EXCEPT !.state = state]

Shutdown(s, reason) ==
  LET t == [s EXCEPT !.reason = reason]
  IN  CASE s.state = "Established" /\ reason = "Success" -> SetState(t, "FinWait1")
        [] s.state \in Open \ {"Established"} /\ reason = "Success" -> t
        [] OTHER -> SetState(t, "Closed")

Orphan(s) == [s EXCEPT !.owner = FALSE]

Close(s, reason) == Shutdown(Orphan(s), reason)

\* A slot on its way out: the window size field is written at that moment.
Stamp(s, slot) ==
  [type |-> slot.type, sessionId |-> slot.sessionId, seq |-> slot.seq,
   data |-> slot.data, win |-> s.rcv.currentAvailableSize]

SendOrClose(s, slot) ==
  IF s.linkUp THEN [s EXCEPT !.out = Append(@, Stamp(s, slot))]
              ELSE Shutdown(s, "Error")

NewSlot(s, type, seq, data) ==
  [type |-> type, sessionId |-> s.sessionId, seq |-> seq, data |-> data]

\* Mutant: a full window is advertised as 0.
CurrentWindowSizeUnclamped(r) ==
  MaxAdvertizedSize - (r.nextExpected - r.nextUnread)

CurrentWindowSize(r) ==
  LET room == MaxAdvertizedSize - (r.nextExpected - r.nextUnread)
  IN  IF room > 1 THEN room ELSE 1

\* Mutant: acknowledges the next expected message.
SendAckMessageOffByOne(s) ==
  LET t == [s EXCEPT !.rcv.lastUnacknowledged = s.rcv.nextExpected,
                     !.rcv.currentAvailableSize = CurrentWindowSize(s.rcv)]
  IN  SendOrClose(t, NewSlot(t, "Ack", t.rcv.nextExpected, 0))

SendAckMessage(s) ==
  LET t == [s EXCEPT !.rcv.lastUnacknowledged = s.rcv.nextExpected,
                     !.rcv.currentAvailableSize = CurrentWindowSize(s.rcv)]
  IN  SendOrClose(t, NewSlot(t, "Ack", t.rcv.nextExpected - 1, 0))

-----------------------------------------------------------------------------
(* The two windows.                                                        *)

\* The sequence numbers whose message the send window still holds.
Held(w) == {q \in w.nextUnacknowledged .. w.lastSent :
              w.valid[Slot(q)] /\ w.messages[Slot(q)].seq = q}

\* Frees the acknowledged prefix of the window; an acknowledgement that
\* frees nothing counts as a duplicate and may trigger a fast retransmit.
MarkMessagesAsAcknowledged(s, seq) ==
  LET w    == s.snd
      top  == IF seq < w.lastSent THEN seq ELSE w.lastSent
      next == IF top < w.nextUnacknowledged THEN w.nextUnacknowledged
              ELSE ScanEnd(Held(w), w.nextUnacknowledged, top + 1)
      freed == {Slot(q) : q \in w.nextUnacknowledged .. (next - 1)}
      dups  == w.lastAckCount + 1
      retransmitted ==
        w.messages[Slot(w.nextUnacknowledged + dups - FastRetransmitThreshold)]
      counted == [s EXCEPT !.snd.lastAckCount = dups]
      resent  == SendOrClose(counted, retransmitted)
  IN  CASE next > w.nextUnacknowledged ->
             [s EXCEPT !.snd.valid = [i \in Index |-> w.valid[i] /\ i \notin freed],
                       !.snd.semaphore = @ + (next - w.nextUnacknowledged),
                       !.snd.retransmitCount = 0,
                       !.snd.nextUnacknowledged = next,
                       !.snd.lastAckCount = 0]
        [] next = w.nextUnacknowledged /\ dups < FastRetransmitThreshold -> counted
        [] OTHER ->
             IF s.linkUp THEN [resent EXCEPT !.snd.retransmitCount = 0] ELSE resent

\* Mutant: skips the gap before a message that arrived early.
ReceivedWithGaps(r) ==
  {q \in r.nextExpected .. (r.nextUnread + WindowSize - 1) :
     \E p \in q .. (r.nextUnread + WindowSize - 1) : r.valid[Slot(p)]}

\* The sequence numbers of the receive window that have a message.
Received(r) == {q \in r.nextExpected .. (r.nextUnread + WindowSize - 1) :
                  r.valid[Slot(q)]}

WriteMessageIntoReceiveWindow(s, m) ==
  LET r == s.rcv
      pendingAck == r.nextExpected > r.lastUnacknowledged
      written ==
        [r EXCEPT !.messages[Slot(m.seq)] =
                     [type |-> m.type, sessionId |-> m.sessionId,
                      seq |-> m.seq, data |-> m.data],
                  !.valid[Slot(m.seq)] = TRUE]
      next == ScanEnd(Received(written), r.nextExpected, r.nextUnread + WindowSize)
      t == [s EXCEPT !.rcv = [written EXCEPT
                                !.nextExpected = next,
                                !.semaphore = @ + (next - r.nextExpected)]]
  IN  CASE m.seq < r.nextExpected -> SendAckMessage(s)
        [] m.seq >= r.nextUnread + WindowSize -> s
        [] OTHER ->
             IF pendingAck /\ next - r.lastUnacknowledged >= MaxUnacknowledgedThreshold
               THEN SendAckMessage(t) ELSE t

\* The call waits on the semaphore; its callers below decide what an empty
\* semaphore means to them.
WriteMessageIntoSendWindow(s, type, data) ==
  LET seq == s.snd.nextSequence
  IN  [s EXCEPT !.snd.semaphore = @ - 1,
                !.snd.nextSequence = seq + 1,
                !.snd.messages[Slot(seq)] = NewSlot(s, type, seq, data),
                !.snd.valid[Slot(seq)] = TRUE]

StartReceiving(s, seq) ==
  [s EXCEPT !.rcv.nextUnread = seq + 1,
            !.rcv.nextExpected = seq + 1,
            !.rcv.lastUnacknowledged = seq + 1,
            !.rcv.currentAvailableSize = MaxAdvertizedSize]

\* Mutant: ignores the window the peer advertises.
UpdateSendWindowSizeNever(s, m) == s

UpdateSendWindowSize(s, m) == [s EXCEPT !.snd.lastAvailableSize = m.win]

\* Mutant: compares with the next sequence number to write.
IsSendWindowEmptyOffByOne(w) ==
  /\ w.nextUnacknowledged > w.nextSequence
  /\ w.lastSent + 1 = w.nextSequence

IsSendWindowEmpty(w) ==
  /\ w.nextUnacknowledged > w.lastSent
  /\ w.lastSent + 1 = w.nextSequence

-----------------------------------------------------------------------------
(* Establishing a session.                                                 *)

Connect(s, sessionId) ==
  LET t == [s EXCEPT !.owner = TRUE, !.sessionId = sessionId]
  IN  SetState(WriteMessageIntoSendWindow(t, "Syn", 0), "SynSent")

BindToServer(s, sessionId) ==
  SetState([s EXCEPT !.owner = TRUE, !.sessionId = sessionId], "Listening")

\* Mutant: does not wait for the Ack of the SynAck.
HandleSynMessageAtOnce(s, m) ==
  StartReceiving(
    SetState(WriteMessageIntoSendWindow(s, "SynAck", m.seq), "Established"),
    m.seq)

\* Only ever handed to the session just bound, whose send window is empty.
HandleSynMessage(s, m) ==
  StartReceiving(
    SetState(WriteMessageIntoSendWindow(s, "SynAck", m.seq), "SynReceived"),
    m.seq)

HandleSynAckMessage(s, m) ==
  LET marked == MarkMessagesAsAcknowledged(s, m.data)
      t == [SetState(marked, "Established") EXCEPT !.sessionId = m.sessionId]
  IN  UpdateSendWindowSize(
        CASE s.state \in Open -> MarkMessagesAsAcknowledged(s, m.seq)
          [] s.state = "SynSent" -> SendAckMessage(StartReceiving(t, m.seq))
          [] OTHER -> s,
        m)

-----------------------------------------------------------------------------
(* Messages of an established session.                                     *)

HandleFinMessage(s, m) ==
  LET t == WriteMessageIntoReceiveWindow(s, m)
  IN  UpdateSendWindowSize(
        CASE s.state \notin {"Closing", "FinWait2"} ->
               [SetState(t, "Closing") EXCEPT !.reason = "Success"]
          [] s.state = "FinWait2" ->
               [SetState(SendAckMessage(t), "Closed") EXCEPT !.reason = "Success"]
          [] OTHER -> s,
        m)

HandleDataMessage(s, m) ==
  UpdateSendWindowSize(
    IF s.state \in Open \ {"Closing"} THEN WriteMessageIntoReceiveWindow(s, m)
                                      ELSE s,
    m)

HandleAckMessage(s, m) ==
  UpdateSendWindowSize(
    CASE s.state = "SynReceived" ->
           MarkMessagesAsAcknowledged(SetState(s, "Established"), m.seq)
      [] s.state \in Open -> MarkMessagesAsAcknowledged(s, m.seq)
      [] OTHER -> s,
    m)

HandleRstMessage(s, m) == UpdateSendWindowSize(Shutdown(s, "Reset"), m)

HandleMessage(s, m) ==
  LET t == CASE m.type = "Syn"    -> HandleSynMessage(s, m)
             [] m.type = "SynAck" -> HandleSynAckMessage(s, m)
             [] m.type = "Fin"    -> HandleFinMessage(s, m)
             [] m.type = "Data"   -> HandleDataMessage(s, m)
             [] m.type = "Ack"    -> HandleAckMessage(s, m)
             [] m.type = "Rst"    -> HandleRstMessage(s, m)
             [] OTHER -> s
  IN  IF s.state # "Established" /\ t.state = "Established" /\ ~t.owner
        THEN Shutdown(t, "Error") ELSE t

-----------------------------------------------------------------------------
(* The periodic update, run by the thread that also handles messages.      *)

UpdateReceiveWindow(s) ==
  IF s.rcv.nextExpected > s.rcv.lastUnacknowledged THEN SendAckMessage(s) ELSE s

\* How many messages are in flight, and how many may be sent for the first
\* time now.
InFlight(w) == w.lastSent + 1 - w.nextUnacknowledged

Sendable(w) ==
  LET unsent == w.nextSequence - 1 - w.lastSent
  IN  IF unsent < w.lastAvailableSize THEN unsent ELSE w.lastAvailableSize

\* n messages of the window, from sequence number "first" on.
Transmission(s, first, n) ==
  [i \in 1 .. n |-> Stamp(s, s.snd.messages[Slot(first + i - 1)])]

\* Mutant: retransmits without a limit.
RetransmitForever(s, k) ==
  IF k = 0 \/ ~s.linkUp THEN s
  ELSE [s EXCEPT !.out = @ \o Transmission(s, s.snd.nextUnacknowledged, k)]

\* Retransmits the first k of the messages in flight: those that timed out.
Retransmit(s, k) ==
  CASE InFlight(s.snd) = 0 -> s
    [] InFlight(s.snd) > 0 /\ s.snd.retransmitCount > MaxRetransmits ->
         Shutdown(s, "NotReady")
    [] OTHER ->
         CASE k = 0 -> s
           [] k > 0 /\ ~s.linkUp -> Shutdown(s, "Error")
           [] OTHER ->
                [s EXCEPT !.out = @ \o Transmission(s, s.snd.nextUnacknowledged, k),
                          !.snd.retransmitCount = @ + 1]

\* Transmits the next n messages for the first time.
Transmit(s, n) ==
  CASE n = 0 -> s
    [] n > 0 /\ ~s.linkUp -> Shutdown(s, "Error")
    [] OTHER ->
         [s EXCEPT !.out = @ \o Transmission(s, s.snd.lastSent + 1, n),
                   !.snd.lastSent = @ + n,
                   !.snd.lastAvailableSize = @ - n]

UpdateSendWindow(s, k, n) == Transmit(Retransmit(s, k), n)

\* The write of the Fin waits for a free slot with an infinite timeout.
FinBlocks(s) == s.state = "FinWait1" /\ s.snd.semaphore = 0

\* Mutant: stays in FinWait1 once the Fin is written.
UpdateTimeoutWithoutFinWait2(s) ==
  IF s.state = "FinWait1" THEN WriteMessageIntoSendWindow(s, "Fin", 0) ELSE s

UpdateTimeout(s) ==
  LET t == IF s.state = "FinWait1"
             THEN SetState(WriteMessageIntoSendWindow(s, "Fin", 0), "FinWait2")
             ELSE s
      finIsNext == /\ s.rcv.nextUnread < s.rcv.nextExpected
                   /\ s.rcv.messages[Slot(s.rcv.nextUnread)].type = "Fin"
      done == \/ t.state = "FinWait2" /\ IsSendWindowEmpty(t.snd)
              \/ t.state = "Closing" /\ finIsNext
  IN  IF done THEN SetState(t, "Closed") ELSE t

\* The end of Update: an open session that lost its owner is shut down, a
\* closed one tells its owner and forgets it.
NotifyOwner(s) ==
  LET t == IF s.state \in Open /\ ~s.owner THEN Shutdown(s, "Error") ELSE s
  IN  IF t.state = "Closed" THEN Orphan(t) ELSE t

-----------------------------------------------------------------------------
(* Calls of the protocol that owns the session.                            *)

\* Mutants: no wait for a free slot; no check that the Fin is not yet written.
CanSendWhenFull(s) == s.state \notin {"Closed", "FinWait2"}

CanSendAfterFin(s) == s.state # "Closed" /\ s.snd.semaphore > 0

CanSend(s) == s.state \notin {"Closed", "FinWait2"} /\ s.snd.semaphore > 0

CanReceive(s) == s.state \in Open /\ s.rcv.semaphore > 0

NextUnread(s) == s.rcv.messages[Slot(s.rcv.nextUnread)]

\* Mutant: leaves the slot that was read valid.
ReceiveLeavesValid(s) ==
  LET r == [s.rcv EXCEPT !.semaphore = @ - 1, !.nextUnread = @ + 1]
      t == [s EXCEPT !.rcv = [r EXCEPT !.currentAvailableSize = CurrentWindowSize(r)]]
  IN  IF NextUnread(s).type = "Data" THEN t ELSE SetState(t, "Closed")

\* Takes the next message out of the window; a Fin ends the stream.
Receive(s) ==
  LET r == [s.rcv EXCEPT !.semaphore = @ - 1,
                         !.valid[Slot(s.rcv.nextUnread)] = FALSE,
                         !.nextUnread = @ + 1]
      t == [s EXCEPT !.rcv = [r EXCEPT !.currentAvailableSize = CurrentWindowSize(r)]]
  IN  IF NextUnread(s).type = "Data" THEN t ELSE SetState(t, "Closed")

=============================================================================
