---------------------------- MODULE SessionProofs ----------------------------
(***************************************************************************)
(* Proofs about SessionManager: for every window size, every number of     *)
(* messages and faults, the windows of every session stay intact.          *)
(*                                                                         *)
(* Then about the two ends of a session together: whatever is lost,        *)
(* repeated or torn down, SessionManager implements the stream of          *)
(* SessionStream, an acknowledged message was received, one session of the *)
(* server is established at most, and none once its manager is being       *)
(* destroyed.                                                              *)
(***************************************************************************)
EXTENDS SessionManager, TLAPS, WellFoundedInduction

-----------------------------------------------------------------------------
(* Arithmetic: least elements, and the slots of the ring.                  *)

NatLess == OpToRel(<, Nat)

\* The order of the natural numbers as a set of pairs.
LEMMA NatLessDef == \A x, y \in Nat : x < y => <<x, y>> \in NatLess
BY Zenon DEF NatLess, OpToRel

\* There is no infinite descent in it.
LEMMA NatLessWF == IsWellFoundedOn(NatLess, Nat)
BY NatLessThanWellFounded, Zenon DEF NatLess

\* Every nonempty set of natural numbers has a least element.
LEMMA LeastNat ==
  ASSUME NEW T, T \subseteq Nat, T # {}
  PROVE  Least(T) \in T /\ \A y \in T : Least(T) <= y
<1>1. \E x \in T : \A y \in T : ~ (<<y, x>> \in NatLess)
  BY NatLessWF, WFMin, Zenon
<1>2. PICK x \in T : \A y \in T : ~ (<<y, x>> \in NatLess)
  BY <1>1
<1>3. ASSUME NEW y \in T PROVE ~(y < x)
  BY <1>2, NatLessDef, Zenon
<1>4. \A y \in T : x <= y
  BY <1>3
<1>5. QED
  BY <1>4, Zenon DEF Least

\* A scan stops within its bounds, and everything before it is in the set.
LEMMA ScanEndBounds ==
  ASSUME NEW S, NEW from \in Nat, NEW limit \in Nat, from <= limit
  PROVE  /\ ScanEnd(S, from, limit) \in from .. limit
         /\ \A q \in from .. (ScanEnd(S, from, limit) - 1) : q \in S
<1> DEFINE T == ((from .. limit) \ S) \cup {limit}
<1>1. T \subseteq Nat /\ T # {}
  OBVIOUS
<1>2. Least(T) \in T /\ \A y \in T : Least(T) <= y
  BY <1>1, LeastNat
<1>3. T \subseteq from .. limit
  OBVIOUS
<1>4. ScanEnd(S, from, limit) = Least(T)
  BY DEF ScanEnd
<1>5. ASSUME NEW q \in from .. (Least(T) - 1)  PROVE q \in S
  <2>1. ~(Least(T) <= q) /\ q \in from .. limit
    BY <1>2, <1>3
  <2>2. QED
    BY <2>1, <1>2
<1>6. QED
  BY <1>2, <1>3, <1>4, <1>5

\* A number is its quotient by the window size, and a remainder.
LEMMA Quotient ==
  ASSUME NEW a \in Nat
  PROVE  a = WindowSize * (a \div WindowSize) + (a % WindowSize) /\ a \div WindowSize \in Nat
BY WindowAssumption

\* Nothing but 0 is a multiple of the window size less than it.
LEMMA NoSmallMultiple ==
  ASSUME NEW k \in Int, NEW d \in Int, d = WindowSize * k, 0 <= d, d < WindowSize
  PROVE  d = 0
BY WindowAssumption

\* The one nonlinear fact the solver is not given by itself.
LEMMA Distributive ==
  ASSUME NEW x \in Int, NEW y \in Int, NEW w \in Int
  PROVE  w * (x - y) = w * x - w * y
OBVIOUS

\* Two sequence numbers less than a window apart have different slots.
LEMMA SlotsDiffer ==
  ASSUME NEW a \in Nat, NEW b \in Nat, a < b, b - a < WindowSize
  PROVE  Slot(a) # Slot(b)
<1> DEFINE x == a \div WindowSize
           y == b \div WindowSize
<1>1. a = WindowSize * x + (a % WindowSize) /\ x \in Nat
  BY Quotient
<1>2. b = WindowSize * y + (b % WindowSize) /\ y \in Nat
  BY Quotient
<1>3. a % WindowSize \in Int /\ b % WindowSize \in Int
  BY WindowAssumption
<1> HIDE DEF x, y
<1>4. WindowSize * x \in Int /\ WindowSize * y \in Int
  BY <1>1, <1>2, WindowAssumption
<1>5. WindowSize * (y - x) = WindowSize * y - WindowSize * x
  BY Distributive, WindowAssumption, <1>1, <1>2
<1>6. ASSUME a % WindowSize = b % WindowSize PROVE FALSE
  <2>1. b - a = WindowSize * (y - x)
    BY <1>1, <1>2, <1>3, <1>4, <1>5, <1>6
  <2>2. b - a = 0
    BY <2>1, <1>1, <1>2, NoSmallMultiple
  <2>3. QED
    BY <2>2
<1>7. QED
  BY <1>6 DEF Slot

\* Every sequence number has a slot in the ring.
LEMMA SlotInIndex == ASSUME NEW q \in Int PROVE Slot(q) \in Index
BY WindowAssumption DEF Slot, Index

\* A window later, the slot comes round again.
LEMMA SlotsRepeat ==
  ASSUME NEW q \in Nat
  PROVE  Slot(q + WindowSize) = Slot(q)
<1> DEFINE p == q + WindowSize
           x == q \div WindowSize
           y == p \div WindowSize
           i == q % WindowSize
           j == p % WindowSize
<1>0. p \in Nat /\ p = q + WindowSize
  BY WindowAssumption
<1>1. q = WindowSize * x + i /\ x \in Nat
  BY Quotient
<1>2. p = WindowSize * y + j /\ y \in Nat
  BY Quotient, <1>0
<1>3. i \in 0 .. (WindowSize - 1) /\ j \in 0 .. (WindowSize - 1)
  BY WindowAssumption, <1>0
<1> HIDE DEF p, x, y, i, j
<1>4. WindowSize * x \in Int /\ WindowSize * y \in Int /\ WindowSize \in Int
  BY <1>1, <1>2, WindowAssumption
<1>5. WindowSize * ((y - x) - 1) = WindowSize * y - WindowSize * x - WindowSize
  <2>1. WindowSize * ((y - x) - 1) = WindowSize * (y - x) - WindowSize * 1
    BY Distributive, <1>1, <1>2, <1>4
  <2>2. WindowSize * (y - x) = WindowSize * y - WindowSize * x
    BY Distributive, <1>1, <1>2, <1>4
  <2>3. QED
    BY <2>1, <2>2, <1>4
<1>6. WindowSize * ((x + 1) - y) = WindowSize * x + WindowSize - WindowSize * y
  <2>1. WindowSize * ((x - y) - (-1)) = WindowSize * (x - y) - WindowSize * (-1)
    BY Distributive, <1>1, <1>2, <1>4
  <2>2. WindowSize * (x - y) = WindowSize * x - WindowSize * y
    BY Distributive, <1>1, <1>2, <1>4
  <2>3. (x - y) - (-1) = (x + 1) - y
    BY <1>1, <1>2
  <2>4. QED
    BY <2>1, <2>2, <2>3, <1>4
<1> DEFINE k == (y - x) - 1
           l == (x + 1) - y
           d == i - j
           f == j - i
<1>7. /\ d = WindowSize * k /\ f = WindowSize * l
      /\ k \in Int /\ l \in Int /\ d \in Int /\ f \in Int
      /\ d < WindowSize /\ f < WindowSize /\ (0 <= d \/ 0 <= f)
      /\ (d = 0 => i = j) /\ (f = 0 => i = j)
  BY <1>0, <1>1, <1>2, <1>3, <1>4, <1>5, <1>6
<1>8. i = j
  <2> HIDE DEF k, l, d, f
  <2>1. CASE 0 <= d
    BY <2>1, <1>7, NoSmallMultiple
  <2>2. CASE 0 <= f
    BY <2>2, <1>7, NoSmallMultiple
  <2>3. QED
    BY <2>1, <2>2, <1>7
<1>9. QED
  BY <1>8 DEF Slot, i, j, p

-----------------------------------------------------------------------------
(* Sessions in the middle of a call, and the calls that keep them sound.   *)

Calls == [state : SessionStates, reason : Reasons, owner : BOOLEAN,
          linkUp : BOOLEAN, sessionId : Ids, snd : SendWindows,
          rcv : ReceiveWindows, out : Seq(Messages)]

Sound(s) == /\ s \in Calls
            /\ SendWindowIntact(s.snd)
            /\ ReadWindowIntact(s.rcv)

\* A change of state leaves both windows alone.
LEMMA SetStateSound ==
  ASSUME NEW s, Sound(s), NEW state \in SessionStates
  PROVE  /\ Sound(SetState(s, state))
         /\ SetState(s, state).state = state
         /\ SetState(s, state).snd = s.snd
         /\ SetState(s, state).rcv = s.rcv
BY DEF Sound, Calls, SetState

\* Shutdown leaves both windows alone, and enters no open state but FinWait1.
LEMMA ShutdownSound ==
  ASSUME NEW s, Sound(s), NEW reason \in Reasons
  PROVE  LET t == Shutdown(s, reason)
         IN  /\ Sound(t)
             /\ t.snd = s.snd /\ t.rcv = s.rcv
             /\ t.out = s.out
             /\ t.state \in {s.state, "Closed", "FinWait1"}
             /\ t.state = "FinWait1" => s.state \in {"Established", "FinWait1"}
             /\ s.state \notin Open => t.state = "Closed"
             /\ reason # "Success" => t.state = "Closed"
BY DEF Sound, Calls, Shutdown, SetState, SessionStates, Open

\* A slot on its way out is a message: the advertised size is a number.
LEMMA StampIsMessage ==
  ASSUME NEW s, Sound(s), NEW slot \in Slots
  PROVE  Stamp(s, slot) \in Messages
BY WindowAssumption DEF Sound, Calls, Stamp, Slots, Messages, ReceiveWindows

\* A transmission leaves both windows alone, and closes the session if it fails.
LEMMA SendOrCloseSound ==
  ASSUME NEW s, Sound(s), NEW slot \in Slots
  PROVE  LET t == SendOrClose(s, slot)
         IN  /\ Sound(t)
             /\ t.snd = s.snd /\ t.rcv = s.rcv
             /\ t.state \in {s.state, "Closed"}
<1>1. Stamp(s, slot) \in Messages
  BY StampIsMessage
<1>2. CASE s.linkUp
  BY <1>1, <1>2 DEF Sound, Calls, SendOrClose
<1>3. CASE ~s.linkUp
  BY <1>3, ShutdownSound DEF SendOrClose, Reasons
<1>4. QED
  BY <1>2, <1>3

\* The advertised size is never 0 and never more than the window.
LEMMA CurrentWindowSizeRange ==
  ASSUME NEW r \in ReceiveWindows, ReadWindowIntact(r)
  PROVE  CurrentWindowSize(r) \in 1 .. WindowSize
BY WindowAssumption DEF CurrentWindowSize, MaxAdvertizedSize, ReceiveWindows, ReadWindowIntact

\* An acknowledgement moves no message of the receive window.
LEMMA SendAckMessageSound ==
  ASSUME NEW s, Sound(s)
  PROVE  LET t == SendAckMessage(s)
         IN  /\ Sound(t)
             /\ t.snd = s.snd
             /\ t.rcv.semaphore = s.rcv.semaphore
             /\ t.state \in {s.state, "Closed"}
<1> DEFINE u == [s EXCEPT !.rcv.lastUnacknowledged = s.rcv.nextExpected,
                          !.rcv.currentAvailableSize = CurrentWindowSize(s.rcv)]
<1> DEFINE r == [s.rcv EXCEPT !.lastUnacknowledged = s.rcv.nextExpected,
                               !.currentAvailableSize = CurrentWindowSize(s.rcv)]
<1>1. CurrentWindowSize(s.rcv) \in 1 .. WindowSize
  BY CurrentWindowSizeRange DEF Sound, Calls
<1>2. u = [s EXCEPT !.rcv = r]
  BY DEF Sound, Calls, ReceiveWindows
<1>3. /\ r \in ReceiveWindows
      /\ r.lastUnacknowledged = s.rcv.nextExpected
      /\ r.messages = s.rcv.messages /\ r.valid = s.rcv.valid
      /\ r.semaphore = s.rcv.semaphore
      /\ r.nextUnread = s.rcv.nextUnread /\ r.nextExpected = s.rcv.nextExpected
  BY <1>1 DEF Sound, Calls, ReceiveWindows
<1> HIDE DEF u, r
<1>4. ReadWindowIntact(r)
  BY <1>3 DEF Sound, Calls, ReadWindowIntact, ReceiveWindows
<1>a. /\ Sound(u) /\ u.snd = s.snd /\ u.state = s.state /\ u.rcv = r
      /\ u.rcv.semaphore = s.rcv.semaphore
  BY <1>2, <1>3, <1>4 DEF Sound, Calls
<1>5. NewSlot(u, "Ack", u.rcv.nextExpected - 1, 0) \in Slots
  <2>1. u.rcv.nextExpected - 1 \in Nat /\ u.sessionId \in Ids
    BY <1>a DEF Sound, Calls, ReceiveWindows
  <2>2. QED
    BY <2>1 DEF NewSlot, Slots, MessageTypes
<1> HIDE DEF u
<1>6. SendAckMessage(s) = SendOrClose(u, NewSlot(u, "Ack", u.rcv.nextExpected - 1, 0))
  BY DEF SendAckMessage, u
<1>7. QED
  BY <1>a, <1>5, <1>6, SendOrCloseSound

\* Freeing the acknowledged prefix keeps the rest of the send window in place.
LEMMA MarkSound ==
  ASSUME NEW s, Sound(s), NEW seq \in Nat
  PROVE  LET t == MarkMessagesAsAcknowledged(s, seq)
         IN  /\ Sound(t)
             /\ t.snd.nextSequence = s.snd.nextSequence
             /\ t.rcv = s.rcv
             /\ t.state \in {s.state, "Closed"}
<1> DEFINE w == s.snd
           top == IF seq < w.lastSent THEN seq ELSE w.lastSent
           next == IF top < w.nextUnacknowledged THEN w.nextUnacknowledged
                   ELSE ScanEnd(Held(w), w.nextUnacknowledged, top + 1)
           freed == {Slot(q) : q \in w.nextUnacknowledged .. (next - 1)}
           dups == w.lastAckCount + 1
           again == w.messages[Slot(w.nextUnacknowledged + dups - FastRetransmitThreshold)]
           counted == [s EXCEPT !.snd.lastAckCount = dups]
           resent == SendOrClose(counted, again)
           shrunk == [s EXCEPT !.snd.valid = [i \in Index |-> w.valid[i] /\ i \notin freed],
                               !.snd.semaphore = @ + (next - w.nextUnacknowledged),
                               !.snd.retransmitCount = 0,
                               !.snd.nextUnacknowledged = next,
                               !.snd.lastAckCount = 0]
<1>1. /\ w \in SendWindows /\ SendWindowIntact(w) /\ s \in Calls
      /\ w.nextUnacknowledged \in Nat \ {0} /\ w.lastSent \in Nat
      /\ w.nextSequence \in Nat \ {0} /\ w.lastAckCount \in Nat
      /\ w.semaphore \in 0 .. WindowSize
  BY DEF Sound, Calls, SendWindows
<1>2. top \in Nat /\ top <= w.lastSent
  BY <1>1
<1>3. next \in Nat /\ w.nextUnacknowledged <= next /\ next <= w.lastSent + 1
  <2>1. CASE top < w.nextUnacknowledged
    BY <2>1, <1>1, <1>2 DEF SendWindowIntact
  <2>2. CASE ~(top < w.nextUnacknowledged)
    <3>1. ScanEnd(Held(w), w.nextUnacknowledged, top + 1) \in w.nextUnacknowledged .. (top + 1)
      BY <2>2, <1>1, <1>2, ScanEndBounds
    <3>2. QED
      BY <3>1, <2>2, <1>1, <1>2
  <2>3. QED
    BY <2>1, <2>2
<1>4. MarkMessagesAsAcknowledged(s, seq) =
        CASE next > w.nextUnacknowledged -> shrunk
          [] next = w.nextUnacknowledged /\ dups < FastRetransmitThreshold -> counted
          [] OTHER -> IF s.linkUp THEN [resent EXCEPT !.snd.retransmitCount = 0]
                                  ELSE resent
  BY DEF MarkMessagesAsAcknowledged
<1> HIDE DEF top, next, freed
<1>5. CASE next > w.nextUnacknowledged
  <2> DEFINE v == [w EXCEPT !.valid = [i \in Index |-> w.valid[i] /\ i \notin freed],
                            !.semaphore = @ + (next - w.nextUnacknowledged),
                            !.retransmitCount = 0,
                            !.nextUnacknowledged = next,
                            !.lastAckCount = 0]
  <2>0. shrunk = [s EXCEPT !.snd = v]
    BY <1>1 DEF Calls, SendWindows
  <2>1. v \in SendWindows /\ v.nextUnacknowledged = next /\ v.lastSent = w.lastSent
        /\ v.nextSequence = w.nextSequence /\ v.messages = w.messages
        /\ v.semaphore = w.semaphore + (next - w.nextUnacknowledged)
        /\ v.valid = [i \in Index |-> w.valid[i] /\ i \notin freed]
    <3>1. w.semaphore + (next - w.nextUnacknowledged) \in 0 .. WindowSize
      BY <1>1, <1>3, WindowAssumption DEF SendWindowIntact
    <3>2. \A i \in Index : (w.valid[i] /\ i \notin freed) \in BOOLEAN
      OBVIOUS
    <3>3. next \in Nat \ {0}
      BY <1>1, <1>3
    <3>4. QED
      BY <1>1, <3>1, <3>2, <3>3 DEF SendWindows
  <2> HIDE DEF v
  <2>2. \A i \in Index : v.valid[i] <=>
            \E q \in next .. (w.nextSequence - 1) : Slot(q) = i
    <3> SUFFICES ASSUME NEW i \in Index
                 PROVE  (w.valid[i] /\ i \notin freed)
                        <=> \E q \in next .. (w.nextSequence - 1) : Slot(q) = i
      BY <2>1
    <3>1. ASSUME w.valid[i], i \notin freed
          PROVE  \E q \in next .. (w.nextSequence - 1) : Slot(q) = i
      BY <3>1, <1>1, <1>3 DEF SendWindowIntact, freed
    <3>2. ASSUME NEW q \in next .. (w.nextSequence - 1), Slot(q) = i
          PROVE  w.valid[i] /\ i \notin freed
      <4>1. w.valid[i]
        BY <3>2, <1>1, <1>3 DEF SendWindowIntact
      <4>2. ASSUME NEW p \in w.nextUnacknowledged .. (next - 1), Slot(p) = i
            PROVE  FALSE
        <5>1. p \in Nat /\ q \in Nat /\ p < q /\ q - p < WindowSize
          BY <1>1, <1>3, WindowAssumption DEF SendWindowIntact
        <5>2. QED
          BY <5>1, <4>2, <3>2, SlotsDiffer
      <4>3. QED
        BY <4>1, <4>2 DEF freed
    <3>3. QED
      BY <3>1, <3>2
  <2>3. SendWindowIntact(v)
    BY <2>1, <2>2, <1>1, <1>3, WindowAssumption DEF SendWindowIntact
  <2>4. Sound(shrunk) /\ shrunk.rcv = s.rcv /\ shrunk.state = s.state
    <3>1. shrunk \in Calls /\ shrunk.snd = v /\ shrunk.rcv = s.rcv /\ shrunk.state = s.state
      BY <2>0, <2>1, <1>1 DEF Calls
    <3>2. QED
      BY <2>3, <3>1 DEF Sound
  <2>5. shrunk.snd = v
    BY <2>0, <1>1 DEF Calls
  <2> HIDE DEF shrunk, counted, resent
  <2>6. MarkMessagesAsAcknowledged(s, seq) = shrunk
    BY <1>1, <1>3, <1>4, <1>5
  <2>7. QED
    BY <2>1, <2>4, <2>5, <2>6
<1>6. Sound(counted) /\ counted.rcv = s.rcv /\ counted.state = s.state
      /\ counted.snd.nextSequence = w.nextSequence /\ counted.linkUp = s.linkUp
  <2> DEFINE v == [w EXCEPT !.lastAckCount = dups]
  <2>1. counted = [s EXCEPT !.snd = v]
    BY <1>1 DEF Calls, SendWindows
  <2>2. /\ v \in SendWindows /\ v.nextUnacknowledged = w.nextUnacknowledged
        /\ v.lastSent = w.lastSent /\ v.nextSequence = w.nextSequence
        /\ v.messages = w.messages /\ v.valid = w.valid /\ v.semaphore = w.semaphore
    BY <1>1 DEF SendWindows
  <2> HIDE DEF v, counted
  <2>3. SendWindowIntact(v)
    BY <2>2, <1>1 DEF SendWindowIntact
  <2>4. QED
    BY <2>1, <2>2, <2>3, <1>1 DEF Sound, Calls
<1>7. CASE next = w.nextUnacknowledged /\ dups < FastRetransmitThreshold
  <2> HIDE DEF shrunk, counted, resent
  <2>1. MarkMessagesAsAcknowledged(s, seq) = counted
    BY <1>1, <1>3, <1>4, <1>7
  <2>2. QED
    BY <2>1, <1>6
<1>8. CASE next = w.nextUnacknowledged /\ ~(dups < FastRetransmitThreshold)
  <2>1. again \in Slots
    <3>1. w.nextUnacknowledged + dups - FastRetransmitThreshold \in Int
      BY <1>1, WindowAssumption
    <3>2. QED
      BY <3>1, SlotInIndex, <1>1 DEF SendWindows
  <2> HIDE DEF counted, again
  <2>2. /\ Sound(resent) /\ resent.rcv = s.rcv
        /\ resent.snd.nextSequence = w.nextSequence
        /\ resent.state \in {s.state, "Closed"}
    BY <2>1, <1>6, SendOrCloseSound
  <2> DEFINE r == [resent EXCEPT !.snd.retransmitCount = 0]
             v == [resent.snd EXCEPT !.retransmitCount = 0]
  <2>3. /\ Sound(r) /\ r.rcv = resent.rcv /\ r.state = resent.state
        /\ r.snd.nextSequence = resent.snd.nextSequence
    <3> HIDE DEF resent
    <3>1. r = [resent EXCEPT !.snd = v]
      BY <2>2 DEF Sound, Calls, SendWindows
    <3>2. /\ v \in SendWindows /\ v.nextUnacknowledged = resent.snd.nextUnacknowledged
          /\ v.lastSent = resent.snd.lastSent /\ v.nextSequence = resent.snd.nextSequence
          /\ v.messages = resent.snd.messages /\ v.valid = resent.snd.valid
          /\ v.semaphore = resent.snd.semaphore
      BY <2>2 DEF Sound, Calls, SendWindows
    <3> HIDE DEF v, r
    <3>3. SendWindowIntact(v)
      BY <3>2, <2>2 DEF SendWindowIntact, Sound, Calls
    <3>4. QED
      BY <3>1, <3>2, <3>3, <2>2 DEF Sound, Calls
  <2> HIDE DEF shrunk, resent
  <2>4. MarkMessagesAsAcknowledged(s, seq) = IF s.linkUp THEN r ELSE resent
    BY <1>1, <1>3, <1>4, <1>8
  <2> HIDE DEF r
  <2>5. QED
    BY <2>2, <2>3, <2>4
<1>9. QED
  BY <1>3, <1>1, <1>5, <1>7, <1>8

\* A session with another intact send window is sound.
LEMMA ReplaceSendWindow ==
  ASSUME NEW s, Sound(s), NEW w \in SendWindows, SendWindowIntact(w)
  PROVE  LET t == [s EXCEPT !.snd = w]
         IN  /\ Sound(t) /\ t.snd = w /\ t.rcv = s.rcv /\ t.state = s.state
BY DEF Sound, Calls

\* A session with another intact receive window is sound.
LEMMA ReplaceReceiveWindow ==
  ASSUME NEW s, Sound(s), NEW r \in ReceiveWindows, ReadWindowIntact(r)
  PROVE  LET t == [s EXCEPT !.rcv = r]
         IN  /\ Sound(t) /\ t.rcv = r /\ t.snd = s.snd /\ t.state = s.state
BY DEF Sound, Calls

\* When the semaphore has room, the slot of the next sequence number is free.
LEMMA WriteIntoSendWindowSound ==
  ASSUME NEW s, Sound(s), s.snd.semaphore > 0,
         NEW type \in MessageTypes, NEW data \in Nat
  PROVE  LET t == WriteMessageIntoSendWindow(s, type, data)
         IN  /\ Sound(t)
             /\ t.snd.nextSequence = s.snd.nextSequence + 1
             /\ t.rcv = s.rcv /\ t.state = s.state
<1> DEFINE w == s.snd
           seq == w.nextSequence
           slot == NewSlot(s, type, seq, data)
           v == [w EXCEPT !.semaphore = w.semaphore - 1,
                          !.nextSequence = seq + 1,
                          !.messages[Slot(seq)] = slot,
                          !.valid[Slot(seq)] = TRUE]
<1>1. /\ w \in SendWindows /\ SendWindowIntact(w) /\ s \in Calls
      /\ w.nextUnacknowledged \in Nat \ {0} /\ w.lastSent \in Nat
      /\ seq \in Nat \ {0} /\ w.semaphore \in 1 .. WindowSize
      /\ w.messages \in [Index -> Slots] /\ w.valid \in [Index -> BOOLEAN]
      /\ WindowSize \in Nat
  BY WindowAssumption DEF Sound, Calls, SendWindows
<1>2. slot \in Slots /\ slot.seq = seq
  BY <1>1 DEF NewSlot, Slots, Calls
<1>3. Slot(seq) \in Index
  BY <1>1, SlotInIndex
<1>4. WriteMessageIntoSendWindow(s, type, data) = [s EXCEPT !.snd = v]
  BY <1>1 DEF WriteMessageIntoSendWindow, Calls, SendWindows
<1>5. /\ v \in SendWindows /\ v.nextSequence = seq + 1
      /\ v.nextUnacknowledged = w.nextUnacknowledged /\ v.lastSent = w.lastSent
      /\ v.semaphore = w.semaphore - 1
      /\ v.messages = [w.messages EXCEPT ![Slot(seq)] = slot]
      /\ v.valid = [w.valid EXCEPT ![Slot(seq)] = TRUE]
  <2> DEFINE ms == [w.messages EXCEPT ![Slot(seq)] = slot]
             vs == [w.valid EXCEPT ![Slot(seq)] = TRUE]
  <2>1. ms \in [Index -> Slots] /\ vs \in [Index -> BOOLEAN]
    BY <1>1, <1>2, <1>3
  <2>2. w.semaphore - 1 \in 0 .. WindowSize /\ seq + 1 \in Nat \ {0}
    BY <1>1
  <2>3. v = [w EXCEPT !.semaphore = w.semaphore - 1, !.nextSequence = seq + 1,
                      !.messages = ms, !.valid = vs]
    BY <1>1 DEF SendWindows
  <2> HIDE DEF v, ms, vs
  <2>4. v \in SendWindows
    BY <2>1, <2>2, <2>3, <1>1 DEF SendWindows
  <2>5. QED
    BY <2>3, <2>4, <1>1 DEF SendWindows, ms, vs
<1> HIDE DEF v, slot
<1>6. ASSUME NEW q \in w.nextUnacknowledged .. (seq - 1)
      PROVE  Slot(q) # Slot(seq) /\ Slot(q) \in Index
  <2>1. q \in Nat /\ q < seq /\ seq - q < WindowSize
    BY <1>1 DEF SendWindowIntact
  <2>2. QED
    BY <2>1, <1>1, SlotsDiffer, SlotInIndex
<1>7. \A q \in w.nextUnacknowledged .. seq : v.messages[Slot(q)].seq = q
  <2> SUFFICES ASSUME NEW q \in w.nextUnacknowledged .. seq
               PROVE  v.messages[Slot(q)].seq = q
    OBVIOUS
  <2>1. CASE q = seq
    BY <2>1, <1>1, <1>2, <1>3, <1>5
  <2>2. CASE q \in w.nextUnacknowledged .. (seq - 1)
    <3>1. w.messages[Slot(q)].seq = q
      BY <2>2, <1>1 DEF SendWindowIntact
    <3>2. QED
      BY <3>1, <2>2, <1>1, <1>3, <1>5, <1>6
  <2>3. QED
    BY <2>1, <2>2, <1>1
<1>8. \A i \in Index : v.valid[i] <=> \E q \in w.nextUnacknowledged .. seq : Slot(q) = i
  <2> SUFFICES ASSUME NEW i \in Index
               PROVE  v.valid[i] <=> \E q \in w.nextUnacknowledged .. seq : Slot(q) = i
    OBVIOUS
  <2>1. w.valid[i] <=> \E q \in w.nextUnacknowledged .. (seq - 1) : Slot(q) = i
    BY <1>1 DEF SendWindowIntact
  <2>2. seq \in w.nextUnacknowledged .. seq
    BY <1>1 DEF SendWindowIntact
  <2>3. CASE i = Slot(seq)
    BY <2>2, <2>3, <1>1, <1>3, <1>5
  <2>4. CASE i # Slot(seq)
    <3>1. v.valid[i] <=> w.valid[i]
      BY <2>4, <1>1, <1>3, <1>5
    <3>2. QED
      BY <3>1, <2>1, <2>4, <1>1
  <2>5. QED
    BY <2>3, <2>4
<1>9. SendWindowIntact(v)
  BY <1>1, <1>5, <1>7, <1>8 DEF SendWindowIntact
<1>10. QED
  BY <1>4, <1>5, <1>9, ReplaceSendWindow

\* A message as a window keeps it.
Stripped(m) == [type |-> m.type, sessionId |-> m.sessionId, seq |-> m.seq,
                data |-> m.data]

\* The session with message m in its receive window.
Stored(s, m) ==
  LET r == s.rcv
      written ==
        [r EXCEPT !.messages[Slot(m.seq)] = Stripped(m),
                  !.valid[Slot(m.seq)] = TRUE]
      next == ScanEnd(Received(written), r.nextExpected, r.nextUnread + WindowSize)
  IN  [s EXCEPT !.rcv = [written EXCEPT
                           !.nextExpected = next,
                           !.semaphore = @ + (next - r.nextExpected)]]

\* A message within the window of the reader lands in a slot no other message
\* of that window uses.
LEMMA StoredSound ==
  ASSUME NEW s, Sound(s), NEW m \in Messages,
         m.seq >= s.rcv.nextExpected, m.seq < s.rcv.nextUnread + WindowSize
  PROVE  LET t == Stored(s, m)
         IN  /\ Sound(t) /\ t.snd = s.snd /\ t.state = s.state
             /\ t.sessionId = s.sessionId /\ t.out = s.out
             /\ t.rcv.nextUnread = s.rcv.nextUnread
             /\ t.rcv.nextExpected \in s.rcv.nextExpected .. (s.rcv.nextUnread + WindowSize)
             /\ t.rcv.messages = [s.rcv.messages EXCEPT ![Slot(m.seq)] = Stripped(m)]
             /\ t.rcv.valid = [s.rcv.valid EXCEPT ![Slot(m.seq)] = TRUE]
<1> DEFINE r == s.rcv
           slot == Stripped(m)
           written == [r EXCEPT !.messages[Slot(m.seq)] = slot,
                                !.valid[Slot(m.seq)] = TRUE]
           next == ScanEnd(Received(written), r.nextExpected, r.nextUnread + WindowSize)
           r2 == [written EXCEPT !.nextExpected = next,
                                 !.semaphore = @ + (next - r.nextExpected)]
           t2 == [s EXCEPT !.rcv = r2]
<1>1. /\ r \in ReceiveWindows /\ ReadWindowIntact(r) /\ s \in Calls
      /\ r.nextUnread \in Nat \ {0} /\ r.nextExpected \in Nat \ {0}
      /\ r.lastUnacknowledged \in Nat \ {0} /\ r.semaphore \in 0 .. WindowSize
      /\ r.messages \in [Index -> Slots] /\ r.valid \in [Index -> BOOLEAN]
      /\ WindowSize \in Nat \ {0} /\ m.seq \in Nat
      /\ r.nextUnread <= r.nextExpected /\ r.nextExpected <= r.nextUnread + WindowSize
  BY WindowAssumption DEF Sound, Calls, ReceiveWindows, ReadWindowIntact, Messages
<1>2. Stored(s, m) = t2
  BY DEF Stored
<1>3. next \in r.nextExpected .. (r.nextUnread + WindowSize)
      /\ \A q \in r.nextExpected .. (next - 1) : q \in Received(written)
  <2> HIDE DEF r, written
  <2>1. /\ r.nextUnread + WindowSize \in Nat /\ r.nextExpected \in Nat
        /\ r.nextExpected <= r.nextUnread + WindowSize
    BY <1>1
  <2>2. QED
    BY <2>1, ScanEndBounds
<1>4. slot \in Slots /\ Slot(m.seq) \in Index
  BY <1>1, SlotInIndex DEF Messages, Slots, Stripped
<1>5. /\ written \in ReceiveWindows
      /\ written.messages = [r.messages EXCEPT ![Slot(m.seq)] = slot]
      /\ written.valid = [r.valid EXCEPT ![Slot(m.seq)] = TRUE]
      /\ written.nextUnread = r.nextUnread /\ written.nextExpected = r.nextExpected
      /\ written.semaphore = r.semaphore
      /\ written.lastUnacknowledged = r.lastUnacknowledged
  BY <1>1, <1>4 DEF ReceiveWindows
<1>6. slot.seq = m.seq
  BY DEF Stripped
<1> HIDE DEF next, written, slot
<1>7. /\ r2 \in ReceiveWindows
      /\ r2.messages = written.messages /\ r2.valid = written.valid
      /\ r2.nextUnread = r.nextUnread /\ r2.nextExpected = next
      /\ r2.semaphore = next - r.nextUnread
      /\ r2.lastUnacknowledged = r.lastUnacknowledged
  <2>1. written.semaphore + (next - r.nextExpected) = next - r.nextUnread
    BY <1>1, <1>3, <1>5 DEF ReadWindowIntact
  <2>2. next - r.nextUnread \in 0 .. WindowSize /\ next \in Nat \ {0}
    BY <1>1, <1>3
  <2>3. QED
    BY <2>1, <2>2, <1>5 DEF ReceiveWindows
<1> HIDE DEF r2
<1>8. ReadWindowIntact(r2)
  <2>1. \A q \in r.nextUnread .. (next - 1) : r2.valid[Slot(q)]
    <3> SUFFICES ASSUME NEW q \in r.nextUnread .. (next - 1)
                 PROVE  written.valid[Slot(q)]
      BY <1>7
    <3>1. Slot(q) \in Index
      BY <1>1, <1>3, SlotInIndex
    <3>2. CASE q < r.nextExpected
      <4>1. r.valid[Slot(q)]
        BY <3>2, <1>1, <1>3 DEF ReadWindowIntact
      <4>2. QED
        BY <4>1, <3>1, <1>1, <1>4, <1>5
    <3>3. CASE q >= r.nextExpected
      BY <3>3, <1>1, <1>3, <1>5 DEF Received
    <3>4. QED
      BY <3>2, <3>3, <1>1, <1>3
  <2>2. \A q \in r.nextUnread .. (r.nextUnread + WindowSize - 1) :
          r2.valid[Slot(q)] => r2.messages[Slot(q)].seq = q
    <3> SUFFICES ASSUME NEW q \in r.nextUnread .. (r.nextUnread + WindowSize - 1),
                        written.valid[Slot(q)]
                 PROVE  written.messages[Slot(q)].seq = q
      BY <1>7
    <3>1. Slot(q) \in Index /\ q \in Nat
      BY <1>1, SlotInIndex
    <3>2. CASE q = m.seq
      BY <3>2, <1>1, <1>4, <1>5, <1>6
    <3>3. CASE q # m.seq
      <4>1. Slot(q) # Slot(m.seq)
        <5>1. CASE q < m.seq
          BY <5>1, <3>1, <1>1, SlotsDiffer
        <5>2. CASE m.seq < q
          BY <5>2, <3>1, <1>1, SlotsDiffer
        <5>3. QED
          BY <5>1, <5>2, <3>1, <3>3, <1>1
      <4>2. r.valid[Slot(q)] /\ written.messages[Slot(q)] = r.messages[Slot(q)]
        BY <4>1, <3>1, <1>1, <1>4, <1>5
      <4>3. QED
        BY <4>2, <1>1 DEF ReadWindowIntact
    <3>4. QED
      BY <3>2, <3>3
  <2>3. QED
    BY <2>1, <2>2, <1>1, <1>3, <1>7 DEF ReadWindowIntact
<1>9. /\ Sound(t2) /\ t2.rcv = r2 /\ t2.snd = s.snd /\ t2.state = s.state
      /\ t2.sessionId = s.sessionId /\ t2.out = s.out
  BY <1>1, <1>7, <1>8, ReplaceReceiveWindow DEF Calls
<1> HIDE DEF t2
<1>10. QED
  BY <1>2, <1>3, <1>5, <1>7, <1>9 DEF slot

\* What the call makes of a message, whether it is old, too early or expected.
LEMMA WriteCases ==
  ASSUME NEW s, Sound(s), NEW m \in Messages
  PROVE  LET t == WriteMessageIntoReceiveWindow(s, m)
         IN  \/ t = SendAckMessage(s) /\ m.seq < s.rcv.nextExpected
             \/ t = s
             \/ /\ t \in {Stored(s, m), SendAckMessage(Stored(s, m))}
                /\ m.seq >= s.rcv.nextExpected
                /\ m.seq < s.rcv.nextUnread + WindowSize
<1> DEFINE r == s.rcv
           pendingAck == r.nextExpected > r.lastUnacknowledged
           written == [r EXCEPT !.messages[Slot(m.seq)] = Stripped(m),
                                !.valid[Slot(m.seq)] = TRUE]
           next == ScanEnd(Received(written), r.nextExpected, r.nextUnread + WindowSize)
<1>1. /\ r.nextUnread \in Nat /\ r.nextExpected \in Nat
      /\ WindowSize \in Nat /\ m.seq \in Nat
  BY WindowAssumption DEF Sound, Calls, ReceiveWindows, Messages
<1>2. WriteMessageIntoReceiveWindow(s, m) =
        CASE m.seq < r.nextExpected -> SendAckMessage(s)
          [] m.seq >= r.nextUnread + WindowSize -> s
          [] OTHER -> IF pendingAck /\ next - r.lastUnacknowledged >= MaxUnacknowledgedThreshold
                        THEN SendAckMessage(Stored(s, m)) ELSE Stored(s, m)
  BY DEF WriteMessageIntoReceiveWindow, Stored, Stripped
<1> HIDE DEF next, pendingAck
<1>3. QED
  BY <1>1, <1>2

\* Whatever arrives, the windows stay intact.
LEMMA WriteIntoReceiveWindowSound ==
  ASSUME NEW s, Sound(s), NEW m \in Messages
  PROVE  LET t == WriteMessageIntoReceiveWindow(s, m)
         IN  /\ Sound(t)
             /\ t.snd = s.snd
             /\ t.state \in {s.state, "Closed"}
<1>1. CASE WriteMessageIntoReceiveWindow(s, m) = SendAckMessage(s)
  BY <1>1, SendAckMessageSound
<1>2. ASSUME m.seq >= s.rcv.nextExpected, m.seq < s.rcv.nextUnread + WindowSize
      PROVE  LET t == Stored(s, m)
             IN  Sound(t) /\ t.snd = s.snd /\ t.state = s.state
  BY <1>2, StoredSound
<1>3. QED
  BY <1>1, <1>2, WriteCases, SendAckMessageSound

\* StartReceiving moves an untouched receive window to the peer's sequence.
LEMMA StartReceivingSound ==
  ASSUME NEW s, Sound(s), s.rcv = NewReceiveWindow, NEW seq \in Nat
  PROVE  LET t == StartReceiving(s, seq)
         IN  /\ Sound(t) /\ t.snd = s.snd /\ t.state = s.state
             /\ t.rcv.semaphore = 0
<1> DEFINE r == [s.rcv EXCEPT !.nextUnread = seq + 1,
                               !.nextExpected = seq + 1,
                               !.lastUnacknowledged = seq + 1,
                               !.currentAvailableSize = MaxAdvertizedSize]
<1>1. MaxAdvertizedSize \in 1 .. WindowSize /\ WindowSize \in Nat \ {0} /\ seq + 1 \in Nat \ {0}
  BY WindowAssumption DEF MaxAdvertizedSize
<1>2. /\ s.rcv.messages \in [Index -> Slots] /\ s.rcv.valid = [i \in Index |-> FALSE]
      /\ s.rcv.semaphore = 0 /\ s.rcv \in ReceiveWindows
  BY DEF Sound, Calls, ReceiveWindows, NewReceiveWindow
<1>3. StartReceiving(s, seq) = [s EXCEPT !.rcv = r]
  BY DEF StartReceiving, Sound, Calls, ReceiveWindows
<1>4. /\ r \in ReceiveWindows /\ r.valid = [i \in Index |-> FALSE]
      /\ r.semaphore = 0 /\ r.nextUnread = seq + 1 /\ r.nextExpected = seq + 1
      /\ r.lastUnacknowledged = seq + 1
  BY <1>1, <1>2 DEF ReceiveWindows
<1> HIDE DEF r
<1>5. \A q \in r.nextUnread .. (r.nextUnread + WindowSize - 1) : ~r.valid[Slot(q)]
  BY <1>1, <1>4, SlotInIndex
<1>6. ReadWindowIntact(r)
  <2>1. r.nextUnread .. (r.nextExpected - 1) = {}
    BY <1>4
  <2>2. r.semaphore = r.nextExpected - r.nextUnread
        /\ r.lastUnacknowledged <= r.nextExpected
    BY <1>1, <1>4
  <2>3. QED
    BY <2>1, <2>2, <1>5 DEF ReadWindowIntact
<1>7. QED
  BY <1>3, <1>4, <1>6, ReplaceReceiveWindow

\* The advertised size of the peer is only data to the send window.
LEMMA UpdateSendWindowSizeSound ==
  ASSUME NEW s, Sound(s), NEW m \in Messages
  PROVE  LET t == UpdateSendWindowSize(s, m)
         IN  /\ Sound(t) /\ t.rcv = s.rcv /\ t.state = s.state
             /\ t.snd.nextSequence = s.snd.nextSequence
             /\ t.owner = s.owner
<1> DEFINE w == [s.snd EXCEPT !.lastAvailableSize = m.win]
<1>1. UpdateSendWindowSize(s, m) = [s EXCEPT !.snd = w]
  BY DEF UpdateSendWindowSize, Sound, Calls, SendWindows
<1>2. /\ w \in SendWindows /\ w.nextUnacknowledged = s.snd.nextUnacknowledged
      /\ w.lastSent = s.snd.lastSent /\ w.nextSequence = s.snd.nextSequence
      /\ w.messages = s.snd.messages /\ w.valid = s.snd.valid
      /\ w.semaphore = s.snd.semaphore
  BY DEF Sound, Calls, SendWindows, Messages
<1> HIDE DEF w
<1>3. SendWindowIntact(w)
  BY <1>2 DEF Sound, SendWindowIntact
<1>4. QED
  BY <1>1, <1>2, <1>3, ReplaceSendWindow DEF Sound, Calls

-----------------------------------------------------------------------------
(* What every call of a session preserves.                                 *)

\* Nothing has arrived yet at a session that waits for its SynAck.
Early(s) == s.state = "SynSent" => s.rcv = NewReceiveWindow

Good(s) == Sound(s) /\ Early(s)

\* A call that takes s to t: sequence numbers grow, and closed stays closed.
Evolves(s, t) ==
  /\ Good(t)
  /\ t.snd.nextSequence >= s.snd.nextSequence
  /\ s.state = "Closed" => t.state = "Closed"

\* Every sound session has evolved from itself.
LEMMA EvolvesReflexive == ASSUME NEW s, Good(s) PROVE Evolves(s, s)
BY DEF Evolves, Good, Sound, Calls, SendWindows

\* Calls compose.
LEMMA EvolvesTransitive ==
  ASSUME NEW s, NEW t, NEW u, Good(s), Evolves(s, t), Evolves(t, u)
  PROVE  Evolves(s, u)
<1>1. /\ s.snd.nextSequence \in Nat /\ t.snd.nextSequence \in Nat
      /\ u.snd.nextSequence \in Nat
  BY DEF Evolves, Good, Sound, Calls, SendWindows
<1>2. QED
  BY <1>1 DEF Evolves

\* A call that keeps a session sound, its sequence number, and either its
\* state and receive window or closes it, is a step of Evolves.
LEMMA EvolvesIf ==
  ASSUME NEW s, NEW t, Good(s), Sound(t),
         t.snd.nextSequence \in {s.snd.nextSequence, s.snd.nextSequence + 1},
         s.state = "Closed" => t.state = "Closed",
         t.state = "SynSent" => s.state = "SynSent" /\ t.rcv = s.rcv
  PROVE  Evolves(s, t)
<1>1. s.snd.nextSequence \in Nat
  BY DEF Good, Sound, Calls, SendWindows
<1>2. QED
  BY <1>1 DEF Evolves, Good, Early

\* Shutdown keeps both windows.
LEMMA ShutdownEvolves ==
  ASSUME NEW s, Good(s), NEW reason \in Reasons
  PROVE  Evolves(s, Shutdown(s, reason))
<1> DEFINE t == Shutdown(s, reason)
<1>1. /\ Sound(t) /\ t.snd = s.snd /\ t.rcv = s.rcv
      /\ t.state \in {s.state, "Closed", "FinWait1"}
      /\ t.state = "FinWait1" => s.state \in {"Established", "FinWait1"}
  BY ShutdownSound DEF Good
<1> HIDE DEF t
<1>2. Evolves(s, t)
  BY <1>1, EvolvesIf
<1>3. QED
  BY <1>2 DEF t

\* A session that is not waiting for a SynAck may acknowledge.
LEMMA SendAckMessageEvolves ==
  ASSUME NEW s, Good(s), s.state # "SynSent"
  PROVE  Evolves(s, SendAckMessage(s))
<1> DEFINE t == SendAckMessage(s)
<1>1. Sound(t) /\ t.snd = s.snd /\ t.state \in {s.state, "Closed"}
  BY SendAckMessageSound DEF Good
<1> HIDE DEF t
<1>2. Evolves(s, t)
  BY <1>1, EvolvesIf
<1>3. QED
  BY <1>2 DEF t

-----------------------------------------------------------------------------
(* The message handlers.                                                   *)

\* A SynAck establishes the session that waits for it, acknowledges for an
\* open one, and is nothing to the others.
LEMMA HandleSynAckMessageEvolves ==
  ASSUME NEW s, Good(s), NEW m \in Messages
  PROVE  Evolves(s, HandleSynAckMessage(s, m))
<1>0. m.seq \in Nat /\ m.data \in Nat /\ m.sessionId \in Ids
  BY DEF Messages
<1> DEFINE marked == MarkMessagesAsAcknowledged(s, m.data)
           u == SetState(marked, "Established")
           t == [u EXCEPT !.sessionId = m.sessionId]
           started == StartReceiving(t, m.seq)
           acked == SendAckMessage(started)
           seen == MarkMessagesAsAcknowledged(s, m.seq)
<1>1. Sound(marked) /\ marked.rcv = s.rcv
      /\ marked.snd.nextSequence = s.snd.nextSequence
  BY <1>0, MarkSound DEF Good
<1>2. Sound(seen) /\ seen.rcv = s.rcv /\ seen.state \in {s.state, "Closed"}
      /\ seen.snd.nextSequence = s.snd.nextSequence
  BY <1>0, MarkSound DEF Good
<1> HIDE DEF marked, seen
<1>3. Sound(u) /\ u.state = "Established" /\ u.rcv = s.rcv
      /\ u.snd.nextSequence = s.snd.nextSequence
  BY <1>1, SetStateSound DEF SessionStates
<1> HIDE DEF u
<1>4. Sound(t) /\ t.state = "Established" /\ t.rcv = s.rcv
      /\ t.snd.nextSequence = s.snd.nextSequence
  BY <1>0, <1>3 DEF Sound, Calls
<1> HIDE DEF t
<1>5. HandleSynAckMessage(s, m) =
        UpdateSendWindowSize(
          CASE s.state \in Open -> seen
            [] s.state = "SynSent" -> acked
            [] OTHER -> s, m)
  BY DEF HandleSynAckMessage, seen, acked, started, t, u, marked
<1> DEFINE x == CASE s.state \in Open -> seen
                  [] s.state = "SynSent" -> acked
                  [] OTHER -> s
<1>6. Sound(x) /\ x.snd.nextSequence = s.snd.nextSequence
      /\ (s.state = "Closed" => x.state = "Closed") /\ x.state # "SynSent"
  <2>1. CASE s.state \in Open
    <3> HIDE DEF acked
    <3>1. x = seen
      BY <2>1 DEF Open
    <3>2. QED
      BY <3>1, <1>2, <2>1 DEF Open
  <2>2. CASE s.state = "SynSent"
    <3>1. t.rcv = NewReceiveWindow
      BY <2>2, <1>4 DEF Good, Early
    <3>2. Sound(started) /\ started.snd = t.snd /\ started.state = t.state
      BY <3>1, <1>0, <1>4, StartReceivingSound
    <3> HIDE DEF started
    <3>3. Sound(acked) /\ acked.snd = started.snd /\ acked.state \in {started.state, "Closed"}
      BY <3>2, SendAckMessageSound
    <3> HIDE DEF acked
    <3>4. x = acked
      BY <2>2 DEF Open
    <3>5. QED
      BY <3>2, <3>3, <3>4, <2>2, <1>4
  <2>3. CASE s.state \notin Open /\ s.state # "SynSent"
    <3> HIDE DEF acked
    <3>1. x = s
      BY <2>3
    <3>2. QED
      BY <3>1, <2>3 DEF Good
  <2>4. QED
    BY <2>1, <2>2, <2>3
<1> HIDE DEF x
<1>7. Sound(UpdateSendWindowSize(x, m))
      /\ UpdateSendWindowSize(x, m).state = x.state
      /\ UpdateSendWindowSize(x, m).snd.nextSequence = x.snd.nextSequence
  BY <1>6, UpdateSendWindowSizeSound
<1>8. HandleSynAckMessage(s, m) = UpdateSendWindowSize(x, m)
  BY <1>5 DEF x
<1>9. QED
  BY <1>6, <1>7, <1>8, EvolvesIf

\* A Fin is only handed to a session that is not closed.
LEMMA HandleFinMessageEvolves ==
  ASSUME NEW s, Good(s), s.state # "Closed", NEW m \in Messages
  PROVE  Evolves(s, HandleFinMessage(s, m))
<1> DEFINE t == WriteMessageIntoReceiveWindow(s, m)
           closing == [SetState(t, "Closing") EXCEPT !.reason = "Success"]
           acked == SendAckMessage(t)
           closed == [SetState(acked, "Closed") EXCEPT !.reason = "Success"]
           x == CASE s.state \notin {"Closing", "FinWait2"} -> closing
                  [] s.state = "FinWait2" -> closed
                  [] OTHER -> s
<1>1. Sound(t) /\ t.snd = s.snd
  BY WriteIntoReceiveWindowSound DEF Good
<1> HIDE DEF t
<1>2. Sound(acked) /\ acked.snd = s.snd
  BY <1>1, SendAckMessageSound
<1> HIDE DEF acked
<1>3. Sound(closing) /\ closing.state = "Closing" /\ closing.snd = s.snd
  BY <1>1 DEF SetState, Sound, Calls, SessionStates, Reasons
<1>4. Sound(closed) /\ closed.state = "Closed" /\ closed.snd = s.snd
  BY <1>2 DEF SetState, Sound, Calls, SessionStates, Reasons
<1>5. HandleFinMessage(s, m) = UpdateSendWindowSize(x, m)
  BY DEF HandleFinMessage, closing, closed, acked, t
<1> HIDE DEF closing, closed
<1>6. /\ Sound(x) /\ x.snd.nextSequence = s.snd.nextSequence
      /\ x.state # "SynSent"
  BY <1>3, <1>4 DEF Good
<1> HIDE DEF x
<1>7. /\ Sound(UpdateSendWindowSize(x, m))
      /\ UpdateSendWindowSize(x, m).state = x.state
      /\ UpdateSendWindowSize(x, m).snd.nextSequence = x.snd.nextSequence
  BY <1>6, UpdateSendWindowSizeSound
<1>8. QED
  BY <1>5, <1>6, <1>7, EvolvesIf

\* Data only changes the receive window of an open session.
LEMMA HandleDataMessageEvolves ==
  ASSUME NEW s, Good(s), NEW m \in Messages
  PROVE  Evolves(s, HandleDataMessage(s, m))
<1> DEFINE t == WriteMessageIntoReceiveWindow(s, m)
           x == IF s.state \in Open \ {"Closing"} THEN t ELSE s
<1>1. Sound(t) /\ t.snd = s.snd /\ t.state \in {s.state, "Closed"}
  BY WriteIntoReceiveWindowSound DEF Good
<1>2. HandleDataMessage(s, m) = UpdateSendWindowSize(x, m)
  BY DEF HandleDataMessage
<1> HIDE DEF t
<1>3. /\ Sound(x) /\ x.snd = s.snd
      /\ s.state = "Closed" => x.state = "Closed"
      /\ x.state = "SynSent" => s.state = "SynSent" /\ x.rcv = s.rcv
  BY <1>1 DEF Good, Open
<1> HIDE DEF x
<1>4. LET u == UpdateSendWindowSize(x, m)
      IN  /\ Sound(u) /\ u.state = x.state /\ u.rcv = x.rcv
          /\ u.snd.nextSequence = x.snd.nextSequence
  BY <1>3, UpdateSendWindowSizeSound
<1>5. QED
  BY <1>2, <1>3, <1>4, EvolvesIf

\* An Ack only frees slots of the send window, or establishes the session.
LEMMA HandleAckMessageEvolves ==
  ASSUME NEW s, Good(s), NEW m \in Messages
  PROVE  Evolves(s, HandleAckMessage(s, m))
<1> DEFINE e == SetState(s, "Established")
           first == MarkMessagesAsAcknowledged(e, m.seq)
           later == MarkMessagesAsAcknowledged(s, m.seq)
           x == CASE s.state = "SynReceived" -> first
                  [] s.state \in Open -> later
                  [] OTHER -> s
<1>0. m.seq \in Nat
  BY DEF Messages
<1>1. Sound(e) /\ e.state = "Established" /\ e.snd = s.snd
  BY SetStateSound DEF Good, SessionStates
<1> HIDE DEF e
<1>2. /\ Sound(first) /\ first.snd.nextSequence = s.snd.nextSequence
      /\ first.state \in {"Established", "Closed"}
  BY <1>0, <1>1, MarkSound
<1>3. /\ Sound(later) /\ later.snd.nextSequence = s.snd.nextSequence
      /\ later.state \in {s.state, "Closed"}
  BY <1>0, MarkSound DEF Good
<1>4. HandleAckMessage(s, m) = UpdateSendWindowSize(x, m)
  BY DEF HandleAckMessage, first, later, e
<1> HIDE DEF first, later
<1>5. /\ Sound(x) /\ x.snd.nextSequence = s.snd.nextSequence
      /\ s.state = "Closed" => x.state = "Closed"
      /\ x.state = "SynSent" => s.state = "SynSent" /\ x.rcv = s.rcv
  <2>1. CASE s.state = "SynReceived"
    <3>1. x = first
      BY <2>1 DEF Open
    <3>2. QED
      BY <3>1, <2>1, <1>2
  <2>2. CASE s.state \in Open
    <3>1. x = later
      BY <2>2 DEF Open
    <3>2. QED
      BY <3>1, <2>2, <1>3 DEF Open
  <2>3. CASE s.state # "SynReceived" /\ s.state \notin Open
    <3>1. x = s
      BY <2>3
    <3>2. QED
      BY <3>1 DEF Good
  <2>4. QED
    BY <2>1, <2>2, <2>3
<1> HIDE DEF x
<1>6. LET u == UpdateSendWindowSize(x, m)
      IN  /\ Sound(u) /\ u.state = x.state /\ u.rcv = x.rcv
          /\ u.snd.nextSequence = x.snd.nextSequence
  BY <1>5, UpdateSendWindowSizeSound
<1>7. QED
  BY <1>4, <1>5, <1>6, EvolvesIf

\* A Rst closes the session.
LEMMA HandleRstMessageEvolves ==
  ASSUME NEW s, Good(s), NEW m \in Messages
  PROVE  Evolves(s, HandleRstMessage(s, m))
<1> DEFINE x == Shutdown(s, "Reset")
<1>1. Sound(x) /\ x.state = "Closed" /\ x.snd = s.snd
  BY ShutdownSound DEF Good, Reasons
<1> HIDE DEF x
<1>2. LET u == UpdateSendWindowSize(x, m)
      IN  /\ Sound(u) /\ u.state = x.state /\ u.rcv = x.rcv
          /\ u.snd.nextSequence = x.snd.nextSequence
  BY <1>1, UpdateSendWindowSizeSound
<1>3. HandleRstMessage(s, m) = UpdateSendWindowSize(x, m)
  BY DEF HandleRstMessage, x
<1>4. QED
  BY <1>1, <1>2, <1>3, EvolvesIf

\* Whatever message the manager hands to a session it has.
LEMMA HandleMessageEvolves ==
  ASSUME NEW s, Good(s), NEW m \in Messages, m.type # "Syn",
         s.state # "Closed" \/ m.type = "SynAck"
  PROVE  Evolves(s, HandleMessage(s, m))
<1> DEFINE x == CASE m.type = "Syn"    -> HandleSynMessage(s, m)
                  [] m.type = "SynAck" -> HandleSynAckMessage(s, m)
                  [] m.type = "Fin"    -> HandleFinMessage(s, m)
                  [] m.type = "Data"   -> HandleDataMessage(s, m)
                  [] m.type = "Ack"    -> HandleAckMessage(s, m)
                  [] m.type = "Rst"    -> HandleRstMessage(s, m)
                  [] OTHER -> s
<1>1. Evolves(s, x)
  <2>1. CASE m.type = "SynAck"
    BY <2>1, HandleSynAckMessageEvolves
  <2>2. CASE m.type = "Fin"
    BY <2>2, HandleFinMessageEvolves
  <2>3. CASE m.type = "Data"
    BY <2>3, HandleDataMessageEvolves
  <2>4. CASE m.type = "Ack"
    BY <2>4, HandleAckMessageEvolves
  <2>5. CASE m.type = "Rst"
    BY <2>5, HandleRstMessageEvolves
  <2>6. CASE m.type \notin {"SynAck", "Fin", "Data", "Ack", "Rst"}
    BY <2>6, EvolvesReflexive
  <2>7. QED
    BY <2>1, <2>2, <2>3, <2>4, <2>5, <2>6
<1>2. HandleMessage(s, m) =
        IF s.state # "Established" /\ x.state = "Established" /\ ~x.owner
          THEN Shutdown(x, "Error") ELSE x
  BY DEF HandleMessage
<1> HIDE DEF x
<1>3. Evolves(s, Shutdown(x, "Error"))
  BY <1>1, ShutdownEvolves, EvolvesTransitive DEF Evolves, Reasons
<1>4. QED
  BY <1>1, <1>2, <1>3

-----------------------------------------------------------------------------
(* New sessions, and the handshake's first steps.                          *)

\* A session object no manager has used yet; its link may be down already.
Untouched(s) ==
  /\ s.state = "Closed" /\ s.out = << >>
  /\ s.snd = NewSendWindow /\ s.rcv = NewReceiveWindow

\* An empty send window is intact.
LEMMA NewSendWindowIntact ==
  /\ NewSendWindow \in SendWindows /\ SendWindowIntact(NewSendWindow)
  /\ NewSendWindow.nextSequence = 1 /\ NewSendWindow.semaphore = WindowSize
<1> DEFINE w == NewSendWindow
<1>1. Blank \in Slots
  BY DEF Blank, Slots, Ids, MessageTypes
<1>2. w \in SendWindows
  BY <1>1, WindowAssumption DEF NewSendWindow, SendWindows
<1>3. /\ w.nextSequence = 1 /\ w.nextUnacknowledged = 1 /\ w.lastSent = 0
      /\ w.semaphore = WindowSize /\ w.valid = [i \in Index |-> FALSE]
  BY DEF NewSendWindow
<1> HIDE DEF w
<1>4. w.nextUnacknowledged .. (w.nextSequence - 1) = {}
  BY <1>3
<1>5. \A i \in Index : ~w.valid[i]
  BY <1>3
<1>6. SendWindowIntact(w)
  BY <1>3, <1>4, <1>5, WindowAssumption DEF SendWindowIntact
<1>7. QED
  BY <1>2, <1>3, <1>6 DEF w

\* An empty receive window is intact.
LEMMA NewReceiveWindowIntact ==
  NewReceiveWindow \in ReceiveWindows /\ ReadWindowIntact(NewReceiveWindow)
<1> DEFINE r == NewReceiveWindow
<1>1. Blank \in Slots /\ MaxAdvertizedSize \in 1 .. WindowSize
  BY WindowAssumption DEF Blank, Slots, Ids, MessageTypes, MaxAdvertizedSize
<1>2. r \in ReceiveWindows
  BY <1>1, WindowAssumption DEF NewReceiveWindow, ReceiveWindows
<1>3. /\ r.semaphore = 0 /\ r.nextUnread = 1 /\ r.nextExpected = 1
      /\ r.lastUnacknowledged = 1 /\ r.valid = [i \in Index |-> FALSE]
  BY DEF NewReceiveWindow
<1> HIDE DEF r
<1>4. r.nextUnread .. (r.nextExpected - 1) = {}
  BY <1>3
<1>5. \A q \in r.nextUnread .. (r.nextUnread + WindowSize - 1) : ~r.valid[Slot(q)]
  BY <1>3, SlotInIndex, WindowAssumption
<1>6. ReadWindowIntact(r)
  <2>1. r.semaphore = r.nextExpected - r.nextUnread
        /\ r.lastUnacknowledged <= r.nextExpected
    BY <1>3
  <2>2. QED
    BY <2>1, <1>4, <1>5 DEF ReadWindowIntact
<1>7. QED
  BY <1>2, <1>6 DEF r

\* Between two calls a session has nothing to forward.
LEMMA SessionsAreCalls == Sessions \subseteq Calls
<1>1. << >> \in Seq(Messages)
  OBVIOUS
<1>2. QED
  BY <1>1 DEF Sessions, Calls

\* A session just constructed is good.
LEMMA NewSessionGood == NewSession \in Sessions /\ Good(NewSession) /\ Untouched(NewSession)
<1>1. NewSession \in Sessions
  BY NewSendWindowIntact, NewReceiveWindowIntact
     DEF NewSession, Sessions, SessionStates, Reasons, Ids
<1>2. NewSession \in Calls
  BY <1>1, SessionsAreCalls
<1>3. NewSession.snd = NewSendWindow /\ NewSession.rcv = NewReceiveWindow
      /\ NewSession.state = "Closed" /\ NewSession.out = << >>
  BY DEF NewSession
<1>4. QED
  BY <1>1, <1>2, <1>3, NewSendWindowIntact, NewReceiveWindowIntact
     DEF Good, Sound, Early, Untouched

\* The owner and the id do not matter to the windows.
LEMMA BindSound ==
  ASSUME NEW s, Sound(s), NEW id \in Ids
  PROVE  LET t == [s EXCEPT !.owner = TRUE, !.sessionId = id]
         IN  /\ Sound(t) /\ t.snd = s.snd /\ t.rcv = s.rcv /\ t.state = s.state
BY DEF Sound, Calls

\* Connect writes the Syn and waits for the SynAck.
LEMMA ConnectGood ==
  ASSUME NEW s, Good(s), Untouched(s), NEW id \in Ids
  PROVE  LET t == Connect(s, id)
         IN  Good(t) /\ t.snd.nextSequence = 2
<1> DEFINE b == [s EXCEPT !.owner = TRUE, !.sessionId = id]
           w == WriteMessageIntoSendWindow(b, "Syn", 0)
           t == SetState(w, "SynSent")
<1>1. Sound(b) /\ b.snd = NewSendWindow /\ b.rcv = NewReceiveWindow
  BY BindSound DEF Good, Untouched
<1> HIDE DEF b
<1>2. b.snd.semaphore > 0
  BY <1>1, NewSendWindowIntact, WindowAssumption
<1>3. Sound(w) /\ w.snd.nextSequence = b.snd.nextSequence + 1 /\ w.rcv = b.rcv
  BY <1>1, <1>2, WriteIntoSendWindowSound DEF MessageTypes
<1> HIDE DEF w
<1>4. Sound(t) /\ t.snd = w.snd /\ t.rcv = w.rcv
  BY <1>3, SetStateSound DEF SessionStates
<1>5. Connect(s, id) = t
  BY DEF Connect, t, w, b
<1> HIDE DEF t
<1>6. QED
  BY <1>1, <1>3, <1>4, <1>5, NewSendWindowIntact DEF Good, Early

\* A session that is bound to the server takes the Syn and answers it.
LEMMA AcceptSynGood ==
  ASSUME NEW s, Good(s), Untouched(s), NEW id \in Ids,
         NEW m \in Messages, m.type = "Syn"
  PROVE  LET t == HandleMessage(BindToServer(s, id), m)
         IN  Good(t) /\ t.snd.nextSequence = 2 /\ t.state = "SynReceived"
<1> DEFINE a == [s EXCEPT !.owner = TRUE, !.sessionId = id]
           b == BindToServer(s, id)
           w == WriteMessageIntoSendWindow(b, "SynAck", m.seq)
           u == SetState(w, "SynReceived")
           t == StartReceiving(u, m.seq)
<1>0. m.seq \in Nat
  BY DEF Messages
<1>1. Sound(a) /\ a.snd = NewSendWindow /\ a.rcv = NewReceiveWindow
  BY BindSound DEF Good, Untouched
<1> HIDE DEF a
<1>2. Sound(b) /\ b.snd = a.snd /\ b.rcv = a.rcv
  <2>1. b = SetState(a, "Listening")
    BY DEF BindToServer, a
  <2>2. QED
    BY <1>1, <2>1, SetStateSound DEF SessionStates
<1> HIDE DEF b
<1>3. b.snd.semaphore > 0
  BY <1>1, <1>2, NewSendWindowIntact, WindowAssumption
<1>4. Sound(w) /\ w.snd.nextSequence = b.snd.nextSequence + 1 /\ w.rcv = b.rcv
  BY <1>0, <1>2, <1>3, WriteIntoSendWindowSound DEF MessageTypes
<1> HIDE DEF w
<1>5. Sound(u) /\ u.snd = w.snd /\ u.rcv = NewReceiveWindow /\ u.state = "SynReceived"
  BY <1>1, <1>2, <1>4, SetStateSound DEF SessionStates
<1> HIDE DEF u
<1>6. Sound(t) /\ t.snd = u.snd /\ t.state = "SynReceived"
  BY <1>0, <1>5, StartReceivingSound
<1>7. t = HandleSynMessage(b, m)
  BY DEF HandleSynMessage, t, u, w
<1> HIDE DEF t
<1>8. HandleMessage(b, m) = t
  BY <1>6, <1>7 DEF HandleMessage
<1>9. HandleMessage(BindToServer(s, id), m) = t
  BY <1>8 DEF b
<1>10. QED
  BY <1>1, <1>2, <1>4, <1>5, <1>6, <1>9, NewSendWindowIntact DEF Good, Early

-----------------------------------------------------------------------------
(* The periodic update.                                                    *)

\* Acknowledges what was received since the last acknowledgement.
LEMMA UpdateReceiveWindowEvolves ==
  ASSUME NEW s, Good(s)
  PROVE  LET t == UpdateReceiveWindow(s)
         IN  Evolves(s, t) /\ t.snd = s.snd
<1>1. CASE s.rcv.nextExpected > s.rcv.lastUnacknowledged
  <2>1. s.state # "SynSent"
    <3>1. ~(NewReceiveWindow.nextExpected > NewReceiveWindow.lastUnacknowledged)
      BY DEF NewReceiveWindow
    <3>2. QED
      BY <3>1, <1>1 DEF Good, Early
  <2>2. QED
    BY <2>1, <1>1, SendAckMessageEvolves, SendAckMessageSound DEF UpdateReceiveWindow, Good
<1>2. CASE ~(s.rcv.nextExpected > s.rcv.lastUnacknowledged)
  BY <1>2, EvolvesReflexive DEF UpdateReceiveWindow
<1>3. QED
  BY <1>1, <1>2

\* What goes out is a sequence of messages.
LEMMA TransmissionIsMessages ==
  ASSUME NEW s, Sound(s), NEW first \in Int, NEW n \in Nat
  PROVE  s.out \o Transmission(s, first, n) \in Seq(Messages)
<1>1. ASSUME NEW i \in 1 .. n
      PROVE  Stamp(s, s.snd.messages[Slot(first + i - 1)]) \in Messages
  <2>1. first + i - 1 \in Int
    OBVIOUS
  <2>2. Slot(first + i - 1) \in Index
    BY <2>1, SlotInIndex
  <2>3. s.snd.messages[Slot(first + i - 1)] \in Slots
    BY <2>2 DEF Sound, Calls, SendWindows
  <2>4. QED
    BY <2>3, StampIsMessage
<1>2. Transmission(s, first, n) \in [1 .. n -> Messages]
  BY <1>1, Zenon DEF Transmission
<1>3. Transmission(s, first, n) \in Seq(Messages)
  BY <1>2
<1>4. s.out \in Seq(Messages)
  BY DEF Sound, Calls
<1>5. QED
  BY <1>3, <1>4

\* What of the send window the retransmission leaves alone.
Counters(w) == <<w.nextSequence, w.lastSent, w.lastAvailableSize>>

\* A retransmission changes only the count of retransmissions, or gives up.
LEMMA RetransmitEvolves ==
  ASSUME NEW s, Good(s), NEW k \in Nat
  PROVE  LET t == Retransmit(s, k)
         IN  Evolves(s, t) /\ Counters(t.snd) = Counters(s.snd)
<1> DEFINE x == s.out \o Transmission(s, s.snd.nextUnacknowledged, k)
           w == [s.snd EXCEPT !.retransmitCount = @ + 1]
           resent == [s EXCEPT !.out = x, !.snd = w]
<1>1. Retransmit(s, k) \in {s, Shutdown(s, "NotReady"), Shutdown(s, "Error"), resent}
  <2>1. [s EXCEPT !.out = @ \o Transmission(s, s.snd.nextUnacknowledged, k),
                  !.snd.retransmitCount = @ + 1] = resent
    BY DEF Good, Sound, Calls
  <2> DEFINE y == [s EXCEPT !.out = @ \o Transmission(s, s.snd.nextUnacknowledged, k),
                  !.snd.retransmitCount = @ + 1]
  <2>2. /\ InFlight(s.snd) \in Int /\ s.snd.retransmitCount \in Nat
        /\ InFlight(s.snd) >= 0
    BY DEF InFlight, Good, Sound, Calls, SendWindows, SendWindowIntact
  <2>3. Retransmit(s, k) =
          CASE InFlight(s.snd) = 0 -> s
            [] InFlight(s.snd) > 0 /\ s.snd.retransmitCount > MaxRetransmits ->
                 Shutdown(s, "NotReady")
            [] OTHER ->
                 CASE k = 0 -> s
                   [] k > 0 /\ ~s.linkUp -> Shutdown(s, "Error")
                   [] OTHER -> y
    BY DEF Retransmit
  <2> HIDE DEF y, resent
  <2>4. Retransmit(s, k) \in {s, Shutdown(s, "NotReady"), Shutdown(s, "Error"), y}
    BY <2>2, <2>3
  <2>5. QED
    BY <2>1, <2>4 DEF y
<1>2. x \in Seq(Messages)
  BY TransmissionIsMessages DEF Good, Sound, Calls, SendWindows
<1>3. /\ w \in SendWindows /\ w.nextUnacknowledged = s.snd.nextUnacknowledged
      /\ w.lastSent = s.snd.lastSent /\ w.nextSequence = s.snd.nextSequence
      /\ w.messages = s.snd.messages /\ w.valid = s.snd.valid
      /\ w.semaphore = s.snd.semaphore /\ w.lastAvailableSize = s.snd.lastAvailableSize
  <2>1. s.snd \in SendWindows
    BY DEF Good, Sound, Calls
  <2>2. QED
    BY <2>1 DEF SendWindows
<1> HIDE DEF x, w
<1>4. SendWindowIntact(w)
  BY <1>3 DEF Good, Sound, SendWindowIntact
<1>5. Sound(resent) /\ resent.snd = w /\ resent.rcv = s.rcv /\ resent.state = s.state
  BY <1>2, <1>3, <1>4 DEF Good, Sound, Calls
<1> HIDE DEF resent
<1>6. Evolves(s, resent) /\ Counters(resent.snd) = Counters(s.snd)
  BY <1>3, <1>5, EvolvesIf DEF Counters
<1>7. /\ Evolves(s, Shutdown(s, "NotReady")) /\ Shutdown(s, "NotReady").snd = s.snd
      /\ Evolves(s, Shutdown(s, "Error")) /\ Shutdown(s, "Error").snd = s.snd
  BY ShutdownEvolves, ShutdownSound DEF Good, Reasons
<1>8. Evolves(s, s)
  BY EvolvesReflexive
<1>9. QED
  BY <1>1, <1>6, <1>7, <1>8

\* Transmission moves lastSent, never beyond what was written.
LEMMA TransmitEvolves ==
  ASSUME NEW s, Good(s), NEW n \in Nat, n <= Sendable(s.snd)
  PROVE  Evolves(s, Transmit(s, n))
<1> DEFINE x == s.out \o Transmission(s, s.snd.lastSent + 1, n)
           w == [s.snd EXCEPT !.lastSent = @ + n, !.lastAvailableSize = @ - n]
           sent2 == [s EXCEPT !.out = x, !.snd = w]
<1>0. /\ s.snd.lastSent \in Nat /\ s.snd.lastAvailableSize \in Nat
      /\ s.snd.nextSequence \in Nat \ {0} /\ s.snd \in SendWindows
      /\ s \in Calls /\ SendWindowIntact(s.snd)
  BY DEF Good, Sound, Calls, SendWindows
<1>1. n <= s.snd.lastAvailableSize /\ n <= s.snd.nextSequence - 1 - s.snd.lastSent
  BY <1>0 DEF Sendable
<1>2. Transmit(s, n) \in {s, Shutdown(s, "Error"), sent2}
  <2> DEFINE y == [s EXCEPT !.out = @ \o Transmission(s, s.snd.lastSent + 1, n),
                            !.snd.lastSent = @ + n,
                            !.snd.lastAvailableSize = @ - n]
  <2>1. y = sent2
    BY <1>0 DEF Calls, SendWindows
  <2>2. Transmit(s, n) = CASE n = 0 -> s
                           [] n > 0 /\ ~s.linkUp -> Shutdown(s, "Error")
                           [] OTHER -> y
    BY DEF Transmit
  <2> HIDE DEF y, sent2
  <2>3. QED
    BY <2>1, <2>2
<1>3. x \in Seq(Messages)
  BY <1>0, TransmissionIsMessages DEF Good
<1>4. /\ w \in SendWindows /\ w.nextUnacknowledged = s.snd.nextUnacknowledged
      /\ w.lastSent = s.snd.lastSent + n /\ w.nextSequence = s.snd.nextSequence
      /\ w.messages = s.snd.messages /\ w.valid = s.snd.valid
      /\ w.semaphore = s.snd.semaphore
  <2>1. s.snd.lastSent + n \in Nat /\ s.snd.lastAvailableSize - n \in Nat
    BY <1>0, <1>1
  <2>2. QED
    BY <1>0, <2>1 DEF SendWindows
<1> HIDE DEF x, w
<1>5. SendWindowIntact(w)
  BY <1>0, <1>1, <1>4 DEF SendWindowIntact, SendWindows
<1>6. Sound(sent2) /\ sent2.snd = w /\ sent2.rcv = s.rcv /\ sent2.state = s.state
  BY <1>3, <1>4, <1>5 DEF Good, Sound, Calls
<1> HIDE DEF sent2
<1>7. Evolves(s, sent2)
  BY <1>4, <1>6, EvolvesIf
<1>8. QED
  BY <1>2, <1>7, ShutdownEvolves, EvolvesReflexive DEF Reasons

\* The Fin is written when there is room; then the session may close.
LEMMA UpdateTimeoutEvolves ==
  ASSUME NEW s, Good(s), ~FinBlocks(s)
  PROVE  Evolves(s, UpdateTimeout(s))
<1> DEFINE w == WriteMessageIntoSendWindow(s, "Fin", 0)
           t == IF s.state = "FinWait1" THEN SetState(w, "FinWait2") ELSE s
<1>1. ASSUME s.state = "FinWait1" PROVE Evolves(s, t)
  <2>1. s.snd.semaphore > 0
    BY <1>1 DEF FinBlocks, Good, Sound, Calls, SendWindows
  <2>2. Sound(w) /\ w.snd.nextSequence = s.snd.nextSequence + 1
    BY <2>1, WriteIntoSendWindowSound DEF Good, MessageTypes
  <2> HIDE DEF w
  <2>3. Sound(t) /\ t.snd = w.snd /\ t.state = "FinWait2"
    BY <1>1, <2>2, SetStateSound DEF SessionStates
  <2> HIDE DEF t
  <2>4. QED
    BY <1>1, <2>2, <2>3, EvolvesIf
<1>2. ASSUME s.state # "FinWait1" PROVE Evolves(s, t)
  BY <1>2, EvolvesReflexive
<1>3. Evolves(s, t)
  BY <1>1, <1>2
<1>4. UpdateTimeout(s) \in {t, SetState(t, "Closed")}
  BY DEF UpdateTimeout
<1> HIDE DEF t
<1>5. Evolves(s, SetState(t, "Closed"))
  BY <1>3, SetStateSound DEF Evolves, Good, Early, SessionStates
<1>6. QED
  BY <1>3, <1>4, <1>5

\* Losing the owner leaves the windows alone.
LEMMA OrphanEvolves ==
  ASSUME NEW s, Good(s)
  PROVE  Evolves(s, Orphan(s)) /\ Orphan(s).state = s.state
<1>1. Sound(Orphan(s)) /\ Orphan(s).snd = s.snd /\ Orphan(s).rcv = s.rcv
      /\ Orphan(s).state = s.state
  BY DEF Orphan, Good, Sound, Calls
<1>2. QED
  BY <1>1, EvolvesIf

\* The end of an update.
LEMMA NotifyOwnerEvolves ==
  ASSUME NEW s, Good(s)
  PROVE  Evolves(s, NotifyOwner(s))
<1> DEFINE t == IF s.state \in Open /\ ~s.owner THEN Shutdown(s, "Error") ELSE s
<1>1. Evolves(s, t)
  BY ShutdownEvolves, EvolvesReflexive DEF Reasons
<1>2. NotifyOwner(s) \in {t, Orphan(t)}
  BY DEF NotifyOwner
<1> HIDE DEF t
<1>3. Evolves(t, Orphan(t))
  BY <1>1, OrphanEvolves DEF Evolves
<1>4. QED
  BY <1>1, <1>2, <1>3, EvolvesTransitive

-----------------------------------------------------------------------------
(* The calls of the owner.                                                 *)

\* Close is Orphan and Shutdown.
LEMMA CloseEvolves ==
  ASSUME NEW s, Good(s), NEW reason \in Reasons
  PROVE  Evolves(s, Close(s, reason))
BY OrphanEvolves, ShutdownEvolves, EvolvesTransitive DEF Close, Evolves

\* Send writes into a free slot.
LEMMA SendEvolves ==
  ASSUME NEW s, Good(s), CanSend(s), NEW data \in Nat
  PROVE  Evolves(s, WriteMessageIntoSendWindow(s, "Data", data))
<1> DEFINE t == WriteMessageIntoSendWindow(s, "Data", data)
<1>1. /\ Sound(t) /\ t.snd.nextSequence = s.snd.nextSequence + 1
      /\ t.rcv = s.rcv /\ t.state = s.state
  BY WriteIntoSendWindowSound DEF Good, CanSend, MessageTypes
<1> HIDE DEF t
<1>2. Evolves(s, t)
  BY <1>1, EvolvesIf
<1>3. QED
  BY <1>2 DEF t

\* Receive frees the slot of the message it returns; the slot is next used
\* for the message a window later.
LEMMA ReceiveEvolves ==
  ASSUME NEW s, Good(s), CanReceive(s)
  PROVE  Evolves(s, Receive(s))
<1> DEFINE r == s.rcv
           v == [r.valid EXCEPT ![Slot(r.nextUnread)] = FALSE]
           r1 == [r EXCEPT !.semaphore = @ - 1,
                           !.valid = v,
                           !.nextUnread = @ + 1]
           r2 == [r1 EXCEPT !.currentAvailableSize = CurrentWindowSize(r1)]
           t == [s EXCEPT !.rcv = r2]
<1>1. /\ r \in ReceiveWindows /\ ReadWindowIntact(r) /\ s \in Calls /\ Sound(s)
      /\ r.nextUnread \in Nat \ {0} /\ r.nextExpected \in Nat \ {0}
      /\ r.semaphore \in 1 .. WindowSize
      /\ r.messages \in [Index -> Slots] /\ r.valid \in [Index -> BOOLEAN]
      /\ WindowSize \in Nat \ {0} /\ r.nextUnread < r.nextExpected
  BY WindowAssumption DEF Good, Sound, Calls, ReceiveWindows, ReadWindowIntact, CanReceive
<1>2. Slot(r.nextUnread) \in Index
  BY <1>1, SlotInIndex
<1>3. v \in [Index -> BOOLEAN] /\ v[Slot(r.nextUnread)] = FALSE
      /\ \A i \in Index : i # Slot(r.nextUnread) => v[i] = r.valid[i]
  BY <1>1, <1>2
<1>4. Receive(s) \in {t, SetState(t, "Closed")}
  <2> DEFINE u == [r EXCEPT !.semaphore = @ - 1,
                            !.valid[Slot(r.nextUnread)] = FALSE,
                            !.nextUnread = @ + 1]
  <2>1. u = r1
    BY <1>1 DEF ReceiveWindows
  <2>2. Receive(s) \in {[s EXCEPT !.rcv = [u EXCEPT !.currentAvailableSize = CurrentWindowSize(u)]],
           SetState([s EXCEPT !.rcv = [u EXCEPT !.currentAvailableSize = CurrentWindowSize(u)]], "Closed")}
    BY DEF Receive
  <2>3. QED
    BY <2>1, <2>2
<1> HIDE DEF v
<1>5. /\ r1 \in ReceiveWindows /\ r1.messages = r.messages /\ r1.valid = v
      /\ r1.semaphore = r.semaphore - 1 /\ r1.nextUnread = r.nextUnread + 1
      /\ r1.nextExpected = r.nextExpected
      /\ r1.lastUnacknowledged = r.lastUnacknowledged
  <2>1. r.semaphore - 1 \in 0 .. WindowSize /\ r.nextUnread + 1 \in Nat \ {0}
    BY <1>1
  <2>2. QED
    BY <1>1, <1>3, <2>1 DEF ReceiveWindows
<1> HIDE DEF r1
<1>6. ReadWindowIntact(r1)
  <2>1. ASSUME NEW q \in r1.nextUnread .. (r.nextUnread + WindowSize - 1)
        PROVE  Slot(q) \in Index /\ Slot(q) # Slot(r.nextUnread)
    BY <1>1, <1>5, SlotInIndex, SlotsDiffer
  <2>2. \A q \in r1.nextUnread .. (r1.nextExpected - 1) : r1.valid[Slot(q)]
    <3> SUFFICES ASSUME NEW q \in r1.nextUnread .. (r1.nextExpected - 1)
                 PROVE  v[Slot(q)]
      BY <1>5
    <3>1. /\ q \in r1.nextUnread .. (r.nextUnread + WindowSize - 1)
          /\ q \in r.nextUnread .. (r.nextExpected - 1)
      BY <1>1, <1>5 DEF ReadWindowIntact
    <3>2. r.valid[Slot(q)]
      BY <3>1, <1>1 DEF ReadWindowIntact
    <3>3. QED
      BY <3>1, <3>2, <2>1, <1>3
  <2>3. \A q \in r1.nextUnread .. (r1.nextUnread + WindowSize - 1) :
          r1.valid[Slot(q)] => r1.messages[Slot(q)].seq = q
    <3> SUFFICES ASSUME NEW q \in r1.nextUnread .. (r1.nextUnread + WindowSize - 1),
                        v[Slot(q)]
                 PROVE  r.messages[Slot(q)].seq = q
      BY <1>5
    <3>1. CASE q = r.nextUnread + WindowSize
      BY <3>1, <1>1, <1>3, SlotsRepeat
    <3>2. CASE q # r.nextUnread + WindowSize
      <4>1. /\ q \in r1.nextUnread .. (r.nextUnread + WindowSize - 1)
            /\ q \in r.nextUnread .. (r.nextUnread + WindowSize - 1)
        BY <3>2, <1>1, <1>5
      <4>2. r.valid[Slot(q)]
        BY <4>1, <2>1, <1>3
      <4>3. QED
        BY <4>1, <4>2, <1>1 DEF ReadWindowIntact
    <3>3. QED
      BY <3>1, <3>2
  <2>4. /\ r1.semaphore = r1.nextExpected - r1.nextUnread
        /\ r1.lastUnacknowledged <= r1.nextExpected
    BY <1>1, <1>5 DEF ReadWindowIntact
  <2>5. QED
    BY <2>2, <2>3, <2>4 DEF ReadWindowIntact
<1>7. CurrentWindowSize(r1) \in 1 .. WindowSize
  BY <1>5, <1>6, CurrentWindowSizeRange
<1>8. /\ r2 \in ReceiveWindows /\ r2.messages = r1.messages /\ r2.valid = r1.valid
      /\ r2.semaphore = r1.semaphore /\ r2.nextUnread = r1.nextUnread
      /\ r2.nextExpected = r1.nextExpected
      /\ r2.lastUnacknowledged = r1.lastUnacknowledged
  BY <1>5, <1>7 DEF ReceiveWindows
<1> HIDE DEF r2
<1>9. ReadWindowIntact(r2)
  BY <1>6, <1>8 DEF ReadWindowIntact
<1>10. Sound(t) /\ t.snd = s.snd /\ t.state = s.state
  BY <1>1, <1>8, <1>9, ReplaceReceiveWindow
<1> HIDE DEF t
<1>11. Sound(SetState(t, "Closed")) /\ SetState(t, "Closed").snd = s.snd
       /\ SetState(t, "Closed").state = "Closed"
  BY <1>10, SetStateSound DEF SessionStates
<1>12. s.state # "SynSent" /\ s.state # "Closed"
  BY DEF CanReceive, Open
<1>13. QED
  BY <1>4, <1>10, <1>11, <1>12, EvolvesIf

-----------------------------------------------------------------------------
(* The inductive invariant.                                                *)

Wire == [Nodes -> Seq(Messages)]

\* A session object whose sequence numbers have not moved is as constructed,
\* and no manager has it in its table.
FreshIsUntouched ==
  \A e \in Objects :
    session[e].snd.nextSequence = 1 => Untouched(session[e]) /\ ~InTable(e)

IInv ==
  /\ TypeOK
  /\ \A e \in Objects : Good(session[e])
  /\ FreshIsUntouched

\* What a step may do to one session object: take a call, or be bound or
\* connected for the first time.
StepOK(e) ==
  \/ /\ Evolves(session[e], session'[e])
     /\ session'[e].snd.nextSequence = 1
          => Untouched(session'[e]) /\ key'[e] = InvalidSessionId
  \/ /\ Fresh(e)
     /\ Good(session'[e])
     /\ session'[e].snd.nextSequence > 1

SessionsOK == session' \in [Objects -> Sessions] /\ \A e \in Objects : StepOK(e)

\* The invariant holds of the initial state.
LEMMA InitIInv == Init => IInv
<1> SUFFICES ASSUME Init PROVE IInv
  OBVIOUS
<1>1. session \in [Objects -> Sessions] /\ \A e \in Objects : session[e] = NewSession
  BY NewSessionGood DEF Init
<1>2. 0 \in 0 .. MaxFaults
  BY ManagerAssumption
<1>3. << >> \in Seq(Messages) /\ << >> \in Seq(Nat)
  OBVIOUS
<1>4. InvalidSessionId \in Ids
  BY DEF Ids
<1>5. TypeOK
  BY <1>1, <1>2, <1>3, <1>4 DEF TypeOK, Init, ThreadStates
<1>6. \A e \in Objects : Good(session[e]) /\ Untouched(session[e]) /\ ~InTable(e)
  BY <1>1, NewSessionGood DEF Init, InTable
<1>7. QED
  BY <1>5, <1>6 DEF IInv, FreshIsUntouched

\* An object that a step leaves alone.
LEMMA SameStep ==
  ASSUME IInv, NEW e \in Objects, session'[e] = session[e], key'[e] = key[e]
  PROVE  StepOK(e)
<1>1. Evolves(session[e], session[e])
  BY EvolvesReflexive DEF IInv
<1>2. QED
  BY <1>1 DEF StepOK, IInv, FreshIsUntouched, InTable

\* An object in use that takes a call.
LEMMA TouchedStep ==
  ASSUME IInv, NEW e \in Objects, session[e].snd.nextSequence # 1,
         Evolves(session[e], session'[e])
  PROVE  StepOK(e)
<1>1. session[e].snd.nextSequence \in Nat \ {0} /\ session'[e].snd.nextSequence \in Nat \ {0}
  BY DEF IInv, Evolves, Good, Sound, Calls, SendWindows
<1>2. session'[e].snd.nextSequence # 1
  BY <1>1 DEF Evolves
<1>3. QED
  BY <1>2 DEF StepOK

\* What a call forwarded is on the wire, not in the session any more.
LEMMA ForgetOut ==
  ASSUME NEW s, Good(s)
  PROVE  LET t == [s EXCEPT !.out = << >>]
         IN  /\ t \in Sessions /\ Evolves(s, t)
             /\ t.snd = s.snd /\ t.state = s.state
<1> DEFINE t == [s EXCEPT !.out = << >>]
<1>1. t \in Sessions /\ t.snd = s.snd /\ t.rcv = s.rcv /\ t.state = s.state
  BY DEF Good, Sound, Calls, Sessions
<1> HIDE DEF t
<1>2. Sound(t)
  BY <1>1, SessionsAreCalls DEF Good, Sound
<1>3. Evolves(s, t)
  BY <1>1, <1>2, EvolvesIf
<1>4. QED
  BY <1>1, <1>3 DEF t

\* One session in use takes a call, the others are left alone.
LEMMA StoreTouched ==
  ASSUME IInv, NEW e \in Objects, session[e].snd.nextSequence # 1,
         NEW s, Evolves(session[e], s), Store(e, s),
         \A f \in Objects \ {e} : key'[f] = key[f]
  PROVE  SessionsOK
<1> DEFINE t == [s EXCEPT !.out = << >>]
<1>1. t \in Sessions /\ Evolves(s, t)
  BY ForgetOut DEF Evolves
<1>2. session' = [session EXCEPT ![e] = t] /\ session \in [Objects -> Sessions]
  BY DEF Store, IInv, TypeOK
<1> HIDE DEF t
<1>3. session' \in [Objects -> Sessions] /\ session'[e] = t
      /\ \A f \in Objects \ {e} : session'[f] = session[f]
  BY <1>1, <1>2
<1>4. Evolves(session[e], t)
  BY <1>1, EvolvesTransitive DEF IInv
<1>5. StepOK(e)
  BY <1>3, <1>4, TouchedStep
<1>6. \A f \in Objects \ {e} : StepOK(f)
  BY <1>3, SameStep
<1>7. QED
  BY <1>3, <1>5, <1>6 DEF SessionsOK

\* One session is used for the first time, the others are left alone.
LEMMA StoreFresh ==
  ASSUME IInv, NEW e \in Objects, Fresh(e),
         NEW s, Good(s), s.snd.nextSequence = 2, Store(e, s),
         \A f \in Objects \ {e} : key'[f] = key[f]
  PROVE  SessionsOK
<1> DEFINE t == [s EXCEPT !.out = << >>]
<1>1. t \in Sessions /\ Good(t) /\ t.snd.nextSequence = 2
  BY ForgetOut DEF Evolves
<1>2. session' = [session EXCEPT ![e] = t] /\ session \in [Objects -> Sessions]
  BY DEF Store, IInv, TypeOK
<1> HIDE DEF t
<1>3. session' \in [Objects -> Sessions] /\ session'[e] = t
      /\ \A f \in Objects \ {e} : session'[f] = session[f]
  BY <1>1, <1>2
<1>4. StepOK(e)
  BY <1>1, <1>3 DEF StepOK
<1>5. \A f \in Objects \ {e} : StepOK(f)
  BY <1>3, SameStep
<1>6. QED
  BY <1>3, <1>4, <1>5 DEF SessionsOK

\* A session object that is in a table, or not closed, is in use.
LEMMA InUseIsTouched ==
  ASSUME IInv, NEW e \in Objects, InTable(e) \/ session[e].state # "Closed"
  PROVE  session[e].snd.nextSequence # 1
BY DEF IInv, FreshIsUntouched, Untouched

\* Every session in a table may take a call at once.
LEMMA EachMayStep ==
  ASSUME IInv, UNCHANGED key,
         session' = [e \in Objects |-> session'[e]],
         \A e \in Objects :
           \/ session'[e] = session[e]
           \/ /\ InTable(e) \/ session[e].state # "Closed"
              /\ Evolves(session[e], session'[e]) /\ session'[e].out = << >>
  PROVE  SessionsOK
<1>1. ASSUME NEW e \in Objects PROVE StepOK(e) /\ session'[e] \in Sessions
  <2>0. session[e] \in Sessions /\ key'[e] = key[e]
    BY DEF IInv, TypeOK
  <2>1. CASE session'[e] = session[e]
    BY <2>0, <2>1, SameStep
  <2>2. CASE /\ InTable(e) \/ session[e].state # "Closed"
             /\ Evolves(session[e], session'[e]) /\ session'[e].out = << >>
    <3>1. StepOK(e)
      BY <2>2, InUseIsTouched, TouchedStep
    <3>2. session'[e] \in Sessions
      BY <2>2 DEF Evolves, Good, Sound, Calls, Sessions
    <3>3. QED
      BY <3>1, <3>2
  <2>3. QED
    BY <1>1, <2>1, <2>2
<1>2. session' \in [Objects -> Sessions]
  <2>1. \A e \in Objects : session'[e] \in Sessions
    BY <1>1
  <2> DEFINE f == [e \in Objects |-> session'[e]]
  <2>2. f \in [Objects -> Sessions]
    BY <2>1
  <2>3. QED
    BY <2>2
<1>3. QED
  BY <1>1, <1>2 DEF SessionsOK

-----------------------------------------------------------------------------
(* The channel.                                                            *)

\* Messages go in at the end of the queue of the peer.
LEMMA ExchangeType ==
  ASSUME net \in Wire, NEW n \in Nodes, NEW rest \in Seq(Messages),
         NEW out \in Seq(Messages), Exchange(n, rest, out)
  PROVE  net' \in Wire
<1>1. Remote(n) \in Nodes /\ Remote(n) # n
  BY DEF Remote, Nodes
<1>2. net[Remote(n)] \o out \in Seq(Messages)
  BY <1>1 DEF Wire
<1>3. \/ net' = [net EXCEPT ![n] = rest, ![Remote(n)] = @ \o out]
      \/ net' = [net EXCEPT ![n] = rest, ![Remote(n)] = << >>]
  BY DEF Exchange
<1>4. << >> \in Seq(Messages)
  OBVIOUS
<1>5. QED
  BY <1>1, <1>2, <1>3, <1>4 DEF Wire

\* A queue that loses one of its messages.
LEMMA RemoveAtType ==
  ASSUME NEW q \in Seq(Messages), NEW i \in 1 .. Len(q)
  PROVE  RemoveAt(q, i) \in Seq(Messages)
BY DEF RemoveAt

\* A Rst is a message.
LEMMA ResetMessageType ==
  ASSUME NEW id \in Ids PROVE ResetMessage(id) \in Messages
BY DEF ResetMessage, Messages, MessageTypes

-----------------------------------------------------------------------------
(* The actions: one lemma for each that changes a session.                 *)

\* The client connects.
LEMMA EstablishSessionForClientOK == IInv /\ EstablishSessionForClient => TypeOK' /\ SessionsOK
<1> SUFFICES ASSUME IInv, EstablishSessionForClient PROVE TypeOK' /\ SessionsOK
  OBVIOUS
<1> USE DEF EstablishSessionForClient
<1>0. Client \in Objects /\ Client \in Ids
  BY ManagerAssumption DEF Objects, Ids
<1>1. Untouched(session[Client]) /\ Good(session[Client])
  BY <1>0 DEF IInv, FreshIsUntouched, Fresh
<1>2. Good(Connect(session[Client], Client))
      /\ Connect(session[Client], Client).snd.nextSequence = 2
  BY <1>0, <1>1, ConnectGood
<1>3. key' \in [Objects -> Ids] /\ \A f \in Objects \ {Client} : key'[f] = key[f]
  BY <1>0 DEF IInv, TypeOK
<1>4. SessionsOK
  BY <1>0, <1>2, <1>3, StoreFresh
<1>5. QED
  BY <1>3, <1>4 DEF IInv, TypeOK, SessionsOK

\* The owner sends.
LEMMA SendOK == ASSUME NEW e \in Objects PROVE IInv /\ Send(e) => TypeOK' /\ SessionsOK
<1> SUFFICES ASSUME IInv, Send(e) PROVE TypeOK' /\ SessionsOK
  OBVIOUS
<1> USE DEF Send
<1>1. Good(session[e]) /\ session[e].snd.nextSequence # 1
  BY InUseIsTouched DEF IInv, InUse, Open
<1>2. sent[e] + 1 \in Nat
  BY DEF IInv, TypeOK
<1>3. Evolves(session[e], WriteMessageIntoSendWindow(session[e], "Data", sent[e] + 1))
  BY <1>1, <1>2, SendEvolves
<1>4. SessionsOK
  BY <1>1, <1>3, StoreTouched
<1>5. sent' \in [Objects -> Nat]
  BY <1>2 DEF IInv, TypeOK
<1>6. QED
  BY <1>4, <1>5 DEF IInv, TypeOK, SessionsOK

\* The owner receives.
LEMMA ReceiveNextOK == ASSUME NEW e \in Objects PROVE IInv /\ ReceiveNext(e) => TypeOK' /\ SessionsOK
<1> SUFFICES ASSUME IInv, ReceiveNext(e) PROVE TypeOK' /\ SessionsOK
  OBVIOUS
<1> USE DEF ReceiveNext
<1>1. Good(session[e]) /\ session[e].snd.nextSequence # 1
  BY InUseIsTouched DEF IInv, InUse, Open
<1>2. Evolves(session[e], Receive(session[e]))
  BY <1>1, ReceiveEvolves
<1>3. SessionsOK
  BY <1>1, <1>2, StoreTouched
<1>4. NextUnread(session[e]).data \in Nat
  <2>1. Slot(session[e].rcv.nextUnread) \in Index
    BY <1>1, SlotInIndex DEF Good, Sound, Calls, ReceiveWindows
  <2>2. NextUnread(session[e]) \in Slots
    BY <1>1, <2>1 DEF NextUnread, Good, Sound, Calls, ReceiveWindows
  <2>3. QED
    BY <2>2 DEF Slots
<1>5. delivered' \in [Objects -> Seq(Nat)] /\ ended' \in [Objects -> BOOLEAN]
  <2>1. Append(delivered[e], NextUnread(session[e]).data) \in Seq(Nat)
    BY <1>4 DEF IInv, TypeOK
  <2>2. delivered \in [Objects -> Seq(Nat)] /\ ended \in [Objects -> BOOLEAN]
    BY DEF IInv, TypeOK
  <2>3. CASE NextUnread(session[e]).type = "Data"
    BY <2>1, <2>2, <2>3
  <2>4. CASE NextUnread(session[e]).type # "Data"
    BY <2>2, <2>4
  <2>5. QED
    BY <2>3, <2>4
<1>6. QED
  BY <1>3, <1>5 DEF IInv, TypeOK, SessionsOK

\* The client disconnects.
LEMMA DisconnectOK == IInv /\ Disconnect => TypeOK' /\ SessionsOK
<1> SUFFICES ASSUME IInv, Disconnect PROVE TypeOK' /\ SessionsOK
  OBVIOUS
<1> USE DEF Disconnect
<1>0. Client \in Objects
  BY DEF Objects
<1>1. Good(session[Client]) /\ session[Client].snd.nextSequence # 1
  BY <1>0, InUseIsTouched DEF IInv, Open
<1>2. Evolves(session[Client], Shutdown(session[Client], "Success"))
  BY <1>1, ShutdownEvolves DEF Reasons
<1>3. SessionsOK
  BY <1>0, <1>1, <1>2, StoreTouched
<1>4. QED
  BY <1>3 DEF IInv, TypeOK, SessionsOK

\* The client is destroyed.
LEMMA CloseClientOK == IInv /\ CloseClient => TypeOK' /\ SessionsOK
<1> SUFFICES ASSUME IInv, CloseClient PROVE TypeOK' /\ SessionsOK
  OBVIOUS
<1> USE DEF CloseClient
<1>0. Client \in Objects
  BY DEF Objects
<1>1. Good(session[Client]) /\ session[Client].snd.nextSequence # 1
  BY <1>0, InUseIsTouched DEF IInv, Open
<1>2. Evolves(session[Client], Close(session[Client], "Success"))
  BY <1>1, CloseEvolves DEF Reasons
<1>3. SessionsOK
  BY <1>0, <1>1, <1>2, StoreTouched
<1>4. QED
  BY <1>3 DEF IInv, TypeOK, SessionsOK

\* Neither Shutdown nor Close forwards anything.
LEMMA NothingForwarded ==
  ASSUME NEW s, s \in Sessions, NEW reason \in Reasons
  PROVE  Shutdown(s, reason).out = << >> /\ Close(s, reason).out = << >>
BY DEF Sessions, Shutdown, Close, Orphan, SetState

\* The protocol server is unregistered.
LEMMA UnregisterProtocolServerOK == IInv /\ UnregisterProtocolServer => TypeOK' /\ SessionsOK
<1> SUFFICES ASSUME IInv, UnregisterProtocolServer PROVE TypeOK' /\ SessionsOK
  OBVIOUS
<1> USE DEF UnregisterProtocolServer
<1>1. ASSUME NEW e \in Objects
      PROVE  \/ session'[e] = session[e]
             \/ /\ InTable(e) \/ session[e].state # "Closed"
                /\ Evolves(session[e], session'[e]) /\ session'[e].out = << >>
  <2>1. Good(session[e]) /\ session[e] \in Sessions
    BY DEF IInv, TypeOK
  <2>2. Evolves(session[e], Close(session[e], "Success"))
        /\ Close(session[e], "Success").out = << >>
    BY <2>1, CloseEvolves, NothingForwarded DEF Reasons
  <2>3. session'[e] = IF e \in Servers /\ InTable(e) /\ session[e].owner
                        THEN Close(session[e], "Success") ELSE session[e]
    OBVIOUS
  <2>4. QED
    BY <2>2, <2>3
<1>2. session' = [e \in Objects |-> session'[e]]
  OBVIOUS
<1>3. SessionsOK
  BY <1>1, <1>2, EachMayStep
<1>4. QED
  BY <1>3 DEF IInv, TypeOK, SessionsOK

\* Every session of a node is shut down.
LEMMA ShutdownAllOK ==
  ASSUME NEW n \in Nodes, NEW reason \in Reasons
  PROVE  IInv /\ ShutdownAll(n, reason) /\ UNCHANGED key => SessionsOK
<1> SUFFICES ASSUME IInv, ShutdownAll(n, reason), UNCHANGED key PROVE SessionsOK
  OBVIOUS
<1> USE DEF ShutdownAll
<1>1. ASSUME NEW e \in Objects
      PROVE  \/ session'[e] = session[e]
             \/ /\ InTable(e) \/ session[e].state # "Closed"
                /\ Evolves(session[e], session'[e]) /\ session'[e].out = << >>
  <2>1. Good(session[e]) /\ session[e] \in Sessions
    BY DEF IInv, TypeOK
  <2>2. Evolves(session[e], Shutdown(session[e], reason))
        /\ Shutdown(session[e], reason).out = << >>
    BY <2>1, ShutdownEvolves, NothingForwarded
  <2>3. session'[e] = IF Node(e) = n /\ InTable(e)
                        THEN Shutdown(session[e], reason) ELSE session[e]
    OBVIOUS
  <2>4. QED
    BY <2>2, <2>3
<1>2. session' = [e \in Objects |-> session'[e]]
  OBVIOUS
<1>3. QED
  BY <1>1, <1>2, EachMayStep

\* A manager is destroyed.
LEMMA DestroyOK == ASSUME NEW n \in Nodes PROVE IInv /\ Destroy(n) => TypeOK' /\ SessionsOK
<1> SUFFICES ASSUME IInv, Destroy(n) PROVE TypeOK' /\ SessionsOK
  OBVIOUS
<1>1. SessionsOK
  BY ShutdownAllOK DEF Destroy, Reasons
<1>2. QED
  BY <1>1 DEF IInv, TypeOK, SessionsOK, Destroy

\* Destroy returns.
LEMMA DestroyReturnsOK ==
  ASSUME NEW n \in Nodes PROVE IInv /\ DestroyReturns(n) => TypeOK' /\ SessionsOK
<1> SUFFICES ASSUME IInv, DestroyReturns(n) PROVE TypeOK' /\ SessionsOK
  OBVIOUS
<1> USE DEF DestroyReturns
<1>1. SessionsOK
  BY SameStep DEF IInv, TypeOK, SessionsOK
<1>2. net' \in Wire
  <2>1. << >> \in Seq(Messages)
    OBVIOUS
  <2>2. QED
    BY <2>1 DEF IInv, TypeOK, Wire
<1>3. thread' \in [Nodes -> ThreadStates]
  BY DEF IInv, TypeOK, ThreadStates
<1>4. QED
  BY <1>1, <1>2, <1>3 DEF IInv, TypeOK, SessionsOK, Wire

\* A fault is counted.
LEMMA FaultType == ASSUME TypeOK, NEW kind, Fault(kind) PROVE faults' \in 0 .. MaxFaults
BY ManagerAssumption DEF TypeOK, Fault

\* The peer is gone.
LEMMA HandleClientDisconnectionOK ==
  ASSUME NEW n \in Nodes PROVE IInv /\ HandleClientDisconnection(n) => TypeOK' /\ SessionsOK
<1> SUFFICES ASSUME IInv, HandleClientDisconnection(n) PROVE TypeOK' /\ SessionsOK
  OBVIOUS
<1>1. SessionsOK
  BY ShutdownAllOK DEF HandleClientDisconnection, Reasons
<1>2. faults' \in 0 .. MaxFaults
  BY FaultType DEF IInv, HandleClientDisconnection
<1>3. QED
  BY <1>1, <1>2 DEF IInv, TypeOK, SessionsOK, HandleClientDisconnection

\* The link of a node goes down.
LEMMA LinkDownOK == ASSUME NEW n \in Nodes PROVE IInv /\ LinkDown(n) => TypeOK' /\ SessionsOK
<1> SUFFICES ASSUME IInv, LinkDown(n) PROVE TypeOK' /\ SessionsOK
  OBVIOUS
<1> USE DEF LinkDown
<1>1. ASSUME NEW e \in Objects PROVE session'[e] \in Sessions /\ StepOK(e)
  <2>1. CASE Node(e) # n
    <3>1. session'[e] = session[e] /\ key'[e] = key[e]
      BY <2>1
    <3>2. QED
      BY <3>1, SameStep DEF IInv, TypeOK
  <2>2. CASE Node(e) = n
    <3> DEFINE t == [session[e] EXCEPT !.linkUp = FALSE]
    <3>1. session'[e] = t
      BY <2>2
    <3>2. Good(session[e]) /\ session[e] \in Sessions
      BY DEF IInv, TypeOK
    <3>3. /\ t \in Sessions /\ t.snd = session[e].snd /\ t.rcv = session[e].rcv
          /\ t.state = session[e].state /\ t.out = session[e].out
      BY <3>2 DEF Sessions
    <3> HIDE DEF t
    <3>4. Sound(t)
      BY <3>2, <3>3, SessionsAreCalls DEF Good, Sound
    <3>5. Evolves(session[e], t)
      BY <3>2, <3>3, <3>4, EvolvesIf
    <3>6. session[e].snd.nextSequence = 1 => Untouched(t) /\ key'[e] = InvalidSessionId
      BY <3>3 DEF IInv, FreshIsUntouched, Untouched, InTable
    <3>7. StepOK(e)
      BY <3>1, <3>3, <3>5, <3>6 DEF StepOK
    <3>8. QED
      BY <3>1, <3>3, <3>7
  <2>3. QED
    BY <2>1, <2>2
<1>2. faults' \in 0 .. MaxFaults
  BY FaultType DEF IInv
<1>3. session' \in [Objects -> Sessions]
  <2>1. \A e \in Objects : session'[e] \in Sessions
    BY <1>1
  <2> DEFINE f == [e \in Objects |-> session'[e]]
  <2>2. f \in [Objects -> Sessions]
    BY <2>1
  <2>3. session' = f
    OBVIOUS
  <2>4. QED
    BY <2>2, <2>3
<1>4. QED
  BY <1>1, <1>2, <1>3 DEF IInv, TypeOK, SessionsOK

\* A datagram is lost.
LEMMA DropOK == ASSUME NEW n \in Nodes PROVE IInv /\ Drop(n) => TypeOK' /\ SessionsOK
<1> SUFFICES ASSUME IInv, Drop(n) PROVE TypeOK' /\ SessionsOK
  OBVIOUS
<1>1. net' \in Wire
  <2>1. PICK i \in 1 .. Len(net[n]) : net' = [net EXCEPT ![n] = RemoveAt(net[n], i)]
    BY DEF Drop
  <2>2. net \in Wire
    BY DEF IInv, TypeOK, Wire
  <2>3. RemoveAt(net[n], i) \in Seq(Messages)
    BY <2>2, RemoveAtType DEF Wire
  <2>4. QED
    BY <2>1, <2>2, <2>3 DEF Wire
<1>2. faults' \in 0 .. MaxFaults
  BY FaultType DEF IInv, Drop
<1>3. SessionsOK
  BY SameStep DEF IInv, TypeOK, SessionsOK, Drop
<1>4. QED
  BY <1>1, <1>2, <1>3 DEF IInv, TypeOK, SessionsOK, Drop, Wire

-----------------------------------------------------------------------------
(* Messages and updates.                                                   *)

\* What the handling of a message does to sessions, tables and the channel.
Handled == SessionsOK /\ key' \in [Objects -> Ids] /\ net' \in Wire

\* A Syn makes a new session.
LEMMA AcceptSynOK ==
  ASSUME NEW n \in Nodes, NEW m \in Messages, m.type = "Syn",
         NEW rest \in Seq(Messages)
  PROVE  IInv /\ AcceptSyn(n, m, rest) => Handled
<1> SUFFICES ASSUME IInv, AcceptSyn(n, m, rest) PROVE Handled
  OBVIOUS
<1>1. PICK e \in Servers :
        \E s \in {HandleMessage(BindToServer(session[e], e), m)} :
          /\ Fresh(e)
          /\ Store(e, s)
          /\ key' = [key EXCEPT ![e] = e]
          /\ Exchange(n, rest, s.out)
  BY DEF AcceptSyn
<1> DEFINE s == HandleMessage(BindToServer(session[e], e), m)
<1>2. /\ Fresh(e) /\ Store(e, s) /\ key' = [key EXCEPT ![e] = e]
      /\ Exchange(n, rest, s.out)
  BY <1>1
<1>3. e \in Objects /\ e \in Ids
  BY ManagerAssumption DEF Objects, Ids
<1>4. Good(session[e]) /\ Untouched(session[e])
  BY <1>2, <1>3 DEF IInv, FreshIsUntouched, Fresh
<1>5. Good(s) /\ s.snd.nextSequence = 2
  BY <1>3, <1>4, AcceptSynGood
<1> HIDE DEF s
<1>6. key' \in [Objects -> Ids] /\ \A f \in Objects \ {e} : key'[f] = key[f]
  BY <1>2, <1>3 DEF IInv, TypeOK
<1>7. SessionsOK
  BY <1>2, <1>3, <1>5, <1>6, StoreFresh
<1>8. net' \in Wire
  BY <1>2, <1>5, ExchangeType DEF IInv, TypeOK, Good, Sound, Calls, Wire
<1>9. QED
  BY <1>6, <1>7, <1>8 DEF Handled

\* A Rst, or nothing, answers a message for which there is no session.
LEMMA SendResetOK ==
  ASSUME NEW n \in Nodes, NEW id \in Ids, NEW rest \in Seq(Messages)
  PROVE  IInv /\ SendReset(n, id, rest) => Handled
<1> SUFFICES ASSUME IInv, SendReset(n, id, rest) PROVE Handled
  OBVIOUS
<1> DEFINE out == IF LinkIsUp(n) THEN <<ResetMessage(id)>> ELSE << >>
<1>1. out \in Seq(Messages)
  BY ResetMessageType
<1>2. Exchange(n, rest, out) /\ UNCHANGED <<session, key>>
  BY DEF SendReset
<1> HIDE DEF out
<1>3. net' \in Wire
  BY <1>1, <1>2, ExchangeType DEF IInv, TypeOK, Wire
<1>4. SessionsOK
  BY <1>2, SameStep DEF IInv, TypeOK, SessionsOK
<1>5. QED
  BY <1>2, <1>3, <1>4 DEF IInv, TypeOK, Handled

\* A message that nobody takes.
LEMMA IgnoredOK ==
  ASSUME NEW n \in Nodes, NEW rest \in Seq(Messages)
  PROVE  IInv /\ Exchange(n, rest, << >>) /\ UNCHANGED <<session, key>> => Handled
<1> SUFFICES ASSUME IInv, Exchange(n, rest, << >>), UNCHANGED <<session, key>>
             PROVE  Handled
  OBVIOUS
<1>1. << >> \in Seq(Messages)
  OBVIOUS
<1>2. net' \in Wire
  BY <1>1, ExchangeType DEF IInv, TypeOK, Wire
<1>3. SessionsOK
  BY SameStep DEF IInv, TypeOK, SessionsOK
<1>4. QED
  BY <1>2, <1>3 DEF IInv, TypeOK, Handled

\* A session in the table takes a message; its key may change.
LEMMA DeliverOK ==
  ASSUME NEW n \in Nodes, NEW e \in Objects, NEW m \in Messages, m.type # "Syn",
         NEW rest \in Seq(Messages), InTable(e),
         session[e].state # "Closed" \/ m.type = "SynAck",
         key' \in [Objects -> Ids], \A f \in Objects \ {e} : key'[f] = key[f]
  PROVE  IInv /\ Deliver(n, e, m, rest) => Handled
<1> SUFFICES ASSUME IInv, Deliver(n, e, m, rest) PROVE Handled
  OBVIOUS
<1> DEFINE s == HandleMessage(session[e], m)
<1>1. Store(e, s) /\ Exchange(n, rest, s.out)
  BY DEF Deliver
<1>2. Evolves(session[e], s)
  BY HandleMessageEvolves DEF IInv
<1> HIDE DEF s
<1>3. SessionsOK
  BY <1>1, <1>2, InUseIsTouched, StoreTouched
<1>4. net' \in Wire
  BY <1>1, <1>2, ExchangeType DEF IInv, TypeOK, Evolves, Good, Sound, Calls, Wire
<1>5. QED
  BY <1>3, <1>4 DEF Handled

\* A SynAck for a session of the client.
LEMMA HandleSynAckOK ==
  ASSUME NEW n \in Nodes, NEW m \in Messages, m.type = "SynAck",
         NEW rest \in Seq(Messages)
  PROVE  IInv /\ HandleSynAck(n, m, rest) => Handled
<1> SUFFICES ASSUME IInv, HandleSynAck(n, m, rest) PROVE Handled
  OBVIOUS
<1>0. m.sessionId \in Ids
  BY DEF Messages
<1>1. CASE SendReset(n, m.sessionId, rest)
  BY <1>0, <1>1, SendResetOK
<1>2. CASE \E e \in Objects : /\ InTable(e)
                              /\ Deliver(n, e, m, rest)
                              /\ key' = [key EXCEPT ![e] = m.sessionId]
  <2>1. PICK e \in Objects : /\ InTable(e)
                             /\ Deliver(n, e, m, rest)
                             /\ key' = [key EXCEPT ![e] = m.sessionId]
    BY <1>2
  <2>2. key' \in [Objects -> Ids] /\ \A f \in Objects \ {e} : key'[f] = key[f]
    BY <1>0, <2>1 DEF IInv, TypeOK
  <2>3. QED
    BY <2>1, <2>2, DeliverOK
<1>3. QED
  BY <1>1, <1>2 DEF HandleSynAck, Lookup

\* Any other message.
LEMMA HandleOtherOK ==
  ASSUME NEW n \in Nodes, NEW m \in Messages, m.type # "Syn",
         NEW rest \in Seq(Messages)
  PROVE  IInv /\ HandleOther(n, m, rest) => Handled
<1> SUFFICES ASSUME IInv, HandleOther(n, m, rest) PROVE Handled
  OBVIOUS
<1>0. m.sessionId \in Ids
  BY DEF Messages
<1>1. CASE SendReset(n, m.sessionId, rest)
  BY <1>0, <1>1, SendResetOK
<1>2. CASE \E e \in Objects : /\ InTable(e) /\ session[e].state # "Closed"
                              /\ Deliver(n, e, m, rest) /\ UNCHANGED key
  <2>1. PICK e \in Objects : /\ InTable(e) /\ session[e].state # "Closed"
                             /\ Deliver(n, e, m, rest) /\ UNCHANGED key
    BY <1>2
  <2>2. key' \in [Objects -> Ids] /\ \A f \in Objects \ {e} : key'[f] = key[f]
    BY <2>1 DEF IInv, TypeOK
  <2>3. QED
    BY <2>1, <2>2, DeliverOK
<1>3. QED
  BY <1>1, <1>2 DEF HandleOther, FindOpenSession, Lookup

\* The message thread of a node handles a message.
LEMMA HandleReceivedSessionMessageOK ==
  ASSUME NEW n \in Nodes, NEW m \in Messages, NEW rest \in Seq(Messages)
  PROVE  IInv /\ HandleReceivedSessionMessage(n, m, rest) => Handled
<1> SUFFICES ASSUME IInv, HandleReceivedSessionMessage(n, m, rest) PROVE Handled
  OBVIOUS
<1>0. m.sessionId \in Ids
  BY DEF Messages
<1>1. CASE m.type = "Syn" /\ AcceptsSyn(n)
  <2>1. \/ AcceptSyn(n, m, rest)
        \/ Exchange(n, rest, << >>) /\ UNCHANGED <<session, key>>
    BY <1>1 DEF HandleReceivedSessionMessage
  <2>2. QED
    BY <1>1, <2>1, AcceptSynOK, IgnoredOK
<1>2. CASE m.type = "Syn" /\ ~AcceptsSyn(n)
  <2>1. SendReset(n, m.sessionId, rest)
    BY <1>2 DEF HandleReceivedSessionMessage
  <2>2. QED
    BY <1>0, <2>1, SendResetOK
<1>3. CASE m.type = "SynAck"
  <2>1. HandleSynAck(n, m, rest)
    BY <1>3 DEF HandleReceivedSessionMessage
  <2>2. QED
    BY <1>3, <2>1, HandleSynAckOK
<1>4. CASE m.type = "Unknown"
  <2>1. Exchange(n, rest, << >>) /\ UNCHANGED <<session, key>>
    BY <1>4 DEF HandleReceivedSessionMessage
  <2>2. QED
    BY <2>1, IgnoredOK
<1>5. CASE m.type \notin {"Syn", "SynAck", "Unknown"}
  <2>1. HandleOther(n, m, rest)
    BY <1>5 DEF HandleReceivedSessionMessage
  <2>2. QED
    BY <1>5, <2>1, HandleOtherOK
<1>6. QED
  BY <1>1, <1>2, <1>3, <1>4, <1>5

\* The message may be the oldest one, overtake others, or be kept.
LEMMA ReceiveMessageOK ==
  ASSUME NEW n \in Nodes PROVE IInv /\ ReceiveMessage(n) => TypeOK' /\ SessionsOK
<1> SUFFICES ASSUME IInv, ReceiveMessage(n) PROVE TypeOK' /\ SessionsOK
  OBVIOUS
<1>0. net[n] \in Seq(Messages)
  BY DEF IInv, TypeOK
<1>1. PICK i \in 1 .. Len(net[n]) :
        \/ /\ i = 1
           /\ HandleReceivedSessionMessage(n, net[n][i], Tail(net[n]))
           /\ UNCHANGED faults
        \/ /\ i > 1
           /\ HandleReceivedSessionMessage(n, net[n][i], RemoveAt(net[n], i))
           /\ Fault("overtake")
        \/ /\ i = 1
           /\ HandleReceivedSessionMessage(n, net[n][i], net[n])
           /\ Fault("duplicate")
  BY DEF ReceiveMessage
<1>2. net[n][i] \in Messages
  BY <1>0
<1>3. Tail(net[n]) \in Seq(Messages) /\ RemoveAt(net[n], i) \in Seq(Messages)
  BY <1>0, RemoveAtType
<1>4. Handled
  BY <1>0, <1>1, <1>2, <1>3, HandleReceivedSessionMessageOK
<1>5. faults' \in 0 .. MaxFaults
  BY <1>1, FaultType DEF IInv, TypeOK
<1>6. QED
  BY <1>4, <1>5 DEF Handled, SessionsOK, IInv, TypeOK, ReceiveMessage, Wire

\* The manager refuses a Syn.
LEMMA RejectSynOK == IInv /\ RejectSyn => TypeOK' /\ SessionsOK
<1> SUFFICES ASSUME IInv, RejectSyn PROVE TypeOK' /\ SessionsOK
  OBVIOUS
<1>0. net["far"] \in Seq(Messages) /\ "far" \in Nodes /\ net["far"] # << >>
  BY DEF IInv, TypeOK, Nodes, RejectSyn
<1>1. Head(net["far"]) \in Messages /\ Tail(net["far"]) \in Seq(Messages)
  BY <1>0
<1>2. Head(net["far"]).sessionId \in Ids
  BY <1>1 DEF Messages
<1>3. Handled
  BY <1>0, <1>1, <1>2, SendResetOK DEF RejectSyn
<1>4. faults' \in 0 .. MaxFaults
  BY FaultType DEF IInv, RejectSyn
<1>5. QED
  BY <1>3, <1>4 DEF Handled, SessionsOK, IInv, TypeOK, RejectSyn, Wire

\* One session is updated.
LEMMA UpdateSessionOK ==
  ASSUME NEW e \in Objects, NEW k \in Nat, NEW n \in Nat,
         n <= Sendable(session[e].snd)
  PROVE  IInv /\ UpdateSession(e, k, n)
           => Handled /\ thread' \in [Nodes -> ThreadStates]
<1> SUFFICES ASSUME IInv, UpdateSession(e, k, n)
             PROVE  Handled /\ thread' \in [Nodes -> ThreadStates]
  OBVIOUS
<1> DEFINE r == UpdateReceiveWindow(session[e])
           q == Retransmit(r, k)
           s == Transmit(q, n)
           t == NotifyOwner(UpdateTimeout(s))
<1>1. /\ InTable(e)
      /\ Emit(Node(e), s.out)
      /\ IF FinBlocks(s)
           THEN /\ Store(e, s)
                /\ thread' = [thread EXCEPT ![Node(e)] = "blocked"]
                /\ UNCHANGED key
           ELSE /\ Store(e, t)
                /\ key' = IF t.state = "Closed"
                            THEN [key EXCEPT ![e] = InvalidSessionId] ELSE key
                /\ UNCHANGED thread
  BY DEF UpdateSession, UpdateSendWindow
<1>2. Good(session[e]) /\ session[e].snd.nextSequence # 1
  BY <1>1, InUseIsTouched DEF IInv
<1>3. Evolves(session[e], r) /\ r.snd = session[e].snd
  BY <1>2, UpdateReceiveWindowEvolves
<1> HIDE DEF r
<1>4. Evolves(r, q) /\ Counters(q.snd) = Counters(r.snd)
  BY <1>3, RetransmitEvolves DEF Evolves
<1> HIDE DEF q
<1>5. n <= Sendable(q.snd)
  BY <1>3, <1>4 DEF Sendable, Counters
<1>6. Evolves(q, s)
  BY <1>4, <1>5, TransmitEvolves DEF Evolves
<1>7. Evolves(session[e], s)
  <2>1. Evolves(session[e], q)
    BY <1>2, <1>3, <1>4, EvolvesTransitive
  <2>2. QED
    BY <1>2, <1>6, <2>1, EvolvesTransitive
<1> HIDE DEF s
<1>8. net' \in Wire
  <2>1. s.out \in Seq(Messages)
    BY <1>7 DEF Evolves, Good, Sound, Calls
  <2>2. Node(e) \in Nodes
    BY DEF Node, Nodes
  <2>3. net \in Wire
    BY DEF IInv, TypeOK, Wire
  <2>4. QED
    BY <1>1, <2>1, <2>2, <2>3, ExchangeType DEF Emit, Wire
<1>9. thread' \in [Nodes -> ThreadStates]
  BY <1>1 DEF IInv, TypeOK, ThreadStates
<1>10. CASE FinBlocks(s)
  <2>1. SessionsOK
    BY <1>1, <1>2, <1>7, <1>10, StoreTouched
  <2>2. QED
    BY <1>1, <1>8, <1>9, <1>10, <2>1 DEF Handled, IInv, TypeOK
<1>11. CASE ~FinBlocks(s)
  <2>1. Evolves(s, t)
    <3>1. Evolves(s, UpdateTimeout(s))
      BY <1>7, <1>11, UpdateTimeoutEvolves DEF Evolves
    <3>2. Evolves(UpdateTimeout(s), NotifyOwner(UpdateTimeout(s)))
      BY <3>1, NotifyOwnerEvolves DEF Evolves
    <3>3. QED
      BY <1>7, <3>1, <3>2, EvolvesTransitive DEF Evolves
  <2>2. Evolves(session[e], t)
    BY <1>2, <1>7, <2>1, EvolvesTransitive
  <2> HIDE DEF t
  <2>3. InvalidSessionId \in Ids
    BY DEF Ids
  <2>4. key' \in [Objects -> Ids] /\ \A f \in Objects \ {e} : key'[f] = key[f]
    BY <1>1, <1>11, <2>3 DEF IInv, TypeOK
  <2>5. SessionsOK
    BY <1>1, <1>2, <1>11, <2>2, <2>4, StoreTouched
  <2>6. QED
    BY <1>8, <1>9, <2>4, <2>5 DEF Handled
<1>12. QED
  BY <1>10, <1>11

\* The channel takes all new messages or only the first of them.
LEMMA UpdateOK == ASSUME NEW e \in Objects PROVE IInv /\ Update(e) => TypeOK' /\ SessionsOK
<1> SUFFICES ASSUME IInv, Update(e) PROVE TypeOK' /\ SessionsOK
  OBVIOUS
<1> DEFINE w == session[e].snd
<1>0. /\ InFlight(w) \in Nat /\ Sendable(w) \in Nat
  <2>1. /\ w.nextUnacknowledged \in Nat /\ w.lastSent \in Nat
        /\ w.nextSequence \in Nat /\ w.lastAvailableSize \in Nat
    BY DEF IInv, Good, Sound, Calls, SendWindows
  <2>2. w.nextUnacknowledged <= w.lastSent + 1 /\ w.lastSent < w.nextSequence
    BY DEF IInv, Good, Sound, SendWindowIntact
  <2> HIDE DEF w
  <2>3. QED
    BY <2>1, <2>2 DEF InFlight, Sendable
<1>1. PICK k \in 0 .. InFlight(w) :
        \/ UpdateSession(e, k, Sendable(w)) /\ UNCHANGED faults
        \/ \E n \in 0 .. Sendable(w) - 1 : UpdateSession(e, k, n) /\ Fault("notReady")
  BY DEF Update
<1>2. \E n \in Nat : n <= Sendable(w) /\ UpdateSession(e, k, n)
  BY <1>0, <1>1
<1>3. PICK n \in Nat : n <= Sendable(w) /\ UpdateSession(e, k, n)
  BY <1>2
<1>4. Handled /\ thread' \in [Nodes -> ThreadStates]
  BY <1>0, <1>3, UpdateSessionOK
<1>5. faults' \in 0 .. MaxFaults
  BY <1>1, FaultType DEF IInv, TypeOK
<1>6. UNCHANGED <<active, serving, sent, delivered, ended>>
  BY <1>3 DEF UpdateSession
<1>7. QED
  BY <1>4, <1>5, <1>6 DEF Handled, SessionsOK, IInv, TypeOK, Wire

-----------------------------------------------------------------------------
(* The theorems.                                                           *)

\* Every step of the system is a legal step of every session.
LEMMA NextOK == IInv /\ [Next]_vars => TypeOK' /\ SessionsOK
<1> SUFFICES ASSUME IInv, [Next]_vars PROVE TypeOK' /\ SessionsOK
  OBVIOUS
<1>1. CASE EstablishSessionForClient
  BY <1>1, EstablishSessionForClientOK
<1>2. CASE Disconnect
  BY <1>2, DisconnectOK
<1>3. CASE CloseClient
  BY <1>3, CloseClientOK
<1>4. CASE UnregisterProtocolServer
  BY <1>4, UnregisterProtocolServerOK
<1>5. CASE RejectSyn
  BY <1>5, RejectSynOK
<1>6. ASSUME NEW e \in Objects, Send(e) \/ ReceiveNext(e) \/ Update(e)
      PROVE  TypeOK' /\ SessionsOK
  BY <1>6, SendOK, ReceiveNextOK, UpdateOK
<1>7. ASSUME NEW n \in Nodes, \/ ReceiveMessage(n) \/ Destroy(n) \/ DestroyReturns(n)
                              \/ HandleClientDisconnection(n) \/ Drop(n) \/ LinkDown(n)
      PROVE  TypeOK' /\ SessionsOK
  BY <1>7, ReceiveMessageOK, DestroyOK, DestroyReturnsOK, HandleClientDisconnectionOK, DropOK, LinkDownOK
<1>8. CASE UNCHANGED vars
  <2>1. UNCHANGED <<session, key, active, serving, thread, net, faults, sent,
                    delivered, ended>>
    BY <1>8 DEF vars
  <2>2. SessionsOK
    BY <2>1, SameStep DEF IInv, TypeOK, SessionsOK
  <2>3. QED
    BY <2>1, <2>2 DEF IInv, TypeOK
<1>9. QED
  BY <1>1, <1>2, <1>3, <1>4, <1>5, <1>6, <1>7, <1>8 DEF Next

\* The invariant is inductive.
LEMMA NextIInv == IInv /\ [Next]_vars => IInv'
<1> SUFFICES ASSUME IInv, [Next]_vars PROVE IInv'
  OBVIOUS
<1>1. TypeOK' /\ SessionsOK
  BY NextOK
<1>2. ASSUME NEW e \in Objects
      PROVE  /\ Good(session[e])'
             /\ (session[e].snd.nextSequence = 1
                   => Untouched(session[e]) /\ ~InTable(e))'
  BY <1>1 DEF SessionsOK, StepOK, Evolves, InTable
<1>3. QED
  BY <1>1, <1>2 DEF IInv, FreshIsUntouched

\* It holds of every reachable state.
LEMMA Invariance == Spec => []IInv
BY InitIInv, NextIInv, PTL DEF Spec

\* Every variable keeps its type: in particular no window ever advertises
\* more room than it has, and no semaphore counts beyond the window.
THEOREM TypeCorrect == Spec => []TypeOK
<1>1. IInv => TypeOK
  BY DEF IInv
<1>2. QED
  BY <1>1, Invariance, PTL

\* The asserts about the send window hold in every session, whatever the
\* window size, the thresholds, the faults and the teardowns.
THEOREM TransmitWindowsIntact == Spec => []TransmitWindowIntact
<1>1. IInv => TransmitWindowIntact
  BY DEF IInv, Good, Sound, TransmitWindowIntact
<1>2. QED
  BY <1>1, Invariance, PTL

\* The asserts about the receive window hold in every session.
THEOREM ReceiveWindowsIntact == Spec => []ReceiveWindowIntact
<1>1. IInv => ReceiveWindowIntact
  BY DEF IInv, Good, Sound, ReceiveWindowIntact
<1>2. QED
  BY <1>1, Invariance, PTL

\* A session that was closed is never used again: the lookup never hands a
\* message to a closed session, except a SynAck, which it ignores.
THEOREM ClosedStaysClosed == Spec => ClosedIsFinal
<1>1. IInv /\ [Next]_vars
        => [\A e \in Objects :
              session[e].state = "Closed" /\ ~Fresh(e) => session'[e].state = "Closed"]_vars
  BY NextOK DEF SessionsOK, StepOK, Evolves
<1>2. QED
  BY <1>1, Invariance, PTL DEF Spec, ClosedIsFinal

-----------------------------------------------------------------------------
(* What a session has written and sent.                                    *)

\* What object e may have in its send window when it is s and its owner has
\* sent n messages: the first message of the handshake, what the owner sent,
\* then the Fin.
Handshake(e, s) ==
  {c \in Slots : /\ c.type = IF e = Client THEN "Syn" ELSE "SynAck"
                 /\ c.sessionId = e /\ c.seq = 1
                 /\ e # Client => c.data = 1
                 /\ s.snd.nextSequence > 1}

Written(s, n) ==
  {c \in Slots : /\ c.sessionId = s.sessionId
                 /\ c.seq < s.snd.nextSequence
                 /\ \/ c.type = "Data" /\ c.seq \in 2 .. (n + 1) /\ c.data = c.seq - 1
                    \/ c.type = "Fin" /\ c.seq = n + 2}

\* The acknowledgements a session may have sent.
Acks(s) ==
  {c \in Slots : /\ c.type = "Ack" /\ c.sessionId = s.sessionId
                 /\ c.seq \in 1 .. (s.rcv.nextExpected - 1)}

Own(e) == Handshake(e, session[e]) \cup Written(session[e], sent[e])

Sent(e) == Own(e) \cup Acks(session[e])

\* The object at the other end, once the client knows it, and what arrives
\* from there.
Peers(e) == IF e = Client THEN {f \in Servers : Paired(f)}
            ELSE IF Paired(e) THEN {Client} ELSE {}

Theirs(e) == UNION {Written(session[p], sent[p]) : p \in Peers(e)}

\* What may be on its way to node n.
Arriving(n) == {c \in Slots : \/ c = Blank \/ c.type = "Rst"
                              \/ \E e \in Objects : Node(e) # n /\ c \in Sent(e)}

\* The send window only has slots of w, the receive window only slots of p.
Holds(s, w, p) ==
  /\ \A i \in Index : s.snd.messages[i] \in w \cup {Blank}
  /\ \A i \in Index : s.rcv.valid[i] => s.rcv.messages[i] \in p

\* A call only forwards slots of w, and acknowledgements.
Emits(s, w) ==
  \A i \in 1 .. Len(s.out) : Stripped(s.out[i]) \in w \cup {Blank} \cup Acks(s)

-----------------------------------------------------------------------------
(* The inductive invariant.                                                *)

\* Sequence numbers count the handshake, the messages and the Fin.
Counted(e) ==
  LET s == session[e]
  IN  \/ s.snd.nextSequence = 1 /\ sent[e] = 0
      \/ s.snd.nextSequence = sent[e] + 2
      \/ s.snd.nextSequence = sent[e] + 3 /\ s.state \in {"FinWait2", "Closed"}

\* What the owner read is what was before the next message to read; after the
\* end of the stream it is all that the peer has sent or will send.
ReadSoFar(e) ==
  LET r == session[e].rcv
  IN  IF ended[e]
      THEN /\ session[e].state = "Closed"
           /\ \E p \in Peers(e) : /\ Len(delivered[e]) = sent[p]
                                  /\ session[p].snd.nextSequence = sent[p] + 3
      ELSE Len(delivered[e]) = IF r.nextUnread = 1 THEN 0 ELSE r.nextUnread - 2

\* A session that is not connected to another.
Alone(e) ==
  LET s == session[e]
  IN  /\ s.state \in {"SynSent", "SynReceived", "Closed"}
      /\ s.snd.nextSequence <= 2 /\ s.snd.nextUnacknowledged = 1
      /\ sent[e] = 0 /\ ~ended[e]
      /\ s.rcv.nextUnread <= 2

ClientKnown ==
  LET s == session[Client]
  IN  /\ s.state \notin {"SynReceived", "Listening"}
      /\ s.sessionId \in Servers =>
           /\ s.state # "SynSent"
           /\ s.rcv.nextUnread >= 2
           /\ session[s.sessionId].snd.nextSequence > 1
      /\ s.sessionId \notin Servers => Alone(Client) /\ s.rcv.nextUnread = 1
      /\ s.state = "SynSent" => s.sessionId = Client

ServerKnown(e) ==
  LET s == session[e]
  IN  /\ s.state \notin {"SynSent", "Listening"}
      /\ s.snd.nextSequence > 1 => s.sessionId = e /\ s.rcv.nextUnread >= 2
      /\ ~Paired(e) => Alone(e)

\* Where a session that is not closed can be found.
Filed(e) ==
  /\ ~InTable(e) => session[e].state = "Closed"
  /\ InTable(e) /\ session[e].state # "Closed" => key[e] = session[e].sessionId

Destroyed(e) == ~active[Node(e)] => session[e].state \notin {"Established", "SynReceived"}

EndOK(e) == /\ Counted(e) /\ ReadSoFar(e) /\ Destroyed(e) /\ Filed(e)
            /\ Holds(session[e], Own(e), Theirs(e))

EndsOK ==
  /\ \A e \in Objects : EndOK(e)
  /\ ClientKnown
  /\ \A e \in Servers : ServerKnown(e)
  /\ AcknowledgedWasReceived

WireOK == \A n \in Nodes : \A i \in 1 .. Len(net[n]) : Stripped(net[n][i]) \in Arriving(n)

SInv == IInv /\ EndsOK /\ WireOK

-----------------------------------------------------------------------------
(* What one call does to one session.                                      *)

\* The moves between states that calls make, but for the handshake's first.
Moves(x, y) ==
  /\ y \in {"SynSent", "SynReceived", "Listening"} => x = y
  /\ y = "Established" => x \in {"Established", "SynReceived"}
  /\ x \in {"FinWait2", "Closed"} => y \in {x, "Closed"}

\* A call takes s to t: it writes nothing into the send window, reads nothing,
\* and frees slots up to a only.
Leads(s, t, w, p, a) ==
  /\ Sound(t)
  /\ Holds(t, w, p)
  /\ Emits(t, w)
  /\ t.sessionId = s.sessionId
  /\ t.snd.nextSequence = s.snd.nextSequence
  /\ t.snd.nextUnacknowledged > s.snd.nextUnacknowledged
       => t.snd.nextUnacknowledged <= a + 1
  /\ t.rcv.nextUnread = s.rcv.nextUnread
  /\ t.rcv.nextExpected >= s.rcv.nextExpected
  /\ Moves(s.state, t.state)

\* What calls start from.
Ready(s, w, p) == Sound(s) /\ Holds(s, w, p) /\ Emits(s, w)

\* The numbers of a session.
LEMMA Numbers ==
  ASSUME NEW s, Sound(s)
  PROVE  /\ s.snd.nextSequence \in Nat \ {0}
         /\ s.snd.nextUnacknowledged \in Nat \ {0}
         /\ s.rcv.nextUnread \in Nat \ {0} /\ s.rcv.nextExpected \in Nat \ {0}
         /\ s.rcv.lastUnacknowledged \in Nat \ {0}
         /\ s.rcv.nextUnread <= s.rcv.nextExpected
         /\ s.sessionId \in Ids /\ s.state \in SessionStates
         /\ s.out \in Seq(Messages)
BY DEF Sound, Calls, SendWindows, ReceiveWindows, ReadWindowIntact

\* Calls compose.
LEMMA LeadsTransitive ==
  ASSUME NEW s, NEW t, NEW u, NEW w, NEW p, NEW a \in Nat,
         Sound(s), Leads(s, t, w, p, a), Leads(t, u, w, p, a)
  PROVE  Leads(s, u, w, p, a)
<1>1. Sound(t) /\ Sound(u)
  BY DEF Leads
<1>2. Moves(s.state, u.state)
  BY Zenon DEF Leads, Moves
<1>3. /\ u.rcv.nextExpected >= s.rcv.nextExpected
      /\ u.snd.nextUnacknowledged > s.snd.nextUnacknowledged
           => u.snd.nextUnacknowledged <= a + 1
  BY <1>1, Numbers DEF Leads
<1>4. QED
  BY <1>2, <1>3 DEF Leads

\* A call that leaves the messages alone.
LEMMA LeadsIf ==
  ASSUME NEW s, NEW t, NEW w, NEW p, NEW a \in Nat,
         Ready(s, w, p), Sound(t),
         t.snd.messages = s.snd.messages,
         t.snd.nextSequence = s.snd.nextSequence,
         t.snd.nextUnacknowledged > s.snd.nextUnacknowledged
           => t.snd.nextUnacknowledged <= a + 1,
         t.rcv.messages = s.rcv.messages, t.rcv.valid = s.rcv.valid,
         t.rcv.nextUnread = s.rcv.nextUnread,
         t.rcv.nextExpected = s.rcv.nextExpected,
         t.sessionId = s.sessionId, t.out = s.out,
         Moves(s.state, t.state)
  PROVE  Leads(s, t, w, p, a) /\ Ready(t, w, p)
<1>1. Holds(t, w, p)
  BY DEF Ready, Holds
<1>2. Emits(t, w)
  BY DEF Ready, Emits, Acks
<1>3. QED
  BY <1>1, <1>2, Numbers DEF Leads, Ready

\* A call that only changes counters, clocks, flags or valid bits.
LEMMA LeadsSame ==
  ASSUME NEW s, NEW t, NEW w, NEW p, NEW a \in Nat,
         Ready(s, w, p), Sound(t),
         t.snd.messages = s.snd.messages,
         t.snd.nextSequence = s.snd.nextSequence,
         t.snd.nextUnacknowledged = s.snd.nextUnacknowledged,
         t.rcv.messages = s.rcv.messages, t.rcv.valid = s.rcv.valid,
         t.rcv.nextUnread = s.rcv.nextUnread,
         t.rcv.nextExpected = s.rcv.nextExpected,
         t.sessionId = s.sessionId, t.out = s.out, t.state = s.state
  PROVE  Leads(s, t, w, p, a) /\ Ready(t, w, p)
<1>1. Moves(s.state, t.state)
  BY DEF Moves
<1>2. ~(t.snd.nextUnacknowledged > s.snd.nextUnacknowledged)
  BY Numbers DEF Ready
<1>3. QED
  BY <1>1, <1>2, LeadsIf

\* A call that does nothing.
LEMMA LeadsReflexive ==
  ASSUME NEW s, NEW w, NEW p, NEW a \in Nat, Ready(s, w, p)
  PROVE  Leads(s, s, w, p, a)
<1>1. Sound(s) /\ Moves(s.state, s.state)
  BY DEF Ready, Moves
<1>2. QED
  BY <1>1, LeadsIf, Numbers

\* After a call a session is ready for the next.
LEMMA LeadsReady ==
  ASSUME NEW s, NEW t, NEW w, NEW p, NEW a, Leads(s, t, w, p, a)
  PROVE  Ready(t, w, p) /\ Sound(t)
BY DEF Leads, Ready

\* What Shutdown does to the rest of a session.
LEMMA ShutdownFrame ==
  ASSUME NEW s, Sound(s), NEW reason \in Reasons
  PROVE  LET t == Shutdown(s, reason)
         IN  /\ t.sessionId = s.sessionId
             /\ Moves(s.state, t.state)
             /\ t.state \in Open => s.state \in Open
BY DEF Sound, Calls, Shutdown, SetState, SessionStates, Open, Moves

\* Shutdown leaves the messages alone.
LEMMA ShutdownLeads ==
  ASSUME NEW s, NEW w, NEW p, NEW a \in Nat, Ready(s, w, p), NEW reason \in Reasons
  PROVE  Leads(s, Shutdown(s, reason), w, p, a)
<1> DEFINE t == Shutdown(s, reason)
<1>1. Sound(s)
  BY DEF Ready
<1>2. Sound(t) /\ t.snd = s.snd /\ t.rcv = s.rcv /\ t.out = s.out
      /\ t.sessionId = s.sessionId /\ Moves(s.state, t.state)
  BY <1>1, ShutdownSound, ShutdownFrame
<1> HIDE DEF t
<1>3. Leads(s, t, w, p, a)
  BY <1>1, <1>2, LeadsIf, Numbers
<1>4. QED
  BY <1>3 DEF t

\* A change of state leaves the messages alone.
LEMMA SetStateLeads ==
  ASSUME NEW s, NEW w, NEW p, NEW a \in Nat, Ready(s, w, p),
         NEW state \in SessionStates, Moves(s.state, state)
  PROVE  Leads(s, SetState(s, state), w, p, a)
<1> DEFINE t == SetState(s, state)
<1>1. Sound(s)
  BY DEF Ready
<1>2. Sound(t) /\ t.state = state /\ t.snd = s.snd /\ t.rcv = s.rcv
  BY <1>1, SetStateSound
<1>3. t.out = s.out /\ t.sessionId = s.sessionId
  BY <1>1 DEF SetState, Sound, Calls
<1> HIDE DEF t
<1>4. Leads(s, t, w, p, a)
  BY <1>1, <1>2, <1>3, LeadsIf, Numbers
<1>5. QED
  BY <1>4 DEF t

\* The part of a slot on its way out is the slot.
LEMMA PartOfStamp ==
  ASSUME NEW s, NEW slot \in Slots
  PROVE  Stripped(Stamp(s, slot)) = slot
BY DEF Stripped, Stamp, Slots

\* A slot of w, or an acknowledgement, goes out.
LEMMA SendOrCloseLeads ==
  ASSUME NEW s, NEW w, NEW p, NEW a \in Nat, Ready(s, w, p),
         NEW slot \in Slots, slot \in w \cup {Blank} \cup Acks(s)
  PROVE  Leads(s, SendOrClose(s, slot), w, p, a)
<1> DEFINE t == SendOrClose(s, slot)
<1>0. Sound(s)
  BY DEF Ready
<1>1. CASE ~s.linkUp
  BY <1>1, ShutdownLeads DEF SendOrClose, Reasons
<1>2. CASE s.linkUp
  <2>1. Sound(t) /\ t.snd = s.snd /\ t.rcv = s.rcv
    BY <1>0, SendOrCloseSound
  <2>2. /\ t.sessionId = s.sessionId /\ t.state = s.state
        /\ t.out = Append(s.out, Stamp(s, slot))
    BY <1>0, <1>2 DEF SendOrClose, Sound, Calls
  <2> HIDE DEF t
  <2>3. Emits(t, w)
    <3> SUFFICES ASSUME NEW i \in 1 .. Len(t.out)
                 PROVE  Stripped(t.out[i]) \in w \cup {Blank} \cup Acks(s)
      BY <2>1, <2>2 DEF Emits, Acks
    <3>1. s.out \in Seq(Messages) /\ Stamp(s, slot) \in Messages
      BY <1>0, Numbers, StampIsMessage
    <3>2. CASE i = Len(s.out) + 1
      <4>1. t.out[i] = Stamp(s, slot)
        BY <2>2, <3>1, <3>2
      <4>2. QED
        BY <4>1, PartOfStamp
    <3>3. CASE i # Len(s.out) + 1
      <4>1. i \in 1 .. Len(s.out) /\ t.out[i] = s.out[i]
        BY <2>2, <3>1, <3>3
      <4>2. QED
        BY <4>1 DEF Ready, Emits
    <3>4. QED
      BY <3>2, <3>3
  <2>4. Holds(t, w, p)
    BY <2>1 DEF Ready, Holds
  <2>5. Moves(s.state, t.state)
    BY <2>2 DEF Moves
  <2>6. Leads(s, t, w, p, a)
    BY <1>0, <2>1, <2>2, <2>3, <2>4, <2>5, Numbers DEF Leads
  <2>7. QED
    BY <2>6 DEF t
<1>3. QED
  BY <1>1, <1>2

\* An acknowledgement goes out once something was received.
LEMMA SendAckMessageLeads ==
  ASSUME NEW s, NEW w, NEW p, NEW a \in Nat, Ready(s, w, p), s.rcv.nextExpected >= 2
  PROVE  Leads(s, SendAckMessage(s), w, p, a)
<1> DEFINE r == [s.rcv EXCEPT !.lastUnacknowledged = s.rcv.nextExpected,
                              !.currentAvailableSize = CurrentWindowSize(s.rcv)]
           u == [s EXCEPT !.rcv = r]
           slot == NewSlot(u, "Ack", u.rcv.nextExpected - 1, 0)
<1>0. Sound(s)
  BY DEF Ready
<1>1. SendAckMessage(s) = SendOrClose(u, slot)
  <2>1. [s EXCEPT !.rcv.lastUnacknowledged = s.rcv.nextExpected,
                  !.rcv.currentAvailableSize = CurrentWindowSize(s.rcv)] = u
    BY <1>0 DEF Sound, Calls, ReceiveWindows
  <2>2. QED
    BY <2>1 DEF SendAckMessage
<1>2. CurrentWindowSize(s.rcv) \in 1 .. WindowSize
  BY <1>0, CurrentWindowSizeRange DEF Sound, Calls
<1>3. /\ r \in ReceiveWindows
      /\ r.messages = s.rcv.messages /\ r.valid = s.rcv.valid
      /\ r.semaphore = s.rcv.semaphore /\ r.lastUnacknowledged = r.nextExpected
      /\ r.nextUnread = s.rcv.nextUnread /\ r.nextExpected = s.rcv.nextExpected
  BY <1>0, <1>2 DEF Sound, Calls, ReceiveWindows
<1> HIDE DEF r
<1>4. ReadWindowIntact(r)
  BY <1>0, <1>3, Numbers DEF Sound, ReadWindowIntact
<1>5. Sound(u) /\ u.rcv = r /\ u.snd = s.snd /\ u.state = s.state
  BY <1>0, <1>3, <1>4, ReplaceReceiveWindow
<1>6. u.sessionId = s.sessionId /\ u.out = s.out
  BY <1>0 DEF Sound, Calls
<1> HIDE DEF u
<1>7. Leads(s, u, w, p, a) /\ Ready(u, w, p)
  BY <1>3, <1>5, <1>6, LeadsSame
<1>8. slot \in Slots /\ slot \in Acks(u)
  <2>1. /\ u.rcv.nextExpected - 1 \in Nat /\ u.sessionId \in Ids
        /\ u.rcv.nextExpected - 1 \in 1 .. (u.rcv.nextExpected - 1)
    BY <1>3, <1>5, Numbers
  <2>2. slot \in Slots
    BY <2>1 DEF NewSlot, Slots, MessageTypes
  <2>3. QED
    BY <2>1, <2>2 DEF NewSlot, Acks
<1> HIDE DEF slot
<1>9. Leads(u, SendOrClose(u, slot), w, p, a)
  BY <1>7, <1>8, SendOrCloseLeads
<1>10. QED
  BY <1>0, <1>1, <1>7, <1>9, LeadsTransitive

\* The peer's advertised size leaves the messages alone.
LEMMA UpdateSendWindowSizeLeads ==
  ASSUME NEW s, NEW w, NEW p, NEW a \in Nat, Ready(s, w, p), NEW m \in Messages
  PROVE  /\ Leads(s, UpdateSendWindowSize(s, m), w, p, a)
         /\ UpdateSendWindowSize(s, m).state = s.state
         /\ UpdateSendWindowSize(s, m).owner = s.owner
<1> DEFINE t == UpdateSendWindowSize(s, m)
<1>1. Sound(s)
  BY DEF Ready
<1>2. Sound(t) /\ t.rcv = s.rcv /\ t.state = s.state /\ t.owner = s.owner
      /\ t.snd.nextSequence = s.snd.nextSequence
  BY <1>1, UpdateSendWindowSizeSound
<1>3. /\ t.sessionId = s.sessionId /\ t.out = s.out
      /\ t.snd.messages = s.snd.messages
      /\ t.snd.nextUnacknowledged = s.snd.nextUnacknowledged
  BY <1>1 DEF UpdateSendWindowSize, Sound, Calls, SendWindows
<1> HIDE DEF t
<1>4. Leads(s, t, w, p, a)
  BY <1>1, <1>2, <1>3, LeadsSame
<1>5. QED
  BY <1>2, <1>4 DEF t

\* An acknowledgement frees slots up to its own sequence number, and may send
\* a slot of the window once more.
LEMMA MarkLeads ==
  ASSUME NEW s, NEW w, NEW p, Ready(s, w, p), NEW seq \in Nat
  PROVE  Leads(s, MarkMessagesAsAcknowledged(s, seq), w, p, seq)
<1> DEFINE v == s.snd
           top == IF seq < v.lastSent THEN seq ELSE v.lastSent
           next == IF top < v.nextUnacknowledged THEN v.nextUnacknowledged
                   ELSE ScanEnd(Held(v), v.nextUnacknowledged, top + 1)
           freed == {Slot(q) : q \in v.nextUnacknowledged .. (next - 1)}
           dups == v.lastAckCount + 1
           again == v.messages[Slot(v.nextUnacknowledged + dups - FastRetransmitThreshold)]
           counted == [s EXCEPT !.snd.lastAckCount = dups]
           resent == SendOrClose(counted, again)
           again0 == [resent EXCEPT !.snd.retransmitCount = 0]
           shrunk == [s EXCEPT !.snd.valid = [i \in Index |-> v.valid[i] /\ i \notin freed],
                               !.snd.semaphore = @ + (next - v.nextUnacknowledged),
                               !.snd.retransmitCount = 0,
                               !.snd.nextUnacknowledged = next,
                               !.snd.lastAckCount = 0]
           t == MarkMessagesAsAcknowledged(s, seq)
<1>0. Sound(s) /\ v \in SendWindows /\ SendWindowIntact(v) /\ s \in Calls
      /\ v.lastSent \in Nat /\ v.lastAckCount \in Nat
  BY DEF Ready, Sound, Calls, SendWindows
<1>1. Sound(t)
  BY <1>0, MarkSound
<1>2. /\ next \in Nat /\ v.nextUnacknowledged <= next
      /\ next > v.nextUnacknowledged => next <= seq + 1
  <2>0. top \in Nat /\ top <= seq /\ v.nextUnacknowledged \in Nat \ {0}
    BY <1>0, Numbers
  <2> HIDE DEF top, v
  <2>1. CASE top < v.nextUnacknowledged
    BY <2>0, <2>1
  <2>2. CASE ~(top < v.nextUnacknowledged)
    <3>1. ScanEnd(Held(v), v.nextUnacknowledged, top + 1) \in v.nextUnacknowledged .. (top + 1)
      BY <2>0, <2>2, ScanEndBounds
    <3>2. QED
      BY <2>0, <2>2, <3>1
  <2>3. QED
    BY <2>1, <2>2
<1>3. t = CASE next > v.nextUnacknowledged -> shrunk
            [] next = v.nextUnacknowledged /\ dups < FastRetransmitThreshold -> counted
            [] OTHER -> IF s.linkUp THEN again0 ELSE resent
  BY DEF MarkMessagesAsAcknowledged
<1>4. /\ shrunk.sessionId = s.sessionId /\ shrunk.out = s.out
      /\ shrunk.rcv = s.rcv /\ shrunk.state = s.state
      /\ shrunk.snd.messages = v.messages /\ shrunk.snd.nextSequence = v.nextSequence
      /\ shrunk.snd.nextUnacknowledged = next
  <2> HIDE DEF next, freed
  <2>1. QED
    BY <1>0 DEF Calls, SendWindows
<1>5. Sound(counted) /\ Leads(s, counted, w, p, seq) /\ Ready(counted, w, p)
  <2> DEFINE cw == [v EXCEPT !.lastAckCount = dups]
  <2>1. /\ cw \in SendWindows /\ cw.messages = v.messages /\ cw.valid = v.valid
        /\ cw.nextSequence = v.nextSequence /\ cw.lastSent = v.lastSent
        /\ cw.semaphore = v.semaphore
        /\ cw.nextUnacknowledged = v.nextUnacknowledged
    BY <1>0 DEF SendWindows
  <2>2. counted = [s EXCEPT !.snd = cw]
    BY <1>0 DEF Calls, SendWindows
  <2> HIDE DEF cw
  <2>3. SendWindowIntact(cw)
    BY <1>0, <2>1 DEF SendWindowIntact
  <2> HIDE DEF counted
  <2>4. /\ Sound(counted) /\ counted.snd = cw /\ counted.rcv = s.rcv
        /\ counted.state = s.state
    BY <1>0, <2>1, <2>2, <2>3, ReplaceSendWindow
  <2>5. counted.sessionId = s.sessionId /\ counted.out = s.out
    BY <1>0, <2>2 DEF Calls
  <2>6. QED
    BY <2>1, <2>4, <2>5, LeadsSame
<1>6. again \in Slots /\ again \in w \cup {Blank}
  <2>1. v.nextUnacknowledged + dups - FastRetransmitThreshold \in Int
    BY <1>0, Numbers, WindowAssumption
  <2>2. Slot(v.nextUnacknowledged + dups - FastRetransmitThreshold) \in Index
    BY <2>1, SlotInIndex
  <2>3. QED
    BY <1>0, <2>2 DEF SendWindows, Ready, Holds
<1> HIDE DEF again, counted
<1>7. Leads(s, resent, w, p, seq) /\ Ready(resent, w, p) /\ Sound(resent)
  BY <1>0, <1>5, <1>6, SendOrCloseLeads, LeadsTransitive, LeadsReady
<1> HIDE DEF resent
<1>8. /\ again0.sessionId = resent.sessionId /\ again0.out = resent.out
      /\ again0.rcv = resent.rcv /\ again0.state = resent.state
      /\ again0.snd.messages = resent.snd.messages
      /\ again0.snd.nextSequence = resent.snd.nextSequence
      /\ again0.snd.nextUnacknowledged = resent.snd.nextUnacknowledged
  BY <1>7 DEF Sound, Calls, SendWindows
<1> HIDE DEF shrunk, again0, t, next
<1>9. CASE next > v.nextUnacknowledged
  <2>0. ~(next = v.nextUnacknowledged)
    BY <1>0, <1>2, <1>9, Numbers
  <2>1. t = shrunk
    BY <1>3, <1>9, <2>0
  <2>5. Moves(s.state, t.state)
    BY <1>4, <2>1 DEF Moves
  <2>6. /\ t.rcv = s.rcv /\ t.snd.messages = s.snd.messages
        /\ t.snd.nextSequence = s.snd.nextSequence
        /\ t.snd.nextUnacknowledged <= seq + 1
        /\ t.sessionId = s.sessionId /\ t.out = s.out
    BY <1>2, <1>4, <1>9, <2>1
  <2>2. Leads(s, t, w, p, seq)
    BY <1>1, <2>5, <2>6, LeadsIf
  <2>3. QED
    BY <2>2 DEF t
<1>10. CASE ~(next > v.nextUnacknowledged)
  <2>1. t \in {counted, again0, resent}
    BY <1>2, <1>3, <1>10, Numbers, <1>0
  <2>2. CASE t = again0
    <3>1. Leads(resent, again0, w, p, seq)
      BY <1>1, <1>7, <1>8, <2>2, LeadsSame DEF t
    <3>2. QED
      BY <1>0, <1>7, <2>2, <3>1, LeadsTransitive DEF t
  <2>3. QED
    BY <1>5, <1>7, <2>1, <2>2 DEF t
<1>11. QED
  BY <1>9, <1>10

\* A last change that leaves the windows alone.
LEMMA LeadsThen ==
  ASSUME NEW s, NEW t, NEW u, NEW w, NEW p, NEW a \in Nat,
         Sound(s), Leads(s, t, w, p, a), Sound(u),
         u.snd = t.snd, u.rcv = t.rcv, u.out = t.out,
         u.sessionId = t.sessionId, Moves(s.state, u.state)
  PROVE  Leads(s, u, w, p, a)
<1>1. Holds(u, w, p)
  BY DEF Leads, Holds
<1>2. Emits(u, w)
  BY DEF Leads, Emits, Acks
<1>3. QED
  BY <1>1, <1>2 DEF Leads

\* A bound on what is acknowledged may be raised.
LEMMA LeadsWeaken ==
  ASSUME NEW s, NEW t, NEW w, NEW p, NEW a \in Nat, NEW b \in Nat, a <= b,
         Leads(s, t, w, p, a)
  PROVE  Leads(s, t, w, p, b)
<1>1. Sound(t)
  BY DEF Leads
<1>2. QED
  BY <1>1, Numbers DEF Leads

\* What arrived goes into the receive window, or is acknowledged once more.
LEMMA WriteLeads ==
  ASSUME NEW s, NEW w, NEW p, NEW a \in Nat, Ready(s, w, p), NEW m \in Messages,
         Stripped(m) \in p, s.rcv.nextExpected >= 2
  PROVE  Leads(s, WriteMessageIntoReceiveWindow(s, m), w, p, a)
<1> DEFINE t == Stored(s, m)
<1>0. Sound(s)
  BY DEF Ready
<1>1. ASSUME m.seq >= s.rcv.nextExpected, m.seq < s.rcv.nextUnread + WindowSize
      PROVE  Leads(s, t, w, p, a) /\ t.rcv.nextExpected >= 2
  <2>1. /\ Sound(t) /\ t.snd = s.snd /\ t.state = s.state
        /\ t.sessionId = s.sessionId /\ t.out = s.out
        /\ t.rcv.nextUnread = s.rcv.nextUnread
        /\ t.rcv.nextExpected \in s.rcv.nextExpected .. (s.rcv.nextUnread + WindowSize)
        /\ t.rcv.messages = [s.rcv.messages EXCEPT ![Slot(m.seq)] = Stripped(m)]
        /\ t.rcv.valid = [s.rcv.valid EXCEPT ![Slot(m.seq)] = TRUE]
    BY <1>0, <1>1, StoredSound
  <2> HIDE DEF t
  <2>2. /\ s.rcv.messages \in [Index -> Slots] /\ s.rcv.valid \in [Index -> BOOLEAN]
        /\ Slot(m.seq) \in Index
    BY <1>0, SlotInIndex DEF Sound, Calls, ReceiveWindows, Messages
  <2>3. Holds(t, w, p)
    <3>1. ASSUME NEW i \in Index, t.rcv.valid[i] PROVE t.rcv.messages[i] \in p
      BY <3>1, <2>1, <2>2 DEF Ready, Holds
    <3>2. QED
      BY <2>1, <3>1 DEF Ready, Holds
  <2>4. t.rcv.nextExpected >= s.rcv.nextExpected /\ t.rcv.nextExpected >= 2
    BY <1>0, <2>1, Numbers, WindowAssumption
  <2>5. Emits(t, w)
    <3>1. Acks(s) \subseteq Acks(t)
      BY <1>0, <2>1, <2>4, Numbers DEF Acks
    <3>2. QED
      BY <2>1, <3>1 DEF Ready, Emits
  <2>6. Moves(s.state, t.state)
    BY <2>1 DEF Moves
  <2>7. QED
    BY <1>0, <2>1, <2>3, <2>4, <2>5, <2>6, Numbers DEF Leads
<1> HIDE DEF t
<1>2. ASSUME Leads(s, t, w, p, a), t.rcv.nextExpected >= 2
      PROVE  Leads(s, SendAckMessage(t), w, p, a)
  <2>1. Ready(t, w, p)
    BY <1>2, LeadsReady
  <2>2. Leads(t, SendAckMessage(t), w, p, a)
    BY <1>2, <2>1, SendAckMessageLeads
  <2>3. QED
    BY <1>0, <1>2, <2>2, LeadsTransitive
<1>3. Leads(s, s, w, p, a) /\ Leads(s, SendAckMessage(s), w, p, a)
  BY SendAckMessageLeads, LeadsReflexive
<1>4. QED
  BY <1>0, <1>1, <1>2, <1>3, WriteCases DEF t

\* The handlers of a session that is known to its peer.
LEMMA HandleFinMessageLeads ==
  ASSUME NEW s, NEW w, NEW p, NEW a \in Nat, Ready(s, w, p), NEW m \in Messages,
         Stripped(m) \in p, s.rcv.nextExpected >= 2, s.state # "Closed"
  PROVE  Leads(s, HandleFinMessage(s, m), w, p, a)
<1> DEFINE t == WriteMessageIntoReceiveWindow(s, m)
           closing == [SetState(t, "Closing") EXCEPT !.reason = "Success"]
           acked == SendAckMessage(t)
           closed == [SetState(acked, "Closed") EXCEPT !.reason = "Success"]
           x == CASE s.state \notin {"Closing", "FinWait2"} -> closing
                  [] s.state = "FinWait2" -> closed
                  [] OTHER -> s
<1>0. Sound(s)
  BY DEF Ready
<1>1. Leads(s, t, w, p, a) /\ Ready(t, w, p) /\ Sound(t)
  BY WriteLeads, LeadsReady
<1>2. t.rcv.nextExpected >= 2
  BY <1>0, <1>1, Numbers DEF Leads
<1>3. HandleFinMessage(s, m) = UpdateSendWindowSize(x, m)
  BY DEF HandleFinMessage
<1> HIDE DEF t
<1>4. Leads(s, acked, w, p, a) /\ Sound(acked)
  BY <1>0, <1>1, <1>2, SendAckMessageLeads, LeadsTransitive, LeadsReady
<1> HIDE DEF acked
<1>5. s.state \notin {"Closing", "FinWait2"} => Leads(s, closing, w, p, a)
  <2>1. /\ Sound(closing) /\ closing.state = "Closing" /\ closing.snd = t.snd
        /\ closing.rcv = t.rcv /\ closing.out = t.out
        /\ closing.sessionId = t.sessionId
    BY <1>1 DEF SetState, Sound, Calls, SessionStates, Reasons
  <2> HIDE DEF closing
  <2>2. s.state \notin {"Closing", "FinWait2"} => Moves(s.state, closing.state)
    BY <2>1 DEF Moves
  <2>3. QED
    BY <1>0, <1>1, <2>1, <2>2, LeadsThen
<1>6. s.state = "FinWait2" => Leads(s, closed, w, p, a)
  <2>1. /\ Sound(closed) /\ closed.state = "Closed" /\ closed.snd = acked.snd
        /\ closed.rcv = acked.rcv /\ closed.out = acked.out
        /\ closed.sessionId = acked.sessionId
    BY <1>4 DEF SetState, Sound, Calls, SessionStates, Reasons
  <2> HIDE DEF closed
  <2>2. Moves(s.state, closed.state)
    BY <2>1 DEF Moves
  <2>3. QED
    BY <1>0, <1>4, <2>1, <2>2, LeadsThen
<1>7. Leads(s, s, w, p, a)
  BY LeadsReflexive
<1> HIDE DEF closing, closed
<1>8. Leads(s, x, w, p, a) /\ Ready(x, w, p)
  BY <1>5, <1>6, <1>7, LeadsReady
<1> HIDE DEF x
<1>9. QED
  BY <1>0, <1>3, <1>8, UpdateSendWindowSizeLeads, LeadsTransitive

\* Data goes into the receive window of a session that is not closing.
LEMMA HandleDataMessageLeads ==
  ASSUME NEW s, NEW w, NEW p, NEW a \in Nat, Ready(s, w, p), NEW m \in Messages,
         Stripped(m) \in p, s.rcv.nextExpected >= 2
  PROVE  Leads(s, HandleDataMessage(s, m), w, p, a)
<1> DEFINE t == WriteMessageIntoReceiveWindow(s, m)
           x == IF s.state \in Open \ {"Closing"} THEN t ELSE s
<1>0. Sound(s)
  BY DEF Ready
<1>1. Leads(s, t, w, p, a) /\ Leads(s, s, w, p, a)
  BY WriteLeads, LeadsReflexive
<1>2. HandleDataMessage(s, m) = UpdateSendWindowSize(x, m)
  BY DEF HandleDataMessage
<1> HIDE DEF t
<1>3. Leads(s, x, w, p, a) /\ Ready(x, w, p)
  BY <1>1, LeadsReady
<1> HIDE DEF x
<1>4. QED
  BY <1>0, <1>2, <1>3, UpdateSendWindowSizeLeads, LeadsTransitive

\* An acknowledgement frees slots up to the number it carries.
LEMMA HandleAckMessageLeads ==
  ASSUME NEW s, NEW w, NEW p, Ready(s, w, p), NEW m \in Messages
  PROVE  Leads(s, HandleAckMessage(s, m), w, p, m.seq)
<1> DEFINE e == SetState(s, "Established")
           first == MarkMessagesAsAcknowledged(e, m.seq)
           later == MarkMessagesAsAcknowledged(s, m.seq)
           x == CASE s.state = "SynReceived" -> first
                  [] s.state \in Open -> later
                  [] OTHER -> s
<1>0. Sound(s) /\ m.seq \in Nat
  BY DEF Ready, Messages
<1>1. ASSUME s.state = "SynReceived" PROVE Leads(s, first, w, p, m.seq)
  <2>1. Leads(s, e, w, p, m.seq)
    BY <1>0, <1>1, SetStateLeads DEF Moves, SessionStates
  <2>2. Ready(e, w, p)
    BY <2>1, LeadsReady
  <2>3. Leads(e, first, w, p, m.seq)
    BY <1>0, <2>2, MarkLeads
  <2>4. QED
    BY <1>0, <2>1, <2>3, LeadsTransitive
<1>2. Leads(s, later, w, p, m.seq) /\ Leads(s, s, w, p, m.seq)
  BY <1>0, MarkLeads, LeadsReflexive
<1>3. HandleAckMessage(s, m) = UpdateSendWindowSize(x, m)
  BY DEF HandleAckMessage
<1> HIDE DEF first, later
<1>4. Leads(s, x, w, p, m.seq) /\ Ready(x, w, p)
  BY <1>1, <1>2, LeadsReady
<1> HIDE DEF x
<1>5. QED
  BY <1>0, <1>3, <1>4, UpdateSendWindowSizeLeads, LeadsTransitive

\* A second SynAck acknowledges for an open session, and is nothing to a
\* closed one.
LEMMA HandleSynAckMessageLeads ==
  ASSUME NEW s, NEW w, NEW p, Ready(s, w, p), NEW m \in Messages,
         s.state # "SynSent"
  PROVE  Leads(s, HandleSynAckMessage(s, m), w, p, m.seq)
<1> DEFINE seen == MarkMessagesAsAcknowledged(s, m.seq)
           x == IF s.state \in Open THEN seen ELSE s
<1>0. Sound(s) /\ m.seq \in Nat
  BY DEF Ready, Messages
<1>1. Leads(s, seen, w, p, m.seq) /\ Leads(s, s, w, p, m.seq)
  BY <1>0, MarkLeads, LeadsReflexive
<1>2. HandleSynAckMessage(s, m) = UpdateSendWindowSize(x, m)
  BY DEF HandleSynAckMessage
<1> HIDE DEF seen
<1>3. Leads(s, x, w, p, m.seq) /\ Ready(x, w, p)
  BY <1>1, LeadsReady
<1> HIDE DEF x
<1>4. QED
  BY <1>0, <1>2, <1>3, UpdateSendWindowSizeLeads, LeadsTransitive

\* A Rst closes the session.
LEMMA HandleRstMessageLeads ==
  ASSUME NEW s, NEW w, NEW p, NEW a \in Nat, Ready(s, w, p), NEW m \in Messages
  PROVE  /\ Leads(s, HandleRstMessage(s, m), w, p, a)
         /\ HandleRstMessage(s, m).state = "Closed"
<1> DEFINE x == Shutdown(s, "Reset")
<1>0. Sound(s)
  BY DEF Ready
<1>1. Leads(s, x, w, p, a) /\ x.state = "Closed"
  BY <1>0, ShutdownLeads, ShutdownSound DEF Reasons
<1>2. HandleRstMessage(s, m) = UpdateSendWindowSize(x, m)
  BY DEF HandleRstMessage
<1> HIDE DEF x
<1>3. Ready(x, w, p)
  BY <1>1, LeadsReady
<1>4. QED
  BY <1>0, <1>1, <1>2, <1>3, UpdateSendWindowSizeLeads, LeadsTransitive

\* Whatever message the manager hands to a session that has been answered.
LEMMA HandleMessageLeads ==
  ASSUME NEW s, NEW w, NEW p, NEW a \in Nat, Ready(s, w, p), NEW m \in Messages,
         m.type # "Syn", s.state # "Closed" \/ m.type = "SynAck",
         m.type = "SynAck" => s.state # "SynSent",
         m.type \in {"Ack", "SynAck"} => m.seq <= a,
         m.type \in {"Data", "Fin"} => Stripped(m) \in p /\ s.rcv.nextExpected >= 2
  PROVE  /\ Leads(s, HandleMessage(s, m), w, p, a)
         /\ m.type = "Rst" => HandleMessage(s, m).state = "Closed"
<1> DEFINE x == CASE m.type = "Syn"    -> HandleSynMessage(s, m)
                  [] m.type = "SynAck" -> HandleSynAckMessage(s, m)
                  [] m.type = "Fin"    -> HandleFinMessage(s, m)
                  [] m.type = "Data"   -> HandleDataMessage(s, m)
                  [] m.type = "Ack"    -> HandleAckMessage(s, m)
                  [] m.type = "Rst"    -> HandleRstMessage(s, m)
                  [] OTHER -> s
<1>0. Sound(s) /\ m.seq \in Nat
  BY DEF Ready, Messages
<1>1. Leads(s, x, w, p, a) /\ (m.type = "Rst" => x.state = "Closed")
  <2>1. CASE m.type = "SynAck"
    BY <1>0, <2>1, HandleSynAckMessageLeads, LeadsWeaken
  <2>2. CASE m.type = "Fin"
    BY <2>2, HandleFinMessageLeads
  <2>3. CASE m.type = "Data"
    BY <2>3, HandleDataMessageLeads
  <2>4. CASE m.type = "Ack"
    BY <1>0, <2>4, HandleAckMessageLeads, LeadsWeaken
  <2>5. CASE m.type = "Rst"
    BY <2>5, HandleRstMessageLeads
  <2>6. CASE m.type \notin {"SynAck", "Fin", "Data", "Ack", "Rst"}
    BY <2>6, LeadsReflexive
  <2>7. QED
    BY <2>1, <2>2, <2>3, <2>4, <2>5, <2>6
<1>2. HandleMessage(s, m) =
        IF s.state # "Established" /\ x.state = "Established" /\ ~x.owner
          THEN Shutdown(x, "Error") ELSE x
  BY DEF HandleMessage
<1> HIDE DEF x
<1>3. Leads(s, Shutdown(x, "Error"), w, p, a)
  BY <1>0, <1>1, ShutdownLeads, LeadsReady, LeadsTransitive DEF Reasons
<1>4. QED
  BY <1>1, <1>2, <1>3

\* A step that opens no session.
Calm(s, t) == t.state \in Open => s.state \in Open

\* The first part of an update acknowledges what was received.
LEMMA UpdateReceiveWindowLeads ==
  ASSUME NEW s, NEW w, NEW p, NEW a \in Nat, Ready(s, w, p)
  PROVE  LET t == UpdateReceiveWindow(s)
         IN  Leads(s, t, w, p, a) /\ Calm(s, t) /\ t.snd = s.snd
<1>0. Sound(s)
  BY DEF Ready
<1>1. CASE s.rcv.nextExpected > s.rcv.lastUnacknowledged
  <2>1. s.rcv.nextExpected >= 2
    BY <1>0, <1>1, Numbers
  <2>2. SendAckMessage(s).state \in {s.state, "Closed"} /\ SendAckMessage(s).snd = s.snd
    BY <1>0, SendAckMessageSound
  <2>3. Leads(s, SendAckMessage(s), w, p, a)
    BY <2>1, SendAckMessageLeads
  <2>4. UpdateReceiveWindow(s) = SendAckMessage(s)
    BY <1>1 DEF UpdateReceiveWindow
  <2>5. QED
    BY <2>2, <2>3, <2>4 DEF Calm, Open
<1>2. CASE ~(s.rcv.nextExpected > s.rcv.lastUnacknowledged)
  BY <1>2, LeadsReflexive DEF UpdateReceiveWindow, Calm
<1>3. QED
  BY <1>1, <1>2

\* What is where in a concatenation.
LEMMA Concatenation ==
  ASSUME NEW p \in Seq(Messages), NEW q \in Seq(Messages)
  PROVE  /\ p \o q \in Seq(Messages) /\ Len(p \o q) = Len(p) + Len(q)
         /\ \A i \in 1 .. Len(p) : (p \o q)[i] = p[i]
         /\ \A i \in 1 .. Len(q) : (p \o q)[Len(p) + i] = q[i]
OBVIOUS

\* A call that forwards slots of the window.
LEMMA TransmissionLeads ==
  ASSUME NEW s, NEW t, NEW w, NEW p, NEW a \in Nat, Ready(s, w, p), Sound(t),
         NEW first \in Int, NEW n \in Nat,
         t.out = s.out \o Transmission(s, first, n),
         t.snd.messages = s.snd.messages,
         t.snd.nextSequence = s.snd.nextSequence,
         t.snd.nextUnacknowledged = s.snd.nextUnacknowledged,
         t.rcv = s.rcv, t.sessionId = s.sessionId, t.state = s.state
  PROVE  Leads(s, t, w, p, a)
<1>0. Sound(s) /\ s.out \in Seq(Messages)
  BY Numbers DEF Ready
<1> DEFINE x == Transmission(s, first, n)
<1>1. ASSUME NEW j \in 1 .. n
      PROVE  Stripped(Stamp(s, s.snd.messages[Slot(first + j - 1)])) \in w \cup {Blank}
  <2>1. first + j - 1 \in Int
    OBVIOUS
  <2>2. Slot(first + j - 1) \in Index
    BY <2>1, SlotInIndex
  <2>3. s.snd.messages[Slot(first + j - 1)] \in Slots
    BY <1>0, <2>2 DEF Sound, Calls, SendWindows
  <2>4. s.snd.messages[Slot(first + j - 1)] \in w \cup {Blank}
    BY <2>2 DEF Ready, Holds
  <2>5. QED
    BY <2>3, <2>4, PartOfStamp
<1>2. /\ x \in Seq(Messages) /\ Len(x) = n
      /\ \A j \in 1 .. n : x[j] = Stamp(s, s.snd.messages[Slot(first + j - 1)])
  <2>1. ASSUME NEW j \in 1 .. n
        PROVE  Stamp(s, s.snd.messages[Slot(first + j - 1)]) \in Messages
    <3>1. first + j - 1 \in Int
      OBVIOUS
    <3>2. Slot(first + j - 1) \in Index
      BY <3>1, SlotInIndex
    <3>3. s.snd.messages[Slot(first + j - 1)] \in Slots
      BY <1>0, <3>2 DEF Sound, Calls, SendWindows
    <3>4. QED
      BY <1>0, <3>3, StampIsMessage
  <2>2. x \in [1 .. n -> Messages]
    BY <2>1, Zenon DEF Transmission
  <2>3. \A j \in 1 .. n : x[j] = Stamp(s, s.snd.messages[Slot(first + j - 1)])
    BY Zenon DEF Transmission
  <2> HIDE DEF x
  <2>4. QED
    BY <2>2, <2>3
<1> HIDE DEF x
<1>3. Emits(t, w)
  <2> SUFFICES ASSUME NEW i \in 1 .. Len(t.out)
               PROVE  Stripped(t.out[i]) \in w \cup {Blank} \cup Acks(s)
    BY DEF Emits, Acks
  <2>1. t.out = s.out \o x
    BY DEF x
  <2>2. /\ Len(t.out) = Len(s.out) + n
        /\ \A j \in 1 .. Len(s.out) : t.out[j] = s.out[j]
        /\ \A j \in 1 .. n : t.out[Len(s.out) + j] = x[j]
    <3>1. x \in Seq(Messages) /\ s.out \in Seq(Messages)
      BY <1>0, <1>2
    <3>2. /\ Len(s.out \o x) = Len(s.out) + Len(x)
          /\ \A j \in 1 .. Len(s.out) : (s.out \o x)[j] = s.out[j]
          /\ \A j \in 1 .. Len(x) : (s.out \o x)[Len(s.out) + j] = x[j]
      BY <3>1, Concatenation
    <3>3. QED
      BY <1>2, <2>1, <3>2, Zenon
  <2>3. CASE i <= Len(s.out)
    <3>1. i \in 1 .. Len(s.out)
      BY <1>0, <2>3
    <3>2. QED
      BY <2>2, <3>1 DEF Ready, Emits
  <2>4. CASE i > Len(s.out)
    <3>1. i - Len(s.out) \in 1 .. n /\ Len(s.out) + (i - Len(s.out)) = i
      BY <1>0, <2>2, <2>4
    <3>2. t.out[i] = x[i - Len(s.out)]
      BY <2>2, <3>1
    <3>3. QED
      BY <1>1, <1>2, <3>1, <3>2
  <2>5. QED
    BY <1>0, <2>3, <2>4
<1>4. Holds(t, w, p) /\ Moves(s.state, t.state)
  BY DEF Ready, Holds, Moves
<1>5. QED
  BY <1>0, <1>3, <1>4, Numbers DEF Leads

\* The window sends again what timed out, or gives up.
LEMMA RetransmitLeads ==
  ASSUME NEW s, NEW w, NEW p, NEW a \in Nat, Ready(s, w, p), Good(s), NEW k \in Nat
  PROVE  LET t == Retransmit(s, k)
         IN  Leads(s, t, w, p, a) /\ Calm(s, t)
<1> DEFINE t == Retransmit(s, k)
           resent == [s EXCEPT !.out = @ \o Transmission(s, s.snd.nextUnacknowledged, k),
                               !.snd.retransmitCount = @ + 1]
<1>0. Sound(s) /\ s \in Calls
  BY DEF Ready, Sound
<1>1. t \in {s, Shutdown(s, "NotReady"), Shutdown(s, "Error"), resent}
  <2>1. InFlight(s.snd) \in Int /\ s.snd.retransmitCount \in Nat /\ InFlight(s.snd) >= 0
    BY <1>0 DEF InFlight, Sound, Calls, SendWindows, SendWindowIntact
  <2>2. t = CASE InFlight(s.snd) = 0 -> s
              [] InFlight(s.snd) > 0 /\ s.snd.retransmitCount > MaxRetransmits ->
                   Shutdown(s, "NotReady")
              [] OTHER ->
                   CASE k = 0 -> s
                     [] k > 0 /\ ~s.linkUp -> Shutdown(s, "Error")
                     [] OTHER -> resent
    BY DEF Retransmit
  <2> HIDE DEF resent, t
  <2>3. QED
    BY <2>1, <2>2
<1>2. Sound(t)
  BY RetransmitEvolves DEF Evolves, Good
<1> HIDE DEF t
<1>3. ASSUME t = resent PROVE Leads(s, t, w, p, a) /\ Calm(s, t)
  <2>1. /\ resent.out = s.out \o Transmission(s, s.snd.nextUnacknowledged, k)
        /\ resent.snd.messages = s.snd.messages
        /\ resent.snd.nextSequence = s.snd.nextSequence
        /\ resent.snd.nextUnacknowledged = s.snd.nextUnacknowledged
        /\ resent.rcv = s.rcv /\ resent.sessionId = s.sessionId
        /\ resent.state = s.state
    BY <1>0 DEF Calls, SendWindows
  <2> HIDE DEF resent
  <2>2. s.snd.nextUnacknowledged \in Int
    BY <1>0, Numbers
  <2>3. Leads(s, t, w, p, a)
    BY <1>2, <1>3, <2>1, <2>2, TransmissionLeads
  <2>4. QED
    BY <1>3, <2>1, <2>3 DEF Calm
<1>4. /\ Leads(s, Shutdown(s, "NotReady"), w, p, a) /\ Calm(s, Shutdown(s, "NotReady"))
      /\ Leads(s, Shutdown(s, "Error"), w, p, a) /\ Calm(s, Shutdown(s, "Error"))
      /\ Leads(s, s, w, p, a) /\ Calm(s, s)
  BY <1>0, ShutdownLeads, ShutdownFrame, LeadsReflexive DEF Calm, Reasons
<1>5. QED
  BY <1>1, <1>3, <1>4 DEF t

\* New messages go out.
LEMMA TransmitLeads ==
  ASSUME NEW s, NEW w, NEW p, NEW a \in Nat, Ready(s, w, p), Good(s),
         NEW n \in Nat, n <= Sendable(s.snd)
  PROVE  LET t == Transmit(s, n)
         IN  Leads(s, t, w, p, a) /\ Calm(s, t)
<1> DEFINE t == Transmit(s, n)
           out2 == [s EXCEPT !.out = @ \o Transmission(s, s.snd.lastSent + 1, n),
                             !.snd.lastSent = @ + n,
                             !.snd.lastAvailableSize = @ - n]
<1>0. Sound(s) /\ s \in Calls
  BY DEF Ready, Sound
<1>1. t \in {s, Shutdown(s, "Error"), out2}
  <2>1. t = CASE n = 0 -> s
              [] n > 0 /\ ~s.linkUp -> Shutdown(s, "Error")
              [] OTHER -> out2
    BY DEF Transmit
  <2> HIDE DEF out2, t
  <2>2. QED
    BY <2>1
<1>2. Sound(t)
  BY TransmitEvolves DEF Evolves, Good
<1> HIDE DEF t
<1>3. ASSUME t = out2 PROVE Leads(s, t, w, p, a) /\ Calm(s, t)
  <2>1. /\ out2.out = s.out \o Transmission(s, s.snd.lastSent + 1, n)
        /\ out2.snd.messages = s.snd.messages
        /\ out2.snd.nextSequence = s.snd.nextSequence
        /\ out2.snd.nextUnacknowledged = s.snd.nextUnacknowledged
        /\ out2.rcv = s.rcv /\ out2.sessionId = s.sessionId
        /\ out2.state = s.state
    BY <1>0 DEF Calls, SendWindows
  <2> HIDE DEF out2
  <2>2. s.snd.lastSent + 1 \in Int
    BY <1>0 DEF Calls, SendWindows
  <2>3. Leads(s, t, w, p, a)
    BY <1>2, <1>3, <2>1, <2>2, TransmissionLeads
  <2>4. QED
    BY <1>3, <2>1, <2>3 DEF Calm
<1>4. /\ Leads(s, Shutdown(s, "Error"), w, p, a) /\ Calm(s, Shutdown(s, "Error"))
      /\ Leads(s, s, w, p, a) /\ Calm(s, s)
  BY <1>0, ShutdownLeads, ShutdownFrame, LeadsReflexive DEF Calm, Reasons
<1>5. QED
  BY <1>1, <1>3, <1>4 DEF t

\* Without a Fin to write, the end of an update can only close the session.
LEMMA UpdateTimeoutLeads ==
  ASSUME NEW s, NEW w, NEW p, NEW a \in Nat, Ready(s, w, p), s.state # "FinWait1"
  PROVE  Leads(s, UpdateTimeout(s), w, p, a) /\ Calm(s, UpdateTimeout(s))
<1>1. UpdateTimeout(s) \in {s, SetState(s, "Closed")}
  BY DEF UpdateTimeout
<1>2. Leads(s, s, w, p, a) /\ Leads(s, SetState(s, "Closed"), w, p, a)
  BY LeadsReflexive, SetStateLeads DEF SessionStates, Moves
<1>3. SetState(s, "Closed").state = "Closed"
  BY SetStateSound DEF Ready, SessionStates
<1>4. QED
  BY <1>1, <1>2, <1>3 DEF Calm, Open

\* An open session without an owner is shut down.
LEMMA NotifyOwnerLeads ==
  ASSUME NEW s, NEW w, NEW p, NEW a \in Nat, Ready(s, w, p)
  PROVE  Leads(s, NotifyOwner(s), w, p, a) /\ Calm(s, NotifyOwner(s))
<1> DEFINE t == IF s.state \in Open /\ ~s.owner THEN Shutdown(s, "Error") ELSE s
<1>0. Sound(s)
  BY DEF Ready
<1>1. Leads(s, t, w, p, a) /\ Calm(s, t)
  BY <1>0, ShutdownLeads, ShutdownFrame, LeadsReflexive DEF Reasons, Calm
<1>2. NotifyOwner(s) \in {t, Orphan(t)}
  BY DEF NotifyOwner
<1> HIDE DEF t
<1>3. Sound(t)
  BY <1>1 DEF Leads
<1>4. /\ Sound(Orphan(t)) /\ Orphan(t).snd = t.snd /\ Orphan(t).rcv = t.rcv
      /\ Orphan(t).out = t.out /\ Orphan(t).sessionId = t.sessionId
      /\ Orphan(t).state = t.state
  BY <1>3 DEF Orphan, Sound, Calls
<1>5. Leads(s, Orphan(t), w, p, a)
  BY <1>0, <1>1, <1>4, LeadsThen DEF Leads
<1>6. QED
  BY <1>1, <1>2, <1>4, <1>5 DEF Calm

-----------------------------------------------------------------------------
(* The calls that do more to a session.                                    *)

\* What a window may hold may grow.
LEMMA HoldsMore ==
  ASSUME NEW s, NEW w, NEW p, NEW x, NEW q, Holds(s, w, p),
         w \subseteq x, p \subseteq q
  PROVE  Holds(s, x, q)
BY DEF Holds

\* A write into the send window.
LEMMA WriteFrame ==
  ASSUME NEW s, Sound(s), NEW type \in MessageTypes, NEW data \in Nat
  PROVE  LET t == WriteMessageIntoSendWindow(s, type, data)
             seq == s.snd.nextSequence
         IN  /\ t.sessionId = s.sessionId /\ t.out = s.out /\ t.state = s.state
             /\ t.owner = s.owner /\ t.rcv = s.rcv
             /\ t.snd.nextUnacknowledged = s.snd.nextUnacknowledged
             /\ t.snd.nextSequence = seq + 1
             /\ t.snd.messages = [s.snd.messages EXCEPT ![Slot(seq)] = NewSlot(s, type, seq, data)]
<1> DEFINE seq == s.snd.nextSequence
           c == NewSlot(s, type, seq, data)
           i == Slot(seq)
           w == s.snd
           v == [w EXCEPT !.semaphore = @ - 1, !.nextSequence = seq + 1,
                          !.messages = [w.messages EXCEPT ![i] = c],
                          !.valid = [w.valid EXCEPT ![i] = TRUE]]
           t == [s EXCEPT !.snd = v]
<1>1. s \in Calls /\ w \in SendWindows
  BY DEF Sound, Calls
<1>2. WriteMessageIntoSendWindow(s, type, data) = t
  BY <1>1 DEF WriteMessageIntoSendWindow, Calls, SendWindows
<1>3. /\ v.nextUnacknowledged = w.nextUnacknowledged /\ v.nextSequence = seq + 1
      /\ v.messages = [w.messages EXCEPT ![i] = c]
  BY <1>1 DEF SendWindows
<1> HIDE DEF v
<1>4. /\ t.sessionId = s.sessionId /\ t.out = s.out /\ t.state = s.state
      /\ t.owner = s.owner /\ t.rcv = s.rcv /\ t.snd = v
  BY <1>1 DEF Calls
<1> HIDE DEF t
<1>5. QED
  BY <1>2, <1>3, <1>4

\* The slot written is one more that the window holds.
LEMMA WriteHolds ==
  ASSUME NEW s, NEW t, NEW w, NEW p, NEW x, NEW q, NEW c, NEW i \in Index,
         Sound(s), Holds(s, w, p), w \subseteq x, p \subseteq q, c \in x,
         t.snd.messages = [s.snd.messages EXCEPT ![i] = c], t.rcv = s.rcv
  PROVE  Holds(t, x, q)
<1>1. s.snd.messages \in [Index -> Slots]
  BY DEF Sound, Calls, SendWindows
<1>2. \A j \in Index : t.snd.messages[j] \in x \cup {Blank}
  BY <1>1 DEF Holds
<1>3. QED
  BY <1>2 DEF Holds

\* The client takes its first SynAck.
LEMMA HandleSynAckPairs ==
  ASSUME NEW s, NEW w, Ready(s, w, {}), s.state = "SynSent",
         s.rcv = NewReceiveWindow, s.snd.nextUnacknowledged = 1,
         NEW m \in Messages, m.type = "SynAck", m.seq = 1, m.data = 1
  PROVE  LET t == HandleMessage(s, m)
         IN  /\ Sound(t) /\ Holds(t, w, {}) /\ Emits(t, w)
             /\ t.sessionId = m.sessionId
             /\ t.state \in {"Established", "Closed"}
             /\ t.snd.nextSequence = s.snd.nextSequence
             /\ t.snd.nextUnacknowledged <= 2
             /\ t.rcv.nextUnread = 2
<1> DEFINE marked == MarkMessagesAsAcknowledged(s, m.data)
           u == SetState(marked, "Established")
           t1 == [u EXCEPT !.sessionId = m.sessionId]
           started == StartReceiving(t1, m.seq)
           acked == SendAckMessage(started)
           x == UpdateSendWindowSize(acked, m)
           t == IF x.state = "Established" /\ ~x.owner THEN Shutdown(x, "Error") ELSE x
<1>0. Sound(s) /\ m.sessionId \in Ids
  BY DEF Ready, Messages
<1>1. HandleMessage(s, m) = t
  BY DEF HandleMessage, HandleSynAckMessage, Open
<1>2. Leads(s, marked, w, {}, 1) /\ Sound(marked) /\ marked.rcv = s.rcv
  BY <1>0, MarkLeads, MarkSound
<1> HIDE DEF marked
<1>3. /\ Sound(t1) /\ t1.state = "Established" /\ t1.sessionId = m.sessionId
      /\ t1.snd = marked.snd /\ t1.rcv = NewReceiveWindow /\ t1.out = marked.out
  BY <1>0, <1>2 DEF SetState, Sound, Calls, SessionStates
<1> HIDE DEF t1
<1>4. Sound(started) /\ started.snd = t1.snd /\ started.state = t1.state
  BY <1>3, StartReceivingSound
<1>5. /\ started.rcv.messages = t1.rcv.messages /\ started.rcv.valid = t1.rcv.valid
      /\ started.rcv.nextUnread = 2 /\ started.rcv.nextExpected = 2
      /\ started.sessionId = t1.sessionId /\ started.out = t1.out
  <2> DEFINE r == [t1.rcv EXCEPT !.nextUnread = 2, !.nextExpected = 2,
                                 !.lastUnacknowledged = 2,
                                 !.currentAvailableSize = MaxAdvertizedSize]
  <2>0. m.seq + 1 = 2
    OBVIOUS
  <2>1. t1.rcv \in ReceiveWindows /\ t1 \in Calls
    BY <1>3 DEF Sound, Calls
  <2>2. started = [t1 EXCEPT !.rcv = r]
    BY <2>0, <2>1, Zenon DEF StartReceiving, Calls
  <2>3. /\ r.messages = t1.rcv.messages /\ r.valid = t1.rcv.valid
        /\ r.nextUnread = 2 /\ r.nextExpected = 2
    BY <2>1 DEF ReceiveWindows
  <2> HIDE DEF r
  <2>4. QED
    BY <2>1, <2>2, <2>3 DEF Calls
<1> HIDE DEF started
<1>6. Ready(started, w, {})
  <2>1. Holds(started, w, {})
    BY <1>2, <1>3, <1>4, <1>5 DEF Leads, Holds
  <2>2. Acks(marked) = {}
    BY <1>2 DEF Acks, NewReceiveWindow
  <2>3. Emits(started, w)
    BY <1>2, <1>3, <1>5, <2>2 DEF Leads, Emits
  <2>4. QED
    BY <1>4, <2>1, <2>3 DEF Ready
<1>7. Leads(started, acked, w, {}, 1) /\ acked.state \in {"Established", "Closed"}
  BY <1>3, <1>4, <1>5, <1>6, SendAckMessageLeads, SendAckMessageSound
<1> HIDE DEF acked
<1>8. Leads(acked, x, w, {}, 1) /\ x.state = acked.state
  BY <1>7, UpdateSendWindowSizeLeads, LeadsReady
<1> HIDE DEF x
<1>9. Leads(started, x, w, {}, 1) /\ Ready(x, w, {}) /\ Sound(x)
  BY <1>4, <1>7, <1>8, LeadsTransitive, LeadsReady
<1>10. Leads(started, t, w, {}, 1) /\ t.state \in {"Established", "Closed"}
  <2>1. Leads(x, Shutdown(x, "Error"), w, {}, 1) /\ Shutdown(x, "Error").state = "Closed"
    BY <1>9, ShutdownLeads, ShutdownSound DEF Reasons
  <2>2. Leads(started, Shutdown(x, "Error"), w, {}, 1)
    BY <1>4, <1>9, <2>1, LeadsTransitive
  <2>3. QED
    BY <1>7, <1>8, <1>9, <2>1, <2>2
<1> HIDE DEF t
<1>11. t.snd.nextUnacknowledged <= 2
  <2>1. Sound(t)
    BY <1>10 DEF Leads
  <2>2. started.snd.nextUnacknowledged <= 2
    BY <1>0, <1>2, <1>3, <1>4, Numbers DEF Leads
  <2>3. QED
    BY <1>4, <1>10, <2>1, <2>2, Numbers DEF Leads
<1>12. QED
  BY <1>1, <1>2, <1>3, <1>4, <1>5, <1>10, <1>11 DEF Leads

\* The client connects.
LEMMA ConnectFrame ==
  ASSUME NEW s, Good(s), Untouched(s), NEW id \in Ids
  PROVE  LET t == Connect(s, id)
         IN  /\ t.sessionId = id /\ t.state = "SynSent" /\ t.out = << >>
             /\ t.rcv = NewReceiveWindow
             /\ t.snd.nextUnacknowledged = 1
             /\ t.snd.messages = [NewSendWindow.messages EXCEPT
                                   ![Slot(1)] = [type |-> "Syn", sessionId |-> id,
                                                 seq |-> 1, data |-> 0]]
<1> DEFINE b == [s EXCEPT !.owner = TRUE, !.sessionId = id]
           v == WriteMessageIntoSendWindow(b, "Syn", 0)
           t == SetState(v, "SynSent")
<1>1. /\ Sound(b) /\ b.snd = NewSendWindow /\ b.rcv = NewReceiveWindow
      /\ b.sessionId = id /\ b.out = << >>
  BY BindSound DEF Good, Untouched, Sound, Calls
<1> HIDE DEF b
<1>2. /\ v.sessionId = id /\ v.out = << >> /\ v.rcv = NewReceiveWindow
      /\ v.snd.nextUnacknowledged = 1
      /\ v.snd.messages = [NewSendWindow.messages EXCEPT ![Slot(1)] = NewSlot(b, "Syn", 1, 0)]
  <2>1. NewSendWindow.nextSequence = 1 /\ NewSendWindow.nextUnacknowledged = 1
    BY DEF NewSendWindow
  <2>2. QED
    BY <1>1, <2>1, WriteFrame DEF MessageTypes
<1>3. Sound(v)
  BY <1>1, WriteIntoSendWindowSound, NewSendWindowIntact, WindowAssumption DEF MessageTypes
<1> HIDE DEF v
<1>4. /\ t.snd = v.snd /\ t.rcv = v.rcv /\ t.state = "SynSent"
      /\ t.sessionId = v.sessionId /\ t.out = v.out
  BY <1>3 DEF SetState, Sound, Calls
<1>5. Connect(s, id) = t
  BY DEF Connect, t, v, b
<1> HIDE DEF t
<1>6. QED
  BY <1>1, <1>2, <1>4, <1>5 DEF NewSlot

\* A new session of the server takes a Syn.
LEMMA AcceptSynFrame ==
  ASSUME NEW s, Good(s), Untouched(s), NEW id \in Ids,
         NEW m \in Messages, m.type = "Syn"
  PROVE  LET t == HandleMessage(BindToServer(s, id), m)
         IN  /\ t.sessionId = id /\ t.state = "SynReceived" /\ t.out = << >>
             /\ t.rcv.valid = NewReceiveWindow.valid
             /\ t.rcv.nextUnread = m.seq + 1
             /\ t.snd.nextUnacknowledged = 1
             /\ t.snd.messages = [NewSendWindow.messages EXCEPT
                                   ![Slot(1)] = [type |-> "SynAck", sessionId |-> id,
                                                 seq |-> 1, data |-> m.seq]]
<1> DEFINE b == BindToServer(s, id)
           v == WriteMessageIntoSendWindow(b, "SynAck", m.seq)
           u == SetState(v, "SynReceived")
           t == StartReceiving(u, m.seq)
<1>0. m.seq \in Nat
  BY DEF Messages
<1>1. /\ Sound(b) /\ b.snd = NewSendWindow /\ b.rcv = NewReceiveWindow
      /\ b.sessionId = id /\ b.out = << >>
  BY DEF BindToServer, SetState, Good, Untouched, Sound, Calls, SessionStates
<1> HIDE DEF b
<1>2. /\ v.sessionId = id /\ v.out = << >> /\ v.rcv = NewReceiveWindow
      /\ v.snd.nextUnacknowledged = 1
      /\ v.snd.messages = [NewSendWindow.messages EXCEPT ![Slot(1)] = NewSlot(b, "SynAck", 1, m.seq)]
  <2>1. NewSendWindow.nextSequence = 1 /\ NewSendWindow.nextUnacknowledged = 1
    BY DEF NewSendWindow
  <2>2. QED
    BY <1>0, <1>1, <2>1, WriteFrame DEF MessageTypes
<1>3. Sound(v)
  BY <1>0, <1>1, WriteIntoSendWindowSound, NewSendWindowIntact, WindowAssumption DEF MessageTypes
<1> HIDE DEF v
<1>4. /\ Sound(u) /\ u.snd = v.snd /\ u.rcv = v.rcv /\ u.state = "SynReceived"
      /\ u.sessionId = v.sessionId /\ u.out = v.out
  BY <1>3 DEF SetState, Sound, Calls, SessionStates
<1> HIDE DEF u
<1>5. /\ t.snd = u.snd /\ t.state = u.state /\ t.sessionId = u.sessionId
      /\ t.out = u.out /\ t.rcv.valid = u.rcv.valid
      /\ t.rcv.nextUnread = m.seq + 1
  BY <1>0, <1>4 DEF StartReceiving, Sound, Calls, ReceiveWindows
<1>6. HandleMessage(b, m) = t
  <2>1. HandleSynMessage(b, m) = t
    BY DEF HandleSynMessage, t, u, v
  <2> HIDE DEF t
  <2>2. QED
    BY <1>4, <1>5, <2>1 DEF HandleMessage
<1> HIDE DEF t
<1>7. QED
  BY <1>1, <1>2, <1>4, <1>5, <1>6 DEF NewSlot, b

\* The owner takes the next message.
LEMMA ReceiveFrame ==
  ASSUME NEW s, Good(s), CanReceive(s)
  PROVE  LET t == Receive(s)
             i == Slot(s.rcv.nextUnread)
         IN  /\ i \in Index /\ s.rcv.valid[i] /\ s.rcv.messages[i] \in Slots
             /\ s.rcv.messages[i].seq = s.rcv.nextUnread
             /\ t.snd = s.snd /\ t.sessionId = s.sessionId
             /\ t.rcv.messages = s.rcv.messages
             /\ \A j \in Index : t.rcv.valid[j] => s.rcv.valid[j]
             /\ t.rcv.nextUnread = s.rcv.nextUnread + 1
             /\ t.rcv.nextExpected = s.rcv.nextExpected
             /\ t.state = IF s.rcv.messages[i].type = "Data" THEN s.state ELSE "Closed"
<1> DEFINE i == Slot(s.rcv.nextUnread)
           r == s.rcv
           r1 == [r EXCEPT !.semaphore = @ - 1, !.valid[i] = FALSE, !.nextUnread = @ + 1]
           r2 == [r1 EXCEPT !.currentAvailableSize = CurrentWindowSize(r1)]
           t == [s EXCEPT !.rcv = r2]
<1>1. /\ s \in Calls /\ r \in ReceiveWindows /\ ReadWindowIntact(r) /\ WindowSize \in Nat \ {0}
      /\ r.nextUnread \in Nat \ {0} /\ r.nextExpected \in Nat /\ r.semaphore \in Nat \ {0}
      /\ r.messages \in [Index -> Slots] /\ r.valid \in [Index -> BOOLEAN]
  BY WindowAssumption DEF Good, Sound, Calls, ReceiveWindows, CanReceive
<1>2. i \in Index
  BY <1>1, SlotInIndex
<1>3. r.valid[i] /\ r.messages[i].seq = r.nextUnread /\ r.messages[i] \in Slots
  <2>1. /\ r.nextUnread \in r.nextUnread .. (r.nextExpected - 1)
        /\ r.nextUnread \in r.nextUnread .. (r.nextUnread + WindowSize - 1)
    BY <1>1 DEF ReadWindowIntact
  <2>2. QED
    BY <1>1, <1>2, <2>1 DEF ReadWindowIntact
<1>4. /\ r2.messages = r.messages /\ r2.valid = [r.valid EXCEPT ![i] = FALSE]
      /\ r2.nextUnread = r.nextUnread + 1 /\ r2.nextExpected = r.nextExpected
  BY <1>1 DEF ReceiveWindows
<1>5. Receive(s) = IF r.messages[i].type = "Data" THEN t ELSE SetState(t, "Closed")
  BY DEF Receive, NextUnread
<1> HIDE DEF r2
<1>6. /\ t.snd = s.snd /\ t.sessionId = s.sessionId /\ t.rcv = r2 /\ t.state = s.state
      /\ SetState(t, "Closed").snd = s.snd /\ SetState(t, "Closed").rcv = r2
      /\ SetState(t, "Closed").sessionId = s.sessionId
      /\ SetState(t, "Closed").state = "Closed"
  BY <1>1 DEF Calls, SetState
<1> HIDE DEF t
<1>7. \A j \in Index : r2.valid[j] => r.valid[j]
  BY <1>1, <1>2, <1>4
<1>8. QED
  BY <1>2, <1>3, <1>4, <1>5, <1>6, <1>7 DEF i

\* The Fin is written, after everything else.
LEMMA FinFrame ==
  ASSUME NEW s, Good(s), s.state = "FinWait1", ~FinBlocks(s)
  PROVE  LET t == UpdateTimeout(s)
             seq == s.snd.nextSequence
         IN  /\ Sound(t) /\ t.sessionId = s.sessionId /\ t.out = s.out /\ t.rcv = s.rcv
             /\ t.snd.nextUnacknowledged = s.snd.nextUnacknowledged
             /\ t.snd.nextSequence = seq + 1
             /\ t.snd.messages = [s.snd.messages EXCEPT ![Slot(seq)] = NewSlot(s, "Fin", seq, 0)]
             /\ t.state \in {"FinWait2", "Closed"}
<1> DEFINE v == WriteMessageIntoSendWindow(s, "Fin", 0)
           u == SetState(v, "FinWait2")
           x == UpdateTimeout(s)
<1>1. Sound(s)
  BY DEF Good
<1>2. x \in {u, SetState(u, "Closed")}
  BY DEF UpdateTimeout
<1>3. Sound(x)
  BY UpdateTimeoutEvolves DEF Evolves, Good
<1> HIDE DEF x
<1>4. Sound(v)
  <2>1. s.snd.semaphore \in Nat /\ s.snd.semaphore # 0
    BY <1>1, WindowAssumption DEF FinBlocks, Sound, Calls, SendWindows
  <2>2. s.snd.semaphore > 0
    BY <2>1
  <2>3. QED
    BY <1>1, <2>2, WriteIntoSendWindowSound DEF MessageTypes
<1>5. /\ v.sessionId = s.sessionId /\ v.out = s.out /\ v.rcv = s.rcv
      /\ v.snd.nextUnacknowledged = s.snd.nextUnacknowledged
      /\ v.snd.nextSequence = s.snd.nextSequence + 1
      /\ v.snd.messages = [s.snd.messages EXCEPT ![Slot(s.snd.nextSequence)]
                             = NewSlot(s, "Fin", s.snd.nextSequence, 0)]
  BY <1>1, WriteFrame DEF MessageTypes
<1> HIDE DEF v
<1>6. /\ x.snd = v.snd /\ x.rcv = v.rcv /\ x.sessionId = v.sessionId /\ x.out = v.out
      /\ x.state \in {"FinWait2", "Closed"}
  BY <1>2, <1>4 DEF SetState, Sound, Calls
<1>7. QED
  BY <1>3, <1>5, <1>6 DEF x

-----------------------------------------------------------------------------
(* What was sent stays sent.                                               *)

\* A session that only goes on has sent what it had sent before.
LEMMA SentGrows ==
  ASSUME NEW e, NEW s, NEW t, NEW n, Sound(s), Sound(t),
         t.snd.nextSequence >= s.snd.nextSequence,
         t.rcv.nextExpected >= s.rcv.nextExpected,
         t.sessionId = s.sessionId
  PROVE  /\ Handshake(e, s) \subseteq Handshake(e, t)
         /\ Written(s, n) \subseteq Written(t, n)
         /\ Acks(s) \subseteq Acks(t)
<1>1. /\ s.snd.nextSequence \in Nat /\ t.snd.nextSequence \in Nat
      /\ s.rcv.nextExpected \in Nat /\ t.rcv.nextExpected \in Nat
  BY Numbers
<1>2. Handshake(e, s) \subseteq Handshake(e, t)
  BY <1>1 DEF Handshake
<1>3. Written(s, n) \subseteq Written(t, n)
  BY <1>1 DEF Written, Slots
<1>4. Acks(s) \subseteq Acks(t)
  BY <1>1 DEF Acks
<1>5. QED
  BY <1>2, <1>3, <1>4

\* A session that has only written the first message of the handshake.
LEMMA NothingWritten ==
  ASSUME NEW s, Sound(s), s.snd.nextSequence <= 2
  PROVE  Written(s, 0) = {}
BY Numbers DEF Written, Slots

\* A session that has received nothing has acknowledged nothing.
LEMMA NothingAcknowledged ==
  ASSUME NEW s, Sound(s), s.rcv.nextExpected = 1
  PROVE  Acks(s) = {}
BY DEF Acks

\* A session nobody has used has sent nothing.
LEMMA NothingSent ==
  ASSUME NEW e, NEW s, Sound(s), Untouched(s)
  PROVE  Handshake(e, s) = {} /\ Written(s, 0) = {} /\ Acks(s) = {}
<1>1. s.snd.nextSequence = 1 /\ s.rcv.nextExpected = 1
  BY DEF Untouched, NewSendWindow, NewReceiveWindow
<1>2. QED
  BY <1>1, NothingWritten, NothingAcknowledged DEF Handshake

\* Every object has sent what it had sent before.
Grown == \A e \in Objects : Sent(e) \subseteq Sent(e)'

\* What may arrive at a node may still arrive.
LEMMA ArrivingGrows == ASSUME Grown, NEW n PROVE Arriving(n) \subseteq Arriving(n)'
BY DEF Grown, Arriving

\* The two nodes.
LEMMA TwoNodes ==
  /\ \A n \in Nodes : Remote(n) \in Nodes /\ Remote(n) # n /\ Remote(Remote(n)) = n
  /\ \A m, n \in Nodes : m # n => m = Remote(n)
  /\ \A e \in Objects : Node(e) \in Nodes
BY DEF Remote, Nodes, Node

\* A node takes a message, or none, and puts messages on the wire.
LEMMA ExchangeWire ==
  ASSUME IInv, WireOK, Grown, NEW n \in Nodes,
         NEW rest \in Seq(Messages), NEW out \in Seq(Messages),
         Exchange(n, rest, out),
         \A i \in 1 .. Len(rest) : \E j \in 1 .. Len(net[n]) : rest[i] = net[n][j],
         \A i \in 1 .. Len(out) : Stripped(out[i]) \in Arriving(Remote(n))'
  PROVE  WireOK'
<1> DEFINE q == net'[Remote(n)]
<1>0. /\ net \in Wire /\ Remote(n) \in Nodes /\ Remote(n) # n
  BY TwoNodes DEF IInv, TypeOK, Wire
<1>1. /\ net' \in Wire /\ net'[n] = rest
      /\ q = << >> \/ q = net[Remote(n)] \o out
  <2>1. net' \in Wire
    BY <1>0, ExchangeType
  <2>2. /\ net'[n] = rest
        /\ q = IF thread[Remote(n)] = "stopped" THEN << >> ELSE net[Remote(n)] \o out
    BY <1>0 DEF Exchange, Wire
  <2>3. QED
    BY <2>1, <2>2
<1>2. \A i \in 1 .. Len(rest) : Stripped(rest[i]) \in Arriving(n)'
  BY ArrivingGrows DEF WireOK
<1>3. ASSUME NEW i \in 1 .. Len(q) PROVE Stripped(q[i]) \in Arriving(Remote(n))'
  <2>1. CASE q = << >>
    BY <2>1
  <2>2. CASE q = net[Remote(n)] \o out
    <3> DEFINE p == net[Remote(n)]
    <3>1. p \in Seq(Messages)
      BY <1>0 DEF Wire
    <3>2. /\ Len(p \o out) = Len(p) + Len(out)
          /\ \A j \in 1 .. Len(p) : (p \o out)[j] = p[j]
          /\ \A j \in 1 .. Len(out) : (p \o out)[Len(p) + j] = out[j]
      BY <3>1, Concatenation
    <3>3. Len(p) \in Nat /\ Len(out) \in Nat
      BY <3>1
    <3>4. CASE i <= Len(p)
      <4>1. i \in 1 .. Len(p) /\ q[i] = p[i]
        BY <2>2, <3>2, <3>3, <3>4
      <4>2. QED
        BY <1>0, <4>1, ArrivingGrows DEF WireOK
    <3>5. CASE i > Len(p)
      <4>1. i - Len(p) \in 1 .. Len(out) /\ i = Len(p) + (i - Len(p))
        BY <2>2, <3>2, <3>3, <3>5
      <4>2. q[i] = out[i - Len(p)]
        BY <2>2, <3>2, <4>1
      <4>3. QED
        BY <4>1, <4>2
    <3>6. QED
      BY <3>3, <3>4, <3>5
  <2>3. QED
    BY <1>1, <2>1, <2>2
<1>4. \A m \in Nodes : m = n \/ m = Remote(n)
  BY TwoNodes
<1>5. QED
  BY <1>1, <1>2, <1>3, <1>4 DEF WireOK

\* The messages stay where they are.
LEMMA SameWire == ASSUME WireOK, Grown, UNCHANGED net PROVE WireOK'
BY ArrivingGrows DEF WireOK

\* What is left of a queue that loses a message.
LEMMA RestOfQueue ==
  ASSUME NEW q \in Seq(Messages), NEW i \in 1 .. Len(q), NEW r,
         r = RemoveAt(q, i) \/ r = Tail(q) \/ r = q
  PROVE  r \in Seq(Messages) /\ \A j \in 1 .. Len(r) : \E k \in 1 .. Len(q) : r[j] = q[k]
<1>1. CASE r = q
  BY <1>1
<1>2. CASE r = Tail(q)
  <2>1. /\ Len(r) = Len(q) - 1 /\ Len(q) \in Nat
        /\ \A j \in 1 .. Len(r) : r[j] = q[j + 1]
        /\ r \in Seq(Messages)
    BY <1>2
  <2>2. QED
    BY <2>1
<1>3. CASE r = RemoveAt(q, i)
  <2>0. Len(q) \in Nat
    OBVIOUS
  <2> DEFINE a == SubSeq(q, 1, i - 1)
             b == SubSeq(q, i + 1, Len(q))
  <2>1. r = a \o b
    BY <1>3 DEF RemoveAt
  <2>2. a \in Seq(Messages) /\ Len(a) = i - 1 /\ \A j \in 1 .. Len(a) : a[j] = q[j]
    BY <2>0
  <2>3. b \in Seq(Messages) /\ Len(b) = Len(q) - i /\ \A j \in 1 .. Len(b) : b[j] = q[i + j]
    BY <2>0
  <2> HIDE DEF a, b
  <2>4. /\ r \in Seq(Messages) /\ Len(r) = Len(a) + Len(b)
        /\ \A j \in 1 .. Len(a) : r[j] = a[j]
        /\ \A j \in 1 .. Len(b) : r[Len(a) + j] = b[j]
    BY <2>1, <2>2, <2>3, Concatenation
  <2>5. ASSUME NEW j \in 1 .. Len(r) PROVE \E k \in 1 .. Len(q) : r[j] = q[k]
    <3>1. CASE j <= Len(a)
      <4>1. j \in 1 .. Len(a) /\ j \in 1 .. Len(q)
        BY <2>0, <2>2, <3>1
      <4>2. QED
        BY <2>2, <2>4, <4>1
    <3>2. CASE j > Len(a)
      <4> DEFINE d == j - Len(a)
      <4>1. d \in 1 .. Len(b) /\ Len(a) + d = j /\ i + d \in 1 .. Len(q)
        BY <2>0, <2>2, <2>3, <2>4, <3>2
      <4>2. r[j] = b[d] /\ b[d] = q[i + d]
        BY <2>3, <2>4, <4>1
      <4>3. QED
        BY <4>1, <4>2
    <3>3. QED
      BY <2>2, <3>1, <3>2
  <2>6. QED
    BY <2>4, <2>5
<1>4. QED
  BY <1>1, <1>2, <1>3

\* What a session of node n forwards may arrive at the other node.
LEMMA ForwardedArrives ==
  ASSUME NEW e \in Objects, NEW s, NEW w, Emits(s, w), w \subseteq Own(e)',
         Acks(s) \subseteq Acks(session'[e]),
         NEW i \in 1 .. Len(s.out)
  PROVE  Stripped(s.out[i]) \in Arriving(Remote(Node(e)))'
<1>1. Stripped(s.out[i]) \in w \cup {Blank} \cup Acks(s)
  BY DEF Emits
<1>2. Acks(session'[e]) \subseteq Sent(e)' /\ Own(e)' \subseteq Sent(e)'
  BY DEF Sent
<1>3. Node(e) # Remote(Node(e))
  BY TwoNodes
<1>4. Stripped(s.out[i]) \in Slots
  BY <1>1 DEF Acks, Own, Handshake, Written, Blank, Slots, Ids, MessageTypes
<1>5. QED
  BY <1>1, <1>2, <1>3, <1>4 DEF Arriving

-----------------------------------------------------------------------------
(* Steps in which no session sends, reads, pairs or ends.                  *)

\* What such a step may do to object e.
Onward(e) ==
  /\ \E a \in Nat :
       /\ Leads(session[e], session'[e], Own(e), Theirs(e), a)
       /\ \A p \in Peers(e) : a < session[p].rcv.nextExpected
       /\ Peers(e) = {} => a = 0 /\ Calm(session[e], session'[e])
  /\ key'[e] = key[e] \/ session'[e].state = "Closed"
  /\ active' = active \/ Destroyed(e)'

\* What the other module's variables are made of.
Books == <<sent, delivered, ended>>

\* Who is who.
LEMMA Names ==
  /\ Client \in Objects /\ Client \notin Servers /\ Servers \subseteq Objects
  /\ InvalidSessionId \notin Objects /\ Objects \subseteq Ids
  /\ Node(Client) = "near" /\ \A e \in Servers : Node(e) = "far"
BY ManagerAssumption DEF Objects, Ids, Node

\* An object is the client or a server.
LEMMA ClientOrServer == \A e \in Objects : e # Client => e \in Servers
BY DEF Objects

\* What is known of the sessions in a state of the invariant.
LEMMA AllSound ==
  ASSUME IInv, NEW e \in Objects
  PROVE  /\ Sound(session[e]) /\ session[e].out = << >>
         /\ session[e] \in Sessions
         /\ sent[e] \in Nat /\ delivered[e] \in Seq(Nat) /\ ended[e] \in BOOLEAN
         /\ key[e] \in Ids
BY DEF IInv, Good, TypeOK, Sessions

\* And of those ready for a call.
LEMMA AllReady ==
  ASSUME IInv, EndsOK, NEW e \in Objects
  PROVE  Ready(session[e], Own(e), Theirs(e))
<1>1. Sound(session[e]) /\ session[e].out = << >>
  BY AllSound
<1>2. Holds(session[e], Own(e), Theirs(e))
  BY DEF EndsOK, EndOK
<1>3. QED
  BY <1>1, <1>2 DEF Ready, Emits

\* The peers are objects.
LEMMA PeersAreObjects ==
  ASSUME NEW e \in Objects
  PROVE  /\ Peers(e) \subseteq Objects
         /\ \A p \in Peers(e) : Node(p) # Node(e) /\ e \in Peers(p)
         /\ e # Client => Peers(e) \subseteq {Client}
BY Names DEF Peers, Paired, Objects

\* The peers do not change unless the client's session changes its id.
LEMMA SamePeers ==
  ASSUME session'[Client].sessionId = session[Client].sessionId, NEW e
  PROVE  Peers(e)' = Peers(e)
BY DEF Peers, Paired

\* What such a step may do to one object, given that the client keeps its id.
LEMMA OnwardSent ==
  ASSUME IInv, NEW e \in Objects, Onward(e), sent' = sent
  PROVE  /\ Own(e) \subseteq Own(e)' /\ Sent(e) \subseteq Sent(e)'
         /\ Written(session[e], sent[e]) \subseteq Written(session'[e], sent'[e])
         /\ session'[e].sessionId = session[e].sessionId
         /\ session'[e].snd.nextSequence = session[e].snd.nextSequence
         /\ session'[e].rcv.nextUnread = session[e].rcv.nextUnread
         /\ session'[e].rcv.nextExpected >= session[e].rcv.nextExpected
         /\ Sound(session'[e])
         /\ Moves(session[e].state, session'[e].state)
<1>1. PICK a \in Nat : Leads(session[e], session'[e], Own(e), Theirs(e), a)
  BY DEF Onward
<1>2. /\ session'[e].sessionId = session[e].sessionId
      /\ session'[e].snd.nextSequence = session[e].snd.nextSequence
      /\ session'[e].rcv.nextUnread = session[e].rcv.nextUnread
      /\ session'[e].rcv.nextExpected >= session[e].rcv.nextExpected
      /\ Sound(session'[e])
      /\ Moves(session[e].state, session'[e].state)
  BY <1>1 DEF Leads
<1>3. Sound(session[e])
  BY AllSound
<1>4. session'[e].snd.nextSequence >= session[e].snd.nextSequence
  BY <1>2, <1>3, Numbers
<1>5. /\ Handshake(e, session[e]) \subseteq Handshake(e, session'[e])
      /\ Written(session[e], sent[e]) \subseteq Written(session'[e], sent[e])
      /\ Acks(session[e]) \subseteq Acks(session'[e])
  BY <1>2, <1>3, <1>4, SentGrows
<1>6. QED
  BY <1>2, <1>5 DEF Own, Sent

\* Such steps keep what is known of each object.
LEMMA OnwardEndOK ==
  ASSUME IInv, EndsOK, \A e \in Objects : Onward(e), UNCHANGED Books,
         NEW e \in Objects
  PROVE  EndOK(e)'
<1> DEFINE s == session[e]
           t == session'[e]
<1>0. /\ \A f \in Objects : Sound(session[f])
      /\ sent' = sent /\ delivered' = delivered /\ ended' = ended
      /\ EndOK(e) /\ Onward(e) /\ Client \in Objects
  BY AllSound, Names DEF EndsOK, Books
<1>1. \A f \in Objects : Peers(f)' = Peers(f)
  BY <1>0, OnwardSent, SamePeers
<1>2. Theirs(e) \subseteq Theirs(e)'
  BY <1>0, <1>1, OnwardSent, PeersAreObjects DEF Theirs
<1>3. Moves(s.state, t.state) /\ t.state \in SessionStates /\ s.state \in SessionStates
  BY <1>0, OnwardSent, Numbers
<1>4. Counted(e)'
  BY <1>0, <1>3, OnwardSent DEF Counted, EndOK, Moves
<1>5. ReadSoFar(e)'
  <2>1. CASE ended[e]
    <3>1. s.state = "Closed"
      BY <1>0, <2>1 DEF EndOK, ReadSoFar
    <3>2. PICK p \in Peers(e) : /\ Len(delivered[e]) = sent[p]
                                /\ session[p].snd.nextSequence = sent[p] + 3
      BY <1>0, <2>1 DEF EndOK, ReadSoFar
    <3>3. t.state = "Closed"
      BY <1>3, <3>1 DEF Moves
    <3>4. session'[p].snd.nextSequence = session[p].snd.nextSequence /\ p \in Peers(e)'
      BY <1>0, <1>1, OnwardSent, PeersAreObjects
    <3>5. QED
      BY <1>0, <2>1, <3>2, <3>3, <3>4 DEF ReadSoFar
  <2>2. CASE ~ended[e]
    BY <1>0, <2>2, OnwardSent DEF EndOK, ReadSoFar
  <2>3. QED
    BY <2>1, <2>2
<1>6. Destroyed(e)'
  <2>1. CASE Destroyed(e)'
    BY <2>1
  <2>2. CASE active' = active
    BY <1>0, <1>3, <2>2 DEF EndOK, Destroyed, Moves
  <2>3. QED
    BY <1>0, <2>1, <2>2 DEF Onward
<1>7. Filed(e)'
  BY <1>0, <1>3, OnwardSent DEF Onward, EndOK, Filed, Moves, InTable
<1>8. Holds(t, Own(e)', Theirs(e)')
  <2>1. Holds(t, Own(e), Theirs(e))
    BY <1>0 DEF Onward, Leads
  <2>2. Own(e) \subseteq Own(e)'
    BY <1>0, OnwardSent
  <2>3. QED
    BY <1>2, <2>1, <2>2, HoldsMore
<1>9. QED
  BY <1>4, <1>5, <1>6, <1>7, <1>8 DEF EndOK

\* A session that is not connected stays so.
LEMMA OnwardAlone ==
  ASSUME IInv, UNCHANGED Books, NEW e \in Objects, Onward(e), Alone(e), Peers(e) = {}
  PROVE  Alone(e)'
<1> DEFINE s == session[e]
           t == session'[e]
<1>1. Leads(s, t, Own(e), Theirs(e), 0) /\ Calm(s, t)
  BY DEF Onward
<1>2. Sound(s) /\ Sound(t)
  BY <1>1, AllSound DEF Leads
<1>3. t.snd.nextUnacknowledged = 1
  <2>1. t.snd.nextUnacknowledged > s.snd.nextUnacknowledged => t.snd.nextUnacknowledged <= 0 + 1
    BY <1>1 DEF Leads
  <2>2. s.snd.nextUnacknowledged = 1
    BY DEF Alone
  <2>3. t.snd.nextUnacknowledged \in Nat \ {0}
    BY <1>2, Numbers
  <2>4. QED
    BY <2>1, <2>2, <2>3
<1>4. t.state \in {"SynSent", "SynReceived", "Closed"}
  <2>1. t.state \in SessionStates /\ t.state \notin Open
    BY <1>1, <1>2, Numbers DEF Alone, Calm, Open
  <2>2. t.state # "Listening"
    BY <1>1 DEF Leads, Moves, Alone
  <2>3. QED
    BY <2>1, <2>2 DEF SessionStates, Open
<1>5. QED
  BY <1>1, <1>3, <1>4 DEF Leads, Alone, Books

\* Such steps keep what is known of the two ends together.
LEMMA Ordinary ==
  ASSUME IInv, EndsOK, \A e \in Objects : Onward(e), UNCHANGED Books
  PROVE  /\ EndsOK' /\ Grown
         /\ session'[Client].sessionId = session[Client].sessionId
<1>0. /\ \A f \in Objects : Sound(session[f]) /\ Sound(session'[f])
      /\ sent' = sent /\ ended' = ended
      /\ \A f \in Objects : Moves(session[f].state, session'[f].state)
      /\ session'[Client].sessionId = session[Client].sessionId
  BY AllSound, OnwardSent, Names DEF Books
<1>1. \A e \in Objects : EndOK(e)'
  BY OnwardEndOK
<1>2. Grown
  BY <1>0, OnwardSent DEF Grown
<1>3. ClientKnown'
  <2> DEFINE s == session[Client]
             t == session'[Client]
  <2>1. ClientKnown /\ Client \in Objects
    BY Names DEF EndsOK
  <2>2. t.sessionId = s.sessionId /\ t.rcv.nextUnread = s.rcv.nextUnread
    BY <1>0, <2>1, OnwardSent
  <2>3. \A e \in Servers : session'[e].snd.nextSequence = session[e].snd.nextSequence
    BY <1>0, OnwardSent, Names
  <2>4. t.sessionId \notin Servers => Alone(Client)' /\ t.rcv.nextUnread = 1
    <3>1. t.sessionId \notin Servers => Peers(Client) = {}
      BY <2>2 DEF Peers, Paired
    <3>2. QED
      BY <2>1, <2>2, <3>1, OnwardAlone DEF ClientKnown
  <2>5. QED
    BY <1>0, <2>1, <2>2, <2>3, <2>4 DEF ClientKnown, Moves
<1>4. ASSUME NEW e \in Servers PROVE ServerKnown(e)'
  <2>1. e \in Objects /\ ServerKnown(e) /\ e # Client
    BY Names DEF EndsOK
  <2>2. ~Paired(e)' => Alone(e)'
    <3>1. ~Paired(e)' => Peers(e) = {} /\ ~Paired(e)
      BY <1>0, <2>1 DEF Peers, Paired
    <3>2. QED
      BY <2>1, <3>1, OnwardAlone DEF ServerKnown
  <2>3. QED
    BY <1>0, <2>1, <2>2, OnwardSent DEF ServerKnown, Moves
<1>5. ASSUME NEW e \in Objects, NEW p \in Peers(e),
             session[e].snd.nextUnacknowledged <= session[p].rcv.nextExpected
      PROVE  session'[e].snd.nextUnacknowledged <= session'[p].rcv.nextExpected
  <2>1. PICK a \in Nat : /\ Leads(session[e], session'[e], Own(e), Theirs(e), a)
                         /\ a < session[p].rcv.nextExpected
    BY DEF Onward
  <2>2. p \in Objects /\ session'[p].rcv.nextExpected >= session[p].rcv.nextExpected
    BY <1>0, OnwardSent, PeersAreObjects
  <2>3. /\ session'[e].snd.nextUnacknowledged \in Nat /\ session[e].snd.nextUnacknowledged \in Nat
        /\ session'[p].rcv.nextExpected \in Nat /\ session[p].rcv.nextExpected \in Nat
    BY <1>0, <2>2, Numbers
  <2>4. session'[e].snd.nextUnacknowledged > session[e].snd.nextUnacknowledged
          => session'[e].snd.nextUnacknowledged <= a + 1
    BY <2>1 DEF Leads
  <2>5. QED
    BY <1>5, <2>1, <2>2, <2>3, <2>4
<1>6. AcknowledgedWasReceived'
  <2>1. ASSUME NEW e \in Servers, Paired(e)'
        PROVE  /\ session'[Client].snd.nextUnacknowledged <= session'[e].rcv.nextExpected
               /\ session'[e].snd.nextUnacknowledged <= session'[Client].rcv.nextExpected
    <3>1. Paired(e) /\ e \in Objects /\ Client \in Objects /\ e # Client
      BY <1>0, <2>1, Names DEF Paired
    <3>2. e \in Peers(Client) /\ Client \in Peers(e)
      BY <3>1 DEF Peers
    <3>3. QED
      BY <1>5, <3>1, <3>2 DEF EndsOK, AcknowledgedWasReceived
  <2>2. QED
    BY <2>1 DEF AcknowledgedWasReceived
<1>7. QED
  BY <1>0, <1>1, <1>2, <1>3, <1>4, <1>6 DEF EndsOK

-----------------------------------------------------------------------------
(* The actions that leave the messages of the sessions alone.              *)

\* What every step of the system has to do.
Kept == EndsOK' /\ WireOK' /\ [Stream!Next]_(Stream!vars)

\* A stutter of the stream.
LEMMA StreamSame ==
  ASSUME UNCHANGED Books, session'[Client].sessionId = session[Client].sessionId
  PROVE  UNCHANGED Stream!vars
BY DEF Stream!vars, OfEnds, Books

\* What was forwarded is on the wire, not in the session any more.
LEMMA LeadsForget ==
  ASSUME NEW s, NEW t, NEW w, NEW p, NEW a, Leads(s, t, w, p, a)
  PROVE  LET u == [t EXCEPT !.out = << >>]
         IN  /\ Leads(s, u, w, p, a) /\ u.state = t.state
             /\ u.sessionId = t.sessionId /\ u.snd = t.snd /\ u.rcv = t.rcv
<1> DEFINE u == [t EXCEPT !.out = << >>]
<1>1. t \in Calls
  BY DEF Leads, Sound
<1>2. << >> \in Seq(Messages)
  OBVIOUS
<1>3. /\ u \in Calls /\ u.snd = t.snd /\ u.rcv = t.rcv /\ u.out = << >>
      /\ u.state = t.state /\ u.sessionId = t.sessionId
  BY <1>1, <1>2 DEF Calls
<1> HIDE DEF u
<1>4. Sound(u) /\ Holds(u, w, p) /\ Emits(u, w)
  BY <1>3 DEF Leads, Sound, Holds, Emits
<1>5. Leads(s, u, w, p, a)
  BY <1>3, <1>4 DEF Leads
<1>6. QED
  BY <1>3, <1>5 DEF u

\* An object that is left alone.
LEMMA OnwardSame ==
  ASSUME IInv, EndsOK, NEW e \in Objects,
         session'[e] = session[e], key'[e] = key[e],
         active' = active \/ Destroyed(e)'
  PROVE  Onward(e)
<1>1. Leads(session[e], session[e], Own(e), Theirs(e), 0)
  BY AllReady, LeadsReflexive
<1>2. \A p \in Peers(e) : 0 < session[p].rcv.nextExpected
  BY AllSound, PeersAreObjects, Numbers
<1>3. QED
  BY <1>1, <1>2 DEF Onward, Calm

\* An object that takes a call.
LEMMA OnwardCall ==
  ASSUME IInv, EndsOK, NEW e \in Objects, NEW s, NEW a \in Nat,
         Leads(session[e], s, Own(e), Theirs(e), a),
         \A p \in Peers(e) : a < session[p].rcv.nextExpected,
         Peers(e) = {} => a = 0 /\ Calm(session[e], s),
         session'[e] = s \/ session'[e] = [s EXCEPT !.out = << >>],
         key'[e] = key[e] \/ s.state = "Closed",
         active' = active \/ Destroyed(e)'
  PROVE  Onward(e)
<1>1. LET u == [s EXCEPT !.out = << >>]
      IN  Leads(session[e], u, Own(e), Theirs(e), a) /\ u.state = s.state
  BY LeadsForget
<1>2. QED
  BY <1>1 DEF Onward, Calm

\* An object that takes a call in which nothing is acknowledged.
LEMMA OnwardQuietly ==
  ASSUME IInv, EndsOK, NEW e \in Objects, NEW s,
         Leads(session[e], s, Own(e), Theirs(e), 0), Calm(session[e], s),
         session'[e] = s \/ session'[e] = [s EXCEPT !.out = << >>],
         key'[e] = key[e] \/ s.state = "Closed",
         active' = active \/ Destroyed(e)'
  PROVE  Onward(e)
<1>1. \A p \in Peers(e) : 0 < session[p].rcv.nextExpected
  BY AllSound, PeersAreObjects, Numbers
<1>2. QED
  BY <1>1, OnwardCall

\* One object takes a call, the others are left alone.
LEMMA StoreKeeps ==
  ASSUME IInv, NEW e \in Objects, NEW s, Store(e, s)
  PROVE  /\ session'[e] = [s EXCEPT !.out = << >>]
         /\ \A f \in Objects \ {e} : session'[f] = session[f]
BY DEF Store, IInv, TypeOK

\* Shutdown and Close, as calls.
LEMMA ShutdownCall ==
  ASSUME NEW s, NEW w, NEW p, Ready(s, w, p), NEW reason \in Reasons
  PROVE  LET t == Shutdown(s, reason)
             u == Close(s, reason)
         IN  /\ Leads(s, t, w, p, 0) /\ Calm(s, t)
             /\ Leads(s, u, w, p, 0) /\ Calm(s, u)
             /\ t.state # "Established" /\ t.state # "SynReceived"
<1> DEFINE t == Shutdown(s, reason)
           o == Orphan(s)
           u == Close(s, reason)
<1>0. Sound(s) /\ s \in Calls
  BY DEF Ready, Sound
<1>1. Leads(s, t, w, p, 0) /\ Calm(s, t)
  BY <1>0, ShutdownLeads, ShutdownFrame DEF Calm
<1>2. /\ Sound(o) /\ o.snd = s.snd /\ o.rcv = s.rcv /\ o.out = s.out
      /\ o.state = s.state /\ o.sessionId = s.sessionId
  BY <1>0 DEF Orphan, Sound, Calls
<1>3. Leads(s, o, w, p, 0) /\ Ready(o, w, p)
  BY <1>2, LeadsSame
<1>4. u = Shutdown(o, reason)
  BY DEF Close
<1> HIDE DEF o
<1>5. Leads(s, u, w, p, 0) /\ Calm(s, u)
  <2>1. Leads(o, u, w, p, 0) /\ Calm(o, u)
    BY <1>2, <1>3, <1>4, ShutdownLeads, ShutdownFrame DEF Calm
  <2>2. QED
    BY <1>0, <1>2, <1>3, <2>1, LeadsTransitive DEF Calm
<1>6. t.state # "Established" /\ t.state # "SynReceived"
  <2>1. t.state \in {"FinWait1", "Closed", s.state} /\ (t.state = s.state => s.state \in Open \ {"Established"} \/ s.state = "Closed")
    BY <1>0 DEF Shutdown, SetState, Calls, Open
  <2>2. QED
    BY <2>1 DEF Open
<1>7. QED
  BY <1>1, <1>5, <1>6

\* An ordinary step that puts nothing on the wire.
LEMMA OrdinaryKept ==
  ASSUME IInv, EndsOK, WireOK, \A e \in Objects : Onward(e),
         UNCHANGED Books, UNCHANGED net
  PROVE  Kept
<1>1. /\ EndsOK' /\ Grown
      /\ session'[Client].sessionId = session[Client].sessionId
  BY Ordinary
<1>2. QED
  BY <1>1, StreamSame, SameWire DEF Kept

\* The client disconnects or is destroyed.
LEMMA DisconnectKept == SInv /\ (Disconnect \/ CloseClient) => Kept
<1> SUFFICES ASSUME SInv, Disconnect \/ CloseClient PROVE Kept
  OBVIOUS
<1>0. IInv /\ EndsOK /\ WireOK /\ Client \in Objects /\ "Success" \in Reasons
  BY Names DEF SInv, Reasons
<1>1. /\ \/ Store(Client, Shutdown(session[Client], "Success"))
         \/ Store(Client, Close(session[Client], "Success"))
      /\ UNCHANGED <<key, active, net>> /\ UNCHANGED Books
  BY DEF Disconnect, CloseClient, Books
<1>2. Ready(session[Client], Own(Client), Theirs(Client))
  BY <1>0, AllReady
<1>3. Onward(Client)
  BY <1>0, <1>1, <1>2, ShutdownCall, StoreKeeps, OnwardQuietly
<1>4. \A f \in Objects \ {Client} : Onward(f)
  BY <1>0, <1>1, StoreKeeps, OnwardSame
<1>5. QED
  BY <1>0, <1>1, <1>3, <1>4, OrdinaryKept

\* The protocol server is unregistered.
LEMMA UnregisterProtocolServerKept == SInv /\ UnregisterProtocolServer => Kept
<1> SUFFICES ASSUME SInv, UnregisterProtocolServer PROVE Kept
  OBVIOUS
<1>0. IInv /\ EndsOK /\ WireOK
  BY DEF SInv
<1>1. /\ \A e \in Objects : session'[e] \in {session[e], Close(session[e], "Success")}
      /\ UNCHANGED <<key, active, net>> /\ UNCHANGED Books
  BY DEF UnregisterProtocolServer, Books
<1>2. ASSUME NEW e \in Objects PROVE Onward(e)
  <2>1. Ready(session[e], Own(e), Theirs(e))
    BY <1>0, AllReady
  <2>2. LET u == Close(session[e], "Success")
        IN  Leads(session[e], u, Own(e), Theirs(e), 0) /\ Calm(session[e], u)
    BY <2>1, ShutdownCall DEF Reasons
  <2>3. QED
    BY <1>0, <1>1, <2>2, OnwardSame, OnwardQuietly
<1>3. QED
  BY <1>0, <1>1, <1>2, OrdinaryKept

\* Every session of a node is shut down, as Destroy begins or because the
\* peer is gone.
LEMMA ShutdownAllKept ==
  ASSUME NEW n \in Nodes
  PROVE  SInv /\ (Destroy(n) \/ HandleClientDisconnection(n)) => Kept
<1> SUFFICES ASSUME SInv, Destroy(n) \/ HandleClientDisconnection(n) PROVE Kept
  OBVIOUS
<1>0. IInv /\ EndsOK /\ WireOK
  BY DEF SInv
<1>1. PICK reason \in Reasons :
        \A e \in Objects : session'[e] = IF Node(e) = n /\ InTable(e)
                                           THEN Shutdown(session[e], reason) ELSE session[e]
  BY DEF Destroy, HandleClientDisconnection, ShutdownAll, Reasons
<1>2. UNCHANGED <<key, net>> /\ UNCHANGED Books
  BY DEF Destroy, HandleClientDisconnection, Books
<1>3. \A m \in Nodes \ {n} : active'[m] = active[m]
  <2>1. active' = active \/ active' = [active EXCEPT ![n] = FALSE]
    BY DEF Destroy, HandleClientDisconnection
  <2>2. active \in [Nodes -> BOOLEAN]
    BY <1>0 DEF IInv, TypeOK
  <2>3. QED
    BY <2>1, <2>2
<1>4. ASSUME NEW e \in Objects PROVE Onward(e)
  <2>1. Ready(session[e], Own(e), Theirs(e))
    BY <1>0, AllReady
  <2>2. LET u == Shutdown(session[e], reason)
        IN  /\ Leads(session[e], u, Own(e), Theirs(e), 0) /\ Calm(session[e], u)
            /\ u.state \notin {"Established", "SynReceived"}
    BY <2>1, ShutdownCall
  <2>3. EndOK(e)
    BY <1>0 DEF EndsOK
  <2>4. Destroyed(e)'
    <3>1. CASE Node(e) = n /\ InTable(e)
      BY <1>1, <2>2, <3>1 DEF Destroyed
    <3>2. CASE Node(e) = n /\ ~InTable(e)
      BY <1>1, <2>3, <3>2 DEF Destroyed, EndOK, Filed
    <3>3. CASE Node(e) # n
      BY <1>1, <1>3, <2>3, <3>3, TwoNodes DEF Destroyed, EndOK
    <3>4. QED
      BY <3>1, <3>2, <3>3
  <2>5. QED
    BY <1>0, <1>1, <1>2, <2>2, <2>4, OnwardSame, OnwardQuietly
<1>5. QED
  BY <1>0, <1>2, <1>4, OrdinaryKept

\* The link of a node goes down.
LEMMA LinkDownKept == ASSUME NEW n \in Nodes PROVE SInv /\ LinkDown(n) => Kept
<1> SUFFICES ASSUME SInv, LinkDown(n) PROVE Kept
  OBVIOUS
<1>0. IInv /\ EndsOK /\ WireOK
  BY DEF SInv
<1>1. /\ \A e \in Objects : session'[e] \in {session[e], [session[e] EXCEPT !.linkUp = FALSE]}
      /\ UNCHANGED <<key, active, net>> /\ UNCHANGED Books
  BY DEF LinkDown, Books
<1>2. ASSUME NEW e \in Objects PROVE Onward(e)
  <2> DEFINE t == [session[e] EXCEPT !.linkUp = FALSE]
  <2>1. Ready(session[e], Own(e), Theirs(e)) /\ session[e] \in Calls
    BY <1>0, AllReady DEF Ready, Sound
  <2>2. /\ Sound(t) /\ t.snd = session[e].snd /\ t.rcv = session[e].rcv
        /\ t.state = session[e].state /\ t.sessionId = session[e].sessionId
        /\ t.out = session[e].out
    BY <2>1 DEF Ready, Sound, Calls
  <2> HIDE DEF t
  <2>3. Leads(session[e], t, Own(e), Theirs(e), 0) /\ Calm(session[e], t)
    BY <2>1, <2>2, LeadsSame DEF Calm
  <2>4. session'[e] = session[e] \/ session'[e] = t
    BY <1>1 DEF t
  <2>5. QED
    BY <1>0, <1>1, <2>3, <2>4, OnwardSame, OnwardQuietly
<1>3. QED
  BY <1>0, <1>1, <1>2, OrdinaryKept

\* A queue is emptied or loses a message, and nothing else happens.
LEMMA LostKept ==
  ASSUME NEW n \in Nodes
  PROVE  SInv /\ (DestroyReturns(n) \/ Drop(n)) => Kept
<1> SUFFICES ASSUME SInv, DestroyReturns(n) \/ Drop(n) PROVE Kept
  OBVIOUS
<1>0. IInv /\ EndsOK /\ WireOK /\ net \in Wire
  BY DEF SInv, IInv, TypeOK, Wire
<1>1. UNCHANGED <<session, key, active>> /\ UNCHANGED Books
  BY DEF DestroyReturns, Drop, Books
<1>2. \A e \in Objects : Onward(e)
  BY <1>0, <1>1, OnwardSame
<1>3. /\ EndsOK' /\ Grown /\ UNCHANGED Stream!vars
  BY <1>0, <1>1, <1>2, Ordinary, StreamSame
<1>4. PICK r : /\ net' = [net EXCEPT ![n] = r]
               /\ \A j \in 1 .. Len(r) : \E k \in 1 .. Len(net[n]) : r[j] = net[n][k]
  <2>1. CASE Drop(n)
    <3>1. PICK i \in 1 .. Len(net[n]) : net' = [net EXCEPT ![n] = RemoveAt(net[n], i)]
      BY <2>1 DEF Drop
    <3> DEFINE q == RemoveAt(net[n], i)
    <3>2. \A j \in 1 .. Len(q) : \E k \in 1 .. Len(net[n]) : q[j] = net[n][k]
      BY <1>0, RestOfQueue DEF Wire
    <3> HIDE DEF q
    <3>3. net' = [net EXCEPT ![n] = q]
      BY <3>1 DEF q
    <3>4. QED
      BY <3>2, <3>3
  <2>2. CASE DestroyReturns(n)
    <3> DEFINE q == << >>
    <3>1. net' = [net EXCEPT ![n] = q] /\ 1 .. Len(q) = {}
      BY <2>2 DEF DestroyReturns
    <3>2. QED
      BY <3>1
  <2>3. QED
    BY <2>1, <2>2
<1>5. ASSUME NEW m \in Nodes, NEW i \in 1 .. Len(net'[m])
      PROVE  Stripped(net'[m][i]) \in Arriving(m)'
  <2>1. \E k \in 1 .. Len(net[m]) : net'[m][i] = net[m][k]
    BY <1>0, <1>4 DEF Wire
  <2>2. QED
    BY <1>0, <1>3, <2>1, ArrivingGrows DEF WireOK
<1>6. QED
  BY <1>3, <1>5 DEF Kept, WireOK

-----------------------------------------------------------------------------
(* Messages that reach a session, or nobody.                               *)

\* A queue that some messages may have been taken from.
RestOf(r, q) == /\ r \in Seq(Messages)
                /\ \A j \in 1 .. Len(r) : \E k \in 1 .. Len(q) : r[j] = q[k]

\* An ordinary step of a node that takes a message, or none, and answers.
LEMMA OrdinaryExchange ==
  ASSUME IInv, EndsOK, WireOK, \A e \in Objects : Onward(e), UNCHANGED Books,
         NEW n \in Nodes, NEW rest, RestOf(rest, net[n]),
         NEW out \in Seq(Messages), Exchange(n, rest, out),
         Grown => \A i \in 1 .. Len(out) : Stripped(out[i]) \in Arriving(Remote(n))'
  PROVE  Kept
<1>1. /\ EndsOK' /\ Grown /\ UNCHANGED Stream!vars
  BY Ordinary, StreamSame
<1>2. WireOK'
  BY <1>1, ExchangeWire DEF RestOf
<1>3. QED
  BY <1>1, <1>2 DEF Kept

\* One object takes a call that leads on, and its node puts what the call
\* forwarded on the wire.
LEMMA CallKept ==
  ASSUME IInv, EndsOK, WireOK, UNCHANGED Books, UNCHANGED active,
         NEW e \in Objects, NEW s, NEW a \in Nat, Store(e, s),
         Leads(session[e], s, Own(e), Theirs(e), a),
         \A p \in Peers(e) : a < session[p].rcv.nextExpected,
         Peers(e) = {} => a = 0 /\ Calm(session[e], s),
         key'[e] = key[e] \/ s.state = "Closed",
         \A f \in Objects \ {e} : key'[f] = key[f],
         NEW rest, RestOf(rest, net[Node(e)]), Exchange(Node(e), rest, s.out)
  PROVE  Kept
<1>1. /\ session'[e] = [s EXCEPT !.out = << >>]
      /\ \A f \in Objects \ {e} : session'[f] = session[f]
  BY StoreKeeps
<1>2. Onward(e)
  BY <1>1, OnwardCall
<1>3. \A f \in Objects \ {e} : Onward(f)
  BY <1>1, OnwardSame
<1>4. s.out \in Seq(Messages) /\ Emits(s, Own(e)) /\ Sound(s)
  BY Numbers DEF Leads
<1>5. session'[e].sessionId = s.sessionId /\ session'[e].rcv = s.rcv
  BY <1>1, LeadsForget
<1>6. Acks(s) \subseteq Acks(session'[e])
  BY <1>5 DEF Acks
<1>7. Own(e) \subseteq Own(e)'
  BY <1>2, OnwardSent DEF Books
<1>8. \A i \in 1 .. Len(s.out) : Stripped(s.out[i]) \in Arriving(Remote(Node(e)))'
  BY <1>4, <1>6, <1>7, ForwardedArrives
<1>9. Node(e) \in Nodes
  BY TwoNodes
<1>10. QED
  BY <1>2, <1>3, <1>4, <1>8, <1>9, OrdinaryExchange

\* A message that nobody takes, answered by a Rst or by nothing.
LEMMA NobodyKept ==
  ASSUME NEW n \in Nodes, NEW m \in Messages, NEW rest, RestOf(rest, net[n])
  PROVE  /\ SInv /\ UNCHANGED active /\ UNCHANGED Books
         /\ \/ SendReset(n, m.sessionId, rest)
            \/ Exchange(n, rest, << >>) /\ UNCHANGED <<session, key>>
         => Kept
<1> SUFFICES ASSUME SInv, UNCHANGED active, UNCHANGED Books,
                    \/ SendReset(n, m.sessionId, rest)
                    \/ Exchange(n, rest, << >>) /\ UNCHANGED <<session, key>>
             PROVE  Kept
  OBVIOUS
<1>0. IInv /\ EndsOK /\ WireOK /\ UNCHANGED <<session, key>>
  BY DEF SInv, SendReset
<1>1. \A e \in Objects : Onward(e)
  BY <1>0, OnwardSame
<1> DEFINE c == ResetMessage(m.sessionId)
<1>2. c \in Messages /\ Stripped(c) \in Arriving(Remote(n))'
  <2>1. m.sessionId \in Ids
    BY DEF Messages
  <2>2. c \in Messages
    BY <2>1, ResetMessageType
  <2>3. Stripped(c) \in Slots /\ Stripped(c).type = "Rst"
    BY <2>1 DEF ResetMessage, Stripped, Slots, MessageTypes
  <2>4. QED
    BY <2>2, <2>3 DEF Arriving
<1> HIDE DEF c
<1>3. PICK out \in {<< >>, <<c>>} : Exchange(n, rest, out)
  BY DEF SendReset, c
<1>4. /\ out \in Seq(Messages)
      /\ \A i \in 1 .. Len(out) : Stripped(out[i]) \in Arriving(Remote(n))'
  <2>1. CASE out = << >>
    BY <2>1
  <2>2. CASE out = <<c>>
    <3>1. out \in Seq(Messages) /\ Len(out) = 1 /\ out[1] = c
      BY <1>2, <2>2
    <3>2. QED
      BY <1>2, <3>1
  <2>3. QED
    BY <2>1, <2>2
<1>5. QED
  BY <1>0, <1>1, <1>3, <1>4, OrdinaryExchange

\* Where a message that is not of the handshake comes from.
LEMMA ComesFrom ==
  ASSUME NEW n \in Nodes, NEW m \in Messages, Stripped(m) \in Arriving(n),
         m.type \in {"Fin", "Data", "Ack"}
  PROVE  \E p \in Objects :
           /\ Node(p) # n /\ m.sessionId = session[p].sessionId
           /\ m.type \in {"Fin", "Data"} => Stripped(m) \in Written(session[p], sent[p])
           /\ m.type = "Ack" => m.seq \in 1 .. (session[p].rcv.nextExpected - 1)
<1>1. Stripped(m).type = m.type /\ Stripped(m).sessionId = m.sessionId
      /\ Stripped(m).seq = m.seq
  BY DEF Stripped
<1> DEFINE c == Stripped(m)
<1> HIDE DEF c
<1>2. PICK p \in Objects : Node(p) # n /\ c \in Sent(p)
  BY <1>1 DEF Arriving, Blank, c
<1>3. c \in Written(session[p], sent[p]) \/ c \in Acks(session[p])
  BY <1>1, <1>2 DEF Sent, Own, Handshake, c
<1>4. CASE c \in Written(session[p], sent[p])
  BY <1>1, <1>2, <1>4 DEF Written, c
<1>5. CASE c \in Acks(session[p])
  BY <1>1, <1>2, <1>5 DEF Acks, c
<1>6. QED
  BY <1>3, <1>4, <1>5

\* A session that was used has its number, and one that was answered knows it.
LEMMA UsedServer ==
  ASSUME IInv, EndsOK, NEW e \in Servers,
         \/ session[e].state # "Closed" \/ InTable(e)
         \/ session[e].snd.nextSequence > 1 \/ session[e].rcv.nextExpected > 1
  PROVE  /\ session[e].sessionId = e /\ session[e].snd.nextSequence > 1
         /\ session[e].rcv.nextUnread >= 2 /\ session[e].rcv.nextExpected >= 2
<1>1. e \in Objects /\ Sound(session[e])
  BY Names, AllSound
<1>2. session[e].snd.nextSequence # 1
  <2>1. session[e].snd.nextSequence = 1 =>
          /\ session[e].state = "Closed" /\ session[e].rcv.nextExpected = 1
          /\ ~InTable(e)
    BY <1>1 DEF IInv, FreshIsUntouched, Untouched, NewReceiveWindow
  <2>2. QED
    BY <2>1
<1>3. session[e].snd.nextSequence > 1
  BY <1>1, <1>2, Numbers
<1>4. session[e].sessionId = e /\ session[e].rcv.nextUnread >= 2
  BY <1>3 DEF EndsOK, ServerKnown
<1>5. QED
  BY <1>1, <1>3, <1>4, Numbers

\* A message other than of the handshake comes from the peer of the session
\* that the manager finds for it.
LEMMA ComesFromPeer ==
  ASSUME IInv, EndsOK, NEW n \in Nodes, NEW m \in Messages, Stripped(m) \in Arriving(n),
         m.type \in {"Fin", "Data", "Ack"},
         NEW e \in FindOpenSession(n, m.sessionId)
  PROVE  \E p \in Objects :
           /\ Peers(e) = {p}
           /\ m.type \in {"Fin", "Data"} => Stripped(m) \in Written(session[p], sent[p])
           /\ m.type = "Ack" => m.seq \in 1 .. (session[p].rcv.nextExpected - 1)
           /\ session[e].rcv.nextExpected >= 2
<1>1. PICK p \in Objects :
           /\ Node(p) # n /\ m.sessionId = session[p].sessionId
           /\ m.type \in {"Fin", "Data"} => Stripped(m) \in Written(session[p], sent[p])
           /\ m.type = "Ack" => m.seq \in 1 .. (session[p].rcv.nextExpected - 1)
  BY ComesFrom
<1>2. /\ e \in Objects /\ Node(e) = n /\ InTable(e) /\ key[e] = m.sessionId
      /\ session[e].state # "Closed"
  BY DEF FindOpenSession, Lookup
<1>3. session[e].sessionId = session[p].sessionId
  BY <1>1, <1>2 DEF EndsOK, EndOK, Filed
<1>4. Sound(session[e]) /\ Sound(session[p])
  BY <1>1, <1>2, AllSound
<1>5. CASE e = Client
  <2>1. p \in Servers
    BY <1>1, <1>2, <1>5, ClientOrServer
  <2>2. session[p].snd.nextSequence > 1 \/ session[p].rcv.nextExpected > 1
    <3>1. CASE m.type \in {"Fin", "Data"}
      <4>1. Stripped(m).seq < session[p].snd.nextSequence /\ Stripped(m).seq >= 2
        <5>1. sent[p] \in Nat /\ Stripped(m).seq \in Nat
          BY AllSound DEF Stripped, Messages
        <5>2. QED
          BY <1>1, <3>1, <5>1 DEF Written
      <4>2. QED
        BY <1>4, <4>1, Numbers DEF Stripped, Messages
    <3>2. CASE m.type = "Ack"
      BY <1>1, <1>4, <3>2, Numbers DEF Messages
    <3>3. QED
      BY <3>1, <3>2
  <2>3. session[p].sessionId = p
    BY <2>1, <2>2, UsedServer
  <2>4. Paired(p) /\ session[Client].sessionId \in Servers
    BY <1>3, <1>5, <2>1, <2>3 DEF Paired
  <2>5. Peers(e) = {p}
    BY <1>3, <1>5, <2>3, <2>4 DEF Peers, Paired
  <2>6. session[e].rcv.nextExpected >= 2
    BY <1>4, <1>5, <2>4, Numbers DEF EndsOK, ClientKnown
  <2>7. QED
    BY <1>1, <2>5, <2>6
<1>6. CASE e # Client
  <2>1. p = Client /\ e \in Servers
    BY <1>1, <1>2, <1>6, ClientOrServer, Names
  <2>2. session[e].sessionId = e /\ session[e].rcv.nextExpected >= 2
    BY <1>2, <2>1, UsedServer
  <2>3. Peers(e) = {Client}
    BY <1>3, <1>6, <2>1, <2>2 DEF Peers, Paired
  <2>4. QED
    BY <1>1, <2>1, <2>2, <2>3
<1>7. QED
  BY <1>5, <1>6

\* Any message but of the handshake.
LEMMA HandleOtherKept ==
  ASSUME NEW n \in Nodes, NEW m \in Messages, Stripped(m) \in Arriving(n),
         m.type \in {"Fin", "Data", "Ack", "Rst"},
         NEW rest, RestOf(rest, net[n])
  PROVE  SInv /\ UNCHANGED active /\ UNCHANGED Books /\ HandleOther(n, m, rest) => Kept
<1> SUFFICES ASSUME SInv, UNCHANGED active, UNCHANGED Books, HandleOther(n, m, rest)
             PROVE  Kept
  OBVIOUS
<1>0. IInv /\ EndsOK /\ WireOK
  BY DEF SInv
<1>1. CASE SendReset(n, m.sessionId, rest)
  BY <1>1, NobodyKept
<1>2. CASE \E e \in FindOpenSession(n, m.sessionId) : Deliver(n, e, m, rest) /\ UNCHANGED key
  <2>1. PICK e \in FindOpenSession(n, m.sessionId) :
          Deliver(n, e, m, rest) /\ UNCHANGED key
    BY <1>2
  <2> DEFINE s == HandleMessage(session[e], m)
  <2>2. e \in Objects /\ Node(e) = n /\ session[e].state # "Closed"
    BY DEF FindOpenSession, Lookup
  <2>3. Store(e, s) /\ Exchange(n, rest, s.out)
    BY <2>1 DEF Deliver
  <2>4. Ready(session[e], Own(e), Theirs(e))
    BY <1>0, <2>2, AllReady
  <2>5. CASE m.type = "Rst"
    <3>1. Leads(session[e], s, Own(e), Theirs(e), 0) /\ s.state = "Closed"
      BY <2>2, <2>4, <2>5, HandleMessageLeads
    <3> HIDE DEF s
    <3>2. \A p \in Peers(e) : 0 < session[p].rcv.nextExpected
      BY <1>0, <2>2, AllSound, PeersAreObjects, Numbers
    <3>3. Calm(session[e], s)
      BY <3>1 DEF Calm, Open
    <3>4. QED
      BY <1>0, <2>1, <2>2, <2>3, <3>1, <3>2, <3>3, CallKept
  <2>6. CASE m.type # "Rst"
    <3>1. PICK p \in Objects :
           /\ Peers(e) = {p}
           /\ m.type \in {"Fin", "Data"} => Stripped(m) \in Written(session[p], sent[p])
           /\ m.type = "Ack" => m.seq \in 1 .. (session[p].rcv.nextExpected - 1)
           /\ session[e].rcv.nextExpected >= 2
      BY <1>0, <2>6, ComesFromPeer
    <3> DEFINE a == IF m.type = "Ack" THEN m.seq ELSE 0
    <3>2. a \in Nat /\ a < session[p].rcv.nextExpected
      <4>1. session[p].rcv.nextExpected \in Nat \ {0} /\ m.seq \in Nat
        BY <1>0, AllSound, Numbers DEF Messages
      <4>2. QED
        BY <3>1, <4>1
    <3>3. m.type \in {"Fin", "Data"} => Stripped(m) \in Theirs(e)
      BY <3>1 DEF Theirs
    <3>4. Leads(session[e], s, Own(e), Theirs(e), a)
      <4>1. m.type \in {"Ack", "SynAck"} => m.seq <= a
        BY <2>6 DEF Messages
      <4> HIDE DEF a
      <4>2. QED
        BY <2>2, <2>4, <3>1, <3>2, <3>3, <4>1, HandleMessageLeads
    <3> HIDE DEF a, s
    <3>5. QED
      BY <1>0, <2>1, <2>2, <2>3, <3>1, <3>2, <3>4, CallKept
  <2>7. QED
    BY <2>5, <2>6
<1>3. QED
  BY <1>1, <1>2 DEF HandleOther

-----------------------------------------------------------------------------
(* The handshake.                                                          *)

\* An object whose messages, books and peers a step leaves alone.
LEMMA Bystander ==
  ASSUME IInv, EndsOK, NEW f \in Objects,
         session'[f] = session[f], key'[f] = key[f], active' = active,
         sent'[f] = sent[f], delivered'[f] = delivered[f], ended'[f] = ended[f],
         Theirs(f) \subseteq Theirs(f)',
         ended[f] => /\ Peers(f) \subseteq Peers(f)'
                     /\ \A p \in Peers(f) :
                          /\ sent'[p] = sent[p]
                          /\ session'[p].snd.nextSequence = session[p].snd.nextSequence
  PROVE  EndOK(f)'
<1>0. EndOK(f)
  BY DEF EndsOK
<1>1. Counted(f)' /\ Destroyed(f)' /\ Filed(f)'
  BY <1>0 DEF EndOK, Counted, Destroyed, Filed, InTable
<1>2. ReadSoFar(f)'
  <2>1. CASE ended[f]
    <3>1. PICK p \in Peers(f) : /\ Len(delivered[f]) = sent[p]
                                /\ session[p].snd.nextSequence = sent[p] + 3
      BY <1>0, <2>1 DEF EndOK, ReadSoFar
    <3>2. session[f].state = "Closed"
      BY <1>0, <2>1 DEF EndOK, ReadSoFar
    <3>3. QED
      BY <2>1, <3>1, <3>2 DEF ReadSoFar
  <2>2. CASE ~ended[f]
    BY <1>0, <2>2 DEF EndOK, ReadSoFar
  <2>3. QED
    BY <2>1, <2>2
<1>3. Holds(session[f], Own(f)', Theirs(f)')
  <2>1. Own(f) = Own(f)'
    BY DEF Own
  <2>2. Holds(session[f], Own(f), Theirs(f))
    BY <1>0 DEF EndOK
  <2>3. QED
    BY <2>1, <2>2, HoldsMore
<1>4. QED
  BY <1>1, <1>2, <1>3 DEF EndOK

\* A session that nobody has used.
LEMMA FreshIsAlone ==
  ASSUME IInv, EndsOK, NEW e \in Objects, Fresh(e)
  PROVE  /\ Untouched(session[e]) /\ Alone(e) /\ Peers(e) = {}
         /\ \A f \in Objects : e \notin Peers(f)
         /\ Len(delivered[e]) = 0 /\ Own(e) = {} /\ Sent(e) = {} /\ ~InTable(e)
         /\ e = Client => session[e].sessionId \notin Servers
<1>1. Untouched(session[e]) /\ ~InTable(e)
  BY DEF IInv, FreshIsUntouched, Fresh
<1>2. /\ session[e].snd.nextSequence = 1 /\ session[e].rcv.nextUnread = 1
  BY <1>1 DEF Untouched, NewSendWindow, NewReceiveWindow
<1>3. Alone(e) /\ Peers(e) = {} /\ (e = Client => session[e].sessionId \notin Servers)
  <2>1. CASE e = Client
    BY <1>2, <2>1 DEF EndsOK, ClientKnown, Peers, Paired
  <2>2. CASE e # Client
    <3>1. e \in Servers
      BY <2>2, ClientOrServer
    <3>2. ~Paired(e)
      BY <1>2, <3>1 DEF Paired, EndsOK, ClientKnown
    <3>3. QED
      BY <2>2, <3>1, <3>2 DEF EndsOK, ServerKnown, Peers
  <2>3. QED
    BY <2>1, <2>2
<1>4. \A f \in Objects : e \notin Peers(f)
  BY <1>3, PeersAreObjects
<1>5. Len(delivered[e]) = 0
  BY <1>2, <1>3 DEF EndsOK, EndOK, ReadSoFar, Alone
<1>6. Own(e) = {} /\ Sent(e) = {}
  <2>1. sent[e] = 0
    BY <1>3 DEF Alone
  <2>2. QED
    BY <1>1, <2>1, AllSound, NothingSent DEF Own, Sent
<1>7. QED
  BY <1>1, <1>3, <1>4, <1>5, <1>6

\* A window with nothing but the first message of the handshake.
LEMMA FirstHolds ==
  ASSUME NEW t, NEW c, NEW w, c \in w,
         t.snd.messages = [NewSendWindow.messages EXCEPT ![Slot(1)] = c],
         t.rcv.valid = NewReceiveWindow.valid
  PROVE  Holds(t, w, {})
<1>1. /\ NewSendWindow.messages = [i \in Index |-> Blank]
      /\ NewReceiveWindow.valid = [i \in Index |-> FALSE]
  BY DEF NewSendWindow, NewReceiveWindow
<1>2. QED
  BY <1>1 DEF Holds

\* A session's first message, before it is known to the other end.
LEMMA FreshKept ==
  ASSUME IInv, EndsOK, UNCHANGED Books, UNCHANGED active,
         NEW e \in Objects, Fresh(e), NEW t, Store(e, t), Sound(t), t.out = << >>,
         t.state = IF e = Client THEN "SynSent" ELSE "SynReceived",
         t.sessionId = e, t.snd.nextSequence = 2, t.snd.nextUnacknowledged = 1,
         t.rcv.nextUnread = IF e = Client THEN 1 ELSE 2,
         t.rcv.valid = NewReceiveWindow.valid,
         t.snd.messages = [NewSendWindow.messages EXCEPT
                            ![Slot(1)] = [type |-> IF e = Client THEN "Syn" ELSE "SynAck",
                                          sessionId |-> e, seq |-> 1,
                                          data |-> IF e = Client THEN 0 ELSE 1]],
         active[Node(e)] \/ e = Client,
         key' = [key EXCEPT ![e] = e]
  PROVE  EndsOK' /\ Grown /\ UNCHANGED Stream!vars
<1> DEFINE u == [t EXCEPT !.out = << >>]
<1>0. /\ e \in Ids /\ e # InvalidSessionId
      /\ sent' = sent /\ delivered' = delivered /\ ended' = ended
      /\ key \in [Objects -> Ids]
  BY Names DEF Books, IInv, TypeOK
<1>1. /\ session'[e] = u
      /\ \A f \in Objects \ {e} : session'[f] = session[f]
      /\ key'[e] = e /\ \A f \in Objects \ {e} : key'[f] = key[f]
  BY <1>0, StoreKeeps
<1>2. /\ u.state = t.state /\ u.sessionId = t.sessionId /\ u.snd = t.snd /\ u.rcv = t.rcv
  BY DEF Sound, Calls
<1> HIDE DEF u
<1>3. /\ Untouched(session[e]) /\ Alone(e) /\ Peers(e) = {}
      /\ \A f \in Objects : e \notin Peers(f)
      /\ Len(delivered[e]) = 0 /\ Own(e) = {} /\ Sent(e) = {} /\ ~InTable(e)
      /\ e = Client => session[e].sessionId \notin Servers
  BY FreshIsAlone
<1>4. \A f \in Servers : Paired(f)' <=> Paired(f)
  <2>1. CASE e = Client
    BY <1>1, <1>2, <1>3, <2>1, Names DEF Paired
  <2>2. CASE e # Client
    BY <1>1, <2>2, Names DEF Paired
  <2>3. QED
    BY <2>1, <2>2
<1>5. \A f \in Objects : Peers(f)' = Peers(f)
  <2>1. Peers(Client)' = Peers(Client)
    BY <1>4 DEF Peers
  <2>2. ASSUME NEW f \in Servers PROVE Peers(f)' = Peers(f)
    BY <1>4, <2>1 DEF Peers
  <2>3. QED
    BY <2>1, <2>2, ClientOrServer
<1>6. ASSUME NEW f \in Objects \ {e} PROVE EndOK(f)'
  <2>1. Theirs(f)' = Theirs(f)
    BY <1>0, <1>1, <1>3, <1>5, PeersAreObjects DEF Theirs
  <2>2. \A p \in Peers(f) : session'[p] = session[p]
    BY <1>1, <1>3, PeersAreObjects
  <2>3. QED
    BY <1>0, <1>1, <1>5, <2>1, <2>2, Bystander
<1>7. EndOK(e)'
  <2>0. sent[e] = 0 /\ ~ended[e]
    BY <1>3 DEF Alone
  <2>1. Counted(e)'
    BY <1>0, <1>1, <1>2, <2>0 DEF Counted
  <2>2. ReadSoFar(e)'
    BY <1>0, <1>1, <1>2, <1>3, <2>0 DEF ReadSoFar
  <2>3. Destroyed(e)'
    BY <1>1, <1>2 DEF Destroyed
  <2>4. Filed(e)'
    BY <1>0, <1>1, <1>2 DEF Filed, InTable
  <2>5. Holds(session'[e], Own(e)', Theirs(e)')
    <3> DEFINE c == [type |-> IF e = Client THEN "Syn" ELSE "SynAck",
                     sessionId |-> e, seq |-> 1,
                     data |-> IF e = Client THEN 0 ELSE 1]
    <3>1. c \in Slots
      BY <1>0 DEF Slots, MessageTypes
    <3>2. c \in Own(e)'
      BY <1>1, <1>2, <3>1 DEF Own, Handshake
    <3> HIDE DEF c
    <3>3. u.snd.messages = [NewSendWindow.messages EXCEPT ![Slot(1)] = c]
      BY <1>2 DEF c
    <3>4. Holds(u, Own(e)', {})
      BY <1>2, <3>2, <3>3, FirstHolds
    <3>5. QED
      BY <1>1, <3>4, HoldsMore
  <2>6. QED
    BY <2>1, <2>2, <2>3, <2>4, <2>5 DEF EndOK
<1>8. Grown
  <2>1. ASSUME NEW f \in Objects PROVE Sent(f) \subseteq Sent(f)'
    BY <1>0, <1>1, <1>3 DEF Sent, Own
  <2>2. QED
    BY <2>1 DEF Grown
<1>9. Alone(e)'
  BY <1>0, <1>1, <1>2, <1>3 DEF Alone
<1>10. ClientKnown'
  <2>1. CASE e = Client
    BY <1>1, <1>2, <1>9, <2>1, Names DEF ClientKnown
  <2>2. CASE e # Client
    <3>1. /\ session'[Client] = session[Client]
          /\ \A f \in Servers : session[f].snd.nextSequence > 1
                                  => session'[f].snd.nextSequence > 1
      BY <1>1, <1>2, <2>2, Names
    <3>2. Alone(Client) => Alone(Client)'
      BY <1>0, <3>1 DEF Alone
    <3>3. QED
      BY <3>1, <3>2 DEF ClientKnown, EndsOK
  <2>3. QED
    BY <2>1, <2>2
<1>11. ASSUME NEW f \in Servers PROVE ServerKnown(f)'
  <2>1. CASE e = f
    BY <1>1, <1>2, <1>9, <2>1, Names DEF ServerKnown
  <2>2. CASE e # f
    <3>1. session'[f] = session[f] /\ (Alone(f) => Alone(f)')
      BY <1>0, <1>1, <2>2, Names DEF Alone
    <3>2. QED
      BY <1>4, <3>1 DEF ServerKnown, EndsOK
  <2>3. QED
    BY <2>1, <2>2
<1>12. AcknowledgedWasReceived'
  <2>1. \A f \in Servers : Paired(f) => f # e /\ Client # e
    BY <1>3, Names DEF Peers
  <2>2. \A f \in Servers : Paired(f) => session'[f] = session[f] /\ session'[Client] = session[Client]
    BY <1>1, <2>1, Names
  <2>3. QED
    BY <1>4, <2>2 DEF AcknowledgedWasReceived, EndsOK
<1>13. UNCHANGED Stream!vars
  <2>1. CASE e = Client
    <3>1. session'[Client].sessionId \notin Servers /\ session[Client].sessionId \notin Servers
      BY <1>1, <1>2, <1>3, <2>1, Names
    <3>2. QED
      BY <1>0, <3>1 DEF Stream!vars, OfEnds
  <2>2. CASE e # Client
    BY <1>1, <2>2, Names, StreamSame
  <2>3. QED
    BY <2>1, <2>2
<1>14. QED
  BY <1>6, <1>7, <1>8, <1>10, <1>11, <1>12, <1>13 DEF EndsOK

\* The client connects.
LEMMA EstablishKept == SInv /\ EstablishSessionForClient => Kept
<1> SUFFICES ASSUME SInv, EstablishSessionForClient PROVE Kept
  OBVIOUS
<1> USE DEF EstablishSessionForClient
<1>0. /\ IInv /\ EndsOK /\ WireOK /\ Client \in Objects /\ Client \in Ids
      /\ UNCHANGED Books
  BY Names DEF SInv, Books
<1>1. Untouched(session[Client]) /\ Good(session[Client])
  BY <1>0, FreshIsAlone DEF IInv
<1> DEFINE t == Connect(session[Client], Client)
<1>2. Good(t) /\ t.snd.nextSequence = 2
  BY <1>0, <1>1, ConnectGood
<1>3. /\ t.sessionId = Client /\ t.state = "SynSent" /\ t.out = << >>
      /\ t.rcv = NewReceiveWindow /\ t.snd.nextUnacknowledged = 1
      /\ t.snd.messages = [NewSendWindow.messages EXCEPT
                            ![Slot(1)] = [type |-> "Syn", sessionId |-> Client,
                                          seq |-> 1, data |-> 0]]
  BY <1>0, <1>1, ConnectFrame
<1>4. Store(Client, t)
  OBVIOUS
<1> HIDE DEF t
<1>5. t.rcv.nextUnread = 1
  BY <1>3 DEF NewReceiveWindow
<1>6. EndsOK' /\ Grown /\ UNCHANGED Stream!vars
  BY <1>0, <1>2, <1>3, <1>4, <1>5, FreshKept DEF Good
<1>7. QED
  BY <1>0, <1>6, SameWire DEF Kept

\* A Syn comes from the client.
LEMMA SynIsTheFirst ==
  ASSUME NEW n \in Nodes, NEW m \in Messages, Stripped(m) \in Arriving(n),
         m.type = "Syn"
  PROVE  m.seq = 1
BY DEF Arriving, Blank, Sent, Own, Handshake, Written, Acks, Stripped

\* The manager accepts a Syn.
LEMMA AcceptSynKept ==
  ASSUME NEW n \in Nodes, NEW m \in Messages, Stripped(m) \in Arriving(n),
         m.type = "Syn", NEW rest, RestOf(rest, net[n])
  PROVE  SInv /\ UNCHANGED active /\ UNCHANGED Books /\ AcceptSyn(n, m, rest) => Kept
<1> SUFFICES ASSUME SInv, UNCHANGED active, UNCHANGED Books, AcceptSyn(n, m, rest)
             PROVE  Kept
  OBVIOUS
<1>0. IInv /\ EndsOK /\ WireOK /\ n = "far" /\ active[n]
  BY DEF SInv, AcceptSyn, AcceptsSyn
<1>1. PICK e \in Servers :
        \E s \in {HandleMessage(BindToServer(session[e], e), m)} :
          /\ Fresh(e)
          /\ Store(e, s)
          /\ key' = [key EXCEPT ![e] = e]
          /\ Exchange(n, rest, s.out)
  BY DEF AcceptSyn
<1> DEFINE t == HandleMessage(BindToServer(session[e], e), m)
<1>2. /\ Fresh(e) /\ Store(e, t) /\ key' = [key EXCEPT ![e] = e]
      /\ Exchange(n, rest, t.out)
  BY <1>1
<1>3. e \in Objects /\ e \in Ids /\ e # Client /\ Node(e) = n
  BY <1>0, Names
<1>4. Good(session[e]) /\ Untouched(session[e])
  BY <1>0, <1>2, <1>3, FreshIsAlone DEF IInv
<1>5. Good(t) /\ t.snd.nextSequence = 2 /\ t.state = "SynReceived"
  BY <1>3, <1>4, AcceptSynGood
<1>6. m.seq = 1 /\ m.seq + 1 = 2
  BY SynIsTheFirst
<1>7. /\ t.sessionId = e /\ t.out = << >>
      /\ t.rcv.valid = NewReceiveWindow.valid
      /\ t.rcv.nextUnread = 2
      /\ t.snd.nextUnacknowledged = 1
      /\ t.snd.messages = [NewSendWindow.messages EXCEPT
                            ![Slot(1)] = [type |-> "SynAck", sessionId |-> e,
                                          seq |-> 1, data |-> 1]]
  BY <1>3, <1>4, <1>6, AcceptSynFrame
<1> HIDE DEF t
<1>8. EndsOK' /\ Grown /\ UNCHANGED Stream!vars
  BY <1>0, <1>2, <1>3, <1>5, <1>7, FreshKept DEF Good
<1>9. WireOK'
  <2>1. t.out \in Seq(Messages) /\ 1 .. Len(t.out) = {}
    BY <1>7
  <2>2. QED
    BY <1>0, <1>2, <1>8, <2>1, ExchangeWire DEF RestOf
<1>10. QED
  BY <1>8, <1>9 DEF Kept

\* A SynAck is the first message of a session of the server.
LEMMA SynAckIsTheFirst ==
  ASSUME IInv, EndsOK, NEW n \in Nodes, NEW m \in Messages, Stripped(m) \in Arriving(n),
         m.type = "SynAck"
  PROVE  /\ n = "near" /\ m.seq = 1 /\ m.data = 1 /\ m.sessionId \in Servers
         /\ session[m.sessionId].snd.nextSequence > 1
<1> DEFINE c == Stripped(m)
<1>1. c.type = "SynAck" /\ c.seq = m.seq /\ c.data = m.data /\ c.sessionId = m.sessionId
  BY DEF Stripped
<1> HIDE DEF c
<1>2. PICK p \in Objects : Node(p) # n /\ c \in Sent(p)
  BY <1>1 DEF Arriving, Blank, c
<1>3. c \in Handshake(p, session[p])
  BY <1>1, <1>2 DEF Sent, Own, Written, Acks
<1>4. p # Client
  BY <1>1, <1>3 DEF Handshake
<1>5. p \in Servers /\ n = "near"
  BY <1>2, <1>4, ClientOrServer, Names DEF Nodes
<1>6. QED
  BY <1>1, <1>3, <1>4, <1>5 DEF Handshake

\* The client takes its first SynAck: from now on it knows the other end.
LEMMA PairingKept ==
  ASSUME SInv, UNCHANGED Books, UNCHANGED active,
         NEW m \in Messages, Stripped(m) \in Arriving("near"), m.type = "SynAck",
         session[Client].state = "SynSent", InTable(Client), active["near"],
         NEW rest, RestOf(rest, net["near"]),
         Deliver("near", Client, m, rest),
         key' = [key EXCEPT ![Client] = m.sessionId]
  PROVE  Kept
<1> DEFINE e == m.sessionId
           s == session[Client]
           t == HandleMessage(s, m)
           u == [t EXCEPT !.out = << >>]
<1>0. /\ IInv /\ EndsOK /\ WireOK /\ Client \in Objects /\ "near" \in Nodes
      /\ sent' = sent /\ delivered' = delivered /\ ended' = ended
      /\ key \in [Objects -> Ids]
  BY Names DEF SInv, Books, Nodes, IInv, TypeOK
<1>1. /\ m.seq = 1 /\ m.data = 1 /\ e \in Servers /\ session[e].snd.nextSequence > 1
      /\ e # Client /\ e \in Objects /\ e \in Ids /\ e # InvalidSessionId
  BY <1>0, SynAckIsTheFirst, Names
<1>2. s.sessionId = Client /\ Alone(Client) /\ s.rcv.nextUnread = 1
  BY <1>0, <1>1, Names DEF EndsOK, ClientKnown
<1>3. \A f \in Servers : ~Paired(f)
  BY <1>2, Names DEF Paired
<1>4. \A f \in Objects : Peers(f) = {} /\ Theirs(f) = {}
  BY <1>3, Names, ClientOrServer DEF Peers, Theirs
<1>5. /\ Sound(s) /\ s.rcv = NewReceiveWindow /\ s.snd.nextUnacknowledged = 1
      /\ Ready(s, Own(Client), {})
  BY <1>0, <1>2, <1>4, AllReady, AllSound DEF IInv, Good, Early, Alone
<1>6. /\ Sound(t) /\ Holds(t, Own(Client), {}) /\ Emits(t, Own(Client))
      /\ t.sessionId = e
      /\ t.state \in {"Established", "Closed"}
      /\ t.snd.nextSequence = s.snd.nextSequence
      /\ t.snd.nextUnacknowledged <= 2
      /\ t.rcv.nextUnread = 2
  BY <1>1, <1>5, HandleSynAckPairs
<1>7. Store(Client, t) /\ Exchange("near", rest, t.out)
  BY DEF Deliver
<1> HIDE DEF t
<1>8. /\ session'[Client] = u
      /\ \A f \in Objects \ {Client} : session'[f] = session[f]
      /\ key'[Client] = e /\ \A f \in Objects \ {Client} : key'[f] = key[f]
  BY <1>0, <1>1, <1>7, StoreKeeps
<1>9. /\ u.state = t.state /\ u.sessionId = t.sessionId /\ u.snd = t.snd /\ u.rcv = t.rcv
  BY <1>6 DEF Sound, Calls
<1> HIDE DEF u
<1>10. \A f \in Servers : Paired(f)' <=> f = e
  BY <1>6, <1>8, <1>9 DEF Paired
<1>11. /\ sent[Client] = 0 /\ ~ended[Client] /\ s.snd.nextSequence <= 2
       /\ s.snd.nextSequence # 1
  BY <1>0, <1>2, InUseIsTouched DEF Alone
<1>12. Written(s, 0) = {} /\ Acks(s) = {}
  <2>1. s.rcv.nextExpected = 1
    BY <1>5 DEF NewReceiveWindow
  <2>2. QED
    BY <1>5, <1>11, <2>1, NothingWritten, NothingAcknowledged
<1>13. Own(Client) \subseteq Own(Client)'
  <2>1. Handshake(Client, s) = Handshake(Client, session'[Client])
    BY <1>6, <1>8, <1>9 DEF Handshake
  <2>2. QED
    BY <1>11, <1>12, <2>1 DEF Own
<1>14. Grown
  <2>1. Sent(Client) \subseteq Sent(Client)'
    BY <1>12, <1>13 DEF Sent
  <2>2. ASSUME NEW f \in Objects \ {Client} PROVE Sent(f) = Sent(f)'
    BY <1>0, <1>8 DEF Sent, Own
  <2>3. QED
    BY <2>1, <2>2 DEF Grown
<1>15. \A f \in Objects : ~ended[f]
  <2>1. \A f \in Objects : ended[f] => Peers(f) # {}
    BY <1>0 DEF EndsOK, EndOK, ReadSoFar
  <2>2. QED
    BY <1>4, <2>1
<1>16. ASSUME NEW f \in Objects \ {Client} PROVE EndOK(f)'
  BY <1>0, <1>4, <1>8, <1>15, Bystander
<1>17. EndOK(Client)'
  <2>1. Counted(Client)'
    BY <1>0, <1>6, <1>8, <1>9, <1>11 DEF Counted, EndsOK, EndOK
  <2>2. ReadSoFar(Client)'
    BY <1>0, <1>2, <1>6, <1>8, <1>9, <1>11 DEF ReadSoFar, EndsOK, EndOK
  <2>3. Destroyed(Client)'
    BY Names DEF Destroyed
  <2>4. Filed(Client)'
    BY <1>1, <1>6, <1>8, <1>9 DEF Filed, InTable
  <2>5. Holds(session'[Client], Own(Client)', Theirs(Client)')
    <3>1. Holds(u, Own(Client), {})
      BY <1>6, <1>9 DEF Holds
    <3>2. QED
      BY <1>8, <1>13, <3>1, HoldsMore
  <2>6. QED
    BY <2>1, <2>2, <2>3, <2>4, <2>5 DEF EndOK
<1>18. ClientKnown'
  <2>1. session'[e].snd.nextSequence > 1
    BY <1>1, <1>8
  <2>2. QED
    BY <1>1, <1>6, <1>8, <1>9, <2>1 DEF ClientKnown
<1>19. ASSUME NEW f \in Servers PROVE ServerKnown(f)'
  <2>1. f \in Objects /\ f # Client /\ ServerKnown(f)
    BY <1>0, Names DEF EndsOK
  <2>2. session'[f] = session[f]
    BY <1>8, <2>1
  <2>3. Alone(f)'
    BY <1>0, <1>3, <2>1, <2>2 DEF ServerKnown, Alone
  <2>4. QED
    BY <2>1, <2>2, <2>3 DEF ServerKnown
<1>20. Alone(e) /\ session[e].rcv.nextExpected >= 2 /\ Sound(session[e])
  BY <1>0, <1>1, <1>3, UsedServer, AllSound DEF EndsOK, ServerKnown
<1>21. AcknowledgedWasReceived'
  <2>1. /\ u.snd.nextUnacknowledged <= session[e].rcv.nextExpected
        /\ session[e].snd.nextUnacknowledged <= u.rcv.nextExpected
    BY <1>6, <1>9, <1>20, Numbers DEF Alone
  <2>2. QED
    BY <1>1, <1>8, <1>10, <2>1 DEF AcknowledgedWasReceived
<1>22. UNCHANGED Stream!vars
  <2>1. sent[e] = 0 /\ ended[e] = FALSE /\ delivered[e] = << >>
    <3>1. sent[e] = 0 /\ ~ended[e] /\ session[e].rcv.nextUnread \in {1, 2}
      <4>1. session[e].rcv.nextUnread \in Nat \ {0}
        BY <1>20, Numbers
      <4>2. QED
        BY <1>20, <4>1 DEF Alone
    <3>2. Len(delivered[e]) = 0
      BY <1>0, <1>1, <3>1 DEF EndsOK, EndOK, ReadSoFar
    <3>3. delivered[e] \in Seq(Nat) /\ ended[e] \in BOOLEAN
      BY <1>0, <1>1, AllSound
    <3>4. QED
      BY <3>1, <3>2, <3>3
  <2>2. session'[Client].sessionId = e /\ session[Client].sessionId \notin Servers
    BY <1>2, <1>6, <1>8, <1>9, Names
  <2>3. QED
    BY <1>0, <1>1, <2>1, <2>2 DEF Stream!vars, OfEnds
<1>23. WireOK'
  <2>1. Acks(t) \subseteq Acks(session'[Client])
    BY <1>8, <1>9 DEF Acks
  <2>2. \A i \in 1 .. Len(t.out) : Stripped(t.out[i]) \in Arriving(Remote("near"))'
    BY <1>0, <1>6, <1>13, <2>1, ForwardedArrives, Names
  <2>3. t.out \in Seq(Messages)
    BY <1>6, Numbers
  <2>4. QED
    BY <1>0, <1>7, <1>14, <2>2, <2>3, ExchangeWire DEF RestOf
<1>24. EndsOK'
  BY <1>16, <1>17, <1>18, <1>19, <1>21 DEF EndsOK
<1>25. QED
  BY <1>22, <1>23, <1>24 DEF Kept

\* What the manager finds under an id.
LEMMA LookupFinds ==
  ASSUME NEW n, NEW id, NEW e \in Lookup(n, id)
  PROVE  e \in Objects /\ InTable(e) /\ Node(e) = n /\ key[e] = id
BY DEF Lookup

\* A SynAck, the first or another.
LEMMA HandleSynAckKept ==
  ASSUME NEW n \in Nodes, NEW m \in Messages, Stripped(m) \in Arriving(n),
         m.type = "SynAck", NEW rest, RestOf(rest, net[n])
  PROVE  SInv /\ UNCHANGED active /\ UNCHANGED Books /\ HandleSynAck(n, m, rest) => Kept
<1> SUFFICES ASSUME SInv, UNCHANGED active, UNCHANGED Books, HandleSynAck(n, m, rest)
             PROVE  Kept
  OBVIOUS
<1>0. IInv /\ EndsOK /\ WireOK
  BY DEF SInv
<1> DEFINE c == m.sessionId
<1>1. CASE SendReset(n, m.sessionId, rest)
  BY <1>1, NobodyKept
<1>2. CASE \E e \in Objects : /\ active[n] /\ InTable(e) /\ Node(e) = n
                              /\ key[e] = c \/ (key[e] = Client /\ Lookup(n, c) = {})
                              /\ Deliver(n, e, m, rest)
                              /\ key' = [key EXCEPT ![e] = c]
  <2>1. PICK e \in Objects : /\ active[n] /\ InTable(e) /\ Node(e) = n
                             /\ key[e] = c \/ (key[e] = Client /\ Lookup(n, c) = {})
                             /\ Deliver(n, e, m, rest)
                             /\ key' = [key EXCEPT ![e] = c]
    BY <1>2
  <2>2. /\ n = "near" /\ m.seq = 1 /\ m.data = 1 /\ c \in Servers
        /\ session[c].snd.nextSequence > 1
    BY <1>0, SynAckIsTheFirst
  <2>3. e = Client
    BY <2>1, <2>2, ClientOrServer, Names
  <2> DEFINE s == session[Client]
             t == HandleMessage(s, m)
  <2>4. CASE s.state = "SynSent"
    BY <2>1, <2>2, <2>3, <2>4, PairingKept
  <2>5. Client \in Objects /\ Store(Client, t) /\ Exchange(Node(Client), rest, t.out)
        /\ RestOf(rest, net[Node(Client)])
    BY <2>1, <2>2, <2>3, Names DEF Deliver
  <2>6. Ready(s, Own(Client), Theirs(Client)) /\ Sound(s) /\ s.state \in SessionStates
        /\ \A p \in Peers(Client) : 0 < session[p].rcv.nextExpected
    BY <1>0, <2>5, AllReady, AllSound, PeersAreObjects, Numbers
  <2>7. \A f \in Objects \ {Client} : key'[f] = key[f]
    BY <1>0, <2>1, <2>3 DEF IInv, TypeOK
  <2>8. CASE s.state = "Closed"
    <3>1. t = UpdateSendWindowSize(s, m) /\ t.state = "Closed"
      <4>1. UpdateSendWindowSize(s, m).state = "Closed"
        BY <2>6, <2>8, UpdateSendWindowSizeLeads
      <4>2. HandleSynAckMessage(s, m) = UpdateSendWindowSize(s, m)
        BY <2>8 DEF HandleSynAckMessage, Open
      <4>3. QED
        BY <4>1, <4>2 DEF HandleMessage
    <3> HIDE DEF t
    <3>2. Leads(s, t, Own(Client), Theirs(Client), 0) /\ Calm(s, t)
      BY <2>6, <3>1, UpdateSendWindowSizeLeads DEF Calm, Open
    <3>3. QED
      BY <1>0, <2>5, <2>6, <2>7, <3>1, <3>2, CallKept
  <2>9. CASE s.state \notin {"SynSent", "Closed"}
    <3>1. s.sessionId \in Servers
      BY <1>0, <2>9 DEF EndsOK, ClientKnown, Alone
    <3>2. key[Client] = s.sessionId
      BY <1>0, <2>1, <2>3, <2>5, <2>9 DEF EndsOK, EndOK, Filed
    <3>3. key[Client] = c
      BY <2>1, <2>3, <3>1, <3>2, Names
    <3>4. Peers(Client) = {c} /\ session[c].rcv.nextExpected >= 2
      BY <1>0, <2>2, <3>2, <3>3, UsedServer DEF Peers, Paired
    <3>5. Leads(s, t, Own(Client), Theirs(Client), 1)
      BY <2>2, <2>6, <2>9, HandleMessageLeads
    <3> HIDE DEF t
    <3>6. 1 < session[c].rcv.nextExpected
      <4>1. c \in Objects /\ session[c].rcv.nextExpected \in Nat
        BY <1>0, <2>2, Names, AllSound, Numbers
      <4>2. QED
        BY <3>4, <4>1
    <3>7. key'[Client] = key[Client]
      BY <1>0, <2>1, <2>3, <3>3 DEF IInv, TypeOK
    <3>8. QED
      BY <1>0, <2>5, <2>7, <3>4, <3>5, <3>6, <3>7, CallKept
  <2>10. QED
    BY <2>4, <2>8, <2>9
<1> DEFINE found == IF Lookup(n, c) # {} THEN Lookup(n, c) ELSE Lookup(n, Client)
<1>3. ASSUME NEW e \in found
      PROVE  /\ e \in Objects /\ InTable(e) /\ Node(e) = n
             /\ key[e] = c \/ (key[e] = Client /\ Lookup(n, c) = {})
  <2>1. CASE e \in Lookup(n, c)
    <3>1. e \in Objects /\ InTable(e) /\ Node(e) = n /\ key[e] = c
      BY <2>1, LookupFinds
    <3>2. QED
      BY <3>1
  <2>2. CASE e \in Lookup(n, Client) /\ Lookup(n, c) = {}
    <3>1. e \in Objects /\ InTable(e) /\ Node(e) = n /\ key[e] = Client
      BY <2>2, LookupFinds
    <3>2. QED
      BY <2>2, <3>1
  <2>3. QED
    BY <2>1, <2>2
<1>4. \/ SendReset(n, c, rest)
      \/ active[n] /\ \E e \in found : /\ Deliver(n, e, m, rest)
                                      /\ key' = [key EXCEPT ![e] = c]
  BY DEF HandleSynAck
<1> HIDE DEF found
<1>5. QED
  BY <1>1, <1>2, <1>3, <1>4

-----------------------------------------------------------------------------
(* Sending, receiving, and the end of the stream.                          *)

\* The two ends of an open session.
LEMMA OpenIsPaired ==
  ASSUME IInv, EndsOK, NEW e \in Objects, session[e].state \in Open
  PROVE  /\ \E p \in Objects : Peers(e) = {p} /\ Peers(p) = {e} /\ p # e /\ Node(p) # Node(e)
         /\ session[Client].sessionId \in Servers
         /\ e \in {Client, session[Client].sessionId}
         /\ session[e].snd.nextSequence > 1 /\ session[e].rcv.nextUnread >= 2
         /\ InTable(e) /\ key[e] = session[e].sessionId
         /\ ~ended[e]
<1>0. Sound(session[e]) /\ ~Alone(e) /\ session[e].state # "Closed"
  BY AllSound DEF Alone, Open
<1>1. session[e].snd.nextSequence > 1
  BY <1>0, InUseIsTouched, Numbers
<1>2. InTable(e) /\ key[e] = session[e].sessionId /\ ~ended[e]
  BY <1>0 DEF EndsOK, EndOK, Filed, ReadSoFar
<1>3. CASE e = Client
  <2> DEFINE p == session[Client].sessionId
  <2>1. p \in Servers /\ session[e].rcv.nextUnread >= 2
    BY <1>0, <1>3 DEF EndsOK, ClientKnown
  <2>2. Peers(e) = {p} /\ Peers(p) = {e} /\ p \in Objects /\ p # e
    BY <1>3, <2>1, Names DEF Peers, Paired
  <2>3. QED
    BY <1>1, <1>2, <1>3, <2>1, <2>2, Names
<1>4. CASE e # Client
  <2>1. e \in Servers /\ Paired(e) /\ session[e].rcv.nextUnread >= 2
    BY <1>0, <1>1, <1>4, ClientOrServer DEF EndsOK, ServerKnown
  <2>2. Peers(e) = {Client} /\ Peers(Client) = {e} /\ Client \in Objects
    BY <1>4, <2>1, Names DEF Peers, Paired
  <2>3. QED
    BY <1>1, <1>2, <1>4, <2>1, <2>2, Names DEF Paired
<1>5. QED
  BY <1>3, <1>4

\* A call of an open session.
LEMMA OpenStep ==
  ASSUME IInv, EndsOK, UNCHANGED active, NEW e \in Objects, NEW p \in Objects,
         Peers(e) = {p}, session[e].state \in Open, NEW t, Store(e, t), Sound(t),
         \A f \in Objects \ {e} : /\ key'[f] = key[f] /\ sent'[f] = sent[f]
                                  /\ delivered'[f] = delivered[f] /\ ended'[f] = ended[f],
         key'[e] = key[e] \/ t.state = "Closed",
         t.sessionId = session[e].sessionId, t.state \in Open \cup {"Closed"},
         t.state = "Established" => session[e].state = "Established",
         t.snd.nextSequence >= session[e].snd.nextSequence,
         t.rcv.nextExpected >= session[e].rcv.nextExpected,
         t.rcv.nextUnread >= session[e].rcv.nextUnread,
         t.snd.nextUnacknowledged <= session[p].rcv.nextExpected,
         Written(session[e], sent[e]) \subseteq Written(t, sent'[e]),
         ended[p] => /\ t.snd.nextSequence = session[e].snd.nextSequence
                     /\ sent'[e] = sent[e],
         Holds(t, Handshake(e, t) \cup Written(t, sent'[e]), Theirs(e)),
         Counted(e)', ReadSoFar(e)'
  PROVE  /\ EndsOK' /\ Grown /\ Own(e) \subseteq Own(e)'
         /\ session'[Client].sessionId = session[Client].sessionId
<1> DEFINE s == session[e]
           u == [t EXCEPT !.out = << >>]
<1>0. /\ Sound(s) /\ Sound(session[p]) /\ Client \in Objects
      /\ s.snd.nextSequence > 1 /\ s.rcv.nextUnread >= 2 /\ session[e].state # "Closed"
      /\ InTable(e) /\ key[e] = s.sessionId /\ session[Client].sessionId \in Servers
      /\ p # e /\ e \in {Client, session[Client].sessionId} /\ Peers(p) = {e}
  <2>1. PICK q \in Objects : Peers(e) = {q} /\ Peers(q) = {e} /\ q # e
    BY OpenIsPaired
  <2>2. q = p
    BY <2>1
  <2>3. QED
    BY <2>1, <2>2, OpenIsPaired, AllSound, Names DEF Open
<1>1. /\ session'[e] = u
      /\ \A f \in Objects \ {e} : session'[f] = session[f]
  BY StoreKeeps
<1>2. /\ u.state = t.state /\ u.sessionId = t.sessionId /\ u.snd = t.snd /\ u.rcv = t.rcv
  BY DEF Sound, Calls
<1> HIDE DEF u
<1>3. session'[Client].sessionId = session[Client].sessionId
  BY <1>0, <1>1, <1>2
<1>4. /\ \A f \in Objects : Peers(f)' = Peers(f)
      /\ \A f \in Servers : Paired(f)' <=> Paired(f)
  BY <1>3, SamePeers DEF Paired
<1>5. /\ Handshake(e, u) = Handshake(e, t) /\ Written(u, sent'[e]) = Written(t, sent'[e])
      /\ Acks(u) = Acks(t)
  BY <1>2 DEF Handshake, Written, Acks
<1>6. Handshake(e, s) \subseteq Handshake(e, t) /\ Acks(s) \subseteq Acks(t)
  BY <1>0, SentGrows
<1>7. Own(e) \subseteq Own(e)' /\ Sent(e) \subseteq Sent(e)'
  BY <1>1, <1>5, <1>6 DEF Own, Sent
<1>8. Grown
  <2>1. ASSUME NEW f \in Objects \ {e} PROVE Sent(f)' = Sent(f)
    BY <1>1 DEF Sent, Own
  <2>2. QED
    BY <1>7, <2>1 DEF Grown
<1>9. \A f \in Objects : Written(session[f], sent[f]) \subseteq Written(session'[f], sent'[f])
  BY <1>1, <1>5
<1>10. \A f \in Objects : Theirs(f) \subseteq Theirs(f)'
  BY <1>4, <1>9, PeersAreObjects DEF Theirs
<1>11. ASSUME NEW f \in Objects \ {e} PROVE EndOK(f)'
  <2>1. ended[f] => \A q \in Peers(f) : /\ sent'[q] = sent[q]
                                        /\ session'[q].snd.nextSequence = session[q].snd.nextSequence
    <3>1. CASE f = p
      BY <1>0, <1>1, <1>2, <3>1
    <3>2. CASE f # p
      <4>1. e \notin Peers(f)
        BY <3>2, PeersAreObjects
      <4>2. QED
        BY <1>1, <4>1, PeersAreObjects
    <3>3. QED
      BY <3>1, <3>2
  <2>2. QED
    BY <1>1, <1>4, <1>10, <2>1, Bystander
<1>12. EndOK(e)'
  <2>1. Destroyed(e)'
    <3>1. Destroyed(e)
      BY DEF EndsOK, EndOK
    <3>2. QED
      BY <1>1, <1>2, <3>1 DEF Destroyed, Open
  <2>2. Filed(e)'
    BY <1>0, <1>1, <1>2 DEF Filed, InTable
  <2>3. Holds(session'[e], Own(e)', Theirs(e)')
    <3>1. Own(e)' = Handshake(e, t) \cup Written(t, sent'[e])
      BY <1>1, <1>5 DEF Own
    <3>2. Holds(u, Own(e)', Theirs(e))
      BY <1>2, <3>1 DEF Holds
    <3>3. QED
      BY <1>1, <1>10, <3>2, HoldsMore
  <2>4. QED
    BY <2>1, <2>2, <2>3 DEF EndOK
<1>13. /\ t.snd.nextSequence > 1 /\ t.rcv.nextUnread >= 2
       /\ t.state \notin {"SynSent", "SynReceived", "Listening"}
  BY <1>0, Numbers DEF Open
<1>14. ClientKnown'
  <2>1. \A f \in Servers : session[f].snd.nextSequence > 1 => session'[f].snd.nextSequence > 1
    BY <1>1, <1>2, <1>13, Names
  <2>2. /\ session'[Client].state \notin {"SynReceived", "Listening", "SynSent"}
        /\ session'[Client].rcv.nextUnread >= 2
    <3>1. CASE e = Client
      BY <1>1, <1>2, <1>13, <3>1
    <3>2. CASE e # Client
      BY <1>0, <1>1, <3>2 DEF EndsOK, ClientKnown
    <3>3. QED
      BY <3>1, <3>2
  <2>3. QED
    BY <1>0, <1>3, <2>1, <2>2 DEF ClientKnown, EndsOK
<1>15. ASSUME NEW f \in Servers PROVE ServerKnown(f)'
  <2>1. f \in Objects /\ ServerKnown(f)
    BY Names DEF EndsOK
  <2>2. CASE f = e
    <3>1. Paired(f)'
      BY <1>0, <1>3, <2>2, Names DEF Paired
    <3>2. s.sessionId = f
      BY <1>0, <2>1, <2>2 DEF ServerKnown
    <3>3. QED
      BY <1>1, <1>2, <1>13, <2>2, <3>1, <3>2 DEF ServerKnown
  <2>3. CASE f # e
    BY <1>1, <1>4, <2>1, <2>3 DEF ServerKnown, Alone
  <2>4. QED
    BY <2>2, <2>3
<1>16. AcknowledgedWasReceived'
  <2>0. session'[e].snd.nextUnacknowledged <= session'[p].rcv.nextExpected
    BY <1>0, <1>1, <1>2
  <2>1. session'[p].snd.nextUnacknowledged <= session'[e].rcv.nextExpected
    <3>1. session[p].snd.nextUnacknowledged <= session[e].rcv.nextExpected
      <4>1. CASE e = Client
        <5>1. p \in Servers /\ Paired(p)
          BY <4>1 DEF Peers
        <5>2. QED
          BY <4>1, <5>1 DEF EndsOK, AcknowledgedWasReceived
      <4>2. CASE e # Client
        <5>1. p = Client /\ e \in Servers /\ Paired(e)
          BY <4>2, ClientOrServer DEF Peers
        <5>2. QED
          BY <5>1 DEF EndsOK, AcknowledgedWasReceived
      <4>3. QED
        BY <4>1, <4>2
    <3>2. QED
      BY <1>0, <1>1, <1>2, <3>1, Numbers
  <2>2. ASSUME NEW f \in Servers, Paired(f)
        PROVE  (f = e /\ Client = p) \/ (f = p /\ Client = e)
    BY <1>0, <2>2, Names DEF Paired, Peers
  <2>3. ASSUME NEW f \in Servers, Paired(f)'
        PROVE  /\ session'[Client].snd.nextUnacknowledged <= session'[f].rcv.nextExpected
               /\ session'[f].snd.nextUnacknowledged <= session'[Client].rcv.nextExpected
    <3>1. (f = e /\ Client = p) \/ (f = p /\ Client = e)
      BY <1>4, <2>2, <2>3
    <3>2. QED
      BY <2>0, <2>1, <3>1
  <2>4. QED
    BY <2>3 DEF AcknowledgedWasReceived
<1>17. QED
  BY <1>3, <1>7, <1>8, <1>11, <1>12, <1>14, <1>15, <1>16 DEF EndsOK

\* The acknowledgements of an open session are of messages that arrived.
LEMMA PeerHasReceived ==
  ASSUME IInv, EndsOK, NEW e \in Objects, NEW p \in Objects, Peers(e) = {p}
  PROVE  /\ session[e].snd.nextUnacknowledged <= session[p].rcv.nextExpected
         /\ Theirs(e) = Written(session[p], sent[p])
<1>1. CASE e = Client
  <2>1. p \in Servers /\ Paired(p)
    BY <1>1 DEF Peers
  <2>2. QED
    BY <1>1, <2>1 DEF EndsOK, AcknowledgedWasReceived, Theirs
<1>2. CASE e # Client
  <2>1. p = Client /\ e \in Servers /\ Paired(e)
    BY <1>2, ClientOrServer DEF Peers
  <2>2. QED
    BY <2>1 DEF EndsOK, AcknowledgedWasReceived, Theirs
<1>3. QED
  BY <1>1, <1>2

\* What the stream of an open session is made of.
LEMMA OpenStream ==
  ASSUME session[Client].sessionId \in Servers, NEW f, NEW none,
         NEW e \in {Client, session[Client].sessionId}
  PROVE  /\ OfEnds(f, none)[Node(e)] = f[e]
         /\ \A n \in Nodes : n # Node(e) =>
              \A p \in {Client, session[Client].sessionId} :
                p # e => OfEnds(f, none)[n] = f[p]
BY Names DEF OfEnds, Node, Nodes

\* What belongs to the two ends has changed at one.
LEMMA EndChanges ==
  ASSUME NEW F, NEW G, NEW x, NEW y,
         F = [n \in Nodes |-> F[n]], G = [n \in Nodes |-> G[n]],
         G[x] = y, \A n \in Nodes : n # x => G[n] = F[n]
  PROVE  G = [F EXCEPT ![x] = y]
OBVIOUS

\* The owner sends.
LEMMA SendKept == ASSUME NEW e \in Objects PROVE SInv /\ Send(e) => Kept
<1> SUFFICES ASSUME SInv, Send(e) PROVE Kept
  OBVIOUS
<1> DEFINE s == session[e]
           n == sent[e]
           t == WriteMessageIntoSendWindow(s, "Data", n + 1)
<1>0. /\ IInv /\ EndsOK /\ WireOK /\ s.state \in Open /\ s.state # "FinWait2"
      /\ s.state # "Closed" /\ s.snd.semaphore > 0 /\ n \in Nat
      /\ Sound(s) /\ Holds(s, Own(e), Theirs(e)) /\ Counted(e) /\ ReadSoFar(e)
      /\ sent \in [Objects -> Nat]
  BY AllSound DEF SInv, Send, InUse, CanSend, EndsOK, EndOK, IInv, TypeOK
<1>1. PICK p \in Objects : Peers(e) = {p} /\ Peers(p) = {e} /\ p # e /\ Node(p) # Node(e)
  BY <1>0, OpenIsPaired
<1>2. /\ session[Client].sessionId \in Servers
      /\ e \in {Client, session[Client].sessionId}
      /\ s.snd.nextSequence > 1 /\ ~ended[e]
  BY <1>0, OpenIsPaired
<1>3. s.snd.nextSequence = n + 2
  BY <1>0, <1>2 DEF Counted
<1>4. ~ended[p]
  <2>1. EndOK(p)
    BY <1>0 DEF EndsOK
  <2>2. ended[p] => s.snd.nextSequence = n + 3
    BY <1>1, <2>1 DEF EndOK, ReadSoFar
  <2>3. QED
    BY <1>0, <1>3, <2>2
<1>5. Sound(t)
  BY <1>0, WriteIntoSendWindowSound DEF MessageTypes
<1> DEFINE c == NewSlot(s, "Data", n + 2, n + 1)
<1>6. /\ t.sessionId = s.sessionId /\ t.out = s.out /\ t.state = s.state /\ t.rcv = s.rcv
      /\ t.snd.nextUnacknowledged = s.snd.nextUnacknowledged
      /\ t.snd.nextSequence = n + 3
      /\ t.snd.messages = [s.snd.messages EXCEPT ![Slot(n + 2)] = c]
  <2>1. n + 2 + 1 = n + 3
    BY <1>0
  <2>2. QED
    BY <1>0, <1>3, <2>1, WriteFrame DEF MessageTypes
<1>7. c \in Slots /\ c.type = "Data" /\ c.sessionId = s.sessionId /\ c.seq = n + 2
      /\ c.data = n + 1
  BY <1>0, Numbers DEF NewSlot, Slots, MessageTypes
<1> HIDE DEF t, c
<1>8. c \in Written(t, n + 1)
  BY <1>0, <1>6, <1>7 DEF Written
<1>9. Written(s, n) \subseteq Written(t, n + 1)
  <2>1. ASSUME NEW d \in Written(s, n) PROVE d \in Written(t, n + 1)
    <3>1. d \in Slots /\ d.seq \in Nat
      BY DEF Written, Slots
    <3>2. QED
      BY <1>0, <1>3, <1>6, <3>1 DEF Written
  <2>2. QED
    BY <2>1
<1>10. /\ Store(e, t) /\ sent' = [sent EXCEPT ![e] = n + 1]
       /\ UNCHANGED <<key, active, net, delivered, ended>>
  BY DEF Send, t
<1>11. sent'[e] = n + 1 /\ \A f \in Objects \ {e} : sent'[f] = sent[f]
  BY <1>0, <1>10
<1>12. /\ session'[e].state = t.state /\ session'[e].snd = t.snd /\ session'[e].rcv = t.rcv
  <2>1. session'[e] = [t EXCEPT !.out = << >>]
    BY <1>0, <1>10, StoreKeeps
  <2>2. QED
    BY <1>5, <2>1 DEF Sound, Calls
<1>13. /\ t.snd.nextSequence >= s.snd.nextSequence
       /\ t.rcv.nextExpected >= s.rcv.nextExpected
       /\ t.rcv.nextUnread >= s.rcv.nextUnread
       /\ t.snd.nextUnacknowledged <= session[p].rcv.nextExpected
  BY <1>0, <1>1, <1>3, <1>6, Numbers, PeerHasReceived
<1>14. Holds(t, Handshake(e, t) \cup Written(t, n + 1), Theirs(e))
  <2>1. Handshake(e, s) \subseteq Handshake(e, t)
    BY <1>0, <1>5, <1>6, <1>13, SentGrows
  <2>2. Own(e) \subseteq Handshake(e, t) \cup Written(t, n + 1)
    BY <1>9, <2>1 DEF Own
  <2>3. Slot(n + 2) \in Index
    BY <1>0, SlotInIndex
  <2> DEFINE x == Handshake(e, t) \cup Written(t, n + 1)
  <2>4. c \in x /\ Own(e) \subseteq x
    BY <1>8, <2>2
  <2> HIDE DEF x
  <2>5. Holds(t, x, Theirs(e))
    BY <1>0, <1>6, <2>3, <2>4, WriteHolds
  <2>6. QED
    BY <2>5 DEF x
<1>15. Counted(e)' /\ ReadSoFar(e)'
  <2>1. Counted(e)'
    BY <1>0, <1>6, <1>11, <1>12 DEF Counted
  <2>2. ReadSoFar(e)'
    BY <1>0, <1>2, <1>6, <1>10, <1>12 DEF ReadSoFar
  <2>3. QED
    BY <2>1, <2>2
<1>16. /\ EndsOK' /\ Grown
       /\ session'[Client].sessionId = session[Client].sessionId
  BY <1>0, <1>1, <1>4, <1>5, <1>6, <1>9, <1>10, <1>11, <1>14, <1>15, <1>13, OpenStep
<1>17. WireOK'
  BY <1>0, <1>10, <1>16, SameWire
<1>18. Stream!Send(Node(e))
  <2>1. Stream!Peer(Node(e)) = Node(p)
    BY <1>1 DEF Stream!Peer, Node
  <2>2. p \in {Client, session[Client].sessionId}
    BY <1>1, <1>2, ClientOrServer, Names DEF Peers, Paired
  <2>3. OfEnds(ended, FALSE)[Node(p)] = ended[p]
    BY <1>2, <2>2, OpenStream
  <2>4. UNCHANGED <<OfEnds(delivered, << >>), OfEnds(ended, FALSE)>>
    BY <1>10, <1>16 DEF OfEnds
  <2>5. OfEnds(sent, 0)' = [OfEnds(sent, 0) EXCEPT ![Node(e)] = @ + 1]
    BY <1>0, <1>2, <1>10, <1>11, <1>16, Names DEF OfEnds, Node, Nodes
  <2>6. QED
    BY <1>4, <2>1, <2>3, <2>4, <2>5 DEF Stream!Send
<1>19. QED
  BY <1>16, <1>17, <1>18, TwoNodes DEF Kept, Stream!Next, Stream!Ends, Nodes

\* The owner receives the next message, or is told of the end.
LEMMA ReceiveNextKept == ASSUME NEW e \in Objects PROVE SInv /\ ReceiveNext(e) => Kept
<1> SUFFICES ASSUME SInv, ReceiveNext(e) PROVE Kept
  OBVIOUS
<1> DEFINE s == session[e]
           t == Receive(s)
           q == s.rcv.nextUnread
           c == s.rcv.messages[Slot(q)]
<1>0. /\ IInv /\ EndsOK /\ WireOK /\ s.state \in Open /\ CanReceive(s)
      /\ Good(s) /\ Sound(s) /\ Holds(s, Own(e), Theirs(e)) /\ Counted(e) /\ ReadSoFar(e)
      /\ delivered \in [Objects -> Seq(Nat)] /\ ended \in [Objects -> BOOLEAN]
  BY AllSound DEF SInv, ReceiveNext, InUse, EndsOK, EndOK, IInv, TypeOK
<1>1. PICK p \in Objects : Peers(e) = {p} /\ Peers(p) = {e} /\ p # e /\ Node(p) # Node(e)
  BY <1>0, OpenIsPaired
<1>2. /\ session[Client].sessionId \in Servers
      /\ e \in {Client, session[Client].sessionId}
      /\ q >= 2 /\ q \in Nat /\ ~ended[e]
  BY <1>0, OpenIsPaired, Numbers
<1>3. /\ Slot(q) \in Index /\ s.rcv.valid[Slot(q)] /\ c \in Slots /\ c.seq = q
      /\ t.snd = s.snd /\ t.sessionId = s.sessionId
      /\ t.rcv.messages = s.rcv.messages
      /\ \A j \in Index : t.rcv.valid[j] => s.rcv.valid[j]
      /\ t.rcv.nextUnread = q + 1
      /\ t.rcv.nextExpected = s.rcv.nextExpected
      /\ t.state = IF c.type = "Data" THEN s.state ELSE "Closed"
  BY <1>0, ReceiveFrame
<1>4. Evolves(s, t)
  BY <1>0, ReceiveEvolves
<1>5. Sound(t)
  BY <1>4 DEF Evolves, Good
<1>6. NextUnread(s) = c
  BY DEF NextUnread
<1>7. /\ Store(e, t) /\ UNCHANGED <<key, active, net, sent>>
      /\ IF c.type = "Data"
           THEN delivered' = [delivered EXCEPT ![e] = Append(@, c.data)] /\ UNCHANGED ended
           ELSE ended' = [ended EXCEPT ![e] = TRUE] /\ UNCHANGED delivered
  BY <1>6 DEF ReceiveNext
<1> HIDE DEF t, c
<1>8. c \in Written(session[p], sent[p])
  BY <1>0, <1>1, <1>3, PeerHasReceived DEF Holds, c
<1>9. /\ session'[e].state = t.state /\ session'[e].snd = t.snd /\ session'[e].rcv = t.rcv
      /\ \A f \in Objects \ {e} : session'[f] = session[f]
  <2>1. session'[e] = [t EXCEPT !.out = << >>]
        /\ \A f \in Objects \ {e} : session'[f] = session[f]
    BY <1>0, <1>7, StoreKeeps
  <2>2. QED
    BY <1>5, <2>1 DEF Sound, Calls
<1>10. Len(delivered[e]) = q - 2 /\ delivered[e] \in Seq(Nat) /\ sent[p] \in Nat
  BY <1>0, <1>1, <1>2, AllSound DEF ReadSoFar
<1>11. Peers(e)' = {p}
  <2>1. session'[Client].sessionId = session[Client].sessionId
    <3>1. session'[e] = [t EXCEPT !.out = << >>]
          /\ \A f \in Objects \ {e} : session'[f] = session[f]
      BY <1>0, <1>7, StoreKeeps
    <3>2. session'[e].sessionId = s.sessionId
      BY <1>3, <1>5, <3>1 DEF Sound, Calls
    <3>3. QED
      BY <3>1, <3>2, Names
  <2>2. QED
    BY <1>1, <2>1, SamePeers
<1>12. c.type = "Data" => c.data = q - 1 /\ q - 2 < sent[p]
  <2>1. c.type = "Data" => c.seq \in 2 .. (sent[p] + 1) /\ c.data = c.seq - 1
    BY <1>8 DEF Written
  <2>2. QED
    BY <1>2, <1>3, <1>10, <2>1
<1>13. c.type # "Data" => q - 2 = sent[p] /\ session[p].snd.nextSequence = sent[p] + 3
  <2>1. SUFFICES ASSUME c.type # "Data"
                 PROVE  q - 2 = sent[p] /\ session[p].snd.nextSequence = sent[p] + 3
    OBVIOUS
  <2>2. q = sent[p] + 2 /\ q < session[p].snd.nextSequence
    BY <1>3, <1>8, <2>1 DEF Written
  <2>3. Counted(p) /\ session[p].snd.nextSequence \in Nat
    BY <1>0, AllSound, Numbers DEF EndsOK, EndOK
  <2> DEFINE x == session[p].snd.nextSequence
             y == sent[p]
  <2>4. (x = 1 /\ y = 0) \/ x = y + 2 \/ x = y + 3
    BY <2>3 DEF Counted
  <2>5. x \in Nat /\ y \in Nat /\ q = y + 2 /\ q < x
    BY <1>10, <2>2, <2>3
  <2> HIDE DEF x, y
  <2>6. q - 2 = y /\ x = y + 3
    BY <1>2, <2>4, <2>5
  <2>7. QED
    BY <2>6 DEF x, y
<1>14. /\ \A f \in Objects \ {e} : delivered'[f] = delivered[f] /\ ended'[f] = ended[f]
       /\ c.type = "Data" => /\ delivered'[e] = Append(delivered[e], q - 1)
                             /\ ended'[e] = FALSE
       /\ c.type # "Data" => delivered'[e] = delivered[e] /\ ended'[e] = TRUE
  <2>1. CASE c.type = "Data"
    BY <1>0, <1>2, <1>7, <1>12, <2>1
  <2>2. CASE c.type # "Data"
    BY <1>0, <1>7, <2>2
  <2>3. QED
    BY <2>1, <2>2
<1>15. Counted(e)'
  BY <1>0, <1>3, <1>7, <1>9 DEF Counted, Open
<1>16. ReadSoFar(e)'
  <2>1. CASE c.type = "Data"
    <3>1. Len(delivered'[e]) = q - 1
      <4>1. q - 1 \in Nat /\ (q - 2) + 1 = q - 1
        BY <1>2
      <4>2. delivered'[e] = Append(delivered[e], q - 1)
        BY <1>14, <2>1
      <4>3. Len(Append(delivered[e], q - 1)) = Len(delivered[e]) + 1
        BY <1>10, <4>1
      <4>4. QED
        BY <1>10, <4>1, <4>2, <4>3
    <3>2. QED
      BY <1>2, <1>3, <1>9, <1>14, <2>1, <3>1 DEF ReadSoFar
  <2>2. CASE c.type # "Data"
    <3>1. /\ Len(delivered'[e]) = sent'[p] /\ session'[p].snd.nextSequence = sent'[p] + 3
      BY <1>1, <1>7, <1>9, <1>10, <1>13, <1>14, <2>2
    <3>2. session'[e].state = "Closed"
      BY <1>3, <1>9, <2>2
    <3>3. QED
      BY <1>11, <1>14, <2>2, <3>1, <3>2 DEF ReadSoFar
  <2>3. QED
    BY <2>1, <2>2
<1>17. /\ Written(t, sent'[e]) = Written(s, sent[e]) /\ Handshake(e, t) = Handshake(e, s)
  BY <1>3, <1>7 DEF Written, Handshake
<1>18. Holds(t, Handshake(e, t) \cup Written(t, sent'[e]), Theirs(e))
  BY <1>0, <1>3, <1>17 DEF Holds, Own
<1>19. /\ t.snd.nextSequence >= s.snd.nextSequence
       /\ t.rcv.nextExpected >= s.rcv.nextExpected
       /\ t.rcv.nextUnread >= s.rcv.nextUnread
       /\ t.snd.nextUnacknowledged <= session[p].rcv.nextExpected
       /\ t.state \in Open \cup {"Closed"}
       /\ t.state = "Established" => s.state = "Established"
  BY <1>0, <1>1, <1>3, Numbers, PeerHasReceived
<1>20. /\ EndsOK' /\ Grown
       /\ session'[Client].sessionId = session[Client].sessionId
  BY <1>0, <1>1, <1>3, <1>5, <1>7, <1>14, <1>15, <1>16, <1>17, <1>18, <1>19, OpenStep
<1>21. WireOK'
  BY <1>0, <1>7, <1>20, SameWire
<1>22. Stream!Next
  <2> DEFINE x == Node(e)
  <2>1. Stream!Peer(x) = Node(p) /\ x \in Stream!Ends
    BY <1>1, TwoNodes DEF Stream!Peer, Node, Stream!Ends, Nodes
  <2>2. p \in {Client, session[Client].sessionId}
    BY <1>1, <1>2, ClientOrServer, Names DEF Peers, Paired
  <2>3. /\ OfEnds(ended, FALSE)[x] = ended[e] /\ OfEnds(delivered, << >>)[x] = delivered[e]
        /\ OfEnds(sent, 0)[Node(p)] = sent[p]
    <3>1. Node(p) \in Nodes
      BY TwoNodes
    <3>2. QED
      BY <1>1, <1>2, <2>2, <3>1, OpenStream
  <2>4. UNCHANGED OfEnds(sent, 0)
    BY <1>7, <1>20 DEF OfEnds
  <2>5. CASE c.type = "Data"
    <3>1. UNCHANGED OfEnds(ended, FALSE)
      BY <1>7, <1>20, <2>5 DEF OfEnds
    <3>2. Append(delivered[e], Len(delivered[e]) + 1) = delivered'[e]
      <4>1. q - 1 = (q - 2) + 1
        BY <1>2
      <4>2. QED
        BY <1>10, <1>14, <2>5, <4>1
    <3>3. OfEnds(delivered, << >>)' = [OfEnds(delivered, << >>) EXCEPT
                                         ![x] = Append(@, Len(@) + 1)]
      <4>1. /\ OfEnds(delivered, << >>)'[x] = delivered'[e]
            /\ \A n \in Nodes : n # x =>
                 OfEnds(delivered, << >>)'[n] = OfEnds(delivered, << >>)[n]
        BY <1>2, <1>14, <1>20, Names DEF OfEnds, Node, Nodes
      <4> DEFINE F == OfEnds(delivered, << >>)
                 G == OfEnds(delivered, << >>)'
                 y == Append(delivered[e], Len(delivered[e]) + 1)
      <4>2. F = [n \in Nodes |-> F[n]] /\ G = [n \in Nodes |-> G[n]] /\ F[x] = delivered[e]
        BY <2>3 DEF OfEnds
      <4>3. G[x] = y /\ \A n \in Nodes : n # x => G[n] = F[n]
        BY <3>2, <4>1
      <4>4. y = Append(F[x], Len(F[x]) + 1)
        BY <4>2
      <4> HIDE DEF F, G, y
      <4>5. G = [F EXCEPT ![x] = y]
        BY <4>2, <4>3, EndChanges
      <4>6. G = [F EXCEPT ![x] = Append(F[x], Len(F[x]) + 1)]
        BY <4>4, <4>5
      <4>7. QED
        BY <4>6 DEF F, G
    <3>4. Stream!Receive(x)
      BY <1>2, <1>10, <1>12, <2>1, <2>3, <2>4, <2>5, <3>1, <3>3 DEF Stream!Receive
    <3>5. QED
      BY <2>1, <3>4 DEF Stream!Next
  <2>6. CASE c.type # "Data"
    <3>1. UNCHANGED OfEnds(delivered, << >>)
      BY <1>7, <1>20, <2>6 DEF OfEnds
    <3>2. OfEnds(ended, FALSE)' = [OfEnds(ended, FALSE) EXCEPT ![x] = TRUE]
      <4>1. /\ OfEnds(ended, FALSE)'[x] = TRUE
            /\ \A n \in Nodes : n # x => OfEnds(ended, FALSE)'[n] = OfEnds(ended, FALSE)[n]
        BY <1>2, <1>14, <1>20, <2>6, Names DEF OfEnds, Node, Nodes
      <4>2. QED
        BY <4>1, EndChanges DEF OfEnds
    <3>3. Stream!EndOfStream(x)
      BY <1>2, <1>10, <1>13, <2>1, <2>3, <2>4, <2>6, <3>1, <3>2 DEF Stream!EndOfStream
    <3>4. QED
      BY <2>1, <3>3 DEF Stream!Next
  <2>7. QED
    BY <2>5, <2>6
<1>23. QED
  BY <1>20, <1>21, <1>22 DEF Kept

-----------------------------------------------------------------------------
(* The update of a session.                                                *)

\* The end of an update forwards nothing.
LEMMA NotifyOwnerQuiet == ASSUME NEW s, Sound(s) PROVE NotifyOwner(s).out = s.out
<1> DEFINE t == IF s.state \in Open /\ ~s.owner THEN Shutdown(s, "Error") ELSE s
<1>1. Sound(t) /\ t.out = s.out
  BY ShutdownSound DEF Reasons
<1>2. NotifyOwner(s) = IF t.state = "Closed" THEN Orphan(t) ELSE t
  BY DEF NotifyOwner
<1> HIDE DEF t
<1>3. Orphan(t).out = t.out
  BY <1>1 DEF Orphan, Sound, Calls
<1>4. QED
  BY <1>1, <1>2, <1>3

LEMMA UpdateTimeoutQuiet ==
  ASSUME NEW s, Sound(s), s.state # "FinWait1"
  PROVE  UpdateTimeout(s).out = s.out
BY DEF UpdateTimeout, SetState, Sound, Calls

\* The window updates of a session.
LEMMA UpdateWindowsLeads ==
  ASSUME IInv, EndsOK, NEW e \in Objects, NEW k \in Nat, NEW n \in Nat,
         n <= Sendable(session[e].snd)
  PROVE  LET s == UpdateSendWindow(UpdateReceiveWindow(session[e]), k, n)
         IN  /\ Leads(session[e], s, Own(e), Theirs(e), 0) /\ Calm(session[e], s)
             /\ Good(s)
<1> DEFINE w == Own(e)
           p == Theirs(e)
           r == UpdateReceiveWindow(session[e])
           q == Retransmit(r, k)
           s == Transmit(q, n)
<1>0. Ready(session[e], w, p) /\ Good(session[e]) /\ Sound(session[e])
  BY AllReady, AllSound DEF IInv
<1> HIDE DEF w, p
<1>1. /\ Leads(session[e], r, w, p, 0) /\ Calm(session[e], r) /\ r.snd = session[e].snd
      /\ Good(r)
  BY <1>0, UpdateReceiveWindowLeads, UpdateReceiveWindowEvolves DEF Evolves
<1> HIDE DEF r
<1>2. Leads(r, q, w, p, 0) /\ Calm(r, q) /\ Good(q) /\ Counters(q.snd) = Counters(r.snd)
  BY <1>1, LeadsReady, RetransmitLeads, RetransmitEvolves DEF Evolves
<1> HIDE DEF q
<1>3. n <= Sendable(q.snd)
  BY <1>1, <1>2 DEF Sendable, Counters
<1>4. Leads(q, s, w, p, 0) /\ Calm(q, s) /\ Good(s)
  BY <1>2, <1>3, LeadsReady, TransmitLeads, TransmitEvolves DEF Evolves
<1> HIDE DEF s
<1>5. Leads(session[e], q, w, p, 0) /\ Calm(session[e], q)
  BY <1>0, <1>1, <1>2, LeadsTransitive DEF Calm
<1>6. Leads(session[e], s, w, p, 0) /\ Calm(session[e], s)
  BY <1>0, <1>4, <1>5, LeadsTransitive DEF Calm
<1>7. QED
  BY <1>4, <1>6 DEF r, q, s, w, p, UpdateSendWindow

\* The Fin is written into the send window.
LEMMA FinKept ==
  ASSUME IInv, EndsOK, WireOK, UNCHANGED active, UNCHANGED Books,
         NEW e \in Objects, NEW s, Leads(session[e], s, Own(e), Theirs(e), 0),
         Calm(session[e], s), Good(s), s.state = "FinWait1", ~FinBlocks(s),
         Store(e, NotifyOwner(UpdateTimeout(s))), Emit(Node(e), s.out),
         key'[e] = key[e] \/ NotifyOwner(UpdateTimeout(s)).state = "Closed",
         \A f \in Objects \ {e} : key'[f] = key[f]
  PROVE  Kept
<1> DEFINE n == sent[e]
           v == UpdateTimeout(s)
           t == NotifyOwner(v)
           w == Handshake(e, v) \cup Written(v, n)
           c == NewSlot(s, "Fin", n + 2, 0)
<1>0. /\ Sound(session[e]) /\ Sound(s) /\ s.out \in Seq(Messages)
      /\ Ready(session[e], Own(e), Theirs(e))
      /\ session[e].state \in Open /\ n \in Nat /\ EndOK(e)
      /\ sent' = sent /\ delivered' = delivered /\ ended' = ended
  BY AllSound, AllReady, Numbers DEF Calm, Open, Good, EndsOK, Books
<1>1. PICK p \in Objects : Peers(e) = {p} /\ Peers(p) = {e} /\ p # e /\ Node(p) # Node(e)
  BY <1>0, OpenIsPaired
<1>2. session[e].snd.nextSequence > 1 /\ ~ended[e]
  BY <1>0, OpenIsPaired
<1>3. session[e].snd.nextSequence = n + 2 /\ s.snd.nextSequence = n + 2
  <2>1. session[e].state \notin {"FinWait2", "Closed"}
    BY DEF Leads, Moves
  <2>2. QED
    BY <1>0, <1>2, <2>1 DEF EndOK, Counted, Leads
<1>4. ~ended[p]
  <2>1. EndOK(p)
    BY DEF EndsOK
  <2>2. ended[p] => session[e].snd.nextSequence = n + 3
    BY <1>1, <2>1 DEF EndOK, ReadSoFar
  <2>3. QED
    BY <1>0, <1>3, <2>2
<1>5. /\ Sound(v) /\ v.sessionId = s.sessionId /\ v.out = s.out /\ v.rcv = s.rcv
      /\ v.snd.nextUnacknowledged = s.snd.nextUnacknowledged
      /\ v.snd.nextSequence = n + 3
      /\ v.snd.messages = [s.snd.messages EXCEPT ![Slot(n + 2)] = c]
      /\ v.state \in {"FinWait2", "Closed"}
  <2>1. n + 2 + 1 = n + 3
    BY <1>0
  <2>2. QED
    BY <1>3, <2>1, FinFrame
<1>6. c \in Slots /\ c.type = "Fin" /\ c.sessionId = s.sessionId /\ c.seq = n + 2
  BY <1>0, Numbers DEF NewSlot, Slots, MessageTypes
<1> HIDE DEF v, c
<1>7. c \in Written(v, n)
  BY <1>0, <1>5, <1>6 DEF Written
<1>8. /\ Handshake(e, session[e]) \subseteq Handshake(e, v)
      /\ Written(session[e], n) \subseteq Written(v, n)
  <2>1. /\ v.snd.nextSequence >= session[e].snd.nextSequence
        /\ v.rcv.nextExpected >= session[e].rcv.nextExpected
        /\ v.sessionId = session[e].sessionId
    BY <1>0, <1>3, <1>5 DEF Leads
  <2>2. QED
    BY <1>0, <1>5, <2>1, SentGrows
<1>9. Own(e) \subseteq w /\ c \in w
  BY <1>7, <1>8 DEF Own
<1> HIDE DEF w
<1>10. Ready(v, w, Theirs(e))
  <2>1. Slot(n + 2) \in Index
    BY <1>0, SlotInIndex
  <2>2. Holds(v, w, Theirs(e))
    <3>1. Holds(s, Own(e), Theirs(e))
      BY DEF Leads
    <3> DEFINE i == Slot(n + 2)
               y == Theirs(e)
               o == Own(e)
    <3>2. /\ Sound(s) /\ Holds(s, o, y) /\ o \subseteq w /\ y \subseteq y /\ c \in w
          /\ v.snd.messages = [s.snd.messages EXCEPT ![i] = c] /\ v.rcv = s.rcv
          /\ i \in Index
      BY <1>0, <1>5, <1>9, <2>1, <3>1
    <3> HIDE DEF i, y, o
    <3>3. Holds(v, w, y)
      BY <3>2, WriteHolds
    <3>4. QED
      BY <3>3 DEF y
  <2>3. Emits(v, w)
    BY <1>5, <1>9 DEF Leads, Emits, Acks
  <2>4. QED
    BY <1>5, <2>2, <2>3 DEF Ready
<1>11. Leads(v, t, w, Theirs(e), 0) /\ t.out = s.out
  BY <1>5, <1>10, NotifyOwnerLeads, NotifyOwnerQuiet
<1> HIDE DEF t
<1>12. /\ Sound(t) /\ t.sessionId = session[e].sessionId
       /\ t.snd.nextSequence = n + 3
       /\ t.rcv.nextUnread = session[e].rcv.nextUnread
       /\ t.state \in {"FinWait2", "Closed"}
  BY <1>5, <1>11 DEF Leads, Moves
<1>13. /\ t.rcv.nextExpected >= session[e].rcv.nextExpected
       /\ t.rcv.nextExpected >= s.rcv.nextExpected
  <2>1. /\ t.rcv.nextExpected >= v.rcv.nextExpected
        /\ s.rcv.nextExpected >= session[e].rcv.nextExpected
        /\ t.rcv.nextExpected \in Nat /\ s.rcv.nextExpected \in Nat
        /\ session[e].rcv.nextExpected \in Nat
    BY <1>0, <1>11, <1>12, Numbers DEF Leads
  <2>2. QED
    BY <1>5, <2>1
<1>14. t.snd.nextUnacknowledged <= session[p].rcv.nextExpected
  <2> DEFINE x == session[e].snd.nextUnacknowledged
             y == s.snd.nextUnacknowledged
             z == t.snd.nextUnacknowledged
  <2>1. (y > x => y <= 1) /\ (z > y => z <= 1)
    BY <1>5, <1>11 DEF Leads
  <2>2. x \in Nat /\ y \in Nat /\ z \in Nat /\ session[p].rcv.nextExpected \in Nat \ {0}
    BY <1>0, <1>12, AllSound, Numbers
  <2>3. x <= session[p].rcv.nextExpected
    BY <1>1, PeerHasReceived
  <2> HIDE DEF x, y, z
  <2>4. z <= session[p].rcv.nextExpected
    BY <2>1, <2>2, <2>3
  <2>5. QED
    BY <2>4 DEF z
<1>15. Handshake(e, t) = Handshake(e, v) /\ Written(t, n) = Written(v, n)
  BY <1>5, <1>11 DEF Leads, Handshake, Written
<1>16. Holds(t, Handshake(e, t) \cup Written(t, n), Theirs(e))
  BY <1>11, <1>15 DEF Leads, w
<1>17. /\ session'[e].state = t.state /\ session'[e].snd = t.snd /\ session'[e].rcv = t.rcv
  <2>1. session'[e] = [t EXCEPT !.out = << >>]
    BY StoreKeeps DEF t, v
  <2>2. QED
    BY <1>12, <2>1 DEF Sound, Calls
<1>18. Counted(e)' /\ ReadSoFar(e)'
  BY <1>0, <1>2, <1>12, <1>17 DEF Counted, ReadSoFar, EndOK
<1>19. /\ t.snd.nextSequence >= session[e].snd.nextSequence
       /\ t.rcv.nextUnread >= session[e].rcv.nextUnread
       /\ t.state \in Open \cup {"Closed"} /\ t.state # "Established"
  BY <1>0, <1>3, <1>12, Numbers DEF Open
<1>20. Store(e, t) /\ (key'[e] = key[e] \/ t.state = "Closed")
  BY DEF t, v
<1>21. /\ EndsOK' /\ Grown /\ Own(e) \subseteq Own(e)'
       /\ session'[Client].sessionId = session[Client].sessionId
  BY <1>0, <1>1, <1>4, <1>8, <1>12, <1>13, <1>14, <1>15, <1>16, <1>18, <1>19, <1>20, OpenStep
<1>22. WireOK'
  <2>1. Emits(s, Own(e))
    BY DEF Leads
  <2>2. Acks(s) \subseteq Acks(session'[e])
    <3>1. session'[e].sessionId = s.sessionId
      <4>1. session'[e] = [t EXCEPT !.out = << >>]
        BY <1>20, StoreKeeps
      <4>2. session'[e].sessionId = t.sessionId
        BY <1>12, <4>1 DEF Sound, Calls
      <4>3. QED
        BY <1>12, <4>2 DEF Leads
    <3>2. s.rcv.nextExpected \in Nat /\ t.rcv.nextExpected \in Nat
      BY <1>0, <1>12, Numbers
    <3>3. QED
      BY <1>13, <1>17, <3>1, <3>2 DEF Acks
  <2>3. \A i \in 1 .. Len(s.out) : Stripped(s.out[i]) \in Arriving(Remote(Node(e)))'
    BY <1>21, <2>1, <2>2, ForwardedArrives
  <2>4. /\ Node(e) \in Nodes /\ net[Node(e)] \in Seq(Messages)
        /\ Exchange(Node(e), net[Node(e)], s.out)
    BY TwoNodes DEF IInv, TypeOK, Emit
  <2>5. QED
    BY <1>0, <1>21, <2>3, <2>4, ExchangeWire
<1>23. QED
  BY <1>21, <1>22, StreamSame DEF Kept

\* The update of one session.
LEMMA UpdateSessionKept ==
  ASSUME NEW e \in Objects, NEW k \in Nat, NEW n \in Nat,
         n <= Sendable(session[e].snd)
  PROVE  SInv /\ UpdateSession(e, k, n) => Kept
<1> SUFFICES ASSUME SInv, UpdateSession(e, k, n) PROVE Kept
  OBVIOUS
<1> DEFINE s == UpdateSendWindow(UpdateReceiveWindow(session[e]), k, n)
           t == NotifyOwner(UpdateTimeout(s))
<1>0. IInv /\ EndsOK /\ WireOK
  BY DEF SInv
<1>1. /\ Emit(Node(e), s.out)
      /\ IF FinBlocks(s)
           THEN Store(e, s) /\ UNCHANGED key
           ELSE /\ Store(e, t)
                /\ key' = IF t.state = "Closed"
                            THEN [key EXCEPT ![e] = InvalidSessionId] ELSE key
      /\ UNCHANGED active /\ UNCHANGED Books
  BY DEF UpdateSession, Books
<1>2. /\ Leads(session[e], s, Own(e), Theirs(e), 0) /\ Calm(session[e], s)
      /\ Good(s)
  BY <1>0, UpdateWindowsLeads
<1> HIDE DEF s
<1>3. /\ RestOf(net[Node(e)], net[Node(e)])
      /\ Exchange(Node(e), net[Node(e)], s.out)
  BY <1>0, <1>1, TwoNodes DEF Emit, RestOf, IInv, TypeOK
<1>4. \A p \in Peers(e) : 0 < session[p].rcv.nextExpected
  BY <1>0, AllSound, PeersAreObjects, Numbers
<1>5. CASE FinBlocks(s)
  <2>1. Store(e, s) /\ UNCHANGED key
    BY <1>1, <1>5
  <2>2. QED
    BY <1>0, <1>1, <1>2, <1>3, <1>4, <2>1, CallKept
<1>6. CASE ~FinBlocks(s)
  <2>1. /\ Store(e, t)
        /\ key'[e] = key[e] \/ t.state = "Closed"
        /\ \A f \in Objects \ {e} : key'[f] = key[f]
    BY <1>0, <1>1, <1>6 DEF IInv, TypeOK
  <2>2. CASE s.state = "FinWait1"
    BY <1>0, <1>1, <1>2, <1>6, <2>1, <2>2, FinKept
  <2>3. CASE s.state # "FinWait1"
    <3> DEFINE v == UpdateTimeout(s)
    <3>1. Ready(s, Own(e), Theirs(e)) /\ Sound(s) /\ Sound(session[e])
      BY <1>0, <1>2, LeadsReady, AllSound
    <3>2. Leads(s, v, Own(e), Theirs(e), 0) /\ Calm(s, v) /\ v.out = s.out
      BY <2>3, <3>1, UpdateTimeoutLeads, UpdateTimeoutQuiet
    <3> HIDE DEF v
    <3>3. Ready(v, Own(e), Theirs(e)) /\ Sound(v)
      BY <3>2, LeadsReady
    <3>4. Leads(v, t, Own(e), Theirs(e), 0) /\ Calm(v, t) /\ t.out = s.out
      BY <3>2, <3>3, NotifyOwnerLeads, NotifyOwnerQuiet DEF v
    <3> HIDE DEF t
    <3>5. Leads(session[e], v, Own(e), Theirs(e), 0) /\ Calm(session[e], v)
      BY <1>2, <3>1, <3>2, LeadsTransitive DEF Calm
    <3>6. Leads(session[e], t, Own(e), Theirs(e), 0) /\ Calm(session[e], t)
      BY <3>1, <3>4, <3>5, LeadsTransitive DEF Calm
    <3>7. Exchange(Node(e), net[Node(e)], t.out)
      BY <1>3, <3>4
    <3>8. QED
      BY <1>0, <1>1, <1>3, <1>4, <2>1, <3>6, <3>7, CallKept
  <2>4. QED
    BY <2>2, <2>3
<1>7. QED
  BY <1>5, <1>6

\* The update of a session, whatever timed out and whatever the channel takes.
LEMMA UpdateKept == ASSUME NEW e \in Objects PROVE SInv /\ Update(e) => Kept
<1> SUFFICES ASSUME SInv, Update(e) PROVE Kept
  OBVIOUS
<1> DEFINE w == session[e].snd
<1>0. InFlight(w) \in Nat /\ Sendable(w) \in Nat
  <2>1. /\ w.nextUnacknowledged \in Nat /\ w.lastSent \in Nat
        /\ w.nextSequence \in Nat /\ w.lastAvailableSize \in Nat
    BY DEF SInv, IInv, Good, Sound, Calls, SendWindows
  <2>2. w.nextUnacknowledged <= w.lastSent + 1 /\ w.lastSent < w.nextSequence
    BY DEF SInv, IInv, Good, Sound, SendWindowIntact
  <2> HIDE DEF w
  <2>3. QED
    BY <2>1, <2>2 DEF InFlight, Sendable
<1>1. PICK k \in 0 .. InFlight(w) :
        \/ UpdateSession(e, k, Sendable(w))
        \/ \E n \in 0 .. Sendable(w) - 1 : UpdateSession(e, k, n)
  BY DEF Update
<1>2. PICK n \in Nat : n <= Sendable(w) /\ UpdateSession(e, k, n)
  BY <1>0, <1>1
<1>3. k \in Nat
  BY <1>0
<1>4. QED
  BY <1>2, <1>3, UpdateSessionKept

-----------------------------------------------------------------------------
(* The message thread and the theorems.                                    *)

\* Every message that a node receives.
LEMMA HandleReceivedSessionMessageKept ==
  ASSUME NEW n \in Nodes, NEW m \in Messages, Stripped(m) \in Arriving(n),
         NEW rest, RestOf(rest, net[n])
  PROVE  /\ SInv /\ UNCHANGED active /\ UNCHANGED Books
         /\ HandleReceivedSessionMessage(n, m, rest)
         => Kept
<1> SUFFICES ASSUME SInv, UNCHANGED active, UNCHANGED Books,
                    HandleReceivedSessionMessage(n, m, rest)
             PROVE  Kept
  OBVIOUS
<1>1. CASE m.type = "Syn" /\ AcceptsSyn(n)
  <2>1. \/ AcceptSyn(n, m, rest)
        \/ Exchange(n, rest, << >>) /\ UNCHANGED <<session, key>>
    BY <1>1 DEF HandleReceivedSessionMessage
  <2>2. QED
    BY <1>1, <2>1, AcceptSynKept, NobodyKept
<1>2. CASE m.type = "Syn" /\ ~AcceptsSyn(n)
  <2>1. SendReset(n, m.sessionId, rest)
    BY <1>2 DEF HandleReceivedSessionMessage
  <2>2. QED
    BY <2>1, NobodyKept
<1>3. CASE m.type = "SynAck"
  <2>1. HandleSynAck(n, m, rest)
    BY <1>3 DEF HandleReceivedSessionMessage
  <2>2. QED
    BY <1>3, <2>1, HandleSynAckKept
<1>4. CASE m.type = "Unknown"
  <2>1. Exchange(n, rest, << >>) /\ UNCHANGED <<session, key>>
    BY <1>4 DEF HandleReceivedSessionMessage
  <2>2. QED
    BY <2>1, NobodyKept
<1>5. CASE m.type \in {"Fin", "Data", "Ack", "Rst"}
  <2>1. HandleOther(n, m, rest)
    BY <1>5 DEF HandleReceivedSessionMessage
  <2>2. QED
    BY <1>5, <2>1, HandleOtherKept
<1>6. m.type \in MessageTypes
  BY DEF Messages
<1>7. QED
  BY <1>1, <1>2, <1>3, <1>4, <1>5, <1>6 DEF MessageTypes

\* Delivery, in order or not, once or twice.
LEMMA ReceiveMessageKept == ASSUME NEW n \in Nodes PROVE SInv /\ ReceiveMessage(n) => Kept
<1> SUFFICES ASSUME SInv, ReceiveMessage(n) PROVE Kept
  OBVIOUS
<1>0. WireOK /\ net[n] \in Seq(Messages) /\ UNCHANGED active /\ UNCHANGED Books
  BY DEF SInv, IInv, TypeOK, ReceiveMessage, Books
<1>1. PICK i \in 1 .. Len(net[n]) :
        \E rest \in {Tail(net[n]), RemoveAt(net[n], i), net[n]} :
          HandleReceivedSessionMessage(n, net[n][i], rest)
  BY DEF ReceiveMessage
<1>2. PICK rest \in {Tail(net[n]), RemoveAt(net[n], i), net[n]} :
        HandleReceivedSessionMessage(n, net[n][i], rest)
  BY <1>1
<1>3. RestOf(rest, net[n])
  <2> DEFINE q == net[n]
  <2>1. q \in Seq(Messages) /\ i \in 1 .. Len(q)
        /\ (rest = RemoveAt(q, i) \/ rest = Tail(q) \/ rest = q)
    BY <1>0, <1>2
  <2> HIDE DEF q
  <2>2. RestOf(rest, q)
    BY <2>1, RestOfQueue DEF RestOf
  <2>3. QED
    BY <2>2 DEF q
<1>4. net[n][i] \in Messages /\ Stripped(net[n][i]) \in Arriving(n)
  BY <1>0 DEF WireOK
<1>5. QED
  BY <1>0, <1>2, <1>3, <1>4, HandleReceivedSessionMessageKept

\* The manager refuses a Syn.
LEMMA RejectSynKept == SInv /\ RejectSyn => Kept
<1> SUFFICES ASSUME SInv, RejectSyn PROVE Kept
  OBVIOUS
<1> DEFINE q == net["far"]
<1>0. /\ q \in Seq(Messages) /\ q # << >> /\ "far" \in Nodes
      /\ UNCHANGED active /\ UNCHANGED Books
      /\ SendReset("far", Head(q).sessionId, Tail(q))
  BY DEF SInv, IInv, TypeOK, Nodes, RejectSyn, Books
<1>1. 1 \in 1 .. Len(q) /\ Head(q) \in Messages
  BY <1>0
<1>2. RestOf(Tail(q), q)
  BY <1>0, <1>1, RestOfQueue DEF RestOf
<1>3. QED
  BY <1>0, <1>1, <1>2, NobodyKept

\* Every step keeps the invariant and is a step of the stream or none.
LEMMA NextKept == SInv /\ [Next]_vars => SInv' /\ [Stream!Next]_(Stream!vars)
<1> SUFFICES ASSUME SInv, [Next]_vars PROVE Kept
  BY NextIInv DEF SInv, Kept
<1>1. CASE EstablishSessionForClient
  BY <1>1, EstablishKept
<1>2. CASE Disconnect \/ CloseClient
  BY <1>2, DisconnectKept
<1>3. CASE UnregisterProtocolServer
  BY <1>3, UnregisterProtocolServerKept
<1>4. CASE RejectSyn
  BY <1>4, RejectSynKept
<1>5. ASSUME NEW e \in Objects, Send(e) \/ ReceiveNext(e) \/ Update(e)
      PROVE  Kept
  BY <1>5, SendKept, ReceiveNextKept, UpdateKept
<1>6. ASSUME NEW n \in Nodes, \/ ReceiveMessage(n) \/ Destroy(n) \/ DestroyReturns(n)
                              \/ HandleClientDisconnection(n) \/ Drop(n) \/ LinkDown(n)
      PROVE  Kept
  BY <1>6, ReceiveMessageKept, ShutdownAllKept, LostKept, LinkDownKept
<1>7. CASE UNCHANGED vars
  <2>1. UNCHANGED <<session, key, active, net>> /\ UNCHANGED Books
    BY <1>7 DEF vars, Books
  <2>2. IInv /\ EndsOK /\ WireOK
    BY DEF SInv
  <2>3. \A e \in Objects : Onward(e)
    BY <2>1, <2>2, OnwardSame
  <2>4. QED
    BY <2>1, <2>2, <2>3, OrdinaryKept
<1>8. QED
  BY <1>1, <1>2, <1>3, <1>4, <1>5, <1>6, <1>7 DEF Next

\* Nothing has been sent, written or received at first.
LEMMA InitSInv == Init => SInv /\ Stream!Init
<1> SUFFICES ASSUME Init PROVE SInv /\ Stream!Init
  OBVIOUS
<1>1. /\ IInv /\ \A e \in Objects : session[e] = NewSession
      /\ \A e \in Objects : sent[e] = 0 /\ delivered[e] = << >> /\ ended[e] = FALSE
      /\ \A e \in Objects : ~InTable(e)
      /\ \A n \in Nodes : active[n] = TRUE /\ net[n] = << >>
      /\ Client \in Objects /\ Servers \subseteq Objects
  BY InitIInv, Names DEF Init, InTable
<1>2. /\ NewSession.state = "Closed" /\ NewSession.sessionId = InvalidSessionId
      /\ NewSession.snd.nextSequence = 1 /\ NewSession.snd.nextUnacknowledged = 1
      /\ NewSession.rcv.nextUnread = 1 /\ NewSession.rcv.nextExpected = 1
      /\ \A i \in Index : NewSession.snd.messages[i] = Blank
      /\ \A i \in Index : NewSession.rcv.valid[i] = FALSE
  BY DEF NewSession, NewSendWindow, NewReceiveWindow
<1>3. session[Client].sessionId \notin Servers
  BY <1>1, <1>2, Names
<1>4. ASSUME NEW e \in Objects PROVE EndOK(e) /\ Alone(e)
  <2>1. session[e] = NewSession /\ sent[e] = 0 /\ Len(delivered[e]) = 0 /\ ~ended[e] /\ ~InTable(e)
    BY <1>1
  <2>2. Holds(session[e], Own(e), Theirs(e))
    BY <1>2, <2>1 DEF Holds
  <2>3. Counted(e) /\ ReadSoFar(e) /\ Destroyed(e) /\ Filed(e) /\ Alone(e)
    BY <1>2, <2>1 DEF Counted, ReadSoFar, Destroyed, Filed, Alone
  <2>4. QED
    BY <2>2, <2>3 DEF EndOK
<1>5. ClientKnown /\ \A e \in Servers : ServerKnown(e)
  BY <1>1, <1>2, <1>3, <1>4 DEF ClientKnown, ServerKnown
<1>6. AcknowledgedWasReceived
  BY <1>3 DEF AcknowledgedWasReceived, Paired
<1>7. WireOK
  <2>1. \A n \in Nodes : 1 .. Len(net[n]) = {}
    BY <1>1
  <2>2. QED
    BY <2>1 DEF WireOK
<1>8. Stream!Init
  BY <1>1, <1>3 DEF Stream!Init, Stream!Ends, OfEnds, Nodes
<1>9. QED
  BY <1>1, <1>4, <1>5, <1>6, <1>7, <1>8 DEF SInv, EndsOK

LEMMA StreamInvariance == Spec => []SInv
<1>1. Init => SInv
  BY InitSInv
<1>2. SInv /\ [Next]_vars => SInv'
  BY NextKept
<1>3. QED
  BY <1>1, <1>2, PTL DEF Spec

\* A slot of a send window is only freed once the message is in the receive
\* window of the other end: SendAckMessage, MarkMessagesAsAcknowledged and the
\* handshake agree on every sequence number, whatever is lost or duplicated.
THEOREM AcknowledgedReceived == Spec => []AcknowledgedWasReceived
<1>1. SInv => AcknowledgedWasReceived
  BY DEF SInv, EndsOK
<1>2. QED
  BY <1>1, StreamInvariance, PTL

\* However many sessions the retransmissions of a Syn leave at the server, only
\* the one whose SynAck the client took is ever established.
THEOREM OneEstablished == Spec => []OneSessionEstablished
<1>1. SInv => OneSessionEstablished
  BY Names DEF SInv, EndsOK, ServerKnown, Alone, OneSessionEstablished, Open
<1>2. QED
  BY <1>1, StreamInvariance, PTL

\* The assert of sessionManager.cpp:442 in Destroy.
THEOREM NoneEstablished == Spec => []DestroyedHasNoneEstablished
<1>1. SInv => DestroyedHasNoneEstablished
  BY DEF SInv, EndsOK, EndOK, Destroyed, DestroyedHasNoneEstablished
<1>2. QED
  BY <1>1, StreamInvariance, PTL

\* The windows, the acknowledgements, the retransmissions and the handshake of
\* session.cpp and sessionManager.cpp implement the stream of SessionStream:
\* every step is a step of the stream for the two ends, or leaves it alone.
THEOREM StreamImplemented == Spec => ImplementsStream
<1>1. Init => Stream!Init
  BY InitSInv
<1>2. SInv /\ [Next]_vars => [Stream!Next]_(Stream!vars)
  BY NextKept
<1>3. QED
  BY <1>1, <1>2, StreamInvariance, PTL DEF Spec, ImplementsStream, Stream!Spec

=============================================================================
