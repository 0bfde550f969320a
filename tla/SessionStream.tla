--------------------------- MODULE SessionStream ---------------------------
(***************************************************************************)
(* What a session promises to the two protocols that use it, whatever the  *)
(* channel does: each end receives what the other end sent, in order, each *)
(* message once, and is told of the end of the stream only after the last  *)
(* message.  The i-th message an end sends is the number i.                *)
(***************************************************************************)
EXTENDS Naturals, Sequences

VARIABLES
  sent,       \* how many messages an end has sent
  delivered,  \* the messages an end has received
  ended       \* an end has been told that the other end is done

vars == <<sent, delivered, ended>>

Ends == {"near", "far"}

Peer(x) == IF x = "near" THEN "far" ELSE "near"

Init ==
  /\ sent = [x \in Ends |-> 0]
  /\ delivered = [x \in Ends |-> << >>]
  /\ ended = [x \in Ends |-> FALSE]

Send(x) ==
  /\ ~ended[Peer(x)]
  /\ sent' = [sent EXCEPT ![x] = @ + 1]
  /\ UNCHANGED <<delivered, ended>>

Receive(x) ==
  /\ ~ended[x]
  /\ Len(delivered[x]) < sent[Peer(x)]
  /\ delivered' = [delivered EXCEPT ![x] = Append(@, Len(@) + 1)]
  /\ UNCHANGED <<sent, ended>>

EndOfStream(x) ==
  /\ ~ended[x]
  /\ Len(delivered[x]) = sent[Peer(x)]
  /\ ended' = [ended EXCEPT ![x] = TRUE]
  /\ UNCHANGED <<sent, delivered>>

Next == \E x \in Ends : Send(x) \/ Receive(x) \/ EndOfStream(x)

Spec == Init /\ [][Next]_vars

=============================================================================
