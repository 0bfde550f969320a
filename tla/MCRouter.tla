------------------------------ MODULE MCRouter ------------------------------
(* Instances of Router for TLC.                                            *)
EXTENDS Router, TLC

CONSTANTS a, b, near, far

\* One client on each of two transports.
TwoTransports == (a :> near) @@ (b :> far)

OneConn == a :> near

\* What the clients do in a behaviour: they exchange data, or they register,
\* identify themselves and leave.
DataOrMembership == {{"connect", "data"},
                     {"connect", "pong", "info", "disconnect"}}

UntilStopped == {{"connect", "data", "stop"},
                 {"connect", "hello", "pong", "info", "flags", "disconnect",
                  "stop"}}

\* The two clients may change places, each with its transport.
Swap == (a :> b) @@ (b :> a) @@ (near :> far) @@ (far :> near)

Symmetry == Permutations(Ids) \cup {Swap}
=============================================================================
