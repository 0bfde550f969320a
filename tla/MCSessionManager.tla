-------------------------- MODULE MCSessionManager --------------------------
(* Instances of SessionManager for TLC.                                    *)
EXTENDS SessionManager

\* Everything the datagram channel may do to a message, and what else may go
\* wrong at either node.
AllFaults == {"drop", "duplicate", "overtake", "notReady",
              "linkDown", "peerLost", "reject"}

AllTeardowns == {"disconnect", "orphan", "unregister", "destroyNear",
                 "destroyFar"}

\* The server's session objects are interchangeable.
Symmetry == Permutations(Servers)

=============================================================================
