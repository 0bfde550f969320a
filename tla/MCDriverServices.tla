-------------------------- MODULE MCDriverServices --------------------------
(* Instances of RgpTrace, Uri and Logging for TLC.  In a driver's process  *)
(* one message thread updates the sessions of all three, and they share    *)
(* nothing else: a behaviour is one of any, and the others rest.           *)
EXTENDS RgpTrace, Uri, Logging, TLC

CONSTANTS Services, oldTool, newTool

VARIABLE service

\* A tool that knows neither headers nor aborts beside a tool of today.
OldAndNew == (oldTool :> {2}) @@ (newTool :> {7})

\* Nothing tells the links apart.
AnyLink == Permutations(Links)

traceVars == <<rgpVars, calls>>
requestVars == <<transferVars, uriVars>>

ServicesInit == Init /\ UriInit /\ LoggingInit /\ service \in Services

ServicesNext ==
  /\ UNCHANGED service
  /\ \/ service = "rgp" /\ Next /\ UNCHANGED <<requestVars, logVars>>
     \/ service = "uri" /\ UriNext /\ UNCHANGED <<traceVars, logVars>>
     \/ service = "log" /\ LoggingNext /\ UNCHANGED <<traceVars, requestVars>>

ServicesSpec ==
  ServicesInit
  /\ [][ServicesNext]_<<traceVars, requestVars, logVars, service>>

\* Every variable of the three services has its type.
ServicesTypeOK == TypeOK /\ UriTypeOK /\ LoggingTypeOK
=============================================================================
