------------------------ MODULE DriverServicesProofs ------------------------
(***************************************************************************)
(* The services of a driver's process together.  One message thread        *)
(* updates the sessions of the RGP, URI and logging servers in turn, in    *)
(* any order, and they share no state: whatever holds of each by itself    *)
(* holds of it there.  Checking them one at a time, as MCDriverServices    *)
(* does, leaves nothing out.                                               *)
(***************************************************************************)
EXTENDS MCDriverServices, RgpTraceProofs, LoggingProofs, UriProofs

servicesVars == <<traceVars, requestVars, logVars, service>>

\* Any service may take the next step.
ProcessNext ==
  \/ Next /\ UNCHANGED <<requestVars, logVars, service>>
  \/ UriNext /\ UNCHANGED <<traceVars, logVars, service>>
  \/ LoggingNext /\ UNCHANGED <<traceVars, requestVars, service>>

ProcessSpec == ServicesInit /\ [][ProcessNext]_servicesVars

\* The process of which TLC explores one service at a time is such a process.
THEOREM OneServiceAtATime == ServicesSpec => ProcessSpec
<1>1. ServicesNext => ProcessNext
  BY DEF ServicesNext, ProcessNext
<1>2. [ServicesNext]_<<traceVars, requestVars, logVars, service>>
        => [ProcessNext]_servicesVars
  BY <1>1 DEF servicesVars
<1>3. QED
  BY <1>2, PTL DEF ServicesSpec, ProcessSpec

\* Every step of the process is a step of one service, or none, for each of them.
LEMMA StepsOfEach ==
  ASSUME [ProcessNext]_servicesVars
  PROVE  /\ [Next]_<<rgpVars, calls>>
         /\ [UriNext]_<<transferVars, uriVars>>
         /\ [LoggingNext]_logVars
<1>1. CASE Next /\ UNCHANGED <<requestVars, logVars, service>>
  BY <1>1 DEF requestVars
<1>2. CASE UriNext /\ UNCHANGED <<traceVars, logVars, service>>
  BY <1>2 DEF traceVars
<1>3. CASE LoggingNext /\ UNCHANGED <<traceVars, requestVars, service>>
  BY <1>3 DEF traceVars, requestVars
<1>4. CASE UNCHANGED servicesVars
  BY <1>4 DEF servicesVars, traceVars, requestVars
<1>5. QED
  BY <1>1, <1>2, <1>3, <1>4 DEF ProcessNext

\* The services do not disturb each other, in whatever order the message thread
\* of the driver updates their sessions: in the process each behaves as it does
\* alone.
THEOREM ServicesApart == ProcessSpec => Spec /\ UriSpec /\ LoggingSpec
<1>1. ServicesInit => Init /\ UriInit /\ LoggingInit
  BY DEF ServicesInit
<1>2. [ProcessNext]_servicesVars => [Next]_<<rgpVars, calls>>
  BY StepsOfEach
<1>3. [ProcessNext]_servicesVars => [UriNext]_<<transferVars, uriVars>>
  BY StepsOfEach
<1>4. [ProcessNext]_servicesVars => [LoggingNext]_logVars
  BY StepsOfEach
<1>5. QED
  BY <1>1, <1>2, <1>3, <1>4, PTL DEF ProcessSpec, Spec, UriSpec, LoggingSpec

\* In a process with all three services every variable has its type: no session
\* of any holds more than its window (rgpServer.cpp, ddURIServer.cpp,
\* loggingServer.cpp).
THEOREM ProcessTypeCorrect == ProcessSpec => []ServicesTypeOK
<1>1. TypeOK /\ UriTypeOK /\ LoggingTypeOK => ServicesTypeOK
  BY DEF ServicesTypeOK
<1>2. QED
  BY <1>1, ServicesApart, TypeCorrect, UriTypeCorrect, LoggingTypeCorrect, PTL

\* The same when only one of them is used.
THEOREM ServicesTypeCorrect == ServicesSpec => []ServicesTypeOK
BY OneServiceAtATime, ProcessTypeCorrect, PTL
=============================================================================
