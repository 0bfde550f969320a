------------------------------ MODULE Logging ------------------------------
(***************************************************************************)
(* The logging protocol: the server (src/protocols/loggingServer.cpp) that *)
(* passes what any thread of the process logs to the sessions of tools,    *)
(* and the clients (src/protocols/loggingClient.cpp) that gather it.       *)
(*                                                                         *)
(* A call of Log and an update of a session are one step each, since both  *)
(* hold the lock of the server.  A client is two threads without a common  *)
(* lock: the tool's, whose calls are a step from one access to the shared  *)
(* state to the next, and the message thread, which takes what arrives.    *)
(***************************************************************************)
EXTENDS Integers, Sequences, FiniteSets

CONSTANTS
  Readers,       \* tools with a logging client, each with one session at a time
  Levels,        \* the priorities of messages and filters
  LogWindow,     \* payloads a session holds before a send fails
  MaxCategories, \* categories a table has room for
  MaxLogs,       \* bound: messages logged in a behaviour
  MaxLogCalls,   \* bound: requests of the tools in a behaviour
  MaxLogLate     \* bound: requests that time out in a behaviour

ASSUME LoggingAssumption ==
  /\ Levels \subseteq Nat /\ Levels # {}
  /\ LogWindow \in Nat \ {0}
  /\ {MaxCategories, MaxLogs, MaxLogCalls, MaxLogLate} \subseteq Nat

VARIABLES
  loggers,       \* the LoggingSession of a tool's session
  numCategories, \* m_numCategories
  reader,        \* a tool's LoggingClient and the call it has begun
  toLogger,      \* payloads the server has not received
  toReader,      \* payloads the client has not received
  logs,          \* how many messages have been logged
  given,         \* history: the messages that passed the filter of a session
  gathered,      \* history: the messages the tool has read from its session
  logCalls,      \* how many requests have been made
  logLate        \* how many of them have timed out

logVars == <<loggers, numCategories, reader, toLogger, toReader, logs, given,
             gathered, logCalls, logLate>>

LoggingMessage ==
  {"EnableLoggingRequest", "EnableLoggingResponse", "DisableLogging",
   "QueryCategoriesRequest", "QueryCategoriesNumResponse",
   "QueryCategoriesDataResponse", "LogMessage", "LogMessageSentinel"}

\* n is a priority, the number of a message, or that of a category.
LogPayload(command, n) == [command |-> command, n |-> n]

NoLogger == [open |-> FALSE, state |-> "ReceivePayload", enabled |-> FALSE,
             filter |-> 0, messages |-> <<>>, numItems |-> 0,
             scratch |-> LogPayload("LogMessage", 0)]

\* What is left behind when a session ends: finished is the event that
\* DisableLogging waits for.
NoReader == [connected |-> FALSE, state |-> "Idle", messages |-> <<>>,
             finished |-> TRUE, call |-> "None", left |-> 0,
             failed |-> FALSE, unexpected |-> FALSE]

LoggingInit ==
  /\ loggers = [r \in Readers |-> NoLogger] /\ numCategories = 0
  /\ reader = [r \in Readers |-> NoReader]
  /\ toLogger = [r \in Readers |-> <<>>] /\ toReader = [r \in Readers |-> <<>>]
  /\ given = [r \in Readers |-> <<>>] /\ gathered = [r \in Readers |-> <<>>]
  /\ logs = 0 /\ logCalls = 0 /\ logLate = 0

Fits(out) == Len(out) < LogWindow

-----------------------------------------------------------------------------
(* The server.  a.s is a session and a.out the payloads to its client.     *)

LoggerKeeps == UNCHANGED <<reader, gathered, logCalls, logLate>>

\* As many of the queued messages as the session takes.
SendMessages(a) ==
  LET room == LogWindow - Len(a.out)
      left == Len(a.s.messages)
      k == IF room < left THEN room ELSE left
  IN  [a EXCEPT !.out = @ \o SubSeq(a.s.messages, 1, k),
                !.s.messages = SubSeq(@, k + 1, left)]

SendScratch(a, next) ==
  IF Fits(a.out)
  THEN [a EXCEPT !.out = Append(@, a.s.scratch), !.s.state = next]
  ELSE a

\* Mutant: the session stays enabled after the sentinel is queued.
DisableKeepsLogging(s) ==
  [s EXCEPT !.state = "FinishLogging",
            !.messages = Append(@, LogPayload("LogMessageSentinel", 0))]

HandleDisableLogging(s) ==
  [s EXCEPT !.enabled = FALSE, !.state = "FinishLogging",
            !.messages = Append(@, LogPayload("LogMessageSentinel", 0))]

ProcessRequest(s) ==
  CASE s.scratch.command = "QueryCategoriesRequest" ->
         [s EXCEPT !.state = "SendCategoriesNumResponse",
            !.scratch = LogPayload("QueryCategoriesNumResponse", numCategories)]
    [] s.scratch.command = "EnableLoggingRequest" ->
         [s EXCEPT !.filter = s.scratch.n, !.enabled = TRUE,
            !.state = "SendPayload",
            !.scratch = LogPayload("EnableLoggingResponse", 0)]
    [] s.scratch.command = "DisableLogging" -> HandleDisableLogging(s)

SendNumCategories(a) ==
  LET some == a.s.scratch.n > 0
      sent == SendScratch(a, IF some THEN "SendCategoriesDataResponse"
                             ELSE "ReceivePayload")
  IN  IF some /\ sent # a THEN [sent EXCEPT !.s.numItems = 0] ELSE sent

\* The categories that the session takes, each after the one before it.
SendCategories(a) ==
  LET room == LogWindow - Len(a.out)
      left == numCategories - a.s.numItems
      k == IF room < left THEN room ELSE left
  IN  IF left > 0
      THEN [a EXCEPT !.s.numItems = @ + k,
              !.out = @ \o [i \in 1..k |->
                LogPayload("QueryCategoriesDataResponse", a.s.numItems + i)]]
      ELSE [a EXCEPT !.s.state = "ReceivePayload"]

\* LoggingServer::UpdateSession, with a.in what the client has sent.
AfterUpdate(a) ==
  CASE a.s.state = "ReceivePayload" /\ a.in # <<>> ->
         [a EXCEPT !.s.state = "ProcessPayload", !.s.scratch = Head(a.in),
                   !.in = Tail(@)]
    [] a.s.state = "ReceivePayload" /\ a.in = <<>> /\ a.s.enabled ->
         SendMessages(a)
    [] a.s.state = "ProcessPayload" -> [a EXCEPT !.s = ProcessRequest(@)]
    [] a.s.state = "FinishLogging" ->
         IF a.s.messages = <<>> THEN [a EXCEPT !.s.state = "ReceivePayload"]
         ELSE SendMessages(a)
    [] a.s.state = "SendPayload" -> SendScratch(a, "ReceivePayload")
    [] a.s.state = "SendCategoriesNumResponse" ->
         SendNumCategories(a)
    [] a.s.state = "SendCategoriesDataResponse" -> SendCategories(a)
    [] OTHER -> a

UpdateLogger(r) ==
  LET before == [s |-> loggers[r], in |-> toLogger[r], out |-> toReader[r]]
      a == AfterUpdate(before)
  IN  /\ loggers[r].open /\ a # before
      /\ loggers' = [loggers EXCEPT ![r] = a.s]
      /\ toLogger' = [toLogger EXCEPT ![r] = a.in]
      /\ toReader' = [toReader EXCEPT ![r] = a.out]
      /\ LoggerKeeps /\ UNCHANGED <<numCategories, logs, given>>

\* SessionTerminated of the server, before or after that of the client.
LoggerTerminated(r) ==
  /\ loggers[r].open
  /\ loggers' = [loggers EXCEPT ![r] = NoLogger]
  /\ LoggerKeeps
  /\ UNCHANGED <<numCategories, toLogger, toReader, logs, given>>

\* A table of one category in a free place; with sessions it is refused.
AddCategoryTable ==
  /\ \A r \in Readers : ~loggers[r].open
  /\ numCategories < MaxCategories /\ numCategories' = numCategories + 1
  /\ LoggerKeeps /\ UNCHANGED <<loggers, toLogger, toReader, logs, given>>

\* What a session makes of a message: into the stream if nothing waits, or
\* else behind what waits, of which the first is tried.
Passes(s, level) == s.open /\ s.enabled /\ s.filter <= level

\* Mutant: the stream is tried first, also when messages wait.
OvertakesQueue(a, p) ==
  IF Fits(a.out) THEN [a EXCEPT !.out = Append(@, p)]
  ELSE [a EXCEPT !.s.messages = Append(@, p)]

QueueOrSend(a, p) ==
  LET queue == Append(a.s.messages, p)
  IN  IF Fits(a.out)
      THEN [a EXCEPT !.out = Append(@, Head(queue)), !.s.messages = Tail(queue)]
      ELSE [a EXCEPT !.s.messages = queue]

\* Log, from any thread of the process.
Log(level) ==
  LET n == logs + 1
      reached == {r \in Readers : Passes(loggers[r], level)}
      After(r) == QueueOrSend([s |-> loggers[r], out |-> toReader[r]],
                              LogPayload("LogMessage", n))
  IN  /\ n <= MaxLogs /\ logs' = n
      /\ reached # {}
      /\ loggers' = [r \in Readers |->
           IF r \in reached THEN After(r).s ELSE loggers[r]]
      /\ toReader' = [r \in Readers |->
           IF r \in reached THEN After(r).out ELSE toReader[r]]
      /\ given' = [r \in Readers |->
           IF r \in reached THEN Append(given[r], n) ELSE given[r]]
      /\ LoggerKeeps /\ UNCHANGED <<numCategories, toLogger>>

-----------------------------------------------------------------------------
(* The clients: the tool's thread.                                         *)

ReaderKeeps == UNCHANGED <<loggers, numCategories, logs, given>>

\* Mutant for ResetState: whoever waits for the sentinel goes on waiting.
ResetQuietly(u) == [u EXCEPT !.state = "Idle", !.messages = <<>>]

ResetState(u) ==
  [u EXCEPT !.state = "Idle", !.messages = <<>>, !.finished = TRUE]

\* BaseProtocolClient::Connect: new streams, and the history starts again.
ConnectReader(r) ==
  /\ ~reader[r].connected /\ reader[r].call = "None" /\ ~loggers[r].open
  /\ reader' = [reader EXCEPT ![r] = [ResetState(@) EXCEPT
       !.connected = TRUE, !.failed = FALSE, !.unexpected = FALSE]]
  /\ loggers' = [loggers EXCEPT ![r].open = TRUE]
  /\ toLogger' = [toLogger EXCEPT ![r] = <<>>]
  /\ toReader' = [toReader EXCEPT ![r] = <<>>]
  /\ given' = [given EXCEPT ![r] = <<>>]
  /\ gathered' = [gathered EXCEPT ![r] = <<>>]
  /\ UNCHANGED <<numCategories, logs, logCalls, logLate>>

\* A call that sends a request and goes on to wait for the answer.
RequestsLog(r, state, command, n, call) ==
  /\ reader[r].connected /\ reader[r].state = state /\ reader[r].call = "None"
  /\ logCalls < MaxLogCalls /\ logCalls' = logCalls + 1
  /\ Fits(toLogger[r])
  /\ toLogger' = [toLogger EXCEPT ![r] = Append(@, LogPayload(command, n))]
  /\ reader' = [reader EXCEPT ![r].call = call]
  /\ ReaderKeeps /\ UNCHANGED <<toReader, gathered, logLate>>

EnableLogging(r, level) ==
  RequestsLog(r, "Idle", "EnableLoggingRequest", level, "Enable")
QueryCategories(r) ==
  RequestsLog(r, "Idle", "QueryCategoriesRequest", 0, "QueryNum")
DisableLogging(r) ==
  RequestsLog(r, "Logging", "DisableLogging", 0, "Disable")

Failed(u) == [u EXCEPT !.call = "None", !.failed = TRUE]

\* The answer to a call is the next payload, if that is of the right kind.
TakesAnswer(r, call, command, next) ==
  /\ reader[r].call = call
  /\ reader[r].connected /\ toReader[r] # <<>>
  /\ toReader' = [toReader EXCEPT ![r] = Tail(@)]
  /\ reader' = [reader EXCEPT ![r] =
       IF Head(toReader[r]).command = command THEN next ELSE Failed(@)]
  /\ ReaderKeeps /\ UNCHANGED <<toLogger, gathered, logCalls, logLate>>

TakeEnableAnswer(r) ==
  TakesAnswer(r, "Enable", "EnableLoggingResponse",
              [reader[r] EXCEPT !.call = "Enabled"])

TakeNumAnswer(r) ==
  LET n == Head(toReader[r]).n
  IN  TakesAnswer(r, "QueryNum", "QueryCategoriesNumResponse",
        [reader[r] EXCEPT !.call = IF n = 0 THEN "None" ELSE "QueryData",
                          !.left = n])

TakeDataAnswer(r) ==
  LET left == reader[r].left - 1
  IN  TakesAnswer(r, "QueryData", "QueryCategoriesDataResponse",
        [reader[r] EXCEPT !.call = IF left = 0 THEN "None" ELSE "QueryData",
                          !.left = left])

\* A step of the tool's thread that touches nothing but the client.
OnlyReader(r) ==
  ReaderKeeps /\ UNCHANGED <<toLogger, toReader, logCalls>>

\* The two statements that end EnableLogging.
SetLogging(r) ==
  /\ reader[r].call = "Enabled"
  /\ reader' = [reader EXCEPT ![r] = [@ EXCEPT !.call = "Clear",
                                               !.state = "Logging"]]
  /\ OnlyReader(r) /\ UNCHANGED <<gathered, logLate>>

ClearFinished(r) ==
  /\ reader[r].call = "Clear"
  /\ reader' = [reader EXCEPT ![r] = [@ EXCEPT !.call = "None",
                                               !.finished = FALSE]]
  /\ OnlyReader(r) /\ UNCHANGED <<gathered, logLate>>

\* DisableLogging goes on when the event is signaled.
WakeFinished(r) ==
  LET u == reader[r]
  IN  /\ u.call = "Disable" /\ u.finished
      /\ reader' = [reader EXCEPT ![r] = [@ EXCEPT !.call = "None",
           !.state = IF u.state = "LoggingFinished" THEN "Idle" ELSE u.state]]
      /\ OnlyReader(r) /\ UNCHANGED <<gathered, logLate>>

AnswerTimesOut(r) ==
  /\ reader[r].call \in {"Enable", "QueryNum", "QueryData"}
  /\ reader[r].connected /\ toReader[r] = <<>>
  /\ logLate < MaxLogLate /\ logLate' = logLate + 1
  /\ reader' = [reader EXCEPT ![r] = Failed(@)]
  /\ OnlyReader(r) /\ UNCHANGED gathered

\* The session has gone while the call waited for an answer.
AnswerLost(r) ==
  /\ reader[r].call \in {"Enable", "QueryNum", "QueryData"}
  /\ ~reader[r].connected
  /\ reader' = [reader EXCEPT ![r] = Failed(@)]
  /\ OnlyReader(r) /\ UNCHANGED <<gathered, logLate>>

ReadLogMessages(r) ==
  /\ reader[r].messages # <<>>
  /\ gathered' = [gathered EXCEPT ![r] = @ \o reader[r].messages]
  /\ reader' = [reader EXCEPT ![r].messages = <<>>]
  /\ OnlyReader(r) /\ UNCHANGED logLate

-----------------------------------------------------------------------------
(* The clients: the message thread.                                        *)

\* One turn of the loop of LoggingClient::UpdateSession.
UpdateReader(r) ==
  LET u == reader[r]
      p == Head(toReader[r])
  IN  /\ u.connected /\ u.state = "Logging" /\ toReader[r] # <<>>
      /\ toReader' = [toReader EXCEPT ![r] = Tail(@)]
      /\ reader' = [reader EXCEPT ![r] =
           CASE p.command = "LogMessage" ->
                  [u EXCEPT !.messages = Append(@, p.n)]
             [] p.command = "LogMessageSentinel" ->
                  [u EXCEPT !.state = "LoggingFinished", !.finished = TRUE]
             [] OTHER -> [u EXCEPT !.unexpected = TRUE]]
      /\ ReaderKeeps /\ UNCHANGED <<toLogger, gathered, logCalls, logLate>>

\* Either end or the channel ends the session, at any time.
ReaderTerminated(r) ==
  /\ reader[r].connected
  /\ reader' = [reader EXCEPT ![r] = [ResetState(@) EXCEPT !.connected = FALSE]]
  /\ OnlyReader(r) /\ UNCHANGED <<gathered, logLate>>

-----------------------------------------------------------------------------
ReaderStep(r) ==
  \/ ConnectReader(r) \/ \E level \in Levels : EnableLogging(r, level)
  \/ TakeEnableAnswer(r) \/ SetLogging(r) \/ ClearFinished(r)
  \/ QueryCategories(r) \/ TakeNumAnswer(r) \/ TakeDataAnswer(r)
  \/ DisableLogging(r) \/ WakeFinished(r)
  \/ AnswerTimesOut(r) \/ AnswerLost(r) \/ ReadLogMessages(r)
  \/ UpdateReader(r) \/ ReaderTerminated(r)

LoggingNext ==
  \/ \E r \in Readers :
       ReaderStep(r) \/ UpdateLogger(r) \/ LoggerTerminated(r)
  \/ AddCategoryTable
  \/ \E level \in Levels : Log(level)

LoggingSpec == LoggingInit /\ [][LoggingNext]_logVars
-----------------------------------------------------------------------------
LogPayloads == [command : LoggingMessage, n : Nat]
Loggers == [
  open : BOOLEAN, enabled : BOOLEAN, filter : Nat, numItems : Nat,
  state : {"ReceivePayload", "ProcessPayload", "SendPayload",
           "SendCategoriesNumResponse", "SendCategoriesDataResponse",
           "FinishLogging"},
  messages : Seq(LogPayloads), scratch : LogPayloads]
ReaderStates == [
  connected : BOOLEAN, state : {"Idle", "Logging", "LoggingFinished"},
  messages : Seq(Nat), finished : BOOLEAN, left : Nat, failed : BOOLEAN,
  unexpected : BOOLEAN,
  call : {"None", "Enable", "Enabled", "Clear", "Disable", "QueryNum",
          "QueryData"}]

\* Every variable has its type, and no session holds more than its window.
LoggingTypeOK ==
  /\ loggers \in [Readers -> Loggers] /\ reader \in [Readers -> ReaderStates]
  /\ toLogger \in [Readers -> Seq(LogPayloads)]
  /\ toReader \in [Readers -> Seq(LogPayloads)]
  /\ {given, gathered} \subseteq [Readers -> Seq(Nat)]
  /\ {numCategories, logs, logCalls, logLate} \subseteq Nat
  /\ \A r \in Readers :
       Len(toLogger[r]) <= LogWindow /\ Len(toReader[r]) <= LogWindow

\* Log (loggingServer.cpp:460-498) and the updates of the session both send
\* from the queue: what a tool has read or holds, and then what it is still to
\* receive, are the messages that passed its filter, in their order and each
\* once.  Only a call that takes a message for its answer, or the end of the
\* session, loses one.
LogsInOrder ==
  \A r \in Readers : reader[r].connected =>
    LET had == gathered[r] \o reader[r].messages
        coming == toReader[r] \o loggers[r].messages
        found == {i \in DOMAIN coming : coming[i].command = "LogMessage"}
    IN  /\ \A i, j \in DOMAIN had : i < j => had[i] < had[j]
        /\ \A i, j \in found : i < j => coming[i].n < coming[j].n
        /\ \A i \in DOMAIN had, j \in found : had[i] < coming[j].n
        /\ loggers[r].open /\ ~reader[r].failed =>
             {given[r][i] : i \in DOMAIN given[r]} =
               {had[i] : i \in DOMAIN had} \cup {coming[i].n : i \in found}

\* After a DisableLogging or QueryCategories that succeeded
\* (loggingClient.cpp:138, 179) nothing of it is left on the way, so that the
\* next call gets its own answer, and nothing the client does not expect came
\* while it logged (line 83), unless a call of the session has failed.
DisabledIsQuiet ==
  \A r \in Readers :
    reader[r].connected /\ loggers[r].open /\ ~reader[r].failed =>
    /\ ~reader[r].unexpected
    /\ reader[r].state = "Idle" /\ reader[r].call = "None" =>
         /\ toReader[r] = <<>> /\ toLogger[r] = <<>>
         /\ loggers[r].messages = <<>> /\ ~loggers[r].enabled

\* Whoever waits in DisableLogging (loggingClient.cpp:151), without a timeout,
\* is woken: by the end of its session, or by a sentinel that is on its way and
\* that the message thread will take for one.
SentinelIsComing ==
  \A r \in Readers :
    reader[r].call = "Disable" /\ ~reader[r].finished =>
      /\ reader[r].connected /\ reader[r].state = "Logging"
      /\ \/ ~loggers[r].open
         \/ \E p \in {toLogger[r][i] : i \in DOMAIN toLogger[r]} :
              p.command = "DisableLogging"
         \/ /\ loggers[r].state = "ProcessPayload"
            /\ loggers[r].scratch.command = "DisableLogging"
         \/ LET left == toReader[r] \o loggers[r].messages
            IN  \E i \in DOMAIN left : left[i].command = "LogMessageSentinel"
=============================================================================
