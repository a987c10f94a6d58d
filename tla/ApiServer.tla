------------------------------ MODULE ApiServer ------------------------------
(***************************************************************************)
(* The loopback HTTP API and the end of its life (src/src/api-server.ts,   *)
(* installApiShutdown in src/src/api-runtime.ts).                          *)
(*                                                                         *)
(* The API runs one operation at a time and says so to everyone else; it   *)
(* takes a stop order only while nothing runs.  A request's body is read   *)
(* across many turns of the event loop, so that any number of requests can *)
(* arrive at the checks behind it in any order.  One action is one turn.   *)
(*                                                                         *)
(* The operators named Buggy... are this code with one plausible mistake   *)
(* each; no specification uses them, the properties are tried on them.     *)
(***************************************************************************)
EXTENDS FiniteSets

CONSTANTS
  Operations,   \* POSTs to /v1/operations/<name>, each on its own connection
  Stops,        \* POSTs to /v1/control/shutdown
  None          \* inFlight = null

Requests == Operations \cup Stops

ASSUME KindsDisjoint == Operations \cap Stops = {} /\ None \notin Requests

VARIABLES
  phase,      \* where each request stands
  conn,       \* its connection
  answer,     \* what was sent on it
  aborted,    \* the request's AbortController has fired
  executed,   \* the operations handed to the executor
  logged,     \* what the log says of an operation's execution
  inFlight,   \* the operation that runs
  stopping,   \* a stop order was accepted
  stopDue,    \* the setImmediate that closes the runtime is pending
  closing,    \* requestShutdown has run; shutdown.signal has fired
  completed   \* server.close has called back

vars == <<phase, conn, answer, aborted, executed, logged, inFlight,
          stopping, stopDue, closing, completed>>

-----------------------------------------------------------------------------
Phases == {"new", "connected", "reading", "executing", "done"}

(* "immediate" stands for every answer given before the body is read: the  *)
(* refusals of foreign clients, wrong paths, methods and instances, and    *)
(* the health and discovery documents.                                     *)
Refusals == {"immediate", "bad-request", "busy", "api-stopping"}
Outcomes == {"result", "worker-failed", "invalid-operation-result", "response-too-large"}
Answers == Refusals \cup Outcomes \cup {"accepted"}

ApiTypeOK ==
  /\ phase \in [Requests -> Phases]
  /\ conn \in [Requests -> {"none", "open", "closed"}]
  /\ answer \in [Requests -> Answers \cup {"none"}]
  /\ aborted \in [Requests -> BOOLEAN]
  /\ executed \in SUBSET Operations
  /\ logged \in [Operations -> {"none", "delivered", "undelivered", "error"}]
  /\ inFlight \in Operations \cup {None}
  /\ stopping \in BOOLEAN /\ stopDue \in BOOLEAN
  /\ closing \in BOOLEAN /\ completed \in BOOLEAN

ApiInit ==
  /\ phase = [r \in Requests |-> "new"]
  /\ conn = [r \in Requests |-> "none"]
  /\ answer = [r \in Requests |-> "none"]
  /\ aborted = [r \in Requests |-> FALSE]
  /\ executed = {}
  /\ logged = [o \in Operations |-> "none"]
  /\ inFlight = None
  /\ stopping = FALSE /\ stopDue = FALSE
  /\ closing = FALSE /\ completed = FALSE

(* sendJson: nothing is sent on a connection that is gone. *)
Reply(r, a) ==
  /\ phase' = [phase EXCEPT ![r] = "done"]
  /\ answer' = [answer EXCEPT ![r] = IF conn[r] = "open" THEN a ELSE "none"]

lifecycle == <<stopping, stopDue, closing, completed>>

-----------------------------------------------------------------------------
(* Requests. *)

(* A client connects while the server listens. *)
Connect(r) ==
  /\ phase[r] = "new" /\ ~closing
  /\ phase' = [phase EXCEPT ![r] = "connected"]
  /\ conn' = [conn EXCEPT ![r] = "open"]
  /\ UNCHANGED <<answer, aborted, executed, logged, inFlight, lifecycle>>

(* The head of the request: answered at once, or the body is awaited. *)
Head(r) ==
  /\ phase[r] = "connected" /\ conn[r] = "open"
  /\ \/ Reply(r, "immediate")
     \/ phase' = [phase EXCEPT ![r] = "reading"] /\ UNCHANGED answer
  /\ UNCHANGED <<conn, aborted, executed, logged, inFlight, lifecycle>>

(* The body could not be read, is no JSON, or does not fit the operation. *)
BadBody(r) ==
  /\ phase[r] = "reading"
  /\ Reply(r, "bad-request")
  /\ UNCHANGED <<conn, aborted, executed, logged, inFlight, lifecycle>>

(* The operation that runs is looked up before the body is awaited. *)
BuggyOperationBody(o) ==
  /\ phase[o] = "reading" /\ ~stopping
  /\ inFlight' = o
  /\ phase' = [phase EXCEPT ![o] = "executing"]
  /\ executed' = executed \cup {o}
  /\ UNCHANGED <<conn, answer, aborted, logged, lifecycle>>

(* The busy answer is sent, and the handler goes on. *)
BuggyBusyGoesOn(o) ==
  /\ phase[o] = "reading" /\ ~stopping
  /\ IF inFlight # None THEN Reply(o, "busy") /\ UNCHANGED inFlight
     ELSE /\ phase' = [phase EXCEPT ![o] = "executing"]
          /\ inFlight' = o
          /\ UNCHANGED answer
  /\ executed' = executed \cup {o}
  /\ UNCHANGED <<conn, aborted, logged, lifecycle>>

(* The body of an operation is complete: from the check of stopping to the *)
(* call of the executor nothing awaits.  The connection may be gone.       *)
OperationBody(o) ==
  /\ phase[o] = "reading"
  /\ \/ /\ stopping
        /\ Reply(o, "api-stopping")
        /\ UNCHANGED <<executed, inFlight>>
     \/ /\ ~stopping /\ inFlight # None
        /\ Reply(o, "busy")
        /\ UNCHANGED <<executed, inFlight>>
     \/ /\ ~stopping /\ inFlight = None
        /\ inFlight' = o
        /\ phase' = [phase EXCEPT ![o] = "executing"]
        /\ executed' = executed \cup {o}
        /\ UNCHANGED answer
  /\ UNCHANGED <<conn, aborted, logged, lifecycle>>

(* Stop orders that were already being read are not refused. *)
BuggyStopBody(s) ==
  /\ phase[s] = "reading" /\ conn[s] = "open"
  /\ stopping' = TRUE /\ stopDue' = TRUE
  /\ Reply(s, "accepted")
  /\ UNCHANGED <<conn, aborted, executed, logged, inFlight, closing, completed>>

(* The body of a stop order is complete: accepted only while nothing runs  *)
(* and only if its sender is still there.                                  *)
StopBody(s) ==
  /\ phase[s] = "reading"
  /\ \/ /\ stopping
        /\ Reply(s, "api-stopping")
        /\ UNCHANGED <<stopping, stopDue>>
     \/ /\ ~stopping /\ inFlight # None
        /\ Reply(s, "busy")
        /\ UNCHANGED <<stopping, stopDue>>
     \/ /\ ~stopping /\ inFlight = None /\ conn[s] = "closed"
        /\ Reply(s, "accepted")
        /\ UNCHANGED <<stopping, stopDue>>
     \/ /\ ~stopping /\ inFlight = None /\ conn[s] = "open"
        /\ stopping' = TRUE /\ stopDue' = TRUE
        /\ Reply(s, "accepted")
  /\ UNCHANGED <<conn, aborted, executed, logged, inFlight, closing, completed>>

(* A result that nobody can receive leaves no trace. *)
BuggyOperationEnds(o) ==
  /\ phase[o] = "executing"
  /\ inFlight' = None
  /\ \E a \in {"result", "worker-failed"} :
       /\ Reply(o, a)
       /\ logged' = [logged EXCEPT ![o] =
                       IF conn[o] = "closed" THEN "none"
                       ELSE IF a = "result" THEN "delivered" ELSE "error"]
  /\ UNCHANGED <<conn, aborted, executed, lifecycle>>

(* The executor has answered: the slot is freed, the result checked, sent  *)
(* and logged in one turn.  A result that cannot be sent is still logged.  *)
OperationEnds(o) ==
  /\ phase[o] = "executing"
  /\ inFlight' = None
  /\ \E a \in Outcomes :
       /\ a = "response-too-large" => conn[o] = "open"
       /\ Reply(o, a)
       /\ logged' = [logged EXCEPT ![o] =
                       IF a \in {"worker-failed", "invalid-operation-result"} THEN "error"
                       ELSE IF a = "result" /\ conn[o] = "open" THEN "delivered"
                       ELSE "undelivered"]
  /\ UNCHANGED <<conn, aborted, executed, lifecycle>>

(* Connections close; an operation's AbortController fires if its answer   *)
(* was not sent.                                                           *)
BuggyDropped(S) ==
  /\ conn' = [r \in Requests |-> IF r \in S THEN "closed" ELSE conn[r]]
  /\ UNCHANGED aborted

Dropped(S) ==
  /\ conn' = [r \in Requests |-> IF r \in S THEN "closed" ELSE conn[r]]
  /\ aborted' = [r \in Requests |->
                   \/ aborted[r]
                   \/ r \in S \cap Operations /\ phase[r] \in {"reading", "executing"}]

ConnectionEnds(r) ==
  /\ conn[r] = "open"
  /\ Dropped({r})
  /\ UNCHANGED <<phase, answer, executed, logged, inFlight, lifecycle>>

-----------------------------------------------------------------------------
(* The end of the API. *)

(* requestShutdown: the shutdown signal fires, the server stops listening, *)
(* and the connections that have been answered may close at once.          *)
RequestShutdown ==
  IF closing THEN UNCHANGED <<conn, aborted, closing>>
  ELSE /\ closing' = TRUE
       /\ \E S \in SUBSET {r \in Requests : phase[r] = "done" /\ conn[r] = "open"} : Dropped(S)

StopRuntime ==
  /\ stopDue
  /\ stopDue' = FALSE
  /\ RequestShutdown
  /\ UNCHANGED <<phase, answer, executed, logged, inFlight, stopping, completed>>

(* SIGINT or SIGTERM; the handlers are taken off with the first shutdown. *)
ProcessSignal ==
  /\ ~closing
  /\ RequestShutdown
  /\ UNCHANGED <<phase, answer, executed, logged, inFlight, stopping, stopDue, completed>>

(* The timer of installApiShutdown: every connection is cut. *)
BuggyForceTimer ==
  /\ closing /\ ~completed
  /\ \E r \in Requests : conn[r] = "open" /\ phase[r] = "done"
  /\ Dropped({r \in Requests : conn[r] = "open" /\ phase[r] = "done"})
  /\ UNCHANGED <<phase, answer, executed, logged, inFlight, lifecycle>>

ForceTimer ==
  /\ closing /\ ~completed
  /\ \E r \in Requests : conn[r] = "open"
  /\ Dropped({r \in Requests : conn[r] = "open"})
  /\ UNCHANGED <<phase, answer, executed, logged, inFlight, lifecycle>>

ServerClosed ==
  /\ closing /\ ~completed
  /\ \A r \in Requests : conn[r] # "open"
  /\ completed' = TRUE
  /\ UNCHANGED <<phase, conn, answer, aborted, executed, logged, inFlight,
                 stopping, stopDue, closing>>

ApiNext ==
  \/ \E r \in Requests : Connect(r) \/ Head(r) \/ BadBody(r) \/ ConnectionEnds(r)
  \/ \E o \in Operations : OperationBody(o) \/ OperationEnds(o)
  \/ \E s \in Stops : StopBody(s)
  \/ StopRuntime \/ ProcessSignal \/ ForceTimer \/ ServerClosed

ApiSpec == ApiInit /\ [][ApiNext]_vars

(* The event loop runs its immediates, timers and callbacks.  Clients,     *)
(* signals and the executor owe nothing.                                   *)
ApiFairness == WF_vars(StopRuntime) /\ WF_vars(ForceTimer) /\ WF_vars(ServerClosed)

FairApiSpec == ApiSpec /\ ApiFairness

-----------------------------------------------------------------------------
(* Properties. *)

(* One operation runs at a time, and it is the one the API reports (the    *)
(* comment above InFlightOperation): however many bodies are being read    *)
(* while it runs, and whether its client is still there or not.            *)
OneOperation == \A o \in Operations : phase[o] = "executing" <=> inFlight = o

(* An accepted stop order finds nothing running and nothing starts after   *)
(* it, not even a request whose body was being read at that moment (the    *)
(* comment in the shutdown route).                                         *)
StopFindsNothingRunning == stopping => inFlight = None

(* Whoever is told that the operation was refused may repeat it: it never  *)
(* reached the executor.                                                   *)
RefusedNotExecuted == \A o \in Operations : answer[o] \in Refusals => o \notin executed

(* Every execution leaves its record, and "delivered" is said only of an   *)
(* answer that was sent: after a lost answer the log is all there is to    *)
(* decide whether to repeat.                                               *)
ExecutionsLogged ==
  \A o \in Operations :
    /\ o \in executed /\ phase[o] = "done" => logged[o] # "none"
    /\ logged[o] = "delivered" <=> answer[o] = "result"

(* An operation does not go on for a client that is gone, or an API that   *)
(* has closed, without having been told.                                   *)
NoUnattendedExecution ==
  \A o \in Operations : phase[o] = "executing" /\ (conn[o] = "closed" \/ completed) => aborted[o]

(* A shutdown ends, however long clients keep their connections. *)
ShutdownCompletes == (closing \/ stopping) ~> completed

=============================================================================
