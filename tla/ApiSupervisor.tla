--------------------------- MODULE ApiSupervisor ---------------------------
(***************************************************************************)
(* The supervisor inside one MCP process (src/src/mcp-api-supervisor.ts,   *)
(* waitForOwnedApi in src/src/api-owned-readiness.ts): it adopts or starts *)
(* the API behind one endpoint, binds every operation to that instance,    *)
(* stops it on order and starts it again only on another.                  *)
(*                                                                         *)
(* Everything that happens in the MCP process is a task of its event loop: *)
(* operations, status calls, the stop and start orders.  A task that       *)
(* probes the endpoint lets every other task run until its answer has come *)
(* in (Answered) and again until it goes on.  The API processes, those of  *)
(* other MCP processes included, do as they please.  A process and its     *)
(* instanceId are one and the same value here: both are fresh per start.   *)
(*                                                                         *)
(* The operators named Buggy... are this code with one plausible mistake   *)
(* each; no specification uses them, the properties are tried on them.     *)
(***************************************************************************)
EXTENDS FiniteSets

CONSTANTS
  Apis,         \* API processes, each with its instance
  Operations,   \* operation calls of the MCP client
  StatusCalls,  \* status calls that may be under way at once
  None          \* undefined

Failures == {"absent", "unresponsive", "incompatible"}
Callers == Operations \cup StatusCalls \cup {"stop"}
Tasks == Callers \cup {"ensure"}

ASSUME KindsDisjoint ==
  /\ None \notin Apis \cup Failures /\ Apis \cap Failures = {}
  /\ Operations \cap StatusCalls = {}
  /\ {"stop", "ensure"} \cap (Operations \cup StatusCalls) = {}

VARIABLES
  api,             \* the API processes
  mine,            \* those this supervisor has spawned
  explicitUrl,     \* the endpoint was named by SSE_API_URL
  control, controlBusy, pendingRestart, shutdownAccepted,   \* as in the code
  process,         \* activeProcessId
  instance,        \* activeInstanceId
  child,           \* activeChild
  restarting,      \* ensureApiSingletonInner runs for a start order
  step,            \* where each task stands
  seen,            \* the answer to a task's probe, while it has not gone on
  order,           \* the stop order on its way to the API it names
  reply,           \* that API's answer
  stops            \* instances that were sent a stop order and have not refused it

world == <<api, mine, explicitUrl>>
state == <<control, pendingRestart, shutdownAccepted>>
binding == <<process, instance, child>>
orders == <<order, reply, stops>>
vars == <<world, state, controlBusy, binding, restarting, step, seen, orders>>

SupTypeOK ==
  /\ api \in [Apis -> {"unborn", "starting", "listening", "closing", "dead"}]
  /\ mine \in SUBSET Apis
  /\ explicitUrl \in BOOLEAN
  /\ control \in {"running", "stopping", "stopped", "starting", "unknown"}
  /\ controlBusy \in BOOLEAN /\ pendingRestart \in BOOLEAN /\ restarting \in BOOLEAN
  /\ shutdownAccepted \in {"null", "true", "false"}
  /\ process \in Apis \cup {None} /\ instance \in Apis \cup {None} /\ child \in Apis \cup {None}
  /\ step \in [Tasks -> {"idle", "probe", "again", "pending", "posting", "waiting",
                         "sleep", "readiness", "failed"}]
  /\ seen \in [Tasks -> Apis \cup Failures \cup {None}]
  /\ order \in Apis \cup {None}
  /\ reply \in {"none", "accepted", "refused"}
  /\ stops \in SUBSET Apis

(* The MCP process starts with ensureApiSingleton; other MCP processes may *)
(* have started an API before.                                             *)
SupInit ==
  /\ api \in [Apis -> {"unborn", "listening"}]
  /\ \A p, q \in Apis : api[p] = "listening" /\ api[q] = "listening" => p = q
  /\ mine = {}
  /\ explicitUrl \in BOOLEAN
  /\ control = "running" /\ controlBusy = FALSE /\ pendingRestart = FALSE
  /\ shutdownAccepted = "null"
  /\ process = None /\ instance = None /\ child = None
  /\ restarting = FALSE
  /\ step = [t \in Tasks |-> IF t = "ensure" THEN "probe" ELSE "idle"]
  /\ seen = [t \in Tasks |-> None]
  /\ order = None /\ reply = "none" /\ stops = {}

(* Tools are registered once ensureApiSingleton has succeeded. *)
Up == step["ensure"] = "idle" \/ restarting

GoTo(t, where) ==
  /\ step' = [step EXCEPT ![t] = where]
  /\ seen' = [seen EXCEPT ![t] = None]

-----------------------------------------------------------------------------
(* API processes. *)

(* One process holds the port; the loser of a start ends. *)
ApiListens(p) ==
  /\ api[p] = "starting"
  /\ \A q \in Apis : api[q] # "listening"
  /\ api' = [api EXCEPT ![p] = "listening"]

ApiEnds(p) ==
  /\ api[p] \in {"starting", "listening", "closing"}
  /\ api' = [api EXCEPT ![p] = "dead"]

(* Another MCP process starts an API, another client stops one. *)
OthersStart(p) == api[p] = "unborn" /\ api' = [api EXCEPT ![p] = "starting"]
OthersStop(p) == api[p] = "listening" /\ api' = [api EXCEPT ![p] = "closing"]

ApiStep ==
  /\ \E p \in Apis : ApiListens(p) \/ ApiEnds(p) \/ OthersStart(p) \/ OthersStop(p)
  /\ UNCHANGED <<mine, explicitUrl, state, controlBusy, binding, restarting, step, seen,
                 orders>>

(* The stop order reaches the API it names, perhaps after its sender gave   *)
(* up: it is accepted, or refused because an operation runs.               *)
ApiTakesStop ==
  /\ order # None /\ api[order] = "listening"
  /\ order' = None
  /\ \/ reply' = "accepted" /\ api' = [api EXCEPT ![order] = "closing"]
     \/ reply' = "refused" /\ UNCHANGED api
  /\ UNCHANGED <<mine, explicitUrl, state, controlBusy, binding, restarting, step, seen, stops>>

(* A probe is answered: by the API at the endpoint, one about to close     *)
(* included, or by a failure.  A torn connection looks like an absent API. *)
Probing == {"probe", "again", "pending", "readiness"}

Answered(t) ==
  /\ step[t] \in Probing /\ seen[t] = None
  /\ \E a \in Failures \cup {p \in Apis : api[p] \in {"listening", "closing"}} :
       seen' = [seen EXCEPT ![t] = a]
  /\ UNCHANGED <<world, state, controlBusy, binding, restarting, step, orders>>

(* boundProcessExited: true only of a process that has ended; false also   *)
(* of one that has, when its number is in use again.                       *)
BoundProcessEnded == process # None /\ api[process] = "dead"

-----------------------------------------------------------------------------
(* ensureApiSingletonInner and waitForOwnedApi. *)

(* At the start of the MCP process a failure ends it; a start order leaves *)
(* an unknown state.                                                       *)
EnsureFails ==
  /\ IF restarting THEN control' = "unknown" /\ controlBusy' = FALSE /\ GoTo("ensure", "idle")
     ELSE UNCHANGED <<control, controlBusy>> /\ GoTo("ensure", "failed")
  /\ restarting' = FALSE
  /\ UNCHANGED <<pendingRestart, shutdownAccepted>>

EnsureBinds(p) ==
  /\ process' = p /\ instance' = p
  /\ IF restarting
     THEN /\ control' = "running" /\ pendingRestart' = FALSE /\ shutdownAccepted' = "null"
          /\ controlBusy' = FALSE
     ELSE UNCHANGED <<state, controlBusy>>
  /\ restarting' = FALSE
  /\ GoTo("ensure", "idle")

(* The endpoint was looked at before anything is started. *)
EnsureDecides ==
  /\ step["ensure"] = "probe" /\ seen["ensure"] # None
  /\ \/ /\ seen["ensure"] \in Apis /\ ~restarting
        /\ EnsureBinds(seen["ensure"])
        /\ UNCHANGED <<child, api, mine>>
     \/ /\ \/ seen["ensure"] \in Apis /\ restarting
           \/ seen["ensure"] \in {"unresponsive", "incompatible"}
           \/ seen["ensure"] = "absent" /\ explicitUrl
        /\ EnsureFails
        /\ UNCHANGED <<binding, api, mine>>
     \/ /\ seen["ensure"] = "absent" /\ ~explicitUrl
        /\ \E p \in Apis :
             /\ api[p] = "unborn"
             /\ api' = [api EXCEPT ![p] = "starting"]
             /\ mine' = mine \cup {p}
             /\ child' = p /\ process' = p /\ instance' = None
        /\ GoTo("ensure", "sleep")
        /\ UNCHANGED <<state, controlBusy, restarting>>
     \/ \* spawn yields no process: its error is found before the first probe
        /\ seen["ensure"] = "absent" /\ ~explicitUrl
        /\ child' = None /\ process' = None /\ instance' = None
        /\ EnsureFails
        /\ UNCHANGED <<api, mine>>
  /\ UNCHANGED <<explicitUrl, orders>>

(* Between two probes: the 15 s are over, or the child is known to have    *)
(* ended, or the next probe begins.                                        *)
ReadinessEnds ==
  /\ step["ensure"] = "sleep"
  /\ EnsureFails
  /\ UNCHANGED <<world, binding, orders>>

ReadinessProbes ==
  /\ step["ensure"] = "sleep"
  /\ GoTo("ensure", "readiness")
  /\ UNCHANGED <<world, state, controlBusy, binding, restarting, orders>>

(* A restart takes the first API that answers. *)
BuggyReadinessDecides ==
  /\ step["ensure"] = "readiness" /\ seen["ensure"] # None
  /\ \/ seen["ensure"] \in Apis /\ EnsureBinds(seen["ensure"])
     \/ EnsureFails /\ UNCHANGED <<process, instance>>
  /\ UNCHANGED <<child, world, orders>>

(* The API is there, and after a start order it is the child; or the wait  *)
(* is over, for a foreign API, a foreign configuration, a child that has   *)
(* ended or the deadline; or it goes on.                                   *)
ReadinessDecides ==
  /\ step["ensure"] = "readiness" /\ seen["ensure"] # None
  /\ \/ /\ seen["ensure"] \in Apis
        /\ restarting => seen["ensure"] = child
        /\ EnsureBinds(seen["ensure"])
     \/ EnsureFails /\ UNCHANGED <<process, instance>>
     \/ /\ seen["ensure"] \in {"absent", "unresponsive"}
        /\ GoTo("ensure", "sleep")
        /\ UNCHANGED <<state, controlBusy, restarting, process, instance>>
  /\ UNCHANGED <<child, world, orders>>

-----------------------------------------------------------------------------
(* assertApiSingletonIdentity: an absent API is looked for once more, and  *)
(* the intent to run it is checked again after the answer.                 *)

Retry(c) ==
  /\ step[c] = "probe" /\ seen[c] = "absent"
  /\ GoTo(c, "again")
  /\ UNCHANGED <<world, state, controlBusy, binding, restarting, orders>>

IdentityRead(c) ==
  \/ step[c] = "probe" /\ seen[c] \notin {None, "absent"}
  \/ step[c] = "again" /\ seen[c] # None

(* The intent is not checked again. *)
BuggyConfirmed(c) ==
  /\ seen[c] \in Apis
  /\ process \in {None, seen[c]} /\ instance \in {None, seen[c]}

Confirmed(c) ==
  /\ control = "running"
  /\ seen[c] \in Apis
  /\ process \in {None, seen[c]} /\ instance \in {None, seen[c]}

(* callApiOperation of the registry: the identity, then the POST bound to  *)
(* the instance that was read.                                             *)
OperationBegins(o) ==
  /\ Up /\ step[o] = "idle" /\ control = "running"
  /\ GoTo(o, "probe")
  /\ UNCHANGED <<world, state, controlBusy, binding, restarting, orders>>

OperationGoesOn(o) ==
  /\ IdentityRead(o)
  /\ \/ /\ Confirmed(o)
        /\ step' = [step EXCEPT ![o] = "posting"] /\ UNCHANGED seen
     \/ ~Confirmed(o) /\ GoTo(o, "idle")
  /\ UNCHANGED <<world, state, controlBusy, binding, restarting, orders>>

OperationReturns(o) ==
  /\ step[o] = "posting"
  /\ GoTo(o, "idle")
  /\ UNCHANGED <<world, state, controlBusy, binding, restarting, orders>>

-----------------------------------------------------------------------------
(* controlStatus. *)

StatusStopped ==
  /\ BoundProcessEnded
  /\ control' = "stopped" /\ pendingRestart' = FALSE

(* A stopped, unknown or starting API is judged by its process alone. *)
StatusBegins(t) ==
  /\ Up /\ step[t] = "idle" /\ ~controlBusy
  /\ \/ control = "running" /\ GoTo(t, "probe") /\ UNCHANGED state
     \/ /\ control # "running" /\ StatusStopped
        /\ UNCHANGED <<shutdownAccepted, step, seen>>
     \/ /\ control # "running" /\ pendingRestart /\ child # None /\ child = process
        /\ GoTo(t, "pending") /\ UNCHANGED state
  /\ UNCHANGED <<world, controlBusy, binding, restarting, orders>>

(* An endpoint that does not answer counts as a stopped API. *)
BuggyStatusGoesOn(t) ==
  /\ IdentityRead(t)
  /\ GoTo(t, "idle")
  /\ \/ UNCHANGED state
     \/ /\ control = "running" /\ seen[t] = "absent"
        /\ control' = "stopped" /\ pendingRestart' = FALSE /\ shutdownAccepted' = "null"
  /\ UNCHANGED <<world, controlBusy, binding, restarting, orders>>

(* The API is there, or it is absent and its process has ended. *)
StatusGoesOn(t) ==
  /\ IdentityRead(t)
  /\ GoTo(t, "idle")
  /\ \/ UNCHANGED state
     \/ /\ control = "running" /\ seen[t] = "absent"
        /\ StatusStopped /\ shutdownAccepted' = "null"
  /\ UNCHANGED <<world, controlBusy, binding, restarting, orders>>

(* The late answer of a restart that had been given up. *)
StatusSettles(t) ==
  /\ step[t] = "pending" /\ seen[t] # None
  /\ GoTo(t, "idle")
  /\ \/ /\ seen[t] \in Apis /\ seen[t] = child
        /\ instance' = seen[t] /\ control' = "running"
        /\ pendingRestart' = FALSE /\ shutdownAccepted' = "null"
     \/ seen[t] # child /\ UNCHANGED <<instance, state>>
  /\ UNCHANGED <<world, controlBusy, process, child, restarting, orders>>

-----------------------------------------------------------------------------
(* controlApiSingleton: shutdown. *)

StopOrdered ==
  /\ Up /\ ~controlBusy /\ instance # None /\ control = "running"
  /\ controlBusy' = TRUE
  /\ GoTo("stop", "probe")
  /\ UNCHANGED <<world, state, binding, restarting, orders>>

(* The identity was confirmed: the order is sent to exactly that instance. *)
StopGoesOn ==
  /\ IdentityRead("stop")
  /\ \/ /\ Confirmed("stop")
        /\ control' = "stopping" /\ shutdownAccepted' = "null"
        /\ order' = seen["stop"] /\ reply' = "none" /\ stops' = stops \cup {seen["stop"]}
        /\ step' = [step EXCEPT !["stop"] = "posting"]
        /\ UNCHANGED <<seen, controlBusy>>
     \/ /\ ~Confirmed("stop")
        /\ GoTo("stop", "idle") /\ controlBusy' = FALSE
        /\ UNCHANGED <<control, shutdownAccepted, orders>>
  /\ UNCHANGED <<world, pendingRestart, binding, restarting>>

(* An order without an answer counts as refused. *)
BuggyStopAnswered ==
  /\ step["stop"] = "posting"
  /\ \/ /\ reply = "accepted"
        /\ shutdownAccepted' = "true"
        /\ GoTo("stop", "waiting")
        /\ UNCHANGED <<control, controlBusy, stops>>
     \/ /\ control' = "running" /\ shutdownAccepted' = "false" /\ controlBusy' = FALSE
        /\ stops' = IF reply = "refused" THEN stops \ {seen["stop"]} ELSE stops
        /\ GoTo("stop", "idle")
  /\ UNCHANGED <<world, pendingRestart, binding, restarting, order, reply>>

(* Accepted; refused because an operation runs; or of unknown outcome: no  *)
(* answer, a broken one, or the word that another stop came first.         *)
StopAnswered ==
  /\ step["stop"] = "posting"
  /\ \/ /\ reply = "accepted"
        /\ shutdownAccepted' = "true"
        /\ GoTo("stop", "waiting")
        /\ UNCHANGED <<control, controlBusy, stops>>
     \/ /\ reply = "refused"
        /\ control' = "running" /\ shutdownAccepted' = "false" /\ controlBusy' = FALSE
        /\ stops' = stops \ {seen["stop"]}
        /\ GoTo("stop", "idle")
     \/ /\ control' = "unknown" /\ shutdownAccepted' = "null" /\ controlBusy' = FALSE
        /\ GoTo("stop", "idle")
        /\ UNCHANGED stops
  /\ UNCHANGED <<world, pendingRestart, binding, restarting, order, reply>>

(* Only a proven end frees the supervisor. *)
BuggyStopWaits ==
  /\ step["stop"] = "waiting"
  /\ \/ BoundProcessEnded /\ control' = "stopped" /\ controlBusy' = FALSE
     \/ UNCHANGED <<control, controlBusy>>
  /\ GoTo("stop", "idle")
  /\ UNCHANGED <<world, pendingRestart, shutdownAccepted, binding, restarting, orders>>

(* The end of the bound process is awaited for 10 s. *)
StopWaits ==
  /\ step["stop"] = "waiting"
  /\ \/ BoundProcessEnded /\ control' = "stopped"
     \/ UNCHANGED control
  /\ controlBusy' = FALSE
  /\ GoTo("stop", "idle")
  /\ UNCHANGED <<world, pendingRestart, shutdownAccepted, binding, restarting, orders>>

(* controlApiSingleton: start. *)

StartOrdered ==
  /\ Up /\ ~controlBusy /\ instance # None
  /\ control = "stopped" /\ BoundProcessEnded /\ ~explicitUrl
  /\ controlBusy' = TRUE
  /\ control' = "starting" /\ pendingRestart' = TRUE
  /\ restarting' = TRUE
  /\ GoTo("ensure", "probe")
  /\ UNCHANGED <<world, shutdownAccepted, binding, orders>>

-----------------------------------------------------------------------------
Ensure == EnsureDecides \/ ReadinessEnds \/ ReadinessProbes \/ ReadinessDecides
Stop == StopGoesOn \/ StopAnswered \/ StopWaits

SupNext ==
  \/ ApiStep \/ ApiTakesStop
  \/ \E t \in Tasks : Answered(t)
  \/ \E c \in Callers : Retry(c)
  \/ Ensure
  \/ \E o \in Operations : OperationBegins(o) \/ OperationGoesOn(o) \/ OperationReturns(o)
  \/ \E t \in StatusCalls : StatusBegins(t) \/ StatusGoesOn(t) \/ StatusSettles(t)
  \/ StopOrdered \/ Stop \/ StartOrdered

SupSpec == SupInit /\ [][SupNext]_vars

(* Every probe has its timer and every wait its deadline.  The 15 s of a   *)
(* restart pass however often it has probed: the loop that comes back to   *)
(* its condition again and again finds it false.                           *)
SupFairness ==
  /\ WF_vars(Answered("ensure")) /\ WF_vars(EnsureDecides) /\ WF_vars(ReadinessProbes)
  /\ WF_vars(ReadinessDecides) /\ SF_vars(ReadinessEnds)
  /\ WF_vars(Answered("stop")) /\ WF_vars(Retry("stop")) /\ WF_vars(Stop)

FairSupSpec == SupSpec /\ SupFairness

-----------------------------------------------------------------------------
(* Properties. *)

(* The process and the instance the supervisor is bound to belong to one   *)
(* API, and "stopped" is said only of a process that has ended, whatever   *)
(* else ran while the probe was under way (processExited in controlStatus).*)
StoppedIsProven ==
  /\ SupTypeOK
  /\ instance # None => instance = process
  /\ control = "stopped" => BoundProcessEnded

(* A replacement at the endpoint is never taken over: once the tools are   *)
(* registered the supervisor binds itself only to an API it started, and   *)
(* it is bound to the same one until a start order (docs/ROADMAP.md: "Eine *)
(* Ersatzinstanz am Port wird weder uebernommen noch beendet").  It starts *)
(* one only at the start of the MCP process or after a start order, when   *)
(* the bound one is proven to have ended, and never for an endpoint that   *)
(* was named by its URL.                                                   *)
NoTakeover ==
  [][/\ Up /\ instance' # instance =>
          \/ instance' = None /\ restarting
          \/ instance' \in mine' /\ instance' = child'
     /\ mine' # mine => ~explicitUrl /\ (Up => BoundProcessEnded)]_vars

(* Once a stop order was sent and not refused, the supervisor never goes   *)
(* back to that instance (docs/ARCHITEKTUR.md: "Ein verlorener Antwortkanal*)
(* bleibt als unbekannter Ausgang gesperrt").                              *)
UncertainStopStaysClosed == control = "running" => instance \notin stops

(* No operation is sent after a stop order to the same instance, not even  *)
(* one whose identity check was under way when the order was sent.         *)
NoWorkBehindStop ==
  [][\A o \in Operations :
       step[o] # "posting" /\ step'[o] = "posting" => seen[o] \notin stops]_vars

(* While nothing runs, a stopped API can be started again: there is an     *)
(* instance to name in the order (docs/ROADMAP.md, step 4).                *)
StoppedCanBeStarted == control = "stopped" /\ ~explicitUrl => instance # None

(* Every order comes to an end, whatever the API does. *)
OrdersEnd == controlBusy ~> ~controlBusy

=============================================================================
