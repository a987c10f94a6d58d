------------------------- MODULE ApiSupervisorProofs -------------------------
(***************************************************************************)
(* What holds of the supervisor for any number of API processes and        *)
(* operations.  Two status calls at once break its account of a stop (see  *)
(* the run ApiSupervisorTwoStatus), so most of it assumes that the client  *)
(* waits for one before it makes the next.                                 *)
(***************************************************************************)
EXTENDS ApiSupervisor, TLAPS

OneStatusCall == \A t, u \in StatusCalls : t = u

Places == {"idle", "probe", "again", "pending", "posting", "waiting", "sleep", "readiness",
           "failed"}

(* Where each kind of task can stand; none begins before the tools are     *)
(* registered, and none of them is undone by a restart.                    *)
TaskPlaces ==
  /\ step["ensure"] \in {"idle", "probe", "sleep", "readiness", "failed"}
  /\ step["stop"] \in {"idle", "probe", "again", "posting", "waiting"}
  /\ \A o \in Operations : step[o] \in {"idle", "probe", "again", "posting"}
  /\ \A t \in StatusCalls : step[t] \in {"idle", "probe", "again", "pending"}
  /\ ~Up => /\ control = "running" /\ ~controlBusy /\ ~pendingRestart /\ stops = {}
            /\ \A c \in Callers : step[c] = "idle"

(* Whom the books name: a child was started here, a task has seen only     *)
(* what ran, and a stop order was sent only to what was seen.              *)
Known ==
  /\ child # None => child \in mine
  /\ \A p \in stops : api[p] # "unborn"
  /\ child \in stops => child = process
  /\ \A t \in Tasks : seen[t] \in Apis => api[seen[t]] # "unborn"

(* A start order keeps the other orders out until it ends, and begins with *)
(* a proven end; what it has started was never told to stop.               *)
StartOrder ==
  /\ control = "starting" <=> restarting
  /\ restarting => /\ controlBusy /\ pendingRestart
                   /\ step["ensure"] \in {"probe", "sleep", "readiness"}
  /\ restarting /\ step["ensure"] = "probe" => BoundProcessEnded
  /\ pendingRestart => control \in {"starting", "unknown"}
  /\ pendingRestart /\ child \in stops => api[child] = "dead"
  /\ step["ensure"] \in {"sleep", "readiness"} =>
       child # None /\ child = process /\ child \notin stops /\ instance = None

(* A stop order keeps the other orders out until it ends, and goes to the  *)
(* bound instance.                                                         *)
StopOrder ==
  /\ step["stop"] # "idle" <=> controlBusy /\ ~restarting
  /\ step["stop"] \in {"posting", "waiting"} => control = "stopping"
  /\ step["stop"] = "posting" => seen["stop"] = instance /\ instance # None

(* A status call that looks for a given-up restart leaves no room for any  *)
(* order, and can find only a child that was not told to stop.             *)
LateStatus ==
  \A t \in StatusCalls : step[t] = "pending" =>
    /\ control = "unknown" /\ pendingRestart /\ ~controlBusy
    /\ child # None /\ child = process
    /\ seen[t] = child => child \notin stops

Binding ==
  /\ instance # None => instance = process
  /\ control = "stopped" => BoundProcessEnded
  /\ Up /\ control = "running" => instance # None
  /\ control = "running" => instance \notin stops

SupInv ==
  /\ SupTypeOK /\ TaskPlaces /\ Known /\ StartOrder /\ StopOrder /\ LateStatus /\ Binding

(* What holds however many status calls there are. *)
TakeInv ==
  /\ SupTypeOK
  /\ child # None => child \in mine
  /\ restarting /\ step["ensure"] = "probe" => BoundProcessEnded

(* GoTo moves one task. *)
LEMMA GoToMoves ==
  ASSUME SupTypeOK, NEW t \in Tasks, NEW w \in Places, GoTo(t, w)
  PROVE  /\ step' \in [Tasks -> Places]
         /\ seen' \in [Tasks -> Apis \cup Failures \cup {None}]
         /\ step'[t] = w /\ seen'[t] = None
         /\ \A u \in Tasks \ {t} : step'[u] = step[u] /\ seen'[u] = seen[u]
BY DEF GoTo, SupTypeOK, Places

(* Every step keeps the types. *)
LEMMA TypeStep == SupTypeOK /\ [SupNext]_vars => SupTypeOK'
<1> SUFFICES ASSUME SupTypeOK, [SupNext]_vars PROVE SupTypeOK'
  OBVIOUS
<1> USE DEF world, state, binding, orders, Tasks, Callers, SupTypeOK, Failures
<1>1. CASE ApiStep
  BY <1>1 DEF ApiStep, ApiListens, ApiEnds, OthersStart, OthersStop
<1>2. CASE ApiTakesStop
  BY <1>2 DEF ApiTakesStop
<1>3. ASSUME NEW t \in Tasks, Answered(t) PROVE SupTypeOK'
  BY <1>3 DEF Answered, Probing
<1>4. ASSUME NEW c \in Callers, Retry(c) PROVE SupTypeOK'
  BY <1>4 DEF Retry, GoTo
<1>5. CASE EnsureDecides
  <2>1. \E w \in Places : GoTo("ensure", w)
    BY <1>5 DEF EnsureDecides, EnsureFails, EnsureBinds, Places
  <2>2. step' \in [Tasks -> Places] /\ seen' \in [Tasks -> Apis \cup Failures \cup {None}]
    BY <2>1, GoToMoves
  <2>3. QED
    BY ZenonT(40), <1>5, <2>2 DEF EnsureDecides, EnsureFails, EnsureBinds, Places
<1>6. CASE ReadinessEnds
  <2>1. \E w \in Places : GoTo("ensure", w)
    BY <1>6 DEF ReadinessEnds, EnsureFails, Places
  <2>2. step' \in [Tasks -> Places] /\ seen' \in [Tasks -> Apis \cup Failures \cup {None}]
    BY <2>1, GoToMoves
  <2>3. /\ control' \in {"running", "stopping", "stopped", "starting", "unknown"}
        /\ controlBusy' \in BOOLEAN /\ pendingRestart' \in BOOLEAN /\ restarting' \in BOOLEAN
        /\ shutdownAccepted' \in {"null", "true", "false"}
    BY <1>6 DEF ReadinessEnds, EnsureFails
  <2>4. /\ UNCHANGED world /\ UNCHANGED orders
        /\ process' \in Apis \cup {None} /\ instance' \in Apis \cup {None}
        /\ child' \in Apis \cup {None}
    BY <1>6 DEF ReadinessEnds, EnsureFails
  <2>5. QED
    BY <2>2, <2>3, <2>4 DEF Places
<1>7. CASE ReadinessProbes
  BY <1>7 DEF ReadinessProbes, GoTo
<1>8. CASE ReadinessDecides
  <2>1. \E w \in Places : GoTo("ensure", w)
    BY <1>8 DEF ReadinessDecides, EnsureFails, EnsureBinds, Places
  <2>2. step' \in [Tasks -> Places] /\ seen' \in [Tasks -> Apis \cup Failures \cup {None}]
    BY <2>1, GoToMoves
  <2>3. /\ control' \in {"running", "stopping", "stopped", "starting", "unknown"}
        /\ controlBusy' \in BOOLEAN /\ pendingRestart' \in BOOLEAN /\ restarting' \in BOOLEAN
        /\ shutdownAccepted' \in {"null", "true", "false"}
    BY <1>8 DEF ReadinessDecides, EnsureFails, EnsureBinds
  <2>4. /\ UNCHANGED world /\ UNCHANGED orders
        /\ process' \in Apis \cup {None} /\ instance' \in Apis \cup {None}
        /\ child' \in Apis \cup {None}
    BY <1>8 DEF ReadinessDecides, EnsureFails, EnsureBinds
  <2>5. QED
    BY <2>2, <2>3, <2>4 DEF Places
<1>9. ASSUME NEW o \in Operations, OperationBegins(o) PROVE SupTypeOK'
  BY <1>9 DEF OperationBegins, GoTo
<1>10. ASSUME NEW o \in Operations, OperationGoesOn(o) PROVE SupTypeOK'
  BY <1>10 DEF OperationGoesOn, IdentityRead, Confirmed, GoTo
<1>11. ASSUME NEW o \in Operations, OperationReturns(o) PROVE SupTypeOK'
  BY <1>11 DEF OperationReturns, GoTo
<1>12. ASSUME NEW t \in StatusCalls, StatusBegins(t) PROVE SupTypeOK'
  BY ZenonT(40), <1>12 DEF StatusBegins, StatusStopped, GoTo
<1>13. ASSUME NEW t \in StatusCalls, StatusGoesOn(t) PROVE SupTypeOK'
  <2>1. GoTo(t, "idle") /\ "idle" \in Places
    BY <1>13 DEF StatusGoesOn, Places
  <2>2. step' \in [Tasks -> Places] /\ seen' \in [Tasks -> Apis \cup Failures \cup {None}]
    BY <2>1, GoToMoves
  <2>3. /\ control' \in {"running", "stopping", "stopped", "starting", "unknown"}
        /\ controlBusy' \in BOOLEAN /\ pendingRestart' \in BOOLEAN /\ restarting' \in BOOLEAN
        /\ shutdownAccepted' \in {"null", "true", "false"}
    BY <1>13 DEF StatusGoesOn, StatusStopped
  <2>4. /\ UNCHANGED world /\ UNCHANGED orders
        /\ process' \in Apis \cup {None} /\ instance' \in Apis \cup {None}
        /\ child' \in Apis \cup {None}
    BY <1>13 DEF StatusGoesOn, StatusStopped
  <2>5. QED
    BY <2>2, <2>3, <2>4 DEF Places
<1>14. ASSUME NEW t \in StatusCalls, StatusSettles(t) PROVE SupTypeOK'
  <2>1. GoTo(t, "idle") /\ "idle" \in Places
    BY <1>14 DEF StatusSettles, Places
  <2>2. step' \in [Tasks -> Places] /\ seen' \in [Tasks -> Apis \cup Failures \cup {None}]
    BY <2>1, GoToMoves
  <2>3. /\ control' \in {"running", "stopping", "stopped", "starting", "unknown"}
        /\ controlBusy' \in BOOLEAN /\ pendingRestart' \in BOOLEAN /\ restarting' \in BOOLEAN
        /\ shutdownAccepted' \in {"null", "true", "false"}
    BY <1>14 DEF StatusSettles
  <2>4. /\ UNCHANGED world /\ UNCHANGED orders
        /\ process' \in Apis \cup {None} /\ instance' \in Apis \cup {None}
        /\ child' \in Apis \cup {None}
    BY <1>14 DEF StatusSettles
  <2>5. QED
    BY <2>2, <2>3, <2>4 DEF Places
<1>15. CASE StopOrdered
  BY <1>15 DEF StopOrdered, GoTo
<1>16. CASE StopGoesOn
  BY ZenonT(40), <1>16 DEF StopGoesOn, IdentityRead, Confirmed, GoTo
<1>17. CASE StopAnswered
  BY ZenonT(40), <1>17 DEF StopAnswered, GoTo
<1>18. CASE StopWaits
  <2>1. GoTo("stop", "idle") /\ "idle" \in Places
    BY <1>18 DEF StopWaits, Places
  <2>2. step' \in [Tasks -> Places] /\ seen' \in [Tasks -> Apis \cup Failures \cup {None}]
    BY <2>1, GoToMoves
  <2>3. /\ control' \in {"running", "stopping", "stopped", "starting", "unknown"}
        /\ controlBusy' \in BOOLEAN /\ pendingRestart' \in BOOLEAN /\ restarting' \in BOOLEAN
        /\ shutdownAccepted' \in {"null", "true", "false"}
    BY <1>18 DEF StopWaits
  <2>4. /\ UNCHANGED world /\ UNCHANGED orders
        /\ process' \in Apis \cup {None} /\ instance' \in Apis \cup {None}
        /\ child' \in Apis \cup {None}
    BY <1>18 DEF StopWaits
  <2>5. QED
    BY <2>2, <2>3, <2>4 DEF Places
<1>19. CASE StartOrdered
  BY <1>19 DEF StartOrdered, GoTo
<1>20. CASE UNCHANGED vars
  BY <1>20 DEF vars
<1>21. QED
  BY <1>1, <1>2, <1>3, <1>4, <1>5, <1>6, <1>7, <1>8, <1>9, <1>10, <1>11, <1>12, <1>13, <1>14, <1>15, <1>16, <1>17, <1>18, <1>19, <1>20 DEF SupNext, Ensure, Stop

(* Every step keeps the invariant; one step of the proof per action. *)
LEMMA SupInvStep == ASSUME OneStatusCall, SupInv, [SupNext]_vars PROVE SupInv'
<1>0. SupTypeOK'
  BY TypeStep DEF SupInv
<1> USE KindsDisjoint DEF world, state, binding, orders, Tasks, Callers, SupTypeOK, Failures, SupInv
<1>1. CASE ApiStep
  <2>1. TaskPlaces'
    BY <1>1 DEF ApiStep, ApiListens, ApiEnds, OthersStart, OthersStop, TaskPlaces, Up
  <2>2. Known'
    BY <1>1 DEF ApiStep, ApiListens, ApiEnds, OthersStart, OthersStop, Known, TaskPlaces
  <2>3. StartOrder'
    BY <1>1 DEF ApiStep, ApiListens, ApiEnds, OthersStart, OthersStop, StartOrder, TaskPlaces, Known, BoundProcessEnded
  <2>4. StopOrder'
    BY <1>1 DEF ApiStep, ApiListens, ApiEnds, OthersStart, OthersStop, StopOrder, TaskPlaces, StartOrder, Up
  <2>5. LateStatus'
    BY <1>1 DEF ApiStep, ApiListens, ApiEnds, OthersStart, OthersStop, LateStatus, OneStatusCall, StartOrder, StopOrder, TaskPlaces
  <2>6. Binding'
    BY <1>1 DEF ApiStep, ApiListens, ApiEnds, OthersStart, OthersStop, Binding, BoundProcessEnded, StartOrder, StopOrder, LateStatus, TaskPlaces, Up
  <2>7. QED
    BY <1>0, <2>1, <2>2, <2>3, <2>4, <2>5, <2>6
<1>2. CASE ApiTakesStop
  <2>1. TaskPlaces'
    BY <1>2 DEF ApiTakesStop, TaskPlaces, Up
  <2>2. Known'
    BY <1>2 DEF ApiTakesStop, Known, TaskPlaces
  <2>3. StartOrder'
    BY <1>2 DEF ApiTakesStop, StartOrder, TaskPlaces, Known, BoundProcessEnded
  <2>4. StopOrder'
    BY <1>2 DEF ApiTakesStop, StopOrder, TaskPlaces, StartOrder, Up
  <2>5. LateStatus'
    BY <1>2 DEF ApiTakesStop, LateStatus, OneStatusCall, StartOrder, StopOrder, TaskPlaces
  <2>6. Binding'
    BY <1>2 DEF ApiTakesStop, Binding, BoundProcessEnded, StartOrder, StopOrder, LateStatus, TaskPlaces, Up
  <2>7. QED
    BY <1>0, <2>1, <2>2, <2>3, <2>4, <2>5, <2>6
<1>3. ASSUME NEW t \in Tasks, Answered(t) PROVE SupInv'
  <2>1. TaskPlaces'
    BY <1>3 DEF Answered, Probing, TaskPlaces, Up
  <2>2. Known'
    BY <1>3 DEF Answered, Probing, Known, TaskPlaces
  <2>3. StartOrder'
    BY <1>3 DEF Answered, Probing, StartOrder, TaskPlaces, Known, BoundProcessEnded
  <2>4. StopOrder'
    BY <1>3 DEF Answered, Probing, StopOrder, TaskPlaces, StartOrder, Up
  <2>5. LateStatus'
    BY <1>3 DEF Answered, Probing, LateStatus, OneStatusCall, StartOrder, StopOrder, TaskPlaces
  <2>6. Binding'
    BY <1>3 DEF Answered, Probing, Binding, BoundProcessEnded, StartOrder, StopOrder, LateStatus, TaskPlaces, Up
  <2>7. QED
    BY <1>0, <2>1, <2>2, <2>3, <2>4, <2>5, <2>6
<1>4. ASSUME NEW c \in Callers, Retry(c) PROVE SupInv'
  <2>1. TaskPlaces'
    BY <1>4 DEF Retry, GoTo, TaskPlaces, Up
  <2>2. Known'
    BY <1>4 DEF Retry, GoTo, Known, TaskPlaces
  <2>3. StartOrder'
    BY <1>4 DEF Retry, GoTo, StartOrder, TaskPlaces, Known, BoundProcessEnded
  <2>4. StopOrder'
    BY <1>4 DEF Retry, GoTo, StopOrder, TaskPlaces, StartOrder, Up
  <2>5. LateStatus'
    BY <1>4 DEF Retry, GoTo, LateStatus, OneStatusCall, StartOrder, StopOrder, TaskPlaces
  <2>6. Binding'
    BY <1>4 DEF Retry, GoTo, Binding, BoundProcessEnded, StartOrder, StopOrder, LateStatus, TaskPlaces, Up
  <2>7. QED
    BY <1>0, <2>1, <2>2, <2>3, <2>4, <2>5, <2>6
<1>5. CASE EnsureDecides
  <2>1. TaskPlaces'
    BY <1>5 DEF EnsureDecides, EnsureFails, EnsureBinds, GoTo, TaskPlaces, Up
  <2>2. Known'
    BY <1>5 DEF EnsureDecides, EnsureFails, EnsureBinds, GoTo, Known, TaskPlaces, Up, StartOrder
  <2>3. StartOrder'
    BY <1>5 DEF EnsureDecides, EnsureFails, EnsureBinds, GoTo, StartOrder, TaskPlaces, Known, BoundProcessEnded
  <2>4. StopOrder'
    BY <1>5 DEF EnsureDecides, EnsureFails, EnsureBinds, GoTo, StopOrder, TaskPlaces, StartOrder, Up
  <2>5. LateStatus'
    <3>1. \A t \in StatusCalls : step[t] # "pending"
      BY <1>5 DEF EnsureDecides, LateStatus, StartOrder, TaskPlaces, Up
    <3>2. \A t \in StatusCalls : step'[t] = step[t]
      BY <1>5 DEF EnsureDecides, EnsureFails, EnsureBinds, GoTo
    <3>3. QED
      BY <3>1, <3>2 DEF LateStatus
  <2>6. Binding'
    BY <1>5 DEF EnsureDecides, EnsureFails, EnsureBinds, GoTo, Binding, BoundProcessEnded, StartOrder, StopOrder, LateStatus, TaskPlaces, Up
  <2>7. QED
    BY <1>0, <2>1, <2>2, <2>3, <2>4, <2>5, <2>6
<1>6. CASE ReadinessEnds
  <2>1. TaskPlaces'
    BY <1>6 DEF ReadinessEnds, EnsureFails, GoTo, TaskPlaces, Up
  <2>2. Known'
    BY <1>6 DEF ReadinessEnds, EnsureFails, GoTo, Known, TaskPlaces
  <2>3. StartOrder'
    BY <1>6 DEF ReadinessEnds, EnsureFails, GoTo, StartOrder, TaskPlaces, Known, BoundProcessEnded
  <2>4. StopOrder'
    BY <1>6 DEF ReadinessEnds, EnsureFails, GoTo, StopOrder, TaskPlaces, StartOrder, Up
  <2>5. LateStatus'
    BY <1>6 DEF ReadinessEnds, EnsureFails, GoTo, LateStatus, OneStatusCall, StartOrder, StopOrder, TaskPlaces
  <2>6. Binding'
    BY <1>6 DEF ReadinessEnds, EnsureFails, GoTo, Binding, BoundProcessEnded, StartOrder, StopOrder, LateStatus, TaskPlaces, Up
  <2>7. QED
    BY <1>0, <2>1, <2>2, <2>3, <2>4, <2>5, <2>6
<1>7. CASE ReadinessProbes
  <2>1. TaskPlaces'
    BY <1>7 DEF ReadinessProbes, GoTo, TaskPlaces, Up
  <2>2. Known'
    BY <1>7 DEF ReadinessProbes, GoTo, Known, TaskPlaces
  <2>3. StartOrder'
    BY <1>7 DEF ReadinessProbes, GoTo, StartOrder, TaskPlaces, Known, BoundProcessEnded
  <2>4. StopOrder'
    BY <1>7 DEF ReadinessProbes, GoTo, StopOrder, TaskPlaces, StartOrder, Up
  <2>5. LateStatus'
    BY <1>7 DEF ReadinessProbes, GoTo, LateStatus, OneStatusCall, StartOrder, StopOrder, TaskPlaces
  <2>6. Binding'
    BY <1>7 DEF ReadinessProbes, GoTo, Binding, BoundProcessEnded, StartOrder, StopOrder, LateStatus, TaskPlaces, Up
  <2>7. QED
    BY <1>0, <2>1, <2>2, <2>3, <2>4, <2>5, <2>6
<1>8. CASE ReadinessDecides
  <2>1. TaskPlaces'
    BY <1>8 DEF ReadinessDecides, EnsureFails, EnsureBinds, GoTo, TaskPlaces, Up
  <2>2. Known'
    BY <1>8 DEF ReadinessDecides, EnsureFails, EnsureBinds, GoTo, Known, TaskPlaces, Up, StartOrder
  <2>3. StartOrder'
    BY <1>8 DEF ReadinessDecides, EnsureFails, EnsureBinds, GoTo, StartOrder, TaskPlaces, Known, BoundProcessEnded
  <2>4. StopOrder'
    BY <1>8 DEF ReadinessDecides, EnsureFails, EnsureBinds, GoTo, StopOrder, TaskPlaces, StartOrder, Up
  <2>5. LateStatus'
    <3>1. \A t \in StatusCalls : step[t] # "pending"
      BY <1>8 DEF ReadinessDecides, LateStatus, StartOrder, TaskPlaces, Up
    <3>2. \A t \in StatusCalls : step'[t] = step[t]
      BY <1>8 DEF ReadinessDecides, EnsureFails, EnsureBinds, GoTo
    <3>3. QED
      BY <3>1, <3>2 DEF LateStatus
  <2>6. Binding'
    BY <1>8 DEF ReadinessDecides, EnsureFails, EnsureBinds, GoTo, Binding, BoundProcessEnded, StartOrder, StopOrder, LateStatus, TaskPlaces, Up
  <2>7. QED
    BY <1>0, <2>1, <2>2, <2>3, <2>4, <2>5, <2>6
<1>9. ASSUME NEW o \in Operations, OperationBegins(o) PROVE SupInv'
  <2>1. TaskPlaces'
    BY <1>9 DEF OperationBegins, GoTo, TaskPlaces, Up
  <2>2. Known'
    BY <1>9 DEF OperationBegins, GoTo, Known, TaskPlaces
  <2>3. StartOrder'
    BY <1>9 DEF OperationBegins, GoTo, StartOrder, TaskPlaces, Known, BoundProcessEnded
  <2>4. StopOrder'
    BY <1>9 DEF OperationBegins, GoTo, StopOrder, TaskPlaces, StartOrder, Up
  <2>5. LateStatus'
    BY <1>9 DEF OperationBegins, GoTo, LateStatus, OneStatusCall, StartOrder, StopOrder, TaskPlaces
  <2>6. Binding'
    BY <1>9 DEF OperationBegins, GoTo, Binding, BoundProcessEnded, StartOrder, StopOrder, LateStatus, TaskPlaces, Up
  <2>7. QED
    BY <1>0, <2>1, <2>2, <2>3, <2>4, <2>5, <2>6
<1>10. ASSUME NEW o \in Operations, OperationGoesOn(o) PROVE SupInv'
  <2>1. TaskPlaces'
    BY <1>10 DEF OperationGoesOn, IdentityRead, Confirmed, GoTo, TaskPlaces, Up
  <2>2. Known'
    BY <1>10 DEF OperationGoesOn, IdentityRead, Confirmed, GoTo, Known, TaskPlaces
  <2>3. StartOrder'
    BY <1>10 DEF OperationGoesOn, IdentityRead, Confirmed, GoTo, StartOrder, TaskPlaces, Known, BoundProcessEnded
  <2>4. StopOrder'
    BY <1>10 DEF OperationGoesOn, IdentityRead, Confirmed, GoTo, StopOrder, TaskPlaces, StartOrder, Up
  <2>5. LateStatus'
    BY <1>10 DEF OperationGoesOn, IdentityRead, Confirmed, GoTo, LateStatus, OneStatusCall, StartOrder, StopOrder, TaskPlaces
  <2>6. Binding'
    BY <1>10 DEF OperationGoesOn, IdentityRead, Confirmed, GoTo, Binding, BoundProcessEnded, StartOrder, StopOrder, LateStatus, TaskPlaces, Up
  <2>7. QED
    BY <1>0, <2>1, <2>2, <2>3, <2>4, <2>5, <2>6
<1>11. ASSUME NEW o \in Operations, OperationReturns(o) PROVE SupInv'
  <2>1. TaskPlaces'
    BY <1>11 DEF OperationReturns, GoTo, TaskPlaces, Up
  <2>2. Known'
    BY <1>11 DEF OperationReturns, GoTo, Known, TaskPlaces
  <2>3. StartOrder'
    BY <1>11 DEF OperationReturns, GoTo, StartOrder, TaskPlaces, Known, BoundProcessEnded
  <2>4. StopOrder'
    BY <1>11 DEF OperationReturns, GoTo, StopOrder, TaskPlaces, StartOrder, Up
  <2>5. LateStatus'
    BY <1>11 DEF OperationReturns, GoTo, LateStatus, OneStatusCall, StartOrder, StopOrder, TaskPlaces
  <2>6. Binding'
    BY <1>11 DEF OperationReturns, GoTo, Binding, BoundProcessEnded, StartOrder, StopOrder, LateStatus, TaskPlaces, Up
  <2>7. QED
    BY <1>0, <2>1, <2>2, <2>3, <2>4, <2>5, <2>6
<1>12. ASSUME NEW t \in StatusCalls, StatusBegins(t) PROVE SupInv'
  <2>1. TaskPlaces'
    BY <1>12 DEF StatusBegins, StatusStopped, GoTo, TaskPlaces, Up
  <2>2. Known'
    BY <1>12 DEF StatusBegins, StatusStopped, GoTo, Known, TaskPlaces
  <2>3. StartOrder'
    BY <1>12 DEF StatusBegins, StatusStopped, GoTo, StartOrder, TaskPlaces, Known, BoundProcessEnded
  <2>4. StopOrder'
    BY <1>12 DEF StatusBegins, StatusStopped, GoTo, StopOrder, TaskPlaces, StartOrder, Up
  <2>5. LateStatus'
    BY <1>12 DEF StatusBegins, StatusStopped, GoTo, LateStatus, OneStatusCall, StartOrder, StopOrder, TaskPlaces
  <2>6. Binding'
    BY <1>12 DEF StatusBegins, StatusStopped, GoTo, Binding, BoundProcessEnded, StartOrder, StopOrder, LateStatus, TaskPlaces, Up
  <2>7. QED
    BY <1>0, <2>1, <2>2, <2>3, <2>4, <2>5, <2>6
<1>13. ASSUME NEW t \in StatusCalls, StatusGoesOn(t) PROVE SupInv'
  <2>1. TaskPlaces'
    BY <1>13 DEF StatusGoesOn, IdentityRead, StatusStopped, GoTo, TaskPlaces, Up
  <2>2. Known'
    BY <1>13 DEF StatusGoesOn, IdentityRead, StatusStopped, GoTo, Known, TaskPlaces
  <2>3. StartOrder'
    BY <1>13 DEF StatusGoesOn, IdentityRead, StatusStopped, GoTo, StartOrder, TaskPlaces, Known, BoundProcessEnded
  <2>4. StopOrder'
    BY <1>13 DEF StatusGoesOn, IdentityRead, StatusStopped, GoTo, StopOrder, TaskPlaces, StartOrder, Up
  <2>5. LateStatus'
    BY <1>13 DEF StatusGoesOn, IdentityRead, StatusStopped, GoTo, LateStatus, OneStatusCall, StartOrder, StopOrder, TaskPlaces
  <2>6. Binding'
    BY <1>13 DEF StatusGoesOn, IdentityRead, StatusStopped, GoTo, Binding, BoundProcessEnded, StartOrder, StopOrder, LateStatus, TaskPlaces, Up
  <2>7. QED
    BY <1>0, <2>1, <2>2, <2>3, <2>4, <2>5, <2>6
<1>14. ASSUME NEW t \in StatusCalls, StatusSettles(t) PROVE SupInv'
  <2>1. TaskPlaces'
    BY <1>14 DEF StatusSettles, GoTo, TaskPlaces, Up
  <2>2. Known'
    BY <1>14 DEF StatusSettles, GoTo, Known, TaskPlaces
  <2>3. StartOrder'
    <3>1. /\ control = "unknown" /\ ~controlBusy /\ ~restarting /\ step["ensure"] = "idle"
          /\ step'["ensure"] = "idle"
      BY <1>14 DEF StatusSettles, GoTo, LateStatus, StartOrder, TaskPlaces, Up
    <3>2. CASE UNCHANGED <<instance, state>>
      BY <1>14, <3>1, <3>2 DEF StatusSettles, StartOrder
    <3>3. CASE control' = "running" /\ pendingRestart' = FALSE
      BY <1>14, <3>1, <3>3 DEF StatusSettles, StartOrder
    <3>4. QED
      BY <1>14, <3>2, <3>3 DEF StatusSettles
  <2>4. StopOrder'
    BY <1>14 DEF StatusSettles, GoTo, StopOrder, LateStatus, TaskPlaces, StartOrder, Up
  <2>5. LateStatus'
    BY <1>14 DEF StatusSettles, GoTo, LateStatus, OneStatusCall, StartOrder, StopOrder, TaskPlaces
  <2>6. Binding'
    BY <1>14 DEF StatusSettles, GoTo, Binding, BoundProcessEnded, StartOrder, StopOrder, LateStatus, TaskPlaces, Up
  <2>7. QED
    BY <1>0, <2>1, <2>2, <2>3, <2>4, <2>5, <2>6
<1>15. CASE StopOrdered
  <2>1. TaskPlaces'
    BY <1>15 DEF StopOrdered, GoTo, TaskPlaces, Up
  <2>2. Known'
    BY <1>15 DEF StopOrdered, GoTo, Known, TaskPlaces
  <2>3. StartOrder'
    BY <1>15 DEF StopOrdered, GoTo, StartOrder, TaskPlaces, Known, BoundProcessEnded
  <2>4. StopOrder'
    BY <1>15 DEF StopOrdered, GoTo, StopOrder, TaskPlaces, StartOrder, Up
  <2>5. LateStatus'
    BY <1>15 DEF StopOrdered, GoTo, LateStatus, OneStatusCall, StartOrder, StopOrder, TaskPlaces
  <2>6. Binding'
    BY <1>15 DEF StopOrdered, GoTo, Binding, BoundProcessEnded, StartOrder, StopOrder, LateStatus, TaskPlaces, Up
  <2>7. QED
    BY <1>0, <2>1, <2>2, <2>3, <2>4, <2>5, <2>6
<1>16. CASE StopGoesOn
  <2>1. TaskPlaces'
    BY <1>16 DEF StopGoesOn, IdentityRead, Confirmed, GoTo, TaskPlaces, Up
  <2>2. Known'
    BY <1>16 DEF StopGoesOn, IdentityRead, Confirmed, GoTo, Known, TaskPlaces, Binding, Up
  <2>3. StartOrder'
    BY <1>16 DEF StopGoesOn, IdentityRead, Confirmed, GoTo, StartOrder, StopOrder, TaskPlaces, Up
  <2>4. StopOrder'
    BY <1>16 DEF StopGoesOn, IdentityRead, Confirmed, GoTo, StopOrder, Binding, TaskPlaces, StartOrder, Up
  <2>5. LateStatus'
    BY <1>16 DEF StopGoesOn, IdentityRead, Confirmed, GoTo, LateStatus, OneStatusCall, StartOrder, StopOrder, TaskPlaces
  <2>6. Binding'
    BY <1>16 DEF StopGoesOn, IdentityRead, Confirmed, GoTo, Binding, BoundProcessEnded, StartOrder, StopOrder, LateStatus, TaskPlaces, Up
  <2>7. QED
    BY <1>0, <2>1, <2>2, <2>3, <2>4, <2>5, <2>6
<1>17. CASE StopAnswered
  <2>1. TaskPlaces'
    BY <1>17 DEF StopAnswered, GoTo, TaskPlaces, Up
  <2>2. Known'
    BY <1>17 DEF StopAnswered, GoTo, Known, TaskPlaces
  <2>3. StartOrder'
    BY <1>17 DEF StopAnswered, GoTo, StartOrder, StopOrder, TaskPlaces, BoundProcessEnded
  <2>4. StopOrder'
    BY <1>17 DEF StopAnswered, GoTo, StopOrder, TaskPlaces, StartOrder, Up
  <2>5. LateStatus'
    BY <1>17 DEF StopAnswered, GoTo, LateStatus, OneStatusCall, StartOrder, StopOrder, TaskPlaces
  <2>6. Binding'
    BY <1>17 DEF StopAnswered, GoTo, Binding, BoundProcessEnded, StartOrder, StopOrder, LateStatus, TaskPlaces, Up
  <2>7. QED
    BY <1>0, <2>1, <2>2, <2>3, <2>4, <2>5, <2>6
<1>18. CASE StopWaits
  <2>1. TaskPlaces'
    BY <1>18 DEF StopWaits, GoTo, TaskPlaces, Up
  <2>2. Known'
    BY <1>18 DEF StopWaits, GoTo, Known, TaskPlaces
  <2>3. StartOrder'
    BY <1>18 DEF StopWaits, GoTo, StartOrder, StopOrder, TaskPlaces, BoundProcessEnded
  <2>4. StopOrder'
    BY <1>18 DEF StopWaits, GoTo, StopOrder, TaskPlaces, StartOrder, Up
  <2>5. LateStatus'
    BY <1>18 DEF StopWaits, GoTo, LateStatus, OneStatusCall, StartOrder, StopOrder, TaskPlaces
  <2>6. Binding'
    BY <1>18 DEF StopWaits, GoTo, Binding, BoundProcessEnded, StartOrder, StopOrder, LateStatus, TaskPlaces, Up
  <2>7. QED
    BY <1>0, <2>1, <2>2, <2>3, <2>4, <2>5, <2>6
<1>19. CASE StartOrdered
  <2>1. TaskPlaces'
    BY <1>19 DEF StartOrdered, GoTo, TaskPlaces, Up
  <2>2. Known'
    BY <1>19 DEF StartOrdered, GoTo, Known, TaskPlaces
  <2>3. StartOrder'
    BY <1>19 DEF StartOrdered, GoTo, StartOrder, TaskPlaces, Known, BoundProcessEnded
  <2>4. StopOrder'
    BY <1>19 DEF StartOrdered, GoTo, StopOrder, TaskPlaces, StartOrder, Up
  <2>5. LateStatus'
    BY <1>19 DEF StartOrdered, GoTo, LateStatus, OneStatusCall, StartOrder, StopOrder, TaskPlaces
  <2>6. Binding'
    BY <1>19 DEF StartOrdered, GoTo, Binding, BoundProcessEnded, StartOrder, StopOrder, LateStatus, TaskPlaces, Up
  <2>7. QED
    BY <1>0, <2>1, <2>2, <2>3, <2>4, <2>5, <2>6
<1>20. CASE UNCHANGED vars
  BY <1>20 DEF vars, TaskPlaces, Known, StartOrder, StopOrder, LateStatus, Binding, Up, BoundProcessEnded
<1>21. QED
  BY <1>1, <1>2, <1>3, <1>4, <1>5, <1>6, <1>7, <1>8, <1>9, <1>10, <1>11, <1>12, <1>13, <1>14, <1>15, <1>16, <1>17, <1>18, <1>19, <1>20 DEF SupNext, Ensure, Stop

(* The supervisor starts in the invariant. *)
LEMMA SupInitInv == SupInit => SupInv
<1> SUFFICES ASSUME SupInit PROVE SupInv
  OBVIOUS
<1> USE KindsDisjoint DEF Tasks, Callers, Failures, SupInit
<1>1. SupTypeOK
  BY DEF SupTypeOK
<1>2. TaskPlaces
  BY DEF TaskPlaces, Up
<1>3. Known /\ StartOrder /\ StopOrder /\ LateStatus /\ Binding
  BY DEF Known, StartOrder, StopOrder, LateStatus, Binding, Up
<1>4. QED
  BY <1>1, <1>2, <1>3 DEF SupInv

(* The invariant holds as long as status calls come one by one. *)
LEMMA SupInvariant == ASSUME OneStatusCall PROVE SupSpec => []SupInv
<1>1. SupInit => SupInv
  BY SupInitInv
<1>2. SupInv /\ [SupNext]_vars => SupInv'
  BY SupInvStep
<1>3. QED
  BY <1>1, <1>2, PTL DEF SupSpec

(* What the supervisor is bound to is the child it started itself. *)
LEMMA TakeInvStep == TakeInv /\ [SupNext]_vars => TakeInv'
<1> SUFFICES ASSUME TakeInv, [SupNext]_vars PROVE TakeInv'
  OBVIOUS
<1>0. SupTypeOK'
  BY TypeStep DEF TakeInv
<1> USE KindsDisjoint DEF world, state, binding, orders, Tasks, Callers, SupTypeOK, Failures,
                         TakeInv, BoundProcessEnded
<1>1. CASE ApiStep
  BY <1>0, <1>1 DEF ApiStep, ApiListens, ApiEnds, OthersStart, OthersStop
<1>2. CASE ApiTakesStop
  BY <1>0, <1>2 DEF ApiTakesStop
<1>3. ASSUME NEW t \in Tasks, Answered(t) PROVE TakeInv'
  BY <1>0, <1>3 DEF Answered
<1>4. ASSUME NEW c \in Callers, Retry(c) PROVE TakeInv'
  BY <1>0, <1>4 DEF Retry, GoTo
<1>5. CASE EnsureDecides
  BY <1>0, <1>5 DEF EnsureDecides, EnsureFails, EnsureBinds, GoTo
<1>6. CASE ReadinessEnds
  BY <1>0, <1>6 DEF ReadinessEnds, EnsureFails, GoTo
<1>7. CASE ReadinessProbes
  BY <1>0, <1>7 DEF ReadinessProbes, GoTo
<1>8. CASE ReadinessDecides
  BY <1>0, <1>8 DEF ReadinessDecides, EnsureFails, EnsureBinds, GoTo
<1>9. ASSUME NEW o \in Operations,
             OperationBegins(o) \/ OperationGoesOn(o) \/ OperationReturns(o)
      PROVE  TakeInv'
  BY <1>0, <1>9 DEF OperationBegins, OperationGoesOn, OperationReturns, GoTo
<1>10. ASSUME NEW t \in StatusCalls, StatusBegins(t) \/ StatusGoesOn(t) \/ StatusSettles(t)
       PROVE  TakeInv'
  BY <1>0, <1>10 DEF StatusBegins, StatusGoesOn, StatusSettles, GoTo
<1>11. CASE StopOrdered \/ Stop
  BY <1>0, <1>11 DEF StopOrdered, Stop, StopGoesOn, StopAnswered, StopWaits, GoTo
<1>12. CASE StartOrdered
  BY <1>0, <1>12 DEF StartOrdered, GoTo
<1>13. CASE UNCHANGED vars
  BY <1>0, <1>13 DEF vars
<1>14. QED
  BY <1>1, <1>2, <1>3, <1>4, <1>5, <1>6, <1>7, <1>8, <1>9, <1>10, <1>11, <1>12, <1>13
     DEF SupNext, Ensure

(* This much holds whatever the client does. *)
LEMMA TakeInvariant == SupSpec => []TakeInv
<1>1. SupInit => TakeInv
  BY KindsDisjoint DEF SupInit, TakeInv, SupTypeOK, Tasks, Callers, Failures
<1>2. QED
  BY <1>1, TakeInvStep, PTL DEF SupSpec

-----------------------------------------------------------------------------
(* The supervisor is bound to one process at a time, and says "stopped"    *)
(* only of a process that has ended.                                       *)
THEOREM StoppedIsAlwaysProven == ASSUME OneStatusCall PROVE SupSpec => []StoppedIsProven
<1>1. SupInv => StoppedIsProven
  BY DEF SupInv, Binding, StoppedIsProven
<1>2. QED
  BY <1>1, SupInvariant, PTL

(* An instance that was sent a stop order of unknown outcome is never      *)
(* declared running again.                                                 *)
THEOREM UncertainStopNeverReopened ==
  ASSUME OneStatusCall PROVE SupSpec => []UncertainStopStaysClosed
<1>1. SupInv => UncertainStopStaysClosed
  BY DEF SupInv, Binding, UncertainStopStaysClosed
<1>2. QED
  BY <1>1, SupInvariant, PTL

(* No operation is sent to an instance after the order to stop it, however *)
(* long the check of its identity has taken.                               *)
THEOREM NothingSentBehindStop == ASSUME OneStatusCall PROVE SupSpec => NoWorkBehindStop
<1>1. SupInv /\ [SupNext]_vars =>
        [\A o \in Operations :
           step[o] # "posting" /\ step'[o] = "posting" => seen[o] \notin stops]_vars
  <2> SUFFICES ASSUME SupInv, [SupNext]_vars, NEW o \in Operations,
                      step[o] # "posting", step'[o] = "posting"
               PROVE  seen[o] \notin stops
    OBVIOUS
  <2>1. OperationGoesOn(o) /\ Confirmed(o)
    <3> USE KindsDisjoint DEF world, state, binding, orders, Tasks, Callers, SupTypeOK, SupInv
    <3>1. CASE \E p \in Operations : OperationBegins(p) \/ OperationGoesOn(p) \/ OperationReturns(p)
      BY <3>1 DEF OperationBegins, OperationGoesOn, OperationReturns, GoTo
    <3>2. ~ (ApiStep \/ ApiTakesStop \/ UNCHANGED vars)
      BY DEF ApiStep, ApiTakesStop, vars
    <3>3. ~ \E t \in Tasks : Answered(t)
      BY DEF Answered
    <3>4. ~ \E c \in Callers : Retry(c)
      BY DEF Retry, GoTo
    <3>5. ~ (Ensure \/ StartOrdered)
      BY DEF Ensure, EnsureDecides, ReadinessEnds, ReadinessProbes, ReadinessDecides, EnsureFails,
             EnsureBinds, StartOrdered, GoTo
    <3>6. ~ \E t \in StatusCalls : StatusBegins(t) \/ StatusGoesOn(t) \/ StatusSettles(t)
      BY DEF StatusBegins, StatusGoesOn, StatusSettles, GoTo
    <3>7. ~ (StopOrdered \/ Stop)
      BY DEF StopOrdered, Stop, StopGoesOn, StopAnswered, StopWaits, GoTo
    <3>8. QED
      BY <3>1, <3>2, <3>3, <3>4, <3>5, <3>6, <3>7 DEF SupNext
  <2>2. Up /\ control = "running" /\ instance # None /\ instance \notin stops
    BY <2>1 DEF OperationGoesOn, IdentityRead, Confirmed, SupInv, TaskPlaces, Binding, Callers
  <2>3. QED
    BY <2>1, <2>2 DEF Confirmed
<1>2. QED
  BY <1>1, SupInvariant, PTL DEF SupSpec, NoWorkBehindStop

(* The supervisor never takes over an API it has not started, and starts   *)
(* another only behind the proven end of the one before.                   *)
THEOREM ReplacementNeverTakenOver == SupSpec => NoTakeover
<1>1. TakeInv /\ [SupNext]_vars =>
        [/\ Up /\ instance' # instance =>
               \/ instance' = None /\ restarting
               \/ instance' \in mine' /\ instance' = child'
         /\ mine' # mine => ~explicitUrl /\ (Up => BoundProcessEnded)]_vars
  <2> SUFFICES ASSUME TakeInv, [SupNext]_vars
               PROVE  /\ Up /\ instance' # instance =>
                           \/ instance' = None /\ restarting
                           \/ instance' \in mine' /\ instance' = child'
                      /\ mine' # mine => ~explicitUrl /\ (Up => BoundProcessEnded)
    OBVIOUS
  <2> USE KindsDisjoint DEF world, state, binding, orders, SupTypeOK, Up, TakeInv
  <2>1. CASE EnsureDecides
    BY <2>1 DEF EnsureDecides, EnsureFails, EnsureBinds, GoTo
  <2>2. CASE ReadinessDecides
    BY <2>2 DEF ReadinessDecides, EnsureFails, EnsureBinds, GoTo
  <2>3. ASSUME NEW t \in StatusCalls, StatusSettles(t)
        PROVE  mine' = mine /\ (instance' # instance => instance' \in mine' /\ instance' = child')
    BY <2>3 DEF StatusSettles
  <2>4. CASE ReadinessEnds \/ ReadinessProbes \/ StartOrdered \/ StopOrdered \/ Stop
    BY <2>4 DEF ReadinessEnds, ReadinessProbes, StartOrdered, StopOrdered, Stop, StopGoesOn,
                StopAnswered, StopWaits
  <2>5. CASE \/ ApiStep \/ ApiTakesStop \/ UNCHANGED vars
             \/ \E t \in Tasks : Answered(t)
             \/ \E c \in Callers : Retry(c)
             \/ \E o \in Operations : OperationBegins(o) \/ OperationGoesOn(o) \/ OperationReturns(o)
             \/ \E t \in StatusCalls : StatusBegins(t) \/ StatusGoesOn(t)
    BY <2>5 DEF ApiStep, ApiTakesStop, vars, Answered, Retry, OperationBegins, OperationGoesOn,
                OperationReturns, StatusBegins, StatusGoesOn
  <2>6. QED
    BY <2>1, <2>2, <2>3, <2>4, <2>5 DEF SupNext, Ensure
<1>2. QED
  BY <1>1, TakeInvariant, PTL DEF SupSpec, NoTakeover

=============================================================================
