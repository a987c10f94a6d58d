-------------------------- MODULE ApiServerProofs --------------------------
(***************************************************************************)
(* What holds of the API server for any number of requests and stop orders.*)
(***************************************************************************)
EXTENDS ApiServer, TLAPS

(* What an operation's phase says about the rest of its state. *)
Stages ==
  /\ \A r \in Requests : phase[r] \in {"new", "connected", "reading", "executing"} =>
                           answer[r] = "none"
  /\ \A o \in Operations : o \in executed => phase[o] \in {"executing", "done"}
  /\ \A o \in Operations : phase[o] \in {"new", "connected", "reading"} => logged[o] = "none"
  /\ \A o \in Operations : phase[o] = "executing" => logged[o] = "none" /\ o \in executed
  /\ \A s \in Stops : phase[s] # "executing"

(* A request has a connection from its first moment on; an operation whose *)
(* connection went while its body was read has been told; and a server     *)
(* that has closed has no connection left.                                 *)
Connections ==
  /\ \A r \in Requests : phase[r] = "new" <=> conn[r] = "none"
  /\ \A o \in Operations : phase[o] = "reading" /\ conn[o] = "closed" => aborted[o]
  /\ completed => closing /\ \A r \in Requests : conn[r] # "open"

ApiInv ==
  /\ ApiTypeOK /\ Stages /\ Connections
  /\ OneOperation /\ StopFindsNothingRunning /\ RefusedNotExecuted
  /\ ExecutionsLogged /\ NoUnattendedExecution

(* Nothing has happened yet. *)
LEMMA InitInv == ApiInit => ApiInv
<1> SUFFICES ASSUME ApiInit PROVE ApiInv
  OBVIOUS
<1>1. ApiTypeOK
  BY DEF ApiInit, ApiTypeOK, Phases
<1>2. Stages /\ Connections
  BY KindsDisjoint DEF ApiInit, Stages, Connections, Requests
<1>3. OneOperation /\ StopFindsNothingRunning /\ RefusedNotExecuted
  BY KindsDisjoint DEF ApiInit, OneOperation, StopFindsNothingRunning, RefusedNotExecuted,
     Requests, Refusals
<1>4. ExecutionsLogged /\ NoUnattendedExecution
  BY KindsDisjoint DEF ApiInit, ExecutionsLogged, NoUnattendedExecution, Requests
<1>5. QED
  BY <1>1, <1>2, <1>3, <1>4 DEF ApiInv

(* An answer that ends a request which is no executing operation. *)
LEMMA ReplyInv ==
  ASSUME ApiInv, NEW r \in Requests, phase[r] \in {"connected", "reading"},
         NEW a \in Refusals \cup {"accepted"}, r \in Operations => a \in Refusals,
         Reply(r, a),
         UNCHANGED <<conn, aborted, executed, logged, inFlight, closing, completed>>,
         stopDue' \in BOOLEAN, stopping' \in BOOLEAN,
         stopping' => stopping \/ inFlight = None
  PROVE  ApiInv'
<1>1. /\ \A q \in Requests \ {r} : phase'[q] = phase[q] /\ answer'[q] = answer[q]
      /\ phase'[r] = "done" /\ answer'[r] \in {a, "none"}
  BY DEF Reply, ApiInv, ApiTypeOK
<1>2. ApiTypeOK'
  BY DEF Reply, ApiInv, ApiTypeOK, Phases, Answers
<1>3. Stages'
  BY <1>1 DEF ApiInv, Stages, Requests
<1>8. Connections'
  BY <1>1 DEF ApiInv, Connections, Requests
<1>4. OneOperation' /\ StopFindsNothingRunning' /\ NoUnattendedExecution'
  BY <1>1 DEF ApiInv, OneOperation, StopFindsNothingRunning, NoUnattendedExecution, Requests
<1>5. r \in Operations => r \notin executed /\ logged[r] = "none"
  BY DEF ApiInv, Stages
<1>6. RefusedNotExecuted' /\ ExecutionsLogged'
  <2>1. a # "result"
    BY DEF Refusals
  <2>2. QED
    BY <1>1, <1>5, <2>1 DEF ApiInv, RefusedNotExecuted, ExecutionsLogged, Requests
<1>7. QED
  BY <1>2, <1>3, <1>4, <1>6, <1>8 DEF ApiInv

(* Connections that close take nothing with them but the attention of      *)
(* their operations.                                                       *)
LEMMA DroppedInv ==
  ASSUME ApiInv, NEW S \in SUBSET Requests, \A r \in S : conn[r] = "open", Dropped(S),
         UNCHANGED <<phase, answer, executed, logged, inFlight, stopping, completed>>,
         stopDue' \in BOOLEAN, closing' \in BOOLEAN, closing => closing'
  PROVE  ApiInv'
<1>1. ApiTypeOK'
  BY DEF Dropped, ApiInv, ApiTypeOK
<1>2. /\ Stages' /\ OneOperation' /\ StopFindsNothingRunning' /\ RefusedNotExecuted'
      /\ ExecutionsLogged'
  BY DEF ApiInv, Stages, OneOperation, StopFindsNothingRunning, RefusedNotExecuted,
         ExecutionsLogged
<1>3. NoUnattendedExecution'
  BY DEF Dropped, ApiInv, NoUnattendedExecution, Requests
<1>4. Connections'
  BY DEF Dropped, ApiInv, ApiTypeOK, Connections, Requests
<1>5. QED
  BY <1>1, <1>2, <1>3, <1>4 DEF ApiInv

(* A shutdown that begins. *)
LEMMA RequestShutdownInv ==
  ASSUME ApiInv, RequestShutdown,
         UNCHANGED <<phase, answer, executed, logged, inFlight, stopping, completed>>,
         stopDue' \in BOOLEAN
  PROVE  ApiInv'
<1>1. CASE closing
  <2>1. UNCHANGED <<conn, aborted, closing>>
    BY <1>1 DEF RequestShutdown
  <2>2. QED
    BY <2>1 DEF ApiInv, ApiTypeOK, Stages, Connections, OneOperation, StopFindsNothingRunning,
                RefusedNotExecuted, ExecutionsLogged, NoUnattendedExecution
<1>2. CASE ~closing
  <2>1. /\ closing'
        /\ \E S \in SUBSET {r \in Requests : phase[r] = "done" /\ conn[r] = "open"} : Dropped(S)
    BY <1>2 DEF RequestShutdown
  <2>2. closing' \in BOOLEAN /\ closing => closing'
    BY <1>2 DEF RequestShutdown
  <2>3. PICK S \in SUBSET {r \in Requests : phase[r] = "done" /\ conn[r] = "open"} : Dropped(S)
    BY <2>1
  <2>4. S \in SUBSET Requests /\ \A r \in S : conn[r] = "open"
    OBVIOUS
  <2>5. QED
    BY <2>1, <2>2, <2>3, <2>4, DroppedInv
<1>3. QED
  BY <1>1, <1>2

(* Every step of the server, its clients and its executor preserves it.    *)
LEMMA StepInv == ApiInv /\ [ApiNext]_vars => ApiInv'
<1> SUFFICES ASSUME ApiInv, [ApiNext]_vars PROVE ApiInv'
  OBVIOUS
<1> USE DEF lifecycle
<1>1. ASSUME NEW r \in Requests, Connect(r) PROVE ApiInv'
  <2>1. /\ \A q \in Requests \ {r} : phase'[q] = phase[q] /\ conn'[q] = conn[q]
        /\ phase'[r] = "connected" /\ phase[r] = "new"
    BY <1>1 DEF Connect, ApiInv, ApiTypeOK
  <2>2. ApiTypeOK'
    BY <1>1 DEF Connect, ApiInv, ApiTypeOK, Phases
  <2>3. Stages'
    BY <1>1, <2>1 DEF Connect, ApiInv, Stages, Requests
  <2>4. OneOperation' /\ StopFindsNothingRunning' /\ RefusedNotExecuted'
    BY <1>1, <2>1 DEF Connect, ApiInv, OneOperation, StopFindsNothingRunning,
                      RefusedNotExecuted, Requests
  <2>5. ExecutionsLogged' /\ NoUnattendedExecution'
    BY <1>1, <2>1 DEF Connect, ApiInv, Stages, ExecutionsLogged, NoUnattendedExecution, Requests
  <2>6. Connections'
    <3>1. conn'[r] = "open" /\ UNCHANGED <<aborted, closing, completed>> /\ ~closing
      BY <1>1 DEF Connect, ApiInv, ApiTypeOK
    <3>2. QED
      BY <2>1, <3>1 DEF ApiInv, Connections, Requests
  <2>7. QED
    BY <2>2, <2>3, <2>4, <2>5, <2>6 DEF ApiInv
<1>2. ASSUME NEW r \in Requests, Head(r) PROVE ApiInv'
  <2>1. CASE Reply(r, "immediate")
    BY <1>2, <2>1, ReplyInv DEF Head, Refusals, ApiInv, ApiTypeOK
  <2>2. CASE phase' = [phase EXCEPT ![r] = "reading"] /\ UNCHANGED answer
    <3>1. /\ \A q \in Requests \ {r} : phase'[q] = phase[q]
          /\ phase'[r] = "reading" /\ phase[r] = "connected"
      BY <1>2, <2>2 DEF Head, ApiInv, ApiTypeOK
    <3>2. ApiTypeOK'
      BY <1>2, <2>2 DEF Head, ApiInv, ApiTypeOK, Phases
    <3>3. Stages'
      BY <1>2, <2>2, <3>1 DEF Head, ApiInv, Stages, Requests
    <3>4. OneOperation' /\ StopFindsNothingRunning' /\ RefusedNotExecuted'
      BY <1>2, <2>2, <3>1 DEF Head, ApiInv, OneOperation, StopFindsNothingRunning,
                              RefusedNotExecuted, Requests
    <3>5. ExecutionsLogged' /\ NoUnattendedExecution'
      BY <1>2, <2>2, <3>1 DEF Head, ApiInv, Stages, ExecutionsLogged,
                              NoUnattendedExecution, Requests
    <3>6. Connections'
      BY <1>2, <3>1 DEF Head, ApiInv, Connections, Requests
    <3>7. QED
      BY <3>2, <3>3, <3>4, <3>5, <3>6 DEF ApiInv
  <2>3. QED
    BY <1>2, <2>1, <2>2 DEF Head
<1>3. ASSUME NEW r \in Requests, BadBody(r) PROVE ApiInv'
  BY <1>3, ReplyInv DEF BadBody, Refusals, ApiInv, ApiTypeOK
<1>4. ASSUME NEW r \in Requests, ConnectionEnds(r) PROVE ApiInv'
  <2>1. {r} \in SUBSET Requests /\ \A q \in {r} : conn[q] = "open"
    BY <1>4 DEF ConnectionEnds
  <2>2. QED
    BY <1>4, <2>1, DroppedInv DEF ConnectionEnds, ApiInv, ApiTypeOK
<1>5. ASSUME NEW o \in Operations, OperationBody(o) PROVE ApiInv'
  <2>1. o \in Requests /\ phase[o] = "reading"
    BY <1>5 DEF OperationBody, Requests
  <2>2. CASE (Reply(o, "api-stopping") \/ Reply(o, "busy")) /\ UNCHANGED <<executed, inFlight>>
    BY <1>5, <2>1, <2>2, ReplyInv DEF OperationBody, Refusals, ApiInv, ApiTypeOK
  <2>3. CASE /\ ~stopping /\ inFlight = None /\ inFlight' = o
             /\ phase' = [phase EXCEPT ![o] = "executing"]
             /\ executed' = executed \cup {o}
             /\ UNCHANGED answer
    <3>1. /\ \A q \in Requests \ {o} : phase'[q] = phase[q]
          /\ phase'[o] = "executing"
      BY <2>1, <2>3 DEF ApiInv, ApiTypeOK
    <3>2. UNCHANGED <<conn, aborted, logged, stopping, stopDue, closing, completed>>
      BY <1>5 DEF OperationBody
    <3>3. ApiTypeOK'
      BY <2>3, <3>2 DEF ApiInv, ApiTypeOK, Phases
    <3>4. Stages' /\ Connections'
      BY <2>1, <2>3, <3>1, <3>2, KindsDisjoint DEF ApiInv, Stages, Connections, Requests
    <3>5. \A p \in Operations : phase[p] # "executing"
      BY <2>3, KindsDisjoint DEF ApiInv, OneOperation, Requests
    <3>6. OneOperation' /\ StopFindsNothingRunning'
      BY <2>3, <3>1, <3>2, <3>5 DEF ApiInv, OneOperation, StopFindsNothingRunning, Requests
    <3>7. RefusedNotExecuted' /\ ExecutionsLogged'
      BY <2>1, <2>3, <3>1, <3>2 DEF ApiInv, Stages, RefusedNotExecuted, ExecutionsLogged,
                              Requests, Refusals
    <3>8. NoUnattendedExecution'
      <4>1. conn[o] = "closed" \/ completed => aborted[o]
        BY <2>1 DEF ApiInv, ApiTypeOK, Connections
      <4>2. QED
        BY <3>1, <3>2, <4>1 DEF ApiInv, NoUnattendedExecution, Requests
    <3>9. QED
      BY <3>3, <3>4, <3>6, <3>7, <3>8 DEF ApiInv
  <2>4. QED
    BY <1>5, <2>2, <2>3 DEF OperationBody
<1>6. ASSUME NEW s \in Stops, StopBody(s) PROVE ApiInv'
  <2>1. s \in Requests /\ s \notin Operations /\ phase[s] = "reading"
    BY <1>6, KindsDisjoint DEF StopBody, Requests
  <2>2. PICK a \in {"api-stopping", "busy", "accepted"} : Reply(s, a)
    BY <1>6 DEF StopBody
  <2>3. UNCHANGED <<conn, aborted, executed, logged, inFlight, closing, completed>>
    BY <1>6 DEF StopBody
  <2>4. \/ UNCHANGED <<stopping, stopDue>>
        \/ inFlight = None /\ stopping' = TRUE /\ stopDue' = TRUE
    BY <1>6 DEF StopBody
  <2>5. /\ stopDue' \in BOOLEAN /\ stopping' \in BOOLEAN
        /\ stopping' => stopping \/ inFlight = None
    <3>1. stopDue \in BOOLEAN /\ stopping \in BOOLEAN
      BY DEF ApiInv, ApiTypeOK
    <3>2. CASE UNCHANGED <<stopping, stopDue>>
      BY <3>1, <3>2
    <3>3. CASE inFlight = None /\ stopping' = TRUE /\ stopDue' = TRUE
      BY <3>3
    <3>4. QED
      BY <2>4, <3>2, <3>3
  <2>6. a \in Refusals \cup {"accepted"}
    BY DEF Refusals
  <2>7. QED
    BY <2>1, <2>2, <2>3, <2>5, <2>6, ReplyInv
<1>7. ASSUME NEW o \in Operations, OperationEnds(o) PROVE ApiInv'
  <2>1. PICK a \in Outcomes :
          /\ Reply(o, a)
          /\ logged' = [logged EXCEPT ![o] =
                          IF a \in {"worker-failed", "invalid-operation-result"} THEN "error"
                          ELSE IF a = "result" /\ conn[o] = "open" THEN "delivered"
                          ELSE "undelivered"]
    BY <1>7 DEF OperationEnds
  <2>2. /\ o \in Requests /\ phase[o] = "executing" /\ inFlight' = None
        /\ UNCHANGED <<conn, aborted, executed, stopping, stopDue, closing, completed>>
    BY <1>7 DEF OperationEnds, Requests
  <2>3. /\ \A q \in Requests \ {o} : phase'[q] = phase[q] /\ answer'[q] = answer[q]
        /\ phase'[o] = "done" /\ answer'[o] = IF conn[o] = "open" THEN a ELSE "none"
    BY <2>1, <2>2 DEF Reply, ApiInv, ApiTypeOK
  <2>4. /\ \A p \in Operations \ {o} : logged'[p] = logged[p]
        /\ logged'[o] \in {"delivered", "undelivered", "error"}
        /\ logged'[o] = "delivered" <=> answer'[o] = "result"
    BY <2>1, <2>3 DEF ApiInv, ApiTypeOK, Outcomes
  <2>5. ApiTypeOK'
    BY <2>1, <2>2 DEF Reply, ApiInv, ApiTypeOK, Phases, Answers
  <2>6. Stages' /\ Connections'
    BY <2>2, <2>3, <2>4, KindsDisjoint DEF ApiInv, Stages, Connections, Requests
  <2>7. \A p \in Operations \ {o} : phase[p] # "executing"
    BY <2>2 DEF ApiInv, OneOperation
  <2>8. OneOperation' /\ StopFindsNothingRunning'
    BY <2>2, <2>3, <2>7, KindsDisjoint DEF ApiInv, OneOperation, StopFindsNothingRunning, Requests
  <2>9. RefusedNotExecuted'
    BY <2>2, <2>3 DEF ApiInv, RefusedNotExecuted, Requests, Refusals, Outcomes
  <2>10. ExecutionsLogged' /\ NoUnattendedExecution'
    BY <2>2, <2>3, <2>4 DEF ApiInv, ExecutionsLogged, NoUnattendedExecution, Requests
  <2>11. QED
    BY <2>5, <2>6, <2>8, <2>9, <2>10 DEF ApiInv
<1>8. CASE StopRuntime
  BY <1>8, RequestShutdownInv DEF StopRuntime
<1>9. CASE ProcessSignal
  BY <1>9, RequestShutdownInv DEF ProcessSignal, ApiInv, ApiTypeOK
<1>10. CASE ForceTimer
  <2>1. /\ {r \in Requests : conn[r] = "open"} \in SUBSET Requests
        /\ \A r \in {q \in Requests : conn[q] = "open"} : conn[r] = "open"
    OBVIOUS
  <2>2. QED
    BY <1>10, <2>1, DroppedInv DEF ForceTimer, ApiInv, ApiTypeOK
<1>11. CASE ServerClosed
  <2>1. NoUnattendedExecution'
    BY <1>11 DEF ServerClosed, ApiInv, ApiTypeOK, Connections, NoUnattendedExecution, Requests
  <2>2. QED
    BY <1>11, <2>1 DEF ServerClosed, ApiInv, ApiTypeOK, Stages, Connections, OneOperation,
                       StopFindsNothingRunning, RefusedNotExecuted, ExecutionsLogged
<1>12. CASE UNCHANGED vars
  BY <1>12 DEF vars, ApiInv, ApiTypeOK, Stages, Connections, OneOperation,
               StopFindsNothingRunning, RefusedNotExecuted, ExecutionsLogged,
               NoUnattendedExecution
<1>13. QED
  BY <1>1, <1>2, <1>3, <1>4, <1>5, <1>6, <1>7, <1>8, <1>9, <1>10, <1>11, <1>12 DEF ApiNext

(* The inductive invariant holds in every reachable state.                 *)
LEMMA InvHolds == ApiSpec => []ApiInv
<1>1. ApiInit => ApiInv
  BY InitInv
<1>2. ApiInv /\ [ApiNext]_vars => ApiInv'
  BY StepInv
<1>3. QED
  BY <1>1, <1>2, PTL DEF ApiSpec

-----------------------------------------------------------------------------
(* The state of the API stays one of those the code can be in. *)
THEOREM ApiTypeCorrect == ApiSpec => []ApiTypeOK
<1>1. ApiInv => ApiTypeOK
  BY DEF ApiInv
<1>2. QED
  BY <1>1, InvHolds, PTL

(* However many requests are being read at once, at most one operation is  *)
(* with the executor, and it is the one /healthz reports.                  *)
THEOREM OneOperationAtATime == ApiSpec => []OneOperation
<1>1. ApiInv => OneOperation
  BY DEF ApiInv
<1>2. QED
  BY <1>1, InvHolds, PTL

(* An accepted stop order never ends a running operation, and no operation *)
(* starts after it.                                                        *)
THEOREM StopIsQuiet == ApiSpec => []StopFindsNothingRunning
<1>1. ApiInv => StopFindsNothingRunning
  BY DEF ApiInv
<1>2. QED
  BY <1>1, InvHolds, PTL

(* A refused operation never reached the executor. *)
THEOREM RefusedNeverRuns == ApiSpec => []RefusedNotExecuted
<1>1. ApiInv => RefusedNotExecuted
  BY DEF ApiInv
<1>2. QED
  BY <1>1, InvHolds, PTL

(* An executed operation left its record in the log. *)
THEOREM ExecutionsAlwaysLogged == ApiSpec => []ExecutionsLogged
<1>1. ApiInv => ExecutionsLogged
  BY DEF ApiInv
<1>2. QED
  BY <1>1, InvHolds, PTL

(* An operation whose client or whose API is gone has been told so. *)
THEOREM NobodyRunsUnattended == ApiSpec => []NoUnattendedExecution
<1>1. ApiInv => NoUnattendedExecution
  BY DEF ApiInv
<1>2. QED
  BY <1>1, InvHolds, PTL

=============================================================================
