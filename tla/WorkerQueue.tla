---------------------------- MODULE WorkerQueue ----------------------------
(***************************************************************************)
(* The bridge from Node to the Windows worker (src/src/worker.ts).         *)
(*                                                                         *)
(* Every operation that touches the tax application runs in a worker       *)
(* process of its own.  callWorker puts the call into one global queue;    *)
(* at most one queued call is handed to a process at a time; timers, the   *)
(* caller's AbortSignal, the output limits and the process's own events    *)
(* race to settle the call's promise.                                      *)
(*                                                                         *)
(* One action is one turn of the event loop: an event handler with every   *)
(* synchronous call it makes.  The promise of callWorkerUnsynchronised is  *)
(* settled in one turn and runQueuedWorkerCall resumes in a microtask      *)
(* (Finish), which other turns may precede here.                           *)
(*                                                                         *)
(* The operators named Buggy... are this code with one plausible mistake   *)
(* each; no specification uses them, the properties are tried on them.     *)
(***************************************************************************)
EXTENDS Integers, Sequences, FiniteSets

CONSTANTS
  Calls,        \* the invocations of callWorker, each made at most once
  MaxDepth,     \* MAX_WORKER_QUEUE_DEPTH
  KillMayFail   \* TRUE if child.kill() may fail on a process that still lives

ASSUME CallsFinite == IsFiniteSet(Calls)
ASSUME MaxDepthPositive == MaxDepth \in Nat \ {0}
ASSUME KillMayFailBoolean == KillMayFail \in BOOLEAN

VARIABLES
  queue,     \* workerQueue: the calls that wait
  running,   \* workerRunning
  failure,   \* workerRuntimeFailure # null: "worker-isolation-lost" is latched
  phase,     \* where each call stands, see Phases
  answer,    \* what the call's promise was settled with, "none" before
  aborted,   \* the caller's AbortSignal has fired
  cause,     \* timeoutError: why the process is being terminated
  watch,     \* the timer that will end the wait for the process
  child,     \* the process tree of the call
  argsFile   \* the temporary argument file exists

vars == <<queue, running, failure, phase, answer, aborted, cause,
          watch, child, argsFile>>

-----------------------------------------------------------------------------
(* "settled": the inner promise is settled, the queue has not noticed yet. *)
Phases == {"new", "queued", "active", "settled", "done"}

(* The errors that end a call before a process has its job: "bad-args"     *)
(* stands for every one raised before the argument file exists, "spawn"    *)
(* for every later one.                                                    *)
StartErrors == {"bad-args", "spawn"}

(* The reasons beginTermination records. *)
Causes == {"timeout", "aborted", "output-too-large"}

(* What a process that ended by itself may have written; "parse" stands    *)
(* for every unusable output.                                              *)
Endings == {"result", "parse"}

Answers == StartErrors \cup Causes \cup Endings
             \cup {"busy", "worker-isolation-lost", "worker-transport-cleanup"}

(* The call timer, then the grace timer of beginTermination, then the hard *)
(* timer of killTree.  killTree arms its 5 s timer before the killer can   *)
(* report its end, so the 2 s timer of that handler is never armed.        *)
Watches == {"off", "call", "grace", "hard"}

(* "orphaned": the direct child has exited, a descendant holds its pipes,  *)
(* and Node does not emit "close".  "unborn": spawn returned, but creating *)
(* the process failed and Node will emit "error".                          *)
Children == {"none", "unborn", "alive", "orphaned", "gone"}

(* The call's process tree can still act on the application. *)
Live(c) == child[c] \in {"alive", "orphaned"}

(* The call is the one that runQueuedWorkerCall works on. *)
Current(c) == phase[c] \in {"active", "settled"}

TypeOK ==
  /\ queue \in Seq(Calls)
  /\ running \in BOOLEAN
  /\ failure \in BOOLEAN
  /\ phase \in [Calls -> Phases]
  /\ answer \in [Calls -> Answers \cup {"none"}]
  /\ aborted \in [Calls -> BOOLEAN]
  /\ cause \in [Calls -> Causes \cup {"none"}]
  /\ watch \in [Calls -> Watches]
  /\ child \in [Calls -> Children]
  /\ argsFile \in [Calls -> BOOLEAN]

Init ==
  /\ queue = <<>>
  /\ running = FALSE
  /\ failure = FALSE
  /\ phase = [c \in Calls |-> "new"]
  /\ answer = [c \in Calls |-> "none"]
  /\ aborted = [c \in Calls |-> FALSE]
  /\ cause = [c \in Calls |-> "none"]
  /\ watch = [c \in Calls |-> "off"]
  /\ child = [c \in Calls |-> "none"]
  /\ argsFile = [c \in Calls |-> FALSE]

-----------------------------------------------------------------------------
(* Starting a call. *)

(* callWorkerUnsynchronised up to its first return to the event loop.  ph  *)
(* is phase with the updates the surrounding turn has already made.  The   *)
(* check of an already aborted signal cannot succeed here: an abort takes  *)
(* a waiting call out of the queue in the same turn.  The process is a new *)
(* one or a spare of the pool, which WorkerRuntime tells apart.            *)
Begin(c, ph) ==
  \/ \* deadline, marker, argument file, handover or spawn failed: the file,
     \* if there was one, is removed unless removing it fails as well
     \E e \in StartErrors, left \in BOOLEAN :
       /\ left => e # "bad-args"
       /\ phase' = [ph EXCEPT ![c] = "settled"]
       /\ answer' = [answer EXCEPT ![c] = e]
       /\ argsFile' = [argsFile EXCEPT ![c] = left]
       /\ UNCHANGED <<watch, child>>
  \/ \E p \in Children \ {"none"} :   \* a spare may have ended unnoticed
       /\ phase' = [ph EXCEPT ![c] = "active"]
       /\ child' = [child EXCEPT ![c] = p]
       /\ argsFile' = [argsFile EXCEPT ![c] = TRUE]
       /\ watch' = [watch EXCEPT ![c] = "call"]
       /\ UNCHANGED <<answer>>

(* callWorker: refuse, or append and start if nothing runs. *)
Refuse(c, kind) ==
  /\ phase' = [phase EXCEPT ![c] = "done"]
  /\ answer' = [answer EXCEPT ![c] = kind]
  /\ UNCHANGED <<queue, running, failure, aborted, cause, watch,
                 child, argsFile>>

Depth == Len(queue) + (IF running THEN 1 ELSE 0)

CallWorker(c) ==
  /\ phase[c] = "new"
  /\ \/ /\ failure
        /\ Refuse(c, "worker-isolation-lost")
     \/ /\ ~failure /\ aborted[c]
        /\ Refuse(c, "aborted")
     \/ /\ ~failure /\ ~aborted[c] /\ Depth >= MaxDepth
        /\ Refuse(c, "busy")
     \/ /\ ~failure /\ ~aborted[c] /\ Depth < MaxDepth
        /\ IF running
           THEN /\ queue' = Append(queue, c)
                /\ phase' = [phase EXCEPT ![c] = "queued"]
                /\ UNCHANGED <<running, answer, watch, child, argsFile>>
           ELSE LET waiting == Append(queue, c)
                IN  /\ queue' = Tail(waiting)
                    /\ running' = TRUE
                    /\ Begin(Head(waiting), [phase EXCEPT ![c] = "queued"])
        /\ UNCHANGED <<failure, aborted, cause>>

-----------------------------------------------------------------------------
(* Ending a call. *)

(* The turn that settles the inner promise: cleanup() stops the timers and *)
(* removes the argument file; an answer other than the process's own says  *)
(* so when the file stays.                                                 *)
Settle(c, kind) ==
  \E left \in BOOLEAN :
    /\ left => argsFile[c]
    /\ phase' = [phase EXCEPT ![c] = "settled"]
    /\ answer' = [answer EXCEPT ![c] =
                    IF left /\ kind \in Endings
                      THEN "worker-transport-cleanup" ELSE kind]
    /\ argsFile' = [argsFile EXCEPT ![c] = left]
    /\ watch' = [watch EXCEPT ![c] = "off"]

(* beginTermination: the first reason wins.  A kill that fails on a living *)
(* process makes Node emit "error" inside the call, and that handler takes *)
(* the process for one that could not be started.                          *)
BeginTermination(c, why) ==
  /\ phase[c] = "active" /\ cause[c] = "none"
  /\ cause' = [cause EXCEPT ![c] = why]
  /\ \/ /\ watch' = [watch EXCEPT ![c] = "grace"]
        /\ UNCHANGED <<phase, answer, argsFile>>
     \/ /\ KillMayFail /\ child[c] = "alive"
        /\ Settle(c, "spawn")
  /\ UNCHANGED <<queue, running, failure, child>>

(* The caller's signal fires: onAbort of an active call, abortWhileQueued  *)
(* of a waiting one, which leaves the queue for good.                      *)
Splice(s, i) == [j \in 1 .. Len(s) - 1 |-> IF j < i THEN s[j] ELSE s[j + 1]]

(* A waiting call is rejected and stays in the queue. *)
BuggyAbort(c) ==
  /\ ~aborted[c] /\ phase[c] = "queued"
  /\ aborted' = [aborted EXCEPT ![c] = TRUE]
  /\ phase' = [phase EXCEPT ![c] = "done"]
  /\ answer' = [answer EXCEPT ![c] = "aborted"]
  /\ UNCHANGED <<queue, running, failure, cause, watch, child, argsFile>>

Abort(c) ==
  /\ ~aborted[c]
  /\ aborted' = [aborted EXCEPT ![c] = TRUE]
  /\ \/ /\ phase[c] = "queued"
        /\ \E i \in 1 .. Len(queue) :
             /\ queue[i] = c
             /\ queue' = Splice(queue, i)
        /\ phase' = [phase EXCEPT ![c] = "done"]
        /\ answer' = [answer EXCEPT ![c] = "aborted"]
        /\ UNCHANGED <<running, failure, cause, watch, child, argsFile>>
     \/ BeginTermination(c, "aborted")
     \/ /\ phase[c] # "queued"
        /\ phase[c] = "active" => cause[c] # "none"
        /\ UNCHANGED <<queue, running, failure, phase, answer, cause,
                       watch, child, argsFile>>

CallTimer(c) ==
  /\ watch[c] = "call"
  /\ BeginTermination(c, "timeout")
  /\ UNCHANGED aborted

(* collect: one of the two streams exceeds its limit, perhaps with data    *)
(* that a process left behind.                                             *)
TooMuchOutput(c) ==
  /\ child[c] \notin {"none", "unborn"}
  /\ BeginTermination(c, "output-too-large")
  /\ UNCHANGED aborted

(* The last timer is armed only by the killer's end, which never comes. *)
BuggyGraceTimer(c) ==
  /\ watch[c] = "grace"
  /\ watch' = [watch EXCEPT ![c] = "off"]
  /\ UNCHANGED <<queue, running, failure, phase, answer, aborted,
                 cause, child, argsFile>>

(* killTree: taskkill is started and the hard timer armed. *)
GraceTimer(c) ==
  /\ watch[c] = "grace"
  /\ watch' = [watch EXCEPT ![c] = "hard"]
  /\ UNCHANGED <<queue, running, failure, phase, answer, aborted,
                 cause, child, argsFile>>

(* The call is given up without latching the failure. *)
BuggyHardTimer(c) ==
  /\ watch[c] = "hard" /\ phase[c] = "active" /\ cause[c] # "none"
  /\ Settle(c, cause[c])
  /\ UNCHANGED <<queue, running, failure, aborted, cause, child>>

(* rejectTermination: the end of the process tree was never proved. *)
HardTimer(c) ==
  /\ watch[c] = "hard" /\ phase[c] = "active" /\ cause[c] # "none"
  /\ failure' = TRUE
  /\ Settle(c, cause[c])
  /\ UNCHANGED <<queue, running, aborted, cause, child>>

(* Node's "error" for a process that was never created. *)
ChildError(c) ==
  /\ phase[c] = "active" /\ child[c] = "unborn"
  /\ Settle(c, "spawn")
  /\ UNCHANGED <<queue, running, failure, aborted, cause, child>>

(* Node's "exit" in the place of "close": a descendant may still work. *)
BuggyExitForClose(c) ==
  /\ phase[c] = "active" /\ child[c] \in {"orphaned", "gone"}
  /\ \/ cause[c] # "none" /\ Settle(c, cause[c])
     \/ cause[c] = "none" /\ \E e \in Endings : Settle(c, e)
  /\ UNCHANGED <<queue, running, failure, aborted, cause, child>>

(* What the process delivered is answered although its end was forced. *)
BuggyChildClose(c) ==
  /\ phase[c] = "active" /\ child[c] = "gone"
  /\ \E e \in Endings : Settle(c, e)
  /\ UNCHANGED <<queue, running, failure, aborted, cause, child>>

(* Node's "close": every process that holds the pipes has ended. *)
ChildClose(c) ==
  /\ phase[c] = "active" /\ child[c] = "gone"
  /\ \/ cause[c] # "none" /\ Settle(c, cause[c])
     \/ cause[c] = "none" /\ \E e \in Endings : Settle(c, e)
  /\ UNCHANGED <<queue, running, failure, aborted, cause, child>>

(* The next call starts without a look at the latched failure. *)
BuggyFinishUnlatched(c) ==
  /\ phase[c] = "settled"
  /\ queue # <<>>
  /\ queue' = Tail(queue)
  /\ Begin(Head(queue), [phase EXCEPT ![c] = "done"])
  /\ UNCHANGED <<running, failure, aborted, cause>>

(* runQueuedWorkerCall resumes: the caller gets the answer and the next    *)
(* call starts, or, once the failure is latched, every waiting call is     *)
(* refused in the same turn.                                               *)
Finish(c) ==
  /\ phase[c] = "settled"
  /\ LET done == [phase EXCEPT ![c] = "done"]
         waits(d) == \E i \in 1 .. Len(queue) : queue[i] = d
     IN  \/ /\ queue = <<>>
            /\ running' = FALSE
            /\ phase' = done
            /\ UNCHANGED <<queue, answer, watch, child, argsFile>>
         \/ /\ queue # <<>> /\ failure
            /\ queue' = <<>>
            /\ running' = FALSE
            /\ phase' = [d \in Calls |-> IF waits(d) THEN "done" ELSE done[d]]
            /\ answer' = [d \in Calls |-> IF waits(d) THEN "worker-isolation-lost"
                                                      ELSE answer[d]]
            /\ UNCHANGED <<watch, child, argsFile>>
         \/ /\ queue # <<>> /\ ~failure
            /\ queue' = Tail(queue)
            /\ running' = TRUE
            /\ Begin(Head(queue), done)
  /\ UNCHANGED <<failure, aborted, cause>>

(* The operating system: the direct child exits, with or without leaving a *)
(* descendant behind that holds its pipes; the last descendant ends.       *)
ChildExit(c) ==
  /\ \/ child[c] = "alive" /\ \E p \in {"orphaned", "gone"} :
                                child' = [child EXCEPT ![c] = p]
     \/ child[c] = "orphaned" /\ child' = [child EXCEPT ![c] = "gone"]
  /\ UNCHANGED <<queue, running, failure, phase, answer, aborted,
                 cause, watch, argsFile>>

-----------------------------------------------------------------------------
Next ==
  \E c \in Calls :
    \/ CallWorker(c) \/ Abort(c) \/ Finish(c)
    \/ CallTimer(c) \/ TooMuchOutput(c) \/ GraceTimer(c) \/ HardTimer(c)
    \/ ChildError(c) \/ ChildClose(c) \/ ChildExit(c)

Spec == Init /\ [][Next]_vars

(* The event loop runs timers, microtasks and the events of processes that *)
(* have ended.  Nothing makes a caller abort or a process end.             *)
Fairness ==
  \A c \in Calls :
    /\ WF_vars(CallTimer(c)) /\ WF_vars(GraceTimer(c)) /\ WF_vars(HardTimer(c))
    /\ WF_vars(ChildError(c)) /\ WF_vars(ChildClose(c)) /\ WF_vars(Finish(c))

FairSpec == Spec /\ Fairness

-----------------------------------------------------------------------------
(* Properties. *)

(* At most one call's process tree can act on the application, even after  *)
(* a timeout whose process survived every attempt to kill it (the promise  *)
(* of the comment above workerRuntimeFailure).                             *)
OneLiveJob == \A c, d \in Calls : Live(c) /\ Live(d) => c = d

(* A caller that has its answer while the process of its call still lives  *)
(* was told of the termination, and the latch blocks every later call      *)
(* (rejectTermination).                                                    *)
NoSilentSurvivor ==
  \A c \in Calls : Live(c) /\ phase[c] \in {"settled", "done"} =>
                     failure /\ answer[c] \in Causes

(* A result of the worker is handed on only if its process tree has ended, *)
(* nothing tried to terminate it first and its argument file is gone.      *)
ResultIsFinal ==
  \A c \in Calls : answer[c] = "result" =>
    child[c] = "gone" /\ cause[c] = "none" /\ ~argsFile[c]

(* No call waits while the bridge is idle, and no call waits twice: the    *)
(* queue and the promises agree on who is waiting.                         *)
NoLostCall ==
  /\ queue # <<>> => running
  /\ \A c \in Calls : phase[c] = "queued" =>
       Cardinality({i \in 1 .. Len(queue) : queue[i] = c}) = 1
  /\ \A i \in 1 .. Len(queue) : phase[queue[i]] = "queued"

(* No process starts for a call whose signal fired first, nor for any call *)
(* once the isolation is lost.                                             *)
NoStartAfterAbortOrFailure ==
  [][\A c \in Calls : child[c] = "none" /\ child'[c] # "none" =>
                        ~aborted[c] /\ ~failure]_vars

(* The recorded reason of a termination is the first one, a settled answer *)
(* never changes, and once a termination was begun the call is answered    *)
(* with its reason, whatever the process still delivers; only Node's       *)
(* "error" for it, reported as "spawn", may come first                     *)
(* (beginTermination, settle, the handlers of 'close' and 'error').        *)
FirstReasonWins ==
  [][\A c \in Calls :
       /\ cause[c] # "none" => cause'[c] = cause[c]
       /\ answer[c] # "none" => answer'[c] = answer[c]
       /\ phase[c] = "active" /\ cause[c] # "none" =>
            answer'[c] \in {"none", cause[c], "spawn"}]_vars

(* The bridge implements its promise: a call counts as answered when its   *)
(* inner promise is settled.                                               *)
Holder == {c \in Calls : Live(c)}

Status == [c \in Calls |->
             IF phase[c] = "new" THEN "idle"
             ELSE IF phase[c] \in {"queued", "active"} THEN "waiting"
             ELSE "answered"]

Exclusive == INSTANCE ExclusiveWorker WITH
  holder <- Holder, status <- Status, broken <- failure

ImplementsExclusiveWorker == Exclusive!AbsSpec

(* Every accepted call is answered, whatever its process does. *)
EveryCallAnswered ==
  \A c \in Calls : phase[c] \in {"queued", "active", "settled"} ~> phase[c] = "done"

=============================================================================
