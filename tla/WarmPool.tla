------------------------------ MODULE WarmPool ------------------------------
(***************************************************************************)
(* The pool of prewarmed worker processes (src/src/worker-prewarm.ts).     *)
(*                                                                         *)
(* A spare is a worker process that has done all its preparation and waits *)
(* for one job.  The pool starts spares, learns from their first line of   *)
(* output that they are ready, hands each to at most one call, and throws  *)
(* away those that fail, that were warmed for another SSE_ environment, or *)
(* that nobody took before the API shut down.                              *)
(*                                                                         *)
(* The module's state is one record, and its functions are operators from  *)
(* records to records, so that WorkerRuntime can use them inside the turns *)
(* of the event loop that belong to worker.ts.                             *)
(*                                                                         *)
(* The operators named Buggy... are this code with one plausible mistake   *)
(* each; no specification uses them, the properties are tried on them.     *)
(***************************************************************************)
EXTENDS Integers, FiniteSets

CONSTANTS
  PoolSize,    \* PREWARM_POOL_SIZE
  MaxSpares,   \* bound: how many spares are ever started
  Envs         \* the SSE_ environments the process can be in

ASSUME PoolSizeBounded == PoolSize \in 1 .. 4
ASSUME MaxSparesNat == MaxSpares \in Nat
ASSUME EnvsNonEmpty == Envs # {}

Spares == 1 .. MaxSpares

VARIABLES
  pool,   \* the module's variables, see Pools
  env,    \* environmentFingerprint(): the SSE_ variables of the process
  alive   \* the spare processes that run

pvars == <<pool, env, alive>>

-----------------------------------------------------------------------------
(* "starting": startupPending is set.  A spare is listened to until        *)
(* release() takes the pool's handlers off and stops its startup timer.    *)
(* Spares are numbered as they are born, which is the order in which the   *)
(* array of the code holds them: it is only ever added to at its end.      *)
Stages == {"unborn", "starting", "ready", "taken", "discarded"}

Pools ==
  [enabled : BOOLEAN, shuttingDown : BOOLEAN, blocked : BOOLEAN,
   failure : BOOLEAN, spares : SUBSET Spares, starting : 0 .. MaxSpares, born : 0 .. MaxSpares,
   stage : [Spares -> Stages], listening : [Spares -> BOOLEAN],
   fingerprint : [Spares -> Envs]]

InitialPool(e) ==
  [enabled |-> FALSE, shuttingDown |-> FALSE, blocked |-> FALSE,
   failure |-> FALSE, spares |-> {}, starting |-> 0, born |-> 0,
   stage |-> [s \in Spares |-> "unborn"],
   listening |-> [s \in Spares |-> FALSE],
   fingerprint |-> [s \in Spares |-> e]]

(* discard(), applied to a set of spares at once. *)
Discard(p, gone) ==
  LET fresh == {s \in gone : p.stage[s] # "discarded"}
  IN  IF fresh = {} THEN p
      ELSE [p EXCEPT
             !.stage = [s \in Spares |-> IF s \in fresh THEN "discarded" ELSE @[s]],
             !.listening = [s \in Spares |-> @[s] /\ s \notin fresh],
             !.starting = @ - Cardinality({s \in fresh : p.stage[s] = "starting"}),
             !.spares = @ \ fresh,
             !.failure = TRUE]

(* Every failure of a spare also stops the refilling for a while. *)
Block(p) == [p EXCEPT !.blocked = TRUE]

(* startWarmSpare, k times. *)
StartSpares(p, k, e) ==
  LET new == p.born + 1 .. p.born + k
  IN  [p EXCEPT
        !.born = @ + k,
        !.starting = @ + k,
        !.spares = @ \cup new,
        !.stage = [s \in Spares |-> IF s \in new THEN "starting" ELSE @[s]],
        !.listening = [s \in Spares |-> @[s] \/ s \in new],
        !.fingerprint = [s \in Spares |-> IF s \in new THEN e ELSE @[s]]]

(* ensureWarmSpare: the pools it may leave behind.  It fills the pool, or  *)
(* stops at the first process that cannot be created.                      *)
Ensure(p, e) ==
  LET missing == PoolSize - Cardinality(p.spares)
      filled(k) == StartSpares(p, k, e)
      given == {k \in 0 .. missing : p.born + k <= MaxSpares}
  IN  IF ~p.enabled \/ p.shuttingDown \/ p.blocked \/ missing <= 0 THEN {p}
      ELSE {IF k = missing THEN filled(k)
            ELSE [Block(filled(k)) EXCEPT !.failure = TRUE] : k \in given}

(* takeWarmSpare: the first ready spare whose fingerprint still fits; the  *)
(* ready ones before it that do not fit are thrown away.                   *)
Ready(p) == {s \in p.spares : p.stage[s] = "ready"}

First(set) == {s \in set : \A t \in set : s <= t}

(* The environment the spare was warmed under is not compared. *)
BuggyTaken(p, e) == First(Ready(p))

Taken(p, e) == First({s \in Ready(p) : p.fingerprint[s] = e})

(* The pool keeps its handlers on the spare it hands out. *)
BuggyTakeListening(p, e) ==
  [p EXCEPT
    !.stage = [s \in Spares |-> IF s \in Taken(p, e) THEN "taken" ELSE @[s]],
    !.spares = @ \ Taken(p, e)]

(* The spare is handed out and stays in the pool. *)
BuggyTakeKeeping(p, e) ==
  [p EXCEPT
    !.listening = [s \in Spares |-> @[s] /\ s \notin Taken(p, e)]]

AfterTake(p, e) ==
  LET stale == {s \in Ready(p) : p.fingerprint[s] # e /\ \A t \in Taken(p, e) : s < t}
  IN  [Discard(p, stale) EXCEPT
        !.stage = [s \in Spares |-> IF s \in Taken(p, e) THEN "taken" ELSE @[s]],
        !.listening = [s \in Spares |-> @[s] /\ s \notin Taken(p, e)],
        !.spares = @ \ Taken(p, e)]

Born(p, q) == {s \in Spares : p.stage[s] = "unborn" /\ q.stage[s] # "unborn"}

-----------------------------------------------------------------------------
(* The events of the pool.  *)

PoolInit ==
  /\ env \in Envs
  /\ pool = InitialPool(env)
  /\ alive = {}

(* The turn changes the pool to q; new processes run. *)
Become(q) ==
  /\ pool' = q
  /\ alive' = alive \cup Born(pool, q)

(* enableWorkerPrewarm, once the API has bound its port. *)
Enable ==
  /\ \E q \in Ensure([pool EXCEPT !.enabled = TRUE, !.shuttingDown = FALSE], env) :
       Become(q)
  /\ UNCHANGED env

(* ensureWarmSpare, called by the bridge around every call. *)
Refill ==
  /\ \E q \in Ensure(pool, env) : Become(q)
  /\ UNCHANGED env

(* takeWarmSpare on behalf of a call. *)
Take ==
  /\ Become(AfterTake(pool, env))
  /\ UNCHANGED env

(* shutdownWarmSpare *)
AfterShutdown(p) ==
  Discard([p EXCEPT !.shuttingDown = TRUE, !.enabled = FALSE], p.spares)

Shutdown ==
  /\ Become(AfterShutdown(pool))
  /\ UNCHANGED env

(* onStdout: the first line announces readiness, or is something else, or  *)
(* grows beyond its limit.                                                 *)
Handshake(s) ==
  /\ pool.listening[s] /\ pool.stage[s] = "starting" /\ s \in alive
  /\ \/ Become([pool EXCEPT !.stage[s] = "ready", !.starting = @ - 1,
                            !.failure = FALSE])
     \/ Become(Discard(Block(pool), {s}))
  /\ UNCHANGED env

(* onExit and onError: the pool hears that a spare has ended. *)
SpareEnded(s) ==
  /\ pool.listening[s] /\ s \notin alive
  /\ Become(Discard(Block(pool), {s}))
  /\ UNCHANGED env

(* Only a process that is seen to have ended is given up. *)
BuggyStartupTimer(s) ==
  /\ pool.listening[s] /\ pool.stage[s] = "starting" /\ s \notin alive
  /\ Become(Discard(Block(pool), {s}))
  /\ UNCHANGED env

(* The startup timer, which the first line and release() stop. *)
StartupTimer(s) ==
  /\ pool.listening[s] /\ pool.stage[s] = "starting"
  /\ Become(Discard(Block(pool), {s}))
  /\ UNCHANGED env

(* PREWARM_RETRY_DELAY_MS has passed. *)
RetryDelayOver ==
  /\ pool.blocked
  /\ pool' = [pool EXCEPT !.blocked = FALSE]
  /\ UNCHANGED <<env, alive>>

(* A process ends, by itself or killed. *)
ProcessEnds(s) ==
  /\ s \in alive
  /\ alive' = alive \ {s}
  /\ UNCHANGED <<pool, env>>

ChangeEnvironment(e) ==
  /\ env # e
  /\ env' = e
  /\ UNCHANGED <<pool, alive>>

PoolNext ==
  \/ Enable \/ Refill \/ Take \/ Shutdown \/ RetryDelayOver
  \/ \E s \in Spares : \/ Handshake(s) \/ SpareEnded(s)
                       \/ StartupTimer(s) \/ ProcessEnds(s)
  \/ \E e \in Envs : ChangeEnvironment(e)

PoolSpec == PoolInit /\ [][PoolNext]_pvars

PoolFairness == \A s \in Spares : WF_pvars(StartupTimer(s)) /\ WF_pvars(SpareEnded(s))

FairPoolSpec == PoolSpec /\ PoolFairness

-----------------------------------------------------------------------------
(* Properties. *)

PoolTypeOK ==
  /\ pool \in Pools
  /\ env \in Envs
  /\ alive \in SUBSET Spares

(* The pool holds exactly the spares that start or wait, never more than   *)
(* configured and none after the shutdown (the comment of                  *)
(* shutdownWarmSpare); the counter of starting ones agrees with it, and    *)
(* the pool listens to these and no others: a counter decremented twice,   *)
(* a handler left on a spare or a late refill would show up here.          *)
Agrees(p) ==
  /\ p.spares = {s \in Spares : p.stage[s] \in {"starting", "ready"}}
  /\ Cardinality(p.spares) <= IF p.shuttingDown THEN 0 ELSE PoolSize
  /\ p.starting = Cardinality({s \in Spares : p.stage[s] = "starting"})
  /\ \A s \in Spares : p.listening[s] <=> s \in p.spares

PoolAgrees == PoolTypeOK /\ Agrees(pool)

(* A spare that was handed out is out of the pool's reach: no timer, exit  *)
(* or shutdown throws it away, and no second call gets it.  Only one that  *)
(* announced readiness under the present environment is handed out.        *)
TakenForGood ==
  [][\A s \in Spares :
       /\ pool.stage[s] \in {"taken", "discarded"} => pool'.stage[s] = pool.stage[s]
       /\ pool.stage[s] # "taken" /\ pool'.stage[s] = "taken" =>
            pool.stage[s] = "ready" /\ pool.fingerprint[s] = env]_pvars

(* No spare stays half started: the startup timer ends the wait. *)
StartsEnd == \A s \in Spares : pool.stage[s] = "starting" ~> pool.stage[s] # "starting"

=============================================================================
