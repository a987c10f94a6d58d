--------------------------- MODULE WorkerRuntime ---------------------------
(***************************************************************************)
(* The queue of worker.ts and the pool of worker-prewarm.ts together, as   *)
(* the API process runs them.                                              *)
(*                                                                         *)
(* A call that starts may take a spare in the same turn, in which case the *)
(* call's process is the spare; the pool is refilled one turn after a      *)
(* process got its job (setImmediate) and in the turn in which the queue   *)
(* moves on.  Neither happens once the isolation of the workers is lost.   *)
(***************************************************************************)
EXTENDS WorkerQueue, WarmPool

VARIABLES
  job,        \* the spare each call was given, 0 for none
  refillDue   \* a setImmediate(refillWarmSpareLater) is pending

rvars == <<vars, pvars, job, refillDue>>

RInit ==
  /\ Init
  /\ PoolInit
  /\ job = [c \in Calls |-> 0]
  /\ refillDue = FALSE

(* The calls that callWorkerUnsynchronised starts in this turn. *)
Starting ==
  {c \in Calls : phase[c] \in {"new", "queued"} /\ phase'[c] \in {"active", "settled"}}

(* What the start of call c does to the pool.  Without a desktop marker,   *)
(* or with one that the operation may ignore, it takes a spare; an invalid *)
(* start deadline or marker ends the call before.  A new process is not    *)
(* one of the pool's.                                                      *)
Given(c, s) == job' = [job EXCEPT ![c] = s]

Handover(c, q) ==
  \/ /\ q = pool
     /\ Given(c, 0)
     /\ phase'[c] = "active" => child'[c] \in {"alive", "unborn"}
  \/ /\ q = AfterTake(pool, env)
     /\ Taken(pool, env) = {}
     /\ Given(c, 0)
     /\ phase'[c] = "active" => child'[c] \in {"alive", "unborn"}
  \/ \E s \in Taken(pool, env) :
       /\ q = AfterTake(pool, env)
       /\ Given(c, s)
       /\ phase'[c] = "active" =>
            child'[c] \in IF s \in alive THEN {"alive"} ELSE {"orphaned", "gone"}

(* A turn of the queue with its effect on the pool; refill says whether    *)
(* the turn also calls ensureWarmSpare.                                    *)
PoolTurn(refill) ==
  \E q \in {pool, AfterTake(pool, env)} :
    /\ IF Starting = {} THEN q = pool /\ UNCHANGED job
                        ELSE \A c \in Starting : Handover(c, q)
    /\ \E r \in IF refill THEN Ensure(q, env) ELSE {q} : Become(r)
    /\ refillDue' = (refillDue \/ \E c \in Starting : answer'[c] # "bad-args")
    /\ UNCHANGED env

RCallWorker(c) == CallWorker(c) /\ PoolTurn(FALSE)

RFinish(c) == Finish(c) /\ PoolTurn(~failure)

(* The refill does not look at the latched failure again. *)
BuggyRefillLater ==
  /\ refillDue
  /\ refillDue' = FALSE
  /\ \E r \in Ensure(pool, env) : Become(r)
  /\ UNCHANGED <<vars, env, job>>

(* refillWarmSpareLater *)
RefillLater ==
  /\ refillDue
  /\ refillDue' = FALSE
  /\ \E r \in IF failure THEN {pool} ELSE Ensure(pool, env) : Become(r)
  /\ UNCHANGED <<vars, env, job>>

(* The other turns of the queue do not touch the pool. *)
RCallEvent(c) ==
  /\ \/ Abort(c) \/ CallTimer(c) \/ TooMuchOutput(c) \/ GraceTimer(c)
     \/ HardTimer(c) \/ ChildError(c) \/ ChildClose(c)
  /\ UNCHANGED <<pvars, job, refillDue>>

(* The process of a call exits: a spare's process with it. *)
RChildExit(c) ==
  /\ ChildExit(c)
  /\ alive' = alive \ {job[c]}
  /\ UNCHANGED <<pool, env, job, refillDue>>

(* A spare's process exits that no call is waiting for. *)
RSpareExit(s) ==
  /\ \A c \in Calls : job[c] = s => child[c] # "alive"
  /\ ProcessEnds(s)
  /\ UNCHANGED <<vars, job, refillDue>>

(* The pool's own events.  It is enabled once, after the port is bound and *)
(* before the first call, and shut down with the API.                      *)
REnable ==
  /\ ~pool.enabled /\ ~pool.shuttingDown /\ \A c \in Calls : phase[c] = "new"
  /\ Enable
  /\ UNCHANGED <<vars, job, refillDue>>

RPoolEvent ==
  /\ \/ Shutdown \/ RetryDelayOver
     \/ \E s \in Spares : Handshake(s) \/ SpareEnded(s) \/ StartupTimer(s)
     \/ \E e \in Envs : ChangeEnvironment(e)
  /\ UNCHANGED <<vars, job, refillDue>>

RNext ==
  \/ \E c \in Calls : RCallWorker(c) \/ RFinish(c) \/ RCallEvent(c) \/ RChildExit(c)
  \/ \E s \in Spares : RSpareExit(s)
  \/ RefillLater \/ REnable \/ RPoolEvent

RSpec == RInit /\ [][RNext]_rvars

-----------------------------------------------------------------------------
(* Properties. *)

(* One job per process: no spare serves two calls, and a spare that serves *)
(* a call or was thrown away is not offered again.  And every process that *)
(* runs is waiting in the pool, was thrown away, or was given to exactly   *)
(* one call: no process is forgotten.                                      *)
EveryProcessAccounted ==
  /\ \A c, d \in Calls : job[c] # 0 =>
       /\ job[c] = job[d] => c = d
       /\ pool.stage[job[c]] = "taken"
       /\ job[c] \notin pool.spares
  /\ \A s \in alive :
       \/ s \in pool.spares
       \/ pool.stage[s] = "discarded"
       \/ \E c \in Calls : job[c] = s

(* Once the isolation of the workers is lost, no further worker process is *)
(* started, neither for a call nor for the pool, and after the shutdown    *)
(* none for the pool: a refill that was due before, or that a call which   *)
(* ends then would bring, looks at both in its own turn.                   *)
NoProcessAfterEnd ==
  [][/\ (failure \/ pool.shuttingDown) => pool'.born = pool.born
     /\ failure => \A c \in Calls : child[c] = "none" => child'[c] = "none"]_rvars

=============================================================================
