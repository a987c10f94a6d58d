---------------------------- MODULE WorkerParts ----------------------------
(***************************************************************************)
(* The two parts of the worker runtime each by itself, under the fairness  *)
(* of its own timers: the queue of calls with cold starts only, and the    *)
(* pool with a taker that may come at any time.  WorkerRuntime puts them   *)
(* together.                                                                *)
(***************************************************************************)
EXTENDS WorkerQueue, WarmPool

VARIABLE part

(* The queue alone keeps the environment at one value. *)
PartsInit ==
  /\ Init /\ PoolInit /\ part \in {"queue", "pool"}
  /\ part = "queue" => env = CHOOSE e \in Envs : TRUE

PartsNext ==
  /\ UNCHANGED part
  /\ \/ part = "queue" /\ Next /\ UNCHANGED pvars
     \/ part = "pool" /\ PoolNext /\ UNCHANGED vars

FairPartsSpec == PartsInit /\ [][PartsNext]_<<vars, pvars, part>> /\ Fairness /\ PoolFairness

=============================================================================
