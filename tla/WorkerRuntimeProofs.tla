------------------------ MODULE WorkerRuntimeProofs ------------------------
(***************************************************************************)
(* What holds of the pool of prewarmed workers, for any pool size, any     *)
(* number of spares and any environments, and of the queue and the pool    *)
(* together, for any number of calls and spares: every theorem about the   *)
(* queue alone carries over, no process is forgotten or serves two calls,  *)
(* and none starts after the end.                                          *)
(***************************************************************************)
EXTENDS WorkerRuntime, WorkerQueueProofs

-----------------------------------------------------------------------------
(* The pool alone, and what its functions do to a pool: the composition    *)
(* uses the same facts for the turns of the event loop that the pool       *)
(* shares with the queue.                                                  *)

(* The inductive invariant: what the pool's record always agrees on,       *)
(* before its size is looked at, and the size.  The numbers that are not   *)
(* born yet are those above the counter; without this the next spare that  *)
(* is started could be one that was handed out before.                     *)

Waits(p) == {s \in Spares : p.stage[s] \in {"starting", "ready"}}

Starts(p) == {s \in Spares : p.stage[s] = "starting"}

Counted(p) ==
  /\ p \in Pools
  /\ p.spares = Waits(p)
  /\ p.starting = Cardinality(Starts(p))
  /\ \A s \in Spares : p.listening[s] <=> s \in p.spares
  /\ \A s \in Spares : p.stage[s] = "unborn" <=> s > p.born

Sized(p) == Cardinality(p.spares) <= IF p.shuttingDown THEN 0 ELSE PoolSize

Good(p) == Counted(p) /\ Sized(p)

(* No function of the pool but takeWarmSpare hands a spare out, and none   *)
(* gets one back or makes one new.                                         *)
Keeps(p, q) ==
  \A s \in Spares :
    /\ p.stage[s] \in {"taken", "discarded"} => q.stage[s] = p.stage[s]
    /\ q.stage[s] = "taken" => p.stage[s] = "taken"
    /\ q.stage[s] = "unborn" => p.stage[s] = "unborn"

-----------------------------------------------------------------------------
(* Counting. *)

(* A set of spares can be counted, and nothing counts more than them all.  *)
LEMMA SpareSets ==
  ASSUME NEW S \in SUBSET Spares
  PROVE  /\ IsFiniteSet(S)
         /\ Cardinality(S) \in 0 .. MaxSpares
<1>1. MaxSpares \in Nat
  BY MaxSparesNat
<1>2. IsFiniteSet(Spares) /\ Cardinality(Spares) = MaxSpares
  BY <1>1, FS_Interval DEF Spares
<1>3. IsFiniteSet(S) /\ Cardinality(S) <= Cardinality(Spares)
  BY <1>2, FS_Subset
<1>4. Cardinality(S) \in Nat
  BY <1>3, FS_CardinalityType
<1>5. QED
  BY <1>1, <1>2, <1>3, <1>4

(* At most one spare is the first of a set. *)
LEMMA OneFirst ==
  ASSUME NEW S \in SUBSET Spares, NEW s \in First(S), NEW t \in First(S)
  PROVE  s = t
BY DEF First, Spares

-----------------------------------------------------------------------------
(* What the functions of the pool do. *)

(* discard() of spares that are in the pool: they leave it, the others are *)
(* as before, and the counter of the starting ones follows.                *)
LEMMA DiscardEffect ==
  ASSUME NEW p, Counted(p), NEW gone \in SUBSET p.spares, NEW q, q = Discard(p, gone)
  PROVE  /\ Counted(q)
         /\ \A s \in Spares :
              q.stage[s] = IF s \in gone THEN "discarded" ELSE p.stage[s]
         /\ q.spares = p.spares \ gone
         /\ q.born = p.born /\ q.shuttingDown = p.shuttingDown
         /\ q.enabled = p.enabled /\ q.fingerprint = p.fingerprint
<1>1. /\ p \in Pools /\ gone \in SUBSET Spares
      /\ \A s \in gone : p.stage[s] \in {"starting", "ready"}
  BY DEF Counted, Waits
<1>2. {s \in gone : p.stage[s] # "discarded"} = gone
  BY <1>1
<1>3. CASE gone = {}
  <2>1. q = p
    BY <1>2, <1>3 DEF Discard
  <2>2. QED
    BY <1>3, <2>1
<1>4. CASE gone # {}
  <2>1. q = [p EXCEPT
              !.stage = [s \in Spares |-> IF s \in gone THEN "discarded" ELSE p.stage[s]],
              !.listening = [s \in Spares |-> p.listening[s] /\ s \notin gone],
              !.starting = p.starting - Cardinality({s \in gone : p.stage[s] = "starting"}),
              !.spares = p.spares \ gone,
              !.failure = TRUE]
    BY <1>1, <1>2, <1>4 DEF Discard, Pools
  <2>2. /\ q.stage = [s \in Spares |-> IF s \in gone THEN "discarded" ELSE p.stage[s]]
        /\ q.listening = [s \in Spares |-> p.listening[s] /\ s \notin gone]
        /\ q.starting = p.starting - Cardinality({s \in gone : p.stage[s] = "starting"})
        /\ q.spares = p.spares \ gone /\ q.failure = TRUE
        /\ q.born = p.born /\ q.shuttingDown = p.shuttingDown
        /\ q.enabled = p.enabled /\ q.blocked = p.blocked /\ q.fingerprint = p.fingerprint
    BY <1>1, <2>1 DEF Pools
  <2>3. Starts(q) = Starts(p) \ gone
    BY <2>2 DEF Starts
  <2>4. Starts(p) \cap gone = {s \in gone : p.stage[s] = "starting"}
    BY <1>1 DEF Starts
  <2>5. IsFiniteSet(Starts(p))
    BY SpareSets DEF Starts
  <2>6. Cardinality(Starts(q)) = Cardinality(Starts(p)) - Cardinality(Starts(p) \cap gone)
    BY <2>3, <2>5, FS_Difference
  <2>7. q.starting = Cardinality(Starts(q))
    BY <2>2, <2>4, <2>6 DEF Counted
  <2>8. Cardinality(Starts(q)) \in 0 .. MaxSpares
    BY SpareSets DEF Starts
  <2>9. q.stage \in [Spares -> Stages] /\ q.listening \in [Spares -> BOOLEAN]
    BY <1>1, <2>2 DEF Pools, Stages
  <2>10. q = [enabled |-> q.enabled, shuttingDown |-> q.shuttingDown, blocked |-> q.blocked,
              failure |-> q.failure, spares |-> q.spares, starting |-> q.starting,
              born |-> q.born, stage |-> q.stage, listening |-> q.listening,
              fingerprint |-> q.fingerprint]
    BY <1>1, <2>1 DEF Pools
  <2>11. q \in Pools
    BY <1>1, <2>2, <2>7, <2>8, <2>9, <2>10 DEF Pools
  <2>12. q.spares = Waits(q)
    BY <2>2 DEF Counted, Waits
  <2>13. \A s \in Spares : q.listening[s] <=> s \in q.spares
    BY <2>2 DEF Counted
  <2>14. \A s \in Spares : q.stage[s] = "unborn" <=> s > q.born
    BY <1>1, <2>2 DEF Counted
  <2>15. QED
    BY <2>2, <2>7, <2>11, <2>12, <2>13, <2>14 DEF Counted
<1>5. QED
  BY <1>3, <1>4

(* A pool that loses spares is not too large. *)
LEMMA DiscardGood ==
  ASSUME NEW p, Good(p), NEW gone \in SUBSET p.spares
  PROVE  Good(Discard(p, gone)) /\ Keeps(p, Discard(p, gone))
<1> DEFINE q == Discard(p, gone)
<1>1. /\ Counted(q) /\ q.spares = p.spares \ gone /\ q.shuttingDown = p.shuttingDown
      /\ \A s \in Spares : q.stage[s] = IF s \in gone THEN "discarded" ELSE p.stage[s]
  BY DiscardEffect DEF Good
<1>2. /\ p.spares \in SUBSET Spares /\ p.shuttingDown \in BOOLEAN
      /\ \A s \in gone : p.stage[s] \in {"starting", "ready"}
  BY DEF Good, Counted, Pools, Waits
<1>3. /\ Cardinality(q.spares) <= Cardinality(p.spares)
      /\ Cardinality(q.spares) \in Int /\ Cardinality(p.spares) \in Int
  BY <1>1, <1>2, SpareSets, FS_Subset
<1>4. PoolSize \in Int
  BY PoolSizeBounded
<1>5. Sized(q)
  BY <1>1, <1>2, <1>3, <1>4 DEF Good, Sized
<1>6. Keeps(p, q)
  BY <1>1, <1>2 DEF Keeps
<1>7. QED
  BY <1>1, <1>5, <1>6 DEF Good

(* startWarmSpare, k times: the new spares are numbers that were not used, *)
(* so each adds one to the pool and one to the counter.                    *)
LEMMA StartSparesGood ==
  ASSUME NEW p, Good(p), ~p.shuttingDown, NEW e \in Envs, NEW k \in Nat,
         p.born + k <= MaxSpares, Cardinality(p.spares) + k <= PoolSize
  PROVE  /\ Good(StartSpares(p, k, e)) /\ Keeps(p, StartSpares(p, k, e))
         /\ ~StartSpares(p, k, e).shuttingDown
<1> DEFINE new == p.born + 1 .. p.born + k
           q == StartSpares(p, k, e)
<1>1. /\ p \in Pools /\ p.born \in Nat /\ MaxSpares \in Nat
      /\ p.spares \in SUBSET Spares /\ p.starting \in Int
  BY MaxSparesNat DEF Good, Counted, Pools
<1>2. new \in SUBSET Spares
  BY <1>1 DEF Spares
<1>3. \A s \in new : s > p.born /\ p.stage[s] = "unborn"
  BY <1>1, <1>2 DEF Good, Counted
<1>4. q = [p EXCEPT
            !.born = p.born + k,
            !.starting = p.starting + k,
            !.spares = p.spares \cup new,
            !.stage = [s \in Spares |-> IF s \in new THEN "starting" ELSE p.stage[s]],
            !.listening = [s \in Spares |-> p.listening[s] \/ s \in new],
            !.fingerprint = [s \in Spares |-> IF s \in new THEN e ELSE p.fingerprint[s]]]
  BY <1>1 DEF StartSpares, Pools
<1> HIDE DEF new
<1>5. /\ q.born = p.born + k /\ q.starting = p.starting + k
      /\ q.spares = p.spares \cup new
      /\ q.stage = [s \in Spares |-> IF s \in new THEN "starting" ELSE p.stage[s]]
      /\ q.listening = [s \in Spares |-> p.listening[s] \/ s \in new]
      /\ q.fingerprint = [s \in Spares |-> IF s \in new THEN e ELSE p.fingerprint[s]]
      /\ q.enabled = p.enabled /\ q.shuttingDown = p.shuttingDown
      /\ q.blocked = p.blocked /\ q.failure = p.failure
  BY <1>1, <1>4 DEF Pools
<1>6. Cardinality(new) = k /\ IsFiniteSet(new)
  <2>1. p.born + 1 \in Int /\ p.born + k \in Int
    BY <1>1
  <2>2. /\ IsFiniteSet(new)
        /\ Cardinality(new) = IF p.born + 1 > p.born + k THEN 0
                              ELSE (p.born + k) - (p.born + 1) + 1
    BY <2>1, FS_Interval DEF new
  <2>3. QED
    BY <1>1, <2>2
<1>7. /\ p.spares \cap new = {} /\ Starts(p) \cap new = {}
      /\ p.spares \in SUBSET Spares /\ Starts(p) \in SUBSET Spares
  BY <1>1, <1>3 DEF Good, Counted, Waits, Starts
<1>8. Starts(q) = Starts(p) \cup new
  BY <1>2, <1>5 DEF Starts
<1>9. /\ Cardinality(q.spares) = Cardinality(p.spares) + k
      /\ Cardinality(Starts(q)) = Cardinality(Starts(p)) + k
  <2>1. Cardinality({}) = 0
    BY FS_EmptySet
  <2>2. /\ IsFiniteSet(p.spares) /\ IsFiniteSet(Starts(p))
        /\ Cardinality(p.spares) \in Int /\ Cardinality(Starts(p)) \in Int
    BY <1>7, SpareSets
  <2>3. Cardinality(p.spares \cup new) = Cardinality(p.spares) + k
    <3>1. Cardinality(p.spares \cup new)
            = Cardinality(p.spares) + Cardinality(new) - Cardinality(p.spares \cap new)
      BY <1>6, <2>2, FS_Union
    <3>2. Cardinality(p.spares \cap new) = 0
      BY <1>7, <2>1
    <3>3. QED
      BY <1>6, <2>2, <3>1, <3>2
  <2>4. Cardinality(Starts(p) \cup new) = Cardinality(Starts(p)) + k
    <3>1. Cardinality(Starts(p) \cup new)
            = Cardinality(Starts(p)) + Cardinality(new) - Cardinality(Starts(p) \cap new)
      BY <1>6, <2>2, FS_Union
    <3>2. Cardinality(Starts(p) \cap new) = 0
      BY <1>7, <2>1
    <3>3. QED
      BY <1>6, <2>2, <3>1, <3>2
  <2>5. QED
    BY <1>5, <1>8, <2>3, <2>4
<1>10. q.starting = Cardinality(Starts(q))
  BY <1>5, <1>9 DEF Good, Counted
<1>11. Cardinality(Starts(q)) \in 0 .. MaxSpares
  BY SpareSets DEF Starts
<1>12. /\ q.stage \in [Spares -> Stages] /\ q.listening \in [Spares -> BOOLEAN]
       /\ q.fingerprint \in [Spares -> Envs]
  BY <1>1, <1>5 DEF Pools, Stages
<1>13. /\ q.born \in 0 .. MaxSpares /\ q.spares \in SUBSET Spares
       /\ q.starting \in 0 .. MaxSpares
  BY <1>1, <1>2, <1>5, <1>10, <1>11
<1>14. q = [enabled |-> q.enabled, shuttingDown |-> q.shuttingDown, blocked |-> q.blocked,
            failure |-> q.failure, spares |-> q.spares, starting |-> q.starting,
            born |-> q.born, stage |-> q.stage, listening |-> q.listening,
            fingerprint |-> q.fingerprint]
  BY <1>1, <1>4 DEF Pools
<1>15. q \in Pools
  BY <1>1, <1>5, <1>12, <1>13, <1>14 DEF Pools
<1>16. q.spares = Waits(q)
  BY <1>2, <1>5 DEF Good, Counted, Waits
<1>17. \A s \in Spares : q.listening[s] <=> s \in q.spares
  BY <1>5 DEF Good, Counted
<1>18. \A s \in Spares : q.stage[s] = "unborn" <=> s > q.born
  <2>1. ASSUME NEW s \in Spares PROVE s \in new <=> s > p.born /\ ~(s > p.born + k)
    BY <1>1 DEF new, Spares
  <2>2. \A s \in Spares : s > p.born + k => s > p.born
    BY <1>1 DEF Spares
  <2>3. QED
    BY <1>5, <2>1, <2>2 DEF Good, Counted
<1>19. Sized(q)
  BY <1>5, <1>9 DEF Sized
<1>20. Keeps(p, q)
  BY <1>3, <1>5 DEF Keeps
<1>21. QED
  BY <1>5, <1>10, <1>15, <1>16, <1>17, <1>18, <1>19, <1>20 DEF Good, Counted

(* Flags that the pool's agreement does not depend on. *)
LEMMA FlagsGood ==
  ASSUME NEW p, Good(p), NEW b \in BOOLEAN, NEW f \in BOOLEAN
  PROVE  /\ Good([p EXCEPT !.blocked = b, !.failure = f])
         /\ Keeps(p, [p EXCEPT !.blocked = b, !.failure = f])
<1> DEFINE q == [p EXCEPT !.blocked = b, !.failure = f]
<1>1. p \in Pools
  BY DEF Good, Counted
<1>2. /\ q \in Pools
      /\ q.spares = p.spares /\ q.starting = p.starting /\ q.born = p.born
      /\ q.stage = p.stage /\ q.listening = p.listening
      /\ q.shuttingDown = p.shuttingDown
  BY <1>1 DEF Pools
<1> HIDE DEF q
<1>3. Waits(q) = Waits(p) /\ Starts(q) = Starts(p)
  BY <1>2 DEF Waits, Starts
<1>4. Good(q)
  BY <1>2, <1>3 DEF Good, Counted, Sized
<1>5. Keeps(p, q)
  BY <1>2 DEF Keeps
<1>6. QED
  BY <1>4, <1>5 DEF q

(* Two changes that keep what was handed out keep it together. *)
LEMMA KeepsBoth ==
  ASSUME NEW p, NEW q, NEW r, Keeps(p, q), Keeps(q, r)
  PROVE  Keeps(p, r)
BY DEF Keeps

(* ensureWarmSpare fills the pool and never overfills it, and starts no    *)
(* process for a pool that is not enabled or shuts down.                   *)
LEMMA EnsureGood ==
  ASSUME NEW p, Good(p), NEW e \in Envs, NEW q \in Ensure(p, e)
  PROVE  /\ Good(q) /\ Keeps(p, q)
         /\ q = p \/ (p.enabled /\ ~p.shuttingDown)
<1> DEFINE missing == PoolSize - Cardinality(p.spares)
<1>1. CASE q = p
  BY <1>1 DEF Keeps
<1>2. CASE /\ p.enabled /\ ~p.shuttingDown /\ ~p.blocked /\ missing > 0
           /\ \E k \in {k \in 0 .. missing : p.born + k <= MaxSpares} :
                q = IF k = missing THEN StartSpares(p, k, e)
                    ELSE [Block(StartSpares(p, k, e)) EXCEPT !.failure = TRUE]
  <2>1. PICK k \in 0 .. missing :
               /\ p.born + k <= MaxSpares
               /\ q = IF k = missing THEN StartSpares(p, k, e)
                      ELSE [Block(StartSpares(p, k, e)) EXCEPT !.failure = TRUE]
    BY <1>2
  <2>2. /\ PoolSize \in Int /\ Cardinality(p.spares) \in Int
    BY PoolSizeBounded, SpareSets DEF Good, Counted, Pools
  <2>3. k \in Nat /\ Cardinality(p.spares) + k <= PoolSize
    BY <2>1, <2>2
  <2>4. /\ Good(StartSpares(p, k, e)) /\ Keeps(p, StartSpares(p, k, e))
    BY <1>2, <2>1, <2>3, StartSparesGood
  <2>5. CASE k = missing
    BY <1>2, <2>1, <2>4, <2>5
  <2>6. CASE k # missing
    <3> DEFINE r == StartSpares(p, k, e)
    <3>1. q = [[r EXCEPT !.blocked = TRUE] EXCEPT !.failure = TRUE]
      BY <2>1, <2>6 DEF Block
    <3>2. Good(r) /\ Keeps(p, r)
      BY <2>4
    <3> HIDE DEF r
    <3>3. q = [r EXCEPT !.blocked = TRUE, !.failure = TRUE]
      BY <3>1
    <3>4. Good(q) /\ Keeps(r, q)
      BY <3>2, <3>3, FlagsGood
    <3>5. QED
      BY <1>2, <3>2, <3>4, KeepsBoth
  <2>7. QED
    BY <2>5, <2>6
<1>3. q = p \/ /\ p.enabled /\ ~p.shuttingDown /\ ~p.blocked /\ missing > 0
               /\ \E k \in {k \in 0 .. missing : p.born + k <= MaxSpares} :
                    q = IF k = missing THEN StartSpares(p, k, e)
                        ELSE [Block(StartSpares(p, k, e)) EXCEPT !.failure = TRUE]
  <2>1. PoolSize \in Int /\ Cardinality(p.spares) \in Int
    BY PoolSizeBounded, SpareSets DEF Good, Counted, Pools
  <2>2. missing \in Int
    BY <2>1
  <2>3. QED
    BY <2>2 DEF Ensure
<1>4. QED
  BY <1>1, <1>2, <1>3

(* takeWarmSpare: a ready spare that fits leaves the pool for good, stale  *)
(* ones before it are thrown away, and the others are as before.           *)
LEMMA AfterTakeGood ==
  ASSUME NEW p, Good(p), NEW e \in Envs
  PROVE  /\ Good(AfterTake(p, e))
         /\ \A s \in Spares :
              /\ s \in Taken(p, e) => p.stage[s] = "ready" /\ p.fingerprint[s] = e
              /\ AfterTake(p, e).stage[s] = "taken" <=>
                   s \in Taken(p, e) \/ p.stage[s] = "taken"
              /\ p.stage[s] \in {"taken", "discarded"} =>
                   AfterTake(p, e).stage[s] = p.stage[s]
              /\ AfterTake(p, e).stage[s] = "unborn" <=> p.stage[s] = "unborn"
         /\ AfterTake(p, e).born = p.born
         /\ AfterTake(p, e).shuttingDown = p.shuttingDown
<1> DEFINE stale == {s \in Ready(p) : p.fingerprint[s] # e /\ \A t \in Taken(p, e) : s < t}
           d == Discard(p, stale)
           q == AfterTake(p, e)
<1>1. /\ stale \in SUBSET p.spares /\ \A s \in stale : p.stage[s] = "ready"
      /\ \A s \in Taken(p, e) : s \in p.spares /\ p.stage[s] = "ready" /\ p.fingerprint[s] = e
      /\ Taken(p, e) \cap stale = {}
      /\ p.spares \in SUBSET Spares /\ p \in Pools
  BY DEF Good, Counted, Pools, Ready, Taken, First
<1>2. q = [d EXCEPT
            !.stage = [s \in Spares |-> IF s \in Taken(p, e) THEN "taken" ELSE d.stage[s]],
            !.listening = [s \in Spares |-> d.listening[s] /\ s \notin Taken(p, e)],
            !.spares = d.spares \ Taken(p, e)]
  <2>1. Counted(p)
    BY DEF Good
  <2>2. d \in Pools
    BY <1>1, <2>1, DiscardEffect DEF Counted
  <2> HIDE DEF d
  <2>3. q = [d EXCEPT
              !.stage = [s \in Spares |-> IF s \in Taken(p, e) THEN "taken" ELSE @[s]],
              !.listening = [s \in Spares |-> @[s] /\ s \notin Taken(p, e)],
              !.spares = @ \ Taken(p, e)]
    BY DEF AfterTake, d
  <2>4. QED
    BY <2>2, <2>3 DEF Pools
<1> HIDE DEF stale
<1>3. /\ Good(d) /\ d \in Pools
      /\ \A s \in Spares : d.stage[s] = IF s \in stale THEN "discarded" ELSE p.stage[s]
      /\ d.spares = p.spares \ stale
      /\ d.born = p.born /\ d.shuttingDown = p.shuttingDown
  BY <1>1, DiscardEffect, DiscardGood DEF Good, Counted
<1> HIDE DEF d, q
<1>4. /\ q.stage = [s \in Spares |-> IF s \in Taken(p, e) THEN "taken" ELSE d.stage[s]]
      /\ q.listening = [s \in Spares |-> d.listening[s] /\ s \notin Taken(p, e)]
      /\ q.spares = d.spares \ Taken(p, e)
      /\ q.born = p.born /\ q.shuttingDown = p.shuttingDown /\ q.starting = d.starting
  BY <1>2, <1>3 DEF Pools
<1>5. q \in Pools
  <2>1. /\ [s \in Spares |-> IF s \in Taken(p, e) THEN "taken" ELSE d.stage[s]]
             \in [Spares -> Stages]
        /\ [s \in Spares |-> d.listening[s] /\ s \notin Taken(p, e)] \in [Spares -> BOOLEAN]
        /\ d.spares \ Taken(p, e) \in SUBSET Spares
    BY <1>3 DEF Pools, Stages
  <2>2. QED
    BY <1>2, <1>3, <2>1 DEF Pools
<1>6. Starts(q) = Starts(d)
  BY <1>1, <1>3, <1>4 DEF Starts
<1>7. q.spares = Waits(q)
  BY <1>1, <1>3, <1>4 DEF Good, Counted, Waits
<1>8. \A s \in Spares : q.listening[s] <=> s \in q.spares
  BY <1>3, <1>4 DEF Good, Counted
<1>9. \A s \in Spares : q.stage[s] = "unborn" <=> s > q.born
  BY <1>1, <1>3, <1>4 DEF Good, Counted
<1>10. Counted(q)
  BY <1>3, <1>4, <1>5, <1>6, <1>7, <1>8, <1>9 DEF Good, Counted
<1>11. Sized(q)
  <2>1. /\ Cardinality(q.spares) <= Cardinality(d.spares)
        /\ Cardinality(q.spares) \in Int /\ Cardinality(d.spares) \in Int
    BY <1>3, <1>4, SpareSets, FS_Subset DEF Pools
  <2>2. PoolSize \in Int
    BY PoolSizeBounded
  <2>3. QED
    BY <1>3, <1>4, <2>1, <2>2 DEF Good, Sized, Pools
<1>12. \A s \in Spares :
         /\ q.stage[s] = "taken" <=> s \in Taken(p, e) \/ p.stage[s] = "taken"
         /\ p.stage[s] \in {"taken", "discarded"} => q.stage[s] = p.stage[s]
         /\ q.stage[s] = "unborn" <=> p.stage[s] = "unborn"
  BY <1>1, <1>3, <1>4
<1>13. QED
  BY <1>1, <1>4, <1>10, <1>11, <1>12 DEF Good, q

(* The shutdown empties the pool. *)
LEMMA ShutdownGood ==
  ASSUME NEW p, Good(p)
  PROVE  /\ Good(AfterShutdown(p)) /\ Keeps(p, AfterShutdown(p))
         /\ AfterShutdown(p).born = p.born
<1> DEFINE r == [p EXCEPT !.shuttingDown = TRUE, !.enabled = FALSE]
           q == AfterShutdown(p)
<1>1. p \in Pools
  BY DEF Good, Counted
<1>2. /\ r \in Pools
      /\ r.spares = p.spares /\ r.starting = p.starting /\ r.born = p.born
      /\ r.stage = p.stage /\ r.listening = p.listening /\ r.shuttingDown = TRUE
  BY <1>1 DEF Pools
<1>3. q = Discard(r, r.spares)
  BY <1>2 DEF AfterShutdown
<1> HIDE DEF r, q
<1>4. Waits(r) = Waits(p) /\ Starts(r) = Starts(p)
  BY <1>2 DEF Waits, Starts
<1>5. Counted(r)
  BY <1>2, <1>4 DEF Good, Counted
<1>6. /\ Counted(q) /\ q.spares = r.spares \ r.spares /\ q.born = r.born
      /\ q.shuttingDown = TRUE
      /\ \A s \in Spares :
           q.stage[s] = IF s \in r.spares THEN "discarded" ELSE r.stage[s]
  BY <1>2, <1>3, <1>5, DiscardEffect
<1>7. Cardinality(q.spares) = 0
  BY <1>6, FS_EmptySet
<1>8. Good(q)
  BY <1>6, <1>7 DEF Good, Sized
<1>9. Keeps(p, q)
  BY <1>2, <1>6 DEF Keeps, Good, Counted, Waits
<1>10. QED
  BY <1>2, <1>6, <1>8, <1>9 DEF q

(* A spare that announces readiness moves from one count to the other. *)
LEMMA ReadyGood ==
  ASSUME NEW p, Good(p), NEW s \in Spares, p.stage[s] = "starting",
         NEW q, q = [p EXCEPT !.stage[s] = "ready", !.starting = @ - 1, !.failure = FALSE]
  PROVE  Good(q) /\ Keeps(p, q) /\ q.born = p.born
<1>1. p \in Pools
  BY DEF Good, Counted
<1>2. /\ q.stage = [p.stage EXCEPT ![s] = "ready"] /\ q.starting = p.starting - 1
      /\ q.spares = p.spares /\ q.born = p.born /\ q.listening = p.listening
      /\ q.shuttingDown = p.shuttingDown
  BY <1>1 DEF Pools
<1>3. \A t \in Spares : q.stage[t] = IF t = s THEN "ready" ELSE p.stage[t]
  BY <1>1, <1>2 DEF Pools
<1>4. Starts(q) = Starts(p) \ {s} /\ s \in Starts(p)
  BY <1>3 DEF Starts
<1>5. /\ IsFiniteSet(Starts(p)) /\ Cardinality(Starts(p)) \in Int
      /\ Cardinality(Starts(q)) \in 0 .. MaxSpares
  BY SpareSets DEF Starts
<1>6. Cardinality(Starts(q)) = Cardinality(Starts(p)) - 1
  BY <1>4, <1>5, FS_RemoveElement
<1>7. q.starting = Cardinality(Starts(q))
  BY <1>2, <1>6 DEF Good, Counted
<1>8. q \in Pools
  <2>1. [p.stage EXCEPT ![s] = "ready"] \in [Spares -> Stages]
    BY <1>1 DEF Pools, Stages
  <2>2. p.starting - 1 \in 0 .. MaxSpares
    BY <1>2, <1>5, <1>7
  <2>3. QED
    BY <1>1, <2>1, <2>2 DEF Pools
<1>9. q.spares = Waits(q)
  BY <1>2, <1>3 DEF Good, Counted, Waits
<1>10. \A t \in Spares : q.stage[t] = "unborn" <=> t > q.born
  BY <1>2, <1>3 DEF Good, Counted
<1>11. QED
  BY <1>2, <1>3, <1>7, <1>8, <1>9, <1>10 DEF Good, Counted, Sized, Keeps

(* A spare that the pool listens to fails and is thrown away. *)
LEMMA FailedGood ==
  ASSUME NEW p, Good(p), NEW s \in Spares, p.listening[s]
  PROVE  /\ Good(Discard(Block(p), {s})) /\ Keeps(p, Discard(Block(p), {s}))
         /\ Discard(Block(p), {s}).born = p.born
<1>1. /\ p \in Pools /\ s \in p.spares
  BY DEF Good, Counted
<1>2. Block(p) = [p EXCEPT !.blocked = TRUE, !.failure = p.failure] /\ p.failure \in BOOLEAN
  BY <1>1 DEF Block, Pools
<1>3. Good(Block(p)) /\ Keeps(p, Block(p))
  BY <1>2, FlagsGood
<1>4. Block(p).spares = p.spares /\ Block(p).born = p.born
  BY <1>1 DEF Block, Pools
<1>5. /\ Good(Discard(Block(p), {s})) /\ Keeps(Block(p), Discard(Block(p), {s}))
  BY <1>1, <1>3, <1>4, DiscardGood
<1>6. Discard(Block(p), {s}).born = Block(p).born
  BY <1>1, <1>3, <1>4, DiscardEffect DEF Good
<1>7. QED
  BY <1>3, <1>4, <1>5, <1>6, KeepsBoth

-----------------------------------------------------------------------------
(* The events. *)

PoolInv ==
  /\ Good(pool)
  /\ env \in Envs
  /\ alive \in SUBSET Spares

(* The events that start no process, and hand none out.                    *)
LEMMA QuietEvent ==
  ASSUME PoolInv,
         \/ Shutdown \/ RetryDelayOver
         \/ \E s \in Spares : Handshake(s) \/ SpareEnded(s) \/ StartupTimer(s)
         \/ \E e \in Envs : ChangeEnvironment(e)
  PROVE  /\ Good(pool') /\ Keeps(pool, pool')
         /\ pool'.born = pool.born
         /\ alive' \in SUBSET (alive \cup Born(pool, pool'))
         /\ env' \in Envs
<1>1. CASE Shutdown
  BY <1>1, ShutdownGood DEF PoolInv, Shutdown, Become
<1>2. CASE RetryDelayOver
  <2>1. pool \in Pools
    BY DEF PoolInv, Good, Counted
  <2>2. /\ pool' = [pool EXCEPT !.blocked = FALSE, !.failure = pool.failure]
        /\ pool.failure \in BOOLEAN
    BY <1>2, <2>1 DEF RetryDelayOver, Pools
  <2>3. pool'.born = pool.born
    BY <2>1, <2>2 DEF Pools
  <2>4. Good(pool') /\ Keeps(pool, pool')
    BY <2>2, FlagsGood DEF PoolInv
  <2>5. QED
    BY <1>2, <2>3, <2>4 DEF PoolInv, RetryDelayOver
<1>3. ASSUME NEW s \in Spares, Handshake(s) \/ SpareEnded(s) \/ StartupTimer(s)
      PROVE  /\ Good(pool') /\ Keeps(pool, pool') /\ pool'.born = pool.born
             /\ alive' = alive \cup Born(pool, pool') /\ env' = env
  <2>1. CASE pool' = Discard(Block(pool), {s})
    <3>1. pool.listening[s]
      BY <1>3 DEF Handshake, SpareEnded, StartupTimer
    <3>2. QED
      BY <1>3, <2>1, <3>1, FailedGood DEF PoolInv, Handshake, SpareEnded, StartupTimer, Become
  <2>2. CASE /\ pool.stage[s] = "starting"
             /\ pool' = [pool EXCEPT !.stage[s] = "ready", !.starting = @ - 1,
                                     !.failure = FALSE]
    BY ZenonT(40), <1>3, <2>2, ReadyGood DEF PoolInv, Handshake, SpareEnded, StartupTimer, Become
  <2>3. QED
    BY <1>3, <2>1, <2>2 DEF Handshake, SpareEnded, StartupTimer, Become
<1>4. ASSUME NEW e \in Envs, ChangeEnvironment(e)
      PROVE  /\ Good(pool') /\ Keeps(pool, pool') /\ pool'.born = pool.born
             /\ alive' = alive /\ env' \in Envs
  BY <1>4 DEF PoolInv, ChangeEnvironment, Keeps
<1>5. QED
  BY <1>1, <1>2, <1>3, <1>4 DEF PoolInv

(* enableWorkerPrewarm clears a shutdown, which the pool's size survives   *)
(* because a pool that shuts down is empty.                                *)
LEMMA EnableGood ==
  ASSUME PoolInv, Enable
  PROVE  Good(pool') /\ Keeps(pool, pool')
<1> DEFINE r == [pool EXCEPT !.enabled = TRUE, !.shuttingDown = FALSE]
<1>1. pool \in Pools
  BY DEF PoolInv, Good, Counted
<1>2. /\ r \in Pools
      /\ r.spares = pool.spares /\ r.starting = pool.starting /\ r.born = pool.born
      /\ r.stage = pool.stage /\ r.listening = pool.listening /\ ~r.shuttingDown
  BY <1>1 DEF Pools
<1>3. pool' \in Ensure(r, env)
  BY DEF Enable, Become
<1> HIDE DEF r
<1>4. Waits(r) = Waits(pool) /\ Starts(r) = Starts(pool)
  BY <1>2 DEF Waits, Starts
<1>5. Cardinality(pool.spares) \in Int /\ PoolSize \in Nat
  BY <1>1, SpareSets, PoolSizeBounded DEF Pools
<1>6. Good(r)
  BY <1>2, <1>4, <1>5 DEF PoolInv, Good, Counted, Sized
<1>7. Good(pool') /\ Keeps(r, pool')
  BY <1>3, <1>6, EnsureGood DEF PoolInv
<1>8. QED
  BY <1>2, <1>7 DEF Keeps

(* Every step of the pool preserves the invariant, and keeps what was      *)
(* handed out or hands out a spare that fits.                              *)
LEMMA PoolStep ==
  ASSUME PoolInv, [PoolNext]_pvars
  PROVE  /\ PoolInv'
         /\ Keeps(pool, pool') \/ pool' = AfterTake(pool, env)
<1>1. CASE Shutdown \/ RetryDelayOver
           \/ (\E s \in Spares : Handshake(s) \/ SpareEnded(s) \/ StartupTimer(s))
           \/ (\E e \in Envs : ChangeEnvironment(e))
  BY <1>1, QuietEvent DEF PoolInv, Born
<1>2. CASE Enable
  BY <1>2, EnableGood DEF PoolInv, Enable, Become, Born
<1>3. CASE Refill
  BY <1>3, EnsureGood DEF PoolInv, Refill, Become, Born
<1>4. CASE Take
  BY <1>4, AfterTakeGood DEF PoolInv, Take, Become, Born
<1>5. CASE \E s \in Spares : ProcessEnds(s)
  BY <1>5 DEF PoolInv, ProcessEnds, Keeps
<1>6. CASE UNCHANGED pvars
  BY <1>6 DEF PoolInv, pvars, Keeps
<1>7. QED
  BY <1>1, <1>2, <1>3, <1>4, <1>5, <1>6 DEF PoolNext

(* The pool as the module is loaded.                                       *)
LEMMA PoolStarts == PoolInit => PoolInv
<1> SUFFICES ASSUME PoolInit PROVE PoolInv
  OBVIOUS
<1>1. MaxSpares \in Nat /\ PoolSize \in Nat /\ env \in Envs
  BY MaxSparesNat, PoolSizeBounded DEF PoolInit
<1>2. pool \in Pools
  <2>1. /\ [s \in Spares |-> "unborn"] \in [Spares -> Stages]
        /\ [s \in Spares |-> FALSE] \in [Spares -> BOOLEAN]
        /\ [s \in Spares |-> env] \in [Spares -> Envs]
        /\ 0 \in 0 .. MaxSpares /\ {} \in SUBSET Spares
    BY <1>1 DEF Stages
  <2>2. QED
    BY <2>1 DEF PoolInit, InitialPool, Pools
<1>3. Waits(pool) = {} /\ Starts(pool) = {} /\ pool.spares = {} /\ pool.starting = 0
  BY DEF PoolInit, InitialPool, Waits, Starts
<1>4. Cardinality({}) = 0
  BY FS_EmptySet
<1>5. /\ \A s \in Spares : pool.listening[s] = FALSE /\ pool.stage[s] = "unborn"
      /\ pool.born = 0
  BY DEF PoolInit, InitialPool
<1>6. Counted(pool)
  BY <1>2, <1>3, <1>4, <1>5 DEF Counted, Spares
<1>7. Sized(pool)
  BY <1>1, <1>3, <1>4 DEF Sized
<1>8. QED
  BY <1>1, <1>6, <1>7 DEF PoolInit, PoolInv, Good

(* The two pools stay good in every reachable state.                       *)
LEMMA PoolInvariant == PoolSpec => []PoolInv
<1>1. PoolInv /\ [PoolNext]_pvars => PoolInv'
  BY PoolStep
<1>2. QED
  BY <1>1, PoolStarts, PTL DEF PoolSpec

-----------------------------------------------------------------------------
(* The theorems. *)

(* A good pool is one whose records agree with its processes.              *)
LEMMA GoodAgrees ==
  ASSUME NEW p, Good(p)
  PROVE  p \in Pools /\ Agrees(p)
BY DEF Good, Counted, Sized, Agrees, Waits, Starts

(* Whatever turns the pool's events take, its list, its counter and its    *)
(* handlers agree on which spares wait, there are never more than          *)
(* configured, and none after the shutdown.                                *)
THEOREM PoolAlwaysAgrees == PoolSpec => []PoolAgrees
<1>1. PoolInv => PoolAgrees
  BY GoodAgrees DEF PoolInv, PoolAgrees, PoolTypeOK
<1>2. QED
  BY <1>1, PoolInvariant, PTL

(* A spare is handed out once, only when it is ready and still fits, and   *)
(* no later event of the pool reaches it.                                  *)
THEOREM HandedOutForGood == PoolSpec => TakenForGood
<1> DEFINE Kept ==
      \A s \in Spares :
        /\ pool.stage[s] \in {"taken", "discarded"} => pool'.stage[s] = pool.stage[s]
        /\ pool.stage[s] # "taken" /\ pool'.stage[s] = "taken" =>
             pool.stage[s] = "ready" /\ pool.fingerprint[s] = env
<1>1. PoolInv /\ [PoolNext]_pvars => [Kept]_pvars
  <2> SUFFICES ASSUME PoolInv, [PoolNext]_pvars PROVE Kept
    OBVIOUS
  <2>1. CASE Keeps(pool, pool')
    BY <2>1 DEF Keeps
  <2>2. CASE pool' = AfterTake(pool, env)
    BY <2>2, AfterTakeGood DEF PoolInv
  <2>3. QED
    BY <2>1, <2>2, PoolStep
<1>2. QED
  BY <1>1, PoolInvariant, PTL DEF PoolSpec, TakenForGood

-----------------------------------------------------------------------------
(* The queue inside the composition.                                       *)

(* Each turn of the composition is a turn of the queue or leaves it alone. *)
LEMMA QueueTurn == [RNext]_rvars => [Next]_vars
<1> SUFFICES ASSUME [RNext]_rvars PROVE [Next]_vars
  OBVIOUS
<1>1. ASSUME NEW c \in Calls, RCallWorker(c) \/ RFinish(c) \/ RCallEvent(c) \/ RChildExit(c)
      PROVE  Next
  BY <1>1 DEF RCallWorker, RFinish, RCallEvent, RChildExit, Next
<1>2. CASE \/ \E s \in Spares : RSpareExit(s)
           \/ RefillLater \/ REnable \/ RPoolEvent
  BY <1>2 DEF RSpareExit, RefillLater, REnable, RPoolEvent, vars
<1>3. CASE UNCHANGED rvars
  BY <1>3 DEF rvars, vars
<1>4. QED
  BY <1>1, <1>2, <1>3 DEF RNext

(* The queue keeps its own specification when it shares its turns with the *)
(* pool; so each theorem of WorkerQueueProofs holds of the composition.    *)
THEOREM QueueUnharmed == RSpec => Spec
<1>1. RInit => Init
  BY DEF RInit
<1>2. QED
  BY <1>1, QueueTurn, PTL DEF RSpec, Spec

(* A call does not come back: it is new or waits only if it was so before. *)
LEMMA NoWayBack ==
  ASSUME TypeOK, Next
  PROVE  /\ \A d \in Calls :
              /\ phase'[d] = "new" => phase[d] = "new"
              /\ phase'[d] \in {"new", "queued"} => phase[d] \in {"new", "queued"}
         /\ failure' /\ ~failure => \E d \in Calls : phase'[d] # "new"
<1> DEFINE Onward ==
      \A d \in Calls :
        /\ phase'[d] = "new" => phase[d] = "new"
        /\ phase'[d] \in {"new", "queued"} => phase[d] \in {"new", "queued"}
<1>1. ASSUME NEW c \in Calls, NEW kind, Settle(c, kind)
      PROVE  Onward /\ phase'[c] = "settled"
  BY <1>1, SettleEffect
<1>2. ASSUME NEW c \in Calls, NEW ph \in [Calls -> Phases], Begin(c, ph),
             \A d \in Calls : /\ ph[d] = "new" => phase[d] = "new"
                              /\ ph[d] \in {"new", "queued"} => phase[d] \in {"new", "queued"}
      PROVE  Onward
  BY <1>2, BeginEffect
<1>3. ASSUME NEW c \in Calls, UNCHANGED phase \/ phase' = [phase EXCEPT ![c] = "done"]
      PROVE  Onward
  BY <1>3 DEF TypeOK
<1>4. ASSUME NEW c \in Calls, CallWorker(c) PROVE Onward /\ UNCHANGED failure
  <2>1. CASE \E kind \in Answers : Refuse(c, kind)
    BY <1>3, <2>1 DEF Refuse
  <2>2. CASE phase' = [phase EXCEPT ![c] = "queued"] /\ UNCHANGED failure
    BY <1>4, <2>2 DEF CallWorker, TypeOK
  <2>3. CASE Begin(Head(Append(queue, c)), [phase EXCEPT ![c] = "queued"]) /\ UNCHANGED failure
    <3>1. Head(Append(queue, c)) \in Calls
      BY AppendProperties, HeadTailProperties DEF TypeOK
    <3>2. [phase EXCEPT ![c] = "queued"] \in [Calls -> Phases]
      BY DEF TypeOK, Phases
    <3>3. phase[c] = "new" /\ phase \in [Calls -> Phases]
      BY <1>4 DEF CallWorker, TypeOK
    <3>4. \A d \in Calls :
            /\ [phase EXCEPT ![c] = "queued"][d] = "new" => phase[d] = "new"
            /\ [phase EXCEPT ![c] = "queued"][d] \in {"new", "queued"}
                 => phase[d] \in {"new", "queued"}
      BY <3>3
    <3>5. Onward
      BY <1>2, <2>3, <3>1, <3>2, <3>4
    <3>6. QED
      BY <2>3, <3>5
  <2>4. "worker-isolation-lost" \in Answers /\ "aborted" \in Answers /\ "busy" \in Answers
    BY DEF Answers, Causes
  <2>5. QED
    BY <1>4, <2>1, <2>2, <2>3, <2>4 DEF CallWorker
<1>5. ASSUME NEW c \in Calls, Finish(c) PROVE Onward /\ UNCHANGED failure
  <2>1. [phase EXCEPT ![c] = "done"] \in [Calls -> Phases]
    BY DEF TypeOK, Phases
  <2>2. CASE queue = <<>>
    BY <1>3, <1>5, <2>2 DEF Finish
  <2>3. CASE queue # <<>> /\ failure
    <3>1. \A d \in Calls : phase'[d] \in {"done", [phase EXCEPT ![c] = "done"][d]}
      BY <1>5, <2>3 DEF Finish
    <3>2. QED
      BY <1>5, <3>1 DEF Finish, TypeOK
  <2>4. CASE queue # <<>> /\ ~failure
    <3>1. Head(queue) \in Calls
      BY <2>4, HeadTailProperties DEF TypeOK
    <3>2. Begin(Head(queue), [phase EXCEPT ![c] = "done"]) /\ UNCHANGED failure
      BY <1>5, <2>4 DEF Finish
    <3>3. QED
      BY <1>2, <2>1, <3>1, <3>2 DEF TypeOK
  <2>5. QED
    BY <2>2, <2>3, <2>4
<1>6. ASSUME NEW c \in Calls, NEW why, BeginTermination(c, why)
      PROVE  Onward /\ UNCHANGED failure
  BY <1>1, <1>3, <1>6 DEF BeginTermination
<1>7. ASSUME NEW c \in Calls, Abort(c) PROVE Onward /\ UNCHANGED failure
  BY <1>3, <1>6, <1>7 DEF Abort
<1>8. ASSUME NEW c \in Calls, CallTimer(c) \/ TooMuchOutput(c)
      PROVE  Onward /\ UNCHANGED failure
  BY <1>6, <1>8 DEF CallTimer, TooMuchOutput
<1>9. ASSUME NEW c \in Calls, HardTimer(c) PROVE Onward /\ phase'[c] = "settled"
  BY <1>1, <1>9 DEF HardTimer
<1>10. ASSUME NEW c \in Calls, ChildError(c) \/ ChildClose(c)
       PROVE  Onward /\ UNCHANGED failure
  BY <1>1, <1>10 DEF ChildError, ChildClose
<1>11. ASSUME NEW c \in Calls, GraceTimer(c) \/ ChildExit(c)
       PROVE  Onward /\ UNCHANGED failure
  BY <1>3, <1>11 DEF GraceTimer, ChildExit
<1>12. QED
  BY <1>4, <1>5, <1>7, <1>8, <1>9, <1>10, <1>11 DEF Next

-----------------------------------------------------------------------------
(* The inductive invariant.  Jobs says who has which spare: the ones that  *)
(* were handed out are exactly those of the calls that began, each of one  *)
(* call; without the second half a spare could be taken and forgotten.     *)
(* Begun is what keeps the pool from being enabled after a failure.        *)

Jobs ==
  /\ job \in [Calls -> Spares \cup {0}]
  /\ \A c \in Calls : job[c] # 0 =>
       pool.stage[job[c]] = "taken" /\ phase[c] \notin {"new", "queued"}
  /\ \A c, d \in Calls : job[c] # 0 /\ job[c] = job[d] => c = d
  /\ \A s \in Spares : pool.stage[s] = "taken" => \E c \in Calls : job[c] = s

Running == \A s \in alive : pool.stage[s] # "unborn"

Begun == failure => \E c \in Calls : phase[c] # "new"

RInv ==
  /\ TypeOK
  /\ PoolInv
  /\ Jobs
  /\ Running
  /\ Begun

-----------------------------------------------------------------------------
(* The calls that start in a turn take one spare, or none.                 *)
LEMMA HandoverEffect ==
  ASSUME PoolInv, NEW c \in Calls, NEW q, Handover(c, q)
  PROVE  /\ Good(q) /\ q.born = pool.born /\ q.shuttingDown = pool.shuttingDown
         /\ \A t \in Spares : /\ q.stage[t] = "unborn" => pool.stage[t] = "unborn"
                              /\ pool.stage[t] = "discarded" => q.stage[t] = "discarded"
         /\ \E s \in Spares \cup {0} :
              /\ job' = [job EXCEPT ![c] = s]
              /\ s # 0 => pool.stage[s] = "ready"
              /\ \A t \in Spares :
                   q.stage[t] = "taken" <=> t = s \/ pool.stage[t] = "taken"
<1> DEFINE a == AfterTake(pool, env)
           Goal(s) == /\ job' = [job EXCEPT ![c] = s]
                      /\ s # 0 => pool.stage[s] = "ready"
                      /\ \A t \in Spares :
                           q.stage[t] = "taken" <=> t = s \/ pool.stage[t] = "taken"
<1>1. Good(pool) /\ env \in Envs
  BY DEF PoolInv
<1>2. /\ Good(a) /\ a.born = pool.born /\ a.shuttingDown = pool.shuttingDown
      /\ \A t \in Spares :
           /\ t \in Taken(pool, env) => pool.stage[t] = "ready"
           /\ a.stage[t] = "taken" <=> t \in Taken(pool, env) \/ pool.stage[t] = "taken"
           /\ pool.stage[t] \in {"taken", "discarded"} => a.stage[t] = pool.stage[t]
           /\ a.stage[t] = "unborn" <=> pool.stage[t] = "unborn"
  BY <1>1, AfterTakeGood
<1>3. q = pool \/ q = a
  BY DEF Handover
<1>4. \A t \in Spares : t # 0
  BY DEF Spares
<1>5. ASSUME q = pool, job' = [job EXCEPT ![c] = 0]
      PROVE  \E s \in Spares \cup {0} : Goal(s)
  <2>1. Goal(0)
    BY <1>4, <1>5
  <2>2. QED
    BY <2>1
<1> HIDE DEF a
<1>6. ASSUME q = a, Taken(pool, env) = {}, job' = [job EXCEPT ![c] = 0]
      PROVE  \E s \in Spares \cup {0} : Goal(s)
  <2>1. Goal(0)
    BY <1>2, <1>4, <1>6
  <2>2. QED
    BY <2>1
<1>7. ASSUME NEW s \in Taken(pool, env), q = a, job' = [job EXCEPT ![c] = s]
      PROVE  \E t \in Spares \cup {0} : Goal(t)
  <2>1. Ready(pool) \in SUBSET Spares
    BY <1>1 DEF Good, Counted, Pools, Ready
  <2>2. Taken(pool, env) \in SUBSET Spares
    BY <2>1 DEF Taken, First
  <2>3. \A t \in Taken(pool, env) : t = s
    BY <2>1, OneFirst DEF Taken
  <2>4. Goal(s)
    BY <1>2, <1>7, <2>2, <2>3
  <2>5. QED
    BY <2>2, <2>4
<1>8. \E s \in Spares \cup {0} : Goal(s)
  BY <1>5, <1>6, <1>7 DEF Handover, Given, a
<1>9. QED
  BY <1>1, <1>2, <1>3, <1>8

(* A turn of the queue with its effect on the pool.                        *)
LEMMA PoolTurnStep ==
  ASSUME RInv, NEW refill \in BOOLEAN, PoolTurn(refill),
         \A d \in Calls : phase'[d] \in {"new", "queued"} => phase[d] \in {"new", "queued"}
  PROVE  /\ PoolInv' /\ Jobs' /\ Running'
         /\ pool.shuttingDown \/ ~refill => pool'.born = pool.born
<1>1. PICK q \in {pool, AfterTake(pool, env)} :
        /\ IF Starting = {} THEN q = pool /\ UNCHANGED job
                            ELSE \A c \in Starting : Handover(c, q)
        /\ \E r \in IF refill THEN Ensure(q, env) ELSE {q} : Become(r)
        /\ UNCHANGED env
  BY DEF PoolTurn
<1>2. /\ pool' \in IF refill THEN Ensure(q, env) ELSE {q}
      /\ alive' = alive \cup Born(pool, pool')
  BY <1>1 DEF Become
<1>3. /\ Good(q) /\ q.born = pool.born /\ q.shuttingDown = pool.shuttingDown
      /\ \A t \in Spares : q.stage[t] = "unborn" => pool.stage[t] = "unborn"
  BY <1>1, HandoverEffect DEF Starting, RInv, PoolInv
<1>4. /\ Good(pool') /\ Keeps(q, pool')
      /\ q.shuttingDown \/ ~refill => pool' = q
  BY <1>1, <1>2, <1>3, EnsureGood DEF RInv, PoolInv, Keeps
<1>5. /\ \A t \in Spares : q.stage[t] = "taken" <=> pool'.stage[t] = "taken"
      /\ \A t \in Spares : pool'.stage[t] = "unborn" => pool.stage[t] = "unborn"
  BY <1>3, <1>4 DEF Keeps
<1>6. PoolInv'
  BY <1>1, <1>2, <1>4 DEF RInv, PoolInv, Born
<1>7. Running'
  BY <1>2, <1>5 DEF RInv, PoolInv, Running, Born
<1>8. CASE Starting = {}
  <2>1. q = pool /\ job' = job
    BY <1>1, <1>8
  <2>2. QED
    BY <1>3, <1>4, <1>5, <1>6, <1>7, <2>1 DEF RInv, Jobs
<1>9. CASE Starting # {}
  <2>1. PICK c \in Starting : Handover(c, q)
    BY <1>1, <1>9
  <2>2. /\ c \in Calls /\ phase[c] \in {"new", "queued"}
        /\ phase'[c] \notin {"new", "queued"}
    BY <2>1 DEF Starting
  <2>3. PICK s \in Spares \cup {0} :
          /\ job' = [job EXCEPT ![c] = s]
          /\ s # 0 => pool.stage[s] = "ready"
          /\ \A t \in Spares :
               q.stage[t] = "taken" <=> t = s \/ pool.stage[t] = "taken"
    BY <2>1, <2>2, HandoverEffect DEF RInv
  <2>4. job[c] = 0
    BY <2>2 DEF RInv, Jobs
  <2>5. /\ job' \in [Calls -> Spares \cup {0}]
        /\ job'[c] = s /\ \A d \in Calls \ {c} : job'[d] = job[d]
    BY <2>2, <2>3 DEF RInv, Jobs
  <2>6. \A d \in Calls : job'[d] # 0 =>
          pool'.stage[job'[d]] = "taken" /\ phase'[d] \notin {"new", "queued"}
    BY <1>5, <2>2, <2>3, <2>5 DEF RInv, Jobs
  <2>7. \A d, e \in Calls : job'[d] # 0 /\ job'[d] = job'[e] => d = e
    BY <2>3, <2>5 DEF RInv, Jobs
  <2>8. \A t \in Spares : pool'.stage[t] = "taken" => \E d \in Calls : job'[d] = t
    <3>1. ASSUME NEW t \in Spares, t # s, pool.stage[t] = "taken"
          PROVE  \E d \in Calls : job'[d] = t
      <4>1. t # 0
        BY DEF Spares
      <4>2. PICK d \in Calls : job[d] = t
        BY <3>1 DEF RInv, Jobs
      <4>3. QED
        BY <2>4, <2>5, <4>1, <4>2
    <3>2. QED
      BY <1>5, <2>2, <2>3, <2>5, <3>1
  <2>9. QED
    BY <1>3, <1>4, <1>6, <1>7, <2>5, <2>6, <2>7, <2>8 DEF Jobs
<1>10. QED
  BY <1>8, <1>9

(* A step of the pool that hands nothing out, while the calls go on.       *)
LEMMA JobsKept ==
  ASSUME Jobs, Running, Keeps(pool, pool'), UNCHANGED job,
         alive' \in SUBSET (alive \cup Born(pool, pool')), alive \in SUBSET Spares,
         \A d \in Calls : phase'[d] \in {"new", "queued"} => phase[d] \in {"new", "queued"}
  PROVE  Jobs' /\ Running'
<1>1. Jobs'
  BY DEF Jobs, Keeps
<1>2. Running'
  BY DEF Running, Keeps, Born
<1>3. QED
  BY <1>1, <1>2

(* The runtime starts with nothing running.                                *)
LEMMA RuntimeStarts == RInit => RInv
<1> SUFFICES ASSUME RInit PROVE RInv
  OBVIOUS
<1>1. TypeOK
  <2>1. Init => TypeOK
    BY InitTyped
  <2>2. QED
    BY <2>1 DEF RInit
<1>2. PoolInv
  BY PoolStarts DEF RInit
<1>3. pool.stage = [s \in Spares |-> "unborn"] /\ alive = {} /\ ~failure
  BY DEF RInit, PoolInit, InitialPool, Init
<1>4. Jobs
  BY <1>3 DEF RInit, Jobs
<1>5. QED
  BY <1>1, <1>2, <1>3, <1>4 DEF RInv, Running, Begun

(* Every turn of the composition preserves the invariant, and starts no    *)
(* process of the pool once the failure is latched or the API shuts down.  *)
LEMMA RuntimeStep ==
  ASSUME RInv, [RNext]_rvars
  PROVE  /\ RInv'
         /\ failure \/ pool.shuttingDown => pool'.born = pool.born
<1> DEFINE Onward ==
             \A d \in Calls :
               /\ phase'[d] = "new" => phase[d] = "new"
               /\ phase'[d] \in {"new", "queued"} => phase[d] \in {"new", "queued"}
           Ended == failure \/ pool.shuttingDown => pool'.born = pool.born
<1>1. Onward /\ TypeOK' /\ Begun'
  <2>1. [Next]_vars
    BY QueueTurn
  <2>2. TypeOK'
    BY <2>1, TypeStep DEF RInv
  <2>3. CASE Next
    BY <2>2, <2>3, NoWayBack DEF RInv, Begun
  <2>4. CASE UNCHANGED vars
    BY <2>2, <2>4 DEF vars, RInv, Begun
  <2>5. QED
    BY <2>1, <2>3, <2>4
<1>2. ASSUME NEW c \in Calls, RCallWorker(c)
      PROVE  PoolInv' /\ Jobs' /\ Running' /\ Ended
  BY <1>1, <1>2, PoolTurnStep DEF RCallWorker
<1>3. ASSUME NEW c \in Calls, RFinish(c)
      PROVE  PoolInv' /\ Jobs' /\ Running' /\ Ended
  <2>1. PoolTurn(~failure) /\ (~failure) \in BOOLEAN
    BY <1>3 DEF RFinish, RInv, TypeOK
  <2>2. QED
    BY <1>1, <2>1, PoolTurnStep
<1>4. ASSUME UNCHANGED <<pool, env, job>>, alive' \in SUBSET alive
      PROVE  PoolInv' /\ Jobs' /\ Running' /\ Ended
  <2>1. Keeps(pool, pool')
    BY <1>4 DEF Keeps
  <2>2. alive' \in SUBSET (alive \cup Born(pool, pool'))
    BY <1>4
  <2>3. Jobs' /\ Running'
    BY <1>1, <1>4, <2>1, <2>2, JobsKept DEF RInv, PoolInv
  <2>4. QED
    BY <1>4, <2>3 DEF RInv, PoolInv
<1>5. ASSUME NEW c \in Calls, RCallEvent(c) \/ RChildExit(c)
      PROVE  PoolInv' /\ Jobs' /\ Running' /\ Ended
  BY <1>4, <1>5 DEF RCallEvent, RChildExit, pvars
<1>6. ASSUME NEW s \in Spares, RSpareExit(s)
      PROVE  PoolInv' /\ Jobs' /\ Running' /\ Ended
  BY <1>4, <1>6 DEF RSpareExit, ProcessEnds
<1>7. ASSUME Good(pool'), Keeps(pool, pool'), UNCHANGED job, env' \in Envs,
             alive' \in SUBSET (alive \cup Born(pool, pool'))
      PROVE  PoolInv' /\ Jobs' /\ Running'
  <2>1. Jobs' /\ Running'
    BY <1>1, <1>7, JobsKept DEF RInv, PoolInv
  <2>2. QED
    BY <1>7, <2>1 DEF RInv, PoolInv, Born
<1>8. CASE RefillLater
  <2>1. /\ pool' \in IF failure THEN {pool} ELSE Ensure(pool, env)
        /\ alive' = alive \cup Born(pool, pool') /\ UNCHANGED <<env, job>>
    BY <1>8 DEF RefillLater, Become
  <2>2. /\ Good(pool') /\ Keeps(pool, pool')
        /\ failure \/ pool.shuttingDown => pool' = pool
    BY <2>1, EnsureGood DEF RInv, PoolInv, Keeps
  <2>3. QED
    BY <1>1, <1>7, <2>1, <2>2 DEF RInv, PoolInv
<1>9. CASE REnable
  <2>1. Enable /\ ~pool.shuttingDown /\ ~failure /\ UNCHANGED job
    BY <1>9 DEF REnable, RInv, Begun
  <2>2. Good(pool') /\ Keeps(pool, pool')
    BY <2>1, EnableGood DEF RInv
  <2>3. alive' = alive \cup Born(pool, pool') /\ env' = env
    BY <2>1 DEF Enable, Become
  <2>4. QED
    BY <1>1, <1>7, <2>1, <2>2, <2>3 DEF RInv, PoolInv
<1>10. CASE RPoolEvent
  <2>1. /\ Good(pool') /\ Keeps(pool, pool') /\ pool'.born = pool.born
        /\ alive' \in SUBSET (alive \cup Born(pool, pool')) /\ env' \in Envs
    BY <1>10, QuietEvent DEF RPoolEvent, RInv
  <2>2. QED
    BY <1>1, <1>7, <1>10, <2>1 DEF RPoolEvent, RInv
<1>11. CASE UNCHANGED rvars
  <2>1. UNCHANGED <<pool, env, job>> /\ alive' = alive
    BY <1>11 DEF rvars, pvars
  <2>2. QED
    BY <1>1, <1>4, <2>1 DEF RInv
<1>12. QED
  BY <1>1, <1>2, <1>3, <1>5, <1>6, <1>8, <1>9, <1>10, <1>11 DEF RNext, RInv

(* The inductive invariant holds in every reachable state.                 *)
LEMMA RuntimeInvariant == RSpec => []RInv
<1>1. RInv /\ [RNext]_rvars => RInv'
  BY RuntimeStep
<1>2. QED
  BY <1>1, RuntimeStarts, PTL DEF RSpec

-----------------------------------------------------------------------------
(* The theorems. *)

(* Whatever turns calls, timers, processes and the pool take together, no  *)
(* spare serves two calls, none that was given away or thrown away is      *)
(* offered again, and every process that runs is waiting in the pool, was  *)
(* thrown away, or belongs to one call.                                    *)
THEOREM ProcessesAlwaysAccounted == RSpec => []EveryProcessAccounted
<1>1. RInv => EveryProcessAccounted
  <2> SUFFICES ASSUME RInv PROVE EveryProcessAccounted
    OBVIOUS
  <2>1. /\ pool.spares = {s \in Spares : pool.stage[s] \in {"starting", "ready"}}
        /\ pool.stage \in [Spares -> Stages] /\ alive \in SUBSET Spares
    BY DEF RInv, PoolInv, Good, Counted, Waits, Pools
  <2>2. QED
    BY <2>1 DEF RInv, Jobs, Running, EveryProcessAccounted, Stages
<1>2. QED
  BY <1>1, RuntimeInvariant, PTL

(* The pool agrees with itself when its functions run inside the turns of  *)
(* the queue, as it does alone.                                            *)
THEOREM PoolAgreesInRuntime == RSpec => []PoolAgrees
<1>1. RInv => PoolAgrees
  BY GoodAgrees DEF RInv, PoolInv, PoolAgrees, PoolTypeOK
<1>2. QED
  BY <1>1, RuntimeInvariant, PTL

(* After the isolation is lost no worker process is started, for a call or *)
(* for the pool, and after the shutdown none for the pool.                 *)
THEOREM NothingStartsAfterEnd == RSpec => NoProcessAfterEnd
<1> DEFINE NoneBorn == failure \/ pool.shuttingDown => pool'.born = pool.born
           NoneLate == \A c \in Calls : child[c] = "none" /\ child'[c] # "none" =>
                                          ~aborted[c] /\ ~failure
           Ended == /\ (failure \/ pool.shuttingDown) => pool'.born = pool.born
                    /\ failure => \A c \in Calls : child[c] = "none" => child'[c] = "none"
<1>1. RInv /\ [RNext]_rvars /\ [NoneLate]_vars => [Ended]_rvars
  <2> SUFFICES ASSUME RInv, [RNext]_rvars, [NoneLate]_vars PROVE Ended
    OBVIOUS
  <2>1. NoneBorn
    BY RuntimeStep
  <2>2. failure => \A c \in Calls : child[c] = "none" => child'[c] = "none"
    BY DEF vars
  <2>3. QED
    BY <2>1, <2>2
<1>2. RSpec => [][NoneLate]_vars
  BY QueueUnharmed, NoLateStart, PTL DEF NoStartAfterAbortOrFailure
<1>3. QED
  BY <1>1, <1>2, RuntimeInvariant, PTL DEF RSpec, NoProcessAfterEnd

=============================================================================
