----------------------- MODULE QtNativeRuntimeProofs -----------------------
(***************************************************************************)
(* What holds of the native Qt sessions for any number of windows, product *)
(* processes and brokers, and for any session limit.                       *)
(***************************************************************************)
EXTENDS QtNativeRuntime, FiniteSetTheorems, TLAPS

(* A window belongs to a process that has not ended. *)
OwnersLive == \A w \in Windows : owner[w] # None => owner[w] \in living

(* Every broker that was ever started has one place in the books, and the  *)
(* sessions are those of different brokers.                                *)
Accounts ==
  /\ Running \subseteq Held \cup retiring \cup {start.broker}
  /\ Held \cap retiring = {} /\ start.broker \notin Held \cup retiring
  /\ \A w \in Windows : session[w] # 0 => bound[session[w]].window = w
  /\ \A b \in Held \cup retiring : broker[b] # "unused"
  /\ selected # None => session[selected] # 0

(* A startup that has a broker keeps a place for it: no other broker for   *)
(* its window, and room below the limit.                                   *)
StartStands ==
  /\ start.stage = "none" => start = NoStart
  /\ start.stage = "discover" => start.broker = 0
  /\ start.stage \in {"spawned", "ready", "grace"} =>
       /\ start.broker # 0 /\ broker[start.broker] # "unused"
       /\ bound[start.broker].window \in Windows
       /\ session[bound[start.broker].window] = 0
  /\ start.stage # "none" /\ ~start.cut => Running \cap retiring = {}

Limit ==
  /\ Cardinality(Held) <= MaxSessions
  /\ start.stage \in {"spawned", "ready"} => Cardinality(Held) < MaxSessions

(* No two brokers run for one process. *)
OneEach == \A b, c \in Running : bound[b].process = bound[c].process => b = c

(* What an operation of each kind has to wait for; while one acts no       *)
(* startup is under way, and a desktop helper has dropped every session.   *)
OpStands ==
  /\ op.kind = "none" <=> op.stage = "none"
  /\ op.kind = "native" => op.stage \in {"obtain", "owner", "context"}
  /\ op.kind \in {"worker", "desktop"} => op.stage \in {"quiesce", "acting"}
  /\ op.stage = "acting" => start = NoStart /\ (~stopped => Running \cap retiring = {})
  /\ op.kind = "desktop" => Held = {} /\ (start.stage # "none" => start.cut)
  /\ op.kind = "desktop" /\ op.stage = "acting" => Running = {}

(* A broker that was held and not dropped by a change of life cycle is     *)
(* still held, or its product process has ended.                           *)
PastKept ==
  \A b \in Brokers :
    /\ history[b] = "held" => b \in Held \/ bound[b].process \notin living
    /\ history[b] = "held" => broker[b] # "unused"

QtInv ==
  /\ QtTypeOK /\ OwnersLive /\ Accounts /\ StartStands /\ Limit /\ OneEach /\ OpStands /\ PastKept

-----------------------------------------------------------------------------
(* What the operators of the module do. *)

(* The sessions are finitely many. *)
LEMMA HeldFinite ==
  QtTypeOK => Held \subseteq Brokers /\ IsFiniteSet(Held) /\ Cardinality(Held) \in Nat
<1> SUFFICES ASSUME QtTypeOK
             PROVE  Held \subseteq Brokers /\ IsFiniteSet(Held) /\ Cardinality(Held) \in Nat
  OBVIOUS
<1>1. Held \subseteq Brokers
  BY QtBounds DEF QtTypeOK, Held, Brokers
<1>2. IsFiniteSet(Brokers)
  BY FS_Interval, QtBounds DEF Brokers
<1>3. QED
  BY <1>1, <1>2, FS_Subset, FS_CardinalityType

(* Every session has a window of its own. *)
LEMMA SessionsCounted ==
  ASSUME NEW f \in [Windows -> 0 .. MaxBrokers],
         \A v, u \in Windows : f[v] = f[u] /\ f[v] # 0 => v = u
  PROVE  Cardinality({f[v] : v \in Windows} \ {0}) = Cardinality({v \in Windows : f[v] # 0})
<1> DEFINE S == {v \in Windows : f[v] # 0}
           T == {f[v] : v \in Windows} \ {0}
           g == [v \in S |-> f[v]]
<1>1. IsFiniteSet(T)
  <2>1. T \subseteq Brokers /\ IsFiniteSet(Brokers)
    BY FS_Interval, QtBounds DEF Brokers
  <2>2. QED
    BY <2>1, FS_Subset
<1>2. g \in Injection(S, T) /\ g \in Surjection(S, T)
  BY DEF Injection, IsInjective, Surjection
<1>3. IsFiniteSet(S) /\ (Cardinality(S) = Cardinality(T) <=> g \in Surjection(S, T))
  <2> HIDE DEF S, T, g
  <2>1. QED
    BY <1>1, <1>2, FS_Injection
<1>4. QED
  BY <1>2, <1>3

(* Dropping some frees room. *)
LEMMA HeldShrinks ==
  ASSUME QtTypeOK, QtTypeOK', Held' \subseteq Held
  PROVE  Cardinality(Held') <= Cardinality(Held)
BY HeldFinite, FS_Subset

(* A step that drops sessions and leaves the startup alone keeps the limit. *)
LEMMA LimitKept ==
  ASSUME QtTypeOK, QtTypeOK', Limit, Held' \subseteq Held,
         start'.stage \in {"spawned", "ready"} => start.stage \in {"spawned", "ready"}
  PROVE  Limit'
<1>1. Cardinality(Held') <= Cardinality(Held)
  BY HeldShrinks
<1>2. Cardinality(Held) \in Nat /\ Cardinality(Held') \in Nat /\ MaxSessions \in Nat
  BY HeldFinite, FS_Subset, FS_CardinalityType, QtBounds
<1>3. QED
  BY <1>1, <1>2 DEF Limit

(* An operation that stays where it is keeps what it waited for. *)
LEMMA OpKept ==
  ASSUME OpStands, UNCHANGED <<op, start, stopped>>, Running' \subseteq Running,
         Held' \subseteq Held, retiring' \subseteq retiring
  PROVE  OpStands'
BY DEF OpStands, NoStart

(* The end of a startup keeps the types.                                   *)
LEMMA StartEndsType ==
  ASSUME QtTypeOK, NEW ok \in BOOLEAN, StartEnds(ok)
  PROVE  /\ start' = NoStart
         /\ start' \in [stage : {"none", "discover", "spawned", "ready", "grace"},
                        want : Windows \cup {None}, broker : 0 .. MaxBrokers, cut : BOOLEAN]
         /\ op' \in [kind : {"none", "native", "worker", "desktop"},
                     stage : {"none", "obtain", "owner", "context", "quiesce", "acting"},
                     want : Windows \cup {None}]
<1>1. start' = NoStart
  BY DEF StartEnds
<1>2. NoStart \in [stage : {"none", "discover", "spawned", "ready", "grace"},
                  want : Windows \cup {None}, broker : 0 .. MaxBrokers, cut : BOOLEAN]
  BY QtBounds DEF NoStart
<1>3. op' = op \/ op' = [op EXCEPT !.stage = "context"] \/ op' = NoOp
  BY DEF StartEnds
<1>4. QED
  BY <1>1, <1>2, <1>3 DEF QtTypeOK, NoOp

(* The end of a startup lets its owner go on or end. *)
LEMMA StartOver ==
  ASSUME QtTypeOK, OpStands, NEW ok \in BOOLEAN, StartEnds(ok)
  PROVE  /\ start' = NoStart
         /\ op' \in [kind : {"none", "native", "worker", "desktop"},
                     stage : {"none", "obtain", "owner", "context", "quiesce", "acting"},
                     want : Windows \cup {None}]
         /\ op'.kind = "none" <=> op'.stage = "none"
         /\ op'.kind = "native" => op'.stage \in {"obtain", "owner", "context"}
         /\ op'.kind \in {"worker", "desktop"} => op' = op
         /\ op'.stage = "acting" => op' = op
<1>1. CASE op.stage # "owner"
  BY <1>1 DEF StartEnds, QtTypeOK, OpStands
<1>2. CASE op.stage = "owner" /\ ok
  BY <1>2 DEF StartEnds, QtTypeOK, OpStands
<1>3. CASE op.stage = "owner" /\ ~ok
  BY <1>3 DEF StartEnds, QtTypeOK, OpStands, NoOp
<1>4. QED
  BY <1>1, <1>2, <1>3

(* ... and with it everything the operation waited for stays. *)
LEMMA OpAfterStart ==
  ASSUME QtTypeOK, OpStands, NEW ok \in BOOLEAN, StartEnds(ok), UNCHANGED stopped,
         op.stage = "acting" => Running' \subseteq Running /\ retiring' \subseteq retiring,
         op.kind = "desktop" => Held' = {}
  PROVE  OpStands'
BY StartOver DEF OpStands, NoStart

(* Superseding a startup changes nothing else of it. *)
LEMMA CutType ==
  ASSUME QtTypeOK, Cut
  PROVE  /\ start' \in [stage : {"none", "discover", "spawned", "ready", "grace"},
                        want : Windows \cup {None}, broker : 0 .. MaxBrokers, cut : BOOLEAN]
         /\ start' = [start EXCEPT !.cut = (start.stage # "none")]
         /\ start'.stage = start.stage /\ start'.broker = start.broker
         /\ start'.cut <=> start.stage # "none"
BY DEF QtTypeOK, Cut

(* Dropping the sessions of some windows keeps the types.                  *)
LEMMA DropType ==
  ASSUME QtTypeOK, NEW ws \in SUBSET Windows, Drop(ws)
  PROVE  /\ session' \in [Windows -> 0 .. MaxBrokers]
         /\ retiring' \subseteq Brokers /\ settled' \subseteq retiring'
         /\ history' \in [Brokers -> {"new", "held", "dropped"}]
<1>1. {session[w] : w \in ws} \ {0} \subseteq Brokers
  BY QtBounds DEF QtTypeOK, Brokers
<1>2. QED
  BY <1>1, QtBounds DEF Drop, QtTypeOK

(* Dropping sessions retires their brokers, no others, and supersedes the  *)
(* startup.                                                                *)
LEMMA DropMoves ==
  ASSUME QtTypeOK, Accounts, NEW ws \in SUBSET Windows, Drop(ws)
  PROVE  /\ session' \in [Windows -> 0 .. MaxBrokers]
         /\ \A w \in Windows : session'[w] = IF w \in ws THEN 0 ELSE session[w]
         /\ Held' \subseteq Held
         /\ retiring' = retiring \cup (Held \ Held') /\ retiring' \subseteq Brokers
         /\ UNCHANGED settled
         /\ history' \in [Brokers -> {"new", "held", "dropped"}]
         /\ \A b \in Brokers : history'[b] = IF b \in Held \ Held' THEN "dropped" ELSE history[b]
         /\ ws = Windows => Held' = {}
<1>1. \A w \in Windows : session[w] \in 0 .. MaxBrokers
  BY DEF QtTypeOK
<1>2. /\ session' \in [Windows -> 0 .. MaxBrokers]
      /\ \A w \in Windows : session'[w] = IF w \in ws THEN 0 ELSE session[w]
  BY <1>1, QtBounds DEF Drop
<1>3. Held' \subseteq Held
  BY <1>2 DEF Held
<1>4. {session[w] : w \in ws} \ {0} = Held \ Held'
  BY <1>1, <1>2 DEF Held, Accounts
<1>5. retiring' = retiring \cup (Held \ Held') /\ retiring' \subseteq Brokers
  BY <1>4, HeldFinite DEF Drop, QtTypeOK
<1>6. /\ history' \in [Brokers -> {"new", "held", "dropped"}]
      /\ \A b \in Brokers : history'[b] = IF b \in Held \ Held' THEN "dropped" ELSE history[b]
  BY <1>4 DEF Drop, QtTypeOK
<1>7. ws = Windows => Held' = {}
  BY <1>2 DEF Held
<1>8. QED
  BY <1>2, <1>3, <1>5, <1>6, <1>7 DEF Drop

(* Superseding a startup does not end it.                                  *)
LEMMA CutMoves ==
  ASSUME QtTypeOK, StartStands, Cut
  PROVE  start = NoStart <=> start' = NoStart
<1>1. CASE start.stage = "none"
  <2>1. start = NoStart /\ start.cut = FALSE
    BY <1>1 DEF StartStands, NoStart
  <2>2. start' = start
    BY <1>1, <2>1, CutType DEF QtTypeOK
  <2>3. QED
    BY <2>1, <2>2
<1>2. CASE start.stage # "none"
  BY <1>2, CutType DEF NoStart
<1>3. QED
  BY <1>1, <1>2

(* A window is discovered: the places freed for it are those of brokers    *)
(* that have exited behind their processes, and a broker is started only   *)
(* for a process that none of the others was started for.                  *)
Starts(b, w) ==
  /\ broker[b] = "unused"
  /\ broker' = [broker EXCEPT ![b] = "running"]
  /\ bound' = [bound EXCEPT ![b] = [window |-> w, process |-> owner[w]]]
  /\ start' = [start EXCEPT !.stage = "spawned", !.want = None, !.broker = b]
  /\ UNCHANGED op

(* A new start keeps the types.                                            *)
LEMMA StartsType ==
  ASSUME QtTypeOK, NEW b \in Brokers, NEW w \in Windows, Starts(b, w)
  PROVE  start' \in [stage : {"none", "discover", "spawned", "ready", "grace"},
                    want : Windows \cup {None}, broker : 0 .. MaxBrokers, cut : BOOLEAN]
<1>1. b \in 0 .. MaxBrokers
  BY QtBounds DEF Brokers
<1>2. start \in [stage : {"none", "discover", "spawned", "ready", "grace"},
                want : Windows \cup {None}, broker : 0 .. MaxBrokers, cut : BOOLEAN]
  BY DEF QtTypeOK
<1>3. start' = [start EXCEPT !.stage = "spawned", !.want = None, !.broker = b]
  BY DEF Starts
<1>4. QED
  BY <1>1, <1>2, <1>3

(* A discovery gives up only sessions whose broker and whose process are   *)
(* gone; then the startup ends, or the first free broker is begun.         *)
LEMMA DiscoveredMoves ==
  ASSUME QtTypeOK, NEW w \in Windows, Discovered(w)
  PROVE  \E freed \in SUBSET Windows :
           /\ \A v \in freed : /\ session[v] # 0 /\ broker[session[v]] = "exited"
                              /\ bound[session[v]].process \notin living
           /\ session' = [v \in Windows |-> IF v \in freed THEN 0 ELSE session[v]]
           /\ selected' = Unless(freed)
           /\ \/ StartEnds(FALSE) /\ UNCHANGED <<broker, bound>>
              \/ /\ ~(Cardinality({v \in Windows : session[v] # 0} \ freed) >= MaxSessions)
                 /\ \A v \in Windows \ freed :
                      session[v] # 0 => bound[session[v]].process # owner[w]
                 /\ \E b \in Brokers : Starts(b, w)
<1> DEFINE all == {v \in Windows : session[v] # 0}
           full == Cardinality(Held) >= MaxSessions
           Choice(freed) ==
             LET kept == all \ freed
             IN  /\ session' = [v \in Windows |-> IF v \in freed THEN 0 ELSE session[v]]
                 /\ selected' = Unless(freed)
                 /\ IF Cardinality(kept) >= MaxSessions \/ Conflict(owner[w], kept)
                    THEN StartEnds(FALSE) /\ UNCHANGED <<broker, bound>>
                    ELSE \E b \in Brokers :
                           /\ broker[b] = "unused"
                           /\ \A c \in Brokers : c < b => broker[c] # "unused"
                           /\ broker' = [broker EXCEPT ![b] = "running"]
                           /\ bound' = [bound EXCEPT ![b] = [window |-> w, process |-> owner[w]]]
                           /\ start' = [start EXCEPT !.stage = "spawned", !.want = None,
                                                         !.broker = b]
                           /\ UNCHANGED op
<1>1. \E freed \in IF full THEN SUBSET Freeable(owner[w]) ELSE {{}} : Choice(freed)
  BY DEF Discovered
<1>2. PICK freed \in IF full THEN SUBSET Freeable(owner[w]) ELSE {{}} : Choice(freed)
  BY <1>1
<1>3. /\ freed \in SUBSET Windows
      /\ \A v \in freed : /\ session[v] # 0 /\ broker[session[v]] = "exited"
                         /\ bound[session[v]].process \notin living
  BY <1>2 DEF Freeable
<1>4. Conflict(owner[w], all \ freed) \/
        \A v \in Windows \ freed : session[v] # 0 => bound[session[v]].process # owner[w]
  BY DEF Conflict
<1>5. QED
  BY <1>2, <1>3, <1>4 DEF Starts

-----------------------------------------------------------------------------
(* Every step keeps the types and the invariant. *)

(* Every step keeps the types.                                             *)
LEMMA QtTypeStep == QtTypeOK /\ StartStands /\ [QtNext]_vars => QtTypeOK'
<1> SUFFICES ASSUME QtTypeOK, StartStands, [QtNext]_vars PROVE QtTypeOK'
  OBVIOUS
<1> USE NoneIsOutside, QtBounds DEF QtTypeOK, Brokers, Targets, world, books
<1>1. ASSUME NEW w \in Windows, NEW p \in Processes, OpenWindow(w, p) PROVE QtTypeOK'
  BY <1>1 DEF OpenWindow
<1>2. ASSUME NEW w \in Windows, Rediscovered(w) PROVE QtTypeOK'
  <2>1. \E ok \in BOOLEAN : StartEnds(ok)
    BY <1>2 DEF Rediscovered
  <2>2. QED
    BY <1>2, <2>1, StartEndsType DEF Rediscovered
<1>3. ASSUME NEW w \in Windows, Discovered(w) PROVE QtTypeOK'
  <2>1. UNCHANGED <<world, retiring, settled, stopped, history>>
    BY <1>3 DEF Discovered
  <2>2. PICK freed \in SUBSET Windows :
          /\ session' = [v \in Windows |-> IF v \in freed THEN 0 ELSE session[v]]
          /\ selected' = Unless(freed)
          /\ \/ StartEnds(FALSE) /\ UNCHANGED <<broker, bound>>
             \/ \E b \in Brokers : Starts(b, w)
    BY <1>3, DiscoveredMoves
  <2>3. session' \in [Windows -> 0 .. MaxBrokers] /\ selected' \in Windows \cup {None}
    BY <2>2 DEF Unless
  <2>4. CASE StartEnds(FALSE) /\ UNCHANGED <<broker, bound>>
    BY <2>1, <2>3, <2>4, StartEndsType
  <2>5. ASSUME NEW b \in Brokers, Starts(b, w) PROVE QtTypeOK'
    <3>1. [window |-> w, process |-> owner[w]] \in Targets
      OBVIOUS
    <3>2. bound' \in [Brokers -> Targets] /\ broker' \in [Brokers -> {"unused", "running", "exited"}]
      BY <2>5, <3>1 DEF Starts
    <3>3. QED
      <4>1. start' \in [stage : {"none", "discover", "spawned", "ready", "grace"},
                           want : Windows \cup {None}, broker : 0 .. MaxBrokers, cut : BOOLEAN]
        BY <2>5, StartsType
      <4>2. op' = op
        BY <2>5 DEF Starts
      <4>3. QED
        BY <2>1, <2>3, <3>2, <4>1, <4>2
  <2>6. QED
    BY <2>2, <2>4, <2>5
<1>4. ASSUME NEW w \in Windows \cup {None}, NativeCall(w) PROVE QtTypeOK'
  BY <1>4 DEF NativeCall, Begins, NoOp
<1>5. ASSUME NEW p \in Processes, ProcessEnds(p) PROVE QtTypeOK'
  BY <1>5 DEF ProcessEnds
<1>6. ASSUME NEW b \in Brokers, BrokerExits(b) PROVE QtTypeOK'
  BY <1>6 DEF BrokerExits
<1>7. ASSUME NEW b \in Brokers, Settle(b) PROVE QtTypeOK'
  BY <1>7 DEF Settle
<1>8. CASE DiscoveryFails
  BY <1>8 DEF DiscoveryFails, StartEnds, NoOp, NoStart
<1>9. CASE BrokerReady
  BY <1>9 DEF BrokerReady
<1>10. CASE StartupFails
  BY <1>10 DEF StartupFails
<1>11. CASE GraceOver
  <2>1. StartEnds(FALSE) /\ UNCHANGED <<world, broker, bound, session, selected, settled, stopped, history>>
    BY <1>11 DEF GraceOver
  <2>2. retiring' \subseteq Brokers /\ settled' \subseteq retiring'
    <3>1. start.broker \in Brokers
      BY <1>11 DEF GraceOver, StartStands
    <3>2. QED
      BY <1>11, <3>1 DEF GraceOver
  <2>3. QED
    BY <2>1, <2>2, StartEndsType
<1>12. CASE Attached
  <2>1. StartEnds(~start.cut) /\ (~start.cut) \in BOOLEAN /\ UNCHANGED <<world, broker, bound, settled, stopped>>
    BY <1>12 DEF Attached
  <2>2. CASE start.cut
    <3>1. start.broker \in Brokers
      BY <1>12 DEF Attached, StartStands
    <3>2. retiring' \subseteq Brokers /\ settled' \subseteq retiring' /\ UNCHANGED <<session, selected, history>>
      BY ZenonT(40), <1>12, <2>2, <3>1 DEF Attached
    <3>3. QED
      BY <2>1, <3>2, StartEndsType
  <2>3. CASE ~start.cut
    BY <1>12, <2>1, <2>3, StartEndsType DEF Attached, Hold, StartStands
  <2>4. QED
    BY <2>2, <2>3
<1>13. CASE ObtainRetained
  BY <1>13 DEF ObtainRetained, Requested
<1>14. CASE ObtainStart
  BY <1>14 DEF ObtainStart, Prune, Pruned, NoStart
<1>15. CASE NativeEnds
  BY <1>15 DEF NativeEnds, NoOp
<1>16. CASE GivesUp
  BY <1>16 DEF GivesUp, Cut, NoOp
<1>17. CASE Refused
  BY <1>17 DEF Refused, Prune, Pruned, NoOp, NoStart
<1>18. CASE Quiesced
  BY <1>18 DEF Quiesced, Prune, Pruned, NoStart
<1>19. CASE WorkerCall
  BY <1>19 DEF WorkerCall, Begins, NoOp
<1>20. CASE WorkerEnds
  <2>1. op' = NoOp /\ UNCHANGED <<world, broker, bound, stopped>>
    BY <1>20 DEF WorkerEnds
  <2>2. ASSUME NEW ws \in SUBSET Windows, Drop(ws), selected' \in {None, Unless(ws)} PROVE QtTypeOK'
    BY <2>1, <2>2, DropType, CutType DEF Drop, Unless, NoOp
  <2>3. Named \subseteq SUBSET Windows
    BY DEF Named
  <2>4. QED
    <3>1. CASE UNCHANGED <<books, start>>
      BY <2>1, <3>1 DEF NoOp
    <3>2. QED
      BY <1>20, <2>2, <2>3, <3>1 DEF WorkerEnds
<1>21. CASE DesktopCall
  <2>1. op' = [kind |-> "desktop", stage |-> "quiesce", want |-> None]
    BY <1>21 DEF DesktopCall, Begins
  <2>2. Windows \in SUBSET Windows
    OBVIOUS
  <2>3. QED
    BY <1>21, <2>1, <2>2, DropType, CutType DEF DesktopCall, Drop
<1>22. CASE DesktopEnds
  BY <1>22 DEF DesktopEnds, NoOp
<1>23. CASE Close
  <2>1. Windows \in SUBSET Windows
    OBVIOUS
  <2>2. QED
    BY <1>23, <2>1, DropType, CutType DEF Close, Drop
<1>24. CASE UNCHANGED vars
  BY <1>24 DEF vars
<1>25. QED
  BY <1>1, <1>2, <1>3, <1>4, <1>5, <1>6, <1>7, <1>8, <1>9, <1>10, <1>11, <1>12, <1>13, <1>14, <1>15, <1>16, <1>17, <1>18, <1>19, <1>20, <1>21, <1>22, <1>23, <1>24 DEF QtNext

(* Dropping sessions, for whatever reason, keeps the books in order. *)
LEMMA DropInv ==
  ASSUME QtInv, QtTypeOK', NEW ws \in SUBSET Windows, Drop(ws),
         selected' \in {None, Unless(ws)}, UNCHANGED <<world, broker, bound>>
  PROVE  OwnersLive' /\ Accounts' /\ StartStands' /\ Limit' /\ OneEach' /\ PastKept'
<1> USE DEF QtInv, world
<1>1. /\ \A w \in Windows : session'[w] = IF w \in ws THEN 0 ELSE session[w]
      /\ Held' \subseteq Held /\ retiring' = retiring \cup (Held \ Held')
      /\ \A b \in Brokers : history'[b] = IF b \in Held \ Held' THEN "dropped" ELSE history[b]
      /\ Held \subseteq Brokers
  BY DropMoves, HeldFinite
<1>2. /\ start'.stage = start.stage /\ start'.broker = start.broker
      /\ start'.cut <=> start.stage # "none"
      /\ start = NoStart <=> start' = NoStart
  BY CutType, CutMoves DEF Drop
<1>3. Running' = Running
  BY DEF Running
<1>4. Accounts'
  <2>1. /\ Running' \subseteq Held' \cup retiring' \cup {start'.broker}
        /\ Held' \cap retiring' = {} /\ start'.broker \notin Held' \cup retiring'
    BY <1>1, <1>2, <1>3 DEF Accounts
  <2>2. /\ \A w \in Windows : session'[w] # 0 => bound'[session'[w]].window = w
        /\ \A b \in Held' \cup retiring' : broker'[b] # "unused"
    BY <1>1 DEF Accounts
  <2>3. selected' # None => session'[selected'] # 0
    BY <1>1, NoneIsOutside DEF Accounts, Unless, QtTypeOK
  <2>4. QED
    BY <2>1, <2>2, <2>3 DEF Accounts
<1>5. StartStands'
  <2>1. start'.stage \in {"spawned", "ready", "grace"} =>
          /\ start'.broker # 0 /\ broker'[start'.broker] # "unused"
          /\ bound'[start'.broker].window \in Windows
          /\ session'[bound'[start'.broker].window] = 0
    BY <1>1, <1>2 DEF StartStands
  <2>2. QED
    BY <1>2, <2>1 DEF StartStands, NoStart
<1>6. Limit'
  BY <1>1, <1>2, LimitKept
<1>7. OwnersLive' /\ OneEach' /\ PastKept'
  BY <1>1, <1>3 DEF OwnersLive, OneEach, PastKept
<1>8. QED
  BY <1>4, <1>5, <1>6, <1>7

(* Every step preserves the inductive invariant, one case per action.      *)
LEMMA QtInvStep == QtInv /\ [QtNext]_vars => QtInv'
<1> SUFFICES ASSUME QtInv, [QtNext]_vars PROVE QtInv'
  OBVIOUS
<1>0. QtTypeOK'
  BY QtTypeStep DEF QtInv
<1>h. Held \subseteq Brokers
  BY HeldFinite DEF QtInv
<1> USE NoneIsOutside, QtBounds DEF QtTypeOK, Brokers, Targets, world, books, NoStart, QtInv
<1>1. ASSUME NEW w \in Windows, NEW p \in Processes, OpenWindow(w, p) PROVE QtInv'
  <2>1. OwnersLive'
    BY <1>0, <1>h, <1>1 DEF OpenWindow, OwnersLive
  <2>2. Accounts'
    BY <1>0, <1>h, <1>1 DEF OpenWindow, Accounts, Held, Running
  <2>3. StartStands'
    BY <1>0, <1>h, <1>1 DEF OpenWindow, StartStands, Accounts, OpStands, Held, Running
  <2>4. Limit'
    BY <1>0, <1>h, <1>1 DEF OpenWindow, Limit, Held
  <2>5. OneEach'
    BY <1>0, <1>h, <1>1 DEF OpenWindow, OneEach, Accounts, Held, Running
  <2>6. OpStands'
    <3>1. Running' \subseteq Running /\ Held' = Held /\ UNCHANGED <<op, start, stopped, retiring>>
      BY <1>1 DEF OpenWindow, Held, Running
    <3>2. QED
      BY <3>1, OpKept
  <2>7. PastKept'
    BY <1>0, <1>h, <1>1 DEF OpenWindow, PastKept, Accounts, Held
  <2>8. QED
    BY <1>0, <2>1, <2>2, <2>3, <2>4, <2>5, <2>6, <2>7
<1>2. ASSUME NEW w \in Windows, Rediscovered(w) PROVE QtInv'
  <2>1. OwnersLive'
    BY <1>0, <1>h, <1>2 DEF Rediscovered, Found, StartEnds, NoOp, NoStart, OwnersLive
  <2>2. Accounts'
    <3>1. start' = NoStart /\ UNCHANGED <<session, bound, retiring, broker>>
      BY <1>2 DEF Rediscovered, Found, StartEnds
    <3>2. start.broker = 0
      BY <1>2 DEF Rediscovered, Found, StartStands
    <3>3. QED
      <4>1. selected' = selected \/ (selected' = w /\ session[w] # 0)
        BY <1>2 DEF Rediscovered
      <4>2. Held' = Held /\ Running' = Running
        BY <3>1 DEF Held, Running
      <4>3. QED
        BY <1>h, <3>1, <3>2, <4>1, <4>2 DEF Accounts
  <2>3. StartStands'
    BY <1>0, <1>h, <1>2 DEF Rediscovered, Found, StartEnds, NoOp, NoStart, StartStands, Accounts, OpStands, Held, Running
  <2>4. Limit'
    BY <1>0, <1>h, <1>2 DEF Rediscovered, Found, StartEnds, NoOp, NoStart, Limit, Held
  <2>5. OneEach'
    BY <1>0, <1>h, <1>2 DEF Rediscovered, Found, StartEnds, NoOp, NoStart, OneEach, Accounts, Held, Running
  <2>6. OpStands'
    <3>1. /\ \E ok \in BOOLEAN : StartEnds(ok)
          /\ UNCHANGED <<stopped, retiring>> /\ Running' = Running /\ Held' = Held
      <4>1. \E ok \in BOOLEAN : StartEnds(ok)
        BY <1>2 DEF Rediscovered
      <4>2. UNCHANGED <<session, broker, stopped, retiring>>
        BY <1>2 DEF Rediscovered
      <4>3. QED
        BY <4>1, <4>2 DEF Held, Running
    <3>2. QED
      BY <3>1, OpAfterStart DEF OpStands
  <2>7. PastKept'
    BY <1>0, <1>h, <1>2 DEF Rediscovered, Found, StartEnds, NoOp, NoStart, PastKept, Accounts, Held
  <2>8. QED
    BY <1>0, <2>1, <2>2, <2>3, <2>4, <2>5, <2>6, <2>7
<1>3. ASSUME NEW w \in Windows, Discovered(w) PROVE QtInv'
  <2>0. PICK freed \in SUBSET Windows :
          /\ \A v \in freed : /\ session[v] # 0 /\ broker[session[v]] = "exited"
                             /\ bound[session[v]].process \notin living
          /\ session' = [v \in Windows |-> IF v \in freed THEN 0 ELSE session[v]]
          /\ selected' = Unless(freed)
          /\ \/ StartEnds(FALSE) /\ UNCHANGED <<broker, bound>>
             \/ /\ ~(Cardinality({v \in Windows : session[v] # 0} \ freed) >= MaxSessions)
                /\ \A v \in Windows \ freed :
                     session[v] # 0 => bound[session[v]].process # owner[w]
                /\ \E b \in Brokers : Starts(b, w)
    BY <1>3, DiscoveredMoves
  <2>a. /\ start.stage = "discover" /\ ~start.cut /\ session[w] = 0 /\ start.broker = 0
        /\ owner[w] \in living
        /\ UNCHANGED <<world, retiring, settled, stopped, history>>
    BY <1>3 DEF Discovered, Found, StartStands, OwnersLive
  <2>b. /\ Held' \subseteq Held
        /\ \A b \in Held \ Held' : broker[b] = "exited" /\ bound[b].process \notin living
    BY <2>0 DEF Held, Accounts
  <2>1. OwnersLive'
    BY <2>a DEF OwnersLive
  <2>9. CASE StartEnds(FALSE) /\ UNCHANGED <<broker, bound>>
    <3>1. start' = NoStart /\ Running' = Running
      BY <2>9 DEF StartEnds, Running
    <3>2. Accounts'
      <4>1. Running' \subseteq Held' \cup retiring'
        BY <2>a, <2>b, <3>1 DEF Accounts, Running
      <4>2. Held' \cap retiring' = {} /\ 0 \notin Held' \cup retiring'
        BY <2>a, <2>b, <1>h DEF Accounts
      <4>3. /\ \A v \in Windows : session'[v] # 0 => bound'[session'[v]].window = v
            /\ \A b \in Held' \cup retiring' : broker'[b] # "unused"
        BY <2>0, <2>9, <2>a, <2>b DEF Accounts
      <4>4. selected' # None => session'[selected'] # 0
        BY <2>0 DEF Unless, Accounts
      <4>5. QED
        BY <3>1, <4>1, <4>2, <4>3, <4>4 DEF Accounts
    <3>3. StartStands' /\ OneEach'
      BY <3>1, <2>9 DEF StartStands, OneEach
    <3>4. Limit'
      BY <1>0, <2>b, <3>1, LimitKept
    <3>5. OpStands'
      BY <2>9, <2>a, <2>b, <3>1, OpAfterStart DEF OpStands
    <3>6. PastKept'
      BY <2>9, <2>a, <2>b DEF PastKept
    <3>7. QED
      BY <1>0, <2>1, <3>2, <3>3, <3>4, <3>5, <3>6
  <2>10. ASSUME ~(Cardinality({v \in Windows : session[v] # 0} \ freed) >= MaxSessions),
                \A v \in Windows \ freed :
                  session[v] # 0 => bound[session[v]].process # owner[w],
                NEW b \in Brokers, Starts(b, w)
         PROVE  QtInv'
    <3>1. /\ broker'[b] = "running" /\ bound'[b] = [window |-> w, process |-> owner[w]]
          /\ \A c \in Brokers \ {b} : broker'[c] = broker[c] /\ bound'[c] = bound[c]
          /\ start'.stage = "spawned" /\ start'.broker = b /\ ~start'.cut
          /\ op' = op /\ broker[b] = "unused" /\ b # 0
      BY <2>10, <2>a DEF Starts
    <3>2. b \notin Held \cup retiring /\ Running' = Running \cup {b}
      BY <3>1 DEF Accounts, Running
    <3>3. Accounts'
      <4>1. Running' \subseteq Held' \cup retiring' \cup {start'.broker}
        BY <2>a, <2>b, <3>1, <3>2 DEF Accounts, Running
      <4>2. Held' \cap retiring' = {} /\ start'.broker \notin Held' \cup retiring'
        BY <2>a, <2>b, <3>1, <3>2 DEF Accounts
      <4>3. \A v \in Windows : session'[v] # 0 => bound'[session'[v]].window = v
        <5>1. \A v \in Windows : session'[v] # 0 => session'[v] = session[v] /\ session[v] \in Held
          BY <2>0 DEF Held
        <5>2. QED
          BY <1>h, <3>1, <3>2, <5>1 DEF Accounts
      <4>4. \A c \in Held' \cup retiring' : broker'[c] # "unused"
        BY <1>h, <2>a, <2>b, <3>1, <3>2 DEF Accounts
      <4>5. selected' # None => session'[selected'] # 0
        BY <2>0 DEF Unless, Accounts
      <4>6. QED
        BY <4>1, <4>2, <4>3, <4>4, <4>5 DEF Accounts
    <3>4. StartStands'
      <4>1. session'[w] = 0
        BY <2>0, <2>a
      <4>2. Running' \cap retiring' = {}
        BY <2>a, <3>2 DEF StartStands
      <4>3. QED
        BY <3>1, <4>1, <4>2 DEF StartStands
    <3>5. Limit'
      <4>1. /\ \A v \in Windows : session[v] \in 0 .. MaxBrokers
            /\ \A v, u \in Windows : session[v] = session[u] /\ session[v] # 0 => v = u
        BY DEF Accounts
      <4>2. /\ session' \in [Windows -> 0 .. MaxBrokers]
            /\ \A v, u \in Windows : session'[v] = session'[u] /\ session'[v] # 0 => v = u
        BY <1>0, <2>0, <4>1
      <4>3. Cardinality(Held') = Cardinality({v \in Windows : session'[v] # 0})
        BY <4>2, SessionsCounted DEF Held
      <4>4. {v \in Windows : session'[v] # 0} = {v \in Windows : session[v] # 0} \ freed
        BY <2>0
      <4>5. ~(Cardinality(Held') >= MaxSessions)
        BY <2>10, <4>3, <4>4
      <4>6. Cardinality(Held') \in Nat /\ Cardinality(Held) \in Nat
        BY <2>b, HeldFinite, FS_Subset, FS_CardinalityType
      <4>7. QED
        BY <4>5, <4>6 DEF Limit
    <3>6. OneEach'
      <4>1. \A c \in Running : bound[c].process # owner[w]
        <5> SUFFICES ASSUME NEW c \in Running PROVE bound[c].process # owner[w]
          OBVIOUS
        <5>1. c \in Held /\ broker[c] = "running"
          <6>1. c \in Held \cup retiring \cup {0} /\ c # 0 /\ broker[c] = "running"
            BY <2>a DEF Accounts, Running
          <6>2. Running \cap retiring = {}
            BY <2>a DEF StartStands
          <6>3. QED
            BY <6>1, <6>2
        <5>2. PICK v \in Windows : c = session[v] /\ session[v] # 0
          BY <5>1 DEF Held
        <5>3. v \notin freed
          BY <2>0, <5>1, <5>2
        <5>4. QED
          BY <2>10, <5>2, <5>3
      <4>2. QED
        BY <3>1, <3>2, <4>1 DEF OneEach, Running
    <3>7. OpStands'
      BY <2>a, <2>b, <3>1 DEF OpStands
    <3>8. PastKept'
      BY <2>a, <2>b, <3>1, <3>2 DEF PastKept
    <3>9. QED
      BY <1>0, <2>1, <3>3, <3>4, <3>5, <3>6, <3>7, <3>8
  <2>11. QED
    BY <2>0, <2>9, <2>10
<1>4. ASSUME NEW w \in Windows \cup {None}, NativeCall(w) PROVE QtInv'
  <2>1. OwnersLive'
    BY <1>0, <1>h, <1>4 DEF NativeCall, Begins, NoOp, OwnersLive
  <2>2. Accounts'
    BY <1>0, <1>h, <1>4 DEF NativeCall, Begins, NoOp, Accounts, Held, Running
  <2>3. StartStands'
    BY <1>0, <1>h, <1>4 DEF NativeCall, Begins, NoOp, StartStands, Accounts, OpStands, Held, Running
  <2>4. Limit'
    BY <1>0, <1>h, <1>4 DEF NativeCall, Begins, NoOp, Limit, Held
  <2>5. OneEach'
    BY <1>0, <1>h, <1>4 DEF NativeCall, Begins, NoOp, OneEach, Accounts, Held, Running
  <2>6. OpStands'
    BY <1>0, <1>h, <1>4 DEF NativeCall, Begins, NoOp, OpStands, Accounts, Held, Running
  <2>7. PastKept'
    BY <1>0, <1>h, <1>4 DEF NativeCall, Begins, NoOp, PastKept, Accounts, Held
  <2>8. QED
    BY <1>0, <2>1, <2>2, <2>3, <2>4, <2>5, <2>6, <2>7
<1>5. ASSUME NEW p \in Processes, ProcessEnds(p) PROVE QtInv'
  <2>1. OwnersLive'
    BY <1>0, <1>h, <1>5 DEF ProcessEnds, OwnersLive
  <2>2. Accounts'
    BY <1>0, <1>h, <1>5 DEF ProcessEnds, Accounts, Held, Running
  <2>3. StartStands'
    BY <1>0, <1>h, <1>5 DEF ProcessEnds, StartStands, Accounts, OpStands, Held, Running
  <2>4. Limit'
    BY <1>0, <1>h, <1>5 DEF ProcessEnds, Limit, Held
  <2>5. OneEach'
    BY <1>0, <1>h, <1>5 DEF ProcessEnds, OneEach, Accounts, Held, Running
  <2>6. OpStands'
    <3>1. Running' \subseteq Running /\ Held' = Held /\ UNCHANGED <<op, start, stopped, retiring>>
      BY <1>5 DEF ProcessEnds, Held, Running
    <3>2. QED
      BY <3>1, OpKept
  <2>7. PastKept'
    BY <1>0, <1>h, <1>5 DEF ProcessEnds, PastKept, Accounts, Held
  <2>8. QED
    BY <1>0, <2>1, <2>2, <2>3, <2>4, <2>5, <2>6, <2>7
<1>6. ASSUME NEW b \in Brokers, BrokerExits(b) PROVE QtInv'
  <2>1. OwnersLive'
    BY <1>0, <1>h, <1>6 DEF BrokerExits, OwnersLive
  <2>2. Accounts'
    BY <1>0, <1>h, <1>6 DEF BrokerExits, Accounts, Held, Running
  <2>3. StartStands'
    BY <1>0, <1>h, <1>6 DEF BrokerExits, StartStands, Accounts, OpStands, Held, Running
  <2>4. Limit'
    BY <1>0, <1>h, <1>6 DEF BrokerExits, Limit, Held
  <2>5. OneEach'
    BY <1>0, <1>h, <1>6 DEF BrokerExits, OneEach, Accounts, Held, Running
  <2>6. OpStands'
    <3>1. Running' \subseteq Running /\ Held' = Held /\ UNCHANGED <<op, start, stopped, retiring>>
      BY <1>6 DEF BrokerExits, Held, Running
    <3>2. QED
      BY <3>1, OpKept
  <2>7. PastKept'
    BY <1>0, <1>h, <1>6 DEF BrokerExits, PastKept, Accounts, Held
  <2>8. QED
    BY <1>0, <2>1, <2>2, <2>3, <2>4, <2>5, <2>6, <2>7
<1>7. ASSUME NEW b \in Brokers, Settle(b) PROVE QtInv'
  <2>1. OwnersLive'
    BY <1>0, <1>h, <1>7 DEF Settle, OwnersLive
  <2>2. Accounts'
    BY <1>0, <1>h, <1>7 DEF Settle, Accounts, Held, Running
  <2>3. StartStands'
    BY <1>0, <1>h, <1>7 DEF Settle, StartStands, Accounts, OpStands, Held, Running
  <2>4. Limit'
    BY <1>0, <1>h, <1>7 DEF Settle, Limit, Held
  <2>5. OneEach'
    BY <1>0, <1>h, <1>7 DEF Settle, OneEach, Accounts, Held, Running
  <2>6. OpStands'
    <3>1. Running' \subseteq Running /\ Held' = Held /\ UNCHANGED <<op, start, stopped, retiring>>
      BY <1>7 DEF Settle, Held, Running
    <3>2. QED
      BY <3>1, OpKept
  <2>7. PastKept'
    BY <1>0, <1>h, <1>7 DEF Settle, PastKept, Accounts, Held
  <2>8. QED
    BY <1>0, <2>1, <2>2, <2>3, <2>4, <2>5, <2>6, <2>7
<1>8. CASE DiscoveryFails
  <2>1. OwnersLive'
    BY <1>0, <1>h, <1>8 DEF DiscoveryFails, StartEnds, NoOp, NoStart, OwnersLive
  <2>2. Accounts'
    <3>1. start' = NoStart /\ UNCHANGED <<session, bound, retiring, broker>>
      BY <1>8 DEF DiscoveryFails, StartEnds
    <3>2. start.broker = 0
      BY <1>8 DEF DiscoveryFails, StartStands
    <3>3. QED
      BY <1>8, <1>h, <3>1, <3>2 DEF DiscoveryFails, Accounts, Held, Running
  <2>3. StartStands'
    BY <1>0, <1>h, <1>8 DEF DiscoveryFails, StartEnds, NoOp, NoStart, StartStands, Accounts, OpStands, Held, Running
  <2>4. Limit'
    BY <1>0, <1>h, <1>8 DEF DiscoveryFails, StartEnds, NoOp, NoStart, Limit, Held
  <2>5. OneEach'
    BY <1>0, <1>h, <1>8 DEF DiscoveryFails, StartEnds, NoOp, NoStart, OneEach, Accounts, Held, Running
  <2>6. OpStands'
    <3>1. /\ \E ok \in BOOLEAN : StartEnds(ok)
          /\ UNCHANGED <<stopped, retiring>> /\ Running' = Running /\ Held' = Held
      <4>1. \E ok \in BOOLEAN : StartEnds(ok)
        BY <1>8 DEF DiscoveryFails
      <4>2. UNCHANGED <<session, broker, stopped, retiring>>
        BY <1>8 DEF DiscoveryFails
      <4>3. QED
        BY <4>1, <4>2 DEF Held, Running
    <3>2. QED
      BY <3>1, OpAfterStart DEF OpStands
  <2>7. PastKept'
    BY <1>0, <1>h, <1>8 DEF DiscoveryFails, StartEnds, NoOp, NoStart, PastKept, Accounts, Held
  <2>8. QED
    BY <1>0, <2>1, <2>2, <2>3, <2>4, <2>5, <2>6, <2>7
<1>9. CASE BrokerReady
  <2>1. OwnersLive'
    BY <1>0, <1>h, <1>9 DEF BrokerReady, OwnersLive
  <2>2. Accounts'
    BY <1>0, <1>h, <1>9 DEF BrokerReady, Accounts, Held, Running
  <2>3. StartStands'
    BY <1>0, <1>h, <1>9 DEF BrokerReady, StartStands, Accounts, OpStands, Held, Running
  <2>4. Limit'
    BY <1>0, <1>h, <1>9 DEF BrokerReady, Limit, Held
  <2>5. OneEach'
    BY <1>0, <1>h, <1>9 DEF BrokerReady, OneEach, Accounts, Held, Running
  <2>6. OpStands'
    BY <1>0, <1>h, <1>9 DEF BrokerReady, OpStands, Accounts, Held, Running
  <2>7. PastKept'
    BY <1>0, <1>h, <1>9 DEF BrokerReady, PastKept, Accounts, Held
  <2>8. QED
    BY <1>0, <2>1, <2>2, <2>3, <2>4, <2>5, <2>6, <2>7
<1>10. CASE StartupFails
  <2>1. OwnersLive'
    BY <1>0, <1>h, <1>10 DEF StartupFails, OwnersLive
  <2>2. Accounts'
    BY <1>0, <1>h, <1>10 DEF StartupFails, Accounts, Held, Running
  <2>3. StartStands'
    BY <1>0, <1>h, <1>10 DEF StartupFails, StartStands, Accounts, OpStands, Held, Running
  <2>4. Limit'
    BY <1>0, <1>h, <1>10 DEF StartupFails, Limit, Held
  <2>5. OneEach'
    BY <1>0, <1>h, <1>10 DEF StartupFails, OneEach, Accounts, Held, Running
  <2>6. OpStands'
    <3>1. start'.stage = "grace" /\ start.stage = "spawned" /\ start'.cut = start.cut
      BY <1>10 DEF StartupFails
    <3>2. Running' = Running /\ Held' = Held /\ UNCHANGED <<op, stopped, retiring>>
      BY <1>10 DEF StartupFails, Running, Held
    <3>3. QED
      BY <3>1, <3>2 DEF OpStands
  <2>7. PastKept'
    BY <1>0, <1>h, <1>10 DEF StartupFails, PastKept, Accounts, Held
  <2>8. QED
    BY <1>0, <2>1, <2>2, <2>3, <2>4, <2>5, <2>6, <2>7
<1>11. CASE GraceOver
  <2>1. OwnersLive'
    BY <1>0, <1>h, <1>11 DEF GraceOver, StartEnds, NoOp, NoStart, OwnersLive
  <2>2. Accounts'
    <3>1. start.broker \in Brokers /\ start' = NoStart
          /\ UNCHANGED <<session, bound, broker, selected>>
      BY <1>11 DEF GraceOver, StartEnds, StartStands
    <3>2. Held' = Held /\ Running' = Running
      BY <3>1 DEF Held, Running
    <3>3. retiring' = retiring \cup ({start.broker} \ {b \in Brokers : broker[b] = "exited"})
      BY <1>11 DEF GraceOver
    <3>4. Running' \subseteq Held' \cup retiring'
      BY <3>1, <3>2, <3>3 DEF Accounts, Running
    <3>5. Held' \cap retiring' = {} /\ 0 \notin Held' \cup retiring'
      <4>1. start.broker \notin Held \cup retiring /\ Held \cap retiring = {}
        BY DEF Accounts
      <4>2. 0 \notin Held \cup retiring
        BY <1>h
      <4>3. QED
        BY <3>1, <3>2, <3>3, <4>1, <4>2
    <3>6. \A b \in Held' \cup retiring' : broker'[b] # "unused"
      BY <1>11, <3>1, <3>2, <3>3 DEF Accounts, GraceOver, StartStands
    <3>7. QED
      BY <3>1, <3>4, <3>5, <3>6 DEF Accounts
  <2>3. StartStands'
    BY <1>0, <1>h, <1>11 DEF GraceOver, StartEnds, NoOp, NoStart, StartStands, Accounts, OpStands, Held, Running
  <2>4. Limit'
    BY <1>0, <1>h, <1>11 DEF GraceOver, StartEnds, NoOp, NoStart, Limit, Held
  <2>5. OneEach'
    BY <1>0, <1>h, <1>11 DEF GraceOver, StartEnds, NoOp, NoStart, OneEach, Accounts, Held, Running
  <2>6. OpStands'
    <3>1. /\ StartEnds(FALSE) /\ UNCHANGED stopped /\ Running' = Running /\ Held' = Held
          /\ op.stage # "acting"
      <4>1. StartEnds(FALSE) /\ UNCHANGED <<stopped, session, broker>> /\ start.stage = "grace"
        BY <1>11 DEF GraceOver
      <4>2. QED
        <5>1. op.stage # "acting"
          BY <4>1 DEF OpStands
        <5>2. Held' = Held /\ Running' = Running
          BY <4>1 DEF Held, Running
        <5>3. QED
          BY <4>1, <5>1, <5>2
    <3>2. QED
      BY <3>1, OpAfterStart DEF OpStands
  <2>7. PastKept'
    BY <1>0, <1>h, <1>11 DEF GraceOver, StartEnds, NoOp, NoStart, PastKept, Accounts, Held
  <2>8. QED
    BY <1>0, <2>1, <2>2, <2>3, <2>4, <2>5, <2>6, <2>7
<1>12. CASE Attached
  <2>0. /\ start.stage = "ready" /\ start.broker \in Brokers /\ start' = NoStart
        /\ broker[start.broker] # "unused" /\ start.broker \notin Held \cup retiring
        /\ bound[start.broker].window \in Windows
        /\ session[bound[start.broker].window] = 0
        /\ op.stage # "acting"
        /\ UNCHANGED <<world, broker, bound, settled, stopped>> /\ Running' = Running
    BY <1>12 DEF Attached, StartEnds, StartStands, Accounts, Running, OpStands
  <2>1. OwnersLive'
    BY <2>0 DEF OwnersLive
  <2>9. CASE start.cut
    <3>1. /\ retiring' = retiring \cup {start.broker}
          /\ UNCHANGED <<session, selected, history>> /\ Held' = Held /\ StartEnds(FALSE)
      <4>1. /\ retiring' = retiring \cup {start.broker}
            /\ UNCHANGED <<session, selected, history>> /\ StartEnds(~start.cut)
        BY <1>12, <2>9 DEF Attached
      <4>2. Held' = Held
        BY <4>1 DEF Held
      <4>3. (~start.cut) = FALSE
        BY <2>9
      <4>4. QED
        BY <4>1, <4>2, <4>3
    <3>2. Accounts'
      <4>1. /\ Running' \subseteq Held' \cup retiring' \cup {start'.broker}
            /\ Held' \cap retiring' = {}
        BY <2>0, <3>1 DEF Accounts
      <4>2. start'.broker = 0 /\ 0 \notin Held' \cup retiring'
        BY <1>h, <2>0, <3>1
      <4>3. /\ \A w \in Windows : session'[w] # 0 => bound'[session'[w]].window = w
            /\ \A b \in Held' \cup retiring' : broker'[b] # "unused"
            /\ selected' # None => session'[selected'] # 0
        BY <2>0, <3>1 DEF Accounts
      <4>4. QED
        BY <4>1, <4>2, <4>3 DEF Accounts
    <3>3. StartStands' /\ OneEach' /\ PastKept'
      BY <2>0, <3>1 DEF StartStands, OneEach, PastKept
    <3>4. Limit'
      BY <1>0, <2>0, <3>1, LimitKept
    <3>5. OpStands'
      BY <2>0, <3>1, OpAfterStart DEF OpStands
    <3>6. QED
      BY <1>0, <2>1, <3>2, <3>3, <3>4, <3>5
  <2>10. CASE ~start.cut
    <3>1. /\ UNCHANGED retiring /\ Hold(start.broker) /\ StartEnds(TRUE)
      BY <1>12, <2>10 DEF Attached
    <3>2. Held' = Held \cup {start.broker}
      BY <2>0, <3>1 DEF Hold, Held
    <3>3. Accounts'
      <4>1. /\ Running' \subseteq Held' \cup retiring' \cup {start'.broker}
            /\ Held' \cap retiring' = {}
        BY <2>0, <3>1, <3>2 DEF Accounts
      <4>2. start'.broker = 0 /\ 0 \notin Held' \cup retiring'
        BY <1>h, <2>0, <3>1, <3>2
      <4>3. /\ \A w \in Windows : session'[w] # 0 => bound'[session'[w]].window = w
            /\ selected' # None => session'[selected'] # 0
        BY <2>0, <3>1 DEF Accounts, Hold
      <4>4. \A b \in Held' \cup retiring' : broker'[b] # "unused"
        BY <2>0, <3>1, <3>2 DEF Accounts
      <4>5. QED
        BY <4>1, <4>2, <4>3, <4>4 DEF Accounts
    <3>4. StartStands' /\ OneEach'
      BY <2>0, <3>1 DEF StartStands, OneEach
    <3>5. Limit'
      <4>1. Cardinality(Held') = Cardinality(Held) + 1 /\ Cardinality(Held) \in Nat
        BY <2>0, <3>2, HeldFinite, FS_AddElement
      <4>2. QED
        BY <2>0, <4>1 DEF Limit
    <3>6. OpStands'
      BY <2>0, <2>10, <3>1, OpAfterStart DEF OpStands
    <3>7. PastKept'
      BY <2>0, <3>1, <3>2 DEF PastKept, Hold
    <3>8. QED
      BY <1>0, <2>1, <3>3, <3>4, <3>5, <3>6, <3>7
  <2>11. QED
    BY <2>9, <2>10
<1>13. CASE ObtainRetained
  <2>1. OwnersLive'
    BY <1>0, <1>h, <1>13 DEF ObtainRetained, Requested, OwnersLive
  <2>2. Accounts'
    BY <1>0, <1>h, <1>13 DEF ObtainRetained, Requested, Accounts, Held, Running
  <2>3. StartStands'
    BY <1>0, <1>h, <1>13 DEF ObtainRetained, Requested, StartStands, Accounts, OpStands, Held, Running
  <2>4. Limit'
    BY <1>0, <1>h, <1>13 DEF ObtainRetained, Requested, Limit, Held
  <2>5. OneEach'
    BY <1>0, <1>h, <1>13 DEF ObtainRetained, Requested, OneEach, Accounts, Held, Running
  <2>6. OpStands'
    BY <1>0, <1>h, <1>13 DEF ObtainRetained, Requested, OpStands, Accounts, Held, Running
  <2>7. PastKept'
    BY <1>0, <1>h, <1>13 DEF ObtainRetained, Requested, PastKept, Accounts, Held
  <2>8. QED
    BY <1>0, <2>1, <2>2, <2>3, <2>4, <2>5, <2>6, <2>7
<1>14. CASE ObtainStart
  <2>1. OwnersLive'
    BY <1>0, <1>h, <1>14 DEF ObtainStart, Prune, Pruned, NoStart, OwnersLive
  <2>2. Accounts'
    BY <1>0, <1>h, <1>14 DEF ObtainStart, Prune, Pruned, NoStart, Accounts, Held, Running
  <2>3. StartStands'
    BY <1>0, <1>h, <1>14 DEF ObtainStart, Prune, Pruned, NoStart, StartStands, Accounts, OpStands, Held, Running
  <2>4. Limit'
    BY <1>0, <1>h, <1>14 DEF ObtainStart, Prune, Pruned, NoStart, Limit, Held
  <2>5. OneEach'
    BY <1>0, <1>h, <1>14 DEF ObtainStart, Prune, Pruned, NoStart, OneEach, Accounts, Held, Running
  <2>6. OpStands'
    BY <1>0, <1>h, <1>14 DEF ObtainStart, Prune, Pruned, NoStart, OpStands, Accounts, Held, Running
  <2>7. PastKept'
    BY <1>0, <1>h, <1>14 DEF ObtainStart, Prune, Pruned, NoStart, PastKept, Accounts, Held
  <2>8. QED
    BY <1>0, <2>1, <2>2, <2>3, <2>4, <2>5, <2>6, <2>7
<1>15. CASE NativeEnds
  <2>1. OwnersLive'
    BY <1>0, <1>h, <1>15 DEF NativeEnds, NoOp, OwnersLive
  <2>2. Accounts'
    BY <1>0, <1>h, <1>15 DEF NativeEnds, NoOp, Accounts, Held, Running
  <2>3. StartStands'
    BY <1>0, <1>h, <1>15 DEF NativeEnds, NoOp, StartStands, Accounts, OpStands, Held, Running
  <2>4. Limit'
    BY <1>0, <1>h, <1>15 DEF NativeEnds, NoOp, Limit, Held
  <2>5. OneEach'
    BY <1>0, <1>h, <1>15 DEF NativeEnds, NoOp, OneEach, Accounts, Held, Running
  <2>6. OpStands'
    BY <1>0, <1>h, <1>15 DEF NativeEnds, NoOp, OpStands, Accounts, Held, Running
  <2>7. PastKept'
    BY <1>0, <1>h, <1>15 DEF NativeEnds, NoOp, PastKept, Accounts, Held
  <2>8. QED
    BY <1>0, <2>1, <2>2, <2>3, <2>4, <2>5, <2>6, <2>7
<1>16. CASE GivesUp
  <2>1. OwnersLive'
    BY <1>0, <1>h, <1>16 DEF GivesUp, Cut, NoOp, OwnersLive
  <2>2. Accounts'
    BY <1>0, <1>h, <1>16 DEF GivesUp, Cut, NoOp, Accounts, Held, Running
  <2>3. StartStands'
    BY <1>0, <1>h, <1>16 DEF GivesUp, Cut, NoOp, StartStands, Accounts, OpStands, Held, Running
  <2>4. Limit'
    BY <1>0, <1>h, <1>16 DEF GivesUp, Cut, NoOp, Limit, Held
  <2>5. OneEach'
    BY <1>0, <1>h, <1>16 DEF GivesUp, Cut, NoOp, OneEach, Accounts, Held, Running
  <2>6. OpStands'
    BY <1>0, <1>h, <1>16 DEF GivesUp, Cut, NoOp, OpStands, Accounts, Held, Running
  <2>7. PastKept'
    BY <1>0, <1>h, <1>16 DEF GivesUp, Cut, NoOp, PastKept, Accounts, Held
  <2>8. QED
    BY <1>0, <2>1, <2>2, <2>3, <2>4, <2>5, <2>6, <2>7
<1>17. CASE Refused
  <2>1. OwnersLive'
    BY <1>0, <1>h, <1>17 DEF Refused, Prune, Pruned, NoOp, NoStart, OwnersLive
  <2>2. Accounts'
    BY <1>0, <1>h, <1>17 DEF Refused, Prune, Pruned, NoOp, NoStart, Accounts, Held, Running
  <2>3. StartStands'
    BY <1>0, <1>h, <1>17 DEF Refused, Prune, Pruned, NoOp, NoStart, StartStands, Accounts, OpStands, Held, Running
  <2>4. Limit'
    BY <1>0, <1>h, <1>17 DEF Refused, Prune, Pruned, NoOp, NoStart, Limit, Held
  <2>5. OneEach'
    BY <1>0, <1>h, <1>17 DEF Refused, Prune, Pruned, NoOp, NoStart, OneEach, Accounts, Held, Running
  <2>6. OpStands'
    BY <1>0, <1>h, <1>17 DEF Refused, Prune, Pruned, NoOp, NoStart, OpStands, Accounts, Held, Running
  <2>7. PastKept'
    BY <1>0, <1>h, <1>17 DEF Refused, Prune, Pruned, NoOp, NoStart, PastKept, Accounts, Held
  <2>8. QED
    BY <1>0, <2>1, <2>2, <2>3, <2>4, <2>5, <2>6, <2>7
<1>18. CASE Quiesced
  <2>1. OwnersLive'
    BY <1>0, <1>h, <1>18 DEF Quiesced, Prune, Pruned, NoStart, OwnersLive
  <2>2. Accounts'
    BY <1>0, <1>h, <1>18 DEF Quiesced, Prune, Pruned, NoStart, Accounts, Held, Running
  <2>3. StartStands'
    BY <1>0, <1>h, <1>18 DEF Quiesced, Prune, Pruned, NoStart, StartStands, Accounts, OpStands, Held, Running
  <2>4. Limit'
    BY <1>0, <1>h, <1>18 DEF Quiesced, Prune, Pruned, NoStart, Limit, Held
  <2>5. OneEach'
    BY <1>0, <1>h, <1>18 DEF Quiesced, Prune, Pruned, NoStart, OneEach, Accounts, Held, Running
  <2>6. OpStands'
    <3>1. /\ op' = [op EXCEPT !.stage = "acting"] /\ op.stage = "quiesce" /\ start = NoStart
          /\ retiring' = {} /\ UNCHANGED <<start, stopped, session, broker>>
          /\ Pruned(retiring) = {}
      BY <1>18 DEF Quiesced, Prune
    <3>2. Held' = Held /\ Running' = Running
      BY <3>1 DEF Held, Running
    <3>3. Running \subseteq Held
      <4>1. Running \cap retiring = {} /\ start.broker = 0
        BY <3>1 DEF Running, Pruned
      <4>2. 0 \notin Running
        BY DEF Running
      <4>3. QED
        BY <4>1, <4>2 DEF Accounts
    <3>4. QED
      BY <3>1, <3>2, <3>3 DEF OpStands
  <2>7. PastKept'
    BY <1>0, <1>h, <1>18 DEF Quiesced, Prune, Pruned, NoStart, PastKept, Accounts, Held
  <2>8. QED
    BY <1>0, <2>1, <2>2, <2>3, <2>4, <2>5, <2>6, <2>7
<1>19. CASE WorkerCall
  <2>1. OwnersLive'
    BY <1>0, <1>h, <1>19 DEF WorkerCall, Begins, NoOp, OwnersLive
  <2>2. Accounts'
    BY <1>0, <1>h, <1>19 DEF WorkerCall, Begins, NoOp, Accounts, Held, Running
  <2>3. StartStands'
    BY <1>0, <1>h, <1>19 DEF WorkerCall, Begins, NoOp, StartStands, Accounts, OpStands, Held, Running
  <2>4. Limit'
    BY <1>0, <1>h, <1>19 DEF WorkerCall, Begins, NoOp, Limit, Held
  <2>5. OneEach'
    BY <1>0, <1>h, <1>19 DEF WorkerCall, Begins, NoOp, OneEach, Accounts, Held, Running
  <2>6. OpStands'
    BY <1>0, <1>h, <1>19 DEF WorkerCall, Begins, NoOp, OpStands, Accounts, Held, Running
  <2>7. PastKept'
    BY <1>0, <1>h, <1>19 DEF WorkerCall, Begins, NoOp, PastKept, Accounts, Held
  <2>8. QED
    BY <1>0, <2>1, <2>2, <2>3, <2>4, <2>5, <2>6, <2>7
<1>20. CASE WorkerEnds
  <2>1. op' = NoOp /\ UNCHANGED <<world, broker, bound, stopped>>
    BY <1>20 DEF WorkerEnds
  <2>2. OpStands'
    BY <2>1 DEF OpStands, NoOp
  <2>3. CASE UNCHANGED <<books, start>>
    <3>1. Held' = Held /\ Running' = Running
      BY <2>1, <2>3 DEF Held, Running
    <3>2. OwnersLive' /\ Accounts' /\ StartStands' /\ Limit' /\ OneEach' /\ PastKept'
      BY <2>1, <2>3, <3>1 DEF OwnersLive, Accounts, StartStands, Limit, OneEach, PastKept
    <3>3. QED
      BY <1>0, <2>2, <3>2
  <2>4. ASSUME NEW ws \in SUBSET Windows, Drop(ws), selected' \in {None, Unless(ws)} PROVE QtInv'
    BY <1>0, <2>1, <2>2, <2>4, DropInv
  <2>5. Named \subseteq SUBSET Windows
    BY DEF Named
  <2>6. QED
    BY <1>20, <2>3, <2>4, <2>5 DEF WorkerEnds
<1>21. CASE DesktopCall
  <2>1. /\ op' = [kind |-> "desktop", stage |-> "quiesce", want |-> None] /\ Drop(Windows)
        /\ selected' = None /\ UNCHANGED <<world, broker, bound, stopped>>
        /\ Windows \in SUBSET Windows
    BY <1>21 DEF DesktopCall, Begins
  <2>2. Held' = {}
    BY <2>1, DropMoves
  <2>3. start'.stage # "none" => start'.cut
    BY <2>1, CutType DEF Drop
  <2>4. OpStands'
    BY <2>1, <2>2, <2>3 DEF OpStands
  <2>5. QED
    BY <1>0, <2>1, <2>4, DropInv
<1>22. CASE DesktopEnds
  <2>1. OwnersLive'
    BY <1>0, <1>h, <1>22 DEF DesktopEnds, NoOp, OwnersLive
  <2>2. Accounts'
    BY <1>0, <1>h, <1>22 DEF DesktopEnds, NoOp, Accounts, Held, Running
  <2>3. StartStands'
    BY <1>0, <1>h, <1>22 DEF DesktopEnds, NoOp, StartStands, Accounts, OpStands, Held, Running
  <2>4. Limit'
    BY <1>0, <1>h, <1>22 DEF DesktopEnds, NoOp, Limit, Held
  <2>5. OneEach'
    BY <1>0, <1>h, <1>22 DEF DesktopEnds, NoOp, OneEach, Accounts, Held, Running
  <2>6. OpStands'
    BY <1>0, <1>h, <1>22 DEF DesktopEnds, NoOp, OpStands, Accounts, Held, Running
  <2>7. PastKept'
    BY <1>0, <1>h, <1>22 DEF DesktopEnds, NoOp, PastKept, Accounts, Held
  <2>8. QED
    BY <1>0, <2>1, <2>2, <2>3, <2>4, <2>5, <2>6, <2>7
<1>23. CASE Close
  <2>1. /\ UNCHANGED op /\ Drop(Windows) /\ stopped'
        /\ selected' = None /\ UNCHANGED <<world, broker, bound>>
        /\ Windows \in SUBSET Windows
    BY <1>23 DEF Close
  <2>2. Held' = {}
    BY <2>1, DropMoves
  <2>3. /\ start'.stage # "none" => start'.cut
        /\ start = NoStart <=> start' = NoStart
    BY <2>1, CutType, CutMoves DEF Drop
  <2>4. Running' = Running
    BY <2>1 DEF Running
  <2>5. OpStands'
    BY <2>1, <2>2, <2>3, <2>4 DEF OpStands
  <2>6. QED
    BY <1>0, <2>1, <2>5, DropInv
<1>24. CASE UNCHANGED vars
  <2>1. Held' = Held /\ Running' = Running
    BY <1>24 DEF vars, Held, Running
  <2>2. OpStands'
    BY <1>24, <2>1, OpKept DEF vars
  <2>3. OwnersLive' /\ Accounts' /\ StartStands' /\ Limit' /\ OneEach' /\ PastKept'
    BY <1>24, <2>1 DEF vars, OwnersLive, Accounts, StartStands, Limit, OneEach, PastKept
  <2>4. QED
    BY <1>0, <2>2, <2>3
<1>25. QED
  BY <1>1, <1>2, <1>3, <1>4, <1>5, <1>6, <1>7, <1>8, <1>9, <1>10, <1>11, <1>12, <1>13, <1>14, <1>15, <1>16, <1>17, <1>18, <1>19, <1>20, <1>21, <1>22, <1>23, <1>24 DEF QtNext
(* The runtime starts without sessions and brokers.                        *)
LEMMA QtInitInv == QtInit => QtInv
<1> SUFFICES ASSUME QtInit PROVE QtInv
  OBVIOUS
<1>1. Held = {} /\ Running = {} /\ start = NoStart
  BY DEF QtInit, Held, Running
<1>2. QtTypeOK
  <2>1. NoTarget \in Targets /\ 0 \in 0 .. MaxBrokers
    BY QtBounds DEF NoTarget, Targets
  <2>2. /\ start \in [stage : {"none", "discover", "spawned", "ready", "grace"},
                     want : Windows \cup {None}, broker : 0 .. MaxBrokers, cut : BOOLEAN]
        /\ op \in [kind : {"none", "native", "worker", "desktop"},
                  stage : {"none", "obtain", "owner", "context", "quiesce", "acting"},
                  want : Windows \cup {None}]
    BY <2>1 DEF QtInit, NoStart, NoOp
  <2>3. QED
    BY <2>1, <2>2 DEF QtInit, QtTypeOK
<1>3. OwnersLive /\ Accounts /\ StartStands /\ OneEach /\ PastKept
  BY <1>1 DEF QtInit, OwnersLive, Accounts, StartStands, OneEach, PastKept, NoStart
<1>4. OpStands
  BY <1>1 DEF QtInit, OpStands, NoOp, NoStart
<1>5. Limit
  BY <1>1, FS_EmptySet, QtBounds DEF Limit, NoStart
<1>6. QED
  BY <1>2, <1>3, <1>4, <1>5 DEF QtInv

(* The inductive invariant holds in every reachable state.                 *)
LEMMA QtInvariant == QtSpec => []QtInv
BY QtInitInv, QtInvStep, PTL DEF QtSpec

-----------------------------------------------------------------------------
(* No broker process is forgotten or shared, the session limit is kept,    *)
(* and no two brokers ever run for one product process.                    *)
THEOREM BrokersAlwaysAccounted == QtSpec => []BrokersAccounted
<1>1. QtInv => BrokersAccounted
  BY DEF QtInv, Accounts, Limit, OneEach, BrokersAccounted
<1>2. QED
  BY <1>1, QtInvariant, PTL

(* Worker and desktop helper act only behind the end of every startup and  *)
(* of every broker that was given up.                                      *)
THEOREM NobodyActsBesideBrokers == QtSpec => []WorkBehindCleanup
<1>1. QtInv => WorkBehindCleanup
  BY DEF QtInv, OpStands, WorkBehindCleanup
<1>2. QED
  BY <1>1, QtInvariant, PTL

(* A product process whose session broke gets no second broker unless a    *)
(* change of life cycle dropped that session.                              *)
THEOREM NeverReconnectedSilently == QtSpec => NoSilentReconnect
<1>1. QtInv /\ [QtNext]_vars =>
        [\A b, c \in Brokers :
           /\ broker[b] = "unused" /\ broker'[b] = "running"
           /\ bound[c].process = bound'[b].process
           => history[c] # "held"]_vars
  <2> SUFFICES ASSUME QtInv, [QtNext]_vars, NEW b \in Brokers, NEW c \in Brokers,
                      broker[b] = "unused", broker'[b] = "running",
                      bound[c].process = bound'[b].process, history[c] = "held"
               PROVE  FALSE
    OBVIOUS
  <2> USE DEF QtInv, world, books
  <2>1. PICK w \in Windows : Discovered(w)
    <3>1. ~ UNCHANGED broker
      OBVIOUS
    <3>2. ~ \E d \in Brokers : BrokerExits(d)
      BY DEF BrokerExits, QtTypeOK
    <3>3. QED
      BY <3>1, <3>2 DEF QtNext, OpenWindow, Rediscovered, NativeCall, ProcessEnds, Settle,
        DiscoveryFails, BrokerReady, StartupFails, GraceOver, Attached, ObtainRetained,
        ObtainStart, NativeEnds, GivesUp, Refused, Quiesced, WorkerCall, WorkerEnds,
        DesktopCall, DesktopEnds, Close, vars
  <2>2. PICK freed \in SUBSET Windows :
          /\ \A v \in freed : bound[session[v]].process \notin living
          /\ \A v \in Windows \ freed :
               session[v] # 0 => bound[session[v]].process # owner[w]
          /\ \E d \in Brokers : Starts(d, w)
    BY <2>1, DiscoveredMoves
  <2>3. bound[c].process = owner[w] /\ owner[w] \in living
    <3>1. Starts(b, w)
      BY <2>2 DEF Starts, QtTypeOK
    <3>2. bound'[b] = [window |-> w, process |-> owner[w]]
      BY <3>1 DEF Starts, QtTypeOK
    <3>3. QED
      <4>1. Found(w)
        BY <2>1 DEF Discovered
      <4>2. owner[w] # None /\ owner[w] \in living
        BY <4>1 DEF Found, OwnersLive
      <4>3. bound'[b].process = owner[w]
        BY <3>2
      <4>4. QED
        BY <4>2, <4>3
  <2>4. PICK v \in Windows : session[v] = c /\ c # 0
    BY <2>3 DEF PastKept, Held, Brokers
  <2>5. QED
    BY <2>2, <2>3, <2>4
<1>2. QED
  BY <1>1, QtInvariant, PTL DEF QtSpec, NoSilentReconnect

=============================================================================
