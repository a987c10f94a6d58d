-------------------------- MODULE QtNativeRuntime --------------------------
(***************************************************************************)
(* The sessions of the native Qt runtime (src/src/qt-native-runtime.ts):   *)
(* which broker processes the API runs, to which product process and       *)
(* window each is bound, and when an operation may use or replace them.    *)
(*                                                                         *)
(* A broker is started for a discovered window and stays bound to it, also *)
(* when its connection is broken: only a change of the product's life      *)
(* cycle permits a new one.  A broker that is given up is retired, and     *)
(* nothing that changes the desktop is sent before its exit is seen.       *)
(*                                                                         *)
(* The API server runs one operation at a time (OneOperation in ApiServer),*)
(* so one operation is modelled; but a start may outlive the call that     *)
(* began it, and the shutdown comes at any time.                           *)
(*                                                                         *)
(* What the desktop marker says is left open: it is read anew at each test *)
(* and each test may come out either way.  A process stands for its number *)
(* together with its creation time.                                        *)
(***************************************************************************)
EXTENDS Integers, FiniteSets

CONSTANTS
  Windows,      \* main windows (HWND)
  Processes,    \* product processes
  MaxBrokers,   \* bound: how many brokers are ever started
  MaxSessions,  \* the session limit of obtain, 4 in the code
  None

ASSUME QtBounds == MaxBrokers \in Nat /\ MaxSessions \in Nat
ASSUME NoneIsOutside == None \notin Windows \cup Processes

Brokers == 1 .. MaxBrokers

VARIABLES
  owner,     \* the process that shows each window, or None
  living,    \* the processes that have not ended
  broker,    \* what each broker process does
  bound,     \* the window and process each broker was started for
  session,   \* sessions: the broker held for each window, 0 for none
  selected,  \* the window an operation without hwnd means
  retiring,  \* the brokers given up whose exit has not been seen
  settled,   \* those of them whose close() has settled, without proof
  start,     \* the startup under way: starting and startupAbort
  op,        \* the operation under way
  stopped,   \* close() was called
  history    \* history: which brokers were held, and dropped by a life cycle

world == <<owner, living>>
books == <<session, selected, retiring, settled, history>>
vars == <<world, broker, bound, books, start, op, stopped>>

NoStart == [stage |-> "none", want |-> None, broker |-> 0, cut |-> FALSE]
NoOp == [kind |-> "none", stage |-> "none", want |-> None]
NoTarget == [window |-> None, process |-> None]

Held == {session[w] : w \in Windows} \ {0}

QtInit ==
  /\ owner = [w \in Windows |-> None]
  /\ living = Processes
  /\ broker = [b \in Brokers |-> "unused"]
  /\ bound = [b \in Brokers |-> NoTarget]
  /\ session = [w \in Windows |-> 0]
  /\ selected = None
  /\ retiring = {} /\ settled = {}
  /\ start = NoStart
  /\ op = NoOp
  /\ stopped = FALSE
  /\ history = [b \in Brokers |-> "new"]

-----------------------------------------------------------------------------
(* The product and the broker processes.  A window lasts as long as its    *)
(* process here; its handle may then be used again by another one.         *)

OpenWindow(w, p) ==
  /\ owner[w] = None /\ p \in living
  /\ owner' = [owner EXCEPT ![w] = p]
  /\ UNCHANGED <<living, broker, bound, books, start, op, stopped>>

ProcessEnds(p) ==
  /\ p \in living
  /\ living' = living \ {p}
  /\ owner' = [w \in Windows |-> IF owner[w] = p THEN None ELSE owner[w]]
  /\ UNCHANGED <<broker, bound, books, start, op, stopped>>

(* The 'exit' event of a broker, killed or not. *)
BrokerExits(b) ==
  /\ broker[b] = "running"
  /\ broker' = [broker EXCEPT ![b] = "exited"]
  /\ UNCHANGED <<world, bound, books, start, op, stopped>>

-----------------------------------------------------------------------------
(* Giving brokers up. *)

(* The close() of retire() settles: after the exit, or after an 'error' of *)
(* the child process, which a failed kill emits and which proves nothing.  *)
Settle(b) ==
  /\ b \in retiring \ settled
  /\ settled' = settled \cup {b}
  /\ UNCHANGED <<world, broker, bound, session, selected, retiring, start, op, stopped, history>>

(* A settled close() counts as an exit. *)
BuggyPruned(r) == {b \in r : broker[b] # "exited" /\ b \notin settled}

(* pruneRetirements *)
Pruned(r) == {b \in r : broker[b] # "exited"}

Prune ==
  /\ retiring' = Pruned(retiring)
  /\ settled' = settled \cap Pruned(retiring)

Cut == start' = [start EXCEPT !.cut = start.stage # "none"]

(* invalidate, and clear when ws are all windows: the sessions of ws are   *)
(* dropped, their brokers retired, and a startup is superseded whatever    *)
(* its target.                                                             *)
Drop(ws) ==
  LET gone == {session[w] : w \in ws} \ {0}
  IN  /\ session' = [w \in Windows |-> IF w \in ws THEN 0 ELSE session[w]]
      /\ retiring' = retiring \cup gone
      /\ history' = [b \in Brokers |-> IF b \in gone THEN "dropped" ELSE history[b]]
      /\ Cut
      /\ UNCHANGED settled

Unless(ws) == IF selected \in ws THEN None ELSE selected

-----------------------------------------------------------------------------
(* The startup: the function that obtain() runs as `starting`. *)

(* The startup ends, and with it the wait of its owner. *)
StartEnds(ok) ==
  /\ start' = NoStart
  /\ op' = IF op.stage # "owner" THEN op
           ELSE IF ok THEN [op EXCEPT !.stage = "context"] ELSE NoOp

(* No window, several, another desktop or owner, a deadline, an abort, or  *)
(* a broker that cannot be created.                                        *)
DiscoveryFails ==
  /\ start.stage = "discover"
  /\ StartEnds(FALSE)
  /\ UNCHANGED <<world, broker, bound, books, stopped>>

Found(w) ==
  /\ start.stage = "discover" /\ ~start.cut
  /\ owner[w] # None
  /\ start.want \in {None, w}

(* The window has a session already, which stays as it is, broken or not. *)
Rediscovered(w) ==
  /\ Found(w) /\ session[w] # 0
  /\ IF bound[session[w]].process = owner[w]
     THEN selected' = w /\ StartEnds(TRUE)
     ELSE UNCHANGED selected /\ StartEnds(FALSE)
  /\ UNCHANGED <<world, broker, bound, session, retiring, settled, stopped, history>>

(* The exit of the broker alone frees its place. *)
BuggyFreeable(p) ==
  {w \in Windows : session[w] # 0 /\ broker[session[w]] = "exited"}

(* At the limit a place is freed only if the broker has exited and the     *)
(* process it was bound to no longer exists; the number may be in use      *)
(* again, so the test of existence can say otherwise.                      *)
Freeable(p) ==
  {w \in Windows :
     /\ session[w] # 0
     /\ broker[session[w]] = "exited"
     /\ bound[session[w]].process \notin living \cup {p}}

(* Several windows of one process get a broker each. *)
BuggyConflict(p, kept) == FALSE

Conflict(p, kept) == \E w \in kept : bound[session[w]].process = p

Discovered(w) ==
  /\ Found(w) /\ session[w] = 0
  /\ LET p == owner[w]
         full == Cardinality(Held) >= MaxSessions
         all == {v \in Windows : session[v] # 0}
     IN  \E freed \in IF full THEN SUBSET Freeable(p) ELSE {{}} :
           LET kept == all \ freed
           IN  /\ session' = [v \in Windows |-> IF v \in freed THEN 0 ELSE session[v]]
               /\ selected' = Unless(freed)
               /\ IF Cardinality(kept) >= MaxSessions \/ Conflict(p, kept)
                  THEN StartEnds(FALSE) /\ UNCHANGED <<broker, bound>>
                  ELSE \E b \in Brokers :
                         /\ broker[b] = "unused"
                         /\ \A c \in Brokers : c < b => broker[c] # "unused"
                         /\ broker' = [broker EXCEPT ![b] = "running"]
                         /\ bound' = [bound EXCEPT ![b] = [window |-> w, process |-> p]]
                         /\ start' = [start EXCEPT !.stage = "spawned", !.want = None,
                                                       !.broker = b]
                         /\ UNCHANGED op
  /\ UNCHANGED <<world, retiring, settled, stopped, history>>

(* Bootstrap, handshake and ping have succeeded: startQtNativeBroker       *)
(* returns the session.                                                    *)
BrokerReady ==
  /\ start.stage = "spawned" /\ ~start.cut /\ broker[start.broker] = "running"
  /\ start' = [start EXCEPT !.stage = "ready"]
  /\ UNCHANGED <<world, broker, bound, books, op, stopped>>

(* A wrong answer, a deadline, an abort, or the end of the broker: it is   *)
(* killed, and its exit awaited for a moment.                              *)
StartupFails ==
  /\ start.stage = "spawned"
  /\ start' = [start EXCEPT !.stage = "grace"]
  /\ UNCHANGED <<world, broker, bound, books, op, stopped>>

(* Without the exit, QtNativeStartupUnprovenError hands the broker over to *)
(* retire().                                                               *)
GraceOver ==
  /\ start.stage = "grace"
  /\ retiring' = retiring \cup ({start.broker} \ {b \in Brokers : broker[b] = "exited"})
  /\ StartEnds(FALSE)
  /\ UNCHANGED <<world, broker, bound, session, selected, settled, stopped, history>>

Hold(b) ==
  /\ session' = [session EXCEPT ![bound[b].window] = b]
  /\ selected' = bound[b].window
  /\ history' = [history EXCEPT ![b] = "held"]

(* The startup goes on with its session, unless it was superseded. *)
Attached ==
  /\ start.stage = "ready"
  /\ StartEnds(~start.cut)
  /\ IF start.cut
     THEN /\ retiring' = retiring \cup {start.broker}
          /\ UNCHANGED <<session, selected, history>>
     ELSE Hold(start.broker) /\ UNCHANGED retiring
  /\ UNCHANGED <<world, broker, bound, settled, stopped>>

-----------------------------------------------------------------------------
(* The operations. *)

Begins(kind, stage, want) ==
  /\ op = NoOp /\ ~stopped
  /\ op' = [kind |-> kind, stage |-> stage, want |-> want]

(* client(): want is the hwnd of the arguments, None for an operation that *)
(* means the selected window.                                              *)
NativeCall(want) ==
  /\ Begins("native", "obtain", want)
  /\ UNCHANGED <<world, broker, bound, books, start, stopped>>

Requested == IF op.want # None THEN op.want ELSE selected

(* obtain finds a session that fits the marker. *)
ObtainRetained ==
  /\ op.stage = "obtain" /\ ~stopped
  /\ Requested # None /\ session[Requested] # 0
  /\ op' = [op EXCEPT !.stage = "context", !.want = None]
  /\ UNCHANGED <<world, broker, bound, books, start, stopped>>

(* obtain begins a startup once no other one and no retirement is left. *)
ObtainStart ==
  /\ op.stage = "obtain" /\ ~stopped
  /\ start = NoStart /\ Pruned(retiring) = {}
  /\ Prune
  /\ start' = [NoStart EXCEPT !.stage = "discover", !.want = op.want]
  /\ op' = [op EXCEPT !.stage = "owner", !.want = None]
  /\ UNCHANGED <<world, broker, bound, session, selected, stopped, history>>

(* window_context and the operation itself, with whatever result. *)
NativeEnds ==
  /\ op.stage = "context"
  /\ op' = NoOp
  /\ UNCHANGED <<world, broker, bound, books, start, stopped>>

(* A wait inside obtain or quiesce ends: at its deadline, or aborted, in   *)
(* which case the caller's own startup is aborted as well.                 *)
GivesUp ==
  /\ op.stage \in {"obtain", "owner", "quiesce"}
  /\ op' = NoOp
  /\ IF op.stage = "owner" THEN start' = start \/ Cut ELSE UNCHANGED start
  /\ UNCHANGED <<world, broker, bound, books, stopped>>

(* quiesce refuses: a close() has settled and no exit was seen. *)
Refused ==
  /\ op.stage \in {"obtain", "quiesce"}
  /\ op.stage = "obtain" => start = NoStart
  /\ settled \cap Pruned(retiring) # {}
  /\ Prune
  /\ op' = NoOp
  /\ UNCHANGED <<world, broker, bound, session, selected, start, stopped, history>>

(* quiesce returns, and the worker or the desktop helper is sent. *)
Quiesced ==
  /\ op.stage = "quiesce" /\ ~stopped
  /\ start = NoStart /\ Pruned(retiring) = {}
  /\ Prune
  /\ op' = [op EXCEPT !.stage = "acting"]
  /\ UNCHANGED <<world, broker, bound, session, selected, start, stopped, history>>

(* withQtNativeLifecycle: beforeWorker *)
WorkerCall ==
  /\ Begins("worker", "quiesce", None)
  /\ UNCHANGED <<world, broker, bound, books, start, stopped>>

(* The sessions that afterWorker may drop: none after a failure or an      *)
(* operation that leaves the product alone, else those of the process or   *)
(* the window that the result names, or all.                               *)
Named ==
  {{}, Windows} \cup {{w} : w \in Windows}
    \cup {{w \in Windows : session[w] # 0 /\ bound[session[w]].process = p} : p \in Processes}

WorkerEnds ==
  /\ op.kind = "worker" /\ op.stage = "acting"
  /\ \/ \E ws \in Named : /\ Drop(ws)
                          /\ selected' \in {None, Unless(ws)}
     \/ UNCHANGED <<books, start>>
  /\ op' = NoOp
  /\ UNCHANGED <<world, broker, bound, stopped>>

(* desktopStart and desktopStop give all sessions up first. *)
DesktopCall ==
  /\ Begins("desktop", "quiesce", None)
  /\ Drop(Windows) /\ selected' = None
  /\ UNCHANGED <<world, broker, bound, stopped>>

DesktopEnds ==
  /\ op.kind = "desktop" /\ op.stage = "acting"
  /\ op' = NoOp
  /\ UNCHANGED <<world, broker, bound, books, start, stopped>>

(* close(), when the API shuts down. *)
Close ==
  /\ ~stopped
  /\ stopped' = TRUE
  /\ Drop(Windows) /\ selected' = None
  /\ UNCHANGED <<world, broker, bound, op>>

QtNext ==
  \/ \E w \in Windows :
       \/ \E p \in Processes : OpenWindow(w, p)
       \/ Rediscovered(w) \/ Discovered(w)
  \/ \E w \in Windows \cup {None} : NativeCall(w)
  \/ \E p \in Processes : ProcessEnds(p)
  \/ \E b \in Brokers : BrokerExits(b) \/ Settle(b)
  \/ DiscoveryFails \/ BrokerReady \/ StartupFails \/ GraceOver \/ Attached
  \/ ObtainRetained \/ ObtainStart \/ NativeEnds \/ GivesUp \/ Refused \/ Quiesced
  \/ WorkerCall \/ WorkerEnds \/ DesktopCall \/ DesktopEnds \/ Close

QtSpec == QtInit /\ [][QtNext]_vars

-----------------------------------------------------------------------------
(* Properties. *)

Targets == [window : Windows \cup {None}, process : Processes \cup {None}]

QtTypeOK ==
  /\ owner \in [Windows -> Processes \cup {None}]
  /\ living \subseteq Processes
  /\ broker \in [Brokers -> {"unused", "running", "exited"}]
  /\ bound \in [Brokers -> Targets]
  /\ session \in [Windows -> 0 .. MaxBrokers]
  /\ selected \in Windows \cup {None}
  /\ retiring \subseteq Brokers
  /\ settled \subseteq retiring
  /\ start \in [stage : {"none", "discover", "spawned", "ready", "grace"},
                want : Windows \cup {None}, broker : 0 .. MaxBrokers, cut : BOOLEAN]
  /\ op \in [kind : {"none", "native", "worker", "desktop"},
             stage : {"none", "obtain", "owner", "context", "quiesce", "acting"},
             want : Windows \cup {None}]
  /\ stopped \in BOOLEAN
  /\ history \in [Brokers -> {"new", "held", "dropped"}]

Running == {b \in Brokers : broker[b] = "running"}

(* No broker process is forgotten: each that runs is held for the window   *)
(* it was started for, is being retired, or belongs to the startup, and    *)
(* never two of these.  The selected window is one with a session, and the *)
(* limit is kept.  Never do two brokers run for one product process, not   *)
(* even while one of them is given up: two bridges would share its GUI     *)
(* thread.                                                                 *)
BrokersAccounted ==
  /\ QtTypeOK
  /\ Running \subseteq Held \cup retiring \cup {start.broker}
  /\ Held \cap retiring = {} /\ start.broker \notin Held \cup retiring
  /\ \A w \in Windows : session[w] # 0 => bound[session[w]].window = w
  /\ selected # None => session[selected] # 0
  /\ Cardinality(Held) <= MaxSessions
  /\ \A b, c \in Running : bound[b].process = bound[c].process => b = c

(* While a worker or a desktop helper acts, no startup is under way and no *)
(* broker that was given up still runs; beside a desktop helper no broker  *)
(* runs at all.  Only the shutdown may retire sessions meanwhile.          *)
WorkBehindCleanup ==
  op.stage = "acting" =>
    /\ start = NoStart
    /\ ~stopped => Running \cap retiring = {}
    /\ op.kind = "desktop" => Running = {}

(* No silent reconnect: a process that had a session gets another broker   *)
(* only after a change of life cycle dropped that session, so that no      *)
(* later request can repeat work whose outcome is unknown.                 *)
NoSilentReconnect ==
  [][\A b, c \in Brokers :
       /\ broker[b] = "unused" /\ broker'[b] = "running"
       /\ bound[c].process = bound'[b].process
       => history[c] # "held"]_vars

=============================================================================
