----------------------------- MODULE LaunchCase -----------------------------
(***************************************************************************)
(* launch: SteuerSparErklaerung is started once and then only looked at    *)
(* until its window is there, a question stands in the way, or the time    *)
(* is up (src/src/launch-executor.ts).  The answer must not read as "try   *)
(* again" while a process may be running.                                  *)
(*                                                                         *)
(* The program itself, what it shows, and the reply of a worker are the    *)
(* environment: a worker's reply may be lost whether or not the program    *)
(* was started.                                                            *)
(***************************************************************************)
EXTENDS Naturals, FiniteSets

CONSTANT MaxHandovers   \* MAXIMUM_LAUNCH_PROBE_HANDOVER_RETRIES

ASSUME HandoversAssumption == MaxHandovers \in Nat

VARIABLES
  sse,         \* the program: none, running, gone
  shown,       \* what it shows: a start frame, a narrow prompt, a recovered case, a dialog, a case
  clock,       \* how much of the time budget is used up: 0 (more than 90 s left) .. 4 (less than 2 s)
  stop,        \* the client has given up
  lpc, lseen,  \* what the executor does next; what the last probe saw
  prompts, unstable,    \* lastStartupPrompts is not empty; mainWindowSeenUnstable
  handovers,   \* probeHandoverRetries
  lanswer      \* the marks of the answer

world == <<sse, shown, clock, stop>>
llocal == <<lpc, lseen, prompts, unstable, handovers, lanswer>>
lcvars == <<world, llocal>>

Screens == {"frame", "prompt", "recovered", "dialog", "case"}
LaunchMarks == {"ok", "ready", "blocked", "preserved", "unknown", "running", "pid", "unchanged", "aborted", "question"}
Tight == clock >= 1       \* less than 90 s
LaunchOver == clock >= 2  \* less than 60 s: the launch within case_create is over
Over == clock = 4

LaunchTypeOK ==
  /\ sse \in {"none", "running", "gone"} /\ shown \in Screens
  /\ clock \in 0..4 /\ stop \in BOOLEAN
  /\ lpc \in {"idle", "start", "probe", "judge", "failed"}
  /\ lseen \in Screens \union {"nothing", "fresh", "failed"}
  /\ {prompts, unstable} \subseteq BOOLEAN /\ handovers \in 0..MaxHandovers
  /\ lanswer \subseteq LaunchMarks

LaunchInit ==
  /\ sse = "none" /\ shown = "frame" /\ clock = 0 /\ stop = FALSE
  /\ lpc = "idle" /\ lseen = "nothing" /\ prompts = FALSE /\ unstable = FALSE
  /\ handovers = 0 /\ lanswer = {}

-----------------------------------------------------------------------------
(* The environment. *)

Tick == clock < 4 /\ clock' = clock + 1 /\ UNCHANGED <<sse, shown, stop, llocal>>
ClientStops == ~stop /\ stop' = TRUE /\ UNCHANGED <<sse, shown, clock, llocal>>
SseEnds == sse = "running" /\ sse' = "gone" /\ UNCHANGED <<shown, clock, stop, llocal>>

(* The start frame gives way to a case or to a question, which a person answers. *)
SseShows ==
  /\ sse = "running"
  /\ \/ shown = "frame" /\ shown' \in Screens \ {"frame"}
     \/ shown \in {"prompt", "dialog"} /\ shown' \in {"case", "recovered"}
  /\ UNCHANGED <<sse, clock, stop, llocal>>

LaunchDisturbed == Tick \/ ClientStops \/ SseEnds \/ SseShows

-----------------------------------------------------------------------------
(* Preservation proves that this executor did not close; it does not prove liveness. *)
PreservedLaunchState(pidKnown, still) ==
  {"preserved", "unknown"} \union (IF pidKnown THEN {"pid"} ELSE {}) \union (IF still THEN {"running"} ELSE {})

LaunchAnswers(marks) ==
  lpc' = "idle" /\ lanswer' = marks /\ UNCHANGED <<lseen, prompts, unstable, handovers>>

LaunchCalled ==
  /\ lpc' = "start" /\ lseen' = "nothing" /\ prompts' = FALSE /\ unstable' = FALSE
  /\ handovers' = 0 /\ lanswer' = {}

(* The worker starts the program: it says so, with or without a usable     *)
(* PID; it says that nothing happened; or its reply proves nothing.        *)
StartProgram ==
  /\ lpc = "start"
  /\ UNCHANGED <<shown, clock, stop>>
  /\ \/ sse' = "running" /\ ~stop /\ lpc' = "probe" /\ UNCHANGED <<lseen, prompts, unstable, handovers, lanswer>>
     \/ sse' = "running" /\ stop /\ LaunchAnswers({"aborted"} \union PreservedLaunchState(TRUE, FALSE))
     \/ sse' = "running" /\ LaunchAnswers(PreservedLaunchState(FALSE, FALSE))
     \/ UNCHANGED sse /\ LaunchAnswers({"unchanged"})
     \/ /\ sse' \in {sse, "running"}
        /\ \E known \in BOOLEAN : LaunchAnswers(PreservedLaunchState(known, FALSE))

(* One launch_probe, which only reads.  A read that must be made afresh    *)
(* leads to another probe; a worker that was lost or found the controller  *)
(* busy is replaced a few times in a row; everything else ends the loop.   *)
Looks(where, seen, asked) ==
  lpc' = where /\ lseen' = seen /\ handovers' = asked /\ UNCHANGED <<world, lanswer>>
Probe ==
  /\ lpc = "probe"
  /\ \/ LaunchOver /\ Looks("judge", lseen, handovers) /\ UNCHANGED <<prompts, unstable>>
     \/ /\ ~LaunchOver
        /\ \E seen \in IF sse = "running" THEN {shown, "nothing"} ELSE {"nothing"} : Looks("judge", seen, 0)
        /\ unstable' \in {unstable, TRUE} /\ UNCHANGED prompts
     \/ /\ ~LaunchOver /\ Looks("probe", "fresh", 0)
        /\ prompts' \in {prompts, sse = "running" /\ shown = "prompt"} /\ unstable' \in {unstable, TRUE}
     \/ /\ ~LaunchOver /\ ~stop /\ handovers < MaxHandovers
        /\ Looks("probe", "failed", handovers + 1) /\ UNCHANGED <<prompts, unstable>>
     \/ /\ ~LaunchOver
        /\ \E where \in {"judge", "failed"} : Looks(where, "failed", handovers)
        /\ UNCHANGED <<prompts, unstable>>

(* The last look decides.  A narrow window is a question, whatever its     *)
(* title says, unless a case window was seen to come and go; a recovered   *)
(* case is not the file that was verified.                                 *)
LastPrompts == IF lseen \in {"fresh", "failed"} THEN prompts ELSE lseen = "prompt"
JudgeLaunch ==
  /\ lpc = "judge"
  /\ UNCHANGED world
  /\ \/ stop /\ LaunchAnswers({"aborted"} \union PreservedLaunchState(TRUE, FALSE))
     \/ ~stop /\ lseen = "recovered" /\ LaunchAnswers(PreservedLaunchState(TRUE, TRUE))
     \/ ~stop /\ lseen = "dialog" /\ LaunchAnswers({"ok", "blocked"} \union PreservedLaunchState(TRUE, TRUE))
     \/ ~stop /\ lseen = "case" /\ LaunchAnswers({"ok", "ready", "pid"})
     \/ ~stop /\ lseen = "case" /\ LaunchAnswers({"ok"} \union PreservedLaunchState(TRUE, TRUE))
     \/ /\ ~stop /\ lseen \notin {"recovered", "dialog", "case"}
        /\ LaunchAnswers((IF LastPrompts /\ ~unstable THEN {"question"} ELSE {})
                          \union PreservedLaunchState(TRUE, LastPrompts /\ ~unstable /\ lseen = "prompt"))

ProbeThrew ==
  /\ lpc = "failed"
  /\ UNCHANGED world
  /\ \E aborted \in {stop, TRUE} :
       LaunchAnswers((IF aborted THEN {"aborted"} ELSE {}) \union PreservedLaunchState(TRUE, FALSE))

LaunchStep == StartProgram \/ Probe \/ JudgeLaunch \/ ProbeThrew

=============================================================================
