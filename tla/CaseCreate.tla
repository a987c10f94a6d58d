----------------------------- MODULE CaseCreate -----------------------------
(***************************************************************************)
(* case_create: the program is started, its start assistant is walked      *)
(* through and the new case is saved (src/src/case-create-executor.ts and  *)
(* case-create-state.ts; the start is LaunchCase's).  After a failure the  *)
(* started program is ended without saving, unless something in it may     *)
(* still be wanted or may still happen.                                    *)
(*                                                                         *)
(* The reply to a step is the worker's: done; refused, nothing happened;   *)
(* interference, a person was there first; lost, which proves nothing.     *)
(***************************************************************************)
EXTENDS LaunchCase

VARIABLES
  file,      \* the target: absent, ours, foreign
  flight,    \* an input whose reply was lost and that may still take effect
  menu,      \* the save dialog is open
  cpc,       \* the next step of the executor
  pid, unconfirmed, pinned, roots,   \* pid > 0, startupWindowUnconfirmed, uiaRootPinnedHwnd, uiaRootFailures
  lacking,   \* waitingForCaseWindow
  why,       \* the marks of the failure
  canswer

cworld == <<file, flight, menu>>
clocal == <<pid, unconfirmed, pinned, roots, lacking>>
ccvars == <<lcvars, cworld, cpc, clocal, why, canswer>>

FailureMarks == LaunchMarks \union
  {"thrown", "reconcile", "interference", "instances", "launched", "created", "ended", "failed"}

CaseTypeOK ==
  /\ LaunchTypeOK
  /\ file \in {"absent", "ours", "foreign"} /\ flight \in {"none", "input", "save"} /\ menu \in BOOLEAN
  /\ cpc \in {"idle", "args", "before", "desktop", "launch", "launching", "find", "dialogs", "uistate", "page", "wait",
              "subpages", "begin", "choose", "next", "menu", "dialog", "menuclose", "select", "bound", "failed",
              "close", "status", "done"}
  /\ {pid, unconfirmed, pinned, lacking} \subseteq BOOLEAN /\ roots \in 0..3
  /\ why \subseteq FailureMarks /\ canswer \subseteq FailureMarks

CaseInit(start) ==
  /\ LaunchInit
  /\ file = "absent" /\ flight = "none" /\ menu = FALSE /\ cpc = start
  /\ pid = FALSE /\ unconfirmed = FALSE /\ pinned = FALSE /\ roots = 0 /\ lacking = FALSE
  /\ why = {} /\ canswer = {}

-----------------------------------------------------------------------------
(* The environment. *)

SomebodySaves == file = "absent" /\ file' = "foreign" /\ UNCHANGED <<flight, menu>>

(* What was sent before its reply was lost still happens. *)
InputLands ==
  /\ flight # "none" /\ sse = "running" /\ flight' = "none"
  /\ file' = IF flight = "save" /\ file = "absent" THEN "ours" ELSE file
  /\ UNCHANGED menu

CaseDisturbed ==
  /\ UNCHANGED <<cpc, clocal, why, canswer>>
  /\ \/ LaunchDisturbed /\ UNCHANGED cworld
     \/ (SomebodySaves \/ InputLands) /\ UNCHANGED lcvars

-----------------------------------------------------------------------------
(* Steps and their failures. *)

Goes(where) == cpc' = where /\ UNCHANGED <<why, canswer>>
FailsWith(marks) == cpc' = "failed" /\ why' = marks /\ UNCHANGED canswer
Preserve == {"preserved", "unknown", "reconcile"}

MustPreserveFailedCase(marks) ==
  marks \intersect {"thrown", "preserved", "unknown", "reconcile", "interference"} # {}

(* step(): nothing is sent after an abort or without time. *)
StepDenied == (stop \/ Over) /\ FailsWith(IF stop THEN {"aborted"} ELSE {})

(* A reading step that does not succeed: a reply that is lost leaves an    *)
(* unknown outcome once a process was started.                             *)
ReadFails(mark) ==
  \/ StepDenied
  \/ ~stop /\ ~Over /\ \E lost \in BOOLEAN :
       FailsWith(mark \union IF lost /\ pid THEN Preserve \ {"preserved"} ELSE {})

(* An input that does not succeed.  A lost reply leaves it in flight. *)
InputFails(kind) ==
  \/ StepDenied /\ UNCHANGED flight
  \/ /\ ~stop /\ ~Over
     /\ \/ UNCHANGED flight /\ \E marks \in {{}, {"interference"}} : FailsWith(marks)
        \/ flight' = kind /\ FailsWith({"unknown", "reconcile"})

-----------------------------------------------------------------------------
(* Before the start. *)

CheckArguments ==
  /\ cpc = "args"
  /\ UNCHANGED <<lcvars, cworld, clocal>>
  /\ \/ FailsWith({})
     \/ file = "absent" /\ Goes("before")

ReadBefore ==
  /\ cpc \in {"before", "desktop"}
  /\ UNCHANGED <<lcvars, cworld, clocal>>
  /\ \/ ~stop /\ ~Over /\ Goes(IF cpc = "before" THEN "desktop" ELSE "launch")
     \/ ReadFails({})

CallLaunch ==
  /\ cpc = "launch"
  /\ UNCHANGED <<world, cworld, clocal>>
  /\ \/ (stop \/ Tight) /\ FailsWith({}) /\ UNCHANGED llocal
     \/ ~stop /\ ~Tight /\ LaunchCalled /\ Goes("launching")

LaunchReturns ==
  /\ cpc = "launching" /\ lpc = "idle"
  /\ UNCHANGED <<lcvars, cworld, pinned, roots, lacking>>
  /\ IF "ok" \notin lanswer
       THEN UNCHANGED <<pid, unconfirmed>> /\ FailsWith(lanswer \union {"launched"})
       ELSE /\ pid' = TRUE /\ unconfirmed' = TRUE
            /\ IF "ready" \in lanswer THEN Goes("find")
               ELSE FailsWith((lanswer \ {"ok"}) \union {"preserved", "reconcile"})

-----------------------------------------------------------------------------
(* The start page is waited for. *)

(* instances: the window is taken only with the product's title.  A handle *)
(* pinned after a failed reading must be the same still.                   *)
FindWindow ==
  /\ cpc = "find"
  /\ UNCHANGED <<lcvars, cworld, pid, unconfirmed, pinned, roots>>
  /\ \/ ReadFails({"instances"}) /\ UNCHANGED lacking
     \/ /\ ~stop /\ ~Over
        /\ \/ sse = "running" /\ FailsWith(Preserve \union {"running"}) /\ UNCHANGED lacking
           \/ lacking' = TRUE /\ Goes("dialogs")
           \/ sse = "running" /\ shown # "recovered" /\ lacking' = FALSE /\ Goes("uistate")

(* dialog_list: an own dialog or an incomplete list keeps everything as it is. *)
ReadDialogs ==
  /\ cpc = "dialogs"
  /\ UNCHANGED <<lcvars, cworld, clocal>>
  /\ \/ ReadFails(Preserve)
     \/ ~stop /\ ~Over /\ FailsWith(Preserve)
     \/ ~stop /\ ~Over /\ shown # "dialog" /\ IF pinned THEN FailsWith(Preserve) ELSE Goes("page")

(* ui_state: the start page is confirmed, or read again; the third failure *)
(* to read the root of the tree is the last.                               *)
ReadState ==
  /\ cpc = "uistate"
  /\ UNCHANGED <<lcvars, cworld, pid, lacking>>
  /\ \/ ReadFails({}) /\ UNCHANGED <<unconfirmed, pinned, roots>>
     \/ /\ ~stop /\ ~Over /\ sse = "running"
        /\ \/ shown = "case" /\ unconfirmed' = FALSE /\ Goes("subpages") /\ UNCHANGED <<pinned, roots>>
           \/ Goes("page") /\ UNCHANGED <<unconfirmed, pinned, roots>>
           \/ \E marks \in {{}, Preserve} : FailsWith(marks) /\ UNCHANGED <<unconfirmed, pinned, roots>>
           \/ /\ roots' = roots + 1 /\ pinned' = TRUE /\ UNCHANGED unconfirmed
              /\ IF roots' = 3 THEN FailsWith({}) ELSE Goes("page")

NextLook ==
  /\ cpc = "page"
  /\ UNCHANGED <<lcvars, cworld, clocal>>
  /\ IF clock >= 3 THEN FailsWith(IF lacking THEN Preserve ELSE {})
     ELSE IF stop THEN FailsWith({"aborted"}) ELSE Goes("find")

-----------------------------------------------------------------------------
(* Through the assistant. *)

ReadSubpages ==
  /\ cpc = "subpages"
  /\ UNCHANGED <<lcvars, cworld, clocal>>
  /\ \/ ~stop /\ ~Over /\ sse = "running" /\ Goes("begin")
     \/ ReadFails({})
     \/ ~stop /\ ~Over /\ FailsWith({"thrown", "unknown"})

AfterClick == [begin |-> "choose", choose |-> "next", next |-> "menu"]
ClickThrough ==
  /\ cpc \in DOMAIN AfterClick
  /\ UNCHANGED <<lcvars, file, menu, clocal>>
  /\ \/ ~stop /\ ~Over /\ sse = "running" /\ UNCHANGED flight /\ (Goes(AfterClick[cpc]) \/ FailsWith({}))
     \/ InputFails("input")

(* The menu entry opens the save dialog, by one worker call; what the      *)
(* worker does not confirm is kept.                                        *)
OpenSaveDialog ==
  /\ cpc = "menu"
  /\ UNCHANGED <<lcvars, file, clocal>>
  /\ \/ /\ ~stop /\ ~Over /\ sse = "running" /\ UNCHANGED flight
        /\ \/ menu' = TRUE /\ Goes("dialog")
           \/ menu' \in BOOLEAN /\ FailsWith(Preserve)
     \/ UNCHANGED menu /\ StepDenied /\ UNCHANGED flight
     \/ /\ UNCHANGED menu /\ ~stop /\ ~Over
        /\ \/ UNCHANGED flight /\ cpc' = "menuclose" /\ why' = {} /\ UNCHANGED canswer
           \/ UNCHANGED flight /\ FailsWith({"interference"})
           \/ flight' = "input" /\ \E marks \in {{"unknown", "reconcile"}, Preserve} : FailsWith(marks)

(* A refused menu is closed again, unless that fails too. *)
CloseMenu ==
  /\ cpc = "menuclose"
  /\ UNCHANGED <<lcvars, file, menu, clocal>>
  /\ \/ ~stop /\ ~Over /\ UNCHANGED flight /\ FailsWith({})
     \/ UNCHANGED flight /\ \E unknown \in BOOLEAN :
          FailsWith({"preserved", "reconcile"} \union IF unknown THEN {"unknown"} ELSE {})
     \/ ~stop /\ ~Over /\ flight' = "input" /\ FailsWith(Preserve)

AwaitSaveDialog ==
  /\ cpc = "dialog"
  /\ UNCHANGED <<lcvars, cworld, clocal>>
  /\ \/ ~stop /\ ~Over /\ menu /\ Goes("select")
     \/ FailsWith(Preserve)

SelectFile ==
  /\ cpc = "select"
  /\ UNCHANGED <<lcvars, clocal>>
  /\ \/ /\ ~stop /\ ~Over /\ sse = "running" /\ menu' = FALSE /\ UNCHANGED flight
        /\ \/ file = "absent" /\ file' = "ours" /\ (Goes("bound") \/ FailsWith({}))
           \/ UNCHANGED file /\ FailsWith({})
     \/ UNCHANGED <<file, menu>> /\ InputFails("save")

(* The saved file must be the one of the open window, with the hash of the dialog. *)
ReadBound ==
  /\ cpc = "bound"
  /\ UNCHANGED <<lcvars, cworld, clocal>>
  /\ \/ /\ ~stop /\ ~Over /\ sse = "running"
        /\ cpc' = "done" /\ canswer' = {"ok", "created", "running"} /\ UNCHANGED why
     \/ FailsWith({}) \/ ReadFails({"instances"})

-----------------------------------------------------------------------------
(* What was thrown is brought into the answer, and the process is ended or kept. *)

(* An uncertain failure is answered, but does not keep the process. *)
BuggyNormalizeFailure(marks) ==
  LET kept == IF ~pid \/ ~unconfirmed \/ "preserved" \in marks THEN {} ELSE {"preserved", "reconcile"}
      pidless == IF ~pid /\ "launched" \in marks /\ "unchanged" \notin marks THEN Preserve ELSE {}
  IN marks \union kept \union pidless

(* Until the start page is confirmed nothing is thrown away; a start that  *)
(* gave no PID stays unknown; an uncertain failure is kept.                *)
NormalizeFailure(marks) ==
  LET kept == IF ~pid \/ ~unconfirmed \/ "preserved" \in marks THEN {}
              ELSE {"preserved", "reconcile"}
                   \union IF stop \/ marks \intersect {"aborted", "instances"} # {} THEN {"unknown"} ELSE {}
      pidless == IF ~pid /\ "launched" \in marks /\ "unchanged" \notin marks THEN Preserve ELSE {}
      uncertain == IF pid /\ MustPreserveFailedCase(marks) THEN {"preserved", "reconcile"} ELSE {}
  IN marks \union kept \union pidless \union uncertain

CaseFails ==
  /\ cpc = "failed"
  /\ UNCHANGED <<lcvars, cworld, clocal>>
  /\ why' = NormalizeFailure(why)
  /\ LET created == IF file # "absent" THEN {"created"} ELSE {}
         still == IF pid /\ "preserved" \notin why' THEN {"running"} ELSE {}
     IN IF pid /\ created = {} /\ "preserved" \notin why'
          THEN cpc' = "close" /\ UNCHANGED canswer
          ELSE cpc' = "done" /\ canswer' = {"failed"} \union why' \union created \union still

(* cleanupStartedProcess: the end is believed only when both lists of      *)
(* processes lack the PID.                                                 *)
CloseStarted ==
  /\ cpc = "close"
  /\ cpc' = "status" /\ sse' \in IF sse = "running" THEN {"running", "gone"} ELSE {sse}
  /\ UNCHANGED <<shown, clock, stop, llocal, cworld, clocal, why, canswer>>

(* A buggy reading: the end is believed because it was ordered. *)
BuggyStillRunning == BOOLEAN

StillRunning == IF sse = "running" THEN {TRUE} ELSE BOOLEAN

ReadProcesses ==
  /\ cpc = "status"
  /\ UNCHANGED <<lcvars, cworld, clocal, why>>
  /\ cpc' = "done"
  /\ \E still \in StillRunning :
       canswer' = {"failed"} \union why \union IF still THEN {"running"} ELSE {"ended"}

CaseStep ==
  \/ CheckArguments \/ ReadBefore \/ CallLaunch \/ LaunchReturns \/ FindWindow \/ ReadDialogs
  \/ ReadState \/ NextLook \/ ReadSubpages \/ ClickThrough \/ OpenSaveDialog \/ CloseMenu
  \/ AwaitSaveDialog \/ SelectFile \/ ReadBound \/ CaseFails \/ CloseStarted \/ ReadProcesses
  \/ LaunchStep /\ cpc = "launching" /\ UNCHANGED <<cworld, cpc, clocal, why, canswer>>

CaseNext == CaseStep \/ CaseDisturbed

-----------------------------------------------------------------------------
(* What must hold. *)

(* case-create-executor.ts:420-431: the program started for a case is      *)
(* ended by this code only while nothing could be lost by it: no input is  *)
(* still on its way, nothing was saved by this operation, and the program  *)
(* shows what the executor put there, not a question or a recovered case.  *)
EndedOnlyIfNothingLost ==
  [][(cpc = "close" /\ sse = "running" /\ sse' = "gone" /\ cpc' = "status")
       => flight = "none" /\ file # "ours" /\ shown = "case"]_ccvars

(* The answer of case_create is true of the file and of the process: "ok"  *)
(* only with the file written by it, "ended" only when the process is      *)
(* gone, a live process or a written file never passed over in silence,    *)
(* and an input that may still land always an unknown outcome.             *)
CaseAnswerIsTrue ==
  cpc = "done" =>
    /\ "ok" \in canswer => file = "ours"
    /\ "ended" \in canswer => sse # "running"
    /\ sse = "running" => canswer \intersect {"ok", "running", "preserved"} # {}
    /\ flight # "none" => "unknown" \in canswer
    /\ file = "ours" => canswer \intersect {"created", "unknown"} # {}

(* The answer of launch: a process that runs is either ready or reported   *)
(* as kept, and "nothing happened" is said only when none was started.     *)
LaunchAnswerIsTrue ==
  lanswer # {} /\ lpc = "idle" =>
    /\ sse = "running" => lanswer \intersect {"ready", "preserved"} # {}
    /\ "unchanged" \in lanswer => sse = "none"

=============================================================================
