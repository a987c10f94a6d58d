----------------------------- MODULE TableCursor -----------------------------
(***************************************************************************)
(* Reading a table by moving its cursor: by keys, one worker and one lease *)
(* for each (src/src/table-cursor-step.ts), by the native focus and one    *)
(* resumed walk, or by the older activation                                *)
(* (src/src/table-cursor-executor.ts).  After a failure no key is sent     *)
(* again, and an answer with a known outcome means that nothing moved.     *)
(***************************************************************************)
EXTENDS TablePosition

CONSTANT TableRows   \* how many rows the walk visits

ASSUME TableRowsAssumption == TableRows \in Nat \ {0}

VARIABLES
  seek,      \* seekToEnd: the walk is the search for a free row
  rpc,       \* the next step of the read
  sent,      \* the keys the workers acknowledged
  consumed,  \* the resumed walk has given the lease back
  reported,  \* handoverReported
  active,    \* activationSubmitted of the read: a bootstrap or an activation came first
  ranswer

rlocal == <<sent, consumed, reported, active>>
rvars == <<pvars, seek, rpc, rlocal, ranswer>>

RouteSteps == {"s-acquire", "s-focus", "s-key", "s-last", "s-release",
               "f-acquire", "f-focus", "f-resume", "f-last", "f-release", "l-activate", "l-resume", "l-last"}
ReadTypeOK ==
  /\ PositionTypeOK
  /\ seek \in BOOLEAN /\ {consumed, reported, active} \subseteq BOOLEAN /\ sent \in 0..TableRows
  /\ rpc \in {"idle", "prebind", "route", "seeking", "bootstrap", "settle", "done"} \union RouteSteps
  /\ ranswer \subseteq TableMarks

ReadInit ==
  /\ PositionInit
  /\ seek = FALSE /\ rpc = "idle" /\ sent = 0 /\ consumed = FALSE /\ reported = FALSE
  /\ active = FALSE /\ ranswer = {}

ReadCalled(end) ==
  /\ seek' = end /\ rpc' = "prebind" /\ sent' = 0 /\ consumed' = FALSE /\ reported' = FALSE
  /\ active' = FALSE /\ ranswer' = {}

-----------------------------------------------------------------------------
(* Answers. *)

ReadReturns(marks) == rpc' = "done" /\ ranswer' = marks

(* preservePriorActivation: what went before the failure stays submitted. *)
PreservePriorActivation(marks) ==
  marks \union If("ok" \notin marks /\ active', {"unknown", "reconcile"})

ReadThrows == ReadReturns(PreservePriorActivation({"failed"} \union If(active', {"unknown", "reconcile"})))
Unmoved == UNCHANGED <<tworld, plocal>>

-----------------------------------------------------------------------------
(* executeTableCursorRead *)

(* prebind, the session, the first complete model and the ping. *)
Prebind ==
  /\ rpc = "prebind"
  /\ Unmoved /\ UNCHANGED <<ppc, seek, rlocal>>
  /\ \/ rpc' = "route" /\ UNCHANGED ranswer
     \/ ReadThrows

Routes == {"s-acquire", "f-acquire", "l-activate", "bootstrap"}
ChooseRoute ==
  /\ rpc = "route"
  /\ UNCHANGED <<tworld, seek, rlocal, ranswer>>
  /\ IF seek THEN PositionCalled /\ rpc' = "seeking"
     ELSE \E route \in Routes :
            IF route = "bootstrap" THEN PositionCalled /\ rpc' = route
            ELSE rpc' = route /\ UNCHANGED <<ppc, plocal>>

SeekReturns ==
  /\ rpc = "seeking" /\ ppc = "idle"
  /\ Unmoved /\ UNCHANGED <<ppc, seek, rlocal>>
  /\ ReadReturns(pres)

BootstrapReturns ==
  /\ rpc = "bootstrap" /\ ppc = "idle"
  /\ Unmoved /\ UNCHANGED <<ppc, seek, sent, consumed, reported>>
  /\ active' = ("ok" \in pres \/ submitted)
  /\ IF "ok" \in pres THEN rpc' = "settle" /\ UNCHANGED ranswer
     ELSE ReadReturns(PreservePriorActivation(pres))

(* The model and the selection are read once more before the keys. *)
Settle ==
  /\ rpc = "settle"
  /\ Unmoved /\ UNCHANGED <<ppc, seek, rlocal>>
  /\ \/ table = "same" /\ rpc' = "s-acquire" /\ UNCHANGED ranswer
     \/ ReadThrows

-----------------------------------------------------------------------------
(* The lease of a route. *)

RouteAcquire(from, next, end) ==
  /\ rpc = from
  /\ UNCHANGED <<table, row, writes, moved, ppc, positioned, quiescent, noop, editor, seek, sent, consumed, active>>
  /\ \/ \E footer \in BOOLEAN : HandedOver(TRUE, TRUE) /\ submitted' = footer
        /\ reported' = TRUE /\ rpc' = next /\ pres' = {} /\ UNCHANGED ranswer
     \/ \E footer, kept \in BOOLEAN : HandedOver(kept, FALSE) /\ submitted' = footer
        /\ reported' = TRUE /\ rpc' = end /\ UNCHANGED ranswer
        /\ pres' = {"failed", "unknown"} \union If(footer \/ from = "f-acquire", {"reconcile"})
     \/ /\ UNCHANGED <<lease, held, unsure, submitted, reported, pres>>
        /\ \E marks \in {{}, {"unknown", "reconcile"}} :
             ReadReturns(PreservePriorActivation({"failed"} \union marks))

-----------------------------------------------------------------------------
(* executeNativeSteppedCursor *)

StepAcquire == RouteAcquire("s-acquire", "s-focus", "s-release")

StepThrows ==
  /\ rpc' = "s-release" /\ UNCHANGED ranswer
  /\ pres' = {"failed"} \union If(submitted' \/ sent' > 0 \/ unsure', {"unknown"})
                        \union If(submitted' \/ sent' > 0, {"reconcile"})

(* focusOnce, between two complete reads. *)
StepFocus ==
  /\ rpc = "s-focus"
  /\ UNCHANGED <<table, row, writes, moved, lease, ppc, held, unsure, positioned, quiescent, noop, editor, seek, rlocal>>
  /\ submitted' \in {submitted, TRUE}
  /\ \/ submitted' /\ table = "same" /\ rpc' = "s-key" /\ UNCHANGED <<ranswer, pres>>
     \/ StepThrows

(* One key: the lease goes to the worker and a new one comes back with the *)
(* checkpoint, which is compared with a complete read.                     *)
StepKey ==
  /\ rpc = "s-key"
  /\ UNCHANGED <<table, row, writes, ppc, submitted, positioned, quiescent, noop, editor, seek, consumed, reported, active>>
  /\ \/ UNCHANGED <<moved, lease, held, unsure, sent>> /\ StepThrows
     \/ /\ held /\ moved' = TRUE /\ sent' = sent + 1 /\ HandedOver(TRUE, TRUE)
        /\ \/ table = "same" /\ rpc' = (IF sent' = TableRows THEN "s-last" ELSE "s-focus")
              /\ UNCHANGED <<ranswer, pres>>
           \/ StepThrows
     \/ /\ held /\ moved' = TRUE /\ sent' \in {sent, sent + 1} /\ held' = FALSE
        /\ \/ lease' = "closed" /\ unsure' = FALSE /\ sent' > 0
           \/ lease' \in {"open", "closed"} /\ unsure' = TRUE
        /\ StepThrows

StepLast ==
  /\ rpc = "s-last"
  /\ UNCHANGED <<tworld, ppc, held, unsure, submitted, positioned, quiescent, noop, editor, seek, rlocal>>
  /\ \/ table = "same" /\ rpc' = "s-release" /\ pres' = {"ok"} /\ UNCHANGED ranswer
     \/ StepThrows

StepRelease ==
  /\ rpc = "s-release"
  /\ UNCHANGED <<table, row, writes, moved, ppc, submitted, positioned, quiescent, noop, editor, pres, seek, rlocal>>
  /\ held' = FALSE
  /\ IF held THEN \E given \in GivesBack : lease' = given.lease /\ unsure' = given.unsure
     ELSE UNCHANGED <<lease, unsure>>
  /\ ReadReturns(PreservePriorActivation((pres \ If(unsure', {"ok"}))
       \union If(unsure', {"failed", "cleanup", "reconcile"} \union If("ok" \in pres, {"unknown"}))))

-----------------------------------------------------------------------------
(* executeNativeCursorFocus *)

FocusAcquire == RouteAcquire("f-acquire", "f-focus", "f-release")
FocusThrows ==
  rpc' = "f-release" /\ pres' = {"failed", "unknown", "reconcile"} /\ UNCHANGED ranswer

FocusRoute ==
  /\ rpc = "f-focus"
  /\ UNCHANGED <<table, row, writes, moved, lease, ppc, held, unsure, positioned, quiescent, noop, editor, seek, rlocal>>
  /\ submitted' \in {submitted, TRUE}
  /\ \/ submitted' /\ table = "same" /\ rpc' = "f-resume" /\ UNCHANGED <<ranswer, pres>>
     \/ FocusThrows

(* resume walks the whole table.  releasedByEmit says that the worker has  *)
(* given the lease back; otherwise the executor tries it once.             *)
FocusResume ==
  /\ rpc = "f-resume"
  /\ UNCHANGED <<table, row, writes, ppc, held, unsure, submitted, positioned, quiescent, noop, editor, seek, sent, reported, active>>
  /\ moved' \in {moved, TRUE}
  /\ \/ lease' = "closed" /\ consumed' = TRUE /\ rpc' = "f-last" /\ UNCHANGED <<ranswer, pres>>
     \/ lease' = "closed" /\ consumed' = TRUE /\ FocusThrows
     \/ lease' \in {"open", "closed"} /\ consumed' = FALSE /\ FocusThrows

FocusLast ==
  /\ rpc = "f-last"
  /\ UNCHANGED <<tworld, ppc, held, unsure, submitted, positioned, quiescent, noop, editor, seek, rlocal>>
  /\ \/ table = "same" /\ rpc' = "f-release" /\ pres' = {"ok"} /\ UNCHANGED ranswer
     \/ FocusThrows

FocusRelease ==
  /\ rpc = "f-release"
  /\ UNCHANGED <<table, row, writes, moved, ppc, submitted, positioned, quiescent, noop, editor, pres, seek, rlocal>>
  /\ held' = FALSE
  /\ IF held /\ ~consumed THEN \E given \in GivesBack : lease' = given.lease /\ unsure' = given.unsure
     ELSE UNCHANGED lease /\ unsure' = (reported /\ ~held)
  /\ ReadReturns(pres \union If(unsure', {"cleanup", "reconcile"}))

-----------------------------------------------------------------------------
(* The activation of the viewport by a worker that takes and gives back    *)
(* the foreground itself.                                                  *)

Activate ==
  /\ rpc = "l-activate"
  /\ UNCHANGED <<table, row, writes, lease, ppc, plocal, seek, sent, consumed, reported>>
  /\ \/ active' = TRUE /\ moved' = TRUE /\ table = "same" /\ rpc' = "l-resume" /\ UNCHANGED ranswer
     \/ active' = TRUE /\ moved' \in {moved, TRUE} /\ ReadThrows
     \/ active' = TRUE /\ UNCHANGED moved /\ table = "same" /\ ReadReturns({"failed"})
     \/ active' = FALSE /\ UNCHANGED moved /\ ReadThrows

WalkActivated ==
  /\ rpc \in {"l-resume", "l-last"}
  /\ Unmoved /\ UNCHANGED <<ppc, seek, rlocal>>
  /\ \/ table = "same" /\ rpc = "l-resume" /\ rpc' = "l-last" /\ UNCHANGED ranswer
     \/ table = "same" /\ rpc = "l-resume" /\ ReadReturns({"failed", "unknown", "reconcile"})
     \/ rpc = "l-last" /\ ReadReturns({"ok"})
     \/ ReadThrows

ReadStep ==
  \/ Prebind \/ ChooseRoute \/ SeekReturns \/ BootstrapReturns \/ Settle
  \/ StepAcquire \/ StepFocus \/ StepKey \/ StepLast \/ StepRelease
  \/ FocusAcquire \/ FocusRoute \/ FocusResume \/ FocusLast \/ FocusRelease
  \/ Activate \/ WalkActivated
  \/ rpc \in {"seeking", "bootstrap"} /\ PositionStep /\ UNCHANGED <<seek, rpc, rlocal, ranswer>>

=============================================================================
