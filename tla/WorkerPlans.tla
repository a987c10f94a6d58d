---------------------------- MODULE WorkerPlans ----------------------------
(***************************************************************************)
(* Operations that compile their arguments into one plan for one worker    *)
(* call and answer for whatever became of it: checker_open, fill_fields,   *)
(* receipt_manager_bulk_upsert, and page_objects, which is answered from   *)
(* the catalog and falls back to the worker.                               *)
(***************************************************************************)
EXTENDS Naturals

CONSTANT PlanWrites     \* bound: changes a plan makes to the application

(* A plan makes at least one change.                                       *)
ASSUME PlanAssumption == PlanWrites \in Nat \ {0}

VARIABLES
  plan,       \* the operation
  tpc,        \* where it stands
  departed,   \* signal.aborted
  spent,      \* the local part has used up the time
  planChanges,    \* changes the worker has made
  planCalls,      \* worker processes used
  tanswer     \* the answer: ok, kind, resultingState, cleanupRequired

tvars == <<plan, tpc, departed, spent, planChanges, planCalls, tanswer>>

Plans == {"checker_open", "fill_fields", "receipt_manager_bulk_upsert"}
NoAnswer == [ok |-> FALSE, kind |-> "none", state |-> "none", cleanup |-> FALSE]

PlanInit(start) ==
  /\ plan = start
  /\ tpc = "check" /\ departed \in BOOLEAN /\ spent = FALSE
  /\ planChanges = 0 /\ planCalls = 0 /\ tanswer = NoAnswer

Answers(kind, state, cleanupRequired) ==
  /\ tpc' = "done"
  /\ tanswer' = [ok |-> kind = "ok", kind |-> kind, state |-> state, cleanup |-> cleanupRequired]

---------------------------------------------------------------------------
(* executeFillFieldsPlan and resolveReceiptManagerBulkReferences refuse an *)
(* unknown page or field, or a reference that does not resolve, before the *)
(* worker is asked.                                                        *)
FillFieldsPlan ==
  /\ plan = "fill_fields" /\ tpc = "check"
  /\ \/ Answers("bad-args", "none", FALSE)
     \/ tpc' = "call" /\ UNCHANGED tanswer
  /\ UNCHANGED <<plan, departed, spent, planChanges, planCalls>>

ResolveReceiptReferences ==
  /\ plan = "receipt_manager_bulk_upsert" /\ tpc = "check"
  /\ \/ Answers("bad-args", "none", FALSE)
     \/ tpc' = "call" /\ UNCHANGED tanswer
  /\ UNCHANGED <<plan, departed, spent, planChanges, planCalls>>

(* failedPlan without a worker process: nothing was changed.               *)
ExecuteCheckerOpen ==
  /\ plan = "checker_open" /\ tpc = "check"
  /\ IF departed THEN Answers("aborted", "unchanged", FALSE)
     ELSE tpc' = "call" /\ UNCHANGED tanswer
  /\ UNCHANGED <<plan, departed, spent, planChanges, planCalls>>

(* The worker carries the plan out, whole or in part.                      *)
WorkerActs ==
  /\ tpc = "call"
  /\ planCalls' = 1 /\ planChanges' \in 0..PlanWrites /\ tpc' = "reply"
  /\ UNCHANGED <<plan, departed, spent, tanswer>>

(* Its own account of what it has done reaches the executor.               *)
FinishPlan ==
  /\ tpc = "reply"
  /\ \/ planChanges = PlanWrites
        /\ Answers("ok", IF plan = "checker_open" THEN "detail-verified" ELSE "verified", FALSE)
     \/ Answers("failed", IF planChanges = 0 THEN "unchanged" ELSE "unknown", planChanges > 0)
  /\ UNCHANGED <<plan, departed, spent, planChanges, planCalls>>

(* failedPlan with a worker process, finishUnknown and the catch of        *)
(* executeReceiptManagerBulkPlan: the reply is lost.                       *)
BuggyFinishUnknown == Answers("worker", "unchanged", FALSE)
FinishUnknown == Answers("worker", "unknown", TRUE)

ReplyLost ==
  /\ tpc = "reply" /\ FinishUnknown
  /\ UNCHANGED <<plan, departed, spent, planChanges, planCalls>>

(* The PowerShell trap turns an unexpected exception into a result of its  *)
(* own, "worker-init", which says nothing of what was written before: only *)
(* fill_fields and checker_open take it for unknown.                       *)
Trapped ==
  /\ tpc = "reply"
  /\ IF plan = "receipt_manager_bulk_upsert"
     THEN Answers("worker-init", "none", FALSE)
     ELSE Answers("worker-init", "unknown", TRUE)
  /\ UNCHANGED <<plan, departed, spent, planChanges, planCalls>>

---------------------------------------------------------------------------
(* executeLocalPageObjects: the catalog is loaded for every call; what it  *)
(* cannot decide goes to the worker with the time that is left.            *)
LocalStopped == departed \/ spent

PageObjects ==
  /\ plan = "page_objects" /\ tpc = "check"
  /\ IF LocalStopped THEN Answers(IF departed THEN "aborted" ELSE "timeout", "none", FALSE)
     ELSE \/ Answers("ok", "none", FALSE)
          \/ Answers("unknown-page-object", "none", FALSE)
          \/ tpc' = "fallback" /\ UNCHANGED tanswer
  /\ UNCHANGED <<plan, departed, spent, planChanges, planCalls>>

(* executeWorkerFallback.                                                  *)
WorkerFallback ==
  /\ tpc = "fallback"
  /\ \/ Answers("timeout", "none", FALSE) /\ UNCHANGED planCalls  \* less than two seconds are left
     \/ planCalls' = 1 /\ \E kind \in {"ok", "unknown-page-object", "worker"}: Answers(kind, "none", FALSE)
  /\ UNCHANGED <<plan, departed, spent, planChanges>>

LocalDelay ==
  /\ tpc \in {"check", "call", "reply"} /\ ~LocalStopped
  /\ \/ departed' = TRUE /\ UNCHANGED spent
     \/ spent' = TRUE /\ UNCHANGED departed
  /\ UNCHANGED <<plan, tpc, planChanges, planCalls, tanswer>>

PlanNext ==
  \/ FillFieldsPlan \/ ResolveReceiptReferences \/ ExecuteCheckerOpen
  \/ WorkerActs \/ FinishPlan \/ ReplyLost \/ Trapped
  \/ PageObjects \/ WorkerFallback \/ LocalDelay

---------------------------------------------------------------------------
PlanTypeOK ==
  /\ plan \in Plans \cup {"page_objects", "none"} /\ planChanges \in 0..PlanWrites /\ planCalls \in 0..1

(* "unchanged" is answered only of an application no plan has touched; an  *)
(* application that was touched without a verified end is handed back with *)
(* the order to clean it up, except by the bulk plan of the receipt        *)
(* manager whose worker was trapped (bulk-plan-executor.ts,                *)
(* checker-executor.ts failedPlan).                                        *)
PlanAnswerIsTrue ==
  tpc = "done" =>
    /\ tanswer.state = "unchanged" => planChanges = 0
    /\ planChanges > 0 /\ ~tanswer.ok /\ plan \in Plans
         => tanswer.cleanup \/ tanswer.kind = "worker-init"
    /\ tanswer.ok /\ plan \in Plans => planChanges = PlanWrites
    /\ plan \in {"checker_open", "fill_fields"} /\ planChanges > 0 /\ ~tanswer.ok => tanswer.cleanup

=============================================================================
