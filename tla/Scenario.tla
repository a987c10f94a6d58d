------------------------------ MODULE Scenario ------------------------------
(***************************************************************************)
(* scenario_run: scenario.ts plays the steps of a file one after the other *)
(* through the executor, then the cleanup steps, and writes one report     *)
(* that must not replace a file.  Time passes in units of 200 ms, the      *)
(* least a step is given; what happens between two steps takes none.       *)
(***************************************************************************)
EXTENDS Integers, Sequences, SequencesExt

CONSTANTS
  TotalBudget,    \* totalTimeoutMs
  MainSteps,      \* steps a file may name under "steps" ...
  FinallySteps,   \* ... and under "finally"
  Length,         \* bound: steps of a phase
  Overrun         \* bound: units a call may return after its timeout

(* The schema takes a total of at least one unit and at most 100 steps of  *)
(* a phase; a step is a record of its class, continueOnError, timeoutMs    *)
(* (0: none given) and the main step its arguments refer to (0: none).     *)
ScenarioStep == [class: {"read", "write", "cleanup", "banned"}, continue: BOOLEAN,
                 timeout: Nat, ref: Nat]
ASSUME ScenarioAssumption ==
  /\ TotalBudget \in Nat \ {0} /\ Length \in 1 .. 100 /\ Overrun \in Nat
  /\ MainSteps \subseteq ScenarioStep /\ FinallySteps \subseteq ScenarioStep

VARIABLES
  scn,        \* the parsed file: version, main and finally steps
  spc,        \* phase of runScenario
  elapsed,      \* units since startedAt
  left,       \* signal.aborted
  steps,      \* records of the main steps
  cleanup,    \* records of the cleanup steps
  executed,   \* calls of the executor, in order: phase and place of the step
  prior,      \* priorResults: main steps that have a result
  overran,    \* a call has returned after its timeout
  target,     \* what is at resultRef: nothing, a foreign file, a report
  fallback,   \* what is at the name made from the report's hash
  large,      \* the report with every detail exceeds MAX_TEXT_FILE_BYTES
  faults,     \* a write has failed for another reason than its name
  sanswer     \* the answer: ok, the file it names, a conflict

scvars == <<scn, spc, elapsed, left, steps, cleanup, executed, prior, overran,
            target, fallback, large, faults, sanswer>>

Ok(records) == \A i \in DOMAIN records: records[i] = "ok"
Place(phase, i) == [phase |-> phase, place |-> i]
Executed(phase, i) == Contains(executed, Place(phase, i))

---------------------------------------------------------------------------
(* scenarioSchema.  Nothing that changes the application may follow a step *)
(* that is allowed to fail, and cleanup takes reading and cleaning steps.  *)
AllowedOperations(seq) == \A i \in DOMAIN seq: seq[i].class # "banned"
BuggySafeErrorContinuation(seq) ==
  \A i \in DOMAIN seq: seq[i].continue => seq[i].class = "read"
SafeErrorContinuation(seq) ==
  \A i \in DOMAIN seq: seq[i].continue =>
    \A j \in DOMAIN seq: j >= i => seq[j].class = "read"
CleanupOnly(seq) ==
  \A i \in DOMAIN seq: ~seq[i].continue /\ seq[i].class \in {"read", "cleanup"}

Accepted ==
  /\ AllowedOperations(scn.main) /\ AllowedOperations(scn.finally)
  /\ SafeErrorContinuation(scn.main)
  /\ CleanupOnly(scn.finally)

(* A third of the time at most is kept for the cleanup, and never the last *)
(* unit of the main part; a cleanup step without a timeout asks for 10 s.  *)
Requested(step) == IF step.timeout = 0 THEN 50 ELSE step.timeout
MinOf(a, b) == IF a <= b THEN a ELSE b
RequestedCleanup ==
  MinOf(300, FoldLeft(LAMBDA sum, step: sum + Requested(step), 0, scn.finally))
CleanupReserve ==
  MinOf(RequestedCleanup, MinOf(TotalBudget \div 3, TotalBudget - 1))
MainDeadline == TotalBudget - CleanupReserve

---------------------------------------------------------------------------
ScenarioInit(start) ==
  /\ scn \in [version: {1}, main: BoundedSeq(MainSteps, Length) \ {<< >>}, finally: {<< >>}]
             \cup [version: {2}, main: BoundedSeq(MainSteps, Length) \ {<< >>},
                   finally: BoundedSeq(FinallySteps, Length) \ {<< >>}]
  /\ spc = start /\ elapsed = 0 /\ left \in BOOLEAN
  /\ steps = << >> /\ cleanup = << >> /\ executed = << >> /\ prior = {}
  /\ overran = FALSE /\ target \in {"none", "report"} /\ fallback \in {"none", "note"}
  /\ large = FALSE /\ faults = FALSE
  /\ sanswer = << >>

Throws == spc' = "done" /\ sanswer' = <<[ok |-> FALSE, ref |-> "none", conflict |-> FALSE]>>

(* readWorkspaceText, the schema, and validateWorkspaceTextTarget, which   *)
(* takes a file that exists already.                                        *)
RunScenario ==
  /\ spc = "run"
  /\ \/ Accepted /\ spc' = "main" /\ UNCHANGED sanswer
     \/ Throws   \* refused by the schema; the file or the target cannot be read
  /\ UNCHANGED <<scn, elapsed, left, steps, cleanup, executed, prior, overran,
                 target, fallback, large, faults>>

(* resolveStepReference: only what an executed step has returned.          *)
Referenced(step) == scn.version = 2 => step.ref = 0 \/ step.ref \in prior

(* executeScenarioStep: the record of the step, whether the executor was   *)
(* called, whether there is a result, and the time it took.                *)
NotExecuted(phase, i, step, deadline, signal, record) ==
  /\ record' = Append(record,
       IF signal /\ left THEN "aborted"
       ELSE IF deadline - elapsed < 1 THEN "timeout" ELSE "input")
  /\ UNCHANGED <<elapsed, executed, prior, overran, left>>

Returns(phase, i, step, timeout, deadline, signal, record) ==
  \E taken \in {0, timeout, timeout + Overrun}, outcome \in {"ok", "failed", "threw"},
     stops \in BOOLEAN:
    /\ elapsed' = elapsed + taken
    /\ overran' = (overran \/ taken > timeout)
    /\ left' = (left \/ stops)
    /\ executed' = Append(executed, Place(phase, i))
    /\ prior' = IF outcome = "threw" \/ phase = "finally" THEN prior ELSE prior \cup {i}
    /\ record' = Append(record,
         IF outcome = "threw" THEN "threw"
         ELSE IF signal /\ left' THEN "aborted"
         ELSE IF elapsed' > deadline THEN "timeout"
         ELSE outcome)

ExecuteScenarioStep(phase, i, step, timeout, deadline, signal, record) ==
  IF (signal /\ left) \/ deadline - elapsed < 1 \/ ~Referenced(step)
  THEN NotExecuted(phase, i, step, deadline, signal, record)
  ELSE \/ NotExecuted(phase, i, step, deadline, signal, record)  \* a file named by $text or $json
       \/ Returns(phase, i, step, MinOf(IF timeout = 0 THEN deadline - elapsed ELSE timeout,
                                        deadline - elapsed),
                  deadline, signal, record)

(* The first failed step ends the main part unless it may fail.            *)
GoesOn(record, step) == record = "ok" \/ step.continue

MainStep ==
  /\ spc = "main"
  /\ LET i == Len(steps) + 1 IN
       /\ ExecuteScenarioStep("main", i, scn.main[i], scn.main[i].timeout,
                              MainDeadline, TRUE, steps)
       /\ spc' = IF i < Len(scn.main) /\ GoesOn(Last(steps'), scn.main[i])
                 THEN "main" ELSE "finally"
  /\ UNCHANGED <<scn, cleanup, target, fallback, large, faults, sanswer>>

(* Every cleanup step is tried, without the caller's signal and with its   *)
(* share of what is left when it names no timeout.                          *)
MaxOf(a, b) == IF a >= b THEN a ELSE b
Share(i) == MaxOf(1, (TotalBudget - elapsed) \div (Len(scn.finally) - i + 1))

CleanupStep ==
  /\ spc = "finally" /\ Len(cleanup) < Len(scn.finally)
  /\ LET i == Len(cleanup) + 1 IN
       ExecuteScenarioStep("finally", i, scn.finally[i],
         IF scn.finally[i].timeout = 0 THEN Share(i) ELSE scn.finally[i].timeout,
         TotalBudget, FALSE, cleanup)
  /\ UNCHANGED <<scn, spc, steps, target, fallback, large, faults, sanswer>>

MainOk == Ok(steps) /\ Len(steps) = Len(scn.main)
CleanupOk == Ok(cleanup)

---------------------------------------------------------------------------
(* The report is written without replacing a file.  A report that is too   *)
(* long goes without its details; the one that notes a conflict carries    *)
(* them again.  A text already there is taken for the report when it is    *)
(* the same, as after an equal run.                                        *)
AnsweredRef(given, actual) == IF given THEN "target" ELSE actual

Answer(actual, conflict) ==
  /\ spc' = "done"
  /\ \E given \in BOOLEAN:  \* args.resultRef
       sanswer' = <<[ok |-> MainOk /\ CleanupOk, ref |-> AnsweredRef(given, actual),
                     conflict |-> conflict]>>

WriteFails == faults' = TRUE

WriteReport ==
  /\ spc = "finally" /\ Len(cleanup) = Len(scn.finally)
  /\ large' \in BOOLEAN
  /\ \/ /\ target \in {"none", "report"}
        /\ target' = "report" /\ Answer("target", FALSE) /\ UNCHANGED faults
     \/ /\ target = "foreign"
        /\ spc' = "fallback" /\ UNCHANGED <<target, faults, sanswer>>
     \/ /\ target = "none" /\ WriteFails
        /\ spc' = "fallback" /\ UNCHANGED <<target, sanswer>>
  /\ UNCHANGED <<scn, elapsed, left, steps, cleanup, executed, prior, overran,
                 fallback>>

WriteFallback ==
  /\ spc = "fallback"
  /\ \/ /\ ~large /\ fallback' = "note" /\ Answer("fallback", TRUE) /\ UNCHANGED faults
     \/ /\ large /\ Throws /\ UNCHANGED <<fallback, faults>>
     \/ /\ fallback = "none" /\ WriteFails /\ Throws /\ UNCHANGED fallback
  /\ UNCHANGED <<scn, elapsed, left, steps, cleanup, executed, prior, overran,
                 target, large>>

(* Another program takes the name while the steps run.                     *)
SomebodyWrites ==
  /\ spc \in {"run", "main", "finally"} /\ target = "none"
  /\ target' = "foreign"
  /\ UNCHANGED <<scn, spc, elapsed, left, steps, cleanup, executed, prior, overran,
                 fallback, large, faults, sanswer>>

ScenarioNext ==
  \/ RunScenario \/ MainStep \/ CleanupStep
  \/ WriteReport \/ WriteFallback \/ SomebodyWrites

---------------------------------------------------------------------------
ScenarioTypeOK ==
  /\ spc \in {"idle", "run", "main", "finally", "fallback", "done"} /\ elapsed \in Nat
  /\ Len(steps) <= Len(scn.main) /\ Len(cleanup) <= Len(scn.finally)
  /\ prior \subseteq DOMAIN scn.main
  /\ target \in {"none", "foreign", "report"} /\ fallback \in {"none", "note"}

(* Once a step has failed, for whatever reason, every later main step that *)
(* is sent only reads.  The cleanup, after a failure or not, sends only    *)
(* what reads and operations of the cleanup class: these close what stands *)
(* open, and so do change the application (scenario.ts                     *)
(* requireSafeErrorContinuation, finally).                                 *)
NoMutationAfterFailure ==
  /\ \A i \in DOMAIN steps, j \in DOMAIN scn.main:
       steps[i] # "ok" /\ i < j /\ Executed("main", j) => scn.main[j].class = "read"
  /\ \A j \in DOMAIN scn.finally:
       Executed("finally", j) => scn.finally[j].class \in {"read", "cleanup"}

(* The cleanup is not starved: when no call overran its time and a third   *)
(* of the time is a unit for every cleanup step, none of them is refused   *)
(* for want of time or because the client has left (scenario.ts            *)
(* runScenario, the reserve).                                              *)
CleanupNotStarved ==
  /\ ~overran /\ TotalBudget \div 3 >= Len(scn.finally)
  /\ \A i \in DOMAIN scn.finally: scn.finally[i].timeout = 0
  => \A i \in DOMAIN cleanup: cleanup[i] \notin {"timeout", "aborted"}

(* A success means that every step was sent and did what was expected; a   *)
(* run that has sent a step leaves its report in one of the two files,     *)
(* unless a write failed or the report is too long to be noted beside a    *)
(* foreign file (scenario.ts runScenario).                                  *)
ScenarioAnswerIsTrue ==
  sanswer # << >> =>
    /\ sanswer[1].ok =>
         /\ \A i \in DOMAIN scn.main: Executed("main", i) /\ steps[i] = "ok"
         /\ \A i \in DOMAIN scn.finally: Executed("finally", i) /\ cleanup[i] = "ok"
    /\ executed # << >> /\ ~faults /\ ~(target = "foreign" /\ large) =>
         /\ sanswer[1].conflict <=> target = "foreign"
         /\ target = "report" \/ fallback = "note"

(* The answer of a run names the file that holds its report: test/         *)
(* scenario-control-flow.mjs:489 expects the name made from the hash when  *)
(* the requested one is taken.                                             *)
ReportIsNamed ==
  sanswer # << >> /\ ~faults /\ sanswer[1].ref = "target" => target = "report"

=============================================================================
