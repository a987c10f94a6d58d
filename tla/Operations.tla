----------------------------- MODULE Operations -----------------------------
(***************************************************************************)
(* The operations the API process carries out by its own state machines,   *)
(* over worker calls, over a Qt session or over files, apart from those of *)
(* LocalFiles.  The API runs one operation at a time (ApiServer's          *)
(* OneOperation), so that a behaviour here is one of them from its call to *)
(* its answer, or one client's call of the API, or one duty of the         *)
(* program's own files; the modules extended say what each of them does,   *)
(* this one how it is called.                                              *)
(***************************************************************************)
EXTENDS CaseCreate, TableMutation, DesktopHelpers, Workspace, Scenario,
        CollectVerify, WorkerPlans, CaseFile, Ustva, ApiExecutor,
        QtUpdate, QtLink, QtPress, QtGoto, QtClassify, ClientCall, HostFiles

VARIABLE op

Launching == {"launch", "case_create"}
Tables == {"table_read", "table_update", "table_add"}
Helpers == {"desktop_start", "desktop_status", "desktop_stop"}
TextFiles == {"workspace_file_list", "workspace_file_read_text", "workspace_file_write_text"}
Running == {"scenario_run", "verify", "ustva", "any"}
CaseHeaders == {"list_cases", "case_hash"}
QtOps == {"receipt_manager_update", "receipt_manager_link", "receipt_manager_action",
          "goto", "receipt_manager_classify"}
Callers == {"cli", "retry", "mcp"}
Duties == {"configure", "replace", "log"}
Ops == Launching \cup Tables \cup Helpers \cup TextFiles \cup Running \cup CaseHeaders
       \cup Plans \cup {"page_objects"} \cup QtOps \cup Callers \cup Duties

opvars == <<ccvars, mvars, dvars, fvars, scvars, vvars, tvars, lfvars, uvars, xvars, qtvars, kvars, hfvars, op>>

-----------------------------------------------------------------------------
(* An operation that is not called keeps its inputs at one value. *)
One(set) == CHOOSE x \in set: TRUE

DesktopStarts ==
  IF op \in Helpers
  THEN DesktopInit(CASE op = "desktop_start" -> "start" [] op = "desktop_stop" -> "stop" [] OTHER -> "status")
  ELSE marker = "none" /\ alive = {} /\ DesktopInit("idle")

WorkspaceStarts ==
  IF op \in TextFiles
  THEN WorkspaceInit(CASE op = "workspace_file_list" -> "list"
                       [] op = "workspace_file_read_text" -> "read" [] OTHER -> "write")
  ELSE files = [n \in Names |-> "none"] /\ WorkspaceInit("idle")

ScenarioStarts ==
  IF op = "scenario_run" THEN ScenarioInit("run")
  ELSE /\ scn = [version |-> 1, main |-> <<One(MainSteps)>>, finally |-> << >>]
       /\ left = FALSE /\ target = "none" /\ fallback = "none" /\ ScenarioInit("idle")

VerifyStarts ==
  IF op = "verify" THEN VerifyInit("read")
  ELSE /\ wanted = One(Sources) /\ source = wanted /\ expected = One(Expectations)
       /\ partial = FALSE /\ VerifyInit("idle")

PlanStarts ==
  IF op \in Plans \cup {"page_objects"} THEN PlanInit(op)
  ELSE departed = FALSE /\ PlanInit("none")

CaseFileStarts ==
  CASE op = "list_cases" -> CaseFileInit("list")
    [] op = "case_hash" -> CaseFileInit("hash")
    [] OTHER -> heads = [n \in CaseNames |-> One(Headers)] /\ CaseFileInit("idle")

UstvaStarts ==
  IF op = "ustva" THEN UstvaInit("start")
  ELSE /\ ureq = One(Requests) /\ openPage = "overview" /\ manualFlag = FALSE
       /\ UstvaInit("idle")

ExecutorStarts ==
  IF op = "any" THEN ExecutorInit("gate")
  ELSE /\ profile = [status |-> "supported", access |-> "full"]
       /\ optIn = FALSE /\ leased = FALSE /\ qt = FALSE /\ helper = FALSE
       /\ asked = [op |-> "health", detail |-> "plain"]
       /\ dirs = [l \in Levels |-> "absent"] /\ ExecutorInit("idle")

QtStarts ==
  CASE op = "receipt_manager_update" -> UpdateInit
    [] op = "receipt_manager_link" -> LinkInit
    [] op = "receipt_manager_action" -> PressInit
    [] op = "goto" -> GotoInit
    [] op = "receipt_manager_classify" -> ClassifyInit
    [] OTHER -> SessionInit("idle", "none", "none")

QtNext ==
  \/ op = "receipt_manager_update" /\ UpdateNext
  \/ op = "receipt_manager_link" /\ LinkNext
  \/ op = "receipt_manager_action" /\ PressNext
  \/ op = "goto" /\ GotoNext
  \/ op = "receipt_manager_classify" /\ ClassifyNext

OperationsInit ==
  /\ op \in Ops
  /\ CaseInit(IF op = "case_create" THEN "args" ELSE "idle")
  /\ MutationInit(CASE op = "table_update" -> "reserve" [] op = "table_add" -> "add" [] OTHER -> "idle")
  /\ DesktopStarts /\ WorkspaceStarts /\ ScenarioStarts /\ VerifyStarts
  /\ PlanStarts /\ CaseFileStarts /\ UstvaStarts /\ ExecutorStarts
  /\ QtStarts
  /\ caller = (IF op \in Callers THEN op ELSE "none")
  /\ ClientInit(IF op \in Callers THEN "journal" ELSE "idle")
  /\ duty = (IF op \in Duties THEN op ELSE "none") /\ HostInit

-----------------------------------------------------------------------------
Launch ==
  /\ \/ lpc = "idle" /\ lanswer = {} /\ (LaunchCalled \/ LaunchAnswers({"unchanged"})) /\ UNCHANGED world
     \/ LaunchStep
     \/ lanswer = {} /\ LaunchDisturbed
  /\ UNCHANGED <<cworld, cpc, clocal, why, canswer>>

TableRead ==
  \/ rpc = "idle" /\ ReadCalled(FALSE) /\ UNCHANGED <<tworld, ppc, plocal, mpc, attempted, original, manswer>>
  \/ ReadStep /\ UNCHANGED <<mpc, attempted, original, manswer>>
  \/ TableDisturbed

TableChange == MutationStep \/ TableDisturbed

OperationsNext ==
  /\ UNCHANGED op
  /\ \/ /\ \/ op = "launch" /\ Launch
           \/ op = "case_create" /\ CaseNext
        /\ UNCHANGED <<mvars, dvars, fvars, scvars, vvars, tvars, lfvars, uvars, xvars, qtvars, kvars, hfvars>>
     \/ /\ \/ op = "table_read" /\ TableRead
           \/ op \in {"table_update", "table_add"} /\ TableChange
        /\ UNCHANGED <<ccvars, dvars, fvars, scvars, vvars, tvars, lfvars, uvars, xvars, qtvars, kvars, hfvars>>
     \/ /\ op \in Helpers /\ DesktopNext
        /\ UNCHANGED <<ccvars, mvars, fvars, scvars, vvars, tvars, lfvars, uvars, xvars, qtvars, kvars, hfvars>>
     \/ /\ op \in TextFiles /\ WorkspaceNext
        /\ UNCHANGED <<ccvars, mvars, dvars, scvars, vvars, tvars, lfvars, uvars, xvars, qtvars, kvars, hfvars>>
     \/ /\ op = "scenario_run" /\ ScenarioNext
        /\ UNCHANGED <<ccvars, mvars, dvars, fvars, vvars, tvars, lfvars, uvars, xvars, qtvars, kvars, hfvars>>
     \/ /\ op = "verify" /\ VerifyNext
        /\ UNCHANGED <<ccvars, mvars, dvars, fvars, scvars, tvars, lfvars, uvars, xvars, qtvars, kvars, hfvars>>
     \/ /\ op \in Plans \cup {"page_objects"} /\ PlanNext
        /\ UNCHANGED <<ccvars, mvars, dvars, fvars, scvars, vvars, lfvars, uvars, xvars, qtvars, kvars, hfvars>>
     \/ /\ op \in CaseHeaders /\ CaseFileNext
        /\ UNCHANGED <<ccvars, mvars, dvars, fvars, scvars, vvars, tvars, uvars, xvars, qtvars, kvars, hfvars>>
     \/ /\ op = "ustva" /\ UstvaNext
        /\ UNCHANGED <<ccvars, mvars, dvars, fvars, scvars, vvars, tvars, lfvars, xvars, qtvars, kvars, hfvars>>
     \/ /\ op = "any" /\ ExecutorNext
        /\ UNCHANGED <<ccvars, mvars, dvars, fvars, scvars, vvars, tvars, lfvars, uvars, qtvars, kvars, hfvars>>
     \/ /\ op \in QtOps /\ QtNext
        /\ UNCHANGED <<ccvars, mvars, dvars, fvars, scvars, vvars, tvars, lfvars, uvars, xvars, kvars, hfvars>>
     \/ /\ op \in Callers /\ ClientNext
        /\ UNCHANGED <<ccvars, mvars, dvars, fvars, scvars, vvars, tvars, lfvars, uvars, xvars, qtvars, hfvars>>
     \/ /\ op \in Duties /\ HostNext
        /\ UNCHANGED <<ccvars, mvars, dvars, fvars, scvars, vvars, tvars, lfvars, uvars, xvars, qtvars, kvars>>

OperationsSpec == OperationsInit /\ [][OperationsNext]_opvars

-----------------------------------------------------------------------------
(* The properties of the operations, each named where its module states    *)
(* it; an operation that was not called satisfies its own.                 *)

(* Operations that start or end programs answer what became of them        *)
(* (launch-executor.ts, case-create-executor.ts, native-desktop-*.ts).     *)
ProgramAnswersAreTrue ==
  /\ CaseTypeOK /\ DesktopTypeOK
  /\ CaseAnswerIsTrue /\ LaunchAnswerIsTrue /\ DesktopAnswerIsTrue

(* Operations on tables write at most once, answer what became of the      *)
(* table, and give back every lease or ask for the cleanup                 *)
(* (table-cursor-*.ts, table-add-seek.ts).                                 *)
TableAnswersAreTrue == MutationTypeOK /\ TableAnswerIsTrue /\ LeaseAccounted

(* Operations that read files while somebody writes them hold nothing true *)
(* of bytes that never stood together in the file: no hash, no statement   *)
(* on a case, no comparison, also where the file was disturbed while it    *)
(* was read (workspace.ts, case-file.ts, verify-executor.ts,               *)
(* collect-verification.ts).                                               *)
FileAnswersAreTrue == WorkspaceTypeOK /\ ListingIsTrue /\ CaseFileAnswerIsTrue /\ VerifyAnswerIsTrue

(* Operations that send worker calls of their own, apart from scenarios,   *)
(* answer what these have changed: a failure they state themselves comes   *)
(* with what it says of the application, one they pass on from such a call *)
(* promises nothing (bulk-plan-executor.ts, checker-executor.ts,           *)
(* ustva-executor.ts).                                                     *)
CompositeAnswersAreTrue == PlanTypeOK /\ PlanAnswerIsTrue /\ UstvaAnswerIsTrue

(* After a failed step the main steps of a scenario only read; its cleanup *)
(* gets its time and only reads or carries out operations of the cleanup   *)
(* class, which may change the application; the answer says what its steps *)
(* have done (scenario.ts runScenario).                                    *)
ScenarioIsSound ==
  ScenarioTypeOK /\ NoMutationAfterFailure /\ CleanupNotStarved /\ ScenarioAnswerIsTrue

(* The executor carries out what capabilities advertise, and takes back    *)
(* the directories it made for a failed export, no others                  *)
(* (profile-operation-policy.ts, api-executor.ts).                         *)
ExecutorIsSound == ExecutorTypeOK /\ AdvertisedIsExecuted /\ ExportDirectoriesAccounted

(* An operation over a Qt session never repeats what may have happened and *)
(* never promises what it has not read (qt-native-*.ts).                   *)
QtAnswersAreTrue ==
  /\ op = "receipt_manager_update" => UpdateAnswerIsTrue
  /\ op = "receipt_manager_link" => LinkAnswerIsTrue
  /\ op = "receipt_manager_action" => PressAnswerIsTrue
  /\ op = "goto" => GotoAnswerIsTrue
  /\ op = "receipt_manager_classify" => ClassifyAnswerIsTrue

=============================================================================
