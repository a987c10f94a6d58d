---------------------------- MODULE ApiExecutor ----------------------------
(***************************************************************************)
(* What the API process does with one operation before somebody else       *)
(* carries it out (api-executor.ts): the gates of the product profile and  *)
(* of the receipt lease, the reading of the arguments, the choice of who   *)
(* carries it out, and, for export_csv, the result directory that is made  *)
(* for the worker and taken away again when the worker fails.  Beside it   *)
(* stands what capabilities promises of the same operation                 *)
(* (profile-operation-policy.ts), which is computed on its own.            *)
(***************************************************************************)
EXTENDS Integers

CONSTANTS
  Depth     \* components of the result directory below the results root

ASSUME ExecutorAssumption == Depth \in Nat \ {0}

ApiOperations == {"capabilities", "accessibility_probe", "archive_cases",
  "backup_cases", "case_create", "case_hash", "center_cases",
  "center_refresh", "check", "checker_close", "checker_detail",
  "checker_open", "checker_reset", "checker_results", "checker_run", "click",
  "click_point", "close", "collect", "combo_options", "combo_select",
  "desktop_start", "desktop_status", "desktop_stop", "dialog_answer",
  "dialog_list", "dismiss", "export_csv", "file_dialog_select", "fill_fields",
  "find", "get_value", "goto", "health", "help", "instances",
  "known_page_state", "launch", "list_cases", "make_working_copy", "menu",
  "menu_click", "menu_close", "page", "page_objects", "positions",
  "position_create", "product_info", "read_full", "read_page", "read_table",
  "receipt_manager_action", "receipt_manager_bulk_upsert",
  "receipt_manager_classification_options", "receipt_manager_classify",
  "receipt_manager_link", "receipt_manager_delete", "receipt_manager_import",
  "receipt_manager_list", "receipt_manager_read", "receipt_manager_update",
  "result_details", "save", "save_as", "scenario_run", "screenshot", "scroll",
  "scroll_page", "set_value", "snapshot", "snapshot_compare", "subpages",
  "table_add", "table_delete", "table_read", "table_update",
  "tax_knowledge_search", "toggle", "tracked_set_value", "tree_scroll",
  "tree_top", "ui_state", "ustva_change_value", "ustva_open_section",
  "ustva_read", "ustva_select_period", "ustva_set_flag", "vast_apply",
  "vast_dialog_read", "vast_mapping_options", "vast_mapping_select",
  "vast_row_details", "vast_row_set_expanded", "verify", "warning_popup_read",
  "workspace_file_list", "workspace_file_read_text",
  "workspace_file_write_text", "workspace_status", "window_close",
  "window_restore", "windows"}
Base == {"capabilities", "health", "help", "product_info", "workspace_status",
  "list_cases", "case_hash", "workspace_file_list",
  "workspace_file_read_text"}
Verification == {"accessibility_probe", "check", "checker_close",
  "checker_detail", "checker_open", "checker_reset", "checker_results",
  "checker_run", "click_point", "close", "combo_options", "dialog_list",
  "find", "get_value", "goto", "known_page_state", "launch",
  "make_working_copy", "page", "page_objects", "positions", "read_full",
  "read_page", "read_table", "receipt_manager_list", "receipt_manager_read",
  "receipt_manager_classification_options", "result_details", "scroll",
  "scroll_page", "snapshot", "snapshot_compare", "subpages", "table_read",
  "tree_scroll", "tree_top", "ui_state", "ustva_read", "warning_popup_read",
  "window_close", "window_restore", "windows", "instances"}
ForegroundRequired == {"receipt_manager_action",
  "receipt_manager_bulk_upsert", "receipt_manager_classification_options",
  "receipt_manager_classify", "receipt_manager_delete",
  "receipt_manager_import", "receipt_manager_link", "receipt_manager_read",
  "receipt_manager_update"}
QtOperations == {"get_value", "table_read", "snapshot", "find", "read_page",
  "subpages", "known_page_state", "positions", "ustva_read",
  "receipt_manager_list", "receipt_manager_read", "receipt_manager_action",
  "receipt_manager_update", "receipt_manager_link", "page", "ui_state",
  "help", "read_table", "checker_results", "goto",
  "receipt_manager_classification_options", "receipt_manager_classify"}

WorkspaceOperations == {"workspace_file_list", "workspace_file_read_text", "workspace_file_write_text", "scenario_run"}
LocalOperations ==
  WorkspaceOperations \cup {"capabilities", "workspace_status", "page_objects", "verify", "make_working_copy",
    "backup_cases", "archive_cases", "case_hash"}
Composites ==
  {"checker_open", "ustva_read", "ustva_open_section", "ustva_select_period", "ustva_set_flag", "ustva_change_value",
   "case_create", "fill_fields", "receipt_manager_bulk_upsert", "launch", "table_update", "table_delete"}

VARIABLES
  profile,     \* status and operationAccess of the product profile
  optIn,       \* config.operateExperimental
  leased,      \* the configured receipt lease token is well formed
  qt, helper,  \* a client of the Qt bridge and the desktop helper are configured
  asked,       \* the operation and what of its arguments the gates look at
  apc,         \* where it stands
  outcome,     \* what became of it
  dirs,        \* the components of the result directory: absent, theirs, ours
  stored,      \* components that hold a file
  firstMade, candidate    \* level of createdExportDirectory; level of candidate

xvars == <<profile, optIn, leased, qt, helper, asked, apc, outcome, dirs, stored, firstMade, candidate>>
xconfig == <<profile, optIn, leased, qt, helper, asked>>
xdirs == <<dirs, stored, firstMade, candidate>>

Levels == 1 .. Depth
Details == {"plain", "button-ok", "grid", "keys", "grid-keys", "uia", "qt-object", "bad"}
Outcomes == {"none", "profile-disabled", "profile-unverified", "profile-operation-unverified", "blocked", "bad-args",
             "local", "composite", "worker", "qt", "desktop", "ok", "failed"}

ExecutorTypeOK ==
  /\ profile \in [status: {"supported", "experimental", "disabled"}, access: {"full", "verification-only"}]
  /\ {optIn, leased, qt, helper} \subseteq BOOLEAN
  /\ asked \in [op: ApiOperations, detail: Details]
  /\ apc \in {"idle", "gate", "parse", "route", "mkdir", "worker", "remove", "done"} /\ outcome \in Outcomes
  /\ dirs \in [Levels -> {"absent", "theirs", "ours"}] /\ stored \subseteq Levels
  /\ firstMade \in 0 .. Depth /\ candidate \in 0 .. Depth

(* Details an operation's arguments can have.                              *)
DetailsOf(op) ==
  {"plain", "bad"} \cup CASE op = "dialog_answer" -> {"button-ok"}
                         [] op = "table_read" -> {"grid", "keys", "grid-keys"}
                         [] op = "get_value" -> {"uia", "qt-object"}
                         [] OTHER -> {}

(* A disabled profile is refused when the API starts; the gate that asks   *)
(* for it is reached only by an executor made without loadProductProfile.  *)
ExecutorInit(start) ==
  /\ profile \in [status: {"supported", "experimental", "disabled"}, access: {"full", "verification-only"}]
  /\ optIn \in BOOLEAN /\ leased \in BOOLEAN /\ qt \in BOOLEAN /\ helper \in BOOLEAN
  /\ \E op \in ApiOperations: \E d \in DetailsOf(op): asked = [op |-> op, detail |-> d]
  /\ apc = start /\ outcome = "none"
  /\ dirs \in {d \in [Levels -> {"absent", "theirs"}]: \A l \in Levels: d[l] = "theirs" => l = 1 \/ d[l - 1] = "theirs"}
  /\ asked.op # "export_csv" => dirs = [l \in Levels |-> "absent"]
  /\ stored = {} /\ firstMade = 0 /\ candidate = 0

-----------------------------------------------------------------------------
(* What capabilities says of an operation.                                 *)

FullyOpen == profile.status = "supported" /\ profile.access = "full"

Availability(op) ==
  IF op \in Base THEN "allowed"
  ELSE IF profile.status = "disabled" THEN "blocked"
  ELSE IF op \in ForegroundRequired THEN IF leased THEN "conditional" ELSE "blocked"
  ELSE IF FullyOpen THEN "allowed"
  ELSE IF op = "dialog_answer" THEN IF optIn THEN "conditional" ELSE "blocked"
  ELSE IF op \in Verification /\ optIn THEN "allowed"
  ELSE "blocked"

-----------------------------------------------------------------------------
(* What the executor does with it.                                         *)

Refused(kind) == apc' = "done" /\ outcome' = kind /\ UNCHANGED <<xconfig, xdirs>>

(* dialog_answer with OK only: the worker ties it to a passive start note. *)
VerificationCandidate == asked.op \in Verification \/ (asked.op = "dialog_answer" /\ asked.detail = "button-ok")

Gate ==
  /\ apc = "gate"
  /\ IF profile.status = "disabled" /\ asked.op \notin Base THEN Refused("profile-disabled")
     ELSE IF asked.op \in ForegroundRequired /\ asked.detail = "bad" THEN Refused("bad-args")
     ELSE IF asked.op \in ForegroundRequired /\ ~leased THEN Refused("blocked")
     ELSE IF ~FullyOpen /\ asked.op \notin Base /\ ~optIn THEN Refused("profile-unverified")
     ELSE IF ~FullyOpen /\ asked.op \notin Base /\ ~VerificationCandidate THEN Refused("profile-operation-unverified")
     ELSE apc' = "parse" /\ UNCHANGED <<xconfig, outcome, xdirs>>

Parse ==
  /\ apc = "parse"
  /\ IF \/ asked.detail \in {"bad", "grid-keys"}
        \/ asked.detail = "qt-object" /\ ~qt
     THEN Refused("bad-args")
     ELSE apc' = "route" /\ UNCHANGED <<xconfig, outcome, xdirs>>

(* The first condition that holds decides.                                 *)
Executor ==
  CASE asked.op = "desktop_status" /\ helper -> "desktop"
    [] asked.op \in QtOperations /\ qt /\ asked.detail \notin {"uia", "keys", "grid"} -> "qt"
    [] asked.op \in LocalOperations -> "local"
    [] asked.op \in Composites \/ (asked.op = "table_read" /\ asked.detail = "keys") -> "composite"
    [] asked.op \in {"desktop_stop", "desktop_start"} /\ helper -> "desktop"
    [] asked.op = "list_cases" -> "local"
    [] OTHER -> "worker"

Route ==
  /\ apc = "route"
  /\ \/ /\ asked.op # "export_csv"
        /\ Refused(Executor)
     \* configuredArgs throws: a reference that cannot be resolved, two arguments for one path
     \/ asked.op \notin Base /\ Executor # "qt" /\ Refused("bad-args")
     \/ /\ asked.op = "export_csv"
        /\ apc' = IF dirs[Depth] = "absent" THEN "mkdir" ELSE "worker"
        /\ UNCHANGED <<xconfig, outcome, xdirs>>

(* mkdirSync answers with the topmost directory it made; nothing made is   *)
(* somebody else's directory that appeared since existsSync.               *)
MakeExportDirectory ==
  /\ apc = "mkdir"
  /\ IF dirs[Depth] # "absent" THEN Refused("bad-args")
     ELSE /\ firstMade' = CHOOSE l \in Levels: dirs[l] = "absent" /\ \A k \in 1 .. l - 1: dirs[k] # "absent"
          /\ dirs' = [l \in Levels |-> IF dirs[l] = "absent" THEN "ours" ELSE dirs[l]]
          /\ apc' = "worker"
          /\ UNCHANGED <<xconfig, outcome, stored, candidate>>

(* The worker writes files or not, and answers or throws.                  *)
WorkerExports ==
  /\ apc = "worker"
  /\ stored' \in {stored, stored \cup {Depth}}
  /\ outcome' \in {"ok", "failed"}
  /\ outcome' = "ok" => Depth \in stored'
  /\ IF firstMade > 0 /\ outcome' # "ok" THEN apc' = "remove" /\ candidate' = Depth ELSE apc' = "done" /\ candidate' = candidate
  /\ UNCHANGED <<xconfig, dirs, firstMade>>

Holds(l) == l \in stored \/ (l < Depth /\ dirs[l + 1] # "absent")
Parent(l) == l - 1

(* break: the directory removed was the topmost one the API had made.      *)
BuggyRemovedLast == candidate = 1
RemovedLast == candidate = firstMade

RemoveEmpty ==
  /\ apc = "remove"
  /\ IF candidate = 0 \/ dirs[candidate] = "absent" \/ Holds(candidate) THEN apc' = "done" /\ UNCHANGED <<dirs, candidate>>
     ELSE /\ dirs' = [dirs EXCEPT ![candidate] = "absent"]
          /\ IF RemovedLast THEN apc' = "done" /\ candidate' = candidate ELSE apc' = apc /\ candidate' = Parent(candidate)
  /\ UNCHANGED <<xconfig, outcome, stored, firstMade>>

(* Another process makes the next missing directory before the API does,   *)
(* or puts a file into one that is there.                                  *)
SomebodyInResults ==
  /\ asked.op = "export_csv" /\ apc \in {"mkdir", "worker", "remove"}
  /\ \/ /\ apc = "mkdir"
        /\ \E l \in Levels: /\ dirs[l] = "absent" /\ \A k \in 1 .. l - 1: dirs[k] # "absent"
                            /\ dirs' = [dirs EXCEPT ![l] = "theirs"]
        /\ UNCHANGED stored
     \/ /\ \E l \in Levels: dirs[l] # "absent" /\ l \notin stored /\ stored' = stored \cup {l}
        /\ UNCHANGED dirs
  /\ UNCHANGED <<xconfig, apc, outcome, firstMade, candidate>>

ExecutorNext ==
  Gate \/ Parse \/ Route \/ MakeExportDirectory \/ WorkerExports \/ RemoveEmpty \/ SomebodyInResults

-----------------------------------------------------------------------------
GateKinds == {"profile-disabled", "profile-unverified", "profile-operation-unverified", "blocked"}

(* capabilities and the executor decide by two texts of one policy and     *)
(* agree: no gate refuses what was called allowed, nobody carries out what *)
(* was called blocked.                                                     *)
AdvertisedIsExecuted ==
  apc \notin {"gate", "idle"} =>
    /\ Availability(asked.op) = "allowed" => outcome \notin GateKinds
    /\ Availability(asked.op) = "blocked" => outcome \in GateKinds \cup {"bad-args"}

(* The directories of a failed export are taken away again and no other:   *)
(* whatever was there before, whoever made it, stays, and of the ones made *)
(* for the worker none stays that nobody put anything into.                *)
ExportDirectoriesAccounted ==
  /\ \A l \in Levels: l < firstMade => dirs[l] = "theirs"
  /\ stored \subseteq {l \in Levels: dirs[l] # "absent"}
  /\ apc = "done" /\ outcome = "failed" /\ firstMade > 0 =>
       \A l \in Levels: dirs[l] = "ours" => \E k \in stored: k >= l

=============================================================================
