------------------------------- MODULE Ustva -------------------------------
(***************************************************************************)
(* The operations on the advance VAT return (ustva-executor.ts, ustva.ts): *)
(* each is one call that changes or clicks, bound to a page that is read   *)
(* before or was read by the caller.  A person may turn the page or switch *)
(* a flag at any time.                                                     *)
(***************************************************************************)
EXTENDS Integers

CONSTANT UstvaBudget    \* effectiveTimeoutMs in units of 200 ms

(* A following step needs ten units (MIN_USTVA_FOLLOWUP_MS).               *)
ASSUME UstvaAssumption == UstvaBudget \in Nat

Sections == {"overview", "reverse_charge", "input_tax"}
PageKinds == Sections \cup {"elsewhere"}

VARIABLES
  ureq,       \* the operation and its arguments
  openPage,   \* the open page
  manualFlag, \* the flag "manual input" of the open case
  fieldValue, \* what the field, flag or selector holds: "before", "after", "foreign"
  upc,        \* phase of the operation
  heading,    \* the page the step is bound to
  seen,       \* what this call's own reading found: page and flags.manual_input
  used,       \* units used
  cut,        \* signal.aborted
  acted,      \* pages on which the worker changed the value or clicked
  uanswer     \* kind, whether it is a nested failure, effects.taxDataChanged

uvars == <<ureq, openPage, manualFlag, fieldValue, upc, heading, seen, used, cut, acted, uanswer>>

(* needs: the page of the field; manual: it is a manual field of the       *)
(* overview; differs: the new value is not the expected one; passed:       *)
(* args.expectedPage.                                                      *)
Asked(op, needs, manual, differs, passed) ==
  [op: op, needs: needs, manual: manual, differs: differs, passed: passed]
Requests ==
  Asked({"ustva_read"}, {"overview"}, {FALSE}, {FALSE}, {"none"})
  \cup Asked({"ustva_select_period", "ustva_set_flag"}, {"overview"}, {FALSE}, BOOLEAN,
             PageKinds \cup {"none"})
  \cup Asked({"ustva_open_section"}, {"overview"}, {FALSE}, {FALSE}, PageKinds \cup {"none"})
  \cup Asked({"ustva_change_value"}, Sections, {FALSE}, BOOLEAN, PageKinds \cup {"none"})
  \cup Asked({"ustva_change_value"}, {"overview"}, {TRUE}, BOOLEAN, PageKinds \cup {"none"})

Answered(kind, nested, changed) ==
  upc' = "done" /\ uanswer' = [kind |-> kind, nested |-> nested, changed |-> changed]

UstvaInit(start) ==
  /\ ureq \in Requests /\ openPage \in PageKinds /\ manualFlag \in BOOLEAN /\ fieldValue = "before"
  /\ upc = start /\ heading = "none" /\ seen = {}
  /\ used = 0 /\ cut = FALSE /\ acted = {}
  /\ uanswer = [kind |-> "none", nested |-> FALSE, changed |-> FALSE]

---------------------------------------------------------------------------
(* The arguments: a selector, flag, field or section that exists; a value  *)
(* of the same selector; a manual field only when confirmed.               *)
RefusedArguments ==
  /\ upc = "start" /\ ureq.op # "ustva_read"
  /\ Answered("bad-args", FALSE, FALSE)
  /\ UNCHANGED <<ureq, openPage, manualFlag, fieldValue, heading, seen, used, cut, acted>>

(* resolveUstvaPageHeading: a page the caller has read is not read again,  *)
(* the worker compares it with the open one; a manual field of the         *)
(* overview needs the flag from a reading of its own.                      *)
NeedsReading == ureq.passed = "none" \/ ureq.manual
ResolveUstvaPageHeading ==
  /\ upc = "start"
  /\ IF NeedsReading THEN upc' = "page" /\ UNCHANGED <<heading, uanswer>>
     ELSE IF ureq.passed # ureq.needs
     THEN Answered("ustva-page", FALSE, FALSE) /\ UNCHANGED heading
     ELSE heading' = ureq.passed /\ upc' = "act" /\ UNCHANGED uanswer
  /\ UNCHANGED <<ureq, openPage, manualFlag, fieldValue, seen, used, cut, acted>>

(* step: no nested call after an abort or without the least time for it.   *)
StepRefused(least) ==
  \/ cut /\ Answered("aborted", FALSE, FALSE)
  \/ ~cut /\ UstvaBudget - used < least /\ Answered("timeout", FALSE, FALSE)
StepAllowed(least) == ~cut /\ UstvaBudget - used >= least

(* The failure of a nested call is returned as it is: it keeps the kind    *)
(* the worker bridge gave it, "worker" standing for every other one.       *)
NestedFailure == \E kind \in {"worker", "aborted", "timeout"}: Answered(kind, TRUE, FALSE)

ManualProven == ureq.manual => manualFlag
PassedAgrees == ureq.passed \in {"none", openPage}

(* readCurrentUstvaPage and what is asked of the page it finds.            *)
PageSays ==
  IF openPage = "elsewhere" THEN "ustva-page"
  ELSE IF ureq.op = "ustva_read" THEN "ok"
  ELSE IF openPage # ureq.needs THEN "ustva-page"
  ELSE IF ~ManualProven THEN "manual-input-disabled"
  ELSE IF ~PassedAgrees THEN "ustva-page" ELSE "bound"

ReadCurrentUstvaPage ==
  /\ upc = "page"
  /\ IF ~StepAllowed(1)
     THEN StepRefused(1) /\ UNCHANGED <<heading, seen, used>>
     ELSE /\ used' \in used..(used + 2)
          /\ \/ (NestedFailure \/ Answered("dialog-open", FALSE, FALSE)) /\ UNCHANGED <<heading, seen>>
             \/ /\ seen' = {[page |-> openPage, manual |-> openPage = "overview" /\ manualFlag]}
                /\ IF PageSays = "bound"
                   THEN heading' = openPage /\ upc' = "act" /\ UNCHANGED uanswer
                   ELSE Answered(PageSays, FALSE, FALSE) /\ UNCHANGED heading
  /\ UNCHANGED <<ureq, openPage, manualFlag, fieldValue, cut, acted>>

(* The worker's step, bound to the page and, where it changes something,   *)
(* to the value before.  ustva_open_section only clicks.                   *)
Changes == ureq.op # "ustva_open_section"
ExpectedPage == openPage = heading /\ (Changes => fieldValue = "before")

WorkerStep ==
  /\ ExpectedPage
  /\ acted' = {openPage}
  /\ fieldValue' = IF ureq.differs THEN "after" ELSE fieldValue
  /\ IF Changes THEN UNCHANGED openPage ELSE openPage' \in PageKinds \ {"overview"}

(* A reply may be lost after the step: the failure that is answered then   *)
(* is a worker's, an abort or a timeout, as before the step.               *)
Act ==
  /\ upc = "act"
  /\ IF ~StepAllowed(10) THEN StepRefused(10) /\ UNCHANGED <<openPage, fieldValue, acted>>
     ELSE \/ NestedFailure /\ UNCHANGED <<openPage, fieldValue, acted>>
          \/ WorkerStep /\ (Answered("ok", FALSE, ureq.differs) \/ NestedFailure)
  /\ UNCHANGED <<ureq, manualFlag, heading, seen, used, cut>>

PersonTurns ==
  /\ upc # "done"
  /\ \/ openPage' \in PageKinds \ {openPage} /\ UNCHANGED <<manualFlag, fieldValue>>
     \/ manualFlag' = ~manualFlag /\ UNCHANGED <<openPage, fieldValue>>
     \/ fieldValue = "before" /\ fieldValue' = "foreign" /\ UNCHANGED <<openPage, manualFlag>>
  /\ UNCHANGED <<ureq, upc, heading, seen, used, cut, acted, uanswer>>

CallerLeaves ==
  /\ upc # "done" /\ ~cut /\ cut' = TRUE
  /\ UNCHANGED <<ureq, openPage, manualFlag, fieldValue, upc, heading, seen, used, acted, uanswer>>

UstvaNext ==
  RefusedArguments \/ ResolveUstvaPageHeading \/ ReadCurrentUstvaPage \/ Act
  \/ PersonTurns \/ CallerLeaves

---------------------------------------------------------------------------
(* Whatever the person does, a value is changed and a section clicked only *)
(* on the page its operation needs; for a manual field of the overview     *)
(* this call has itself read that page with the flag on, though a person   *)
(* may have switched it off since.  A failure the executor states itself,  *)
(* its own "aborted" and "timeout" included, was given before the step;    *)
(* one it passes on may come after it, and is never ok.  An ok says        *)
(* whether the value was changed (ustva-executor.ts).                      *)
UstvaAnswerIsTrue ==
  /\ \A page \in acted:
       page = ureq.needs /\ (ureq.manual => seen = {[page |-> page, manual |-> TRUE]})
  /\ uanswer.kind # "ok" /\ ~uanswer.nested => acted = {} /\ fieldValue # "after"
  /\ uanswer.kind = "ok" =>
       /\ ~uanswer.nested
       /\ ureq.op # "ustva_read" => acted # {}
       /\ uanswer.changed <=> fieldValue = "after"

=============================================================================
