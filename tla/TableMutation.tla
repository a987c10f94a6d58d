---------------------------- MODULE TableMutation ----------------------------
(***************************************************************************)
(* Changing a table: one move of the cursor to the row, one write by one   *)
(* worker, and the proof afterwards that this row and no other has changed *)
(* (src/src/table-cursor-mutation.ts); and adding a row, which is asked of *)
(* a worker a second time only if the first found no free row and wrote    *)
(* nothing (src/src/table-add-seek.ts, src/src/table-add-cursor-result.ts).*)
(*                                                                         *)
(* "unstarted" stands for mutationStarted: false, "maybe" for null.        *)
(***************************************************************************)
EXTENDS TableCursor

VARIABLES
  mpc,        \* the next step of the mutation
  attempted,  \* cursorAttempted
  original,   \* the marks of the first answer to table_add
  manswer

mvars == <<rvars, mpc, attempted, original, manswer>>

MutationTypeOK ==
  /\ ReadTypeOK
  /\ mpc \in {"idle", "reserve", "prove", "seek", "seeking", "readback", "last", "write", "compare", "check",
              "add", "addseek", "adding", "again", "done"}
  /\ attempted \in BOOLEAN /\ original \subseteq TableMarks /\ manswer \subseteq TableMarks

MutationInit(start) ==
  /\ ReadInit
  /\ mpc = start /\ attempted = FALSE /\ original = {} /\ manswer = {}

MutationReturns(marks) == mpc' = "done" /\ manswer' = marks /\ UNCHANGED <<attempted, original>>
MutationGoes(where) == mpc' = where /\ UNCHANGED <<manswer, attempted, original>>

-----------------------------------------------------------------------------
(* executeTableCursorMutation *)

(* The catch block: after the cursor was tried nothing is known any more. *)
MutationThrows ==
  MutationReturns({"failed"} \union IF attempted \/ mpc \in {"write", "compare", "check"}
                                      THEN {"unknown", "maybe", "reconcile"} ELSE {"unstarted"})

ReserveBudget ==
  /\ mpc = "reserve"
  /\ UNCHANGED rvars
  /\ MutationGoes("prove") \/ MutationReturns({"failed", "unstarted"})

(* prebind, the complete model, the one row that fits, its roles and its   *)
(* RuntimeId: all before the first input.                                  *)
ProveTarget ==
  /\ mpc = "prove"
  /\ UNCHANGED rvars
  /\ MutationGoes("seek") \/ MutationReturns({"failed", "unstarted"}) \/ MutationThrows

SeekTarget ==
  /\ mpc = "seek"
  /\ UNCHANGED <<tworld, seek, rpc, rlocal, ranswer>>
  /\ \/ /\ PositionCalled /\ mpc' = "seeking" /\ attempted' = TRUE /\ UNCHANGED <<original, manswer>>
     \/ /\ UNCHANGED <<ppc, plocal>> /\ MutationThrows
     \/ /\ UNCHANGED <<ppc, plocal, original>> /\ attempted' = TRUE
        /\ mpc' = "done" /\ manswer' = {"failed", "unknown", "maybe", "reconcile"}

TargetFound ==
  /\ mpc = "seeking" /\ ppc = "idle"
  /\ UNCHANGED rvars
  /\ IF "ok" \in pres THEN MutationGoes("readback")
     ELSE MutationReturns(pres \union
            IF pres \intersect {"unknown", "cleanup"} # {} THEN {"maybe"} ELSE {"unstarted"})

(* The model once more, the target once more, and the model a last time. *)
ReadBackTarget ==
  /\ mpc \in {"readback", "last"}
  /\ UNCHANGED rvars
  /\ \/ table = "same" /\ MutationGoes(IF mpc = "readback" THEN "last" ELSE "write")
     \/ mpc = "last" /\ MutationReturns({"failed", "unstarted"})
     \/ MutationThrows

(* Without time, or after an abort, nothing is written.  The worker checks *)
(* the target itself; whatever a person does meanwhile it need not see.    *)
WriteOnce ==
  /\ mpc = "write"
  /\ UNCHANGED <<table, moved, lease, ppc, plocal, seek, rpc, rlocal, ranswer>>
  /\ \/ UNCHANGED <<row, writes>> /\ MutationReturns({"failed", "unstarted"})
     \/ row' \in {"new", "wrong"} /\ writes' = writes + 1 /\ MutationGoes("compare")
     \/ /\ \/ UNCHANGED <<row, writes>>
           \/ row' \in {"new", "wrong"} /\ writes' = writes + 1
        /\ \/ MutationReturns({"failed", "unknown", "maybe", "reconcile"})
           \/ MutationThrows

RowsUntouched == table = "same"

(* A buggy comparison: only the row that was to change is looked at. *)
BuggyCompareModels ==
  /\ mpc = "compare"
  /\ UNCHANGED rvars
  /\ \/ row = "new" /\ MutationGoes("check")
     \/ MutationThrows

CompareModels ==
  /\ mpc = "compare"
  /\ UNCHANGED rvars
  /\ \/ row = "new" /\ RowsUntouched /\ MutationGoes("check")
     \/ MutationThrows

(* mutation-checkpoint: since the write nobody has used the program. *)
LastCheckpoint ==
  /\ mpc = "check"
  /\ UNCHANGED rvars
  /\ \/ MutationReturns({"ok"})
     \/ MutationThrows

-----------------------------------------------------------------------------
(* table_add and executeTableAddSeek *)

AddRow ==
  /\ mpc = "add"
  /\ UNCHANGED <<table, moved, lease, ppc, plocal, seek, rpc, rlocal, ranswer>>
  /\ \/ row' = "new" /\ writes' = writes + 1 /\ MutationReturns({"ok"})
     \/ UNCHANGED <<row, writes>> /\ MutationReturns({"failed", "unstarted"})
     \/ row' \in {row, "new", "wrong"} /\ writes' = writes + (IF row' = row THEN 0 ELSE 1)
        /\ MutationReturns({"failed", "unknown", "maybe"})
     \/ /\ mpc' = "addseek" /\ UNCHANGED <<manswer, attempted>>
        /\ \/ UNCHANGED <<row, writes>> /\ original' \in {{"failed", "unstarted"}, {"failed", "unstarted", "reconcile"}}
           \/ /\ row' \in {row, "wrong"} /\ writes' = writes + (IF row' = row THEN 0 ELSE 1)
              /\ original' \in {{"failed", "unknown", "maybe"}, {"failed", "maybe"}}

(* tableAddCursorFailure *)
AddCursorFailure(cursor) ==
  LET unknown == (original \union cursor) \intersect {"unknown", "cleanup"} # {}
  IN {"failed", "reconcile"} \union (original \intersect {"maybe"})
       \union ((original \union cursor) \intersect {"cleanup"})
       \union (IF unknown THEN {"unknown", "maybe"} ELSE original \intersect {"unstarted"})

NothingWasAdded == "unstarted" \in original /\ original \intersect {"unknown", "reconcile", "cleanup"} = {}

SeekFreeRow ==
  /\ mpc = "addseek"
  /\ UNCHANGED <<tworld, ppc, plocal>>
  /\ \/ NothingWasAdded /\ ReadCalled(TRUE) /\ MutationGoes("adding")
     \/ /\ ~NothingWasAdded /\ UNCHANGED <<seek, rpc, rlocal, ranswer>>
        /\ MutationReturns(AddCursorFailure(If("unstarted" \notin original, {"unknown"})))
     \/ NothingWasAdded /\ UNCHANGED <<seek, rpc, rlocal, ranswer>> /\ MutationReturns(AddCursorFailure({}))

FreeRowSought ==
  /\ mpc = "adding" /\ rpc = "done"
  /\ UNCHANGED rvars
  /\ \/ ranswer = {"ok"} /\ MutationGoes("again")
     \/ ranswer = {"ok"} /\ MutationReturns(AddCursorFailure({}))
     \/ ranswer # {"ok"} /\ MutationReturns(AddCursorFailure(ranswer))

AddAgain ==
  /\ mpc = "again"
  /\ UNCHANGED <<table, moved, lease, ppc, plocal, seek, rpc, rlocal, ranswer>>
  /\ \/ row' = "new" /\ writes' = writes + 1 /\ MutationReturns({"ok"})
     \/ UNCHANGED <<row, writes>> /\ MutationReturns({"failed", "unstarted"})
     \/ row' \in {row, "new", "wrong"} /\ writes' = writes + (IF row' = row THEN 0 ELSE 1)
        /\ MutationReturns({"failed", "unknown", "maybe"})

MutationStep ==
  \/ ReserveBudget \/ ProveTarget \/ SeekTarget \/ TargetFound \/ ReadBackTarget \/ WriteOnce
  \/ CompareModels \/ LastCheckpoint \/ AddRow \/ SeekFreeRow \/ FreeRowSought \/ AddAgain
  \/ mpc = "seeking" /\ PositionStep /\ UNCHANGED <<seek, rpc, rlocal, ranswer, mpc, attempted, original, manswer>>
  \/ mpc = "adding" /\ ReadStep /\ UNCHANGED <<mpc, attempted, original, manswer>>

(* A person at the program; nobody is there between the comparison of the  *)
(* models and the checkpoint, which would see it, nor after the answer.    *)
TableDisturbed ==
  /\ mpc \notin {"check", "done"} /\ rpc # "done"
  /\ Touch /\ UNCHANGED <<ppc, plocal, seek, rpc, rlocal, ranswer, mpc, attempted, original, manswer>>

-----------------------------------------------------------------------------
(* What must hold. *)

(* table-cursor-position.ts:182-196 and 275-299, table-cursor-step.ts:     *)
(* 163-183: a lease that a worker reported is given back on every way out, *)
(* or the answer asks for the cleanup.                                     *)
LeaseAccounted ==
  /\ rpc = "done" /\ lease = "open" => "cleanup" \in ranswer
  /\ mpc = "done" /\ lease = "open" => "cleanup" \in manswer

(* table-cursor-mutation.ts:131-218 and table-add-seek.ts:17-42: a table   *)
(* is written at most once, "nothing was started" is said only of a table  *)
(* nobody wrote, and "ok" only when the wanted row, and of an update no    *)
(* other row, has changed, whenever a person intervened.  A read that      *)
(* moved the cursor and failed never has a known outcome.                  *)
TableAnswerIsTrue ==
  /\ writes <= 1
  /\ rpc = "done" /\ moved /\ "failed" \in ranswer => "unknown" \in ranswer
  /\ mpc = "done" =>
       /\ "unstarted" \in manswer => writes = 0
       /\ "ok" \in manswer => row = "new" /\ (attempted => table = "same")

=============================================================================
