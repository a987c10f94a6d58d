---------------------------- MODULE TablePosition ----------------------------
(***************************************************************************)
(* One exact move of the table cursor to a row                             *)
(* (src/src/table-cursor-position.ts).  A worker raises the window and     *)
(* hands over a lease on the foreground it took it from; the native bridge *)
(* moves; a worker takes the lease back.  The lease is given away at most  *)
(* once and given back on every way out, or the answer asks for a cleanup. *)
(*                                                                         *)
(* A person at the program may change the table at any time.  A worker     *)
(* whose reply is lost has left nothing behind that was reported: its      *)
(* process is ended by WorkerRuntime.                                      *)
(***************************************************************************)
EXTENDS Naturals, FiniteSets

VARIABLES
  table,      \* the other rows: same, touched
  row,        \* the target row: old, new (as wanted), wrong
  writes,     \* how often a worker wrote into the table
  moved,      \* the cursor was moved or a key was sent
  lease,      \* none, open (reported and not yet given back), closed
  ppc,
  held,       \* lease: the executor has it
  unsure,     \* unknownAuthority, cleanupRequired
  submitted, positioned, quiescent, noop,   \* noop: provenInitialNoop
  editor,     \* numberEditorPending
  pres        \* the marks of the result

tworld == <<table, row, writes, moved, lease>>
plocal == <<held, unsure, submitted, positioned, quiescent, noop, editor, pres>>
pvars == <<tworld, ppc, plocal>>

TableMarks == {"ok", "failed", "unknown", "reconcile", "cleanup", "unstarted", "maybe"}

PositionTypeOK ==
  /\ table \in {"same", "touched"} /\ row \in {"old", "new", "wrong"} /\ writes \in 0..2
  /\ moved \in BOOLEAN /\ lease \in {"none", "open", "closed"}
  /\ ppc \in {"idle", "acquire", "read1", "position", "read2", "prepare", "focus", "read3", "checkpoint", "read4", "release"}
  /\ {held, unsure, submitted, positioned, quiescent, noop, editor} \subseteq BOOLEAN
  /\ pres \subseteq TableMarks

PositionInit ==
  /\ table = "same" /\ row = "old" /\ writes = 0 /\ moved = FALSE /\ lease = "none" /\ ppc = "idle"
  /\ held = FALSE /\ unsure = FALSE /\ submitted = FALSE /\ positioned = FALSE /\ quiescent = TRUE
  /\ noop = FALSE /\ editor = FALSE /\ pres = {}

Touch == table = "same" /\ table' = "touched" /\ UNCHANGED <<row, writes, moved, lease>>

If(condition, marks) == IF condition THEN marks ELSE {}

-----------------------------------------------------------------------------
(* executeNativeTargetPosition *)

PositionCalled ==
  /\ ppc' = "acquire" /\ held' = FALSE /\ unsure' = FALSE /\ submitted' = FALSE /\ positioned' = FALSE
  /\ quiescent' = TRUE /\ noop' = FALSE /\ editor' = FALSE /\ pres' = {}

PositionReturns(marks) == ppc' = "idle" /\ pres' = marks

(* The catch block, with the values the failing step leaves. *)
PositionThrows ==
  /\ ppc' = "release"
  /\ pres' = {"failed"} \union If(submitted' \/ ~quiescent', {"unknown"})
                        \union If(submitted' \/ positioned' \/ unsure', {"reconcile"})

(* The lease is parsed before it is compared: what is reported but not     *)
(* understood is not held, and what does not fit is held but unsure.       *)
HandedOver(kept, sure) == lease' = "open" /\ held' = kept /\ unsure' = ~sure

Acquire ==
  /\ ppc = "acquire"
  /\ UNCHANGED <<table, row, writes, moved, positioned, quiescent, noop, editor>>
  /\ \/ \E footer \in BOOLEAN : HandedOver(TRUE, TRUE) /\ submitted' = footer /\ ppc' = "read1" /\ UNCHANGED pres
     \/ \E footer, kept \in BOOLEAN : HandedOver(kept, FALSE) /\ submitted' = footer /\ PositionThrows
     \/ /\ UNCHANGED <<lease, held, unsure, submitted>>
        /\ \E footer \in BOOLEAN : PositionReturns({"failed"} \union If(footer, {"unknown", "reconcile"}))
     \/ UNCHANGED <<lease, held, unsure, submitted>> /\ PositionThrows

(* verify(): the whole model is what it was, or the move ends here. *)
AfterRead == [read1 |-> "position", read2 |-> "focus", read3 |-> "checkpoint", read4 |-> "release"]
ReadModel ==
  /\ ppc \in DOMAIN AfterRead
  /\ UNCHANGED <<tworld, held, unsure, submitted, positioned, quiescent, noop, editor>>
  /\ \/ table = "same" /\ ppc' = (IF ppc = "read2" /\ editor THEN "prepare" ELSE AfterRead[ppc])
        /\ pres' = (IF ppc = "read4" THEN {"ok"} ELSE pres)
     \/ PositionThrows

(* table_position_number: the reply and its acknowledgment arrive; the     *)
(* first dispatch is refused and proves that nothing happened; or anything *)
(* else, after which it is unknown whether the bridge still works on it.   *)
PositionNumber ==
  /\ ppc = "position"
  /\ UNCHANGED <<table, row, writes, lease, held, unsure>>
  /\ \/ /\ moved' = TRUE /\ submitted' = TRUE /\ positioned' = TRUE /\ ppc' = "read2"
        /\ editor' \in BOOLEAN /\ quiescent' = ~editor' /\ UNCHANGED <<noop, pres>>
     \/ /\ ~submitted /\ UNCHANGED <<moved, submitted, positioned, editor>>
        /\ quiescent' = TRUE /\ noop' \in BOOLEAN /\ PositionThrows
     \/ /\ moved' \in {moved, TRUE} /\ submitted' = TRUE /\ quiescent' \in BOOLEAN
        /\ positioned' \in BOOLEAN /\ UNCHANGED <<noop, editor>> /\ PositionThrows

(* phase(...) with the lease: it is handed to a worker, which hands over a *)
(* new one, or says no, or is lost.                                        *)
HandBack(next) ==
  \/ HandedOver(TRUE, TRUE) /\ ppc' = next /\ quiescent' = TRUE /\ UNCHANGED pres
  \/ HandedOver(FALSE, FALSE) /\ UNCHANGED quiescent /\ PositionThrows
  \/ lease' \in {"open", "closed"} /\ held' = FALSE /\ unsure' = TRUE /\ UNCHANGED quiescent /\ PositionThrows

PrepareNumber ==
  /\ ppc = "prepare"
  /\ UNCHANGED <<table, row, writes, moved, submitted, positioned, noop, editor>>
  /\ \/ UNCHANGED <<lease, held, unsure, quiescent>> /\ PositionThrows
     \/ held /\ HandBack("focus")

FocusOnly ==
  /\ ppc = "focus"
  /\ UNCHANGED <<table, row, writes, moved, lease, held, unsure, positioned, noop, editor>>
  /\ submitted' = TRUE
  /\ \/ quiescent' = TRUE /\ ppc' = "read3" /\ UNCHANGED pres
     \/ quiescent' \in BOOLEAN /\ PositionThrows

(* The last checkpoint.  Its refusal is an answer of its own. *)
CheckPosition ==
  /\ ppc = "checkpoint"
  /\ UNCHANGED <<table, row, writes, moved, submitted, positioned, noop, editor>>
  /\ \/ UNCHANGED <<lease, held, unsure, quiescent>> /\ PositionThrows
     \/ held /\ HandBack("read4")
     \/ /\ held /\ lease' \in {"open", "closed"} /\ held' = FALSE /\ unsure' = TRUE /\ UNCHANGED quiescent
        /\ ppc' = "release" /\ pres' = {"failed", "unknown", "cleanup", "reconcile"}

(* The end of a lease is believed when the worker says so in every field;  *)
(* a lease that is gone already cannot be given back.                      *)
GivesBack ==
  {[lease |-> l, unsure |-> TRUE] : l \in {lease, "closed"}}
    \union If(lease = "open", {[lease |-> "closed", unsure |-> FALSE]})

Release ==
  /\ ppc = "release"
  /\ UNCHANGED <<table, row, writes, moved, submitted, positioned, quiescent, noop, editor>>
  /\ held' = FALSE
  /\ IF held /\ quiescent
       THEN \E given \in GivesBack : lease' = given.lease /\ unsure' = given.unsure
       ELSE UNCHANGED lease /\ unsure' = (unsure \/ held)
  /\ \E restored \in IF noop /\ held /\ quiescent THEN BOOLEAN ELSE {FALSE} :
       PositionReturns((pres \ If(unsure', {"ok"}))
         \union If(restored, {"unknown", "cleanup", "reconcile"})
         \union If(unsure', {"failed", "cleanup", "reconcile"} \union If("ok" \in pres, {"unknown"})))

PositionStep ==
  Acquire \/ ReadModel \/ PositionNumber \/ PrepareNumber \/ FocusOnly \/ CheckPosition \/ Release

=============================================================================
