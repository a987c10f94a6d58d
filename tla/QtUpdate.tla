------------------------------ MODULE QtUpdate ------------------------------
(***************************************************************************)
(* receipt_manager_update over Qt: the receipt's detail is opened, its     *)
(* fields are edited one by one and read back, the detail is closed and    *)
(* the list is read.  After a failure whose outcome is known the edits are *)
(* taken back, the last first, as far as the fields still hold what was    *)
(* written.  The user may edit the receipt, or close it, at any moment.    *)
(***************************************************************************)
EXTENDS QtSession

CONSTANT ReceiptFields     \* bound: fields the caller asks to change

ASSUME ReceiptFieldsAssumption == ReceiptFields \in Nat \ {0}

Fields == 1..ReceiptFields
AllFields(value) == [f \in Fields |-> value]

(* app: the detail is open; the value of every field, where "old" is what  *)
(* the caller has read and "new" what it asks for; the fields of the user. *)
UpdateInit ==
  \E detail \in BOOLEAN:
    SessionInit("prepare",
      [detail |-> detail, value |-> AllFields("old"), users |-> {}],
      [field |-> 1, work |-> AllFields("old"), edits |-> << >>, closing |-> FALSE,
       complete |-> FALSE, lost |-> FALSE, cleaned |-> FALSE])

-----------------------------------------------------------------------------
Select == [kind |-> "select", field |-> 0, expected |-> "", to |-> ""]
Press == [Select EXCEPT !.kind = "close"]
Set(field, expected, to) == [kind |-> "set", field |-> field, expected |-> expected, to |-> to]

Takes(act) ==
  CASE act.kind = "select" -> ~app.detail
    [] act.kind = "close" -> app.detail
    [] OTHER -> app.detail /\ app.value[act.field] = act.expected
Effect(act) ==
  CASE act.kind = "select" -> [app EXCEPT !.detail = TRUE]
    [] act.kind = "close" -> [app EXCEPT !.detail = FALSE]
    [] OTHER -> [app EXCEPT !.value[act.field] = act.to]

LateUpdate ==
  \E act \in posted:
    /\ posted' = posted \ {act} /\ app' = IF Takes(act) THEN Effect(act) ELSE app
    /\ UNCHANGED <<channel, begun, uncertain, qpc, q, qanswer>>

UserChangesReceipt ==
  /\ qpc # "answered"
  /\ \/ \E f \in Fields \ app.users:
          app' = [app EXCEPT !.value[f] = "foreign", !.users = @ \cup {f}]
     \/ app.detail /\ app' = [app EXCEPT !.detail = FALSE]
  /\ UNCHANGED <<channel, posted, begun, uncertain, qpc, q, qanswer>>

-----------------------------------------------------------------------------
Acts(act, onSuccess, next) ==
  \E r \in Replies:
    /\ RequestAcknowledged(act, Takes(act), Effect(act), r) /\ begun' = Begun(r)
    /\ IF r.ok THEN qpc' = next /\ q' = onSuccess /\ UNCHANGED uncertain
       ELSE qpc' = "catch" /\ uncertain' = Doubtful(r) /\ UNCHANGED q
    /\ UNCHANGED qanswer

Raises(doubt) ==
  /\ qpc' = "catch" /\ uncertain' = doubt /\ UNCHANGED <<begun, q, qanswer>>

(* A reading of the detail, which may throw or show it obstructed; the     *)
(* window may be another one.                                               *)
ReadDetailFails ==
  \/ \E r \in Replies: ReadingThrows(r) /\ Raises(TRUE)
  \/ ReadWorks /\ \E doubt \in BOOLEAN: Raises(doubt)

ReadDetail(next, locals) ==
  /\ ReadWorks /\ qpc' = next /\ q' = locals /\ UNCHANGED <<begun, uncertain, qanswer>>

-----------------------------------------------------------------------------
(* The list, the row, the windows: anything that differs, and a detail     *)
(* that is open already, ends the operation before its first action.       *)
Prepared ==
  /\ qpc = "prepare"
  /\ \/ ~app.detail /\ ReadDetail("select", q)
     \/ ReadWorks /\ QtAnswers(FALSE, FALSE, "unchanged") /\ UNCHANGED <<begun, uncertain, q>>
     \/ \E r \in Replies: ReadingThrows(r) /\ QtAnswers(FALSE, r.unknown, "none") /\ UNCHANGED <<begun, uncertain, q>>

Selects == qpc = "select" /\ Acts(Select, q, "bound")

(* Values that are not those the caller has read: the detail is closed.    *)
Bound ==
  /\ qpc = "bound"
  /\ \/ ReadDetailFails
     \/ /\ app.detail
        /\ ReadDetail(IF app.value = AllFields("old") THEN "edit" ELSE "stale", q)

ClosesStale ==
  \/ qpc = "stale" /\ Acts(Press, [q EXCEPT !.closing = TRUE], "staleclosed")
  \/ /\ qpc = "staleclosed"
     /\ \/ ReadDetailFails
        \/ ~app.detail /\ ReadWorks /\ QtAnswers(FALSE, FALSE, "none") /\ UNCHANGED <<begun, uncertain, q>>

(* The values are read again before every edit, and have to be those the   *)
(* operation knows.                                                        *)
EditField ==
  /\ qpc = "edit"
  /\ \/ ReadDetailFails
     \/ app.detail /\ app.value # q.work /\ ReadWorks /\ Raises(TRUE)
     \/ /\ app.detail /\ app.value = q.work
        /\ IF app.value[q.field] = "new" THEN ReadDetail("next", q)
           ELSE ReadDetail("send", [q EXCEPT !.edits = Append(@, q.field)])

SendEdit ==
  qpc = "send" /\ Acts(Set(q.field, q.work[q.field], "new"), q, "commit")

Commit ==
  LET f == q.field
      others == \A g \in Fields \ {f}: app.value[g] = q.work[g]
  IN /\ qpc = "commit"
     /\ \/ ReadDetailFails
        \/ app.detail /\ app.value[f] # "new" /\ ReadWorks /\ Raises(FALSE)
        \/ app.detail /\ app.value[f] = "new" /\ ~others /\ ReadWorks /\ Raises(TRUE)
        \/ app.detail /\ app.value[f] = "new" /\ others
           /\ ReadDetail("next", [q EXCEPT !.work = app.value])

NextField ==
  /\ qpc = "next"
  /\ IF q.field < ReceiptFields
     THEN qpc' = "edit" /\ q' = [q EXCEPT !.field = @ + 1]
     ELSE qpc' = "final" /\ UNCHANGED q
  /\ UNCHANGED <<channel, posted, app, begun, uncertain, qanswer>>

FinalReading ==
  /\ qpc = "final"
  /\ \/ ReadDetailFails
     \/ app.detail /\ app.value = AllFields("new") /\ ReadDetail("close", q)
     \/ app.detail /\ app.value # AllFields("new") /\ ReadWorks /\ Raises(TRUE)

CloseDetail ==
  \/ qpc = "close" /\ Acts(Press, [q EXCEPT !.closing = TRUE], "closing")
  \/ /\ qpc = "closing"
     /\ \/ ReadDetailFails
        \/ ~app.detail /\ ReadDetail("list", q)

(* The list, the dirty state and the windows afterwards.                   *)
ProveList ==
  /\ qpc = "list"
  /\ \/ ReadDetailFails
     \/ /\ ReadWorks /\ UNCHANGED <<begun, uncertain, q>>
        /\ \E verified \in BOOLEAN: QtAnswers(verified, FALSE, "none")

-----------------------------------------------------------------------------
(* The rollback.                                                            *)
BuggyUncertain == uncertain /\ q.closing
Uncertain == uncertain \/ q.closing

Catch ==
  /\ qpc = "catch" /\ uncertain' = Uncertain
  /\ IF ~Uncertain /\ q.edits # << >>
     THEN qpc' = "undo" /\ q' = [q EXCEPT !.complete = TRUE]
     ELSE qpc' = "finish" /\ UNCHANGED q
  /\ UNCHANGED <<channel, posted, app, begun, qanswer>>

StopsUndo(doubt) ==
  /\ qpc' = "finish" /\ q' = [q EXCEPT !.complete = FALSE] /\ uncertain' = (uncertain \/ doubt)
  /\ UNCHANGED qanswer

UndoReadFails ==
  /\ \/ \E r \in Replies: ReadingThrows(r) /\ StopsUndo(TRUE)
     \/ ReadWorks /\ \E doubt \in BOOLEAN: StopsUndo(doubt)
  /\ UNCHANGED begun

Keeps(live) == q.lost \/ live # "new"

Undo ==
  LET f == Last(q.edits)
      live == app.value[f]
      rest == [q EXCEPT !.edits = Front(@)]
  IN /\ qpc = "undo" /\ q.edits # << >>
     /\ \/ UndoReadFails
        \/ app.detail /\ live = "old" /\ ReadDetail("undo", rest)
        \/ app.detail /\ live # "old" /\ Keeps(live)
           /\ ReadDetail("undo", [rest EXCEPT !.complete = FALSE, !.lost = TRUE])
        \/ app.detail /\ live # "old" /\ ~Keeps(live)
           /\ ReadDetail("undosend", [q EXCEPT !.work = [AllFields("old") EXCEPT ![f] = live]])

SendUndo ==
  LET f == Last(q.edits) IN
  /\ qpc = "undosend"
  /\ \E r \in Replies:
       /\ RequestAcknowledged(Set(f, q.work[f], "old"), Takes(Set(f, q.work[f], "old")),
                              Effect(Set(f, q.work[f], "old")), r)
       /\ begun' = Begun(r)
       /\ IF r.ok THEN qpc' = "undone" /\ UNCHANGED <<uncertain, q, qanswer>>
          ELSE StopsUndo(Doubtful(r))

Undone ==
  LET verified == app.value[Last(q.edits)] = "old" IN
  /\ qpc = "undone"
  /\ \/ UndoReadFails
     \/ /\ app.detail
        /\ ReadDetail("undo", [q EXCEPT !.edits = Front(@), !.complete = @ /\ verified,
                                        !.lost = @ \/ ~verified])

AllUndone ==
  /\ qpc = "undo" /\ q.edits = << >>
  /\ \/ UndoReadFails
     \/ app.detail /\ ReadDetail(IF q.complete /\ app.value = AllFields("old") THEN "cleanup" ELSE "finish",
                                 [q EXCEPT !.complete = @ /\ app.value = AllFields("old")])

(* The detail is closed again; what fails here is not looked at.           *)
Cleanup ==
  \/ /\ qpc = "cleanup" /\ UNCHANGED <<uncertain, qanswer>>
     /\ \/ \E r \in Replies:
             /\ RequestAcknowledged(Press, Takes(Press), Effect(Press), r) /\ begun' = Begun(r)
             /\ qpc' = (IF r.ok THEN "cleaning" ELSE "finish") /\ UNCHANGED q
        \/ \E r \in Replies: ReadingThrows(r) /\ qpc' = "finish" /\ UNCHANGED <<begun, q>>
  \/ /\ qpc = "cleaning" /\ qpc' = "finish" /\ UNCHANGED <<begun, uncertain, qanswer>>
     /\ \/ \E r \in Replies: ReadingThrows(r) /\ UNCHANGED q
        \/ ReadWorks /\ UNCHANGED q
        \/ ~app.detail /\ ReadWorks /\ q' = [q EXCEPT !.cleaned = TRUE]

Finish ==
  /\ qpc = "finish"
  /\ QtAnswers(FALSE, uncertain /\ begun,
             IF q.cleaned THEN "restored" ELSE IF begun THEN "unknown" ELSE "unchanged")
  /\ UNCHANGED <<channel, posted, app, begun, uncertain, q>>

UpdateNext ==
  \/ Prepared \/ Selects \/ Bound \/ ClosesStale \/ EditField \/ SendEdit \/ Commit \/ NextField
  \/ FinalReading \/ CloseDetail \/ ProveList
  \/ Catch \/ Undo \/ SendUndo \/ Undone \/ AllUndone \/ Cleanup \/ Finish
  \/ LateUpdate \/ UserChangesReceipt \/ ChannelCloses

-----------------------------------------------------------------------------
(* What the user has written stays; and the answer is true of the fields:  *)
(* a success means that all were written, "restored" and "unchanged" that  *)
(* none is left changed, and a failure that does not say that its outcome  *)
(* is unknown, that no edit is under way any more                           *)
(* (qt-native-receipt-update.ts: "Never replay an unacknowledged write or   *)
(* overwrite an unexpected value").                                        *)
UpdateAnswerIsTrue ==
  /\ \A f \in app.users: app.value[f] = "foreign"
  /\ qanswer # << >> =>
       LET a == Head(qanswer) IN
         /\ a.ok => \A f \in Fields \ app.users: app.value[f] = "new"
         /\ a.state \in {"restored", "unchanged"} =>
              (\A f \in Fields \ app.users: app.value[f] = "old") /\ posted = {}
         /\ ~a.unknown => \A act \in posted: act.kind # "set"

=============================================================================
