----------------------------- MODULE QtClassify -----------------------------
(***************************************************************************)
(* receipt_manager_classify over Qt: for every kind of classification its  *)
(* dialog is opened, changed, saved, and opened again to see what has been *)
(* kept.  A failure whose outcome is known cancels the open dialog and     *)
(* takes back, the last first, the kinds that have been saved.             *)
(***************************************************************************)
EXTENDS QtSession

CONSTANT ClassKinds     \* bound: kinds the caller sets, 1..ClassKinds

ASSUME ClassKindsAssumption == ClassKinds \in Nat \ {0}

Classes == 1..ClassKinds
NoDialog == 0

(* app: the receipt's detail is open, the dialog of a kind, what it shows, *)
(* what is kept per kind; the kinds the user has had a hand in.            *)
ClassifyInit ==
  \E want \in [Classes -> {"old", "new"}], detail \in BOOLEAN:
    SessionInit("prepare",
      [detail |-> detail, dialog |-> NoDialog, shown |-> "old",
       saved |-> [k \in Classes |-> "old"], users |-> {}],
      [want |-> want, before |-> [k \in Classes |-> "old"], kind |-> 1, todo |-> << >>, mode |-> "apply",
       modal |-> NoDialog, verified |-> FALSE, closeStarted |-> FALSE, staged |-> FALSE, expected |-> "old",
       prepared |-> FALSE, finishing |-> FALSE, restored |-> FALSE])

-----------------------------------------------------------------------------
Push(name, kind) == [name |-> name, kind |-> kind, from |-> "", to |-> ""]
Check(kind, from, to) == [name |-> "check", kind |-> kind, from |-> from, to |-> to]

Possible(act) ==
  CASE act.name = "select" -> ~app.detail
    [] act.name = "open" -> app.detail /\ app.dialog = NoDialog
    [] act.name = "detail" -> app.detail /\ app.dialog = NoDialog
    [] act.name = "check" -> app.dialog = act.kind /\ app.shown = act.from
    [] OTHER -> app.dialog = act.kind
Outcome(act) ==
  CASE act.name = "select" -> [app EXCEPT !.detail = TRUE]
    [] act.name = "detail" -> [app EXCEPT !.detail = FALSE]
    [] act.name = "open" -> [app EXCEPT !.dialog = act.kind, !.shown = app.saved[act.kind]]
    [] act.name = "check" -> [app EXCEPT !.shown = act.to]
    [] act.name = "save" -> [app EXCEPT !.saved[act.kind] = app.shown, !.dialog = NoDialog]
    [] OTHER -> [app EXCEPT !.dialog = NoDialog]

LateClassify ==
  \E act \in posted:
    /\ posted' = posted \ {act} /\ app' = IF Possible(act) THEN Outcome(act) ELSE app
    /\ UNCHANGED <<channel, begun, uncertain, qpc, q, qanswer>>

(* The user classifies the receipt too, or goes on in the open dialog.     *)
UserClassifies ==
  /\ qpc # "answered"
  /\ \/ \E k \in Classes \ app.users:
          /\ app.dialog = NoDialog
          /\ app' = [app EXCEPT !.saved[k] = "foreign", !.users = @ \cup {k}]
     \/ /\ app.dialog \in Classes \ app.users
        /\ app' = [app EXCEPT !.shown = "foreign", !.users = @ \cup {app.dialog}]
     \/ /\ app.dialog \in Classes \ app.users
        /\ app' = [app EXCEPT !.dialog = NoDialog, !.users = @ \cup {app.dialog}]
  /\ UNCHANGED <<channel, posted, begun, uncertain, qpc, q, qanswer>>

-----------------------------------------------------------------------------
(* The session: errors are remembered as unknown for good, as are those of *)
(* a transport; the signal makes known errors unknown once it has begun.   *)
ClassRaises(doubt) == qpc' = "caught" /\ uncertain' = (uncertain \/ doubt) /\ UNCHANGED <<begun, q, qanswer>>

MarksError(r) ==
  r.unknown \/ r.attempted \/ (r.thrown /\ channel = "open" /\ begun)

ClassAct(act, locals, next) ==
  \E r \in Replies:
    /\ RequestAcknowledged(act, Possible(act), Outcome(act), r) /\ begun' = Begun(r)
    /\ q' = locals
    /\ IF r.ok THEN qpc' = next /\ UNCHANGED uncertain
       ELSE qpc' = "caught" /\ uncertain' = (uncertain \/ MarksError(r))
    /\ UNCHANGED qanswer

ClassReadFails(doubt) ==
  \/ \E r \in Replies: ReadingThrows(r) /\ ClassRaises(doubt \/ MarksError(r))
  \/ ReadWorks /\ ClassRaises(doubt)
ClassReads(next, locals) ==
  ReadWorks /\ qpc' = next /\ q' = locals /\ UNCHANGED <<begun, uncertain, qanswer>>
ClassRefutes == ReadWorks /\ ClassRaises(TRUE)

-----------------------------------------------------------------------------
(* prepare: the list, the row, the windows, and the row's detail.          *)
PrepareClass ==
  \/ /\ qpc = "prepare"
     /\ \/ ClassReadFails(FALSE)
        \/ app.detail /\ ClassReads("open", [q EXCEPT !.prepared = TRUE])
        \/ ~app.detail /\ ClassAct(Push("select", NoDialog), q, "selected")
  \/ /\ qpc = "selected"
     /\ \/ ClassReadFails(FALSE)
        \/ app.detail /\ ClassReads("open", [q EXCEPT !.prepared = TRUE])

(* open: no second dialog beside one that is open or unknown.              *)
OpenDialog ==
  /\ qpc = "open"
  /\ IF q.modal # NoDialog \/ uncertain THEN ClassRefutes
     ELSE \/ ClassReadFails(FALSE) \/ ClassReadFails(begun)
          \/ ClassAct(Push("open", q.kind), q, "present")

Present ==
  \/ /\ qpc = "present"
     /\ \/ ClassReadFails(TRUE)
        \/ /\ app.dialog = q.kind
           /\ ClassReads("identify", [q EXCEPT !.modal = q.kind, !.verified = FALSE,
                                               !.closeStarted = FALSE, !.staged = FALSE])
  \/ /\ qpc = "identify"
     /\ \/ ClassReadFails(FALSE)
        \/ /\ app.dialog = q.kind
           /\ ClassReads("grid", [q EXCEPT !.verified = TRUE, !.expected = app.shown])

(* What the dialog shows decides: to be changed, to have been kept, or to  *)
(* be ours, before it is taken back.                                       *)
Ours(shown) == shown = q.want[q.kind]

Grid ==
  LET value == q.expected IN
  /\ qpc = "grid"
  /\ CASE q.mode = "apply" ->
            ClassReads("set", [q EXCEPT !.before[q.kind] = value])
       [] q.mode = "undo" -> IF Ours(value) THEN ClassReads("set", q) ELSE ClassRefutes
       [] OTHER ->
            IF value = (IF q.mode = "prove" THEN q.want[q.kind] ELSE q.before[q.kind])
            THEN ClassReads("close", q) ELSE ReadWorks /\ ClassRaises(FALSE)

Desired == IF q.mode = "apply" THEN q.want[q.kind] ELSE q.before[q.kind]

Toggle ==
  \/ /\ qpc = "set"
     /\ IF q.expected = Desired THEN ClassReads("close", q)
        ELSE \/ ClassReadFails(FALSE)
             \/ app.dialog = q.kind /\ app.shown # q.expected /\ ClassRefutes
             \/ /\ app.dialog = q.kind /\ app.shown = q.expected
                /\ \E r \in Replies:
                     LET act == Check(q.kind, q.expected, Desired) IN
                     /\ RequestAcknowledged(act, Possible(act), Outcome(act), r) /\ begun' = Begun(r)
                     /\ IF r.ok THEN /\ qpc' = "checked" /\ UNCHANGED uncertain
                                     /\ q' = [q EXCEPT !.expected = Desired, !.staged = TRUE]
                        ELSE qpc' = "caught" /\ uncertain' = (uncertain \/ MarksError(r)) /\ UNCHANGED q
                     /\ UNCHANGED qanswer
  \/ /\ qpc = "checked"
     /\ \/ ClassReadFails(FALSE)
        \/ app.dialog = q.kind /\ app.shown = q.expected /\ ClassReads("close", q)
        \/ app.dialog = q.kind /\ app.shown # q.expected /\ ClassRefutes

(* closeModal: saved only if something was changed, and never pressed      *)
(* again once it has been.                                                 *)
Saves == q.staged /\ q.mode \in {"apply", "undo"}

AfterClose ==
  CASE q.mode = "apply" -> [q EXCEPT !.todo = <<q.kind>> \o @, !.mode = "prove"]
    [] q.mode = "undo" -> [q EXCEPT !.mode = "undoprove"]
    [] q.mode = "prove" -> [q EXCEPT !.mode = "apply", !.kind = @ + 1]
    [] q.mode = "undoprove" -> [q EXCEPT !.todo = Tail(@), !.mode = "undo"]
    [] OTHER -> q

CloseModal ==
  \/ /\ qpc = "close"
     /\ IF ~q.verified \/ q.closeStarted \/ uncertain THEN ClassRefutes
        ELSE \/ ClassReadFails(FALSE) \/ ClassReadFails(q.staged)
             \/ app.dialog = q.kind /\ q.staged /\ app.shown # q.expected /\ ClassRefutes
             \/ /\ app.dialog = q.kind /\ (q.staged => app.shown = q.expected)
                /\ ClassAct(Push(IF Saves THEN "save" ELSE "cancel", q.kind),
                            [q EXCEPT !.closeStarted = TRUE], "closing")
  \/ /\ qpc = "closing"
     /\ \/ ClassReadFails(FALSE) \/ ClassReadFails(TRUE)
        \/ /\ app.dialog = NoDialog
           /\ ClassReads("closed", [q EXCEPT !.modal = NoDialog, !.verified = FALSE])

NextKind ==
  /\ qpc = "closed" /\ q' = AfterClose
  /\ qpc' = (CASE q.mode = "abandon" -> "rollback"
               [] q.mode = "prove" -> (IF q.kind = ClassKinds THEN "finish" ELSE "open")
               [] q.mode = "undoprove" -> "rollback"
               [] OTHER -> "open")
  /\ UNCHANGED <<channel, posted, app, begun, uncertain, qanswer>>

(* finish: the detail is closed, the list and the windows are compared.    *)
FinishClass ==
  LET ending == [q EXCEPT !.finishing = TRUE] IN
  \/ /\ qpc = "finish"
     /\ \/ ReadWorks /\ qpc' = "caught" /\ uncertain' \in {uncertain, uncertain \/ begun} /\ q' = ending /\ UNCHANGED <<begun, qanswer>>
        \/ ClassAct(Push("detail", NoDialog), ending, "finished")
  \/ /\ qpc = "finished"
     /\ \/ ClassReadFails(FALSE)
        \/ /\ ~app.detail /\ ReadWorks /\ UNCHANGED <<begun, uncertain>>
           /\ IF q.mode = "undo"
              THEN qpc' = "fails" /\ q' = [q EXCEPT !.restored = TRUE] /\ UNCHANGED qanswer
              ELSE QtAnswers(TRUE, FALSE, "none") /\ UNCHANGED q

-----------------------------------------------------------------------------
(* The error handling of executeQtNativeClassify: an error within it ends  *)
(* the step it is in, and is not followed by another rollback.              *)
MayAbandon == q.modal # NoDialog /\ ~q.closeStarted /\ ~uncertain

CaughtClass ==
  /\ qpc = "caught" /\ UNCHANGED <<channel, posted, app, begun, uncertain, qanswer>>
  /\ IF q.mode \in {"undo", "undoprove"} THEN qpc' = "fails" /\ UNCHANGED q
     ELSE IF q.mode # "abandon" /\ MayAbandon THEN qpc' = "close" /\ q' = [q EXCEPT !.mode = "abandon"]
     ELSE qpc' = "rollback" /\ UNCHANGED q

Rollback ==
  /\ qpc = "rollback" /\ UNCHANGED <<channel, posted, app, begun, uncertain, qanswer>>
  /\ IF ~q.prepared \/ uncertain \/ q.modal # NoDialog \/ (q.finishing /\ q.mode # "undo")
     THEN qpc' = "fails" /\ UNCHANGED q
     ELSE IF q.todo = << >> THEN qpc' = "finish" /\ q' = [q EXCEPT !.mode = "undo"]
     ELSE qpc' = "open" /\ q' = [q EXCEPT !.mode = "undo", !.kind = Head(q.todo)]

ClassAnswers ==
  /\ qpc = "fails"
  /\ QtAnswers(FALSE, uncertain, IF q.restored THEN "restored" ELSE IF begun THEN "unknown" ELSE "unchanged")
  /\ UNCHANGED <<channel, posted, app, begun, uncertain, q>>

ClassifyNext ==
  \/ PrepareClass \/ OpenDialog \/ Present \/ Grid \/ Toggle \/ CloseModal \/ NextKind \/ FinishClass
  \/ CaughtClass \/ Rollback \/ ClassAnswers
  \/ LateClassify \/ UserClassifies \/ ChannelCloses

-----------------------------------------------------------------------------
(* A success means that every kind is kept as asked for, and "restored"    *)
(* that every kind is as it was before, where the user has not changed it  *)
(* too; "unchanged" that nothing was done; a failure that does not say     *)
(* that its outcome is unknown, that no dialog is still being saved; and a *)
(* dialog is never saved with something other than what is asked for or    *)
(* was there before (qt-native-classify.ts: "independent reopen proofs and *)
(* guarded reverse rollback").                                             *)
ClassifyAnswerIsTrue ==
  /\ \A k \in Classes \ app.users: app.saved[k] \in {"old", q.want[k]}
  /\ qanswer # << >> =>
       LET a == Head(qanswer) IN
         /\ a.ok => \A k \in Classes \ app.users: app.saved[k] = q.want[k]
         /\ a.state \in {"restored", "unchanged"} =>
              (\A k \in Classes \ app.users: app.saved[k] = "old") /\ posted = {}
         /\ ~a.unknown => \A act \in posted: act.name # "save"

=============================================================================
