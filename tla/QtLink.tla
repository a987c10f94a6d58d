------------------------------- MODULE QtLink -------------------------------
(***************************************************************************)
(* receipt_manager_link over Qt: the receipt manager of a page is opened,  *)
(* the boxes of the receipts are ticked one by one, applied together, and  *)
(* the manager is opened again to see what has been kept.  What has not    *)
(* been applied is cancelled after a failure, if its outcome is known.     *)
(***************************************************************************)
EXTENDS QtSession

CONSTANT LinkItems     \* bound: receipts named in one call

ASSUME LinkItemsAssumption == LinkItems \in Nat \ {0}

Items == 1..LinkItems

(* app: the manager is open, its list is shown, the boxes, what is kept;   *)
(* the program asks whether to transfer values; the user has interfered.   *)
LinkInit ==
  \E linked \in [Items -> BOOLEAN], want \in [Items -> BOOLEAN], open \in BOOLEAN, asks \in BOOLEAN:
    SessionInit("main",
      [manager |-> open, listed |-> FALSE, boxes |-> linked, linked |-> linked,
       asks |-> asks, dialog |-> FALSE, users |-> FALSE],
      [want |-> want, first |-> linked, proof |-> FALSE, expect |-> linked, item |-> 0,
       close |-> "", applying |-> FALSE, closing |-> FALSE, mode |-> FALSE, owned |-> FALSE,
       kept |-> FALSE, cleaned |-> FALSE])

-----------------------------------------------------------------------------
Button(kind) == [kind |-> kind, item |-> 0, expected |-> FALSE]
TickBox(i, expected) == [kind |-> "tick", item |-> i, expected |-> expected]

Works(act) ==
  CASE act.kind = "open" -> ~app.manager
    [] act.kind = "show" -> app.manager /\ ~app.listed
    [] act.kind = "transfer" -> app.dialog
    [] act.kind = "tick" -> app.manager /\ app.listed /\ app.boxes[act.item] = act.expected
    [] OTHER -> app.manager /\ app.listed
Done(act) ==
  CASE act.kind = "open" -> [app EXCEPT !.manager = TRUE, !.listed = FALSE]
    [] act.kind = "show" -> [app EXCEPT !.listed = TRUE, !.boxes = app.linked]
    [] act.kind = "transfer" -> [app EXCEPT !.dialog = FALSE]
    [] act.kind = "tick" -> [app EXCEPT !.boxes[act.item] = ~act.expected]
    [] act.kind = "apply" -> [app EXCEPT !.manager = FALSE, !.linked = app.boxes, !.dialog = app.asks]
    [] OTHER -> [app EXCEPT !.manager = FALSE]

LateLink ==
  \E act \in posted:
    /\ posted' = posted \ {act} /\ app' = IF Works(act) THEN Done(act) ELSE app
    /\ UNCHANGED <<channel, begun, uncertain, qpc, q, qanswer>>

UserInManager ==
  /\ qpc # "answered" /\ app.manager /\ app.listed /\ ~app.users
  /\ \/ \E i \in Items: app' = [app EXCEPT !.boxes[i] = ~@, !.users = TRUE]
     \/ app' = [app EXCEPT !.manager = FALSE, !.users = TRUE]
  /\ UNCHANGED <<channel, posted, begun, uncertain, qpc, q, qanswer>>

-----------------------------------------------------------------------------
(* What fails within the clean-up leaves the outcome as known as it was.   *)
LinkRaises(doubt) ==
  /\ qpc' = "catch" /\ uncertain' = (uncertain \/ (doubt /\ q.close # "cleanup"))
  /\ UNCHANGED <<begun, q, qanswer>>

(* An action; apply is the only one that is kept.                          *)
Pushes(act, onSuccess, next) ==
  \E r \in Replies:
    /\ RequestAcknowledged(act, Works(act), Done(act), r) /\ begun' = Begun(r)
    /\ IF r.ok THEN qpc' = next /\ q' = [onSuccess EXCEPT !.applying = @ \/ act.kind = "apply"] /\ UNCHANGED uncertain
       ELSE /\ qpc' = "catch"
            /\ uncertain' = (uncertain \/ (IF q.close = "cleanup" THEN r.thrown /\ r.unknown ELSE Doubtful(r)))
            /\ q' = [q EXCEPT !.applying = @ \/ (act.kind = "apply" /\ (r.attempted \/ (r.thrown /\ r.unknown)))]
    /\ UNCHANGED qanswer

ReadLinkFails ==
  \/ \E r \in Replies: ReadingThrows(r) /\ LinkRaises(TRUE)
  \/ ReadWorks /\ \E doubt \in BOOLEAN: LinkRaises(doubt)
Reads(next, locals) ==
  ReadWorks /\ qpc' = next /\ q' = locals /\ UNCHANGED <<begun, uncertain, qanswer>>
Refutes == ReadWorks /\ LinkRaises(TRUE)

-----------------------------------------------------------------------------
InitialReading ==
  /\ qpc = "main"
  /\ \/ ReadLinkFails
     \/ ~app.manager /\ Reads("open", q)
     \/ app.manager /\ ReadWorks /\ QtAnswers(FALSE, FALSE, "none") /\ UNCHANGED <<begun, uncertain, q>>

OpenMode ==
  \/ qpc = "open" /\ (Pushes(Button("open"), q, "opened") \/ ReadLinkFails)
  \/ /\ qpc = "opened"
     /\ \/ ReadLinkFails
        \/ app.manager /\ Reads("show", [q EXCEPT !.owned = TRUE])
  \/ qpc = "show" /\ (Pushes(Button("show"), q, "listing") \/ ReadLinkFails)

Wanted(boxes) == {i \in Items: boxes[i] # q.want[i]}

Listing ==
  /\ qpc = "listing"
  /\ \/ ReadLinkFails
     \/ /\ app.manager /\ app.listed
        /\ IF q.proof
           THEN Reads("close", [q EXCEPT !.mode = TRUE, !.close = "proved", !.kept = app.boxes = q.expect])
           ELSE IF Wanted(app.boxes) = {}
           THEN Reads("close", [q EXCEPT !.mode = TRUE, !.close = "none", !.kept = TRUE])
           ELSE Reads("tick", [q EXCEPT !.mode = TRUE, !.expect = app.boxes])

(* A box is ticked only while all are as the operation knows them; ticked, *)
(* it has to show, with all the others as they were.                        *)
ToggleLink ==
  LET i == CHOOSE j \in Wanted(q.expect): \A k \in Wanted(q.expect): j <= k IN
  /\ qpc = "tick"
  /\ \/ ReadLinkFails
     \/ app.boxes # q.expect /\ Refutes
     \/ /\ app.boxes = q.expect
        /\ IF Wanted(q.expect) = {} THEN Reads("apply", q)
           ELSE Pushes(TickBox(i, q.expect[i]), [q EXCEPT !.item = i, !.expect[i] = ~@], "ticked")

Toggled ==
  /\ qpc = "ticked"
  /\ \/ \E r \in Replies: ReadingThrows(r) /\ LinkRaises(TRUE)
     \/ Refutes
     \/ app.boxes = q.expect /\ Reads("tick", q)

ReadyToApply == app.manager /\ app.boxes = q.expect

BeforeApply ==
  /\ qpc = "apply"
  /\ \/ ReadLinkFails
     \/ ReadyToApply /\ Reads("close", [q EXCEPT !.close = "apply"])
     \/ ~ReadyToApply /\ Refutes

(* closeMode: the button is acknowledged, then the manager has to go.      *)
CloseMode ==
  \/ /\ qpc = "close"
     /\ \/ ReadLinkFails
        \/ Pushes(Button(IF q.close = "apply" THEN "apply" ELSE "cancel"), [q EXCEPT !.closing = TRUE], "closing")
  \/ /\ qpc = "closing"
     /\ \/ ReadLinkFails
        \/ /\ ~app.manager
           /\ Reads(IF q.close = "apply" THEN "transfer" ELSE "after",
                    [q EXCEPT !.closing = FALSE, !.mode = FALSE, !.owned = FALSE])

(* cancelKnownReceiptLinkTransfer: the dialog is looked for for a while.   *)
CancelTransfer ==
  \/ /\ qpc = "transfer"
     /\ \/ ReadLinkFails
        \/ Reads("open", [q EXCEPT !.proof = TRUE])
        \/ app.dialog /\ Pushes(Button("transfer"), q, "transferred")
  \/ /\ qpc = "transferred"
     /\ \/ ReadLinkFails
        \/ ~app.dialog /\ Reads("open", [q EXCEPT !.proof = TRUE])

(* The dirty state and the windows at the end.                             *)
LinkEnds ==
  /\ qpc = "after" /\ q.close # "cleanup"
  /\ \/ ReadLinkFails
     \/ /\ ReadWorks /\ UNCHANGED <<begun, uncertain, q>>
        /\ \E restored \in BOOLEAN: QtAnswers(q.kept /\ restored, FALSE, "none")

-----------------------------------------------------------------------------
(* The only clean-up is to cancel what has not been applied; its own       *)
(* failure is not followed by anything.                                     *)
MayCancel == ~uncertain /\ ~q.applying /\ q.mode /\ q.owned

CatchLink ==
  /\ qpc = "catch"
  /\ IF MayCancel /\ ~q.closing /\ q.close # "cleanup"
     THEN qpc' = "close" /\ q' = [q EXCEPT !.close = "cleanup"] /\ UNCHANGED uncertain
     ELSE qpc' = "finish" /\ uncertain' = (uncertain \/ q.closing) /\ UNCHANGED q
  /\ UNCHANGED <<channel, posted, app, begun, qanswer>>

CleanedUp ==
  /\ qpc = "after" /\ q.close = "cleanup"
  /\ \/ \E r \in Replies: ReadingThrows(r) /\ qpc' = "finish" /\ UNCHANGED q
     \/ ReadWorks /\ qpc' = "finish" /\ \E ok \in BOOLEAN: q' = [q EXCEPT !.cleaned = ok]
  /\ UNCHANGED <<begun, uncertain, qanswer>>

LinkAnswers ==
  /\ qpc = "finish"
  /\ QtAnswers(FALSE, uncertain /\ begun,
             IF q.cleaned THEN "cancelled" ELSE IF begun THEN "unknown" ELSE "unchanged")
  /\ UNCHANGED <<channel, posted, app, begun, uncertain, q>>

LinkNext ==
  \/ InitialReading \/ OpenMode \/ Listing \/ ToggleLink \/ Toggled \/ BeforeApply \/ CloseMode
  \/ CancelTransfer \/ LinkEnds \/ CatchLink \/ CleanedUp \/ LinkAnswers
  \/ LateLink \/ UserInManager \/ ChannelCloses

-----------------------------------------------------------------------------
(* Links change all together or not at all, unless the user ticks a box    *)
(* between the last look and the button; a success means that they are     *)
(* what was asked for, unless the user ticks before the first look and     *)
(* nothing seems left to do; "cancelled" and "unchanged" mean that they    *)
(* are what they were, and a failure that does not say that its outcome is *)
(* unknown, that nothing is being applied (qt-native-receipt-link.ts: "Never replay an   *)
(* unknown action, apply a partial batch or write a compensating link       *)
(* change").                                                               *)
LinkAnswerIsTrue ==
  /\ ~app.users => app.linked \in {q.first, q.want}
  /\ qanswer # << >> =>
       LET a == Head(qanswer) IN
         /\ a.ok => app.linked = q.want \/ (app.users /\ q.close = "none")
         /\ a.state \in {"cancelled", "unchanged"} => app.linked = q.first /\ posted = {}
         /\ ~a.unknown => \A act \in posted: act.kind # "apply"

=============================================================================
