------------------------------ MODULE QtPress ------------------------------
(***************************************************************************)
(* receipt_manager_action over Qt: one button of the receipt manager is    *)
(* pressed, once, and the state it leads to is waited for.  The program    *)
(* may show the new state later than it acknowledges the press.            *)
(***************************************************************************)
EXTENDS QtSession

(* app: the state shown, whether a press is still to show its effect, and  *)
(* the user's hand in it.                                                  *)
PressInit ==
  \E state \in {"from", "other"}:
    SessionInit("before", [state |-> state, due |-> FALSE, pressed |-> FALSE, users |-> FALSE],
                [seen |-> "from"])

PressEnvironment ==
  /\ \/ \E act \in posted:
          posted' = posted \ {act} /\ app' = [app EXCEPT !.due = TRUE, !.pressed = TRUE]
     \/ app.due /\ UNCHANGED posted /\ app' \in {[app EXCEPT !.due = FALSE, !.state = s]: s \in {"to", "other"}}
     \/ /\ qpc # "answered" /\ ~app.users /\ UNCHANGED posted
        /\ app' \in {[app EXCEPT !.users = TRUE, !.state = s]: s \in {"from", "to", "other"}}
  /\ UNCHANGED <<channel, begun, uncertain, qpc, q, qanswer>>

-----------------------------------------------------------------------------
(* The readings before the press are outside of its own error handling:    *)
(* executeQtNativeOperation answers for them.                              *)
BeforePress ==
  /\ qpc = "before"
  /\ \/ \E r \in Replies: ReadingThrows(r) /\ QtAnswers(FALSE, r.unknown, "none")
     \/ ReadWorks /\ QtAnswers(FALSE, FALSE, "none")
     \/ app.state = "from" /\ ReadWorks /\ qpc' = "press" /\ UNCHANGED qanswer
  /\ UNCHANGED <<begun, uncertain, q>>

Dispatched(r) == r.attempted

(* The reply may say that the outcome is unknown: the answer then carries  *)
(* resultingState "unknown", and no outcomeUnknown.                        *)
PressOnce ==
  /\ qpc = "press"
  /\ \E r \in Replies:
       /\ RequestAcknowledged("press", TRUE, [app EXCEPT !.due = TRUE, !.pressed = TRUE], r)
       /\ begun' = Dispatched(r)
       /\ IF r.ok THEN qpc' = "wait" /\ UNCHANGED qanswer
          ELSE IF ~r.thrown THEN QtAnswers(FALSE, FALSE, IF begun' THEN "unknown" ELSE "unchanged")
          ELSE IF begun' THEN QtAnswers(FALSE, TRUE, "unknown")
          ELSE QtAnswers(FALSE, r.unknown, "none")
  /\ UNCHANGED <<uncertain, q>>

(* The state is read until it is the one wanted or the time is over; then  *)
(* the dirty state and the windows are compared.                           *)
Postcondition ==
  \/ /\ qpc = "wait" /\ ReadWorks /\ qpc' = "prove" /\ q' = [seen |-> app.state]
     /\ UNCHANGED <<begun, uncertain, qanswer>>
  \/ /\ qpc = "prove" /\ ReadWorks /\ UNCHANGED <<begun, uncertain, q>>
     /\ \E same \in BOOLEAN:
          IF q.seen = "to" /\ same THEN QtAnswers(TRUE, FALSE, "none") ELSE QtAnswers(FALSE, FALSE, "unverified")
  \/ /\ qpc \in {"wait", "prove"} /\ UNCHANGED <<begun, uncertain, q>>
     /\ \/ \E r \in Replies: ReadingThrows(r) /\ QtAnswers(FALSE, TRUE, "unknown")
        \/ ReadWorks /\ QtAnswers(FALSE, TRUE, "unknown")

PressNext == BeforePress \/ PressOnce \/ Postcondition \/ PressEnvironment \/ ChannelCloses

-----------------------------------------------------------------------------
(* A success means that the button was pressed and its state was seen; and *)
(* an answer that neither says so, nor that the outcome is unknown or      *)
(* unverified, means that nothing was pressed and nothing will be          *)
(* (qt-native-receipt-action.ts).                                          *)
PressAnswerIsTrue ==
  qanswer # << >> =>
    LET a == Head(qanswer) IN
      /\ a.ok => app.pressed /\ q.seen = "to"
      /\ ~a.ok /\ ~a.unknown /\ a.state \in {"none", "unchanged"} => ~app.pressed /\ posted = {}

=============================================================================
