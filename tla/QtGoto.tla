------------------------------- MODULE QtGoto -------------------------------
(***************************************************************************)
(* goto over Qt: a page is looked for in the navigation tree, or by the    *)
(* search, or by paging along the form path.  The program acknowledges an  *)
(* activation before it shows the page, and may show it much later.        *)
(***************************************************************************)
EXTENDS QtSession

CONSTANTS
  FormPages,     \* bound: pages of the form path, 1..FormPages
  Stagnation,    \* presses without a new page before paging ends
  PagingBudget   \* presses in all, gotoRoute's budget

ASSUME GotoAssumption ==
  FormPages \in Nat \ {0} /\ Stagnation \in Nat \ {0} /\ PagingBudget \in Nat \ {0}

Target == FormPages

(* app: the page shown, activations whose page is still to come, and the   *)
(* search view.                                                            *)
GotoInit ==
  \E page \in 1..FormPages, search \in BOOLEAN:
    SessionInit("start", [page |-> page, coming |-> {}, search |-> search],
                [start |-> page, seen |-> page, stagnant |-> 0, presses |-> 0, hit |-> FALSE])

GotoDone(act) ==
  CASE act \in {"tree", "hit", "page"} -> [app EXCEPT !.coming = @ \cup {act}]
    [] act = "search" -> [app EXCEPT !.search = TRUE]
    [] act = "close" -> [app EXCEPT !.search = FALSE]
    [] OTHER -> app

GotoEnvironment ==
  /\ \/ \E act \in posted: posted' = posted \ {act} /\ app' = GotoDone(act)
     \/ \E way \in app.coming, p \in 1..FormPages:
          /\ way = "page" => p \in {app.page, app.page + 1}
          /\ app' = [app EXCEPT !.coming = @ \ {way}, !.page = p] /\ UNCHANGED posted
  /\ UNCHANGED <<channel, begun, uncertain, qpc, q, qanswer>>

-----------------------------------------------------------------------------
(* Every error ends the operation; what has been sent makes it unknown.    *)
GotoFails(doubt) == QtAnswers(FALSE, doubt, "none") /\ UNCHANGED <<uncertain, q>>

Activates(act, locals, next) ==
  \E r \in Replies:
    /\ RequestAcknowledged(act, TRUE, GotoDone(act), r) /\ begun' = Begun(r)
    /\ IF r.ok THEN qpc' = next /\ q' = locals /\ UNCHANGED <<uncertain, qanswer>>
       ELSE GotoFails(Begun(r) \/ r.unknown)

ReadPageFails ==
  /\ \/ \E r \in Replies: ReadingThrows(r) /\ GotoFails(r.unknown \/ begun)
     \/ ReadWorks /\ GotoFails(begun)
  /\ UNCHANGED begun

ReadPage(next) ==
  /\ ReadWorks /\ qpc' = next /\ q' = [q EXCEPT !.seen = app.page]
  /\ UNCHANGED <<begun, uncertain, qanswer>>

Reached ==
  /\ app.page = Target /\ ReadWorks /\ QtAnswers(TRUE, FALSE, "reached")
  /\ q' = [q EXCEPT !.seen = app.page] /\ UNCHANGED <<begun, uncertain>>

Gives == ReadWorks /\ GotoFails(begun) /\ UNCHANGED begun

-----------------------------------------------------------------------------
StartGoto ==
  /\ qpc = "start"
  /\ \/ ReadPageFails \/ Reached
     \/ app.page # Target /\ IF app.search THEN Gives ELSE \E way \in {"tree", "edit", "paging"}: ReadPage(way)

(* An item of the tree ends the operation, reached or not.                 *)
NavigationTree ==
  \/ qpc = "tree" /\ (Activates("tree", q, "treewait") \/ Gives)
  \/ qpc = "treewait" /\ (ReadPageFails \/ Reached \/ Gives)

(* The search: its text, its button, its first hit, and its view closed.   *)
Search ==
  \/ qpc = "edit" /\ Activates("edit", q, "search")
  \/ qpc = "search" /\ (ReadPageFails \/ Activates("search", q, "results"))
  \/ /\ qpc = "results"
     /\ \/ ReadPageFails
        \/ app.search /\ \E next \in {"hit", "close"}: ReadPage(next)
  \/ qpc = "hit" /\ Activates("hit", [q EXCEPT !.hit = TRUE], "hitwait")
  \/ qpc = "hitwait" /\ (ReadPageFails \/ ReadPage("close"))
  \/ qpc = "close" /\ Activates("close", q, "closed")
  \/ qpc = "closed" /\ (ReadPageFails \/ (~app.search /\ ReadPage("closeread")))

Unproved(page) == q.hit /\ page = q.start

(* A hit without a new page may still be under way: no paging then.        *)
SearchReadback ==
  /\ qpc = "closeread"
  /\ \/ ReadPageFails \/ Reached
     \/ Unproved(app.page) /\ Gives
     \/ ~Unproved(app.page) /\ ReadPage("paging")

Paging ==
  \/ /\ qpc = "paging"
     /\ \/ ReadPageFails \/ Reached
        \/ /\ q.presses < PagingBudget
           /\ Activates("page", [q EXCEPT !.seen = app.page, !.presses = @ + 1], "landing")
        \/ ReadPage("late")     \* no button, or the budget is used up
  \/ /\ qpc = "landing"
     /\ \/ ReadPageFails \/ Reached
        \/ /\ app.page = q.seen
           /\ IF q.stagnant + 1 >= Stagnation THEN Gives
              ELSE ReadWorks /\ qpc' = "paging" /\ q' = [q EXCEPT !.stagnant = @ + 1]
                   /\ UNCHANGED <<begun, uncertain, qanswer>>
        \/ /\ app.page # q.seen /\ app.page # Target
           /\ \/ Gives          \* off the path, or round in a circle
              \/ ReadWorks /\ qpc' = "paging" /\ q' = [q EXCEPT !.stagnant = 0, !.seen = app.page]
                 /\ UNCHANGED <<begun, uncertain, qanswer>>

LateReadback ==
  qpc = "late" /\ (ReadPageFails \/ Reached \/ Gives)

GotoNext ==
  \/ StartGoto \/ NavigationTree \/ Search \/ SearchReadback \/ Paging \/ LateReadback
  \/ GotoEnvironment \/ ChannelCloses

-----------------------------------------------------------------------------
(* A page is reached only when it is read; an answer that does not say     *)
(* that the outcome is unknown means that nothing is under way; and one    *)
(* way to the page is not tried while another may still lead somewhere     *)
(* (qt-native-goto.ts: "It is never followed by another navigation         *)
(* strategy or a replay").                                                 *)
GotoAnswerIsTrue ==
  /\ Cardinality(app.coming) <= 1
  /\ qanswer # << >> =>
       LET a == Head(qanswer) IN
         /\ a.ok => q.seen = Target
         /\ ~a.ok /\ ~a.unknown => app.coming = {} /\ posted = {}

=============================================================================
