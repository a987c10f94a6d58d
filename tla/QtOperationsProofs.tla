-------------------------- MODULE QtOperationsProofs --------------------------
(***************************************************************************)
(* What holds of the operations over a Qt session, for any number of form  *)
(* pages, items of a link, fields of a receipt and kinds of                *)
(* classification, any budget for paging, and whatever the channel to the  *)
(* program and the user do meanwhile.  Each operation has one inductive    *)
(* invariant (PressKnown, GotoKnown, LinkKnown, UpdateKnown, ClassKnown),  *)
(* which says at every place of it what may still come, what of the        *)
(* receipt is changed, and what has been read back of it.                  *)
(***************************************************************************)
EXTENDS Operations, FiniteSetTheorems, SequenceTheorems, WellFoundedInduction, TLAPS

-----------------------------------------------------------------------------
(* What every operation over a Qt session rests on.                        *)

(* A step is one of the operation's own, or leaves the session alone. *)
LEMMA QtStep ==
  ASSUME [OperationsNext]_opvars
  PROVE  op' = op /\ (QtNext \/ UNCHANGED qtvars)
BY DEF OperationsNext, opvars

(* An answer is the only one. *)
LEMMA OneQtAnswer ==
  ASSUME NEW ok, NEW unknown, NEW state, QtAnswers(ok, unknown, state)
  PROVE  /\ qpc' = "answered" /\ qanswer' # << >>
         /\ Head(qanswer').ok = ok /\ Head(qanswer').unknown = unknown /\ Head(qanswer').state = state
BY DEF QtAnswers

(* What an action that was sent can have come to.  Its effect is there, or *)
(* it may still be to come, only if the reply says so or leaves it open.   *)
LEMMA Acknowledged ==
  ASSUME NEW act, NEW accepts \in BOOLEAN, NEW done, NEW r \in Replies,
         RequestAcknowledged(act, accepts, done, r)
  PROVE  /\ r.ok \in BOOLEAN /\ r.thrown \in BOOLEAN /\ r.attempted \in BOOLEAN /\ r.unknown \in BOOLEAN
         /\ posted' = posted \/ posted' = posted \cup {act}
         /\ app' = app \/ (accepts /\ app' = done)
         /\ r.ok => accepts /\ app' = done /\ posted' = posted /\ r.attempted /\ ~r.thrown
         /\ posted' # posted => ~r.ok /\ r.unknown /\ (r.thrown \/ r.attempted)
         /\ app' # app => r.attempted \/ (r.thrown /\ r.unknown)
BY DEF RequestAcknowledged, NotSubmitted, NoReplyInTime, Replied, NotAcknowledged, Replies, Threw, Returned

(* A reading changes nothing. *)
LEMMA ReadingQuiet ==
  ASSUME NEW r \in Replies, ReadingThrows(r)
  PROVE  UNCHANGED <<posted, app>> /\ r.unknown \in BOOLEAN
BY DEF ReadingThrows, NotSubmitted, NoReplyInTime, Replies

-----------------------------------------------------------------------------
(* The press of a button.                                                  *)

(* What the element that is pressed may show.                              *)
PressStates == {"from", "to", "other"}

(* Nothing is pressed before the press, and one that was not answered with *)
(* certainty stays open. *)
PressKnown ==
  /\ app \in [state: PressStates, due: BOOLEAN, pressed: BOOLEAN, users: BOOLEAN]
  /\ qpc \in {"before", "press", "wait", "prove", "answered"}
  /\ posted \subseteq {"press"}
  /\ app.due => app.pressed
  /\ qpc \in {"before", "press"} => ~app.pressed /\ posted = {}
  /\ qpc \in {"wait", "prove"} => app.pressed
  /\ qanswer # << >> <=> qpc = "answered"
  /\ PressAnswerIsTrue

(* It holds when the press begins. *)
LEMMA PressBegins ==
  ASSUME PressInit
  PROVE  PressKnown
BY DEF PressInit, SessionInit, PressKnown, PressStates, PressAnswerIsTrue

(* Every step keeps it. *)
LEMMA PressKeeps ==
  ASSUME PressKnown, PressNext
  PROVE  PressKnown'
<1>1. CASE BeforePress
  <2>1. qpc = "before" /\ ~app.pressed /\ posted = {} /\ UNCHANGED <<posted, app>>
    BY <1>1, ReadingQuiet DEF BeforePress, ReadWorks, PressKnown
  <2>2. CASE \E r \in Replies: ReadingThrows(r) /\ QtAnswers(FALSE, r.unknown, "none")
    <3>1. PICK r \in Replies : QtAnswers(FALSE, r.unknown, "none")
      BY <2>2
    <3>2. qpc' = "answered" /\ qanswer' # << >> /\ Head(qanswer').ok = FALSE
      BY <3>1, OneQtAnswer
    <3>3. QED
      BY <2>1, <3>2 DEF PressKnown, PressAnswerIsTrue
  <2>3. CASE QtAnswers(FALSE, FALSE, "none")
    <3>1. qpc' = "answered" /\ qanswer' # << >> /\ Head(qanswer').ok = FALSE
      BY <2>3, OneQtAnswer
    <3>2. QED
      BY <2>1, <3>1 DEF PressKnown, PressAnswerIsTrue
  <2>4. CASE qpc' = "press" /\ UNCHANGED qanswer
    BY <2>1, <2>4 DEF PressKnown, PressAnswerIsTrue
  <2>5. QED
    BY <1>1, <2>2, <2>3, <2>4 DEF BeforePress
<1>2. CASE PressOnce
  <2>1. PICK r \in Replies :
          /\ RequestAcknowledged("press", TRUE, [app EXCEPT !.due = TRUE, !.pressed = TRUE], r)
          /\ begun' = Dispatched(r)
          /\ IF r.ok THEN qpc' = "wait" /\ UNCHANGED qanswer
             ELSE IF ~r.thrown THEN QtAnswers(FALSE, FALSE, IF begun' THEN "unknown" ELSE "unchanged")
             ELSE IF begun' THEN QtAnswers(FALSE, TRUE, "unknown")
             ELSE QtAnswers(FALSE, r.unknown, "none")
    BY <1>2 DEF PressOnce
  <2> DEFINE pressed == [app EXCEPT !.due = TRUE, !.pressed = TRUE]
  <2>2. /\ r.ok \in BOOLEAN /\ r.thrown \in BOOLEAN /\ r.attempted \in BOOLEAN /\ r.unknown \in BOOLEAN
        /\ posted' = posted \/ posted' = posted \cup {"press"}
        /\ app' = app \/ app' = pressed
        /\ r.ok => app' = pressed /\ posted' = posted
        /\ posted' # posted => ~r.ok /\ r.unknown /\ (r.thrown \/ r.attempted)
        /\ app' # app => r.attempted \/ (r.thrown /\ r.unknown)
    <3> HIDE DEF pressed
    <3>1. RequestAcknowledged("press", TRUE, pressed, r)
      BY <2>1 DEF pressed
    <3>2. QED
      BY <3>1, Acknowledged
  <2>3. qpc = "press" /\ ~app.pressed /\ posted = {} /\ qanswer = << >> /\ UNCHANGED q
    BY <1>2 DEF PressOnce, PressKnown
  <2>4. /\ app' \in [state: PressStates, due: BOOLEAN, pressed: BOOLEAN, users: BOOLEAN]
        /\ app'.due => app'.pressed
        /\ app' = pressed => app'.pressed
        /\ posted' \subseteq {"press"}
    BY <2>2, <2>3 DEF PressKnown
  <2> HIDE DEF pressed
  <2>5. CASE r.ok
    <3>1. qpc' = "wait" /\ UNCHANGED qanswer /\ app'.pressed
      BY <2>1, <2>2, <2>4, <2>5
    <3>2. QED
      BY <2>3, <2>4, <3>1 DEF PressKnown, PressAnswerIsTrue
  <2>6. ASSUME NEW unknown, NEW state, QtAnswers(FALSE, unknown, state),
               ~unknown /\ state \in {"none", "unchanged"} => app' = app /\ posted' = posted
        PROVE  PressKnown'
    <3>1. /\ qpc' = "answered" /\ qanswer' # << >>
          /\ Head(qanswer').ok = FALSE /\ Head(qanswer').unknown = unknown /\ Head(qanswer').state = state
      BY <2>6, OneQtAnswer
    <3>2. PressAnswerIsTrue'
      BY <2>3, <2>6, <3>1 DEF PressAnswerIsTrue
    <3>3. QED
      BY <2>4, <3>1, <3>2 DEF PressKnown
  <2>7. CASE ~r.ok /\ ~r.thrown
    <3>1. QtAnswers(FALSE, FALSE, IF begun' THEN "unknown" ELSE "unchanged")
      BY <2>1, <2>7
    <3>2. (IF begun' THEN "unknown" ELSE "unchanged") \in {"none", "unchanged"} => ~r.attempted
      BY <2>1 DEF Dispatched
    <3>3. QED
      BY <2>2, <2>6, <2>7, <3>1, <3>2
  <2>8. CASE ~r.ok /\ r.thrown /\ begun'
    <3>1. QtAnswers(FALSE, TRUE, "unknown")
      BY <2>1, <2>8
    <3>2. QED
      BY <2>6, <3>1
  <2>9. CASE ~r.ok /\ r.thrown /\ ~begun'
    <3>1. QtAnswers(FALSE, r.unknown, "none") /\ ~r.attempted
      BY <2>1, <2>9 DEF Dispatched
    <3>2. QED
      BY <2>2, <2>6, <3>1
  <2>10. QED
    BY <2>2, <2>5, <2>7, <2>8, <2>9
<1>3. CASE Postcondition
  <2>1. qpc \in {"wait", "prove"} /\ app.pressed /\ qanswer = << >> /\ UNCHANGED <<posted, app>>
    BY <1>3, ReadingQuiet DEF Postcondition, ReadWorks, PressKnown
  <2>2. CASE qpc' = "prove" /\ UNCHANGED qanswer
    BY <2>1, <2>2 DEF PressKnown, PressAnswerIsTrue
  <2>3. ASSUME NEW ok, NEW unknown, NEW state, QtAnswers(ok, unknown, state),
               ok => q'.seen = "to", state \notin {"none", "unchanged"} \/ ok \/ unknown
        PROVE  PressKnown'
    <3>1. /\ qpc' = "answered" /\ qanswer' # << >>
          /\ Head(qanswer').ok = ok /\ Head(qanswer').unknown = unknown /\ Head(qanswer').state = state
      BY <2>3, OneQtAnswer
    <3>2. PressAnswerIsTrue'
      BY <2>1, <2>3, <3>1 DEF PressAnswerIsTrue
    <3>3. QED
      BY <2>1, <3>1, <3>2 DEF PressKnown
  <2>4. CASE QtAnswers(TRUE, FALSE, "none") /\ q.seen = "to" /\ UNCHANGED q
    BY <2>3, <2>4
  <2>5. CASE QtAnswers(FALSE, FALSE, "unverified")
    BY <2>3, <2>5
  <2>6. CASE QtAnswers(FALSE, TRUE, "unknown")
    BY <2>3, <2>6
  <2>7. QED
    BY <1>3, <2>2, <2>4, <2>5, <2>6 DEF Postcondition
<1>4. CASE PressEnvironment
  <2>1. UNCHANGED <<qpc, q, qanswer>>
    BY <1>4 DEF PressEnvironment
  <2>2. CASE \E act \in posted:
               posted' = posted \ {act} /\ app' = [app EXCEPT !.due = TRUE, !.pressed = TRUE]
    BY <2>1, <2>2 DEF PressKnown, PressAnswerIsTrue
  <2>3. CASE app.due /\ UNCHANGED posted /\ app' \in {[app EXCEPT !.due = FALSE, !.state = s]: s \in {"to", "other"}}
    BY <2>1, <2>3 DEF PressKnown, PressAnswerIsTrue, PressStates
  <2>4. CASE /\ UNCHANGED posted
             /\ app' \in {[app EXCEPT !.users = TRUE, !.state = s]: s \in {"from", "to", "other"}}
    BY <2>1, <2>4 DEF PressKnown, PressAnswerIsTrue, PressStates
  <2>5. QED
    BY <1>4, <2>2, <2>3, <2>4 DEF PressEnvironment
<1>5. CASE ChannelCloses
  BY <1>5 DEF ChannelCloses, PressKnown, PressAnswerIsTrue
<1>6. QED
  BY <1>1, <1>2, <1>3, <1>4, <1>5 DEF PressNext

-----------------------------------------------------------------------------
(* The navigation to a page.                                               *)

(* What leads to the page, the other actions, and the places before and    *)
(* after the one activation that leads there.                              *)
Ways == {"tree", "hit", "page"}
GotoActs == Ways \cup {"edit", "search", "close"}
BeforeWay == {"start", "tree", "edit", "search", "results", "hit"}
AfterWay == {"treewait", "hitwait", "close", "closed", "closeread", "paging", "landing", "late"}

(* The form, the operation and its places.                                 *)
GotoTyped ==
  /\ app \in [page: 1 .. FormPages, coming: SUBSET Ways, search: BOOLEAN]
  /\ q \in [start: 1 .. FormPages, seen: 1 .. FormPages, stagnant: Int, presses: Int, hit: BOOLEAN]
  /\ qpc \in BeforeWay \cup AfterWay \cup {"answered"}
  /\ begun \in BOOLEAN /\ posted \subseteq GotoActs

(* One way to the page at most is under way, whether the program has taken *)
(* the activation or it may still come; before the first nothing is, and a *)
(* hit that has led somewhere is not under way any more.                   *)
OneWay ==
  /\ \E w \in Ways : app.coming \subseteq {w} /\ posted \cap Ways \subseteq {w}
  /\ qpc # "answered" => posted = {} /\ (app.coming # {} => begun)
  /\ qpc \in BeforeWay => app.coming = {} /\ app.page = q.start /\ ~q.hit
  /\ qpc \in {"hitwait", "close", "closed", "closeread"} =>
       /\ app.coming \subseteq {"hit"}
       /\ app.coming # {} => q.hit /\ app.page = q.start
  /\ qpc \in {"paging", "landing", "late"} => app.coming \subseteq {"page"}

(* The inductive invariant of the navigation.                              *)
GotoKnown ==
  /\ GotoTyped
  /\ OneWay
  /\ qanswer # << >> <=> qpc = "answered"
  /\ GotoAnswerIsTrue

(* What an activation makes of the program. *)
LEMMA GotoEffect ==
  ASSUME GotoTyped, NEW act \in GotoActs
  PROVE  /\ GotoDone(act) \in [page: 1 .. FormPages, coming: SUBSET Ways, search: BOOLEAN]
         /\ GotoDone(act).page = app.page
         /\ GotoDone(act).coming = IF act \in Ways THEN app.coming \cup {act} ELSE app.coming
<1> USE DEF GotoTyped
<1>1. CASE act \in Ways
  BY <1>1 DEF GotoDone, Ways
<1>2. CASE act \in {"edit", "search", "close"}
  BY <1>2 DEF GotoDone, Ways
<1>3. QED
  BY <1>1, <1>2 DEF GotoActs

(* A set with one possible member has at most one. *)
LEMMA AtMostOne ==
  ASSUME NEW w, NEW S \in SUBSET {w}
  PROVE  Cardinality(S) <= 1
<1>1. S = {} \/ S = {w}
  OBVIOUS
<1>2. CASE S = {}
  <2>1. Cardinality(S) = 0
    BY <1>2, FS_EmptySet
  <2>2. QED
    BY <2>1
<1>3. CASE S = {w}
  <2>1. Cardinality(S) = 1
    BY <1>3, FS_Singleton
  <2>2. QED
    BY <2>1
<1>4. QED
  BY <1>1, <1>2, <1>3

(* While an operation goes on, what is known of the ways is enough. *)
LEMMA GotoGoesOn ==
  ASSUME GotoTyped', OneWay', qanswer' = << >>, qpc' # "answered"
  PROVE  GotoKnown'
<1>1. Cardinality(app'.coming) <= 1
  BY AtMostOne DEF OneWay
<1>2. QED
  BY <1>1 DEF GotoKnown, GotoAnswerIsTrue

(* An answer is true if a page that it calls reached was read, and if      *)
(* nothing is under way that it does not own up to. *)
LEMMA GotoEnds ==
  ASSUME GotoTyped', NEW ok, NEW unknown, NEW state, QtAnswers(ok, unknown, state),
         NEW w \in Ways, app'.coming \subseteq {w}, posted' \cap Ways \subseteq {w},
         ok => q'.seen = Target, ~ok /\ ~unknown => app'.coming = {} /\ posted' = {}
  PROVE  GotoKnown'
<1>1. /\ qpc' = "answered" /\ qanswer' # << >>
      /\ Head(qanswer').ok = ok /\ Head(qanswer').unknown = unknown
  BY OneQtAnswer
<1>2. OneWay'
  BY <1>1 DEF OneWay, BeforeWay
<1>3. Cardinality(app'.coming) <= 1
  BY AtMostOne
<1>4. GotoAnswerIsTrue'
  BY <1>1, <1>3 DEF GotoAnswerIsTrue
<1>5. QED
  BY <1>1, <1>2, <1>4 DEF GotoKnown

(* An operation that gives up without another activation. *)
LEMMA GotoGivesUp ==
  ASSUME GotoKnown, qpc # "answered", UNCHANGED <<posted, app, begun>>,
         NEW doubt, GotoFails(doubt), begun => doubt
  PROVE  GotoKnown'
<1>1. QtAnswers(FALSE, doubt, "none") /\ UNCHANGED q
  BY DEF GotoFails
<1>2. posted = {} /\ (app.coming # {} => begun)
  BY DEF GotoKnown, OneWay
<1>3. PICK w \in Ways : app.coming \subseteq {w}
  BY DEF GotoKnown, OneWay
<1>4. qpc' = "answered"
  BY <1>1, OneQtAnswer
<1>5. GotoTyped'
  BY <1>1, <1>4 DEF GotoKnown, GotoTyped
<1>6. QED
  BY <1>1, <1>2, <1>3, <1>5, GotoEnds

(* The ways in which a reading of the page ends an operation. *)
LEMMA GotoReadEnds ==
  ASSUME GotoKnown, qpc # "answered", ReadPageFails \/ Gives \/ Reached
  PROVE  GotoKnown'
<1>1. CASE ReadPageFails
  <2>1. CASE \E r \in Replies: ReadingThrows(r) /\ GotoFails(r.unknown \/ begun)
    <3>1. PICK r \in Replies : ReadingThrows(r) /\ GotoFails(r.unknown \/ begun)
      BY <2>1
    <3>2. UNCHANGED <<posted, app, begun>>
      BY <1>1, <3>1, ReadingQuiet DEF ReadPageFails
    <3>3. QED
      BY <3>1, <3>2, GotoGivesUp
  <2>2. CASE ReadWorks /\ GotoFails(begun)
    BY <1>1, <2>2, GotoGivesUp DEF ReadPageFails, ReadWorks
  <2>3. QED
    BY <1>1, <2>1, <2>2 DEF ReadPageFails
<1>2. CASE Gives
  BY <1>2, GotoGivesUp DEF Gives, ReadWorks
<1>3. CASE Reached
  <2>1. /\ app.page = Target /\ UNCHANGED <<posted, app, begun>> /\ QtAnswers(TRUE, FALSE, "reached")
        /\ q' = [q EXCEPT !.seen = app.page]
    BY <1>3 DEF Reached, ReadWorks
  <2>2. qpc' = "answered"
    BY <2>1, OneQtAnswer
  <2>3. GotoTyped' /\ q'.seen = Target
    BY <2>1, <2>2 DEF GotoKnown, GotoTyped
  <2>4. PICK w \in Ways : app.coming \subseteq {w} /\ posted \cap Ways \subseteq {w}
    BY DEF GotoKnown, OneWay
  <2>5. QED
    BY <2>1, <2>3, <2>4, GotoEnds
<1>4. QED
  BY <1>1, <1>2, <1>3

(* An activation: it is taken and the operation goes on, or it ends, with  *)
(* an answer that owns up to what may still come. *)
LEMMA GotoActed ==
  ASSUME GotoKnown, qpc # "answered", NEW act \in GotoActs, NEW locals, NEW next, Activates(act, locals, next),
         act \in Ways => app.coming \subseteq {act}
  PROVE  \/ GotoKnown'
         \/ /\ app' = GotoDone(act) /\ posted' = {} /\ begun' = TRUE
            /\ qpc' = next /\ q' = locals /\ UNCHANGED qanswer
<1>1. PICK r \in Replies :
        /\ RequestAcknowledged(act, TRUE, GotoDone(act), r) /\ begun' = Begun(r)
        /\ IF r.ok THEN qpc' = next /\ q' = locals /\ UNCHANGED <<uncertain, qanswer>>
           ELSE GotoFails(Begun(r) \/ r.unknown)
  BY DEF Activates
<1> DEFINE done == GotoDone(act)
<1>2. /\ done \in [page: 1 .. FormPages, coming: SUBSET Ways, search: BOOLEAN]
      /\ done.coming = IF act \in Ways THEN app.coming \cup {act} ELSE app.coming
  BY GotoEffect DEF GotoKnown
<1>3. RequestAcknowledged(act, TRUE, done, r)
  BY <1>1
<1> HIDE DEF done
<1>4. /\ r.ok \in BOOLEAN /\ r.thrown \in BOOLEAN /\ r.attempted \in BOOLEAN /\ r.unknown \in BOOLEAN
      /\ posted' = posted \/ posted' = posted \cup {act}
      /\ app' = app \/ app' = done
      /\ r.ok => app' = done /\ posted' = posted /\ r.attempted
      /\ posted' # posted => r.unknown
      /\ app' # app => r.attempted \/ (r.thrown /\ r.unknown)
  BY <1>3, Acknowledged
<1>5. begun \in BOOLEAN /\ posted = {} /\ (app.coming # {} => begun)
  BY DEF GotoKnown, GotoTyped, OneWay
<1>6. CASE r.ok
  <2>1. begun' = TRUE
    BY <1>1, <1>4, <1>5, <1>6 DEF Begun
  <2>2. QED
    BY <1>1, <1>4, <1>5, <1>6, <2>1 DEF done
<1>7. CASE ~r.ok
  <2>1. GotoFails(Begun(r) \/ r.unknown)
    BY <1>1, <1>7
  <2>2. QtAnswers(FALSE, Begun(r) \/ r.unknown, "none") /\ UNCHANGED q
    BY <2>1 DEF GotoFails
  <2>3. ~(Begun(r) \/ r.unknown) => app'.coming = {} /\ posted' = {}
    BY <1>4, <1>5 DEF Begun
  <2>4. qpc' = "answered"
    BY <2>2, OneQtAnswer
  <2>5. begun' \in BOOLEAN
    BY <1>1, <1>4, <1>5 DEF Begun
  <2>6. GotoTyped'
    BY <1>2, <1>4, <1>5, <2>2, <2>4, <2>5 DEF GotoKnown, GotoTyped
  <2>7. \E w \in Ways : app'.coming \subseteq {w} /\ posted' \cap Ways \subseteq {w}
    <3>1. CASE act \in Ways
      BY <1>2, <1>4, <1>5, <3>1
    <3>2. CASE act \notin Ways
      <4>1. PICK w \in Ways : app.coming \subseteq {w}
        BY DEF GotoKnown, OneWay
      <4>2. QED
        BY <1>2, <1>4, <1>5, <3>2, <4>1
    <3>3. QED
      BY <3>1, <3>2
  <2>8. QED
    BY <2>2, <2>3, <2>6, <2>7, GotoEnds
<1>8. QED
  BY <1>4, <1>6, <1>7

(* A reading that goes on changes nothing but the place. *)
LEMMA GotoReadsOn ==
  ASSUME GotoKnown, qpc # "answered", NEW next, ReadPage(next)
  PROVE  /\ qpc' = next /\ UNCHANGED <<app, posted, begun, qanswer>>
         /\ q' = [q EXCEPT !.seen = app.page]
BY DEF ReadPage, ReadWorks

(* The start and the ways by the tree and the search. *)
LEMMA GotoLooks ==
  ASSUME GotoKnown, StartGoto \/ NavigationTree \/ Search \/ SearchReadback
  PROVE  GotoKnown'
<1>1. /\ qpc \in BeforeWay \cup {"treewait", "hitwait", "close", "closed", "closeread"}
      /\ qpc # "answered" /\ qanswer = << >> /\ posted = {}
  BY DEF StartGoto, NavigationTree, Search, SearchReadback, GotoKnown, OneWay, BeforeWay
<1>2. CASE ReadPageFails \/ Gives \/ Reached
  BY <1>1, <1>2, GotoReadEnds
<1>3. ASSUME NEW next \in BeforeWay \cup AfterWay, qpc' = next, UNCHANGED <<app, posted, begun, qanswer>>,
             q' = [q EXCEPT !.seen = app.page],
             \/ qpc \in BeforeWay /\ next \in BeforeWay \cup {"close", "paging"}
             \/ qpc \in {"hitwait", "close", "closed"} /\ next \in {"close", "closeread"}
             \/ qpc = "closeread" /\ next = "paging" /\ ~Unproved(app.page)
      PROVE  GotoKnown'
  <2>1. GotoTyped'
    BY <1>3 DEF GotoKnown, GotoTyped
  <2>2. /\ q'.start = q.start /\ q'.hit = q.hit
    BY <1>3 DEF GotoKnown, GotoTyped
  <2>3. OneWay'
    BY <1>1, <1>3, <2>2 DEF GotoKnown, OneWay, BeforeWay, AfterWay, Unproved
  <2>4. QED
    BY <1>1, <1>3, <2>1, <2>3, GotoGoesOn DEF BeforeWay, AfterWay
<1>4. ASSUME NEW act \in GotoActs, NEW next \in BeforeWay \cup AfterWay, NEW hitting \in BOOLEAN,
             Activates(act, [q EXCEPT !.hit = hitting], next),
             \/ act = "tree" /\ qpc = "tree" /\ next = "treewait"
             \/ act = "hit" /\ qpc = "hit" /\ next = "hitwait" /\ hitting
             \/ act \in {"edit", "search"} /\ qpc \in {"edit", "search"} /\ next \in {"search", "results"} /\ hitting = q.hit
             \/ act = "close" /\ qpc = "close" /\ next = "closed" /\ hitting = q.hit
      PROVE  GotoKnown'
  <2>1. act \in Ways => app.coming = {} /\ app.page = q.start
    BY <1>4 DEF GotoKnown, OneWay, BeforeWay, Ways
  <2>2. CASE /\ app' = GotoDone(act) /\ posted' = {} /\ begun' = TRUE
             /\ qpc' = next /\ q' = [q EXCEPT !.hit = hitting] /\ UNCHANGED qanswer
    <3>1. /\ app' \in [page: 1 .. FormPages, coming: SUBSET Ways, search: BOOLEAN]
          /\ app'.page = app.page
          /\ app'.coming = IF act \in Ways THEN app.coming \cup {act} ELSE app.coming
      BY <2>2, GotoEffect DEF GotoKnown
    <3>2. GotoTyped'
      BY <1>4, <2>2, <3>1 DEF GotoKnown, GotoTyped
    <3>3. /\ q'.start = q.start /\ q'.hit = hitting
      BY <2>2 DEF GotoKnown, GotoTyped
    <3>4. OneWay'
      <4>1. CASE act \in {"tree", "hit"}
        BY <1>4, <2>1, <2>2, <3>1, <3>3, <4>1 DEF OneWay, BeforeWay, Ways
      <4>2. CASE act \in {"edit", "search"}
        <5>1. app.coming = {} /\ app.page = q.start /\ ~q.hit
          BY <1>4, <4>2 DEF GotoKnown, OneWay, BeforeWay
        <5>2. app'.coming = {} /\ app'.page = q'.start /\ ~q'.hit
          BY <1>4, <3>1, <3>3, <4>2, <5>1 DEF Ways
        <5>3. QED
          BY <2>2, <5>2, <1>4, <4>2 DEF OneWay, BeforeWay, Ways
      <4>3. CASE act = "close"
        <5>1. app'.coming = app.coming /\ app'.page = app.page
          BY <3>1, <4>3 DEF Ways
        <5>2. QED
          BY <1>4, <2>2, <3>3, <4>3, <5>1 DEF GotoKnown, OneWay, BeforeWay
      <4>4. QED
        BY <1>4, <4>1, <4>2, <4>3
    <3>5. QED
      BY <1>1, <1>4, <2>2, <3>2, <3>4, GotoGoesOn DEF BeforeWay, AfterWay
  <2>3. QED
    BY <1>1, <1>4, <2>1, <2>2, GotoActed
<1>5. q = [q EXCEPT !.hit = q.hit] /\ q.hit \in BOOLEAN
  BY DEF GotoKnown, GotoTyped
<1>6. CASE StartGoto
  <2>1. CASE \E way \in {"tree", "edit", "paging"}: ReadPage(way)
    <3>1. PICK way \in {"tree", "edit", "paging"}: ReadPage(way)
      BY <2>1
    <3>2. qpc = "start"
      BY <1>6 DEF StartGoto
    <3>3. QED
      BY <1>1, <1>3, <3>1, <3>2, GotoReadsOn DEF BeforeWay, AfterWay
  <2>2. QED
    BY <1>2, <1>6, <2>1 DEF StartGoto
<1>7. CASE NavigationTree
  <2>1. CASE qpc = "tree" /\ Activates("tree", q, "treewait")
    <3>1. Activates("tree", [q EXCEPT !.hit = q.hit], "treewait")
      BY <1>5, <2>1
    <3>2. QED
      BY <1>4, <1>5, <2>1, <3>1 DEF GotoActs, Ways, AfterWay
  <2>2. QED
    BY <1>2, <1>7, <2>1 DEF NavigationTree
<1>8. CASE Search
  <2>1. CASE qpc = "edit" /\ Activates("edit", q, "search")
    <3>1. Activates("edit", [q EXCEPT !.hit = q.hit], "search")
      BY <1>5, <2>1
    <3>2. QED
      BY <1>4, <1>5, <2>1, <3>1 DEF GotoActs, BeforeWay
  <2>2. CASE qpc = "search" /\ Activates("search", q, "results")
    <3>1. Activates("search", [q EXCEPT !.hit = q.hit], "results")
      BY <1>5, <2>2
    <3>2. QED
      BY <1>4, <1>5, <2>2, <3>1 DEF GotoActs, BeforeWay
  <2>3. CASE qpc = "results" /\ \E next \in {"hit", "close"}: ReadPage(next)
    <3>1. PICK next \in {"hit", "close"}: ReadPage(next)
      BY <2>3
    <3>2. QED
      BY <1>1, <1>3, <2>3, <3>1, GotoReadsOn DEF BeforeWay, AfterWay
  <2>4. CASE qpc = "hit" /\ Activates("hit", [q EXCEPT !.hit = TRUE], "hitwait")
    BY <1>4, <2>4 DEF GotoActs, Ways, AfterWay
  <2>5. CASE qpc = "hitwait" /\ ReadPage("close")
    BY <1>1, <1>3, <2>5, GotoReadsOn DEF BeforeWay, AfterWay
  <2>6. CASE qpc = "close" /\ Activates("close", q, "closed")
    <3>1. Activates("close", [q EXCEPT !.hit = q.hit], "closed")
      BY <1>5, <2>6
    <3>2. QED
      BY <1>4, <1>5, <2>6, <3>1 DEF GotoActs, AfterWay
  <2>7. CASE qpc = "closed" /\ ReadPage("closeread")
    BY <1>1, <1>3, <2>7, GotoReadsOn DEF BeforeWay, AfterWay
  <2>8. QED
    BY <1>2, <1>8, <2>1, <2>2, <2>3, <2>4, <2>5, <2>6, <2>7 DEF Search
<1>9. CASE SearchReadback
  <2>1. CASE qpc = "closeread" /\ ~Unproved(app.page) /\ ReadPage("paging")
    BY <1>1, <1>3, <2>1, GotoReadsOn DEF BeforeWay, AfterWay
  <2>2. QED
    BY <1>2, <1>9, <2>1 DEF SearchReadback
<1>10. QED
  BY <1>6, <1>7, <1>8, <1>9

(* What the operation remembers keeps its form. *)
LEMMA LocalsTyped ==
  ASSUME NEW r, NEW p \in 1 .. FormPages,
         r \in [start: 1 .. FormPages, seen: 1 .. FormPages, stagnant: Int, presses: Int, hit: BOOLEAN]
  PROVE  /\ [r EXCEPT !.seen = p, !.presses = @ + 1] \in
              [start: 1 .. FormPages, seen: 1 .. FormPages, stagnant: Int, presses: Int, hit: BOOLEAN]
         /\ [r EXCEPT !.stagnant = @ + 1] \in
              [start: 1 .. FormPages, seen: 1 .. FormPages, stagnant: Int, presses: Int, hit: BOOLEAN]
         /\ [r EXCEPT !.stagnant = 0, !.seen = p] \in
              [start: 1 .. FormPages, seen: 1 .. FormPages, stagnant: Int, presses: Int, hit: BOOLEAN]
<1>5. r.presses + 1 \in Int /\ r.stagnant + 1 \in Int
  OBVIOUS
<1>1. [r EXCEPT !.seen = p, !.presses = @ + 1] \in
        [start: 1 .. FormPages, seen: 1 .. FormPages, stagnant: Int, presses: Int, hit: BOOLEAN]
  <2>1. ASSUME NEW n \in Int PROVE [r EXCEPT !.seen = p, !.presses = n] \in
        [start: 1 .. FormPages, seen: 1 .. FormPages, stagnant: Int, presses: Int, hit: BOOLEAN]
    BY <2>1
  <2>2. [r EXCEPT !.seen = p, !.presses = @ + 1] = [r EXCEPT !.seen = p, !.presses = r.presses + 1]
    BY Zenon
  <2>3. QED
    BY <1>5, <2>1, <2>2, Zenon
<1>2. [r EXCEPT !.stagnant = @ + 1] \in
        [start: 1 .. FormPages, seen: 1 .. FormPages, stagnant: Int, presses: Int, hit: BOOLEAN]
  <2>1. ASSUME NEW n \in Int PROVE [r EXCEPT !.stagnant = n] \in
        [start: 1 .. FormPages, seen: 1 .. FormPages, stagnant: Int, presses: Int, hit: BOOLEAN]
    BY <2>1
  <2>2. [r EXCEPT !.stagnant = @ + 1] = [r EXCEPT !.stagnant = r.stagnant + 1]
    BY Zenon
  <2>3. QED
    BY <1>5, <2>1, <2>2, Zenon
<1>3. [r EXCEPT !.stagnant = 0, !.seen = p] \in
        [start: 1 .. FormPages, seen: 1 .. FormPages, stagnant: Int, presses: Int, hit: BOOLEAN]
  <2>1. ASSUME NEW n \in Int PROVE [r EXCEPT !.stagnant = n, !.seen = p] \in
        [start: 1 .. FormPages, seen: 1 .. FormPages, stagnant: Int, presses: Int, hit: BOOLEAN]
    BY <2>1
  <2>2. 0 \in Int
    OBVIOUS
  <2>3. QED
    BY <2>1, <2>2, Zenon
<1>4. QED
  BY <1>1, <1>2, <1>3

(* Paging along the form. *)
LEMMA GotoPages ==
  ASSUME GotoKnown, Paging \/ LateReadback
  PROVE  GotoKnown'
<1>1. /\ qpc \in {"paging", "landing", "late"} /\ qanswer = << >> /\ posted = {} /\ app.coming \subseteq {"page"}
      /\ q \in [start: 1 .. FormPages, seen: 1 .. FormPages, stagnant: Int, presses: Int, hit: BOOLEAN]
      /\ app.page \in 1 .. FormPages
  BY DEF Paging, LateReadback, GotoKnown, GotoTyped, OneWay
<1>2. CASE ReadPageFails \/ Gives \/ Reached
  BY <1>1, <1>2, GotoReadEnds
<1>3. ASSUME qpc' \in {"paging", "landing", "late"}, UNCHANGED <<app, posted, begun, qanswer>>,
             q' \in [start: 1 .. FormPages, seen: 1 .. FormPages, stagnant: Int, presses: Int, hit: BOOLEAN]
      PROVE  GotoKnown'
  <2>1. GotoTyped'
    BY <1>3 DEF GotoKnown, GotoTyped, AfterWay
  <2>2. OneWay'
    BY <1>1, <1>3 DEF GotoKnown, OneWay, BeforeWay
  <2>3. QED
    BY <1>1, <1>3, <2>1, <2>2, GotoGoesOn
<1>4. CASE qpc = "paging" /\ Activates("page", [q EXCEPT !.seen = app.page, !.presses = @ + 1], "landing")
  <2>1. CASE /\ app' = GotoDone("page") /\ posted' = {} /\ begun' = TRUE /\ qpc' = "landing"
             /\ q' = [q EXCEPT !.seen = app.page, !.presses = @ + 1] /\ UNCHANGED qanswer
    <3>1. /\ app' \in [page: 1 .. FormPages, coming: SUBSET Ways, search: BOOLEAN]
          /\ app'.coming = app.coming \cup {"page"}
      BY <2>1, GotoEffect DEF GotoKnown, GotoActs, Ways
    <3>2. q' \in [start: 1 .. FormPages, seen: 1 .. FormPages, stagnant: Int, presses: Int, hit: BOOLEAN]
      BY <1>1, <2>1, LocalsTyped
    <3>5. GotoTyped'
      BY <2>1, <3>1, <3>2 DEF GotoTyped, GotoActs, AfterWay
    <3>3. OneWay'
      BY <1>1, <2>1, <3>1 DEF OneWay, BeforeWay, Ways
    <3>4. QED
      BY <1>1, <2>1, <3>5, <3>3, GotoGoesOn
  <2>2. QED
    BY <1>1, <1>4, <2>1, GotoActed DEF GotoActs, Ways
<1>5. CASE ReadPage("late")
  BY <1>1, <1>3, <1>5, GotoReadsOn
<1>6. CASE /\ ReadWorks /\ qpc' = "paging" /\ UNCHANGED <<begun, uncertain, qanswer>>
           /\ \/ q' = [q EXCEPT !.stagnant = @ + 1]
              \/ q' = [q EXCEPT !.stagnant = 0, !.seen = app.page]
  <2>1. /\ qpc' \in {"paging", "landing", "late"}
        /\ UNCHANGED <<app, posted, begun, qanswer>>
    BY <1>6 DEF ReadWorks
  <2>2. q' \in [start: 1 .. FormPages, seen: 1 .. FormPages, stagnant: Int, presses: Int, hit: BOOLEAN]
    <3>1. CASE q' = [q EXCEPT !.stagnant = @ + 1]
      BY <1>1, <3>1, LocalsTyped
    <3>2. CASE q' = [q EXCEPT !.stagnant = 0, !.seen = app.page]
      BY <1>1, <3>2, LocalsTyped
    <3>3. QED
      BY <1>6, <3>1, <3>2
  <2>3. QED
    BY <1>3, <2>1, <2>2
<1>7. QED
  BY <1>2, <1>4, <1>5, <1>6 DEF Paging, LateReadback

(* What comes of itself: an activation that is taken late, a page that is  *)
(* shown late. *)
LEMMA GotoComes ==
  ASSUME GotoKnown, GotoEnvironment
  PROVE  GotoKnown'
<1>1. UNCHANGED <<begun, qpc, q, qanswer>>
  BY DEF GotoEnvironment
<1>2. CASE \E act \in posted: posted' = posted \ {act} /\ app' = GotoDone(act)
  <2>1. PICK act \in posted: posted' = posted \ {act} /\ app' = GotoDone(act)
    BY <1>2
  <2>2. act \in GotoActs /\ qpc = "answered" /\ qanswer # << >>
    BY <2>1 DEF GotoKnown, GotoTyped, OneWay
  <2>3. /\ app' \in [page: 1 .. FormPages, coming: SUBSET Ways, search: BOOLEAN]
        /\ app'.coming = IF act \in Ways THEN app.coming \cup {act} ELSE app.coming
    BY <2>1, <2>2, GotoEffect DEF GotoKnown
  <2>4. GotoTyped'
    BY <1>1, <2>1, <2>3 DEF GotoKnown, GotoTyped
  <2>5. PICK w \in Ways : app'.coming \subseteq {w} /\ posted' \cap Ways \subseteq {w}
    BY <2>1, <2>2, <2>3 DEF GotoKnown, OneWay
  <2>6. OneWay'
    BY <1>1, <2>2, <2>5 DEF OneWay, BeforeWay
  <2>7. Cardinality(app'.coming) <= 1
    BY <2>5, AtMostOne
  <2>8. GotoAnswerIsTrue'
    BY <1>1, <2>1, <2>2, <2>7 DEF GotoKnown, GotoAnswerIsTrue
  <2>9. QED
    BY <1>1, <2>4, <2>6, <2>8 DEF GotoKnown
<1>3. CASE \E way \in app.coming, p \in 1 .. FormPages :
             app' = [app EXCEPT !.coming = @ \ {way}, !.page = p] /\ UNCHANGED posted
  <2>1. PICK way \in app.coming, p \in 1 .. FormPages :
          app' = [app EXCEPT !.coming = @ \ {way}, !.page = p] /\ UNCHANGED posted
    BY <1>3
  <2>2. /\ app' \in [page: 1 .. FormPages, coming: SUBSET Ways, search: BOOLEAN]
        /\ app'.coming = app.coming \ {way}
    BY <2>1 DEF GotoKnown, GotoTyped
  <2>3. GotoTyped'
    BY <1>1, <2>1, <2>2 DEF GotoKnown, GotoTyped
  <2>4. OneWay'
    <3>1. PICK w \in Ways : app.coming \subseteq {w} /\ posted \cap Ways \subseteq {w}
      BY DEF GotoKnown, OneWay
    <3>2. app'.coming = {}
      BY <2>1, <2>2, <3>1
    <3>3. QED
      BY <1>1, <2>1, <3>1, <3>2 DEF GotoKnown, OneWay
  <2>5. app'.coming \subseteq app.coming /\ Cardinality(app'.coming) <= 1
    BY <2>2, <2>4, AtMostOne DEF OneWay
  <2>6. GotoAnswerIsTrue'
    BY <1>1, <2>1, <2>5 DEF GotoKnown, GotoAnswerIsTrue
  <2>7. QED
    BY <1>1, <2>3, <2>4, <2>6 DEF GotoKnown
<1>4. QED
  BY <1>2, <1>3 DEF GotoEnvironment

(* It holds when the navigation begins. *)
LEMMA GotoBegins ==
  ASSUME GotoInit
  PROVE  GotoKnown
<1>1. PICK page \in 1 .. FormPages, search \in BOOLEAN :
        SessionInit("start", [page |-> page, coming |-> {}, search |-> search],
                    [start |-> page, seen |-> page, stagnant |-> 0, presses |-> 0, hit |-> FALSE])
  BY DEF GotoInit
<1>2. /\ app = [page |-> page, coming |-> {}, search |-> search]
      /\ q = [start |-> page, seen |-> page, stagnant |-> 0, presses |-> 0, hit |-> FALSE]
      /\ posted = {} /\ begun = FALSE /\ qpc = "start" /\ qanswer = << >>
  BY <1>1 DEF SessionInit
<1>7. app \in [page: 1 .. FormPages, coming: SUBSET Ways, search: BOOLEAN]
  BY <1>1, <1>2
<1>8. q \in [start: 1 .. FormPages, seen: 1 .. FormPages, stagnant: Int, presses: Int, hit: BOOLEAN]
  BY <1>1, <1>2
<1>3. GotoTyped
  BY <1>2, <1>7, <1>8 DEF GotoTyped, BeforeWay
<1>4. OneWay
  BY <1>2 DEF OneWay, Ways
<1>5. Cardinality(app.coming) <= 1
  BY <1>4, AtMostOne DEF OneWay
<1>6. QED
  BY <1>2, <1>3, <1>4, <1>5 DEF GotoKnown, GotoAnswerIsTrue

(* Every step keeps it. *)
LEMMA GotoKeeps ==
  ASSUME GotoKnown, GotoNext
  PROVE  GotoKnown'
<1>1. CASE ChannelCloses
  BY <1>1 DEF ChannelCloses, GotoKnown, GotoTyped, OneWay, GotoAnswerIsTrue
<1>2. QED
  BY <1>1, GotoLooks, GotoPages, GotoComes DEF GotoNext

-----------------------------------------------------------------------------
(* The links of receipts.                                                  *)

(* The actions, the program, the operation and its places.                 *)
Boxes == [Items -> BOOLEAN]
LinkActs == [kind: {"open", "show", "transfer", "tick", "apply", "cancel"}, item: Int, expected: BOOLEAN]
LinkApp == [manager: BOOLEAN, listed: BOOLEAN, boxes: Boxes, linked: Boxes,
            asks: BOOLEAN, dialog: BOOLEAN, users: BOOLEAN]
LinkLocals == [want: Boxes, first: Boxes, proof: BOOLEAN, expect: Boxes, item: Int,
               close: {"", "none", "proved", "apply", "cleanup"}, applying: BOOLEAN, closing: BOOLEAN,
               mode: BOOLEAN, owned: BOOLEAN, kept: BOOLEAN, cleaned: BOOLEAN]
Looking == {"main", "open", "opened", "show", "listing"}
LinkPlaces == Looking \cup {"tick", "ticked", "apply", "close", "closing", "transfer", "transferred",
                            "after", "catch", "finish", "answered"}

(* Their types.                                                            *)
LinkTyped ==
  /\ app \in LinkApp /\ q \in LinkLocals /\ posted \subseteq LinkActs
  /\ begun \in BOOLEAN /\ uncertain \in BOOLEAN /\ qpc \in LinkPlaces

(* At most one action may still come, and only after a failure that is     *)
(* known to leave it open, or within the clean-up.                         *)
SentOnce ==
  /\ posted # {} => /\ qpc \in {"catch", "finish", "answered"} /\ begun
                    /\ uncertain \/ q.close = "cleanup"
  /\ \A a, b \in posted : a = b
  /\ \A a \in posted : a.kind = "apply" =>
       q.applying /\ uncertain /\ q.close = "apply" /\ (app.boxes = q.want \/ app.users)

(* What is kept changes only by applying, and only to what is wanted.      *)
ApplyMarked ==
  /\ ~q.applying => app.linked = q.first
  /\ q.applying => begun
  /\ app.users \/ app.linked \in {q.first, q.want}
  /\ q.close \in {"none", "cleanup"} => ~q.applying
  /\ q.close = "cleanup" => qpc \in {"close", "closing", "after", "catch", "finish", "answered"}
  /\ q.cleaned => q.close = "cleanup" /\ posted = {} /\ qpc \in {"finish", "answered"}

(* Before the button: what is shown is what is kept, then what the         *)
(* operation has ticked, then what is wanted, if the user keeps out.       *)
BeforeButton ==
  /\ qpc \in Looking /\ ~q.proof => q.close = "" /\ ~q.applying /\ (app.users \/ app.boxes = app.linked)
  /\ qpc \in {"tick", "ticked", "apply"} => q.close = "" /\ ~q.applying /\ ~q.proof
  /\ qpc = "apply" => q.expect = q.want
  /\ qpc = "close" /\ q.close = "apply" => /\ q.expect = q.want
                                           /\ app.users \/ app.boxes = q.want
  /\ q.close = "none" => app.users \/ app.linked = q.want
  /\ qpc \in {"close", "closing"} => q.close # ""

(* After the button: what was on show is kept.                             *)
AfterButton ==
  /\ \/ qpc = "closing" /\ q.close = "apply"
     \/ qpc \in {"transfer", "transferred"}
     \/ qpc \in Looking /\ q.proof
     \/ qpc \in {"close", "closing", "after"} /\ q.close = "proved"
     => /\ q.expect = q.want
        /\ app.users \/ app.linked = q.want
        /\ app.boxes = app.linked \/ app.linked = q.want
  /\ qpc \in {"transfer", "transferred"} => q.close = "apply"
  /\ qpc \in Looking /\ q.proof => q.close = "apply"
  /\ qpc = "after" => q.close \in {"none", "proved", "cleanup"}
  /\ q.close = "proved" /\ q.kept => app.linked = q.want

(* The inductive invariant of the link.                                    *)
LinkKnown ==
  /\ LinkTyped
  /\ SentOnce
  /\ ApplyMarked
  /\ BeforeButton
  /\ AfterButton
  /\ qanswer # << >> <=> qpc = "answered"
  /\ qanswer # << >> /\ Head(qanswer).ok => posted = {}
  /\ LinkAnswerIsTrue

(* A set of natural numbers has a least member. *)
LEMMA LeastMember ==
  ASSUME NEW T \in SUBSET Nat, T # {}
  PROVE  \E m \in T : \A k \in T : m <= k
<1>1. PICK m \in T : \A k \in T : <<k, m>> \notin OpToRel(<, Nat)
  BY WFMin, NatLessThanWellFounded, Zenon
<1>2. \A k \in T : ~(k < m)
  BY <1>1, Zenon DEF OpToRel
<1>3. \A k \in T : m <= k
  BY <1>2
<1>4. QED
  BY <1>3

(* What an action makes of the manager. *)
LEMMA LinkEffect ==
  ASSUME LinkTyped, NEW act \in LinkActs
  PROVE  /\ Done(act) \in LinkApp
         /\ Done(act).users = app.users
         /\ Done(act).linked = IF act.kind = "apply" THEN app.boxes ELSE app.linked
         /\ act.kind \notin {"show", "tick"} => Done(act).boxes = app.boxes
         /\ act.kind = "show" => Done(act).boxes = app.linked
<1> USE DEF LinkTyped, LinkApp
<1>1. CASE act.kind = "open"
  BY <1>1 DEF Done
<1>2. CASE act.kind = "show"
  BY <1>2 DEF Done
<1>3. CASE act.kind = "transfer"
  BY <1>3 DEF Done
<1>4. CASE act.kind = "tick"
  <2>1. Done(act) = [app EXCEPT !.boxes[act.item] = ~act.expected]
    BY <1>4 DEF Done
  <2>2. act.expected \in BOOLEAN
    BY DEF LinkActs
  <2>5. app.boxes \in Boxes /\ (~act.expected) \in BOOLEAN
    BY <2>2
  <2>3. [app.boxes EXCEPT ![act.item] = ~act.expected] \in Boxes
    BY <2>5 DEF Boxes
  <2>4. QED
    BY <1>4, <2>1, <2>3
<1>5. CASE act.kind = "apply"
  BY <1>5 DEF Done
<1>6. CASE act.kind = "cancel"
  BY <1>6 DEF Done
<1>7. QED
  BY <1>1, <1>2, <1>3, <1>4, <1>5, <1>6 DEF LinkActs

(* Between an action and the answer nothing may still come. *)
LEMMA LinkGoesOn ==
  ASSUME LinkKnown, qpc' # "answered", qanswer = << >>, UNCHANGED qanswer, posted' = {},
         LinkTyped', ApplyMarked', BeforeButton', AfterButton'
  PROVE  LinkKnown'
BY DEF LinkKnown, SentOnce, ApplyMarked, LinkAnswerIsTrue

(* A failure that has left everything as it was. *)
LEMMA LinkCaught ==
  ASSUME LinkKnown, qpc \notin {"catch", "finish", "answered"},
         UNCHANGED <<posted, app, begun, q, qanswer>>, qpc' = "catch", uncertain' \in BOOLEAN
  PROVE  LinkKnown'
<1>1. posted = {} /\ qanswer = << >>
  BY DEF LinkKnown, SentOnce
<1>2. LinkTyped'
  BY DEF LinkKnown, LinkTyped, LinkPlaces
<1>3. ApplyMarked' /\ BeforeButton' /\ AfterButton'
  BY DEF LinkKnown, ApplyMarked, BeforeButton, AfterButton, Looking
<1>4. QED
  BY <1>1, <1>2, <1>3, LinkGoesOn

(* Whatever fails while reading. *)
LEMMA LinkReadingFails ==
  ASSUME LinkKnown, qpc \notin {"catch", "finish", "answered"},
         \/ ReadLinkFails
         \/ \E r \in Replies: ReadingThrows(r) /\ LinkRaises(TRUE)
         \/ Refutes
  PROVE  LinkKnown'
<1>1. uncertain \in BOOLEAN
  BY DEF LinkKnown, LinkTyped
<1>2. ASSUME NEW doubt \in BOOLEAN, LinkRaises(doubt), UNCHANGED <<posted, app>>
      PROVE  LinkKnown'
  <2>1. uncertain' \in BOOLEAN /\ qpc' = "catch" /\ UNCHANGED <<begun, q, qanswer>>
    BY <1>1, <1>2 DEF LinkRaises
  <2>2. QED
    BY <1>2, <2>1, LinkCaught
<1>3. CASE \E r \in Replies: ReadingThrows(r) /\ LinkRaises(TRUE)
  BY <1>2, <1>3, ReadingQuiet
<1>4. CASE ReadWorks /\ \E doubt \in BOOLEAN: LinkRaises(doubt)
  BY <1>2, <1>4 DEF ReadWorks
<1>5. QED
  BY <1>2, <1>3, <1>4 DEF ReadLinkFails, Refutes, ReadWorks

(* What is remembered of the operation when a button has been pushed. *)
Alike(m, l) ==
  /\ m.want = l.want /\ m.first = l.first /\ m.proof = l.proof /\ m.expect = l.expect
  /\ m.close = l.close /\ m.kept = l.kept /\ m.cleaned = l.cleaned

(* Only whether something is being applied is noted. *)
LEMMA Noted ==
  ASSUME NEW l \in LinkLocals, NEW b \in BOOLEAN
  PROVE  /\ [l EXCEPT !.applying = @ \/ b] \in LinkLocals
         /\ Alike([l EXCEPT !.applying = @ \/ b], l)
         /\ [l EXCEPT !.applying = @ \/ b].applying = (l.applying \/ b)
<1>1. l.applying \in BOOLEAN
  BY DEF LinkLocals
<1>2. ASSUME NEW c \in BOOLEAN
      PROVE  /\ [l EXCEPT !.applying = c] \in LinkLocals
             /\ Alike([l EXCEPT !.applying = c], l)
             /\ [l EXCEPT !.applying = c].applying = c
  BY DEF LinkLocals, Alike
<1>3. (l.applying \/ b) \in BOOLEAN
  BY <1>1
<1>4. [l EXCEPT !.applying = @ \/ b] = [l EXCEPT !.applying = l.applying \/ b]
  BY Zenon
<1>5. QED
  BY <1>2, <1>3, <1>4, Zenon

(* An action has had its effect and is followed by the next place, or it   *)
(* has failed. *)
LEMMA LinkPushed ==
  ASSUME LinkKnown, qpc \notin {"catch", "finish", "answered"},
         NEW act \in LinkActs, NEW onSuccess \in LinkLocals, NEW next, Pushes(act, onSuccess, next),
         act.kind = "apply" => qpc = "close" /\ q.close = "apply"
  PROVE  \/ /\ Works(act) /\ app' = Done(act) /\ app' \in LinkApp
            /\ posted' = {} /\ begun' = TRUE /\ qpc' = next
            /\ q' \in LinkLocals /\ Alike(q', onSuccess)
            /\ q'.applying = (onSuccess.applying \/ act.kind = "apply")
            /\ UNCHANGED <<uncertain, qanswer>>
         \/ LinkKnown'
<1>1. PICK r \in Replies :
        /\ RequestAcknowledged(act, Works(act), Done(act), r) /\ begun' = Begun(r)
        /\ IF r.ok THEN qpc' = next /\ q' = [onSuccess EXCEPT !.applying = @ \/ act.kind = "apply"]
                        /\ UNCHANGED uncertain
           ELSE /\ qpc' = "catch"
                /\ uncertain' = (uncertain \/ (IF q.close = "cleanup" THEN r.thrown /\ r.unknown ELSE Doubtful(r)))
                /\ q' = [q EXCEPT !.applying = @ \/ (act.kind = "apply" /\ (r.attempted \/ (r.thrown /\ r.unknown)))]
        /\ UNCHANGED qanswer
  BY DEF Pushes
<1>2. posted = {} /\ qanswer = << >>
  BY DEF LinkKnown, SentOnce
<1>3. /\ r.ok \in BOOLEAN /\ r.thrown \in BOOLEAN /\ r.attempted \in BOOLEAN /\ r.unknown \in BOOLEAN
      /\ posted' = posted \/ posted' = posted \cup {act}
      /\ app' = app \/ app' = Done(act)
      /\ r.ok => Works(act) /\ app' = Done(act) /\ posted' = posted /\ r.attempted
      /\ posted' # posted => ~r.ok /\ r.unknown /\ (r.thrown \/ r.attempted)
      /\ app' # app => r.attempted \/ (r.thrown /\ r.unknown)
  <2>1. Works(act) \in BOOLEAN
    BY DEF Works, LinkKnown, LinkTyped, LinkApp, LinkActs
  <2>2. QED
    BY <1>1, <2>1, Acknowledged
<1>4. CASE r.ok
  <2>1. begun' = TRUE
    BY <1>1, <1>3, <1>4 DEF Begun
  <2>2. Done(act) \in LinkApp
    BY LinkEffect DEF LinkKnown
  <2>3. q' = [onSuccess EXCEPT !.applying = @ \/ act.kind = "apply"]
    BY <1>1, <1>4
  <2>4. (act.kind = "apply") \in BOOLEAN
    OBVIOUS
  <2>5. /\ q' \in LinkLocals /\ Alike(q', onSuccess)
        /\ q'.applying = (onSuccess.applying \/ act.kind = "apply")
    BY <2>3, <2>4, Noted
  <2>6. QED
    BY <1>1, <1>2, <1>3, <1>4, <2>1, <2>2, <2>5
<1>5. CASE ~r.ok
  <2> DEFINE took == act.kind = "apply" /\ (r.attempted \/ (r.thrown /\ r.unknown))
  <2>1. /\ qpc' = "catch" /\ q' = [q EXCEPT !.applying = @ \/ took] /\ UNCHANGED qanswer
        /\ uncertain' = (uncertain \/ (IF q.close = "cleanup" THEN r.thrown /\ r.unknown ELSE Doubtful(r)))
    BY <1>1, <1>5
  <2>2. took \in BOOLEAN
    BY <1>3
  <2>3. /\ q.applying \in BOOLEAN /\ uncertain \in BOOLEAN /\ begun \in BOOLEAN
        /\ Doubtful(r) \in BOOLEAN /\ Begun(r) \in BOOLEAN
    BY <1>3 DEF LinkKnown, LinkTyped, LinkLocals, Doubtful, Begun
  <2>4. q' = [q EXCEPT !.applying = q.applying \/ took]
    BY <2>1, Zenon
  <2>5. q'.applying = (q.applying \/ took) /\ q' \in LinkLocals
    BY <2>2, <2>3, <2>4 DEF LinkKnown, LinkTyped, LinkLocals
  <2>6. /\ q'.want = q.want /\ q'.first = q.first /\ q'.proof = q.proof /\ q'.expect = q.expect
        /\ q'.close = q.close /\ q'.kept = q.kept /\ q'.cleaned = q.cleaned
    BY <2>4 DEF LinkKnown, LinkTyped, LinkLocals
  <2>7. /\ app' \in LinkApp /\ app'.users = app.users
        /\ app'.linked = app.linked \/ (act.kind = "apply" /\ app'.linked = app.boxes)
        /\ act.kind = "apply" => app'.boxes = app.boxes
    BY <1>3, LinkEffect DEF LinkKnown, LinkTyped
  <2>8. uncertain' \in BOOLEAN /\ begun' \in BOOLEAN
    BY <1>1, <1>3, <2>1, <2>3
  <2>9. posted' \subseteq {act}
    BY <1>2, <1>3
  <2>10. LinkTyped'
    BY <2>1, <2>5, <2>7, <2>8, <2>9 DEF LinkTyped, LinkPlaces
  <2>11. posted' # {} => begun' /\ (uncertain' \/ q.close = "cleanup")
    <3>1. posted' # {} => r.unknown /\ (r.thrown \/ r.attempted)
      BY <1>2, <1>3
    <3>2. r.unknown /\ (r.thrown \/ r.attempted) => Begun(r) /\ Doubtful(r)
      BY <1>3 DEF Begun, Doubtful
    <3>3. QED
      BY <1>1, <2>1, <2>3, <3>1, <3>2
  <2>12. took => begun'
    <3>1. took => Begun(r)
      BY <1>3 DEF Begun
    <3>2. QED
      BY <1>1, <3>1
  <2>13. begun => begun'
    BY <1>1 DEF Begun
  <2>14. posted' # {} /\ act.kind = "apply" => took
    BY <1>2, <1>3
  <2>15. app'.linked # app.linked => took
    BY <1>3, <2>7
  <2> HIDE DEF took
  <2>16. SentOnce'
    BY <2>1, <2>2, <2>3, <2>5, <2>6, <2>7, <2>9, <2>11, <2>14 DEF SentOnce, LinkKnown, BeforeButton
  <2>17. took => act.kind = "apply"
    BY DEF took
  <2>18. ApplyMarked'
    <3>1. ~q'.applying => app'.linked = q'.first
      BY <2>2, <2>3, <2>5, <2>6, <2>15 DEF LinkKnown, ApplyMarked
    <3>2. q'.applying => begun'
      BY <2>2, <2>3, <2>5, <2>12, <2>13 DEF LinkKnown, ApplyMarked
    <3>3. app'.users \/ app'.linked \in {q'.first, q'.want}
      BY <2>6, <2>7 DEF LinkKnown, ApplyMarked, BeforeButton
    <3>4. q'.close \in {"none", "cleanup"} => ~q'.applying
      BY <2>2, <2>3, <2>5, <2>6, <2>17 DEF LinkKnown, ApplyMarked
    <3>5. ~q'.cleaned
      BY <1>2, <2>6 DEF LinkKnown, ApplyMarked
    <3>6. QED
      BY <2>1, <3>1, <3>2, <3>3, <3>4, <3>5 DEF ApplyMarked
  <2>19. BeforeButton' /\ AfterButton'
    BY <2>1, <2>6, <2>7 DEF LinkKnown, BeforeButton, AfterButton, Looking
  <2>20. QED
    BY <1>2, <2>1, <2>10, <2>16, <2>18, <2>19 DEF LinkKnown, ApplyMarked, LinkAnswerIsTrue
<1>6. QED
  BY <1>3, <1>4, <1>5

(* The locals are changed by a few notes. *)
LEMMA LinkNotes ==
  ASSUME NEW l \in LinkLocals
  PROVE  /\ [l EXCEPT !.owned = TRUE] \in LinkLocals /\ Alike([l EXCEPT !.owned = TRUE], l)
         /\ [l EXCEPT !.owned = TRUE].applying = l.applying
         /\ [l EXCEPT !.closing = TRUE] \in LinkLocals /\ Alike([l EXCEPT !.closing = TRUE], l)
         /\ [l EXCEPT !.closing = TRUE].applying = l.applying
<1> USE DEF LinkLocals, Alike
<1>1. /\ [l EXCEPT !.owned = TRUE] \in LinkLocals /\ Alike([l EXCEPT !.owned = TRUE], l)
      /\ [l EXCEPT !.owned = TRUE].applying = l.applying
  OBVIOUS
<1>2. /\ [l EXCEPT !.closing = TRUE] \in LinkLocals /\ Alike([l EXCEPT !.closing = TRUE], l)
      /\ [l EXCEPT !.closing = TRUE].applying = l.applying
  OBVIOUS
<1>3. QED
  BY <1>1, <1>2

(* Opening the manager. *)
LEMMA LinkOpening ==
  ASSUME LinkKnown, qpc \in Looking, qpc' \in Looking,
         q' \in LinkLocals, Alike(q', q), q'.applying = q.applying,
         app' \in LinkApp, app'.users = app.users, app'.linked = app.linked,
         app'.boxes \in {app.boxes, app.linked},
         posted' = {}, begun' \in {TRUE, begun}, UNCHANGED <<uncertain, qanswer>>
  PROVE  LinkKnown'
<1>1. qanswer = << >> /\ qpc' # "answered"
  BY DEF LinkKnown, Looking
<1>2. LinkTyped'
  BY DEF LinkKnown, LinkTyped, LinkPlaces
<1>3. ApplyMarked'
  BY DEF LinkKnown, ApplyMarked, Alike, Looking
<1>4. BeforeButton' /\ AfterButton'
  BY DEF LinkKnown, ApplyMarked, BeforeButton, AfterButton, Alike, Looking
<1>5. QED
  BY <1>1, <1>2, <1>3, <1>4, LinkGoesOn

(* An answer. *)
LEMMA LinkAnswered ==
  ASSUME LinkKnown, qpc \notin {"catch", "answered"}, UNCHANGED <<app, posted, begun, uncertain, q>>,
         NEW ok \in BOOLEAN, NEW unknown \in BOOLEAN, NEW state, QtAnswers(ok, unknown, state),
         ok => posted = {} /\ qpc # "finish" /\ (app.linked = q.want \/ (app.users /\ q.close = "none")),
         state \in {"cancelled", "unchanged"} => app.linked = q.first /\ posted = {},
         qpc = "finish" => unknown = (uncertain /\ begun)
  PROVE  LinkKnown'
<1>1. /\ qpc' = "answered" /\ qanswer' # << >>
      /\ Head(qanswer').ok = ok /\ Head(qanswer').unknown = unknown /\ Head(qanswer').state = state
  BY OneQtAnswer
<1>2. LinkTyped' /\ ApplyMarked' /\ BeforeButton' /\ AfterButton'
  <2>1. LinkTyped'
    BY <1>1 DEF LinkKnown, LinkTyped, LinkPlaces
  <2>2. ApplyMarked'
    BY <1>1 DEF LinkKnown, ApplyMarked
  <2>3. BeforeButton' /\ AfterButton'
    BY <1>1 DEF LinkKnown, BeforeButton, AfterButton, Looking
  <2>4. QED
    BY <2>1, <2>2, <2>3
<1>3. SentOnce'
  BY <1>1 DEF LinkKnown, SentOnce
<1>4. ~unknown => \A act \in posted: act.kind # "apply"
  BY DEF LinkKnown, SentOnce
<1>5. LinkAnswerIsTrue'
  BY <1>1, <1>4 DEF LinkKnown, ApplyMarked, LinkAnswerIsTrue
<1>6. QED
  BY <1>1, <1>2, <1>3, <1>5 DEF LinkKnown

(* The first look, and the manager being opened. *)
LEMMA LinkOpens ==
  ASSUME LinkKnown, InitialReading \/ OpenMode
  PROVE  LinkKnown'
<1>1. /\ qpc \in {"main", "open", "opened", "show"} /\ qpc \in Looking /\ posted = {}
      /\ q \in LinkLocals /\ app \in LinkApp
  BY DEF InitialReading, OpenMode, Looking, LinkKnown, SentOnce, LinkTyped
<1>2. CASE ReadLinkFails
  BY <1>1, <1>2, LinkReadingFails
<1>3. CASE Reads("open", q)
  BY <1>1, <1>3, LinkOpening DEF Reads, ReadWorks, Looking, Alike
<1>4. CASE ReadWorks /\ QtAnswers(FALSE, FALSE, "none") /\ UNCHANGED <<begun, uncertain, q>>
  BY <1>1, <1>4, LinkAnswered DEF ReadWorks
<1>5. CASE Pushes(Button("open"), q, "opened")
  <2>1. Button("open") \in LinkActs /\ Button("open").kind = "open"
    BY DEF Button, LinkActs
  <2>2. CASE LinkKnown'
    BY <2>2
  <2>3. CASE /\ app' = Done(Button("open")) /\ app' \in LinkApp /\ posted' = {} /\ begun' = TRUE
             /\ qpc' = "opened" /\ q' \in LinkLocals /\ Alike(q', q)
             /\ q'.applying = (q.applying \/ FALSE) /\ UNCHANGED <<uncertain, qanswer>>
    BY <1>1, <2>1, <2>3, LinkEffect, LinkOpening DEF LinkKnown, Looking, LinkLocals
  <2>4. QED
    BY <1>1, <1>5, <2>1, <2>2, <2>3, LinkPushed
<1>6. CASE Reads("show", [q EXCEPT !.owned = TRUE])
  BY <1>1, <1>6, LinkNotes, LinkOpening DEF Reads, ReadWorks, Looking
<1>7. CASE Pushes(Button("show"), q, "listing")
  <2>1. Button("show") \in LinkActs /\ Button("show").kind = "show"
    BY DEF Button, LinkActs
  <2>2. CASE LinkKnown'
    BY <2>2
  <2>3. CASE /\ app' = Done(Button("show")) /\ app' \in LinkApp /\ posted' = {} /\ begun' = TRUE
             /\ qpc' = "listing" /\ q' \in LinkLocals /\ Alike(q', q)
             /\ q'.applying = (q.applying \/ FALSE) /\ UNCHANGED <<uncertain, qanswer>>
    BY <1>1, <2>1, <2>3, LinkEffect, LinkOpening DEF LinkKnown, Looking, LinkLocals
  <2>4. QED
    BY <1>1, <1>7, <2>1, <2>2, <2>3, LinkPushed
<1>8. QED
  BY <1>2, <1>3, <1>4, <1>5, <1>6, <1>7 DEF InitialReading, OpenMode

(* The list: it shows what has been kept, that nothing is left to do, or   *)
(* what there is to do. *)
LEMMA LinkLists ==
  ASSUME LinkKnown, Listing
  PROVE  LinkKnown'
<1>1. /\ qpc = "listing" /\ qpc \in Looking /\ posted = {} /\ qanswer = << >>
      /\ q \in LinkLocals /\ app \in LinkApp
  BY DEF Listing, Looking, LinkKnown, SentOnce, LinkTyped
<1>2. CASE ReadLinkFails
  BY <1>1, <1>2, LinkReadingFails
<1>3. ASSUME NEW next, NEW locals \in LinkLocals, Reads(next, locals), next \in {"close", "tick"},
             locals.want = q.want, locals.first = q.first, locals.proof = q.proof,
             locals.applying = q.applying, locals.cleaned = q.cleaned,
             \/ next = "close" /\ q.proof /\ locals.close = "proved" /\ locals.expect = q.expect
                /\ locals.kept = (app.boxes = q.expect)
             \/ next = "close" /\ ~q.proof /\ locals.close = "none" /\ app.boxes = q.want
             \/ next = "tick" /\ ~q.proof /\ locals.close = q.close
      PROVE  LinkKnown'
  <2>1. qpc' = next /\ q' = locals /\ UNCHANGED <<app, posted, begun, uncertain, qanswer>>
    BY <1>3 DEF Reads, ReadWorks
  <2>2. LinkTyped'
    BY <1>3, <2>1 DEF LinkKnown, LinkTyped, LinkPlaces
  <2>3. ApplyMarked'
    BY <1>1, <1>3, <2>1 DEF LinkKnown, ApplyMarked, BeforeButton
  <2>4. BeforeButton'
    BY <1>1, <1>3, <2>1 DEF LinkKnown, ApplyMarked, BeforeButton, AfterButton, Looking
  <2>5. AfterButton'
    BY ZenonT(40), <1>1, <1>3, <2>1 DEF LinkKnown, ApplyMarked, BeforeButton, AfterButton, Looking
  <2>6. QED
    BY <1>1, <1>3, <2>1, <2>2, <2>3, <2>4, <2>5, LinkGoesOn
<1>4. CASE q.proof /\ Reads("close", [q EXCEPT !.mode = TRUE, !.close = "proved", !.kept = app.boxes = q.expect])
  <2> DEFINE kept == app.boxes = q.expect
             m == [q EXCEPT !.mode = TRUE, !.close = "proved", !.kept = kept]
  <2>1. kept \in BOOLEAN
    OBVIOUS
  <2> HIDE DEF kept
  <2>2. /\ m \in LinkLocals /\ m.want = q.want /\ m.first = q.first /\ m.proof = q.proof
        /\ m.applying = q.applying /\ m.cleaned = q.cleaned /\ m.close = "proved" /\ m.expect = q.expect
        /\ m.kept = kept
    BY <1>1, <2>1 DEF LinkLocals
  <2>3. Reads("close", m)
    BY <1>4 DEF kept
  <2> HIDE DEF m
  <2>4. QED
    BY <1>3, <1>4, <2>2, <2>3 DEF kept
<1>5. ASSUME ~q.proof, Wanted(app.boxes) = {}, Reads("close", [q EXCEPT !.mode = TRUE, !.close = "none", !.kept = TRUE])
      PROVE  LinkKnown'
  <2> DEFINE m == [q EXCEPT !.mode = TRUE, !.close = "none", !.kept = TRUE]
  <2>1. app.boxes = q.want
    <3>1. app.boxes \in [Items -> BOOLEAN] /\ q.want \in [Items -> BOOLEAN]
      BY <1>1 DEF LinkApp, LinkLocals, Boxes
    <3>2. \A i \in Items : app.boxes[i] = q.want[i]
      BY <1>5 DEF Wanted
    <3>3. QED
      BY <3>1, <3>2
  <2>2. /\ m \in LinkLocals /\ m.want = q.want /\ m.first = q.first /\ m.proof = q.proof
        /\ m.applying = q.applying /\ m.cleaned = q.cleaned /\ m.close = "none"
    BY <1>1 DEF LinkLocals
  <2> HIDE DEF m
  <2>3. QED
    BY <1>3, <1>5, <2>1, <2>2 DEF m
<1>6. CASE ~q.proof /\ Reads("tick", [q EXCEPT !.mode = TRUE, !.expect = app.boxes])
  <2> DEFINE m == [q EXCEPT !.mode = TRUE, !.expect = app.boxes]
  <2>1. app.boxes \in Boxes
    BY <1>1 DEF LinkApp
  <2>2. /\ m \in LinkLocals /\ m.want = q.want /\ m.first = q.first /\ m.proof = q.proof
        /\ m.applying = q.applying /\ m.cleaned = q.cleaned /\ m.close = q.close
    BY <1>1, <2>1 DEF LinkLocals
  <2> HIDE DEF m
  <2>3. QED
    BY <1>3, <1>6, <2>2 DEF m
<1>7. QED
  BY <1>2, <1>4, <1>5, <1>6 DEF Listing

(* Ticking, up to the last look. *)
LEMMA LinkTicking ==
  ASSUME LinkKnown, qpc \in {"tick", "ticked", "apply"}, qpc' \in {"tick", "ticked", "apply", "close"},
         qanswer = << >>, posted' = {}, q' \in LinkLocals, app' \in LinkApp,
         q'.want = q.want, q'.first = q.first, q'.proof = q.proof, q'.applying = q.applying,
         q'.cleaned = q.cleaned, app'.users = app.users, app'.linked = app.linked,
         begun' \in {TRUE, begun}, UNCHANGED <<uncertain, qanswer>>,
         qpc' # "close" => q'.close = q.close,
         qpc' = "apply" => q'.expect = q.want,
         qpc' = "close" => q'.close = "apply" /\ q'.expect = q.want /\ app'.boxes = q.want
  PROVE  LinkKnown'
<1>1. LinkTyped'
  BY DEF LinkKnown, LinkTyped, LinkPlaces
<1>2. ApplyMarked'
  BY DEF LinkKnown, ApplyMarked, BeforeButton
<1>3. BeforeButton' /\ AfterButton'
  BY DEF LinkKnown, ApplyMarked, BeforeButton, AfterButton, Looking
<1>4. QED
  BY <1>1, <1>2, <1>3, LinkGoesOn

(* A box after the other, and the last look. *)
LEMMA LinkTicks ==
  ASSUME LinkKnown, ToggleLink \/ Toggled \/ BeforeApply
  PROVE  LinkKnown'
<1>1. /\ qpc \in {"tick", "ticked", "apply"} /\ posted = {} /\ qanswer = << >>
      /\ q \in LinkLocals /\ app \in LinkApp
  BY DEF ToggleLink, Toggled, BeforeApply, LinkKnown, SentOnce, LinkTyped
<1>2. CASE ReadLinkFails \/ Refutes \/ \E r \in Replies: ReadingThrows(r) /\ LinkRaises(TRUE)
  BY <1>1, <1>2, LinkReadingFails
<1>3. CASE qpc = "tick" /\ Wanted(q.expect) = {} /\ Reads("apply", q)
  <2>1. q.expect = q.want
    <3>1. q.expect \in [Items -> BOOLEAN] /\ q.want \in [Items -> BOOLEAN]
      BY <1>1 DEF LinkLocals, Boxes
    <3>2. \A i \in Items : q.expect[i] = q.want[i]
      BY <1>3 DEF Wanted
    <3>3. QED
      BY <3>1, <3>2
  <2>2. QED
    BY <1>1, <1>3, <2>1, LinkTicking DEF Reads, ReadWorks
<1>4. ASSUME NEW i \in Items,
             Pushes(TickBox(i, q.expect[i]), [q EXCEPT !.item = i, !.expect[i] = ~@], "ticked")
      PROVE  LinkKnown'
  <2> DEFINE act == TickBox(i, q.expect[i])
             l == [q EXCEPT !.item = i, !.expect[i] = ~@]
  <2>1. q.expect \in Boxes /\ q.expect[i] \in BOOLEAN /\ i \in Int
    <3>1. q.expect \in Boxes
      BY <1>1 DEF LinkLocals
    <3>2. q.expect[i] \in BOOLEAN
      BY <1>4, <3>1 DEF Boxes
    <3>3. i \in Int
      BY <1>4 DEF Items
    <3>4. QED
      BY <3>1, <3>2, <3>3
  <2>2. act \in LinkActs /\ act.kind = "tick"
    BY <2>1 DEF TickBox, LinkActs
  <2>3. [q.expect EXCEPT ![i] = ~@] \in Boxes
    <3>1. (~q.expect[i]) \in BOOLEAN
      BY <2>1
    <3>2. ASSUME NEW b \in BOOLEAN PROVE [q.expect EXCEPT ![i] = b] \in Boxes
      BY <2>1 DEF Boxes
    <3>3. [q.expect EXCEPT ![i] = ~@] = [q.expect EXCEPT ![i] = ~q.expect[i]]
      BY Zenon
    <3>4. QED
      BY <3>1, <3>2, <3>3, Zenon
  <2>4. /\ l \in LinkLocals /\ l.want = q.want /\ l.first = q.first /\ l.proof = q.proof
        /\ l.applying = q.applying /\ l.cleaned = q.cleaned /\ l.close = q.close
    <3> DEFINE e == [q.expect EXCEPT ![i] = ~@]
    <3>1. l = [q EXCEPT !.item = i, !.expect = e]
      BY <1>1 DEF LinkLocals
    <3>2. e \in Boxes
      BY <2>3
    <3> HIDE DEF e, l
    <3>3. QED
      BY <1>1, <2>1, <3>1, <3>2 DEF LinkLocals
  <2>5. Pushes(act, l, "ticked")
    BY <1>4
  <2> HIDE DEF act, l
  <2>6. CASE /\ app' = Done(act) /\ app' \in LinkApp /\ posted' = {} /\ begun' = TRUE
             /\ qpc' = "ticked" /\ q' \in LinkLocals /\ Alike(q', l)
             /\ q'.applying = (l.applying \/ act.kind = "apply") /\ UNCHANGED <<uncertain, qanswer>>
    <3>1. app'.users = app.users /\ app'.linked = app.linked
      BY <2>2, <2>6, LinkEffect DEF LinkKnown
    <3>2. /\ q'.want = q.want /\ q'.first = q.first /\ q'.proof = q.proof
          /\ q'.cleaned = q.cleaned /\ q'.close = q.close
      BY <2>4, <2>6 DEF Alike
    <3>3. q'.applying = q.applying
      BY <1>1, <2>2, <2>4, <2>6 DEF LinkLocals
    <3>4. QED
      BY <1>1, <2>6, <3>1, <3>2, <3>3, LinkTicking
  <2>7. QED
    BY <1>1, <2>2, <2>4, <2>5, <2>6, LinkPushed
<1>5. CASE Reads("tick", q)
  BY <1>1, <1>5, LinkTicking DEF Reads, ReadWorks
<1>6. CASE qpc = "apply" /\ ReadyToApply /\ Reads("close", [q EXCEPT !.close = "apply"])
  <2> DEFINE m == [q EXCEPT !.close = "apply"]
  <2>1. q.expect = q.want /\ app.boxes = q.want
    BY <1>6 DEF LinkKnown, BeforeButton, ReadyToApply
  <2>2. /\ m \in LinkLocals /\ m.want = q.want /\ m.first = q.first /\ m.proof = q.proof
        /\ m.applying = q.applying /\ m.cleaned = q.cleaned /\ m.close = "apply" /\ m.expect = q.expect
    BY <1>1 DEF LinkLocals
  <2>3. qpc' = "close" /\ q' = m /\ UNCHANGED <<app, posted, begun, uncertain, qanswer>>
    BY <1>6 DEF Reads, ReadWorks
  <2> HIDE DEF m
  <2>4. QED
    BY <1>1, <2>1, <2>2, <2>3, LinkTicking
<1>7. CASE ToggleLink
  <2> DEFINE i == CHOOSE j \in Wanted(q.expect): \A k \in Wanted(q.expect): j <= k
  <2>1. \/ ReadLinkFails
        \/ Refutes
        \/ Wanted(q.expect) = {} /\ Reads("apply", q)
        \/ Wanted(q.expect) # {} /\ Pushes(TickBox(i, q.expect[i]), [q EXCEPT !.item = i, !.expect[i] = ~@], "ticked")
    BY <1>7 DEF ToggleLink
  <2>2. Wanted(q.expect) # {} => i \in Items
    <3>1. ASSUME Wanted(q.expect) # {}
          PROVE  \E j \in Wanted(q.expect): \A k \in Wanted(q.expect): j <= k
      <4> DEFINE S == Wanted(q.expect)
      <4>1. S \subseteq Items /\ Items \subseteq Nat
        BY DEF Wanted, Items
      <4>2. S # {}
        BY <3>1
      <4> HIDE DEF S
      <4>4. \E j \in S : \A k \in S : j <= k
        BY <4>1, <4>2, LeastMember
      <4>5. QED
        BY <4>4 DEF S
    <3>2. QED
      BY <3>1 DEF Wanted
  <2> HIDE DEF i
  <2>3. QED
    BY <1>2, <1>3, <1>4, <1>7, <2>1, <2>2 DEF ToggleLink
<1>8. QED
  BY <1>2, <1>5, <1>6, <1>7 DEF Toggled, BeforeApply

(* The button: what is on show is kept, or the manager is left. *)
LEMMA LinkCloses ==
  ASSUME LinkKnown, CloseMode
  PROVE  LinkKnown'
<1>1. /\ qpc \in {"close", "closing"} /\ posted = {} /\ qanswer = << >>
      /\ q \in LinkLocals /\ app \in LinkApp /\ q.close \in {"none", "proved", "apply", "cleanup"}
  BY DEF CloseMode, LinkKnown, SentOnce, LinkTyped, BeforeButton, LinkLocals
<1>2. CASE ReadLinkFails
  BY <1>1, <1>2, LinkReadingFails
<1>3. CASE /\ qpc = "close"
           /\ Pushes(Button(IF q.close = "apply" THEN "apply" ELSE "cancel"), [q EXCEPT !.closing = TRUE], "closing")
  <2> DEFINE act == Button(IF q.close = "apply" THEN "apply" ELSE "cancel")
             l == [q EXCEPT !.closing = TRUE]
  <2>1. act \in LinkActs /\ act.kind = IF q.close = "apply" THEN "apply" ELSE "cancel"
    BY DEF Button, LinkActs
  <2>2. l \in LinkLocals /\ Alike(l, q) /\ l.applying = q.applying
    BY <1>1, LinkNotes
  <2>3. Pushes(act, l, "closing")
    BY <1>3
  <2> HIDE DEF act, l
  <2>4. CASE /\ app' = Done(act) /\ app' \in LinkApp /\ posted' = {} /\ begun' = TRUE
             /\ qpc' = "closing" /\ q' \in LinkLocals /\ Alike(q', l)
             /\ q'.applying = (l.applying \/ act.kind = "apply") /\ UNCHANGED <<uncertain, qanswer>>
    <3>1. /\ app'.users = app.users /\ app'.boxes = app.boxes
          /\ app'.linked = IF q.close = "apply" THEN app.boxes ELSE app.linked
      BY <2>1, <2>4, LinkEffect DEF LinkKnown
    <3>2. Alike(q', q)
      BY <2>2, <2>4 DEF Alike
    <3>3. q'.applying = IF q.close = "apply" THEN TRUE ELSE q.applying
      <4>1. q.applying \in BOOLEAN
        BY <1>1 DEF LinkLocals
      <4>2. QED
        BY <2>1, <2>2, <2>4, <4>1
    <3>4. LinkTyped'
      BY <2>4 DEF LinkKnown, LinkTyped, LinkPlaces
    <3>5. ApplyMarked'
      BY <1>1, <1>3, <2>4, <3>1, <3>2, <3>3 DEF LinkKnown, ApplyMarked, BeforeButton, Alike
    <3>6. BeforeButton'
      BY <1>1, <1>3, <2>4, <3>1, <3>2, <3>3 DEF LinkKnown, BeforeButton, Alike, Looking
    <3>7. AfterButton'
      BY <1>1, <1>3, <2>4, <3>1, <3>2 DEF LinkKnown, BeforeButton, AfterButton, Alike, Looking
    <3>8. QED
      BY <1>1, <2>4, <3>4, <3>5, <3>6, <3>7, LinkGoesOn
  <2>5. QED
    BY <1>1, <1>3, <2>1, <2>2, <2>3, <2>4, LinkPushed
<1>4. CASE /\ qpc = "closing"
           /\ Reads(IF q.close = "apply" THEN "transfer" ELSE "after",
                    [q EXCEPT !.closing = FALSE, !.mode = FALSE, !.owned = FALSE])
  <2> DEFINE m == [q EXCEPT !.closing = FALSE, !.mode = FALSE, !.owned = FALSE]
  <2>1. m \in LinkLocals /\ Alike(m, q) /\ m.applying = q.applying
    BY <1>1 DEF LinkLocals, Alike
  <2>2. /\ qpc' = (IF q.close = "apply" THEN "transfer" ELSE "after") /\ q' = m
        /\ UNCHANGED <<app, posted, begun, uncertain, qanswer>>
    BY <1>4 DEF Reads, ReadWorks
  <2> HIDE DEF m
  <2>3. LinkTyped'
    BY <2>1, <2>2 DEF LinkKnown, LinkTyped, LinkPlaces
  <2>4. ApplyMarked'
    BY <1>1, <1>4, <2>1, <2>2 DEF LinkKnown, ApplyMarked, Alike
  <2>5. BeforeButton' /\ AfterButton'
    BY <1>1, <1>4, <2>1, <2>2 DEF LinkKnown, BeforeButton, AfterButton, Alike, Looking
  <2>6. QED
    BY <1>1, <2>2, <2>3, <2>4, <2>5, LinkGoesOn
<1>5. QED
  BY <1>2, <1>3, <1>4 DEF CloseMode

(* The question of the program, and the end. *)
LEMMA LinkTransfers ==
  ASSUME LinkKnown, CancelTransfer \/ LinkEnds
  PROVE  LinkKnown'
<1>1. /\ qpc \in {"transfer", "transferred", "after"} /\ posted = {} /\ qanswer = << >>
      /\ q \in LinkLocals /\ app \in LinkApp
      /\ qpc # "after" => q.close = "apply"
  BY DEF CancelTransfer, LinkEnds, LinkKnown, SentOnce, LinkTyped, AfterButton
<1>2. CASE ReadLinkFails
  BY <1>1, <1>2, LinkReadingFails
<1>3. ASSUME qpc # "after", qpc' \in {"transferred", "open"}, q' \in LinkLocals, posted' = {},
             q'.want = q.want, q'.first = q.first, q'.expect = q.expect, q'.close = q.close,
             q'.kept = q.kept, q'.cleaned = q.cleaned, q'.applying = q.applying,
             qpc' = "open" => q'.proof,
             app' \in LinkApp, app'.users = app.users, app'.linked = app.linked, app'.boxes = app.boxes,
             begun' \in {TRUE, begun}, UNCHANGED <<uncertain, qanswer>>
      PROVE  LinkKnown'
  <2>1. LinkTyped'
    BY <1>3 DEF LinkKnown, LinkTyped, LinkPlaces, Looking
  <2>5. q.close = "apply" /\ ~q.cleaned
    BY <1>1, <1>3 DEF LinkKnown, ApplyMarked
  <2>6. /\ ~q.applying => app.linked = q.first
        /\ q.applying => begun
        /\ app.users \/ app.linked \in {q.first, q.want}
    BY DEF LinkKnown, ApplyMarked
  <2>7. q'.applying => begun'
    BY <1>3, <2>6
  <2>2. ApplyMarked'
    BY <1>3, <2>5, <2>6, <2>7 DEF ApplyMarked
  <2>3. BeforeButton' /\ AfterButton'
    BY <1>1, <1>3 DEF LinkKnown, BeforeButton, AfterButton, Looking
  <2>4. QED
    BY <1>1, <1>3, <2>1, <2>2, <2>3, LinkGoesOn
<1>4. CASE qpc # "after" /\ Reads("open", [q EXCEPT !.proof = TRUE])
  <2> DEFINE m == [q EXCEPT !.proof = TRUE]
  <2>1. /\ m \in LinkLocals /\ m.want = q.want /\ m.first = q.first /\ m.expect = q.expect
        /\ m.close = q.close /\ m.kept = q.kept /\ m.cleaned = q.cleaned /\ m.applying = q.applying /\ m.proof
    BY <1>1 DEF LinkLocals
  <2>2. qpc' = "open" /\ q' = m /\ UNCHANGED <<app, posted, begun, uncertain, qanswer>>
    BY <1>4 DEF Reads, ReadWorks
  <2> HIDE DEF m
  <2>3. QED
    BY <1>1, <1>3, <1>4, <2>1, <2>2
<1>5. CASE qpc = "transfer" /\ Pushes(Button("transfer"), q, "transferred")
  <2>1. Button("transfer") \in LinkActs /\ Button("transfer").kind = "transfer"
    BY DEF Button, LinkActs
  <2>2. CASE /\ app' = Done(Button("transfer")) /\ app' \in LinkApp /\ posted' = {} /\ begun' = TRUE
             /\ qpc' = "transferred" /\ q' \in LinkLocals /\ Alike(q', q)
             /\ q'.applying = (q.applying \/ FALSE) /\ UNCHANGED <<uncertain, qanswer>>
    <3>1. app'.users = app.users /\ app'.linked = app.linked /\ app'.boxes = app.boxes
      BY <2>1, <2>2, LinkEffect DEF LinkKnown
    <3>2. q'.applying = q.applying
      BY <1>1, <2>2 DEF LinkLocals
    <3>3. QED
      BY <1>3, <1>5, <2>2, <3>1, <3>2 DEF Alike
  <2>3. QED
    BY <1>1, <1>5, <2>1, <2>2, LinkPushed
<1>6. CASE LinkEnds
  <2>1. CASE \E restored \in BOOLEAN: QtAnswers(q.kept /\ restored, FALSE, "none") /\ ReadWorks /\ UNCHANGED <<begun, uncertain, q>>
    <3>1. PICK restored \in BOOLEAN: QtAnswers(q.kept /\ restored, FALSE, "none")
      BY <2>1
    <3>2. q.kept => app.linked = q.want \/ (app.users /\ q.close = "none")
      BY <1>6 DEF LinkEnds, LinkKnown, BeforeButton, AfterButton
    <3>3. (q.kept /\ restored) \in BOOLEAN /\ UNCHANGED <<app, posted, begun, uncertain, q>>
      BY <1>1, <2>1 DEF ReadWorks, LinkLocals
    <3>4. qpc = "after"
      BY <1>6 DEF LinkEnds
    <3> DEFINE fine == q.kept /\ restored
    <3>5. fine \in BOOLEAN /\ QtAnswers(fine, FALSE, "none") /\ (fine => q.kept)
      BY <3>1, <3>3
    <3> HIDE DEF fine
    <3>6. QED
      BY <1>1, <3>2, <3>3, <3>4, <3>5, LinkAnswered
  <2>2. QED
    BY <1>2, <1>6, <2>1 DEF LinkEnds
<1>7. QED
  BY <1>2, <1>4, <1>5, <1>6 DEF CancelTransfer

(* The failure, its clean-up and its answer. *)
LEMMA LinkCleans ==
  ASSUME LinkKnown, CatchLink \/ CleanedUp \/ LinkAnswers
  PROVE  LinkKnown'
<1>1. q \in LinkLocals /\ app \in LinkApp /\ (qanswer = << >> <=> qpc # "answered")
  BY DEF LinkKnown, LinkTyped
<1>2. CASE CatchLink
  <2>1. qpc = "catch" /\ UNCHANGED <<posted, app, begun, qanswer>>
    BY <1>2 DEF CatchLink
  <2>2. CASE /\ ~uncertain /\ ~q.applying /\ q.close # "cleanup"
             /\ qpc' = "close" /\ q' = [q EXCEPT !.close = "cleanup"] /\ UNCHANGED uncertain
    <3>1. posted = {} /\ ~q.cleaned
      BY <2>1, <2>2 DEF LinkKnown, SentOnce, ApplyMarked
    <3>2. /\ q' \in LinkLocals /\ q'.want = q.want /\ q'.first = q.first /\ q'.expect = q.expect
          /\ q'.close = "cleanup" /\ q'.cleaned = q.cleaned /\ q'.applying = q.applying
      BY <1>1, <2>2 DEF LinkLocals
    <3>3. LinkTyped'
      BY <2>1, <2>2, <3>2 DEF LinkKnown, LinkTyped, LinkPlaces
    <3>4. ApplyMarked'
      BY <2>1, <2>2, <3>1, <3>2 DEF LinkKnown, ApplyMarked
    <3>5. BeforeButton' /\ AfterButton'
      BY <2>1, <2>2, <3>2 DEF BeforeButton, AfterButton, Looking
    <3>6. QED
      BY <1>1, <2>1, <2>2, <3>1, <3>3, <3>4, <3>5, LinkGoesOn
  <2>3. CASE qpc' = "finish" /\ uncertain' = (uncertain \/ q.closing) /\ UNCHANGED q
    <3>1. uncertain' \in BOOLEAN /\ (uncertain => uncertain')
      BY <1>1, <2>3 DEF LinkLocals, LinkKnown, LinkTyped
    <3>2. LinkTyped'
      BY <2>1, <2>3, <3>1 DEF LinkKnown, LinkTyped, LinkPlaces
    <3>3. SentOnce'
      BY <2>1, <2>3, <3>1 DEF LinkKnown, SentOnce
    <3>4. ApplyMarked' /\ BeforeButton' /\ AfterButton'
      BY <2>1, <2>3 DEF LinkKnown, ApplyMarked, BeforeButton, AfterButton, Looking
    <3>5. QED
      BY <1>1, <2>1, <2>3, <3>2, <3>3, <3>4 DEF LinkKnown, LinkAnswerIsTrue
  <2>4. QED
    BY <1>2, <2>2, <2>3 DEF CatchLink, MayCancel
<1>3. CASE CleanedUp
  <2>1. /\ qpc = "after" /\ q.close = "cleanup" /\ posted = {} /\ qpc' = "finish"
        /\ UNCHANGED <<posted, app, begun, uncertain, qanswer>>
    BY <1>3, ReadingQuiet DEF CleanedUp, ReadWorks, LinkKnown, SentOnce
  <2>2. CASE UNCHANGED q
    <3>1. LinkTyped'
      BY <2>1, <2>2 DEF LinkKnown, LinkTyped, LinkPlaces
    <3>2. ApplyMarked' /\ BeforeButton' /\ AfterButton'
      BY <2>1, <2>2 DEF LinkKnown, ApplyMarked, BeforeButton, AfterButton, Looking
    <3>3. QED
      BY <1>1, <2>1, <3>1, <3>2, LinkGoesOn
  <2>3. CASE \E ok \in BOOLEAN: q' = [q EXCEPT !.cleaned = ok]
    <3>1. PICK ok \in BOOLEAN: q' = [q EXCEPT !.cleaned = ok]
      BY <2>3
    <3>2. /\ q' \in LinkLocals /\ q'.want = q.want /\ q'.first = q.first /\ q'.expect = q.expect
          /\ q'.close = "cleanup" /\ q'.applying = q.applying
      BY <1>1, <2>1, <3>1 DEF LinkLocals
    <3>3. LinkTyped'
      BY <2>1, <3>2 DEF LinkKnown, LinkTyped, LinkPlaces
    <3>4. ApplyMarked'
      BY <2>1, <3>2 DEF LinkKnown, ApplyMarked
    <3>5. BeforeButton' /\ AfterButton'
      BY <2>1, <3>2 DEF BeforeButton, AfterButton, Looking
    <3>6. QED
      BY <1>1, <2>1, <3>3, <3>4, <3>5, LinkGoesOn
  <2>4. QED
    BY <1>3, <2>2, <2>3 DEF CleanedUp
<1>4. CASE LinkAnswers
  <2> DEFINE open == uncertain /\ begun
             state == IF q.cleaned THEN "cancelled" ELSE IF begun THEN "unknown" ELSE "unchanged"
  <2>1. /\ qpc = "finish" /\ QtAnswers(FALSE, open, state) /\ UNCHANGED <<app, posted, begun, uncertain, q>>
    BY <1>4 DEF LinkAnswers
  <2>2. open \in BOOLEAN /\ open = (uncertain /\ begun)
    BY DEF LinkKnown, LinkTyped
  <2>3. state \in {"cancelled", "unchanged"} => app.linked = q.first /\ posted = {}
    BY DEF LinkKnown, SentOnce, ApplyMarked
  <2> HIDE DEF open, state
  <2>4. QED
    BY <2>1, <2>2, <2>3, LinkAnswered
<1>5. QED
  BY <1>2, <1>3, <1>4

(* What comes of itself: an action that is taken late, and the user. *)
LEMMA LinkComes ==
  ASSUME LinkKnown, LateLink \/ UserInManager \/ ChannelCloses
  PROVE  LinkKnown'
<1>1. CASE LateLink
  <2>1. PICK act \in posted:
          /\ posted' = posted \ {act} /\ app' = IF Works(act) THEN Done(act) ELSE app
          /\ UNCHANGED <<channel, begun, uncertain, qpc, q, qanswer>>
    BY <1>1 DEF LateLink
  <2>2. /\ qpc \in {"catch", "finish", "answered"} /\ posted' = {} /\ act \in LinkActs
        /\ act.kind = "apply" => q.applying /\ q.close = "apply" /\ (app.boxes = q.want \/ app.users)
    BY <2>1 DEF LinkKnown, LinkTyped, SentOnce
  <2>3. /\ app' \in LinkApp /\ app'.users = app.users
        /\ app'.linked = app.linked \/ (act.kind = "apply" /\ app'.linked = app.boxes)
    BY <2>1, <2>2, LinkEffect DEF LinkKnown, LinkTyped
  <2>4. LinkTyped' /\ SentOnce'
    BY <2>1, <2>2, <2>3 DEF LinkKnown, LinkTyped, SentOnce
  <2>5. ApplyMarked'
    BY <2>1, <2>2, <2>3 DEF LinkKnown, ApplyMarked
  <2>6. BeforeButton' /\ AfterButton'
    BY <2>1, <2>2, <2>3 DEF LinkKnown, ApplyMarked, BeforeButton, AfterButton, Looking
  <2>7. LinkAnswerIsTrue'
    BY <2>1, <2>2, <2>5 DEF LinkKnown, ApplyMarked, LinkAnswerIsTrue
  <2>8. QED
    BY <2>1, <2>2, <2>4, <2>5, <2>6, <2>7 DEF LinkKnown
<1>2. CASE UserInManager
  <2>1. /\ qpc # "answered" /\ qanswer = << >> /\ ~app.users /\ app \in LinkApp
        /\ UNCHANGED <<posted, begun, uncertain, qpc, q, qanswer>>
    BY <1>2 DEF UserInManager, LinkKnown, LinkTyped
  <2>2. app' \in LinkApp /\ app'.users /\ app'.linked = app.linked
    <3>1. CASE app' = [app EXCEPT !.manager = FALSE, !.users = TRUE]
      BY <2>1, <3>1 DEF LinkApp
    <3>2. ASSUME NEW i \in Items, app' = [app EXCEPT !.boxes[i] = ~@, !.users = TRUE]
          PROVE  app' \in LinkApp /\ app'.users /\ app'.linked = app.linked
      <4> DEFINE b == [app.boxes EXCEPT ![i] = ~@]
      <4>1. app.boxes \in [Items -> BOOLEAN]
        BY <2>1 DEF LinkApp, Boxes
      <4>2. (~app.boxes[i]) \in BOOLEAN
        BY <3>2, <4>1
      <4>3. ASSUME NEW c \in BOOLEAN PROVE [app.boxes EXCEPT ![i] = c] \in Boxes
        BY <4>1 DEF Boxes
      <4>4. b = [app.boxes EXCEPT ![i] = ~app.boxes[i]]
        BY Zenon
      <4>5. b \in Boxes
        BY <4>2, <4>3, <4>4, Zenon
      <4>6. app' = [app EXCEPT !.boxes = b, !.users = TRUE]
        BY <2>1, <3>2 DEF LinkApp
      <4> HIDE DEF b
      <4>7. QED
        BY <2>1, <4>5, <4>6 DEF LinkApp
    <3>3. QED
      BY <1>2, <3>1, <3>2 DEF UserInManager
  <2>3. LinkTyped' /\ SentOnce'
    BY <2>1, <2>2 DEF LinkKnown, LinkTyped, SentOnce
  <2>4. ApplyMarked'
    BY <2>1, <2>2 DEF LinkKnown, ApplyMarked
  <2>5. BeforeButton' /\ AfterButton'
    BY <2>1, <2>2 DEF LinkKnown, BeforeButton, AfterButton, Looking
  <2>6. QED
    BY <2>1, <2>2, <2>3, <2>4, <2>5 DEF LinkKnown, LinkAnswerIsTrue
<1>3. CASE ChannelCloses
  <2>1. UNCHANGED <<posted, app, begun, uncertain, qpc, q, qanswer>>
    BY <1>3 DEF ChannelCloses
  <2>2. LinkTyped' /\ SentOnce'
    BY <2>1 DEF LinkKnown, LinkTyped, SentOnce
  <2>3. ApplyMarked'
    BY <2>1 DEF LinkKnown, ApplyMarked
  <2>4. BeforeButton' /\ AfterButton'
    BY <2>1 DEF LinkKnown, BeforeButton, AfterButton
  <2>5. QED
    BY <2>1, <2>2, <2>3, <2>4 DEF LinkKnown, LinkAnswerIsTrue
<1>4. QED
  BY <1>1, <1>2, <1>3

(* It holds when the operation begins. *)
LEMMA LinkBegins ==
  ASSUME LinkInit
  PROVE  LinkKnown
<1>1. PICK linked \in Boxes, want \in Boxes, open \in BOOLEAN, asks \in BOOLEAN:
        SessionInit("main",
          [manager |-> open, listed |-> FALSE, boxes |-> linked, linked |-> linked,
           asks |-> asks, dialog |-> FALSE, users |-> FALSE],
          [want |-> want, first |-> linked, proof |-> FALSE, expect |-> linked, item |-> 0,
           close |-> "", applying |-> FALSE, closing |-> FALSE, mode |-> FALSE, owned |-> FALSE,
           kept |-> FALSE, cleaned |-> FALSE])
  BY DEF LinkInit, Boxes
<1>2. /\ posted = {} /\ begun = FALSE /\ uncertain = FALSE /\ qpc = "main" /\ qanswer = << >>
      /\ app \in LinkApp /\ app.boxes = linked /\ app.linked = linked
  BY <1>1 DEF SessionInit, LinkApp
<1>3. /\ q \in LinkLocals /\ q.first = linked /\ ~q.proof /\ ~q.applying /\ q.close = "" /\ ~q.cleaned
  <2>1. q = [want |-> want, first |-> linked, proof |-> FALSE, expect |-> linked, item |-> 0,
             close |-> "", applying |-> FALSE, closing |-> FALSE, mode |-> FALSE, owned |-> FALSE,
             kept |-> FALSE, cleaned |-> FALSE]
    BY <1>1 DEF SessionInit
  <2>2. q \in LinkLocals
    <3>1. ASSUME NEW n \in Int, NEW c \in {""}, NEW no \in BOOLEAN
          PROVE  [want |-> want, first |-> linked, proof |-> no, expect |-> linked, item |-> n,
                  close |-> c, applying |-> no, closing |-> no, mode |-> no, owned |-> no,
                  kept |-> no, cleaned |-> no] \in LinkLocals
      BY <3>1 DEF LinkLocals
    <3>2. 0 \in Int /\ FALSE \in BOOLEAN /\ "" \in {""}
      OBVIOUS
    <3>3. QED
      BY <2>1, <3>1, <3>2, Zenon
  <2>3. QED
    BY <2>1, <2>2
<1>4. LinkTyped /\ SentOnce /\ ApplyMarked
  BY <1>2, <1>3 DEF LinkTyped, SentOnce, ApplyMarked, LinkPlaces, Looking
<1>5. BeforeButton /\ AfterButton
  BY <1>2, <1>3 DEF BeforeButton, AfterButton, Looking
<1>6. QED
  BY <1>2, <1>3, <1>4, <1>5 DEF LinkKnown, LinkAnswerIsTrue

(* Every step keeps it. *)
LEMMA LinkKeeps ==
  ASSUME LinkKnown, LinkNext
  PROVE  LinkKnown'
BY LinkOpens, LinkLists, LinkTicks, LinkCloses, LinkTransfers, LinkCleans, LinkComes DEF LinkNext

-----------------------------------------------------------------------------
(* The fields of a receipt.                                                *)

(* The actions, the receipt, the operation and its places.                 *)
SetActs == [kind: {"set"}, field: Fields, expected: {"old", "new"}, to: {"old", "new"}]
DetailActs == [kind: {"select", "close"}, field: {0}, expected: {""}, to: {""}]
ReceiptApp == [detail: BOOLEAN, value: [Fields -> {"old", "new", "foreign"}], users: SUBSET Fields]
UpdateLocals == [field: Fields, work: [Fields -> {"old", "new"}], edits: Seq(Fields), closing: BOOLEAN,
                 complete: BOOLEAN, lost: BOOLEAN, cleaned: BOOLEAN]
BeforeEdits == {"prepare", "select", "bound", "stale", "staleclosed"}
Editing == {"edit", "send", "commit", "next", "final", "undo", "undosend", "undone"}
UpdatePlaces == BeforeEdits \cup Editing \cup {"close", "closing", "list", "cleanup", "cleaning",
                                               "catch", "finish", "answered"}

(* Their types.                                                            *)
UpdateTyped ==
  /\ app \in ReceiptApp /\ q \in UpdateLocals /\ posted \subseteq SetActs \cup DetailActs
  /\ begun \in BOOLEAN /\ uncertain \in BOOLEAN /\ qpc \in UpdatePlaces

(* What the user has not written is all what was read, or all what is asked *)
(* for. *)
OthersHold(word) == \A f \in Fields \ app.users : app.value[f] = word

(* What the user has written is what nobody else writes. *)
UserWords == \A f \in Fields : f \in app.users <=> app.value[f] = "foreign"

(* An action may still come only after a failure, and an edit only after   *)
(* one that says so. *)
EditSent ==
  /\ posted # {} => qpc \in {"catch", "finish", "answered"} /\ begun /\ ~q.cleaned
  /\ posted # {} /\ qpc = "catch" => uncertain
  /\ \A a \in posted : a.kind = "set" => uncertain

EditKnown ==
  /\ qpc \in BeforeEdits \cup {"cleanup", "cleaning"} \/ ~begun \/ q.cleaned => OthersHold("old")
  /\ q.cleaned => qpc \in {"finish", "answered"}
  /\ qpc \in {"close", "closing", "list"} => OthersHold("new")
  /\ qpc \in {"undosend", "undone"} => q.edits # << >>
  /\ qpc = "undosend" => q.work[Last(q.edits)] = "new"

(* The inductive invariant of the update.                                  *)
UpdateKnown ==
  /\ UpdateTyped
  /\ UserWords
  /\ EditSent
  /\ EditKnown
  /\ qanswer # << >> <=> qpc = "answered"
  /\ qanswer # << >> /\ Head(qanswer).ok => posted = {}
  /\ UpdateAnswerIsTrue

(* The parts of a sequence of fields. *)
LEMMA EditsParts ==
  ASSUME NEW e \in Seq(Fields)
  PROVE  /\ \A f \in Fields : Append(e, f) \in Seq(Fields)
         /\ e # << >> => Last(e) \in Fields /\ Front(e) \in Seq(Fields)
<1>1. \A f \in Fields : Append(e, f) \in Seq(Fields)
  OBVIOUS
<1>2. ASSUME e # << >> PROVE Last(e) \in Fields /\ Front(e) \in Seq(Fields)
  <2>1. Len(e) \in Nat /\ Len(e) >= 1
    BY <1>2
  <2>2. e[Len(e)] \in Fields
    BY <2>1
  <2>3. SubSeq(e, 1, Len(e) - 1) \in Seq(Fields)
    BY <2>1
  <2>4. QED
    BY <2>2, <2>3 DEF Last, Front
<1>3. QED
  BY <1>1, <1>2

(* What an action makes of the receipt, if the program takes it: an edit   *)
(* finds what it expects, which is never what the user has written.        *)
LEMMA UpdateEffect ==
  ASSUME UpdateTyped, UserWords, NEW act \in SetActs \cup DetailActs, Takes(act)
  PROVE  /\ Effect(act) \in ReceiptApp /\ Effect(act).users = app.users
         /\ act \in DetailActs => Effect(act).value = app.value
         /\ act \in SetActs => \A g \in Fields : Effect(act).value[g] = IF g = act.field THEN act.to ELSE app.value[g]
         /\ \A f \in Fields : f \in app.users <=> Effect(act).value[f] = "foreign"
<1>1. CASE act \in DetailActs
  <2>1. act.kind \in {"select", "close"} /\ act \notin SetActs
    BY <1>1 DEF DetailActs, SetActs
  <2>2. Effect(act) = [app EXCEPT !.detail = TRUE] \/ Effect(act) = [app EXCEPT !.detail = FALSE]
    BY <2>1 DEF Effect
  <2>3. /\ Effect(act) \in ReceiptApp /\ Effect(act).users = app.users /\ Effect(act).value = app.value
    BY <2>2 DEF UpdateTyped, ReceiptApp
  <2>4. QED
    BY <2>1, <2>3 DEF UserWords
<1>2. CASE act \in SetActs
  <2>1. /\ act.kind = "set" /\ act.field \in Fields /\ act.expected \in {"old", "new"} /\ act.to \in {"old", "new"}
    BY <1>2 DEF SetActs
  <2> DEFINE v == [app.value EXCEPT ![act.field] = act.to]
  <2>2. Effect(act) = [app EXCEPT !.value[act.field] = act.to]
    BY <2>1 DEF Effect
  <2>3. Effect(act) = [app EXCEPT !.value = v]
    BY <2>2 DEF UpdateTyped, ReceiptApp
  <2>4. /\ v \in [Fields -> {"old", "new", "foreign"}]
        /\ \A g \in Fields : v[g] = IF g = act.field THEN act.to ELSE app.value[g]
    BY <2>1 DEF UpdateTyped, ReceiptApp
  <2> HIDE DEF v
  <2>5. Effect(act) \in ReceiptApp /\ Effect(act).users = app.users /\ Effect(act).value = v
    BY <2>3, <2>4 DEF UpdateTyped, ReceiptApp
  <2>6. app.value[act.field] = act.expected
    BY <2>1 DEF Takes
  <2>7. act \notin DetailActs
    BY <2>1 DEF DetailActs
  <2>8. \A f \in Fields : f \in app.users <=> v[f] = "foreign"
    BY <2>1, <2>4, <2>6 DEF UserWords
  <2>9. QED
    BY <2>4, <2>5, <2>7, <2>8
<1>3. QED
  BY <1>1, <1>2

(* A step that leaves the values alone and after which nothing may still   *)
(* come. *)
LEMMA UpdateMoves ==
  ASSUME UpdateKnown, qanswer = << >>, UNCHANGED qanswer, qpc' \in UpdatePlaces \ {"answered"},
         posted' = {}, begun' \in {TRUE, begun}, uncertain' \in BOOLEAN,
         app' \in ReceiptApp, app'.users = app.users, app'.value = app.value,
         q' \in UpdateLocals, q'.cleaned => OthersHold("old") /\ qpc' = "finish",
         qpc' \in BeforeEdits \cup {"cleanup", "cleaning"} => OthersHold("old"),
         qpc' \in {"close", "closing", "list"} => OthersHold("new"),
         qpc' \in {"undosend", "undone"} => q'.edits # << >>,
         qpc' = "undosend" => q'.work[Last(q'.edits)] = "new"
  PROVE  UpdateKnown'
<1>1. UpdateTyped'
  BY DEF UpdateKnown, UpdateTyped
<1>2. UserWords'
  BY DEF UpdateKnown, UserWords
<1>3. ~begun' => OthersHold("old")
  BY DEF UpdateKnown, UpdateTyped, EditKnown
<1>4. /\ OthersHold("old") => OthersHold("old")'
      /\ OthersHold("new") => OthersHold("new")'
  BY DEF OthersHold
<1>5. EditKnown'
  BY <1>3, <1>4 DEF EditKnown
<1>6. EditSent'
  BY DEF EditSent
<1>7. UpdateAnswerIsTrue'
  BY <1>2, <1>1 DEF UserWords, UpdateAnswerIsTrue, UpdateTyped, ReceiptApp
<1>8. QED
  BY <1>1, <1>2, <1>5, <1>6, <1>7 DEF UpdateKnown

(* Places where the operation goes on by itself. *)
UpdateActive == UpdatePlaces \ {"catch", "finish", "answered"}

(* There nothing may still come. *)
LEMMA UpdateQuiet ==
  ASSUME UpdateKnown, qpc \in UpdateActive
  PROVE  /\ posted = {} /\ qanswer = << >> /\ ~q.cleaned
         /\ q \in UpdateLocals /\ app \in ReceiptApp /\ begun \in BOOLEAN /\ uncertain \in BOOLEAN
BY DEF UpdateKnown, UpdateTyped, EditSent, EditKnown, UpdateActive

(* What an action that was sent has come to. *)
LEMMA UpdateSends ==
  ASSUME UpdateKnown, qpc \in UpdateActive, NEW act \in SetActs \cup DetailActs, NEW r \in Replies,
         RequestAcknowledged(act, Takes(act), Effect(act), r), begun' = Begun(r)
  PROVE  /\ r.ok \in BOOLEAN /\ r.thrown \in BOOLEAN /\ r.attempted \in BOOLEAN /\ r.unknown \in BOOLEAN
         /\ posted' \subseteq {act} /\ (app' = app \/ (Takes(act) /\ app' = Effect(act)))
         /\ r.ok => Takes(act) /\ app' = Effect(act) /\ posted' = {} /\ begun'
         /\ posted' # {} => r.unknown /\ (r.thrown \/ r.attempted) /\ begun'
         /\ app' # app => begun'
         /\ begun' \in BOOLEAN /\ (begun => begun')
<1>1. posted = {} /\ begun \in BOOLEAN
  BY UpdateQuiet
<1>2. Takes(act) \in BOOLEAN
  BY DEF Takes, UpdateKnown, UpdateTyped, ReceiptApp, SetActs, DetailActs
<1>3. /\ r.ok \in BOOLEAN /\ r.thrown \in BOOLEAN /\ r.attempted \in BOOLEAN /\ r.unknown \in BOOLEAN
      /\ posted' = posted \/ posted' = posted \cup {act}
      /\ app' = app \/ (Takes(act) /\ app' = Effect(act))
      /\ r.ok => Takes(act) /\ app' = Effect(act) /\ posted' = posted /\ r.attempted /\ ~r.thrown
      /\ posted' # posted => ~r.ok /\ r.unknown /\ (r.thrown \/ r.attempted)
      /\ app' # app => r.attempted \/ (r.thrown /\ r.unknown)
  BY <1>2, Acknowledged
<1>4. begun' = (begun \/ r.attempted \/ (r.thrown /\ r.unknown))
  BY DEF Begun
<1>5. /\ begun' \in BOOLEAN /\ (begun => begun') /\ (r.attempted => begun')
      /\ (r.thrown /\ r.unknown => begun')
  BY <1>1, <1>3, <1>4
<1>6. QED
  BY <1>1, <1>3, <1>5

(* An action that has failed. *)
LEMMA UpdateFails ==
  ASSUME UpdateKnown, qpc \in UpdateActive, NEW act \in SetActs \cup DetailActs, NEW r \in Replies,
         RequestAcknowledged(act, Takes(act), Effect(act), r), begun' = Begun(r), UNCHANGED qanswer,
         q' \in UpdateLocals, ~q'.cleaned, qpc' \in {"catch", "finish"}, uncertain' \in BOOLEAN,
         r.unknown /\ (act \in SetActs \/ qpc' = "catch") => uncertain'
  PROVE  UpdateKnown'
<1>1. /\ posted' \subseteq {act} /\ (app' = app \/ (Takes(act) /\ app' = Effect(act)))
      /\ posted' # {} => r.unknown /\ begun'
      /\ app' # app => begun'
      /\ begun' \in BOOLEAN /\ (begun => begun')
  BY UpdateSends
<1>2. app' \in ReceiptApp /\ UserWords'
  <2>1. CASE app' = app
    BY <2>1 DEF UpdateKnown, UpdateTyped, UserWords
  <2>2. CASE Takes(act) /\ app' = Effect(act)
    BY <2>2, UpdateEffect DEF UpdateKnown, UserWords
  <2>3. QED
    BY <1>1, <2>1, <2>2
<1>3. UpdateTyped'
  <2>1. posted' \subseteq SetActs \cup DetailActs
    BY <1>1
  <2>2. QED
    BY <1>1, <1>2, <2>1 DEF UpdateTyped, UpdatePlaces
<1>4. ~begun' => OthersHold("old")'
  BY <1>1 DEF UpdateKnown, UpdateTyped, EditKnown, OthersHold
<1>5. EditKnown'
  BY <1>4 DEF EditKnown, BeforeEdits
<1>6. EditSent'
  <2>1. act.kind = "set" => act \in SetActs
    BY DEF DetailActs
  <2>2. \A a \in posted' : a = act
    BY <1>1
  <2>3. uncertain' \in BOOLEAN
    OBVIOUS
  <2>4. posted' # {} => qpc' \in {"catch", "finish", "answered"} /\ begun' /\ ~q'.cleaned
    BY <1>1
  <2>5. posted' # {} /\ qpc' = "catch" => uncertain'
    BY <1>1
  <2>6. \A a \in posted' : a.kind = "set" => uncertain'
    BY <1>1, <2>1, <2>2
  <2>7. QED
    BY <2>4, <2>5, <2>6 DEF EditSent
<1>7. qanswer' = << >>
  BY UpdateQuiet
<1>8. UpdateAnswerIsTrue'
  BY <1>2, <1>7 DEF UserWords, UpdateAnswerIsTrue, ReceiptApp
<1>9. QED
  BY <1>2, <1>3, <1>5, <1>6, <1>7, <1>8 DEF UpdateKnown

(* A failure, or the end of the rollback, that changes nothing. *)
LEMMA UpdateRaises ==
  ASSUME UpdateKnown, qpc \in UpdateActive, NEW doubt \in BOOLEAN, Raises(doubt) \/ (StopsUndo(doubt) /\ UNCHANGED begun),
         UNCHANGED <<posted, app>>
  PROVE  UpdateKnown'
<1>1. /\ posted = {} /\ qanswer = << >> /\ ~q.cleaned
      /\ q \in UpdateLocals /\ app \in ReceiptApp /\ begun \in BOOLEAN /\ uncertain \in BOOLEAN
  BY UpdateQuiet
<1>2. q' \in UpdateLocals /\ ~q'.cleaned
  BY <1>1 DEF Raises, StopsUndo, UpdateLocals
<1>3. qpc' \in {"catch", "finish"} /\ uncertain' \in BOOLEAN /\ UNCHANGED <<begun, qanswer>>
  BY <1>1 DEF Raises, StopsUndo
<1>4. QED
  BY <1>1, <1>2, <1>3, UpdateMoves DEF UpdatePlaces, BeforeEdits

(* Readings that fail. *)
LEMMA UpdateReadingFails ==
  ASSUME UpdateKnown, qpc \in UpdateActive,
         \/ ReadDetailFails \/ UndoReadFails
         \/ \E doubt \in BOOLEAN : ReadWorks /\ Raises(doubt)
  PROVE  UpdateKnown'
<1>1. TRUE \in BOOLEAN /\ FALSE \in BOOLEAN
  OBVIOUS
<1>2. CASE ReadDetailFails
  BY <1>1, <1>2, UpdateRaises, ReadingQuiet DEF ReadDetailFails, ReadWorks
<1>3. CASE UndoReadFails
  BY <1>1, <1>3, UpdateRaises, ReadingQuiet DEF UndoReadFails, ReadWorks
<1>4. QED
  BY <1>2, <1>3, UpdateRaises DEF ReadWorks

(* An action that has been taken, or has failed. *)
LEMMA UpdateActs ==
  ASSUME UpdateKnown, qpc \in UpdateActive, NEW act \in SetActs \cup DetailActs,
         NEW onSuccess \in UpdateLocals, NEW next, Acts(act, onSuccess, next)
  PROVE  \/ /\ Takes(act) /\ app' = Effect(act) /\ posted' = {} /\ begun' = TRUE
            /\ qpc' = next /\ q' = onSuccess /\ UNCHANGED <<uncertain, qanswer>>
         \/ UpdateKnown'
<1>1. PICK r \in Replies :
        /\ RequestAcknowledged(act, Takes(act), Effect(act), r) /\ begun' = Begun(r)
        /\ IF r.ok THEN qpc' = next /\ q' = onSuccess /\ UNCHANGED uncertain
           ELSE qpc' = "catch" /\ uncertain' = Doubtful(r) /\ UNCHANGED q
        /\ UNCHANGED qanswer
  BY DEF Acts
<1>2. /\ r.ok \in BOOLEAN /\ r.thrown \in BOOLEAN /\ r.attempted \in BOOLEAN /\ r.unknown \in BOOLEAN
      /\ r.ok => Takes(act) /\ app' = Effect(act) /\ posted' = {} /\ begun'
      /\ begun' \in BOOLEAN
  BY <1>1, UpdateSends
<1>3. CASE r.ok
  BY <1>1, <1>2, <1>3
<1>4. CASE ~r.ok
  <2>1. Doubtful(r) \in BOOLEAN /\ (r.unknown => Doubtful(r))
    BY <1>2 DEF Doubtful
  <2>2. qpc' = "catch" /\ uncertain' = Doubtful(r) /\ UNCHANGED q
    BY <1>1, <1>4
  <2>3. q \in UpdateLocals /\ ~q.cleaned
    BY UpdateQuiet
  <2>4. QED
    BY <1>1, <2>1, <2>2, <2>3, UpdateFails
<1>5. QED
  BY <1>2, <1>3, <1>4

(* An edit that has been taken. *)
LEMMA UpdateWrites ==
  ASSUME UpdateKnown, qpc \in UpdateActive, NEW act \in SetActs \cup DetailActs, Takes(act), app' = Effect(act),
         posted' = {}, begun' = TRUE, qpc' \in {"commit", "undone"}, q' \in UpdateLocals, ~q'.cleaned,
         qpc' = "undone" => q'.edits # << >>, uncertain' \in BOOLEAN, UNCHANGED qanswer
  PROVE  UpdateKnown'
<1>1. app' \in ReceiptApp /\ UserWords'
  BY UpdateEffect DEF UpdateKnown, UserWords
<1>2. qanswer' = << >>
  BY UpdateQuiet
<1>3. UpdateTyped'
  BY <1>1 DEF UpdateTyped, UpdatePlaces, Editing
<1>4. EditKnown' /\ EditSent'
  BY DEF EditKnown, EditSent, BeforeEdits
<1>5. UpdateAnswerIsTrue'
  BY <1>1, <1>2 DEF UserWords, UpdateAnswerIsTrue, ReceiptApp
<1>6. QED
  BY <1>1, <1>2, <1>3, <1>4, <1>5 DEF UpdateKnown

(* An answer. *)
LEMMA UpdateAnswered ==
  ASSUME UpdateKnown, qpc \notin {"catch", "answered"}, UNCHANGED <<app, posted, begun, uncertain, q>>,
         NEW ok \in BOOLEAN, NEW unknown, NEW state, QtAnswers(ok, unknown, state),
         ok => posted = {} /\ OthersHold("new"),
         state \in {"restored", "unchanged"} => OthersHold("old") /\ posted = {},
         ~unknown => \A act \in posted : act.kind # "set"
  PROVE  UpdateKnown'
<1>1. /\ qpc' = "answered" /\ qanswer' # << >>
      /\ Head(qanswer').ok = ok /\ Head(qanswer').unknown = unknown /\ Head(qanswer').state = state
  BY OneQtAnswer
<1>2. UpdateTyped' /\ UserWords' /\ EditSent'
  BY <1>1 DEF UpdateKnown, UpdateTyped, UserWords, EditSent, UpdatePlaces
<1>3. EditKnown'
  BY <1>1 DEF UpdateKnown, EditKnown, OthersHold, BeforeEdits
<1>4. \A f \in app'.users : app'.value[f] = "foreign"
  BY <1>2 DEF UserWords, UpdateTyped, ReceiptApp
<1>5. UpdateAnswerIsTrue'
  BY <1>1, <1>4 DEF UpdateAnswerIsTrue, OthersHold
<1>6. QED
  BY <1>1, <1>2, <1>3, <1>5 DEF UpdateKnown

(* Up to the first reading of the values. *)
LEMMA UpdateBefore ==
  ASSUME UpdateKnown, Prepared \/ Selects \/ Bound \/ ClosesStale
  PROVE  UpdateKnown'
<1>1. qpc \in BeforeEdits /\ qpc \in UpdateActive
  BY DEF Prepared, Selects, Bound, ClosesStale, BeforeEdits, UpdateActive, UpdatePlaces
<1>2. /\ posted = {} /\ qanswer = << >> /\ ~q.cleaned
      /\ q \in UpdateLocals /\ app \in ReceiptApp /\ begun \in BOOLEAN /\ uncertain \in BOOLEAN
  BY <1>1, UpdateQuiet
<1>3. OthersHold("old")
  BY <1>1 DEF UpdateKnown, EditKnown
<1>4. CASE ReadDetailFails
  BY <1>1, <1>4, UpdateReadingFails
<1>5. ASSUME NEW next \in BeforeEdits \cup {"edit"}, ReadDetail(next, q)
      PROVE  UpdateKnown'
  BY <1>2, <1>3, <1>5, UpdateMoves DEF ReadDetail, ReadWorks, UpdatePlaces, BeforeEdits, Editing
<1>6. ASSUME NEW act \in DetailActs, NEW l \in UpdateLocals, ~l.cleaned, NEW next \in BeforeEdits,
             Acts(act, l, next)
      PROVE  UpdateKnown'
  <2>1. CASE /\ Takes(act) /\ app' = Effect(act) /\ posted' = {} /\ begun' = TRUE
             /\ qpc' = next /\ q' = l /\ UNCHANGED <<uncertain, qanswer>>
    <3>1. app' \in ReceiptApp /\ app'.users = app.users /\ app'.value = app.value
      BY <1>6, <2>1, UpdateEffect DEF UpdateKnown
    <3>2. QED
      BY <1>2, <1>3, <1>6, <2>1, <3>1, UpdateMoves DEF UpdatePlaces, BeforeEdits
  <2>2. QED
    BY <1>1, <1>6, <2>1, UpdateActs
<1>7. Select \in DetailActs /\ Press \in DetailActs
  BY DEF Select, Press, DetailActs
<1>8. CASE Prepared
  <2>1. CASE ReadDetail("select", q)
    BY <1>5, <2>1 DEF BeforeEdits
  <2>2. CASE ReadWorks /\ QtAnswers(FALSE, FALSE, "unchanged") /\ UNCHANGED <<begun, uncertain, q>>
    BY <1>1, <1>2, <1>3, <2>2, UpdateAnswered DEF ReadWorks, BeforeEdits
  <2>3. CASE \E r \in Replies: ReadingThrows(r) /\ QtAnswers(FALSE, r.unknown, "none") /\ UNCHANGED <<begun, uncertain, q>>
    BY <1>1, <1>2, <1>3, <2>3, ReadingQuiet, UpdateAnswered DEF BeforeEdits
  <2>4. QED
    BY <1>8, <2>1, <2>2, <2>3 DEF Prepared
<1>9. CASE Selects
  BY <1>2, <1>6, <1>7, <1>9 DEF Selects, BeforeEdits
<1>10. CASE Bound
  <2>1. CASE ReadDetail(IF app.value = AllFields("old") THEN "edit" ELSE "stale", q)
    BY <1>5, <2>1 DEF BeforeEdits
  <2>2. QED
    BY <1>4, <1>10, <2>1 DEF Bound
<1>11. CASE ClosesStale
  <2>1. CASE Acts(Press, [q EXCEPT !.closing = TRUE], "staleclosed")
    <3>1. [q EXCEPT !.closing = TRUE] \in UpdateLocals /\ ~[q EXCEPT !.closing = TRUE].cleaned
      BY <1>2 DEF UpdateLocals
    <3>2. QED
      BY <1>6, <1>7, <2>1, <3>1 DEF BeforeEdits
  <2>2. CASE ReadWorks /\ QtAnswers(FALSE, FALSE, "none") /\ UNCHANGED <<begun, uncertain, q>>
    BY <1>1, <1>2, <2>2, UpdateAnswered DEF ReadWorks, BeforeEdits
  <2>3. QED
    BY <1>4, <1>11, <2>1, <2>2 DEF ClosesStale
<1>12. QED
  BY <1>8, <1>9, <1>10, <1>11

(* The fields, one after the other. *)
LEMMA UpdateEdits ==
  ASSUME UpdateKnown, EditField \/ SendEdit \/ Commit \/ NextField \/ FinalReading
  PROVE  UpdateKnown'
<1>1. qpc \in {"edit", "send", "commit", "next", "final"} /\ qpc \in UpdateActive
  BY DEF EditField, SendEdit, Commit, NextField, FinalReading, Editing, UpdateActive, UpdatePlaces
<1>2. /\ posted = {} /\ qanswer = << >> /\ ~q.cleaned
      /\ q \in UpdateLocals /\ app \in ReceiptApp /\ begun \in BOOLEAN /\ uncertain \in BOOLEAN
  BY <1>1, UpdateQuiet
<1>3. CASE ReadDetailFails \/ \E doubt \in BOOLEAN : ReadWorks /\ Raises(doubt)
  BY <1>1, <1>3, UpdateReadingFails
<1>4. ASSUME NEW next \in {"edit", "send", "next", "final", "close"}, NEW l \in UpdateLocals, ~l.cleaned,
             qpc' = next, q' = l, UNCHANGED <<posted, app, begun, uncertain, qanswer>>,
             next = "close" => OthersHold("new")
      PROVE  UpdateKnown'
  BY <1>2, <1>4, UpdateMoves DEF UpdatePlaces, BeforeEdits, Editing
<1>5. CASE EditField
  <2>1. CASE ReadDetail("next", q)
    BY <1>2, <1>4, <2>1 DEF ReadDetail, ReadWorks
  <2>2. CASE ReadDetail("send", [q EXCEPT !.edits = Append(@, q.field)])
    <3> DEFINE l == [q EXCEPT !.edits = Append(@, q.field)]
    <3>1. Append(q.edits, q.field) \in Seq(Fields)
      BY <1>2, EditsParts DEF UpdateLocals
    <3>2. l = [q EXCEPT !.edits = Append(q.edits, q.field)]
      BY Zenon
    <3>3. l \in UpdateLocals /\ ~l.cleaned
      BY <1>2, <3>1, <3>2 DEF UpdateLocals
    <3>4. qpc' = "send" /\ q' = l /\ UNCHANGED <<posted, app, begun, uncertain, qanswer>>
      BY <2>2 DEF ReadDetail, ReadWorks
    <3> HIDE DEF l
    <3>5. QED
      BY <1>4, <3>3, <3>4
  <2>3. QED
    BY <1>3, <1>5, <2>1, <2>2 DEF EditField
<1>6. CASE SendEdit
  <2> DEFINE act == Set(q.field, q.work[q.field], "new")
  <2>1. act \in SetActs
    BY <1>2 DEF Set, Select, SetActs, UpdateLocals
  <2>2. Acts(act, q, "commit")
    BY <1>6 DEF SendEdit
  <2> HIDE DEF act
  <2>3. QED
    BY <1>1, <1>2, <2>1, <2>2, UpdateActs, UpdateWrites
<1>7. CASE Commit
  <2>1. CASE /\ app.value[q.field] = "new" /\ \A g \in Fields \ {q.field}: app.value[g] = q.work[g]
             /\ ReadDetail("next", [q EXCEPT !.work = app.value])
    <3> DEFINE l == [q EXCEPT !.work = app.value]
    <3>1. app.value \in [Fields -> {"old", "new"}]
      <4>1. app.value \in [Fields -> {"old", "new", "foreign"}] /\ q.work \in [Fields -> {"old", "new"}]
        BY <1>2 DEF ReceiptApp, UpdateLocals
      <4>2. \A g \in Fields : app.value[g] \in {"old", "new"}
        BY <2>1, <4>1
      <4>3. QED
        BY <4>1, <4>2
    <3>2. l \in UpdateLocals /\ ~l.cleaned
      BY <1>2, <3>1 DEF UpdateLocals
    <3>3. qpc' = "next" /\ q' = l /\ UNCHANGED <<posted, app, begun, uncertain, qanswer>>
      BY <2>1 DEF ReadDetail, ReadWorks
    <3> HIDE DEF l
    <3>4. QED
      BY <1>4, <3>2, <3>3
  <2>2. QED
    BY <1>3, <1>7, <2>1 DEF Commit
<1>8. CASE NextField
  <2>1. CASE q.field < ReceiptFields /\ qpc' = "edit" /\ q' = [q EXCEPT !.field = @ + 1]
    <3>1. q.field + 1 \in Fields
      BY <1>2, <2>1, ReceiptFieldsAssumption DEF UpdateLocals, Fields
    <3>2. ASSUME NEW n \in Fields PROVE [q EXCEPT !.field = n] \in UpdateLocals /\ ~[q EXCEPT !.field = n].cleaned
      BY <1>2 DEF UpdateLocals
    <3>3. q' = [q EXCEPT !.field = q.field + 1]
      BY <2>1, Zenon
    <3>4. q' \in UpdateLocals /\ ~q'.cleaned
      BY <3>1, <3>2, <3>3, Zenon
    <3>5. QED
      BY <1>4, <1>8, <2>1, <3>4 DEF NextField
  <2>2. CASE qpc' = "final" /\ UNCHANGED q
    BY <1>2, <1>4, <1>8, <2>2 DEF NextField
  <2>3. QED
    BY <1>8, <2>1, <2>2 DEF NextField
<1>9. CASE FinalReading
  <2>1. CASE app.value = AllFields("new") /\ ReadDetail("close", q)
    <3>1. OthersHold("new")
      BY <2>1 DEF OthersHold, AllFields
    <3>2. QED
      BY <1>2, <1>4, <2>1, <3>1 DEF ReadDetail, ReadWorks
  <2>2. QED
    BY <1>3, <1>9, <2>1 DEF FinalReading
<1>10. QED
  BY <1>5, <1>6, <1>7, <1>8, <1>9

(* The detail is closed, the list is read. *)
LEMMA UpdateCloses ==
  ASSUME UpdateKnown, CloseDetail \/ ProveList
  PROVE  UpdateKnown'
<1>1. qpc \in {"close", "closing", "list"} /\ qpc \in UpdateActive
  BY DEF CloseDetail, ProveList, UpdateActive, UpdatePlaces
<1>2. /\ posted = {} /\ qanswer = << >> /\ ~q.cleaned
      /\ q \in UpdateLocals /\ app \in ReceiptApp /\ begun \in BOOLEAN /\ uncertain \in BOOLEAN
  BY <1>1, UpdateQuiet
<1>3. OthersHold("new")
  BY <1>1 DEF UpdateKnown, EditKnown
<1>4. CASE ReadDetailFails
  BY <1>1, <1>4, UpdateReadingFails
<1>5. CASE Acts(Press, [q EXCEPT !.closing = TRUE], "closing")
  <2> DEFINE l == [q EXCEPT !.closing = TRUE]
  <2>1. Press \in DetailActs
    BY DEF Select, Press, DetailActs
  <2>2. l \in UpdateLocals /\ ~l.cleaned
    BY <1>2 DEF UpdateLocals
  <2>3. Acts(Press, l, "closing")
    BY <1>5
  <2> HIDE DEF l
  <2>4. CASE /\ Takes(Press) /\ app' = Effect(Press) /\ posted' = {} /\ begun' = TRUE
             /\ qpc' = "closing" /\ q' = l /\ UNCHANGED <<uncertain, qanswer>>
    <3>1. app' \in ReceiptApp /\ app'.users = app.users /\ app'.value = app.value
      BY <2>1, <2>4, UpdateEffect DEF UpdateKnown
    <3>2. QED
      BY <1>2, <1>3, <2>2, <2>4, <3>1, UpdateMoves DEF UpdatePlaces, BeforeEdits
  <2>5. QED
    BY <1>1, <2>1, <2>2, <2>3, <2>4, UpdateActs
<1>6. CASE ReadDetail("list", q)
  BY <1>2, <1>3, <1>6, UpdateMoves DEF ReadDetail, ReadWorks, UpdatePlaces, BeforeEdits
<1>7. CASE /\ ReadWorks /\ UNCHANGED <<begun, uncertain, q>>
           /\ \E verified \in BOOLEAN: QtAnswers(verified, FALSE, "none")
  BY <1>1, <1>2, <1>3, <1>7, UpdateAnswered DEF ReadWorks
<1>8. QED
  BY <1>4, <1>5, <1>6, <1>7 DEF CloseDetail, ProveList

(* The failure: nothing is taken back while an action may still come. *)
LEMMA UpdateCatches ==
  ASSUME UpdateKnown, Catch
  PROVE  UpdateKnown'
<1>1. /\ qpc = "catch" /\ qanswer = << >> /\ ~q.cleaned /\ UNCHANGED <<posted, app, begun, qanswer>>
      /\ q \in UpdateLocals /\ app \in ReceiptApp /\ begun \in BOOLEAN /\ uncertain \in BOOLEAN
  BY DEF Catch, UpdateKnown, UpdateTyped, EditKnown
<1>2. uncertain' \in BOOLEAN /\ (uncertain => uncertain')
  BY <1>1 DEF Catch, Uncertain, UpdateLocals
<1>3. CASE ~Uncertain /\ q.edits # << >> /\ qpc' = "undo" /\ q' = [q EXCEPT !.complete = TRUE]
  <2>1. posted = {}
    BY <1>1, <1>3 DEF Uncertain, UpdateKnown, EditSent
  <2>2. q' \in UpdateLocals /\ ~q'.cleaned
    BY <1>1, <1>3 DEF UpdateLocals
  <2>3. QED
    BY <1>1, <1>2, <1>3, <2>1, <2>2, UpdateMoves DEF UpdatePlaces, BeforeEdits, Editing
<1>4. CASE qpc' = "finish" /\ UNCHANGED q
  <2>1. UpdateTyped' /\ UserWords'
    BY <1>1, <1>2, <1>4 DEF UpdateKnown, UpdateTyped, UserWords, UpdatePlaces
  <2>2. EditSent'
    BY <1>1, <1>2, <1>4 DEF UpdateKnown, EditSent
  <2>3. EditKnown'
    BY <1>1, <1>4 DEF UpdateKnown, EditKnown, OthersHold, BeforeEdits
  <2>4. UpdateAnswerIsTrue'
    BY <1>1 DEF UpdateKnown, UpdateAnswerIsTrue
  <2>5. QED
    BY <1>1, <1>4, <2>1, <2>2, <2>3, <2>4 DEF UpdateKnown
<1>5. QED
  BY <1>3, <1>4 DEF Catch

(* The edits are taken back, the last first. *)
LEMMA UpdateUndoes ==
  ASSUME UpdateKnown, Undo \/ SendUndo \/ Undone \/ AllUndone
  PROVE  UpdateKnown'
<1>1. qpc \in {"undo", "undosend", "undone"} /\ qpc \in UpdateActive
  BY DEF Undo, SendUndo, Undone, AllUndone, Editing, UpdateActive, UpdatePlaces
<1>2. /\ posted = {} /\ qanswer = << >> /\ ~q.cleaned
      /\ q \in UpdateLocals /\ app \in ReceiptApp /\ begun \in BOOLEAN /\ uncertain \in BOOLEAN
  BY <1>1, UpdateQuiet
<1>3. CASE UndoReadFails
  BY <1>1, <1>3, UpdateReadingFails
<1>4. q.edits \in Seq(Fields)
  BY <1>2 DEF UpdateLocals
<1>5. ASSUME NEW next \in {"undo", "undosend", "cleanup", "finish"}, NEW l \in UpdateLocals, ~l.cleaned,
             qpc' = next, q' = l, UNCHANGED <<posted, app, begun, uncertain, qanswer>>,
             next = "cleanup" => OthersHold("old"),
             next = "undosend" => l.edits # << >> /\ l.work[Last(l.edits)] = "new"
      PROVE  UpdateKnown'
  BY <1>2, <1>5, UpdateMoves DEF UpdatePlaces, BeforeEdits, Editing
<1>6. ASSUME q.edits # << >>, NEW complete \in BOOLEAN, NEW lost \in BOOLEAN
      PROVE  LET l == [q EXCEPT !.edits = Front(q.edits), !.complete = complete, !.lost = lost] IN
             l \in UpdateLocals /\ ~l.cleaned
  BY <1>2, <1>4, <1>6, EditsParts DEF UpdateLocals
<1>7. CASE Undo
  <2> DEFINE f == Last(q.edits)
             live == app.value[f]
             rest == [q EXCEPT !.edits = Front(@)]
  <2>1. q.edits # << >> /\ f \in Fields
    BY <1>4, <1>7, EditsParts DEF Undo
  <2>2. rest = [q EXCEPT !.edits = Front(q.edits), !.complete = q.complete, !.lost = q.lost]
    BY <1>2 DEF UpdateLocals
  <2>3. q.complete \in BOOLEAN /\ q.lost \in BOOLEAN
    BY <1>2 DEF UpdateLocals
  <2>4. rest \in UpdateLocals /\ ~rest.cleaned
    BY <1>6, <2>1, <2>2, <2>3
  <2>5. CASE ReadDetail("undo", rest)
    <3>1. qpc' = "undo" /\ q' = rest /\ UNCHANGED <<posted, app, begun, uncertain, qanswer>>
      BY <2>5 DEF ReadDetail, ReadWorks
    <3> HIDE DEF rest
    <3>2. QED
      BY <1>5, <2>4, <3>1
  <2>6. CASE ReadDetail("undo", [rest EXCEPT !.complete = FALSE, !.lost = TRUE])
    <3> DEFINE l == [rest EXCEPT !.complete = FALSE, !.lost = TRUE]
    <3>1. qpc' = "undo" /\ q' = l /\ UNCHANGED <<posted, app, begun, uncertain, qanswer>>
      BY <2>6 DEF ReadDetail, ReadWorks
    <3> HIDE DEF rest
    <3>2. l \in UpdateLocals /\ ~l.cleaned
      BY <2>4 DEF UpdateLocals
    <3> HIDE DEF l
    <3>3. QED
      BY <1>5, <3>1, <3>2
  <2>7. CASE /\ live # "old" /\ ~Keeps(live)
             /\ ReadDetail("undosend", [q EXCEPT !.work = [AllFields("old") EXCEPT ![f] = live]])
    <3> DEFINE w == [AllFields("old") EXCEPT ![f] = live]
               l == [q EXCEPT !.work = w]
    <3>1. live = "new"
      BY <2>7 DEF Keeps
    <3>2. w \in [Fields -> {"old", "new"}] /\ w[f] = "new"
      BY <2>1, <3>1 DEF AllFields
    <3>3. qpc' = "undosend" /\ q' = l /\ UNCHANGED <<posted, app, begun, uncertain, qanswer>>
      BY <2>7 DEF ReadDetail, ReadWorks
    <3> HIDE DEF w
    <3>4. /\ l \in UpdateLocals /\ ~l.cleaned /\ l.edits = q.edits /\ l.work = w
      BY <1>2, <3>2 DEF UpdateLocals
    <3> HIDE DEF l
    <3>5. QED
      BY <1>5, <2>1, <3>2, <3>3, <3>4
  <2>8. QED
    BY <1>3, <1>7, <2>5, <2>6, <2>7 DEF Undo
<1>8. CASE SendUndo
  <2> DEFINE f == Last(q.edits)
             act == Set(f, q.work[f], "old")
  <2>1. q.edits # << >> /\ f \in Fields /\ q.work[f] = "new"
    BY <1>4, <1>8, EditsParts DEF SendUndo, UpdateKnown, EditKnown
  <2>2. act \in SetActs
    BY <2>1 DEF Set, Select, SetActs
  <2>3. PICK r \in Replies :
          /\ RequestAcknowledged(act, Takes(act), Effect(act), r) /\ begun' = Begun(r)
          /\ IF r.ok THEN qpc' = "undone" /\ UNCHANGED <<uncertain, q, qanswer>>
             ELSE StopsUndo(Doubtful(r))
    BY <1>8 DEF SendUndo
  <2> HIDE DEF act, f
  <2>4. /\ r.ok \in BOOLEAN /\ r.thrown \in BOOLEAN /\ r.attempted \in BOOLEAN /\ r.unknown \in BOOLEAN
        /\ r.ok => Takes(act) /\ app' = Effect(act) /\ posted' = {} /\ begun'
        /\ begun' \in BOOLEAN
    BY <1>1, <2>2, <2>3, UpdateSends
  <2>5. CASE r.ok
    <3>1. qpc' = "undone" /\ UNCHANGED <<uncertain, q, qanswer>> /\ begun' = TRUE
      BY <2>3, <2>4, <2>5
    <3>2. QED
      BY <1>1, <1>2, <2>1, <2>2, <2>4, <2>5, <3>1, UpdateWrites
  <2>6. CASE ~r.ok
    <3>1. StopsUndo(Doubtful(r))
      BY <2>3, <2>6
    <3>2. Doubtful(r) \in BOOLEAN /\ (r.unknown => Doubtful(r))
      BY <2>4 DEF Doubtful
    <3>3. /\ qpc' = "finish" /\ q' = [q EXCEPT !.complete = FALSE]
          /\ uncertain' = (uncertain \/ Doubtful(r)) /\ UNCHANGED qanswer
      BY <3>1 DEF StopsUndo
    <3>4. q' \in UpdateLocals /\ ~q'.cleaned
      BY <1>2, <3>3 DEF UpdateLocals
    <3>5. uncertain' \in BOOLEAN /\ (r.unknown => uncertain')
      BY <1>2, <3>2, <3>3
    <3>6. QED
      BY <1>1, <2>2, <2>3, <3>3, <3>4, <3>5, UpdateFails
  <2>7. QED
    BY <2>4, <2>5, <2>6
<1>9. CASE Undone
  <2> DEFINE verified == app.value[Last(q.edits)] = "old"
             l == [q EXCEPT !.edits = Front(@), !.complete = @ /\ verified, !.lost = @ \/ ~verified]
  <2>1. q.edits # << >>
    BY <1>9 DEF Undone, UpdateKnown, EditKnown
  <2>2. verified \in BOOLEAN
    OBVIOUS
  <2> HIDE DEF verified
  <2>3. (q.complete /\ verified) \in BOOLEAN /\ (q.lost \/ ~verified) \in BOOLEAN
    BY <1>2, <2>2 DEF UpdateLocals
  <2>4. l = [q EXCEPT !.edits = Front(q.edits), !.complete = q.complete /\ verified, !.lost = q.lost \/ ~verified]
    BY Zenon
  <2>5. l \in UpdateLocals /\ ~l.cleaned
    BY <1>6, <2>1, <2>3, <2>4, Zenon
  <2>6. CASE ReadDetail("undo", l)
    <3>1. qpc' = "undo" /\ q' = l /\ UNCHANGED <<posted, app, begun, uncertain, qanswer>>
      BY <2>6 DEF ReadDetail, ReadWorks
    <3> HIDE DEF l
    <3>2. QED
      BY <1>5, <2>5, <3>1
  <2>7. QED
    BY <1>3, <1>9, <2>6 DEF Undone, verified
<1>10. CASE AllUndone
  <2> DEFINE all == app.value = AllFields("old")
             l == [q EXCEPT !.complete = @ /\ all]
  <2>1. all \in BOOLEAN /\ (all => OthersHold("old"))
    BY DEF OthersHold, AllFields
  <2>2. CASE ReadDetail(IF q.complete /\ all THEN "cleanup" ELSE "finish", l)
    <3>1. qpc' = (IF q.complete /\ all THEN "cleanup" ELSE "finish") /\ q' = l
          /\ UNCHANGED <<posted, app, begun, uncertain, qanswer>>
      BY <2>2 DEF ReadDetail, ReadWorks
    <3> HIDE DEF all
    <3>2. (q.complete /\ all) \in BOOLEAN
      BY <1>2, <2>1 DEF UpdateLocals
    <3>3. ASSUME NEW b \in BOOLEAN PROVE [q EXCEPT !.complete = b] \in UpdateLocals /\ ~[q EXCEPT !.complete = b].cleaned
      BY <1>2 DEF UpdateLocals
    <3>4. l = [q EXCEPT !.complete = q.complete /\ all]
      BY Zenon
    <3>5. l \in UpdateLocals /\ ~l.cleaned
      BY <3>2, <3>3, <3>4, Zenon
    <3> HIDE DEF l
    <3>6. CASE q.complete /\ all
      BY <1>5, <2>1, <3>1, <3>5, <3>6
    <3>7. CASE ~(q.complete /\ all)
      BY <1>5, <3>1, <3>5, <3>7
    <3>8. QED
      BY <3>6, <3>7
  <2>3. QED
    BY <1>3, <1>10, <2>2 DEF AllUndone
<1>11. QED
  BY <1>7, <1>8, <1>9, <1>10

(* The detail is closed again, and the failure answered. *)
LEMMA UpdateFinishes ==
  ASSUME UpdateKnown, Cleanup \/ Finish
  PROVE  UpdateKnown'
<1>1. CASE Cleanup
  <2>1. qpc \in {"cleanup", "cleaning"} /\ qpc \in UpdateActive
    BY <1>1 DEF Cleanup, UpdateActive, UpdatePlaces
  <2>2. /\ posted = {} /\ qanswer = << >> /\ ~q.cleaned
        /\ q \in UpdateLocals /\ app \in ReceiptApp /\ begun \in BOOLEAN /\ uncertain \in BOOLEAN
    BY <2>1, UpdateQuiet
  <2>3. OthersHold("old")
    BY <2>1 DEF UpdateKnown, EditKnown
  <2>4. ASSUME UNCHANGED <<posted, app, begun, uncertain, qanswer>>, qpc' = "finish",
               q' = q \/ q' = [q EXCEPT !.cleaned = TRUE]
        PROVE  UpdateKnown'
    <3>1. q' \in UpdateLocals
      BY <2>2, <2>4 DEF UpdateLocals
    <3>2. QED
      BY <2>2, <2>3, <2>4, <3>1, UpdateMoves DEF UpdatePlaces, BeforeEdits
  <2>5. ASSUME NEW r \in Replies,
               RequestAcknowledged(Press, Takes(Press), Effect(Press), r), begun' = Begun(r),
               qpc' = (IF r.ok THEN "cleaning" ELSE "finish"), UNCHANGED <<q, uncertain, qanswer>>
        PROVE  UpdateKnown'
    <3>1. Press \in DetailActs /\ Press \notin SetActs
      BY DEF Select, Press, DetailActs, SetActs
    <3>2. /\ r.ok \in BOOLEAN
          /\ r.ok => Takes(Press) /\ app' = Effect(Press) /\ posted' = {} /\ begun'
          /\ begun' \in BOOLEAN
      BY <2>1, <2>5, <3>1, UpdateSends
    <3>3. CASE r.ok
      <4>1. app' \in ReceiptApp /\ app'.users = app.users /\ app'.value = app.value
        BY <3>1, <3>2, <3>3, UpdateEffect DEF UpdateKnown
      <4>2. begun' = TRUE /\ posted' = {} /\ qpc' = "cleaning"
        BY <2>5, <3>2, <3>3
      <4>3. QED
        BY <2>2, <2>3, <2>5, <4>1, <4>2, UpdateMoves DEF UpdatePlaces, BeforeEdits
    <3>4. CASE ~r.ok
      <4>1. qpc' = "finish"
        BY <2>5, <3>4
      <4>2. QED
        BY <2>1, <2>2, <2>5, <3>1, <4>1, UpdateFails
    <3>5. QED
      BY <3>2, <3>3, <3>4
  <2>6. CASE \E r \in Replies: ReadingThrows(r) /\ qpc' = "finish" /\ UNCHANGED <<begun, q, uncertain, qanswer>>
    BY <2>4, <2>6, ReadingQuiet
  <2>7. CASE /\ qpc = "cleaning" /\ qpc' = "finish" /\ UNCHANGED <<begun, uncertain, qanswer>>
             /\ \/ \E r \in Replies: ReadingThrows(r) /\ UNCHANGED q
                \/ ReadWorks /\ UNCHANGED q
                \/ ~app.detail /\ ReadWorks /\ q' = [q EXCEPT !.cleaned = TRUE]
    BY <2>4, <2>7, ReadingQuiet DEF ReadWorks
  <2>8. QED
    BY <1>1, <2>5, <2>6, <2>7 DEF Cleanup
<1>2. CASE Finish
  <2> DEFINE open == uncertain /\ begun
             state == IF q.cleaned THEN "restored" ELSE IF begun THEN "unknown" ELSE "unchanged"
  <2>1. /\ qpc = "finish" /\ QtAnswers(FALSE, open, state) /\ UNCHANGED <<app, posted, begun, uncertain, q>>
    BY <1>2 DEF Finish
  <2>2. state \in {"restored", "unchanged"} => OthersHold("old") /\ posted = {}
    BY DEF UpdateKnown, EditSent, EditKnown
  <2>3. ~open => \A act \in posted : act.kind # "set"
    BY DEF UpdateKnown, EditSent
  <2> HIDE DEF open, state
  <2>4. QED
    BY <2>1, <2>2, <2>3, UpdateAnswered
<1>3. QED
  BY <1>1, <1>2

(* What comes of itself: an action that is taken late, and the user. *)
LEMMA UpdateComes ==
  ASSUME UpdateKnown, LateUpdate \/ UserChangesReceipt \/ ChannelCloses
  PROVE  UpdateKnown'
<1>1. CASE LateUpdate
  <2>1. PICK act \in posted :
          /\ posted' = posted \ {act} /\ app' = IF Takes(act) THEN Effect(act) ELSE app
          /\ UNCHANGED <<begun, uncertain, qpc, q, qanswer>>
    BY <1>1 DEF LateUpdate
  <2>2. /\ qpc \in {"catch", "finish", "answered"} /\ begun /\ ~q.cleaned
        /\ act \in SetActs \cup DetailActs
    BY <2>1 DEF UpdateKnown, UpdateTyped, EditSent
  <2>3. app' \in ReceiptApp /\ UserWords'
    <3>1. CASE Takes(act)
      BY <2>1, <2>2, <3>1, UpdateEffect DEF UpdateKnown, UserWords
    <3>2. CASE ~Takes(act)
      BY <2>1, <3>2 DEF UpdateKnown, UpdateTyped, UserWords
    <3>3. QED
      BY <3>1, <3>2
  <2>4. UpdateTyped'
    BY <2>1, <2>3 DEF UpdateKnown, UpdateTyped
  <2>5. EditSent' /\ EditKnown'
    BY <2>1, <2>2 DEF UpdateKnown, EditSent, EditKnown, BeforeEdits
  <2>6. \A f \in app'.users : app'.value[f] = "foreign"
    BY <2>3 DEF UserWords, ReceiptApp
  <2>7. qanswer # << >> =>
          /\ ~Head(qanswer).ok /\ Head(qanswer).state \notin {"restored", "unchanged"}
          /\ ~Head(qanswer).unknown => \A a \in posted' : a.kind # "set"
    BY <2>1 DEF UpdateKnown, UpdateAnswerIsTrue
  <2>8. UpdateAnswerIsTrue'
    BY <2>1, <2>6, <2>7 DEF UpdateAnswerIsTrue
  <2>9. QED
    BY <2>1, <2>3, <2>4, <2>5, <2>7, <2>8 DEF UpdateKnown
<1>2. CASE UserChangesReceipt
  <2>1. /\ qanswer = << >> /\ app \in ReceiptApp /\ UNCHANGED <<posted, begun, uncertain, qpc, q, qanswer>>
    BY <1>2 DEF UserChangesReceipt, UpdateKnown, UpdateTyped
  <2>2. /\ app' \in ReceiptApp /\ UserWords'
        /\ OthersHold("old") => OthersHold("old")'
        /\ OthersHold("new") => OthersHold("new")'
    <3>1. ASSUME NEW f \in Fields \ app.users,
                 app' = [app EXCEPT !.value[f] = "foreign", !.users = @ \cup {f}]
          PROVE  /\ app' \in ReceiptApp /\ UserWords'
                 /\ OthersHold("old") => OthersHold("old")'
                 /\ OthersHold("new") => OthersHold("new")'
      <4> DEFINE v == [app.value EXCEPT ![f] = "foreign"]
                 u == app.users \cup {f}
      <4>1. v \in [Fields -> {"old", "new", "foreign"}] /\ \A g \in Fields : v[g] = IF g = f THEN "foreign" ELSE app.value[g]
        BY <2>1 DEF ReceiptApp
      <4>2. u \in SUBSET Fields
        BY <2>1 DEF ReceiptApp
      <4>3. app' = [app EXCEPT !.value = v, !.users = u]
        BY <2>1, <3>1 DEF ReceiptApp
      <4> HIDE DEF v
      <4>4. app' \in ReceiptApp /\ app'.value = v /\ app'.users = app.users \cup {f}
        BY <2>1, <4>1, <4>2, <4>3 DEF ReceiptApp
      <4>5. UserWords'
        BY <4>1, <4>4 DEF UpdateKnown, UserWords
      <4>6. QED
        BY <4>1, <4>4, <4>5 DEF OthersHold
    <3>2. CASE app' = [app EXCEPT !.detail = FALSE]
      <4>1. app' \in ReceiptApp /\ app'.value = app.value /\ app'.users = app.users
        BY <2>1, <3>2 DEF ReceiptApp
      <4>2. QED
        BY <4>1 DEF UpdateKnown, UserWords, OthersHold
    <3>3. QED
      BY <1>2, <3>1, <3>2 DEF UserChangesReceipt
  <2>3. UpdateTyped' /\ EditSent'
    BY <2>1, <2>2 DEF UpdateKnown, UpdateTyped, EditSent
  <2>4. EditKnown'
    BY <2>1, <2>2 DEF UpdateKnown, EditKnown
  <2>5. \A f \in app'.users : app'.value[f] = "foreign"
    BY <2>2 DEF UserWords, ReceiptApp
  <2>6. QED
    BY <2>1, <2>2, <2>3, <2>4, <2>5 DEF UpdateKnown, UpdateAnswerIsTrue
<1>3. CASE ChannelCloses
  <2>1. UNCHANGED <<posted, app, begun, uncertain, qpc, q, qanswer>>
    BY <1>3 DEF ChannelCloses
  <2>2. UpdateTyped' /\ UserWords' /\ EditSent'
    BY <2>1 DEF UpdateKnown, UpdateTyped, UserWords, EditSent
  <2>3. EditKnown' /\ UpdateAnswerIsTrue'
    BY <2>1 DEF UpdateKnown, EditKnown, OthersHold, UpdateAnswerIsTrue
  <2>4. QED
    BY <2>1, <2>2, <2>3 DEF UpdateKnown
<1>4. QED
  BY <1>1, <1>2, <1>3

(* It holds when the operation begins. *)
LEMMA UpdateBegins ==
  ASSUME UpdateInit
  PROVE  UpdateKnown
<1>1. PICK detail \in BOOLEAN :
        SessionInit("prepare",
          [detail |-> detail, value |-> AllFields("old"), users |-> {}],
          [field |-> 1, work |-> AllFields("old"), edits |-> << >>, closing |-> FALSE,
           complete |-> FALSE, lost |-> FALSE, cleaned |-> FALSE])
  BY DEF UpdateInit
<1>2. 1 \in Fields /\ << >> \in Seq(Fields) /\ AllFields("old") \in [Fields -> {"old", "new"}]
  BY ReceiptFieldsAssumption DEF Fields, AllFields
<1>3. /\ app = [detail |-> detail, value |-> AllFields("old"), users |-> {}]
      /\ q = [field |-> 1, work |-> AllFields("old"), edits |-> << >>, closing |-> FALSE,
               complete |-> FALSE, lost |-> FALSE, cleaned |-> FALSE]
      /\ posted = {} /\ begun = FALSE /\ uncertain = FALSE /\ qpc = "prepare" /\ qanswer = << >>
  BY <1>1 DEF SessionInit
<1>4. app \in ReceiptApp /\ UserWords /\ OthersHold("old") /\ app.users = {}
  BY <1>3 DEF ReceiptApp, UserWords, OthersHold, AllFields
<1>5. q \in UpdateLocals /\ ~q.cleaned
  <2>1. ASSUME NEW n \in Fields, NEW w \in [Fields -> {"old", "new"}], NEW no \in BOOLEAN, NEW e \in Seq(Fields)
        PROVE  [field |-> n, work |-> w, edits |-> e, closing |-> no,
                complete |-> no, lost |-> no, cleaned |-> no] \in UpdateLocals
    BY <2>1 DEF UpdateLocals
  <2>2. FALSE \in BOOLEAN
    OBVIOUS
  <2>3. q \in UpdateLocals
    BY <1>2, <1>3, <2>1, <2>2, Zenon
  <2>4. QED
    BY <1>3, <2>3
<1>6. UpdateTyped /\ EditSent /\ EditKnown
  BY <1>3, <1>4, <1>5 DEF UpdateTyped, EditSent, EditKnown, UpdatePlaces, BeforeEdits
<1>7. QED
  BY <1>3, <1>4, <1>6 DEF UpdateKnown, UpdateAnswerIsTrue

(* Every step keeps it. *)
LEMMA UpdateKeeps ==
  ASSUME UpdateKnown, UpdateNext
  PROVE  UpdateKnown'
BY UpdateBefore, UpdateEdits, UpdateCloses, UpdateCatches, UpdateUndoes, UpdateFinishes, UpdateComes DEF UpdateNext

-----------------------------------------------------------------------------
(* The classifications of a receipt.                                       *)

(* What a kind is kept as, the actions, the program, the operation and its *)
(* places.                                                                 *)
Marks == {"old", "new", "foreign"}
ButtonActs == [name: {"open", "save", "cancel"}, kind: Classes, from: {""}, to: {""}]
RowActs == [name: {"select", "detail"}, kind: {NoDialog}, from: {""}, to: {""}]
CheckActs == [name: {"check"}, kind: Classes, from: Marks, to: Marks]
ClassActs == ButtonActs \cup RowActs \cup CheckActs
ClassApp == [detail: BOOLEAN, dialog: 0 .. ClassKinds, shown: Marks, saved: [Classes -> Marks], users: SUBSET Classes]
ClassLocals ==
  [want: [Classes -> {"old", "new"}], before: [Classes -> Marks], kind: 1 .. ClassKinds + 1, todo: Seq(Classes),
   mode: {"apply", "prove", "abandon", "undo", "undoprove"}, modal: 0 .. ClassKinds, verified: BOOLEAN,
   closeStarted: BOOLEAN, staged: BOOLEAN, expected: Marks, prepared: BOOLEAN, finishing: BOOLEAN, restored: BOOLEAN]
InDialog == {"identify", "grid", "set", "checked", "close", "closing"}
WithKind == {"prepare", "selected", "open", "present", "closed"} \cup InDialog
ClassPlaces == WithKind \cup {"finish", "finished", "caught", "rollback", "fails", "answered"}

(* Their types.                                                            *)
ClassTyped ==
  /\ app \in ClassApp /\ q \in ClassLocals /\ posted \subseteq ClassActs
  /\ begun \in BOOLEAN /\ uncertain \in BOOLEAN /\ qpc \in ClassPlaces

(* The kinds the user has had no hand in. *)
Untouched == Classes \ app.users

(* An action may still come only after a failure that says so; a save is   *)
(* one of the kind in hand, a check one to what is wanted or was there.    *)
ClassSent ==
  /\ posted # {} => qpc \in {"caught", "rollback", "fails", "answered"} /\ uncertain /\ begun /\ ~q.restored
  /\ \A a \in posted : a.name = "save" =>
       /\ a.kind = q.kind
       /\ \/ q.mode = "apply" /\ q.closeStarted /\ q.modal # NoDialog
          \/ q.mode = "undo" /\ a.kind <= Len(q.todo)
  /\ \A a \in posted : a.name = "check" /\ a.kind \in Untouched => a.to \in {"old", q.want[a.kind]}

(* What is shown and what is remembered of an untouched kind. *)
ClassFair ==
  /\ \A k \in Untouched : app.saved[k] \in {"old", q.want[k]}
  /\ app.dialog \in Untouched => app.shown \in {"old", q.want[app.dialog]}
  /\ \A k \in Untouched : q.before[k] = "old"

(* The kinds that have been saved are those from 1 on, the last first. *)
Countdown ==
  /\ \A i \in 1 .. Len(q.todo) : q.todo[i] = Len(q.todo) + 1 - i
  /\ Len(q.todo) <= ClassKinds
  /\ q.mode = "apply" => Len(q.todo) = q.kind - 1
  /\ q.mode = "prove" => Len(q.todo) = q.kind
  /\ qpc \in WithKind \/ q.modal # NoDialog => q.kind <= ClassKinds
  /\ qpc \in WithKind /\ q.mode \in {"undo", "undoprove"} => Len(q.todo) = q.kind
  /\ qpc \in {"finish", "finished"} => IF q.mode = "undo" THEN q.todo = << >>
                                       ELSE q.mode = "apply" /\ q.kind = ClassKinds + 1

(* Those after them are as they were, except the one whose dialog may just *)
(* have been saved. *)
StillOld ==
  \A k \in Untouched : k > Len(q.todo) =>
    \/ app.saved[k] = "old"
    \/ k = q.kind /\ q.mode = "apply" /\ q.closeStarted /\ (q.modal # NoDialog \/ qpc = "closed")

(* Those before the one in hand have been proved. *)
ProvedBefore ==
  q.mode \in {"apply", "prove"} => \A k \in Untouched : k < q.kind => app.saved[k] = q.want[k]

(* What the dialog of the kind in hand has shown. *)
DialogKnown ==
  /\ qpc \in InDialog => q.modal # NoDialog
  /\ qpc \in {"present", "closed"} => q.modal = NoDialog
  /\ qpc \in {"set", "checked"} => q.mode \in {"apply", "undo"}
  /\ qpc \in {"identify", "grid", "set", "checked"} => ~q.closeStarted
  /\ qpc \in {"present", "identify"} /\ q.kind \in Untouched => app.dialog = q.kind /\ app.shown = app.saved[q.kind]
  /\ qpc = "grid" /\ q.kind \in Untouched => q.expected = app.saved[q.kind]
  /\ qpc \in {"close", "closing", "closed"} /\ q.kind \in Untouched =>
       /\ q.mode = "prove" => app.saved[q.kind] = q.want[q.kind]
       /\ q.mode = "undoprove" => app.saved[q.kind] = "old"

(* What has not begun has changed nothing, what is restored neither. *)
NothingDone == \A k \in Untouched : app.saved[k] = "old"
ClassDone ==
  /\ ~begun \/ q.restored => NothingDone
  /\ q.restored => qpc \in {"fails", "answered"}

(* The inductive invariant of the classifications.                         *)
ClassKnown ==
  /\ ClassTyped
  /\ ClassSent
  /\ ClassFair
  /\ Countdown
  /\ StillOld
  /\ ProvedBefore
  /\ DialogKnown
  /\ ClassDone
  /\ qanswer # << >> <=> qpc = "answered"
  /\ qanswer # << >> /\ Head(qanswer).ok => posted = {}
  /\ ClassifyAnswerIsTrue

(* What an action makes of the program, if it is taken. *)
LEMMA ClassEffect ==
  ASSUME ClassTyped, ClassFair, NEW act \in ClassActs, Possible(act),
         act.name = "check" /\ act.kind \in Untouched => act.to \in {"old", q.want[act.kind]}
  PROVE  /\ Outcome(act) \in ClassApp /\ Outcome(act).users = app.users
         /\ act.name # "save" => Outcome(act).saved = app.saved
         /\ act.name = "save" => \A k \in Classes : k # act.kind => Outcome(act).saved[k] = app.saved[k]
         /\ act.name \in {"select", "detail"} => Outcome(act).dialog = app.dialog /\ Outcome(act).shown = app.shown
         /\ act.name = "open" => Outcome(act).dialog = act.kind /\ Outcome(act).shown = app.saved[act.kind]
         /\ \A k \in Untouched : Outcome(act).saved[k] \in {"old", q.want[k]}
         /\ Outcome(act).dialog \in Untouched => Outcome(act).shown \in {"old", q.want[Outcome(act).dialog]}
<1>1. /\ app \in ClassApp /\ NoDialog \notin Classes /\ NoDialog \in 0 .. ClassKinds
      /\ Classes \subseteq 0 .. ClassKinds
      /\ \A k \in Untouched : app.saved[k] \in {"old", q.want[k]}
      /\ app.dialog \in Untouched => app.shown \in {"old", q.want[app.dialog]}
      /\ Untouched \subseteq Classes
  BY ClassKindsAssumption DEF ClassTyped, ClassFair, Classes, NoDialog, Untouched
<1>2. CASE act.name \in {"select", "detail"}
  <2>1. Outcome(act) = [app EXCEPT !.detail = TRUE] \/ Outcome(act) = [app EXCEPT !.detail = FALSE]
    BY <1>2 DEF Outcome
  <2>2. /\ Outcome(act) \in ClassApp /\ Outcome(act).users = app.users /\ Outcome(act).saved = app.saved
        /\ Outcome(act).dialog = app.dialog /\ Outcome(act).shown = app.shown
    BY <1>1, <2>1 DEF ClassApp
  <2>3. QED
    BY <1>1, <1>2, <2>2
<1>3. CASE act.name = "open"
  <2>1. act.kind \in Classes
    BY <1>3 DEF ClassActs, ButtonActs, RowActs, CheckActs
  <2>2. Outcome(act) = [app EXCEPT !.dialog = act.kind, !.shown = app.saved[act.kind]]
    BY <1>3 DEF Outcome
  <2>3. /\ Outcome(act) \in ClassApp /\ Outcome(act).users = app.users /\ Outcome(act).saved = app.saved
        /\ Outcome(act).dialog = act.kind /\ Outcome(act).shown = app.saved[act.kind]
    BY <1>1, <2>1, <2>2 DEF ClassApp
  <2>4. QED
    BY <1>1, <1>3, <2>3
<1>4. CASE act.name = "check"
  <2>1. act.kind \in Classes /\ act.to \in Marks
    BY <1>4 DEF ClassActs, ButtonActs, RowActs, CheckActs
  <2>2. Outcome(act) = [app EXCEPT !.shown = act.to] /\ app.dialog = act.kind
    BY <1>4 DEF Outcome, Possible
  <2>3. /\ Outcome(act) \in ClassApp /\ Outcome(act).users = app.users /\ Outcome(act).saved = app.saved
        /\ Outcome(act).dialog = act.kind /\ Outcome(act).shown = act.to
    BY <1>1, <2>1, <2>2 DEF ClassApp
  <2>4. QED
    BY <1>1, <1>4, <2>3
<1>5. CASE act.name = "save"
  <2>1. act.kind \in Classes
    BY <1>5 DEF ClassActs, ButtonActs, RowActs, CheckActs
  <2> DEFINE v == [app.saved EXCEPT ![act.kind] = app.shown]
  <2>2. Outcome(act) = [app EXCEPT !.saved[act.kind] = app.shown, !.dialog = NoDialog] /\ app.dialog = act.kind
    BY <1>5 DEF Outcome, Possible
  <2>3. Outcome(act) = [app EXCEPT !.saved = v, !.dialog = NoDialog]
    BY <1>1, <2>2 DEF ClassApp
  <2>4. v \in [Classes -> Marks] /\ \A k \in Classes : v[k] = IF k = act.kind THEN app.shown ELSE app.saved[k]
    BY <1>1, <2>1 DEF ClassApp
  <2> HIDE DEF v
  <2>5. /\ Outcome(act) \in ClassApp /\ Outcome(act).users = app.users /\ Outcome(act).saved = v
        /\ Outcome(act).dialog = NoDialog
    BY <1>1, <2>3, <2>4 DEF ClassApp
  <2>6. \A k \in Untouched : v[k] \in {"old", q.want[k]}
    BY <1>1, <2>2, <2>4
  <2>7. QED
    BY <1>1, <1>5, <2>4, <2>5, <2>6
<1>6. CASE act.name = "cancel"
  <2>1. Outcome(act) = [app EXCEPT !.dialog = NoDialog]
    BY <1>6 DEF Outcome
  <2>2. /\ Outcome(act) \in ClassApp /\ Outcome(act).users = app.users /\ Outcome(act).saved = app.saved
        /\ Outcome(act).dialog = NoDialog
    BY <1>1, <2>1 DEF ClassApp
  <2>3. QED
    BY <1>1, <1>6, <2>2
<1>7. QED
  BY <1>2, <1>3, <1>4, <1>5, <1>6 DEF ClassActs, ButtonActs, RowActs, CheckActs

(* Places where the operation goes on by itself and may fail. *)
ClassActive == ClassPlaces \ {"closed", "caught", "rollback", "fails", "answered"}

(* There nothing may still come. *)
LEMMA ClassQuiet ==
  ASSUME ClassKnown, qpc \in ClassActive \cup {"closed"}
  PROVE  /\ posted = {} /\ qanswer = << >> /\ ~q.restored
         /\ q \in ClassLocals /\ app \in ClassApp /\ begun \in BOOLEAN /\ uncertain \in BOOLEAN
BY DEF ClassKnown, ClassTyped, ClassSent, ClassDone, ClassActive

(* A step after which nothing may still come. *)
LEMMA ClassGoesOn ==
  ASSUME ClassKnown, qanswer = << >>, UNCHANGED qanswer, qpc' # "answered", posted' = {},
         ClassTyped', ClassFair', Countdown', StillOld', ProvedBefore', DialogKnown', ClassDone'
  PROVE  ClassKnown'
<1>1. ClassSent'
  BY DEF ClassSent
<1>2. ClassifyAnswerIsTrue'
  BY DEF ClassFair, Untouched, ClassifyAnswerIsTrue
<1>3. QED
  BY <1>1, <1>2 DEF ClassKnown

(* What is remembered of the operation when a button is pushed. *)
SameClass(m, l) ==
  /\ m.want = l.want /\ m.before = l.before /\ m.kind = l.kind /\ m.todo = l.todo /\ m.mode = l.mode
  /\ m.modal = l.modal /\ m.restored = l.restored

(* A failure that has changed nothing. *)
LEMMA ClassFailed ==
  ASSUME ClassKnown, qpc \in ClassActive, UNCHANGED <<posted, app, begun, qanswer>>,
         q' \in ClassLocals, SameClass(q', q), q'.closeStarted = q.closeStarted,
         qpc' = "caught", uncertain' \in BOOLEAN
  PROVE  ClassKnown'
<1>1. /\ posted = {} /\ qanswer = << >> /\ ~q.restored /\ qpc # "closed"
  BY ClassQuiet DEF ClassActive
<1>2. ClassTyped' /\ ClassFair'
  BY DEF ClassKnown, ClassTyped, ClassFair, SameClass, ClassPlaces, Untouched
<1>3. Countdown'
  BY DEF ClassKnown, Countdown, SameClass, WithKind, InDialog
<1>4. StillOld'
  BY <1>1 DEF ClassKnown, StillOld, SameClass, Untouched
<1>5. ProvedBefore' /\ DialogKnown' /\ ClassDone'
  BY <1>1 DEF ClassKnown, ProvedBefore, DialogKnown, ClassDone, NothingDone, SameClass, Untouched, InDialog
<1>6. QED
  BY <1>1, <1>2, <1>3, <1>4, <1>5, ClassGoesOn

(* Readings that fail, or that find what is not expected. *)
LEMMA ClassReadingFails ==
  ASSUME ClassKnown, qpc \in ClassActive,
         \/ \E doubt \in BOOLEAN : ClassReadFails(doubt)
         \/ \E doubt \in BOOLEAN : ReadWorks /\ ClassRaises(doubt)
         \/ ClassRefutes
  PROVE  ClassKnown'
<1>1. q \in ClassLocals /\ uncertain \in BOOLEAN /\ begun \in BOOLEAN
  BY ClassQuiet
<1>2. ASSUME NEW doubt, doubt \in BOOLEAN, ClassRaises(doubt), UNCHANGED <<posted, app>>
      PROVE  ClassKnown'
  <2>1. qpc' = "caught" /\ uncertain' = (uncertain \/ doubt) /\ UNCHANGED <<begun, q, qanswer>>
    BY <1>2 DEF ClassRaises
  <2>2. uncertain' \in BOOLEAN
    BY <1>1, <1>2, <2>1
  <2>3. SameClass(q', q) /\ q'.closeStarted = q.closeStarted /\ q' \in ClassLocals
    BY <1>1, <2>1 DEF SameClass
  <2>4. QED
    BY <1>2, <2>1, <2>2, <2>3, ClassFailed
<1>3. ASSUME NEW doubt \in BOOLEAN, NEW r \in Replies, ReadingThrows(r), ClassRaises(doubt \/ MarksError(r))
      PROVE  ClassKnown'
  <2>1. UNCHANGED <<posted, app>> /\ r.unknown \in BOOLEAN /\ r.attempted \in BOOLEAN /\ r.thrown \in BOOLEAN
    BY <1>3, ReadingQuiet DEF Replies
  <2>2. MarksError(r) \in BOOLEAN
    BY <1>1, <2>1 DEF MarksError
  <2>3. (doubt \/ MarksError(r)) \in BOOLEAN
    BY <2>2
  <2>4. QED
    BY <1>2, <1>3, <2>1, <2>3
<1>4. ASSUME NEW doubt \in BOOLEAN, ClassReadFails(doubt) PROVE ClassKnown'
  BY <1>2, <1>3, <1>4 DEF ClassReadFails, ReadWorks
<1>5. TRUE \in BOOLEAN
  OBVIOUS
<1>6. QED
  BY <1>2, <1>4, <1>5 DEF ClassRefutes, ReadWorks

(* An action that was sent has had its effect, or has failed. *)
LEMMA ClassSends ==
  ASSUME ClassKnown, qpc \in ClassActive, NEW act \in ClassActs, NEW r \in Replies,
         RequestAcknowledged(act, Possible(act), Outcome(act), r), begun' = Begun(r), UNCHANGED qanswer,
         act.name = "check" /\ act.kind \in Untouched => act.to \in {"old", q.want[act.kind]},
         act.name = "save" => qpc = "close" /\ q.mode \in {"apply", "undo"} /\ act.kind = q.kind,
         ~r.ok => /\ qpc' = "caught" /\ uncertain' = (uncertain \/ MarksError(r))
                  /\ q' \in ClassLocals /\ SameClass(q', q)
                  /\ q'.closeStarted = (q.closeStarted \/ (q'.closeStarted /\ qpc = "close"))
                  /\ act.name = "save" => q'.closeStarted
  PROVE  \/ r.ok /\ Possible(act) /\ app' = Outcome(act) /\ posted' = {} /\ begun' = TRUE
         \/ ~r.ok /\ ClassKnown'
<1>1. /\ posted = {} /\ qanswer = << >> /\ ~q.restored
      /\ q \in ClassLocals /\ app \in ClassApp /\ begun \in BOOLEAN /\ uncertain \in BOOLEAN
  BY ClassQuiet
<1>2. Possible(act) \in BOOLEAN
  BY <1>1 DEF Possible, ClassApp, ClassActs, ButtonActs, RowActs, CheckActs
<1>3. /\ r.ok \in BOOLEAN /\ r.thrown \in BOOLEAN /\ r.attempted \in BOOLEAN /\ r.unknown \in BOOLEAN
      /\ posted' = posted \/ posted' = posted \cup {act}
      /\ app' = app \/ (Possible(act) /\ app' = Outcome(act))
      /\ r.ok => Possible(act) /\ app' = Outcome(act) /\ posted' = posted /\ r.attempted /\ ~r.thrown
      /\ posted' # posted => ~r.ok /\ r.unknown /\ (r.thrown \/ r.attempted)
      /\ app' # app => r.attempted \/ (r.thrown /\ r.unknown)
  BY <1>2, Acknowledged
<1>4. begun' = (begun \/ r.attempted \/ (r.thrown /\ r.unknown))
  BY DEF Begun
<1>5. /\ begun' \in BOOLEAN /\ (begun => begun') /\ (r.attempted => begun')
      /\ (r.thrown /\ r.unknown => begun')
  BY <1>1, <1>3, <1>4
<1>6. CASE r.ok
  BY <1>1, <1>3, <1>5, <1>6
<1>7. CASE ~r.ok
  <2>1. /\ qpc' = "caught" /\ uncertain' = (uncertain \/ MarksError(r))
        /\ q' \in ClassLocals /\ SameClass(q', q)
        /\ q'.closeStarted = (q.closeStarted \/ (q'.closeStarted /\ qpc = "close"))
        /\ act.name = "save" => q'.closeStarted
    BY <1>7
  <2>2. MarksError(r) \in BOOLEAN /\ (r.unknown => MarksError(r))
    BY <1>1, <1>3 DEF MarksError
  <2>3. uncertain' \in BOOLEAN /\ (r.unknown => uncertain')
    BY <1>1, <2>1, <2>2
  <2>4. /\ posted' \subseteq {act} /\ (posted' # {} => uncertain' /\ begun')
        /\ app' # app => begun'
    BY <1>1, <1>3, <1>5, <2>3
  <2>5. /\ app' \in ClassApp /\ app'.users = app.users
        /\ act.name # "save" => app'.saved = app.saved
        /\ \A k \in Classes : k # act.kind => app'.saved[k] = app.saved[k]
        /\ \A k \in Untouched : app'.saved[k] \in {"old", q.want[k]}
        /\ app'.dialog \in Untouched => app'.shown \in {"old", q.want[app'.dialog]}
    <3>1. CASE app' = app
      BY <1>1, <3>1 DEF ClassKnown, ClassFair
    <3>2. CASE Possible(act) /\ app' = Outcome(act)
      BY <3>2, ClassEffect DEF ClassKnown
    <3>3. QED
      BY <1>3, <3>1, <3>2
  <2>6. ClassTyped'
    <3>1. posted' \subseteq ClassActs
      BY <2>4
    <3>2. QED
      BY <1>5, <2>1, <2>3, <2>5, <3>1 DEF ClassTyped, ClassPlaces
  <2>7. ClassFair'
    BY <2>1, <2>5 DEF ClassKnown, ClassFair, SameClass, Untouched
  <2>8. Countdown'
    BY <2>1 DEF ClassKnown, Countdown, SameClass, WithKind, InDialog
  <2>9. q'.mode = q.mode /\ q'.kind = q.kind /\ q'.todo = q.todo /\ q'.modal = q.modal /\ q'.want = q.want
    BY <2>1 DEF SameClass
  <2>10. act.name = "save" => /\ q.modal # NoDialog /\ act.kind = q.kind /\ q'.closeStarted
                              /\ q.mode = "undo" => q.kind <= Len(q.todo)
    <3>1. act.name = "save" => qpc \in WithKind /\ qpc \in InDialog
      BY DEF WithKind, InDialog
    <3>2. Len(q.todo) \in Nat /\ q.kind \in Nat
      BY <1>1 DEF ClassLocals
    <3>3. QED
      BY <2>1, <3>1, <3>2 DEF ClassKnown, Countdown, DialogKnown
  <2>11. StillOld'
    <3>1. SUFFICES ASSUME NEW k \in Classes \ app'.users, k > Len(q'.todo)
                   PROVE  \/ app'.saved[k] = "old"
                          \/ k = q'.kind /\ q'.mode = "apply" /\ q'.closeStarted /\ q'.modal # NoDialog
      BY DEF StillOld, Untouched
    <3>2. k \in Untouched /\ k > Len(q.todo)
      BY <2>5, <2>9, <3>1 DEF Untouched
    <3>3. CASE act.name = "save" /\ k = act.kind
      <4>1. k \in Nat /\ Len(q.todo) \in Nat
        BY <1>1 DEF Classes, ClassLocals
      <4>2. q.mode = "apply"
        BY <2>10, <3>2, <3>3, <4>1
      <4>3. QED
        BY <2>9, <2>10, <3>3, <4>2
    <3>4. CASE ~(act.name = "save" /\ k = act.kind)
      <4>1. app'.saved[k] = app.saved[k]
        BY <2>5, <3>4
      <4>2. qpc # "closed" /\ (q.closeStarted => q'.closeStarted)
        BY <2>1 DEF ClassActive
      <4>3. QED
        BY <2>9, <3>2, <4>1, <4>2 DEF ClassKnown, StillOld
    <3>5. QED
      BY <3>3, <3>4
  <2>12. ProvedBefore'
    <3>1. SUFFICES ASSUME q'.mode \in {"apply", "prove"}, NEW k \in Classes \ app'.users, k < q'.kind
                   PROVE  app'.saved[k] = q'.want[k]
      BY DEF ProvedBefore, Untouched
    <3>2. k \in Untouched /\ k < q.kind /\ k # q.kind
      BY <1>1, <2>5, <2>9, <3>1 DEF Untouched, Classes, ClassLocals
    <3>3. app'.saved[k] = app.saved[k]
      BY <2>5, <2>10, <3>2
    <3>4. QED
      BY <2>9, <3>1, <3>2, <3>3 DEF ClassKnown, ProvedBefore
  <2>13. DialogKnown'
    BY <2>1 DEF DialogKnown, InDialog
  <2>14. ClassDone'
    <3>1. ~q'.restored
      BY <1>1, <2>1 DEF SameClass
    <3>2. ~begun' => NothingDone'
      BY <1>1, <1>5, <2>4, <2>5 DEF ClassKnown, ClassDone, NothingDone, Untouched
    <3>3. QED
      BY <3>1, <3>2 DEF ClassDone
  <2>15. ClassSent'
    <3>1. ~q'.restored
      BY <1>1, <2>1 DEF SameClass
    <3>2. \A a \in posted' : a = act
      BY <2>4
    <3>3. act.name = "save" => \/ q'.mode = "apply" /\ q'.closeStarted /\ q'.modal # NoDialog
                               \/ q'.mode = "undo" /\ act.kind <= Len(q'.todo)
      BY <2>9, <2>10
    <3>4. act.name = "check" /\ act.kind \in Untouched' => act.to \in {"old", q'.want[act.kind]}
      BY <2>5, <2>9 DEF Untouched
    <3>5. QED
      BY <2>1, <2>4, <2>9, <2>10, <3>1, <3>2, <3>3, <3>4 DEF ClassSent
  <2>16. ClassifyAnswerIsTrue'
    BY <1>1, <2>7 DEF ClassFair, Untouched, ClassifyAnswerIsTrue
  <2>17. QED
    BY <1>1, <1>7, <2>1, <2>6, <2>7, <2>8, <2>11, <2>12, <2>13, <2>14, <2>15, <2>16 DEF ClassKnown
<1>8. QED
  BY <1>3, <1>6, <1>7

(* The same of an action that is followed by the next place. *)
LEMMA ClassActed ==
  ASSUME ClassKnown, qpc \in ClassActive, NEW act \in ClassActs, NEW locals \in ClassLocals, NEW next,
         ClassAct(act, locals, next), act.name # "check",
         act.name = "save" => qpc = "close" /\ q.mode \in {"apply", "undo"} /\ act.kind = q.kind,
         SameClass(locals, q), locals.closeStarted = (q.closeStarted \/ qpc = "close")
  PROVE  \/ /\ Possible(act) /\ app' = Outcome(act) /\ posted' = {} /\ begun' = TRUE
            /\ qpc' = next /\ q' = locals /\ UNCHANGED <<uncertain, qanswer>>
         \/ ClassKnown'
<1>1. PICK r \in Replies :
        /\ RequestAcknowledged(act, Possible(act), Outcome(act), r) /\ begun' = Begun(r)
        /\ q' = locals
        /\ IF r.ok THEN qpc' = next /\ UNCHANGED uncertain
           ELSE qpc' = "caught" /\ uncertain' = (uncertain \/ MarksError(r))
        /\ UNCHANGED qanswer
  BY DEF ClassAct
<1>2. locals.closeStarted \in BOOLEAN /\ q.closeStarted \in BOOLEAN
  BY ClassQuiet DEF ClassLocals
<1>3. ~r.ok => /\ qpc' = "caught" /\ uncertain' = (uncertain \/ MarksError(r))
               /\ q' \in ClassLocals /\ SameClass(q', q)
               /\ q'.closeStarted = (q.closeStarted \/ (q'.closeStarted /\ qpc = "close"))
               /\ act.name = "save" => q'.closeStarted
  BY <1>1, <1>2
<1>4. \/ r.ok /\ Possible(act) /\ app' = Outcome(act) /\ posted' = {} /\ begun' = TRUE
      \/ ~r.ok /\ ClassKnown'
  BY <1>1, <1>3, ClassSends
<1>5. QED
  BY <1>1, <1>4

(* A step with the kind in hand that saves nothing. *)
LEMMA ClassCalm ==
  ASSUME ClassKnown, qpc \in WithKind \ {"closed"}, qpc' \in WithKind, UNCHANGED qanswer, posted' = {},
         begun' \in {TRUE, begun}, uncertain' \in BOOLEAN,
         app' \in ClassApp, app'.users = app.users, app'.saved = app.saved,
         app'.dialog \in Untouched => app'.shown \in {"old", q.want[app'.dialog]},
         q' \in ClassLocals, q'.want = q.want, q'.kind = q.kind, q'.todo = q.todo, q'.mode = q.mode,
         q'.restored = q.restored, \A k \in Untouched : q'.before[k] = "old",
         q.closeStarted /\ q.modal # NoDialog => q'.closeStarted /\ (q'.modal # NoDialog \/ qpc' = "closed"),
         DialogKnown'
  PROVE  ClassKnown'
<1>1. /\ posted = {} /\ qanswer = << >> /\ ~q.restored /\ begun \in BOOLEAN
      /\ qpc' # "answered" /\ qpc # "closed"
  BY ClassQuiet DEF ClassActive, ClassPlaces, WithKind, InDialog
<1>2. ClassTyped'
  BY <1>1 DEF ClassTyped, ClassPlaces
<1>3. ClassFair'
  BY DEF ClassKnown, ClassFair, Untouched
<1>4. Countdown'
  BY DEF ClassKnown, Countdown, WithKind, InDialog
<1>5. StillOld'
  BY <1>1 DEF ClassKnown, StillOld, Untouched
<1>6. ProvedBefore' /\ ClassDone'
  BY <1>1 DEF ClassKnown, ProvedBefore, ClassDone, NothingDone, Untouched
<1>7. QED
  BY <1>1, <1>2, <1>3, <1>4, <1>5, <1>6, ClassGoesOn

(* The program as it was. *)
LEMMA ClassSameApp ==
  ASSUME ClassKnown, qpc \in ClassActive
  PROVE  /\ app \in ClassApp /\ (app.dialog \in Untouched => app.shown \in {"old", q.want[app.dialog]})
         /\ \A k \in Untouched : q.before[k] = "old"
         /\ begun \in BOOLEAN /\ uncertain \in BOOLEAN
BY ClassQuiet DEF ClassKnown, ClassFair

(* Preparation. *)
LEMMA ClassPrepares ==
  ASSUME ClassKnown, PrepareClass
  PROVE  ClassKnown'
<1>1. qpc \in {"prepare", "selected"} /\ qpc \in ClassActive /\ qpc \in WithKind \ {"closed"}
  BY DEF PrepareClass, ClassActive, ClassPlaces, WithKind
<1>2. q \in ClassLocals
  BY <1>1, ClassQuiet
<1>3. CASE ClassReadFails(FALSE)
  BY <1>1, <1>3, ClassReadingFails
<1>4. CASE ClassReads("open", [q EXCEPT !.prepared = TRUE])
  <2> DEFINE m == [q EXCEPT !.prepared = TRUE]
  <2>1. m \in ClassLocals /\ SameClass(m, q) /\ m.closeStarted = q.closeStarted
    BY <1>2 DEF ClassLocals, SameClass
  <2>2. qpc' = "open" /\ q' = m /\ UNCHANGED <<posted, app, begun, uncertain, qanswer>>
    BY <1>4 DEF ClassReads, ReadWorks
  <2> HIDE DEF m
  <2>3. DialogKnown'
    BY <2>2 DEF DialogKnown, InDialog
  <2>4. posted' = {}
    BY <1>1, <2>2, ClassQuiet
  <2>5. QED
    BY <1>1, <2>1, <2>2, <2>3, <2>4, ClassSameApp, ClassCalm DEF SameClass, WithKind
<1>5. CASE qpc = "prepare" /\ ClassAct(Push("select", NoDialog), q, "selected")
  <2> DEFINE act == Push("select", NoDialog)
  <2>1. act \in ClassActs /\ act.name = "select"
    BY DEF Push, ClassActs, RowActs
  <2> HIDE DEF act
  <2>2. SameClass(q, q) /\ q.closeStarted = (q.closeStarted \/ qpc = "close")
    BY <1>2, <1>5 DEF SameClass, ClassLocals
  <2>3. CASE /\ Possible(act) /\ app' = Outcome(act) /\ posted' = {} /\ begun' = TRUE
             /\ qpc' = "selected" /\ q' = q /\ UNCHANGED <<uncertain, qanswer>>
    <3>1. /\ app' \in ClassApp /\ app'.users = app.users /\ app'.saved = app.saved
          /\ app'.dialog = app.dialog /\ app'.shown = app.shown
      BY <2>1, <2>3, ClassEffect DEF ClassKnown
    <3>2. DialogKnown'
      BY <2>3 DEF DialogKnown, InDialog
    <3>3. QED
      BY <1>1, <1>2, <2>3, <3>1, <3>2, ClassSameApp, ClassCalm DEF WithKind
  <2>4. ClassAct(act, q, "selected")
    BY <1>5 DEF act
  <2>5. QED
    BY <1>1, <1>2, <2>1, <2>2, <2>3, <2>4, ClassActed
<1>6. QED
  BY <1>3, <1>4, <1>5 DEF PrepareClass

(* The dialog is opened and read. *)
LEMMA ClassOpens ==
  ASSUME ClassKnown, OpenDialog \/ Present \/ Grid
  PROVE  ClassKnown'
<1>1. qpc \in {"open", "present", "identify", "grid"} /\ qpc \in ClassActive /\ qpc \in WithKind \ {"closed"}
  BY DEF OpenDialog, Present, Grid, ClassActive, ClassPlaces, WithKind, InDialog
<1>2. /\ q \in ClassLocals /\ app \in ClassApp /\ begun \in BOOLEAN /\ uncertain \in BOOLEAN
      /\ posted = {} /\ qanswer = << >>
  BY <1>1, ClassQuiet
<1>3. CASE \/ \E doubt \in BOOLEAN : ClassReadFails(doubt)
           \/ \E doubt \in BOOLEAN : ReadWorks /\ ClassRaises(doubt)
           \/ ClassRefutes
  BY <1>1, <1>3, ClassReadingFails
<1>4. q.kind \in Classes
  BY <1>1, <1>2 DEF ClassKnown, Countdown, ClassLocals, Classes
<1>5. CASE OpenDialog /\ q.modal = NoDialog /\ ClassAct(Push("open", q.kind), q, "present")
  <2> DEFINE act == Push("open", q.kind)
  <2>1. act \in ClassActs /\ act.name = "open" /\ act.kind = q.kind
    BY <1>4 DEF Push, ClassActs, ButtonActs
  <2>2. ClassAct(act, q, "present")
    BY <1>5
  <2> HIDE DEF act
  <2>3. SameClass(q, q) /\ q.closeStarted = (q.closeStarted \/ qpc = "close")
    BY <1>2, <1>5 DEF SameClass, ClassLocals, OpenDialog
  <2>4. CASE /\ Possible(act) /\ app' = Outcome(act) /\ posted' = {} /\ begun' = TRUE
             /\ qpc' = "present" /\ q' = q /\ UNCHANGED <<uncertain, qanswer>>
    <3>1. /\ app' \in ClassApp /\ app'.users = app.users /\ app'.saved = app.saved
          /\ app'.dialog = q.kind /\ app'.shown = app.saved[q.kind]
          /\ app'.dialog \in Untouched => app'.shown \in {"old", q.want[app'.dialog]}
      BY <2>1, <2>4, ClassEffect DEF ClassKnown
    <3>2. DialogKnown'
      BY <1>5, <2>4, <3>1 DEF DialogKnown, InDialog
    <3>3. QED
      BY <1>1, <1>2, <1>5, <2>4, <3>1, <3>2, ClassSameApp, ClassCalm DEF WithKind
  <2>5. QED
    BY <1>1, <1>2, <2>1, <2>2, <2>3, <2>4, ClassActed
<1>6. CASE /\ qpc = "present" /\ app.dialog = q.kind
           /\ ClassReads("identify", [q EXCEPT !.modal = q.kind, !.verified = FALSE,
                                               !.closeStarted = FALSE, !.staged = FALSE])
  <2> DEFINE m == [q EXCEPT !.modal = q.kind, !.verified = FALSE, !.closeStarted = FALSE, !.staged = FALSE]
  <2>1. q.kind \in 0 .. ClassKinds /\ q.kind # NoDialog
    BY <1>4 DEF Classes, NoDialog
  <2>2. /\ m \in ClassLocals /\ m.want = q.want /\ m.before = q.before /\ m.kind = q.kind /\ m.todo = q.todo
        /\ m.mode = q.mode /\ m.restored = q.restored /\ m.modal = q.kind /\ ~m.closeStarted
    BY <1>2, <2>1 DEF ClassLocals
  <2>3. qpc' = "identify" /\ q' = m /\ UNCHANGED <<posted, app, begun, uncertain, qanswer>>
    BY <1>6 DEF ClassReads, ReadWorks
  <2> HIDE DEF m
  <2>4. DialogKnown' /\ q.modal = NoDialog
    BY <1>6, <2>1, <2>2, <2>3 DEF ClassKnown, DialogKnown, InDialog, Untouched
  <2>5. QED
    BY <1>1, <1>2, <2>2, <2>3, <2>4, ClassSameApp, ClassCalm DEF WithKind, InDialog
<1>7. CASE qpc = "identify" /\ ClassReads("grid", [q EXCEPT !.verified = TRUE, !.expected = app.shown])
  <2> DEFINE m == [q EXCEPT !.verified = TRUE, !.expected = app.shown]
  <2>1. app.shown \in Marks
    BY <1>2 DEF ClassApp
  <2>2. /\ m \in ClassLocals /\ SameClass(m, q) /\ m.closeStarted = q.closeStarted /\ m.expected = app.shown
    BY <1>2, <2>1 DEF ClassLocals, SameClass
  <2>3. qpc' = "grid" /\ q' = m /\ UNCHANGED <<posted, app, begun, uncertain, qanswer>>
    BY <1>7 DEF ClassReads, ReadWorks
  <2> HIDE DEF m
  <2>4. DialogKnown'
    BY <1>7, <2>2, <2>3 DEF ClassKnown, DialogKnown, InDialog, SameClass, Untouched
  <2>5. QED
    BY <1>1, <1>2, <2>2, <2>3, <2>4, ClassSameApp, ClassCalm DEF WithKind, InDialog, SameClass
<1>8. CASE Grid
  <2>1. qpc = "grid" /\ ~q.closeStarted /\ q.modal # NoDialog
    BY <1>8 DEF Grid, ClassKnown, DialogKnown, InDialog
  <2>2. q.kind \in Untouched => q.expected = app.saved[q.kind]
    BY <2>1 DEF ClassKnown, DialogKnown
  <2>3. CASE q.mode = "apply" /\ ClassReads("set", [q EXCEPT !.before[q.kind] = q.expected])
    <3> DEFINE b == [q.before EXCEPT ![q.kind] = q.expected]
               m == [q EXCEPT !.before = b]
    <3>1. b \in [Classes -> Marks] /\ \A k \in Classes : b[k] = IF k = q.kind THEN q.expected ELSE q.before[k]
      BY <1>2, <1>4 DEF ClassLocals
    <3>2. qpc' = "set" /\ q' = [q EXCEPT !.before[q.kind] = q.expected] /\ UNCHANGED <<posted, app, begun, uncertain, qanswer>>
      BY <2>3 DEF ClassReads, ReadWorks
    <3>3. q' = m
      BY <1>2, <3>2 DEF ClassLocals
    <3> HIDE DEF b
    <3>4. /\ m \in ClassLocals /\ m.want = q.want /\ m.before = b /\ m.kind = q.kind /\ m.todo = q.todo
          /\ m.mode = q.mode /\ m.restored = q.restored /\ m.modal = q.modal /\ m.closeStarted = q.closeStarted
      BY <1>2, <3>1 DEF ClassLocals
    <3> HIDE DEF m
    <3>5. q.kind \in Untouched => q.expected = "old"
      <4>1. q.kind > Len(q.todo)
        BY <1>2, <2>3 DEF ClassKnown, Countdown, ClassLocals
      <4>2. QED
        BY <2>1, <2>2, <4>1 DEF ClassKnown, StillOld
    <3>6. \A k \in Untouched : q'.before[k] = "old"
      BY <3>1, <3>3, <3>4, <3>5 DEF ClassKnown, ClassFair, Untouched
    <3>7. DialogKnown'
      BY <2>1, <2>3, <3>2, <3>3, <3>4 DEF DialogKnown, InDialog
    <3>8. QED
      BY <1>1, <1>2, <3>2, <3>3, <3>4, <3>6, <3>7, ClassSameApp, ClassCalm DEF WithKind, InDialog
  <2>4. ASSUME ClassReads("set", q) \/ ClassReads("close", q),
               qpc' = "set" => q.mode = "undo",
               qpc' = "close" => /\ q.mode = "prove" => q.expected = q.want[q.kind]
                                 /\ q.mode = "undoprove" => q.expected = q.before[q.kind]
        PROVE  ClassKnown'
    <3>1. qpc' \in {"set", "close"} /\ q' = q /\ UNCHANGED <<posted, app, begun, uncertain, qanswer>>
      BY <2>4 DEF ClassReads, ReadWorks
    <3>2. q.kind \in Untouched => q.before[q.kind] = "old"
      BY DEF ClassKnown, ClassFair
    <3>3. DialogKnown'
      BY <2>1, <2>2, <2>4, <3>1, <3>2 DEF DialogKnown, InDialog, Untouched
    <3>4. QED
      BY <1>1, <1>2, <3>1, <3>3, ClassSameApp, ClassCalm DEF WithKind, InDialog
  <2>5. CASE q.mode = "undo" /\ (IF Ours(q.expected) THEN ClassReads("set", q) ELSE ClassRefutes)
    BY <1>3, <2>4, <2>5 DEF ClassReads
  <2>6. CASE /\ q.mode \notin {"apply", "undo"}
             /\ IF q.expected = (IF q.mode = "prove" THEN q.want[q.kind] ELSE q.before[q.kind])
                THEN ClassReads("close", q) ELSE ReadWorks /\ ClassRaises(FALSE)
    BY <1>3, <2>4, <2>6 DEF ClassReads
  <2>7. QED
    BY <1>8, <2>3, <2>5, <2>6 DEF Grid
<1>9. QED
  BY <1>2, <1>3, <1>5, <1>6, <1>7, <1>8 DEF OpenDialog, Present

(* The dialog is changed. *)
LEMMA ClassToggles ==
  ASSUME ClassKnown, Toggle
  PROVE  ClassKnown'
<1>1. qpc \in {"set", "checked"} /\ qpc \in ClassActive /\ qpc \in WithKind \ {"closed"}
  BY DEF Toggle, ClassActive, ClassPlaces, WithKind, InDialog
<1>2. /\ q \in ClassLocals /\ app \in ClassApp /\ begun \in BOOLEAN /\ uncertain \in BOOLEAN
      /\ posted = {} /\ qanswer = << >>
  BY <1>1, ClassQuiet
<1>3. q.kind \in Classes
  BY <1>1, <1>2 DEF ClassKnown, Countdown, ClassLocals, Classes
<1>4. q.mode \in {"apply", "undo"} /\ ~q.closeStarted /\ q.modal # NoDialog
  BY <1>1 DEF ClassKnown, DialogKnown, InDialog
<1>5. /\ Desired \in Marks /\ q.expected \in Marks
      /\ q.kind \in Untouched => Desired \in {"old", q.want[q.kind]}
  BY <1>2, <1>3, <1>4 DEF ClassKnown, ClassFair, Desired, ClassLocals, Marks
<1>6. CASE \/ \E doubt \in BOOLEAN : ClassReadFails(doubt)
           \/ ClassRefutes
  BY <1>1, <1>6, ClassReadingFails
<1>7. CASE ClassReads("close", q)
  <2>1. qpc' = "close" /\ q' = q /\ UNCHANGED <<posted, app, begun, uncertain, qanswer>>
    BY <1>7 DEF ClassReads, ReadWorks
  <2>2. DialogKnown'
    BY <1>4, <2>1 DEF DialogKnown, InDialog
  <2>3. QED
    BY <1>1, <1>2, <2>1, <2>2, ClassSameApp, ClassCalm DEF WithKind, InDialog
<1>8. ASSUME qpc = "set", NEW r \in Replies,
             RequestAcknowledged(Check(q.kind, q.expected, Desired), Possible(Check(q.kind, q.expected, Desired)),
                                 Outcome(Check(q.kind, q.expected, Desired)), r),
             begun' = Begun(r),
             IF r.ok THEN /\ qpc' = "checked" /\ UNCHANGED uncertain
                          /\ q' = [q EXCEPT !.expected = Desired, !.staged = TRUE]
             ELSE qpc' = "caught" /\ uncertain' = (uncertain \/ MarksError(r)) /\ UNCHANGED q,
             UNCHANGED qanswer
      PROVE  ClassKnown'
  <2> DEFINE act == Check(q.kind, q.expected, Desired)
  <2>1. /\ act \in ClassActs /\ act.name = "check" /\ act.kind = q.kind /\ act.to = Desired
    BY <1>3, <1>5 DEF Check, ClassActs, CheckActs
  <2>2. RequestAcknowledged(act, Possible(act), Outcome(act), r)
    BY <1>8
  <2> HIDE DEF act
  <2>3. act.name = "check" /\ act.kind \in Untouched => act.to \in {"old", q.want[act.kind]}
    BY <1>5, <2>1
  <2>4. SameClass(q, q) /\ q.closeStarted = (q.closeStarted \/ (q.closeStarted /\ qpc = "close"))
    BY <1>2, <1>4 DEF SameClass, ClassLocals
  <2>5. ~r.ok => /\ qpc' = "caught" /\ uncertain' = (uncertain \/ MarksError(r)) /\ q' = q
    BY <1>8
  <2>6. ~r.ok => /\ qpc' = "caught" /\ uncertain' = (uncertain \/ MarksError(r))
                 /\ q' \in ClassLocals /\ SameClass(q', q)
                 /\ q'.closeStarted = (q.closeStarted \/ (q'.closeStarted /\ qpc = "close"))
                 /\ act.name = "save" => q'.closeStarted
    BY <1>2, <2>1, <2>4, <2>5
  <2>7. \/ r.ok /\ Possible(act) /\ app' = Outcome(act) /\ posted' = {} /\ begun' = TRUE
        \/ ~r.ok /\ ClassKnown'
    BY <1>1, <1>8, <2>1, <2>2, <2>3, <2>6, ClassSends
  <2>8. CASE r.ok /\ Possible(act) /\ app' = Outcome(act) /\ posted' = {} /\ begun' = TRUE
    <3> DEFINE m == [q EXCEPT !.expected = Desired, !.staged = TRUE]
    <3>1. qpc' = "checked" /\ q' = m /\ UNCHANGED <<uncertain, qanswer>>
      BY <1>8, <2>8
    <3>2. m \in ClassLocals /\ SameClass(m, q) /\ m.closeStarted = q.closeStarted
      BY <1>2, <1>5 DEF ClassLocals, SameClass
    <3> HIDE DEF m
    <3>3. /\ app' \in ClassApp /\ app'.users = app.users /\ app'.saved = app.saved
          /\ \A k \in Untouched : app'.saved[k] \in {"old", q.want[k]}
          /\ app'.dialog \in Untouched => app'.shown \in {"old", q.want[app'.dialog]}
      BY <2>1, <2>3, <2>8, ClassEffect DEF ClassKnown
    <3>4. DialogKnown'
      BY <1>4, <3>1, <3>2 DEF DialogKnown, InDialog, SameClass
    <3>5. QED
      BY <1>1, <1>2, <2>8, <3>1, <3>2, <3>3, <3>4, ClassSameApp, ClassCalm DEF WithKind, InDialog, SameClass
  <2>9. QED
    BY <2>7, <2>8
<1>9. FALSE \in BOOLEAN
  OBVIOUS
<1>10. QED
  BY <1>6, <1>7, <1>8, <1>9 DEF Toggle

(* The dialog is closed: saved or cancelled. *)
LEMMA ClassCloses ==
  ASSUME ClassKnown, CloseModal
  PROVE  ClassKnown'
<1>1. qpc \in {"close", "closing"} /\ qpc \in ClassActive /\ qpc \in WithKind \ {"closed"}
  BY DEF CloseModal, ClassActive, ClassPlaces, WithKind, InDialog
<1>2. /\ q \in ClassLocals /\ app \in ClassApp /\ begun \in BOOLEAN /\ uncertain \in BOOLEAN
      /\ posted = {} /\ qanswer = << >> /\ ~q.restored
  BY <1>1, ClassQuiet
<1>3. q.kind \in Classes /\ q.modal # NoDialog
  BY <1>1, <1>2 DEF ClassKnown, Countdown, DialogKnown, InDialog, ClassLocals, Classes
<1>4. q.staged \in BOOLEAN
  BY <1>2 DEF ClassLocals
<1>5. CASE \/ \E doubt \in BOOLEAN : ClassReadFails(doubt)
           \/ ClassRefutes
  BY <1>1, <1>5, ClassReadingFails
<1>6. CASE /\ qpc = "close"
           /\ ClassAct(Push(IF Saves THEN "save" ELSE "cancel", q.kind), [q EXCEPT !.closeStarted = TRUE], "closing")
  <2> DEFINE act == Push(IF Saves THEN "save" ELSE "cancel", q.kind)
             m == [q EXCEPT !.closeStarted = TRUE]
  <2>1. act \in ClassActs /\ act.name \in {"save", "cancel"} /\ act.kind = q.kind
    BY <1>3 DEF Push, ClassActs, ButtonActs
  <2>2. act.name = "save" => q.mode \in {"apply", "undo"}
    BY DEF Push, Saves
  <2>3. m \in ClassLocals /\ SameClass(m, q) /\ m.closeStarted
    BY <1>2 DEF ClassLocals, SameClass
  <2>4. ClassAct(act, m, "closing")
    BY <1>6
  <2> HIDE DEF act, m
  <2>5. m.closeStarted = (q.closeStarted \/ qpc = "close")
    BY <1>2, <1>6, <2>3 DEF ClassLocals
  <2>6. act.name = "save" => qpc = "close" /\ q.mode \in {"apply", "undo"} /\ act.kind = q.kind
    BY <1>6, <2>1, <2>2
  <2>7. CASE /\ Possible(act) /\ app' = Outcome(act) /\ posted' = {} /\ begun' = TRUE
             /\ qpc' = "closing" /\ q' = m /\ UNCHANGED <<uncertain, qanswer>>
    <3>1. /\ app' \in ClassApp /\ app'.users = app.users
          /\ act.name # "save" => app'.saved = app.saved
          /\ \A k \in Classes : k # act.kind => app'.saved[k] = app.saved[k]
          /\ \A k \in Untouched : app'.saved[k] \in {"old", q.want[k]}
          /\ app'.dialog \in Untouched => app'.shown \in {"old", q.want[app'.dialog]}
      BY <2>1, <2>7, ClassEffect DEF ClassKnown
    <3>2. CASE act.name = "cancel"
      <4>1. app'.saved = app.saved
        BY <3>1, <3>2
      <4>2. DialogKnown'
        BY <1>3, <1>6, <2>3, <2>7, <3>1, <4>1 DEF ClassKnown, DialogKnown, InDialog, SameClass, Untouched
      <4>3. QED
        BY <1>1, <1>2, <1>3, <2>3, <2>7, <3>1, <4>1, <4>2, ClassSameApp, ClassCalm DEF WithKind, InDialog, SameClass
    <3>3. CASE act.name = "save"
      <4>1. q.mode \in {"apply", "undo"}
        BY <2>2, <3>3
      <4>2. /\ q'.want = q.want /\ q'.before = q.before /\ q'.kind = q.kind /\ q'.todo = q.todo /\ q'.mode = q.mode
            /\ q'.modal = q.modal /\ q'.restored = q.restored /\ q'.closeStarted
        BY <2>3, <2>7 DEF SameClass
      <4>3. ClassTyped'
        BY <1>2, <2>3, <2>7, <3>1 DEF ClassTyped, ClassPlaces, WithKind, InDialog
      <4>4. ClassFair'
        BY <3>1, <4>2 DEF ClassKnown, ClassFair, Untouched
      <4>5. Countdown'
        BY <1>1, <2>7, <4>2 DEF ClassKnown, Countdown, WithKind, InDialog
      <4>6. StillOld'
        <5>1. SUFFICES ASSUME NEW k \in Classes \ app'.users, k > Len(q'.todo)
                       PROVE  app'.saved[k] = "old" \/ (k = q'.kind /\ q'.mode = "apply")
          BY <1>3, <4>2 DEF StillOld, Untouched
        <5>2. k \in Untouched /\ k > Len(q.todo)
          BY <3>1, <4>2, <5>1 DEF Untouched
        <5>3. CASE k = q.kind
          <6>1. q.mode = "undo" => Len(q.todo) = q.kind
            BY <1>1 DEF ClassKnown, Countdown
          <6>2. k \in Nat
            BY <5>1 DEF Classes
          <6>3. QED
            BY <4>1, <4>2, <5>2, <5>3, <6>1, <6>2
        <5>4. CASE k # q.kind
          BY <2>1, <3>1, <5>2, <5>4 DEF ClassKnown, StillOld, Untouched
        <5>5. QED
          BY <5>3, <5>4
      <4>7. ProvedBefore'
        <5>1. SUFFICES ASSUME q'.mode \in {"apply", "prove"}, NEW k \in Classes \ app'.users, k < q'.kind
                       PROVE  app'.saved[k] = q'.want[k]
          BY DEF ProvedBefore, Untouched
        <5>2. k \in Untouched /\ k < q.kind /\ k # q.kind
          BY <1>3, <3>1, <4>2, <5>1 DEF Untouched, Classes
        <5>3. QED
          BY <2>1, <3>1, <4>2, <5>1, <5>2 DEF ClassKnown, ProvedBefore, Untouched
      <4>8. DialogKnown'
        BY <1>3, <2>7, <4>1, <4>2 DEF DialogKnown, InDialog
      <4>9. ClassDone'
        BY <1>2, <2>7, <4>2 DEF ClassDone
      <4>10. qpc' # "answered" /\ posted' = {} /\ UNCHANGED qanswer
        BY <2>7
      <4>11. QED
        BY <1>2, <4>3, <4>4, <4>5, <4>6, <4>7, <4>8, <4>9, <4>10, ClassGoesOn
    <3>4. QED
      BY <2>1, <3>2, <3>3
  <2>8. act.name # "check"
    BY <2>1
  <2>9. QED
    BY <1>1, <2>1, <2>3, <2>4, <2>5, <2>6, <2>7, <2>8, ClassActed
<1>7. CASE qpc = "closing" /\ ClassReads("closed", [q EXCEPT !.modal = NoDialog, !.verified = FALSE])
  <2> DEFINE m == [q EXCEPT !.modal = NoDialog, !.verified = FALSE]
  <2>1. NoDialog \in 0 .. ClassKinds
    BY ClassKindsAssumption DEF NoDialog
  <2>2. /\ m \in ClassLocals /\ m.want = q.want /\ m.before = q.before /\ m.kind = q.kind /\ m.todo = q.todo
        /\ m.mode = q.mode /\ m.restored = q.restored /\ m.modal = NoDialog /\ m.closeStarted = q.closeStarted
    BY <1>2, <2>1 DEF ClassLocals
  <2>3. qpc' = "closed" /\ q' = m /\ UNCHANGED <<posted, app, begun, uncertain, qanswer>>
    BY <1>7 DEF ClassReads, ReadWorks
  <2> HIDE DEF m
  <2>4. DialogKnown'
    BY <1>7, <2>2, <2>3 DEF ClassKnown, DialogKnown, InDialog, Untouched
  <2>5. QED
    BY <1>1, <1>2, <2>2, <2>3, <2>4, ClassSameApp, ClassCalm DEF WithKind, InDialog
<1>8. FALSE \in BOOLEAN /\ TRUE \in BOOLEAN
  OBVIOUS
<1>9. QED
  BY <1>4, <1>5, <1>6, <1>7, <1>8 DEF CloseModal

(* After a dialog comes the proof of what it has kept, and after the proof *)
(* the next kind. *)
LEMMA ClassNextKind ==
  ASSUME ClassKnown, NextKind
  PROVE  ClassKnown'
<1>1. qpc = "closed" /\ qpc \in WithKind /\ q' = AfterClose /\ UNCHANGED <<posted, app, begun, uncertain, qanswer>>
  BY DEF NextKind, WithKind
<1>2. /\ q \in ClassLocals /\ app \in ClassApp /\ begun \in BOOLEAN /\ uncertain \in BOOLEAN
      /\ posted = {} /\ qanswer = << >> /\ ~q.restored
  BY <1>1, ClassQuiet
<1>3. /\ q.kind \in Classes /\ q.kind \in Nat /\ ClassKinds \in Nat /\ q.todo \in Seq(Classes) /\ Len(q.todo) \in Nat
      /\ Untouched \subseteq Nat
  BY <1>1, <1>2, ClassKindsAssumption DEF ClassKnown, Countdown, ClassLocals, Classes, Untouched
<1>4. q.modal = NoDialog
  BY <1>1 DEF ClassKnown, DialogKnown
<1>5. \A k \in Untouched : k > Len(q.todo) => app.saved[k] = "old" \/ (k = q.kind /\ q.mode = "apply")
  BY DEF ClassKnown, StillOld
<1>6. \A i \in 1 .. Len(q.todo) : q.todo[i] = Len(q.todo) + 1 - i
  BY DEF ClassKnown, Countdown
<1>7. ASSUME q' \in ClassLocals, q'.want = q.want, q'.before = q.before, q'.modal = q.modal, q'.restored = q.restored,
             qpc' \in {"open", "rollback", "finish"}, Countdown', StillOld', ProvedBefore'
      PROVE  ClassKnown'
  <2>1. ClassTyped'
    BY <1>1, <1>2, <1>7 DEF ClassTyped, ClassPlaces, WithKind
  <2>2. ClassFair'
    BY <1>1, <1>7 DEF ClassKnown, ClassFair, Untouched
  <2>3. DialogKnown'
    BY <1>7 DEF DialogKnown, InDialog
  <2>4. ClassDone'
    BY <1>1, <1>2, <1>7 DEF ClassKnown, ClassDone, NothingDone, Untouched
  <2>5. qpc' # "answered" /\ posted' = {}
    BY <1>1, <1>2, <1>7
  <2>6. QED
    BY <1>1, <1>2, <1>7, <2>1, <2>2, <2>3, <2>4, <2>5, ClassGoesOn
<1>8. CASE q.mode = "apply"
  <2> DEFINE longer == <<q.kind>> \o q.todo
             m == [q EXCEPT !.todo = longer, !.mode = "prove"]
  <2>1. q' = m /\ qpc' = "open"
    BY <1>1, <1>2, <1>8 DEF AfterClose, NextKind, ClassLocals
  <2>2. Len(q.todo) = q.kind - 1
    BY <1>8 DEF ClassKnown, Countdown
  <2>3. longer \in Seq(Classes) /\ Len(longer) = q.kind
    BY <1>3, <2>2
  <2>4. ASSUME NEW i \in 1 .. Len(longer) PROVE longer[i] = Len(longer) + 1 - i
    <3>1. CASE i = 1
      BY <1>3, <2>3, <3>1
    <3>2. CASE i # 1
      <4>1. i - 1 \in 1 .. Len(q.todo) /\ longer[i] = q.todo[i - 1]
        BY <1>3, <2>2, <2>3, <2>4, <3>2
      <4>2. QED
        BY <1>3, <1>6, <2>2, <2>3, <4>1
    <3>3. QED
      BY <3>1, <3>2
  <2> HIDE DEF longer
  <2>5. /\ m \in ClassLocals /\ m.want = q.want /\ m.before = q.before /\ m.modal = q.modal /\ m.restored = q.restored
        /\ m.kind = q.kind /\ m.todo = longer /\ m.mode = "prove"
    BY <1>2, <2>3 DEF ClassLocals
  <2> HIDE DEF m
  <2>6. Countdown'
    <3>1. q'.todo = longer /\ q'.kind = q.kind /\ q'.mode = "prove" /\ q'.modal = NoDialog /\ qpc' = "open"
      BY <1>4, <2>1, <2>5
    <3>2. q.kind <= ClassKinds
      BY <1>3 DEF Classes
    <3>3. QED
      BY <2>3, <2>4, <3>1, <3>2 DEF Countdown
  <2>7. StillOld'
    <3>1. SUFFICES ASSUME NEW k \in Untouched, k > q.kind PROVE app.saved[k] = "old"
      BY <1>1, <2>1, <2>3, <2>5 DEF StillOld, Untouched
    <3>2. k > Len(q.todo) /\ k # q.kind
      BY <1>3, <2>2, <3>1
    <3>3. QED
      BY <1>5, <3>1, <3>2
  <2>8. ProvedBefore'
    BY <1>1, <1>8, <2>1, <2>5 DEF ClassKnown, ProvedBefore, Untouched
  <2>9. QED
    BY <1>7, <2>1, <2>5, <2>6, <2>7, <2>8
<1>9. CASE q.mode = "undo"
  <2> DEFINE m == [q EXCEPT !.mode = "undoprove"]
  <2>1. q' = m /\ qpc' = "open"
    BY <1>1, <1>9 DEF AfterClose, NextKind
  <2>2. /\ m \in ClassLocals /\ m.want = q.want /\ m.before = q.before /\ m.modal = q.modal /\ m.restored = q.restored
        /\ m.kind = q.kind /\ m.todo = q.todo /\ m.mode = "undoprove"
    BY <1>2 DEF ClassLocals
  <2> HIDE DEF m
  <2>3. Countdown'
    BY <1>1, <1>3, <1>4, <1>9, <2>1, <2>2 DEF ClassKnown, Countdown, Classes
  <2>4. StillOld'
    BY <1>1, <1>5, <1>9, <2>1, <2>2 DEF StillOld, Untouched
  <2>5. ProvedBefore'
    BY <2>1, <2>2 DEF ProvedBefore
  <2>6. QED
    BY <1>7, <2>1, <2>2, <2>3, <2>4, <2>5
<1>10. CASE q.mode = "prove"
  <2> DEFINE m == [q EXCEPT !.mode = "apply", !.kind = q.kind + 1]
  <2>1. q' = m /\ qpc' = (IF q.kind = ClassKinds THEN "finish" ELSE "open")
    BY <1>1, <1>2, <1>10 DEF AfterClose, NextKind, ClassLocals
  <2>2. q.kind + 1 \in 1 .. ClassKinds + 1 /\ Len(q.todo) = q.kind
    BY <1>3, <1>10 DEF ClassKnown, Countdown, Classes
  <2>3. /\ m \in ClassLocals /\ m.want = q.want /\ m.before = q.before /\ m.modal = q.modal /\ m.restored = q.restored
        /\ m.kind = q.kind + 1 /\ m.todo = q.todo /\ m.mode = "apply"
    BY <1>2, <2>2 DEF ClassLocals
  <2> HIDE DEF m
  <2>4. q.kind \in Untouched => app.saved[q.kind] = q.want[q.kind]
    BY <1>1, <1>10 DEF ClassKnown, DialogKnown
  <2>5. /\ q'.todo = q.todo /\ q'.kind = q.kind + 1 /\ q'.mode = "apply" /\ q'.modal = NoDialog
        /\ qpc' \in WithKind => q.kind # ClassKinds
        /\ qpc' \in {"finish", "finished"} => q.kind = ClassKinds
    BY <1>4, <2>1, <2>3 DEF WithKind, InDialog
  <2>6. Countdown'
    <3>1. q'.kind <= ClassKinds \/ q.kind = ClassKinds
      BY <1>3, <2>5 DEF Classes
    <3>2. Len(q'.todo) <= ClassKinds /\ Len(q'.todo) = q'.kind - 1
      BY <1>3, <2>2, <2>5 DEF Classes
    <3>3. QED
      BY <1>3, <1>6, <2>5, <3>1, <3>2 DEF Countdown
  <2>7. StillOld'
    <3>1. SUFFICES ASSUME NEW k \in Untouched, k > Len(q.todo) PROVE app.saved[k] = "old"
      BY <1>1, <2>5 DEF StillOld, Untouched
    <3>2. QED
      BY <1>5, <1>10, <3>1
  <2>8. ProvedBefore'
    <3>1. SUFFICES ASSUME NEW k \in Untouched, k < q.kind + 1 PROVE app.saved[k] = q.want[k]
      BY <1>1, <2>1, <2>3 DEF ProvedBefore, Untouched
    <3>2. k = q.kind \/ k < q.kind
      BY <1>3, <3>1
    <3>3. QED
      BY <1>10, <2>4, <3>1, <3>2 DEF ClassKnown, ProvedBefore
  <2>9. qpc' \in {"open", "rollback", "finish"}
    BY <2>1
  <2>10. QED
    BY <1>7, <2>1, <2>3, <2>6, <2>7, <2>8, <2>9
<1>11. CASE q.mode = "undoprove"
  <2> DEFINE rest == Tail(q.todo)
             m == [q EXCEPT !.todo = rest, !.mode = "undo"]
  <2>1. q' = m /\ qpc' = "rollback"
    BY <1>1, <1>2, <1>11 DEF AfterClose, NextKind, ClassLocals
  <2>2. Len(q.todo) = q.kind /\ q.todo # << >>
    BY <1>1, <1>3, <1>11 DEF ClassKnown, Countdown, Classes
  <2>3. rest \in Seq(Classes) /\ Len(rest) = q.kind - 1 /\ \A i \in 1 .. Len(rest) : rest[i] = q.todo[i + 1]
    BY <1>3, <2>2
  <2>4. ASSUME NEW i \in 1 .. Len(rest) PROVE rest[i] = Len(rest) + 1 - i
    <3>1. i + 1 \in 1 .. Len(q.todo)
      BY <1>3, <2>2, <2>3, <2>4
    <3>2. QED
      BY <1>3, <1>6, <2>2, <2>3, <2>4, <3>1
  <2> HIDE DEF rest
  <2>5. /\ m \in ClassLocals /\ m.want = q.want /\ m.before = q.before /\ m.modal = q.modal /\ m.restored = q.restored
        /\ m.kind = q.kind /\ m.todo = rest /\ m.mode = "undo"
    BY <1>2, <2>3 DEF ClassLocals
  <2> HIDE DEF m
  <2>6. Countdown'
    <3>1. Len(rest) <= ClassKinds
      BY <1>3, <2>3 DEF Classes
    <3>2. QED
      BY <1>4, <2>1, <2>4, <2>5, <3>1 DEF Countdown, WithKind, InDialog
  <2>7. q.kind \in Untouched => app.saved[q.kind] = "old"
    BY <1>1, <1>11 DEF ClassKnown, DialogKnown
  <2>8. StillOld'
    <3>1. SUFFICES ASSUME NEW k \in Untouched, k > Len(rest) PROVE app.saved[k] = "old"
      BY <1>1, <2>1, <2>5 DEF StillOld, Untouched
    <3>2. k = q.kind \/ k > Len(q.todo)
      BY <1>3, <2>2, <2>3, <3>1
    <3>3. QED
      BY <1>5, <1>11, <2>7, <3>1, <3>2
  <2>9. ProvedBefore'
    BY <2>1, <2>5 DEF ProvedBefore
  <2>10. QED
    BY <1>7, <2>1, <2>5, <2>6, <2>8, <2>9
<1>12. CASE q.mode = "abandon"
  <2>1. q' = q /\ qpc' = "rollback"
    BY <1>1, <1>12 DEF AfterClose, NextKind
  <2>2. Countdown'
    BY <1>4, <2>1 DEF ClassKnown, Countdown, WithKind, InDialog
  <2>3. StillOld'
    BY <1>1, <1>5, <1>12, <2>1 DEF StillOld, Untouched
  <2>4. ProvedBefore'
    BY <1>12, <2>1 DEF ProvedBefore
  <2>5. QED
    BY <1>2, <1>7, <2>1, <2>2, <2>3, <2>4
<1>13. q.mode \in {"apply", "prove", "abandon", "undo", "undoprove"}
  BY <1>2 DEF ClassLocals
<1>14. QED
  BY <1>8, <1>9, <1>10, <1>11, <1>12, <1>13

(* An answer. *)
LEMMA ClassAnswered ==
  ASSUME ClassKnown, NEW ok \in BOOLEAN, NEW unknown \in BOOLEAN, NEW state,
         QtAnswers(ok, unknown, state), UNCHANGED <<posted, app, begun, uncertain, q>>,
         ok => posted = {} /\ \A k \in Untouched : app.saved[k] = q.want[k],
         state \in {"restored", "unchanged"} => NothingDone /\ posted = {},
         ~unknown => \A act \in posted : act.name # "save",
         qpc \in {"finished", "fails"}
  PROVE  ClassKnown'
<1>1. /\ qpc' = "answered" /\ qanswer' # << >>
      /\ Head(qanswer').ok = ok /\ Head(qanswer').unknown = unknown /\ Head(qanswer').state = state
  BY OneQtAnswer
<1>2. ClassTyped' /\ ClassFair'
  BY <1>1 DEF ClassKnown, ClassTyped, ClassFair, ClassPlaces, Untouched
<1>3. ClassSent'
  BY <1>1 DEF ClassKnown, ClassSent, Untouched
<1>4. Countdown' /\ DialogKnown'
  BY <1>1 DEF ClassKnown, Countdown, DialogKnown, WithKind, InDialog
<1>5. ProvedBefore'
  BY <1>1 DEF ClassKnown, ProvedBefore, Untouched
<1>6. ClassDone'
  BY <1>1 DEF ClassKnown, ClassDone, NothingDone, Untouched
<1>7. ClassifyAnswerIsTrue'
  <2>1. \A k \in Untouched : app.saved[k] \in {"old", q.want[k]}
    BY DEF ClassKnown, ClassFair
  <2>2. QED
    BY <1>1, <2>1 DEF ClassifyAnswerIsTrue, Untouched, NothingDone
<1>8. StillOld'
  BY <1>1 DEF ClassKnown, StillOld, Untouched
<1>9. QED
  BY <1>1, <1>2, <1>3, <1>4, <1>5, <1>6, <1>7, <1>8 DEF ClassKnown

(* The detail is closed again: at the end of what was asked for, or of its *)
(* taking back. *)
LEMMA ClassFinishes ==
  ASSUME ClassKnown, FinishClass
  PROVE  ClassKnown'
<1>1. qpc \in {"finish", "finished"} /\ qpc \in ClassActive /\ qpc \notin WithKind
  BY DEF FinishClass, ClassActive, ClassPlaces, WithKind, InDialog
<1>2. /\ q \in ClassLocals /\ app \in ClassApp /\ begun \in BOOLEAN /\ uncertain \in BOOLEAN
      /\ posted = {} /\ qanswer = << >> /\ ~q.restored
  BY <1>1, ClassQuiet
<1>3. IF q.mode = "undo" THEN q.todo = << >> ELSE q.mode = "apply" /\ q.kind = ClassKinds + 1
  BY <1>1 DEF ClassKnown, Countdown
<1>4. ASSUME NEW m \in ClassLocals, SameClass(m, q), m.closeStarted = q.closeStarted, q' = m,
             qpc' \in {"finished", "fails"}, UNCHANGED qanswer, posted' = {}, begun' \in {TRUE, begun}, uncertain' \in BOOLEAN,
             app' \in ClassApp, app'.users = app.users, app'.saved = app.saved,
             app'.dialog \in Untouched => app'.shown \in {"old", q.want[app'.dialog]}
      PROVE  ClassKnown'
  <2>1. ClassTyped'
    BY <1>2, <1>4 DEF ClassTyped, ClassPlaces
  <2>2. ClassFair'
    BY <1>4 DEF ClassKnown, ClassFair, SameClass, Untouched
  <2>3. Countdown'
    BY <1>1, <1>4 DEF ClassKnown, Countdown, SameClass, WithKind, InDialog
  <2>4. StillOld'
    BY <1>1, <1>4 DEF ClassKnown, StillOld, SameClass, Untouched
  <2>5. ProvedBefore'
    BY <1>4 DEF ClassKnown, ProvedBefore, SameClass, Untouched
  <2>6. DialogKnown'
    BY <1>4 DEF DialogKnown, InDialog
  <2>7. ClassDone'
    <3>1. ~q'.restored /\ (begun => begun')
      <4>1. q'.restored = q.restored
        BY <1>4 DEF SameClass
      <4>2. begun => begun'
        BY <1>4, Zenon
      <4>3. QED
        BY <1>2, <4>1, <4>2
    <3>2. NothingDone => NothingDone'
      BY <1>4 DEF NothingDone, Untouched
    <3>3. QED
      BY <3>1, <3>2 DEF ClassKnown, ClassDone
  <2>8. QED
    BY <1>2, <1>4, <2>1, <2>2, <2>3, <2>4, <2>5, <2>6, <2>7, ClassGoesOn
<1>5. CASE ClassReadFails(FALSE)
  <2>1. FALSE \in BOOLEAN
    OBVIOUS
  <2>2. QED
    BY <1>1, <1>5, <2>1, ClassReadingFails
<1>6. CASE qpc = "finish"
  <2> DEFINE ending == [q EXCEPT !.finishing = TRUE]
  <2>1. ending \in ClassLocals /\ SameClass(ending, q) /\ ending.closeStarted = q.closeStarted
    BY <1>2 DEF ClassLocals, SameClass
  <2> HIDE DEF ending
  <2>2. CASE /\ ReadWorks /\ qpc' = "caught" /\ uncertain' \in {uncertain, uncertain \/ begun} /\ q' = ending
             /\ UNCHANGED <<begun, qanswer>>
    <3>1. UNCHANGED <<posted, app>>
      BY <2>2 DEF ReadWorks
    <3>2. (uncertain \/ begun) \in BOOLEAN
      BY <1>2
    <3>3. uncertain' \in BOOLEAN
      BY <1>2, <2>2, <3>2
    <3>4. QED
      BY <1>1, <2>1, <2>2, <3>1, <3>3, ClassFailed
  <2>3. CASE ClassAct(Push("detail", NoDialog), ending, "finished")
    <3> DEFINE act == Push("detail", NoDialog)
    <3>1. act \in ClassActs /\ act.name = "detail"
      BY DEF Push, ClassActs, RowActs
    <3>2. ClassAct(act, ending, "finished")
      BY <2>3
    <3> HIDE DEF act
    <3>3. ending.closeStarted = (q.closeStarted \/ qpc = "close")
      BY <1>2, <1>6, <2>1 DEF ClassLocals
    <3>4. CASE /\ Possible(act) /\ app' = Outcome(act) /\ posted' = {} /\ begun' = TRUE
               /\ qpc' = "finished" /\ q' = ending /\ UNCHANGED <<uncertain, qanswer>>
      <4>1. /\ app' \in ClassApp /\ app'.users = app.users /\ app'.saved = app.saved
            /\ app'.dialog = app.dialog /\ app'.shown = app.shown
        BY <3>1, <3>4, ClassEffect DEF ClassKnown
      <4>2. QED
        BY <1>1, <1>2, <1>4, <2>1, <3>4, <4>1, ClassSameApp
    <3>5. QED
      BY <1>1, <2>1, <3>1, <3>2, <3>3, <3>4, ClassActed
  <2>4. QED
    BY <1>6, <2>2, <2>3 DEF FinishClass, ending
<1>7. CASE qpc = "finished" /\ ReadWorks /\ UNCHANGED <<begun, uncertain>> /\ q.mode = "undo"
           /\ qpc' = "fails" /\ q' = [q EXCEPT !.restored = TRUE] /\ UNCHANGED qanswer
  <2> DEFINE m == [q EXCEPT !.restored = TRUE]
  <2>1. /\ m \in ClassLocals /\ m.want = q.want /\ m.before = q.before /\ m.kind = q.kind /\ m.todo = q.todo
        /\ m.mode = q.mode /\ m.modal = q.modal /\ m.restored /\ m.closeStarted = q.closeStarted
    BY <1>2 DEF ClassLocals
  <2>2. q' = m /\ UNCHANGED <<posted, app>>
    BY <1>7 DEF ReadWorks
  <2> HIDE DEF m
  <2>3. ClassTyped' /\ ClassFair'
    <3>1. ClassTyped'
      BY <1>2, <1>7, <2>1, <2>2 DEF ClassTyped, ClassPlaces
    <3>2. ClassFair'
      BY <2>1, <2>2 DEF ClassKnown, ClassFair, Untouched
    <3>3. QED
      BY <3>1, <3>2
  <2>4. Countdown'
    BY <1>1, <1>7, <2>1, <2>2 DEF ClassKnown, Countdown, WithKind, InDialog
  <2>5. StillOld' /\ ProvedBefore' /\ DialogKnown'
    BY <1>7, <2>1, <2>2 DEF ClassKnown, StillOld, ProvedBefore, DialogKnown, Untouched, InDialog
  <2>6. NothingDone
    BY <1>3, <1>7 DEF ClassKnown, StillOld, NothingDone, Untouched, Classes
  <2>7. ClassDone'
    BY <1>7, <2>2, <2>6 DEF ClassDone, NothingDone, Untouched
  <2>8. posted' = {}
    BY <1>2, <2>2
  <2>9. QED
    BY <1>2, <1>7, <2>3, <2>4, <2>5, <2>7, <2>8, ClassGoesOn
<1>8. CASE qpc = "finished" /\ ReadWorks /\ UNCHANGED <<begun, uncertain>> /\ q.mode # "undo"
           /\ QtAnswers(TRUE, FALSE, "none") /\ UNCHANGED q
  <2>1. \A k \in Untouched : app.saved[k] = q.want[k]
    <3>1. \A k \in Untouched : k < q.kind
      BY <1>3, <1>8, ClassKindsAssumption DEF Untouched, Classes
    <3>2. QED
      BY <1>3, <1>8, <3>1 DEF ClassKnown, ProvedBefore
  <2>2. UNCHANGED <<posted, app>>
    BY <1>8 DEF ReadWorks
  <2>3. TRUE \in BOOLEAN /\ FALSE \in BOOLEAN
    OBVIOUS
  <2>4. QED
    BY <1>2, <1>8, <2>1, <2>2, <2>3, ClassAnswered
<1>9. QED
  BY <1>1, <1>5, <1>6, <1>7, <1>8 DEF FinishClass

(* A failure is caught: the open dialog is abandoned, what has been saved *)
(* is taken back, or nothing more is done. *)
LEMMA ClassCatches ==
  ASSUME ClassKnown, CaughtClass \/ Rollback
  PROVE  ClassKnown'
<1>1. qpc \in {"caught", "rollback"} /\ UNCHANGED <<posted, app, begun, uncertain, qanswer>>
  BY DEF CaughtClass, Rollback
<1>2. /\ q \in ClassLocals /\ app \in ClassApp /\ begun \in BOOLEAN /\ uncertain \in BOOLEAN
      /\ qanswer = << >> /\ ~q.restored /\ (posted # {} => uncertain /\ begun)
  BY <1>1 DEF ClassKnown, ClassTyped, ClassDone, ClassSent
<1>3. CASE qpc' \in {"fails", "rollback"} /\ UNCHANGED q
  <2>1. ClassTyped' /\ ClassFair'
    BY <1>1, <1>3 DEF ClassKnown, ClassTyped, ClassFair, ClassPlaces, Untouched
  <2>2. ClassSent' /\ ClassDone'
    BY <1>1, <1>2, <1>3 DEF ClassKnown, ClassSent, ClassDone, NothingDone, Untouched
  <2>3. Countdown'
    BY <1>3 DEF ClassKnown, Countdown, WithKind, InDialog
  <2>4. StillOld'
    BY <1>1, <1>3 DEF ClassKnown, StillOld, Untouched
  <2>5. ProvedBefore' /\ DialogKnown'
    BY <1>1, <1>3 DEF ClassKnown, ProvedBefore, DialogKnown, InDialog, Untouched
  <2>6. ClassifyAnswerIsTrue'
    BY <1>1, <1>2, <2>1 DEF ClassFair, Untouched, ClassifyAnswerIsTrue
  <2>7. qanswer' = << >> /\ qpc' # "answered"
    BY <1>1, <1>2, <1>3
  <2>8. QED
    BY <2>1, <2>2, <2>3, <2>4, <2>5, <2>6, <2>7 DEF ClassKnown
<1>4. CASE qpc' = "close" /\ q.mode \in {"apply", "prove"} /\ MayAbandon /\ q' = [q EXCEPT !.mode = "abandon"]
  <2> DEFINE m == [q EXCEPT !.mode = "abandon"]
  <2>1. /\ m \in ClassLocals /\ m.want = q.want /\ m.before = q.before /\ m.kind = q.kind /\ m.todo = q.todo
        /\ m.mode = "abandon" /\ m.modal = q.modal /\ m.restored = q.restored /\ m.closeStarted = q.closeStarted
    BY <1>2 DEF ClassLocals
  <2>2. q' = m /\ posted = {} /\ q.modal # NoDialog /\ ~q.closeStarted
    BY <1>2, <1>4 DEF MayAbandon
  <2> HIDE DEF m
  <2>3. ClassTyped'
    BY <1>1, <1>4, <2>1, <2>2 DEF ClassKnown, ClassTyped, ClassPlaces, WithKind, InDialog
  <2>4. ClassFair'
    BY <1>1, <2>1, <2>2 DEF ClassKnown, ClassFair, Untouched
  <2>5. Countdown'
    BY <1>4, <2>1, <2>2 DEF ClassKnown, Countdown, WithKind, InDialog
  <2>6. StillOld'
    BY <1>1, <2>1, <2>2 DEF ClassKnown, StillOld, Untouched
  <2>7. ProvedBefore' /\ DialogKnown'
    BY <1>4, <2>1, <2>2 DEF ProvedBefore, DialogKnown, InDialog
  <2>8. ClassDone'
    BY <1>1, <1>2, <2>1, <2>2 DEF ClassKnown, ClassDone, NothingDone, Untouched
  <2>9. posted' = {} /\ qpc' # "answered"
    BY <1>1, <1>4, <2>2
  <2>10. QED
    BY <1>1, <1>2, <2>3, <2>4, <2>5, <2>6, <2>7, <2>8, <2>9, ClassGoesOn
<1>5. CASE /\ ~uncertain /\ q.modal = NoDialog /\ qpc = "rollback"
           /\ \/ q.todo = << >> /\ qpc' = "finish" /\ q' = [q EXCEPT !.mode = "undo"]
              \/ q.todo # << >> /\ qpc' = "open" /\ q' = [q EXCEPT !.mode = "undo", !.kind = Head(q.todo)]
  <2>1. q.todo # << >> => Head(q.todo) = Len(q.todo) /\ Len(q.todo) \in 1 .. ClassKinds + 1
    <3>1. q.todo \in Seq(Classes) /\ ClassKinds \in Nat
      BY <1>2, ClassKindsAssumption DEF ClassLocals
    <3>2. q.todo # << >> => Len(q.todo) \in Nat \ {0} /\ Head(q.todo) = q.todo[1]
      BY <3>1
    <3>3. (\A i \in 1 .. Len(q.todo) : q.todo[i] = Len(q.todo) + 1 - i) /\ Len(q.todo) <= ClassKinds
      BY DEF ClassKnown, Countdown
    <3>4. QED
      BY <3>1, <3>2, <3>3
  <2>2. ASSUME NEW n \in 1 .. ClassKinds + 1
        PROVE  LET m == [q EXCEPT !.mode = "undo", !.kind = n] IN
                 /\ m \in ClassLocals /\ m.want = q.want /\ m.before = q.before /\ m.kind = n /\ m.todo = q.todo
                 /\ m.mode = "undo" /\ m.modal = q.modal /\ m.restored = q.restored
    BY <1>2 DEF ClassLocals
  <2>3. q.kind \in 1 .. ClassKinds + 1 /\ [q EXCEPT !.mode = "undo"] = [q EXCEPT !.mode = "undo", !.kind = q.kind]
    BY <1>2 DEF ClassLocals
  <2>4. /\ q' \in ClassLocals /\ q'.want = q.want /\ q'.before = q.before /\ q'.todo = q.todo
        /\ q'.mode = "undo" /\ q'.modal = NoDialog /\ ~q'.restored
        /\ qpc' = "open" => q'.kind = Len(q.todo)
        /\ qpc' = "finish" => q.todo = << >>
        /\ qpc' \in {"open", "finish"}
    <3>1. CASE qpc' = "finish" /\ q.todo = << >> /\ q' = [q EXCEPT !.mode = "undo"]
      BY <1>2, <1>5, <2>2, <2>3, <3>1
    <3>2. CASE q.todo # << >> /\ qpc' = "open" /\ q' = [q EXCEPT !.mode = "undo", !.kind = Head(q.todo)]
      BY <1>2, <1>5, <2>1, <2>2, <3>2
    <3>3. QED
      BY <1>5, <3>1, <3>2
  <2>5. ClassTyped' /\ ClassFair'
    <3>1. ClassTyped'
      BY <1>1, <2>4 DEF ClassKnown, ClassTyped, ClassPlaces, WithKind
    <3>2. ClassFair'
      BY <1>1, <2>4 DEF ClassKnown, ClassFair, Untouched
    <3>3. QED
      BY <3>1, <3>2
  <2>6. Countdown'
    BY <2>4 DEF ClassKnown, Countdown, WithKind, InDialog
  <2>7. StillOld'
    BY <1>1, <1>5, <2>4 DEF ClassKnown, StillOld, Untouched
  <2>8. ProvedBefore' /\ DialogKnown'
    BY <2>4 DEF ProvedBefore, DialogKnown, InDialog
  <2>9. ClassDone'
    BY <1>1, <2>4 DEF ClassKnown, ClassDone, NothingDone, Untouched
  <2>10. posted' = {} /\ qpc' # "answered"
    BY <1>1, <1>2, <1>5, <2>4
  <2>11. QED
    BY <1>1, <1>2, <2>5, <2>6, <2>7, <2>8, <2>9, <2>10, ClassGoesOn
<1>6. CASE CaughtClass
  <2>1. q.mode \in {"apply", "prove", "abandon", "undo", "undoprove"}
    BY <1>2 DEF ClassLocals
  <2>2. QED
    BY <1>3, <1>4, <1>6, <2>1 DEF CaughtClass
<1>7. CASE Rollback
  BY <1>3, <1>5, <1>7 DEF Rollback
<1>8. QED
  BY <1>6, <1>7

(* The failure is answered. *)
LEMMA ClassFails ==
  ASSUME ClassKnown, ClassAnswers
  PROVE  ClassKnown'
<1> DEFINE state == IF q.restored THEN "restored" ELSE IF begun THEN "unknown" ELSE "unchanged"
<1>1. qpc = "fails" /\ QtAnswers(FALSE, uncertain, state) /\ UNCHANGED <<posted, app, begun, uncertain, q>>
  BY DEF ClassAnswers
<1>2. /\ FALSE \in BOOLEAN /\ uncertain \in BOOLEAN
      /\ posted # {} => uncertain /\ begun /\ ~q.restored
  BY DEF ClassKnown, ClassTyped, ClassSent
<1>3. state \in {"restored", "unchanged"} => NothingDone /\ posted = {}
  BY <1>2 DEF ClassKnown, ClassDone
<1> HIDE DEF state
<1>4. QED
  BY <1>1, <1>2, <1>3, ClassAnswered

(* What comes of itself: an action that is taken late, and the user. *)
LEMMA ClassComes ==
  ASSUME ClassKnown, LateClassify \/ UserClassifies \/ ChannelCloses
  PROVE  ClassKnown'
<1>1. CASE LateClassify
  <2>1. PICK act \in posted :
          /\ posted' = posted \ {act} /\ app' = IF Possible(act) THEN Outcome(act) ELSE app
          /\ UNCHANGED <<begun, uncertain, qpc, q, qanswer>>
    BY <1>1 DEF LateClassify
  <2>2. /\ qpc \in {"caught", "rollback", "fails", "answered"} /\ begun /\ uncertain /\ ~q.restored
        /\ act \in ClassActs /\ app \in ClassApp /\ q \in ClassLocals
    BY <2>1 DEF ClassKnown, ClassTyped, ClassSent
  <2>3. act.name = "check" /\ act.kind \in Untouched => act.to \in {"old", q.want[act.kind]}
    BY <2>1 DEF ClassKnown, ClassSent
  <2>4. act.name = "save" =>
          /\ act.kind = q.kind
          /\ \/ q.mode = "apply" /\ q.closeStarted /\ q.modal # NoDialog
             \/ q.mode = "undo" /\ act.kind <= Len(q.todo)
    BY <2>1 DEF ClassKnown, ClassSent
  <2>5. /\ app' \in ClassApp /\ app'.users = app.users
        /\ act.name # "save" => app'.saved = app.saved
        /\ \A k \in Classes : k # act.kind => app'.saved[k] = app.saved[k]
        /\ \A k \in Untouched : app'.saved[k] \in {"old", q.want[k]}
        /\ app'.dialog \in Untouched => app'.shown \in {"old", q.want[app'.dialog]}
    <3>1. CASE Possible(act)
      BY <2>1, <2>2, <2>3, <3>1, ClassEffect DEF ClassKnown
    <3>2. CASE ~Possible(act)
      BY <2>1, <2>2, <3>2 DEF ClassKnown, ClassFair
    <3>3. QED
      BY <3>1, <3>2
  <2>6. ClassTyped'
    BY <2>1, <2>5 DEF ClassKnown, ClassTyped
  <2>7. ClassSent'
    BY <2>1, <2>5 DEF ClassKnown, ClassSent, Untouched
  <2>8. ClassFair'
    BY <2>1, <2>5 DEF ClassKnown, ClassFair, Untouched
  <2>9. Countdown' /\ DialogKnown'
    BY <2>1, <2>2 DEF ClassKnown, Countdown, DialogKnown, InDialog
  <2>10. StillOld'
    <3>1. SUFFICES ASSUME NEW k \in Untouched, k > Len(q.todo)
                   PROVE  \/ app'.saved[k] = "old"
                          \/ k = q.kind /\ q.mode = "apply" /\ q.closeStarted /\ q.modal # NoDialog
      BY <2>1, <2>5 DEF StillOld, Untouched
    <3>2. CASE act.name = "save" /\ k = act.kind
      <4>1. k \in Nat /\ Len(q.todo) \in Nat
        BY <2>2, <3>1 DEF Classes, ClassLocals, Untouched
      <4>2. QED
        BY <2>4, <3>1, <3>2, <4>1
    <3>3. CASE ~(act.name = "save" /\ k = act.kind)
      <4>1. app'.saved[k] = app.saved[k]
        BY <2>5, <3>1, <3>3 DEF Untouched
      <4>2. QED
        BY <2>2, <3>1, <4>1 DEF ClassKnown, StillOld
    <3>4. QED
      BY <3>2, <3>3
  <2>11. ProvedBefore'
    <3>1. SUFFICES ASSUME q.mode \in {"apply", "prove"}, NEW k \in Untouched, k < q.kind
                   PROVE  app'.saved[k] = q.want[k]
      BY <2>1, <2>5 DEF ProvedBefore, Untouched
    <3>2. k # q.kind
      BY <2>2, <3>1 DEF Untouched, Classes, ClassLocals
    <3>3. app'.saved[k] = app.saved[k]
      BY <2>4, <2>5, <3>1, <3>2 DEF Untouched
    <3>4. QED
      BY <3>1, <3>3 DEF ClassKnown, ProvedBefore
  <2>12. ClassDone'
    BY <2>1, <2>2 DEF ClassKnown, ClassDone
  <2>13. qanswer # << >> =>
           /\ ~Head(qanswer).ok /\ Head(qanswer).state \notin {"restored", "unchanged"}
           /\ ~Head(qanswer).unknown => \A a \in posted' : a.name # "save"
    BY <2>1 DEF ClassKnown, ClassifyAnswerIsTrue
  <2>14. ClassifyAnswerIsTrue'
    BY <2>1, <2>8, <2>13 DEF ClassifyAnswerIsTrue, ClassFair, Untouched
  <2>15. QED
    BY <2>1, <2>6, <2>7, <2>8, <2>9, <2>10, <2>11, <2>12, <2>13, <2>14 DEF ClassKnown
<1>2. CASE UserClassifies
  <2>1. /\ qanswer = << >> /\ app \in ClassApp /\ UNCHANGED <<posted, begun, uncertain, qpc, q, qanswer>>
        /\ qpc # "answered"
    BY <1>2 DEF UserClassifies, ClassKnown, ClassTyped
  <2>2. NoDialog \notin Classes /\ NoDialog \in 0 .. ClassKinds
    BY ClassKindsAssumption DEF NoDialog, Classes
  <2>3. /\ app' \in ClassApp /\ Untouched' \subseteq Untouched
        /\ \A k \in Untouched' : app'.saved[k] = app.saved[k]
        /\ app'.dialog \in Untouched' => app'.shown = app.shown
        /\ \A k \in Untouched' : app.dialog = k => app'.dialog = k
        /\ \A k \in Untouched' : app'.dialog = k => app.dialog = k
    <3>1. ASSUME NEW k \in Classes \ app.users, app.dialog = NoDialog,
                 app' = [app EXCEPT !.saved[k] = "foreign", !.users = @ \cup {k}]
          PROVE  /\ app' \in ClassApp /\ app'.users = app.users \cup {k}
                 /\ \A i \in Classes : i # k => app'.saved[i] = app.saved[i]
                 /\ app'.dialog = app.dialog /\ app'.shown = app.shown
      <4> DEFINE v == [app.saved EXCEPT ![k] = "foreign"]
                 u == app.users \cup {k}
      <4>1. v \in [Classes -> Marks] /\ \A i \in Classes : v[i] = IF i = k THEN "foreign" ELSE app.saved[i]
        BY <2>1 DEF ClassApp, Marks
      <4>2. u \in SUBSET Classes
        BY <2>1 DEF ClassApp
      <4>3. app' = [app EXCEPT !.saved = v, !.users = u]
        BY <2>1, <3>1 DEF ClassApp
      <4> HIDE DEF v
      <4>4. app' \in ClassApp /\ app'.saved = v /\ app'.users = app.users \cup {k} /\ app'.dialog = app.dialog /\ app'.shown = app.shown
        BY <2>1, <4>1, <4>2, <4>3 DEF ClassApp
      <4>5. QED
        BY <4>1, <4>4
    <3>2. ASSUME app.dialog \in Classes \ app.users,
                 app' = [app EXCEPT !.shown = "foreign", !.users = @ \cup {app.dialog}]
          PROVE  /\ app' \in ClassApp /\ app'.users = app.users \cup {app.dialog} /\ app'.saved = app.saved
                 /\ app'.dialog = app.dialog
      BY <2>1, <3>2 DEF ClassApp, Marks
    <3>3. ASSUME app.dialog \in Classes \ app.users,
                 app' = [app EXCEPT !.dialog = NoDialog, !.users = @ \cup {app.dialog}]
          PROVE  /\ app' \in ClassApp /\ app'.users = app.users \cup {app.dialog} /\ app'.saved = app.saved
                 /\ app'.dialog = NoDialog /\ app'.shown = app.shown
      BY <2>1, <2>2, <3>3 DEF ClassApp
    <3>4. CASE \E k \in Classes \ app.users:
                 /\ app.dialog = NoDialog
                 /\ app' = [app EXCEPT !.saved[k] = "foreign", !.users = @ \cup {k}]
      BY <3>1, <3>4 DEF Untouched
    <3>5. CASE /\ app.dialog \in Classes \ app.users
               /\ app' = [app EXCEPT !.shown = "foreign", !.users = @ \cup {app.dialog}]
      BY <3>2, <3>5 DEF Untouched
    <3>6. CASE /\ app.dialog \in Classes \ app.users
               /\ app' = [app EXCEPT !.dialog = NoDialog, !.users = @ \cup {app.dialog}]
      BY <2>2, <3>3, <3>6 DEF Untouched
    <3>7. QED
      BY <1>2, <3>4, <3>5, <3>6 DEF UserClassifies
  <2>4. ClassTyped'
    BY <2>1, <2>3 DEF ClassKnown, ClassTyped
  <2>5. ClassSent'
    BY <2>1, <2>3 DEF ClassKnown, ClassSent
  <2>6. ClassFair'
    BY <2>1, <2>3 DEF ClassKnown, ClassFair
  <2>7. Countdown'
    BY <2>1 DEF ClassKnown, Countdown
  <2>8. StillOld'
    BY <2>1, <2>3 DEF ClassKnown, StillOld
  <2>9. ProvedBefore'
    BY <2>1, <2>3 DEF ClassKnown, ProvedBefore
  <2>10. DialogKnown'
    <3>1. qpc \in {"present", "identify"} /\ q.kind \in Untouched' => app'.dialog = q.kind /\ app'.shown = app'.saved[q.kind]
      BY <2>3 DEF ClassKnown, DialogKnown
    <3>2. QED
      BY <2>1, <2>3, <3>1 DEF ClassKnown, DialogKnown
  <2>11. ClassDone'
    BY <2>1, <2>3 DEF ClassKnown, ClassDone, NothingDone
  <2>12. ClassifyAnswerIsTrue'
    BY <2>1, <2>6 DEF ClassFair, Untouched, ClassifyAnswerIsTrue
  <2>13. QED
    BY <2>1, <2>4, <2>5, <2>6, <2>7, <2>8, <2>9, <2>10, <2>11, <2>12 DEF ClassKnown
<1>3. CASE ChannelCloses
  <2>1. UNCHANGED <<posted, app, begun, uncertain, qpc, q, qanswer>>
    BY <1>3 DEF ChannelCloses
  <2>2. ClassTyped' /\ ClassSent' /\ ClassFair'
    BY <2>1 DEF ClassKnown, ClassTyped, ClassSent, ClassFair, Untouched
  <2>3. Countdown' /\ StillOld' /\ ProvedBefore'
    BY <2>1 DEF ClassKnown, Countdown, StillOld, ProvedBefore, Untouched
  <2>4. DialogKnown' /\ ClassDone' /\ ClassifyAnswerIsTrue'
    BY <2>1 DEF ClassKnown, DialogKnown, ClassDone, NothingDone, ClassifyAnswerIsTrue, Untouched
  <2>5. QED
    BY <2>1, <2>2, <2>3, <2>4 DEF ClassKnown
<1>4. QED
  BY <1>1, <1>2, <1>3

(* It holds when the operation begins. *)
LEMMA ClassBegins ==
  ASSUME ClassifyInit
  PROVE  ClassKnown
<1> DEFINE olds == [k \in Classes |-> "old"]
<1>1. PICK want \in [Classes -> {"old", "new"}], detail \in BOOLEAN :
        SessionInit("prepare",
          [detail |-> detail, dialog |-> NoDialog, shown |-> "old", saved |-> olds, users |-> {}],
          [want |-> want, before |-> olds, kind |-> 1, todo |-> << >>, mode |-> "apply",
           modal |-> NoDialog, verified |-> FALSE, closeStarted |-> FALSE, staged |-> FALSE, expected |-> "old",
           prepared |-> FALSE, finishing |-> FALSE, restored |-> FALSE])
  BY DEF ClassifyInit
<1>2. /\ 1 \in 1 .. ClassKinds + 1 /\ << >> \in Seq(Classes) /\ NoDialog \in 0 .. ClassKinds /\ NoDialog \notin Classes
      /\ 1 <= ClassKinds
  BY ClassKindsAssumption DEF NoDialog, Classes
<1>3. olds \in [Classes -> {"old"}] /\ olds \in [Classes -> Marks] /\ "old" \in Marks
  BY DEF Marks
<1> HIDE DEF olds
<1>4. /\ app = [detail |-> detail, dialog |-> NoDialog, shown |-> "old", saved |-> olds, users |-> {}]
      /\ q = [want |-> want, before |-> olds, kind |-> 1, todo |-> << >>, mode |-> "apply",
              modal |-> NoDialog, verified |-> FALSE, closeStarted |-> FALSE, staged |-> FALSE, expected |-> "old",
              prepared |-> FALSE, finishing |-> FALSE, restored |-> FALSE]
      /\ posted = {} /\ begun = FALSE /\ uncertain = FALSE /\ qpc = "prepare" /\ qanswer = << >>
  BY <1>1 DEF SessionInit
<1>5. /\ app \in ClassApp /\ app.saved = olds /\ app.dialog = NoDialog
  BY <1>2, <1>3, <1>4 DEF ClassApp
<1>6. q \in ClassLocals
  <2>1. ASSUME NEW n \in 1 .. ClassKinds + 1, NEW b \in [Classes -> Marks], NEW no \in BOOLEAN, NEW t \in Seq(Classes),
               NEW d \in 0 .. ClassKinds, NEW e \in Marks
        PROVE  [want |-> want, before |-> b, kind |-> n, todo |-> t, mode |-> "apply",
                modal |-> d, verified |-> no, closeStarted |-> no, staged |-> no, expected |-> e,
                prepared |-> no, finishing |-> no, restored |-> no] \in ClassLocals
    BY <2>1 DEF ClassLocals
  <2>2. FALSE \in BOOLEAN
    OBVIOUS
  <2>3. QED
    BY <1>2, <1>3, <1>4, <2>1, <2>2, Zenon
<1>7. /\ q.before = olds /\ q.kind = 1 /\ q.todo = << >> /\ q.mode = "apply" /\ q.modal = NoDialog /\ q.restored = FALSE
  BY <1>4
<1>8. ClassTyped /\ ClassSent
  BY <1>4, <1>5, <1>6 DEF ClassTyped, ClassSent, ClassPlaces, WithKind
<1>9. ClassFair
  BY <1>2, <1>3, <1>5, <1>7 DEF ClassFair, Untouched
<1>10. Countdown
  BY <1>2, <1>4, <1>7, ClassKindsAssumption DEF Countdown
<1>11. StillOld /\ ProvedBefore
  <2>1. StillOld
    BY <1>3, <1>5 DEF StillOld, Untouched
  <2>2. ProvedBefore
    BY <1>7 DEF ProvedBefore, Untouched, Classes
  <2>3. QED
    BY <2>1, <2>2
<1>12. DialogKnown /\ ClassDone
  BY <1>3, <1>4, <1>5, <1>7 DEF DialogKnown, ClassDone, NothingDone, InDialog, Untouched
<1>13. ClassifyAnswerIsTrue
  BY <1>4, <1>9 DEF ClassFair, Untouched, ClassifyAnswerIsTrue
<1>14. QED
  BY <1>4, <1>8, <1>9, <1>10, <1>11, <1>12, <1>13 DEF ClassKnown

(* Every step keeps it. *)
LEMMA ClassKeeps ==
  ASSUME ClassKnown, ClassifyNext
  PROVE  ClassKnown'
BY ClassPrepares, ClassOpens, ClassToggles, ClassCloses, ClassNextKind, ClassFinishes, ClassCatches,
   ClassFails, ClassComes DEF ClassifyNext

-----------------------------------------------------------------------------
(* All of them together.                                                   *)
QtKnown ==
  /\ op = "receipt_manager_update" => UpdateKnown
  /\ op = "receipt_manager_link" => LinkKnown
  /\ op = "receipt_manager_action" => PressKnown
  /\ op = "goto" => GotoKnown
  /\ op = "receipt_manager_classify" => ClassKnown

(* What is known depends on nothing but the session. *)
LEMMA QtRests ==
  ASSUME QtKnown, UNCHANGED <<op, qtvars>>
  PROVE  QtKnown'
<1>1. UNCHANGED <<op, channel, posted, app, begun, uncertain, qpc, q, qanswer>>
  BY DEF qtvars
<1>2. ASSUME UpdateKnown PROVE UpdateKnown'
  <2>1. UpdateTyped' /\ UserWords' /\ EditSent'
    BY <1>1, <1>2 DEF UpdateKnown, UpdateTyped, UserWords, EditSent
  <2>2. EditKnown' /\ UpdateAnswerIsTrue'
    BY <1>1, <1>2 DEF UpdateKnown, EditKnown, OthersHold, UpdateAnswerIsTrue
  <2>3. QED
    BY <1>1, <1>2, <2>1, <2>2 DEF UpdateKnown
<1>3. ASSUME LinkKnown PROVE LinkKnown'
  <2>1. LinkTyped' /\ SentOnce'
    BY <1>1, <1>3 DEF LinkKnown, LinkTyped, SentOnce
  <2>2. ApplyMarked'
    BY <1>1, <1>3 DEF LinkKnown, ApplyMarked
  <2>3. BeforeButton' /\ AfterButton'
    BY <1>1, <1>3 DEF LinkKnown, BeforeButton, AfterButton
  <2>4. QED
    BY <1>1, <1>3, <2>1, <2>2, <2>3 DEF LinkKnown, LinkAnswerIsTrue
<1>4. ASSUME PressKnown PROVE PressKnown'
  BY <1>1, <1>4 DEF PressKnown, PressAnswerIsTrue
<1>5. ASSUME GotoKnown PROVE GotoKnown'
  <2>1. GotoTyped' /\ OneWay'
    BY <1>1, <1>5 DEF GotoKnown, GotoTyped, OneWay
  <2>2. GotoAnswerIsTrue'
    BY <1>1, <1>5 DEF GotoKnown, GotoAnswerIsTrue
  <2>3. QED
    BY <1>1, <1>5, <2>1, <2>2 DEF GotoKnown
<1>6. ASSUME ClassKnown PROVE ClassKnown'
  <2>1. ClassTyped' /\ ClassSent' /\ ClassFair'
    BY <1>1, <1>6 DEF ClassKnown, ClassTyped, ClassSent, ClassFair, Untouched
  <2>2. Countdown' /\ StillOld' /\ ProvedBefore'
    BY <1>1, <1>6 DEF ClassKnown, Countdown, StillOld, ProvedBefore, Untouched
  <2>3. DialogKnown' /\ ClassDone' /\ ClassifyAnswerIsTrue'
    BY <1>1, <1>6 DEF ClassKnown, DialogKnown, ClassDone, NothingDone, ClassifyAnswerIsTrue, Untouched
  <2>4. QED
    BY <1>1, <1>6, <2>1, <2>2, <2>3 DEF ClassKnown
<1>7. QED
  BY <1>1, <1>2, <1>3, <1>4, <1>5, <1>6 DEF QtKnown

(* An operation over a Qt session says ok only of what it has read back,   *)
(* and unchanged or restored only when nothing is left of it and nothing   *)
(* it sent is still to come; the receipts, the form and the links are      *)
(* otherwise as they were or as the user made them                         *)
(* (qt-native-update.ts, qt-native-link.ts, qt-native-press.ts,            *)
(* qt-native-goto.ts, qt-native-classify.ts).                              *)
THEOREM QtAnswersAlwaysTrue == OperationsSpec => []QtAnswersAreTrue
<1>1. OperationsInit => QtKnown
  <2> SUFFICES ASSUME OperationsInit PROVE QtKnown
    OBVIOUS
  <2>1. QtStarts
    BY DEF OperationsInit
  <2>2. QED
    BY <2>1, UpdateBegins, LinkBegins, PressBegins, GotoBegins, ClassBegins DEF QtStarts, QtKnown
<1>2. QtKnown /\ [OperationsNext]_opvars => QtKnown'
  <2> SUFFICES ASSUME QtKnown, [OperationsNext]_opvars PROVE QtKnown'
    OBVIOUS
  <2>1. op' = op /\ (QtNext \/ UNCHANGED qtvars)
    BY QtStep
  <2>2. CASE UNCHANGED qtvars
    BY <2>1, <2>2, QtRests
  <2>3. CASE op = "receipt_manager_update" /\ UpdateNext
    BY <2>1, <2>3, UpdateKeeps DEF QtKnown
  <2>4. CASE op = "receipt_manager_link" /\ LinkNext
    BY <2>1, <2>4, LinkKeeps DEF QtKnown
  <2>5. CASE op = "receipt_manager_action" /\ PressNext
    BY <2>1, <2>5, PressKeeps DEF QtKnown
  <2>6. CASE op = "goto" /\ GotoNext
    BY <2>1, <2>6, GotoKeeps DEF QtKnown
  <2>7. CASE op = "receipt_manager_classify" /\ ClassifyNext
    BY <2>1, <2>7, ClassKeeps DEF QtKnown
  <2>8. QED
    BY <2>1, <2>2, <2>3, <2>4, <2>5, <2>6, <2>7 DEF QtNext
<1>3. QtKnown => QtAnswersAreTrue
  BY DEF QtKnown, QtAnswersAreTrue, UpdateKnown, LinkKnown, PressKnown, GotoKnown, ClassKnown
<1>4. QED
  BY <1>1, <1>2, <1>3, PTL DEF OperationsSpec

=============================================================================
