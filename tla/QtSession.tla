----------------------------- MODULE QtSession -----------------------------
(***************************************************************************)
(* An operation over one session of QtNativeClient: the channel to the     *)
(* program, the actions whose fate the client does not know, and what a    *)
(* reading or an acknowledged action may end with.  The client never sends *)
(* an action twice, and after a failure of its transport sends none.       *)
(***************************************************************************)
EXTENDS Integers, Sequences, SequencesExt, FiniteSets

VARIABLES
  channel,   \* failure of the client: open, known or unknown outcome
  posted,    \* actions sent whose fate nobody has learnt: they may yet happen
  app,       \* what the operation works on in the program
  begun,     \* mutationStarted
  uncertain,    \* outcomeUnknown, or uncertain
  qpc,       \* place in the operation
  q,         \* its local state
  qanswer    \* its result

qtvars == <<channel, posted, app, begun, uncertain, qpc, q, qanswer>>

(* What requestAcknowledged gives its caller: an error of the transport,   *)
(* or the reply of the program, whose receipt is acknowledged.              *)
Replies == [thrown: BOOLEAN, ok: BOOLEAN, attempted: BOOLEAN, unknown: BOOLEAN]
Threw(attempted, unknown) ==
  [thrown |-> TRUE, ok |-> FALSE, attempted |-> attempted, unknown |-> unknown]
Returned(ok, attempted, unknown) ==
  [thrown |-> FALSE, ok |-> ok, attempted |-> attempted, unknown |-> unknown]

QtAnswers(ok, unknown, state) ==
  qpc' = "answered" /\ qanswer' = <<[ok |-> ok, unknown |-> unknown, state |-> state]>>

SessionInit(start, program, locals) ==
  /\ channel = "open" /\ posted = {} /\ app = program /\ begun = FALSE /\ uncertain = FALSE
  /\ qpc = start /\ q = locals /\ qanswer = << >>

-----------------------------------------------------------------------------
(* Before anything is written to the pipe: the failure that is kept, the   *)
(* operation's budget, the caller's signal.                                *)
NotSubmitted(r) ==
  /\ \/ channel # "open" /\ r = Threw(FALSE, channel = "unknown")
     \/ r \in {Threw(FALSE, begun), Threw(FALSE, FALSE)}
  /\ UNCHANGED <<channel, posted, app>>

(* No answer within the time, the signal, a broken pipe or an answer that  *)
(* is no answer: the transport fails for good.                              *)
NoReplyInTime(r) ==
  /\ channel = "open" /\ channel' = "unknown" /\ r = Threw(FALSE, TRUE)

(* An answer of the program to an action it takes or refuses; one that it  *)
(* attempted and that failed may have had its effect.                      *)
Replied(act, accepts, done, r) ==
  /\ channel = "open" /\ UNCHANGED channel
  /\ \/ r = Returned(TRUE, TRUE, FALSE) /\ accepts /\ app' = done /\ UNCHANGED posted
     \/ r = Returned(FALSE, FALSE, FALSE) /\ UNCHANGED <<posted, app>>
     \/ /\ r = Returned(FALSE, TRUE, FALSE) /\ UNCHANGED posted
        /\ app' \in {app, IF accepts THEN done ELSE app}
     \/ r = Returned(FALSE, TRUE, TRUE) /\ posted' = posted \cup {act} /\ UNCHANGED app
     \/ r = Returned(FALSE, FALSE, TRUE) /\ UNCHANGED <<posted, app>>  \* a lost lease

(* The answer has come, its receipt could not be acknowledged: no time was *)
(* left, the acknowledgment failed, or the answer contradicts itself.       *)
NotAcknowledged(accepts, done, r) ==
  /\ channel = "open" /\ channel' = "unknown" /\ UNCHANGED posted
  /\ \/ r = Threw(TRUE, TRUE) /\ app' \in {app, IF accepts THEN done ELSE app}
     \/ r = Threw(FALSE, TRUE) /\ app' \in {app, IF accepts THEN done ELSE app}

RequestAcknowledged(act, accepts, done, r) ==
  \/ NotSubmitted(r)
  \/ NoReplyInTime(r) /\ posted' = posted \cup {act} /\ UNCHANGED app
  \/ Replied(act, accepts, done, r)
  \/ NotAcknowledged(accepts, done, r)

(* A reading that fails.                                                    *)
ReadingThrows(r) ==
  \/ NotSubmitted(r)
  \/ NoReplyInTime(r) /\ UNCHANGED <<posted, app>>

ReadWorks == channel = "open" /\ UNCHANGED <<channel, posted, app>>

(* The pipe ends while nothing is asked.                                    *)
ChannelCloses ==
  /\ channel = "open" /\ channel' = "known"
  /\ UNCHANGED <<posted, app, begun, uncertain, qpc, q, qanswer>>

(* An error of a reply, or of its transport, that leaves the outcome open. *)
Doubtful(r) == r.thrown \/ r.unknown \/ r.attempted

(* What the operations take for a mutation that has started.               *)
Begun(r) == begun \/ r.attempted \/ (r.thrown /\ r.unknown)

=============================================================================
