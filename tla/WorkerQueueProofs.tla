------------------------- MODULE WorkerQueueProofs -------------------------
(***************************************************************************)
(* What holds of the worker bridge for any number of calls and any depth   *)
(* of its queue.                                                           *)
(***************************************************************************)
EXTENDS WorkerQueue, SequenceTheorems, FiniteSetTheorems, TLAPS

-----------------------------------------------------------------------------
(* The queue's operators. *)

(* Taking the i-th element out keeps the others, in their order. *)
LEMMA SpliceProperties ==
  ASSUME NEW S, NEW s \in Seq(S), NEW i \in 1 .. Len(s)
  PROVE  /\ Splice(s, i) \in Seq(S)
         /\ Len(Splice(s, i)) = Len(s) - 1
         /\ \A j \in 1 .. Len(s) - 1 :
              Splice(s, i)[j] = IF j < i THEN s[j] ELSE s[j + 1]
<1>1. Len(s) \in Nat /\ s \in [1 .. Len(s) -> S]
  BY LenProperties
<1>2. Len(s) - 1 \in Nat
  BY <1>1
<1>3. Splice(s, i) \in [1 .. Len(s) - 1 -> S]
  BY <1>1, <1>2 DEF Splice
<1>4. Splice(s, i) \in Seq(S)
  BY <1>2, <1>3, SeqDef
<1>5. Len(Splice(s, i)) = Len(s) - 1
  BY <1>2, <1>3, <1>4, LenProperties
<1>6. QED
  BY <1>4, <1>5 DEF Splice

-----------------------------------------------------------------------------
(* Every variable keeps its type: in particular the queue stays a sequence *)
(* of calls when an abort takes one out of its middle.                     *)

(* Beginning a call keeps the types.                                       *)
LEMMA BeginType ==
  ASSUME TypeOK, NEW c \in Calls, NEW ph \in [Calls -> Phases], Begin(c, ph)
  PROVE  /\ phase' \in [Calls -> Phases]
         /\ answer' \in [Calls -> Answers \cup {"none"}]
         /\ watch' \in [Calls -> Watches]
         /\ child' \in [Calls -> Children]
         /\ argsFile' \in [Calls -> BOOLEAN]
<1>1. ASSUME NEW e \in StartErrors, NEW left \in BOOLEAN,
             phase' = [ph EXCEPT ![c] = "settled"],
             answer' = [answer EXCEPT ![c] = e],
             argsFile' = [argsFile EXCEPT ![c] = left],
             UNCHANGED <<watch, child>>
      PROVE  /\ phase' \in [Calls -> Phases]
             /\ answer' \in [Calls -> Answers \cup {"none"}]
             /\ watch' \in [Calls -> Watches]
             /\ child' \in [Calls -> Children]
             /\ argsFile' \in [Calls -> BOOLEAN]
  BY <1>1 DEF TypeOK, Phases, Answers
<1>2. ASSUME NEW p \in Children,
             phase' = [ph EXCEPT ![c] = "active"],
             child' = [child EXCEPT ![c] = p],
             argsFile' = [argsFile EXCEPT ![c] = TRUE],
             watch' = [watch EXCEPT ![c] = "call"],
             UNCHANGED answer
      PROVE  /\ phase' \in [Calls -> Phases]
             /\ answer' \in [Calls -> Answers \cup {"none"}]
             /\ watch' \in [Calls -> Watches]
             /\ child' \in [Calls -> Children]
             /\ argsFile' \in [Calls -> BOOLEAN]
  BY <1>2 DEF TypeOK, Phases, Watches
<1>3. QED
  BY <1>1, <1>2 DEF Begin

(* Settling a call keeps the types.                                        *)
LEMMA SettleType ==
  ASSUME TypeOK, NEW c \in Calls, NEW kind \in Answers, Settle(c, kind)
  PROVE  /\ phase' \in [Calls -> Phases]
         /\ answer' \in [Calls -> Answers \cup {"none"}]
         /\ watch' \in [Calls -> Watches]
         /\ argsFile' \in [Calls -> BOOLEAN]
  BY DEF TypeOK, Settle, Phases, Answers, Watches

(* Ending a process keeps the types.                                       *)
LEMMA TerminationType ==
  ASSUME TypeOK, NEW c \in Calls, NEW why \in Causes, BeginTermination(c, why)
  PROVE  /\ phase' \in [Calls -> Phases]
         /\ answer' \in [Calls -> Answers \cup {"none"}]
         /\ cause' \in [Calls -> Causes \cup {"none"}]
         /\ watch' \in [Calls -> Watches]
         /\ argsFile' \in [Calls -> BOOLEAN]
         /\ UNCHANGED <<queue, running, failure, child>>
<1>1. "spawn" \in Answers
  BY DEF Answers, StartErrors
<1>2. CASE Settle(c, "spawn")
  BY <1>1, <1>2, SettleType DEF BeginTermination, TypeOK
<1>3. CASE watch' = [watch EXCEPT ![c] = "grace"] /\ UNCHANGED <<phase, answer, argsFile>>
  BY <1>3 DEF BeginTermination, TypeOK, Watches
<1>4. QED
  BY <1>2, <1>3 DEF BeginTermination

(* Every step of the queue keeps the types.                                *)
LEMMA TypeStep == TypeOK /\ [Next]_vars => TypeOK'
<1> SUFFICES ASSUME TypeOK, [Next]_vars PROVE TypeOK'
  OBVIOUS
<1>1. ASSUME NEW c \in Calls, CallWorker(c) PROVE TypeOK'
  <2>1. CASE Refuse(c, "worker-isolation-lost") \/ Refuse(c, "aborted") \/ Refuse(c, "busy")
    BY <2>1 DEF Refuse, TypeOK, Phases, Answers, Causes
  <2>2. CASE /\ running
             /\ queue' = Append(queue, c)
             /\ phase' = [phase EXCEPT ![c] = "queued"]
             /\ UNCHANGED <<running, answer, watch, child, argsFile>>
             /\ UNCHANGED <<failure, aborted, cause>>
    <3>1. queue' \in Seq(Calls)
      BY <2>2, AppendProperties DEF TypeOK
    <3>2. QED
      BY <2>2, <3>1 DEF TypeOK, Phases
  <2>3. ASSUME queue' = Tail(Append(queue, c)), running' = TRUE,
               Begin(Head(Append(queue, c)), [phase EXCEPT ![c] = "queued"]),
               UNCHANGED <<failure, aborted, cause>>
        PROVE  TypeOK'
    <3>1. /\ Append(queue, c) \in Seq(Calls)
          /\ Append(queue, c) # <<>>
      BY AppendProperties DEF TypeOK
    <3>2. /\ Head(Append(queue, c)) \in Calls
          /\ Tail(Append(queue, c)) \in Seq(Calls)
      BY <3>1, HeadTailProperties
    <3>3. [phase EXCEPT ![c] = "queued"] \in [Calls -> Phases]
      BY DEF TypeOK, Phases
    <3>4. QED
      BY <2>3, <3>2, <3>3, BeginType DEF TypeOK
  <2>4. QED
    BY <1>1, <2>1, <2>2, <2>3 DEF CallWorker
<1>2. ASSUME NEW c \in Calls, Abort(c) PROVE TypeOK'
  <2>1. aborted' \in [Calls -> BOOLEAN]
    BY <1>2 DEF Abort, TypeOK
  <2>2. ASSUME NEW i \in 1 .. Len(queue), queue' = Splice(queue, i),
               phase' = [phase EXCEPT ![c] = "done"],
               answer' = [answer EXCEPT ![c] = "aborted"],
               UNCHANGED <<running, failure, cause, watch, child, argsFile>>
        PROVE  TypeOK'
    <3>1. queue' \in Seq(Calls)
      BY <2>2, SpliceProperties DEF TypeOK
    <3>2. QED
      BY <2>1, <2>2, <3>1 DEF TypeOK, Phases, Answers, Causes
  <2>3. CASE BeginTermination(c, "aborted")
    <3>1. "aborted" \in Causes
      BY DEF Causes
    <3>2. QED
      BY <2>1, <2>3, <3>1, TerminationType DEF TypeOK
  <2>4. CASE UNCHANGED <<queue, running, failure, phase, answer, cause,
                         watch, child, argsFile>>
    BY <2>1, <2>4 DEF TypeOK
  <2>5. QED
    BY <1>2, <2>2, <2>3, <2>4 DEF Abort
<1>3. ASSUME NEW c \in Calls, Finish(c) PROVE TypeOK'
  <2>1. [phase EXCEPT ![c] = "done"] \in [Calls -> Phases]
    BY DEF TypeOK, Phases
  <2>2. CASE queue = <<>>
    BY <1>3, <2>1, <2>2 DEF Finish, TypeOK
  <2>3. CASE queue # <<>> /\ failure
    <3>1. queue' \in Seq(Calls) /\ running' = FALSE
      BY <1>3, <2>3, EmptySeq DEF Finish
    <3>2. phase' \in [Calls -> Phases]
      BY <1>3, <2>1, <2>3 DEF Finish, Phases
    <3>3. answer' \in [Calls -> Answers \cup {"none"}]
      BY <1>3, <2>3 DEF Finish, TypeOK, Answers
    <3>4. QED
      BY <1>3, <2>3, <3>1, <3>2, <3>3 DEF Finish, TypeOK
  <2>4. CASE queue # <<>> /\ ~failure
    <3>1. Head(queue) \in Calls /\ Tail(queue) \in Seq(Calls)
      BY <2>4, HeadTailProperties DEF TypeOK
    <3>2. QED
      BY <1>3, <2>1, <2>4, <3>1, BeginType DEF Finish, TypeOK
  <2>5. QED
    BY <2>2, <2>3, <2>4
<1>4. ASSUME NEW c \in Calls, CallTimer(c) \/ TooMuchOutput(c) PROVE TypeOK'
  <2>1. /\ BeginTermination(c, "timeout") \/ BeginTermination(c, "output-too-large")
        /\ UNCHANGED aborted
    BY <1>4 DEF CallTimer, TooMuchOutput
  <2>2. "timeout" \in Causes /\ "output-too-large" \in Causes
    BY DEF Causes
  <2>3. QED
    BY <2>1, <2>2, TerminationType DEF TypeOK
<1>5. ASSUME NEW c \in Calls, GraceTimer(c) PROVE TypeOK'
  BY <1>5 DEF GraceTimer, TypeOK, Watches
<1>6. ASSUME NEW c \in Calls, HardTimer(c) PROVE TypeOK'
  <2>1. cause[c] \in Answers
    BY <1>6 DEF HardTimer, TypeOK, Answers
  <2>2. QED
    BY <1>6, <2>1, SettleType DEF HardTimer, TypeOK
<1>7. ASSUME NEW c \in Calls, ChildError(c) PROVE TypeOK'
  <2>1. "spawn" \in Answers
    BY DEF Answers, StartErrors
  <2>2. QED
    BY <1>7, <2>1, SettleType DEF ChildError, TypeOK
<1>8. ASSUME NEW c \in Calls, ChildClose(c) PROVE TypeOK'
  <2>1. PICK kind \in Answers : Settle(c, kind)
    BY <1>8 DEF ChildClose, TypeOK, Answers
  <2>2. QED
    BY <1>8, <2>1, SettleType DEF ChildClose, TypeOK
<1>9. ASSUME NEW c \in Calls, ChildExit(c) PROVE TypeOK'
  BY <1>9 DEF ChildExit, TypeOK, Children
<1>10. CASE UNCHANGED vars
  BY <1>10 DEF vars, TypeOK
<1>11. QED
  BY <1>1, <1>2, <1>3, <1>4, <1>5, <1>6, <1>7, <1>8, <1>9, <1>10 DEF Next

(* The queue starts empty.                                                 *)
LEMMA InitTyped == Init => TypeOK
<1> SUFFICES ASSUME Init PROVE TypeOK
  OBVIOUS
<1>1. <<>> \in Seq(Calls)
  BY EmptySeq
<1>2. /\ phase \in [Calls -> Phases] /\ watch \in [Calls -> Watches]
      /\ child \in [Calls -> Children]
  BY DEF Init, Phases, Watches, Children
<1>3. /\ answer \in [Calls -> Answers \cup {"none"}]
      /\ cause \in [Calls -> Causes \cup {"none"}]
      /\ aborted \in [Calls -> BOOLEAN] /\ argsFile \in [Calls -> BOOLEAN]
  BY DEF Init
<1>4. QED
  BY <1>1, <1>2, <1>3 DEF Init, TypeOK

(* The state of the bridge stays one of those the code can be in. *)
THEOREM TypeCorrect == Spec => []TypeOK
BY InitTyped, TypeStep, PTL DEF Spec

-----------------------------------------------------------------------------
(* The inductive invariant.  Bookkeeping is what the queue, the phases and *)
(* the answers always agree on; Isolation is what keeps the process trees  *)
(* apart, and needs that a kill does not fail on a living process.         *)

Turns ==
  /\ \A c \in Calls : Current(c) => running
  /\ \A c, d \in Calls : Current(c) /\ Current(d) => c = d

Waiting ==
  /\ queue # <<>> => running
  /\ \A i \in 1 .. Len(queue) : phase[queue[i]] = "queued"
  /\ \A i, j \in 1 .. Len(queue) : queue[i] = queue[j] => i = j
  /\ \A c \in Calls : phase[c] = "queued" =>
       ~aborted[c] /\ \E i \in 1 .. Len(queue) : queue[i] = c

Unanswered ==
  \A c \in Calls : phase[c] \in {"new", "queued", "active"} => answer[c] = "none"

Results ==
  \A c \in Calls : answer[c] = "result" =>
    child[c] = "gone" /\ cause[c] = "none" /\ ~argsFile[c]

Bookkeeping == Turns /\ Waiting /\ Unanswered /\ Results

Survivors ==
  \A c \in Calls : Live(c) =>
    \/ phase[c] = "active"
    \/ phase[c] \in {"settled", "done"} /\ failure /\ answer[c] \in Causes

Isolation == Survivors /\ OneLiveJob

(* What a call's start and end leave alone. *)
LEMMA BeginEffect ==
  ASSUME TypeOK, NEW c \in Calls, NEW ph \in [Calls -> Phases], Begin(c, ph)
  PROVE  /\ \A d \in Calls \ {c} :
              /\ phase'[d] = ph[d] /\ answer'[d] = answer[d]
              /\ child'[d] = child[d] /\ argsFile'[d] = argsFile[d]
         /\ \/ phase'[c] = "active" /\ answer'[c] = answer[c]
            \/ /\ phase'[c] = "settled" /\ answer'[c] \in StartErrors
               /\ child'[c] = child[c]
<1>1. ASSUME NEW e \in StartErrors, NEW left \in BOOLEAN,
             phase' = [ph EXCEPT ![c] = "settled"],
             answer' = [answer EXCEPT ![c] = e],
             argsFile' = [argsFile EXCEPT ![c] = left],
             UNCHANGED <<watch, child>>
      PROVE  /\ \A d \in Calls \ {c} :
                  /\ phase'[d] = ph[d] /\ answer'[d] = answer[d]
                  /\ child'[d] = child[d] /\ argsFile'[d] = argsFile[d]
             /\ phase'[c] = "settled" /\ answer'[c] \in StartErrors
             /\ child'[c] = child[c]
  BY <1>1 DEF TypeOK
<1>2. ASSUME NEW p \in Children,
             phase' = [ph EXCEPT ![c] = "active"],
             child' = [child EXCEPT ![c] = p],
             argsFile' = [argsFile EXCEPT ![c] = TRUE],
             watch' = [watch EXCEPT ![c] = "call"],
             UNCHANGED answer
      PROVE  /\ \A d \in Calls \ {c} :
                  /\ phase'[d] = ph[d] /\ answer'[d] = answer[d]
                  /\ child'[d] = child[d] /\ argsFile'[d] = argsFile[d]
             /\ phase'[c] = "active" /\ answer'[c] = answer[c]
  BY <1>2 DEF TypeOK
<1>3. QED
  BY <1>1, <1>2 DEF Begin

(* What settling a call changes besides its own entry.                     *)
LEMMA SettleEffect ==
  ASSUME TypeOK, NEW c \in Calls, NEW kind, Settle(c, kind)
  PROVE  /\ \A d \in Calls \ {c} :
              phase'[d] = phase[d] /\ answer'[d] = answer[d] /\ argsFile'[d] = argsFile[d]
         /\ phase'[c] = "settled"
         /\ answer'[c] \in {kind, "worker-transport-cleanup"}
         /\ kind \notin Endings => answer'[c] = kind
         /\ answer'[c] = "result" => kind = "result" /\ ~argsFile'[c]
  BY DEF TypeOK, Settle, Endings

-----------------------------------------------------------------------------
(* Every step preserves the bookkeeping.                                   *)

(* A call that leaves the bridge's hands in this turn, or enters them,     *)
(* while the rest of the bookkeeping stays.                                *)
LEMMA BookkeepingSettle ==
  ASSUME TypeOK, Bookkeeping, NEW c \in Calls, phase[c] = "active",
         NEW kind, Settle(c, kind),
         kind = "result" => child[c] = "gone" /\ cause[c] = "none",
         UNCHANGED <<queue, running, aborted, child>>,
         \A d \in Calls \ {c} : cause'[d] = cause[d],
         kind = "result" => cause'[c] = cause[c]
  PROVE  Bookkeeping'
<1>1. /\ \A d \in Calls \ {c} :
           phase'[d] = phase[d] /\ answer'[d] = answer[d] /\ argsFile'[d] = argsFile[d]
      /\ phase'[c] = "settled"
      /\ answer'[c] = "result" => kind = "result" /\ ~argsFile'[c]
  BY SettleEffect
<1>2. Turns'
  BY <1>1 DEF Bookkeeping, Turns, Current
<1>3. \A i \in 1 .. Len(queue) : queue[i] \in Calls \ {c}
  BY ElementOfSeq DEF TypeOK, Bookkeeping, Waiting
<1>4. Waiting'
  BY <1>1, <1>3 DEF Bookkeeping, Waiting
<1>5. Unanswered'
  BY <1>1 DEF Bookkeeping, Unanswered
<1>6. Results'
  BY <1>1 DEF Bookkeeping, Results
<1>7. QED
  BY <1>2, <1>4, <1>5, <1>6 DEF Bookkeeping

(* The end of a process leaves the books in order.                         *)
LEMMA BookkeepingTermination ==
  ASSUME TypeOK, Bookkeeping, NEW c \in Calls, NEW why \in Causes,
         BeginTermination(c, why), UNCHANGED aborted \/ aborted' = [aborted EXCEPT ![c] = TRUE]
  PROVE  Bookkeeping'
<1>1. /\ phase[c] = "active" /\ UNCHANGED <<queue, running, child>>
      /\ \A d \in Calls \ {c} : cause'[d] = cause[d]
  BY DEF BeginTermination, TypeOK
<1>2. /\ \A i \in 1 .. Len(queue) : queue[i] \in Calls \ {c}
      /\ \A d \in Calls \ {c} : aborted'[d] = aborted[d]
  BY <1>1, ElementOfSeq DEF TypeOK, Bookkeeping, Waiting
<1>3. CASE Settle(c, "spawn")
  <2>1. /\ \A d \in Calls \ {c} :
             phase'[d] = phase[d] /\ answer'[d] = answer[d] /\ argsFile'[d] = argsFile[d]
        /\ phase'[c] = "settled" /\ answer'[c] # "result"
    BY <1>3, SettleEffect
  <2>2. Turns' /\ Unanswered'
    BY <1>1, <2>1 DEF Bookkeeping, Turns, Unanswered, Current
  <2>3. Waiting'
    BY <1>1, <1>2, <2>1 DEF Bookkeeping, Waiting
  <2>4. Results'
    BY <1>1, <2>1 DEF Bookkeeping, Results
  <2>5. QED
    BY <2>2, <2>3, <2>4 DEF Bookkeeping
<1>4. CASE UNCHANGED <<phase, answer, argsFile>>
  <2>1. Turns' /\ Unanswered'
    BY <1>1, <1>4 DEF Bookkeeping, Turns, Unanswered, Current
  <2>2. Waiting'
    BY <1>1, <1>2, <1>4 DEF Bookkeeping, Waiting
  <2>3. answer[c] = "none"
    BY <1>1 DEF Bookkeeping, Unanswered
  <2>4. Results'
    BY <1>1, <1>4, <2>3 DEF Bookkeeping, Results
  <2>5. QED
    BY <2>1, <2>2, <2>4 DEF Bookkeeping
<1>5. QED
  BY <1>3, <1>4 DEF BeginTermination

(* Every step leaves the books in order.                                   *)
LEMMA BookkeepingStep == TypeOK /\ Bookkeeping /\ [Next]_vars => Bookkeeping'
<1> SUFFICES ASSUME TypeOK, Bookkeeping, [Next]_vars PROVE Bookkeeping'
  OBVIOUS
<1>1. ASSUME NEW c \in Calls, CallWorker(c) PROVE Bookkeeping'
  <2>0. phase[c] = "new" /\ answer[c] = "none"
    BY <1>1 DEF CallWorker, Bookkeeping, Unanswered
  <2>1. ASSUME NEW kind \in Answers \ {"result"}, Refuse(c, kind) PROVE Bookkeeping'
    <3>1. /\ \A d \in Calls \ {c} : phase'[d] = phase[d] /\ answer'[d] = answer[d]
          /\ phase'[c] = "done" /\ answer'[c] # "result"
          /\ UNCHANGED <<queue, running, aborted, cause, child, argsFile>>
      BY <2>1 DEF Refuse, TypeOK
    <3>2. \A i \in 1 .. Len(queue) : queue[i] \in Calls \ {c}
      BY <2>0, ElementOfSeq DEF TypeOK, Bookkeeping, Waiting
    <3>3. Turns' /\ Unanswered' /\ Results'
      BY <3>1 DEF Bookkeeping, Turns, Unanswered, Results, Current
    <3>4. Waiting'
      BY <3>1, <3>2, <2>0 DEF Bookkeeping, Waiting
    <3>5. QED
      BY <3>3, <3>4 DEF Bookkeeping
  <2>2. CASE /\ running /\ ~aborted[c]
             /\ queue' = Append(queue, c)
             /\ phase' = [phase EXCEPT ![c] = "queued"]
             /\ UNCHANGED <<running, answer, watch, child, argsFile>>
             /\ UNCHANGED <<failure, aborted, cause>>
    <3>1. /\ Len(queue) \in Nat /\ Len(queue') = Len(queue) + 1
          /\ \A i \in 1 .. Len(queue) : queue'[i] = queue[i] /\ queue[i] \in Calls
          /\ queue'[Len(queue) + 1] = c
      BY <2>2, AppendProperties, LenProperties, ElementOfSeq DEF TypeOK
    <3>2. \A i \in 1 .. Len(queue) : queue[i] # c
      BY <2>0 DEF Bookkeeping, Waiting
    <3>3. /\ \A d \in Calls \ {c} : phase'[d] = phase[d]
          /\ phase'[c] = "queued"
      BY <2>2 DEF TypeOK
    <3>4. Turns' /\ Unanswered' /\ Results'
      BY <2>0, <2>2, <3>3 DEF Bookkeeping, Turns, Unanswered, Results, Current
    <3>5. /\ queue' # <<>> => running'
          /\ \A i \in 1 .. Len(queue') : phase'[queue'[i]] = "queued"
      BY <2>2, <3>1, <3>2, <3>3 DEF Bookkeeping, Waiting
    <3>6. \A i, j \in 1 .. Len(queue') : queue'[i] = queue'[j] => i = j
      BY <3>1, <3>2 DEF Bookkeeping, Waiting
    <3>7. ASSUME NEW d \in Calls, phase'[d] = "queued"
          PROVE  ~aborted'[d] /\ \E i \in 1 .. Len(queue') : queue'[i] = d
      <4>1. CASE d = c
        <5>1. Len(queue) + 1 \in 1 .. Len(queue')
          BY <3>1
        <5>2. QED
          BY <2>2, <3>1, <4>1, <5>1
      <4>2. CASE d # c
        <5>1. phase[d] = "queued"
          BY <3>3, <3>7, <4>2
        <5>2. PICK i \in 1 .. Len(queue) : queue[i] = d
          BY <5>1 DEF Bookkeeping, Waiting
        <5>3. i \in 1 .. Len(queue')
          BY <3>1
        <5>4. QED
          BY <2>2, <3>1, <5>1, <5>2, <5>3 DEF Bookkeeping, Waiting
      <4>3. QED
        BY <4>1, <4>2
    <3>8. QED
      BY <3>4, <3>5, <3>6, <3>7 DEF Bookkeeping, Waiting
  <2>3. ASSUME ~running, ~aborted[c], queue' = Tail(Append(queue, c)), running' = TRUE,
               Begin(Head(Append(queue, c)), [phase EXCEPT ![c] = "queued"]),
               UNCHANGED <<failure, aborted, cause>>
        PROVE  Bookkeeping'
    <3>1. queue = <<>>
      BY <2>3 DEF Bookkeeping, Waiting
    <3>2. queue' = <<>> /\ Begin(c, [phase EXCEPT ![c] = "queued"])
      BY <2>3, <3>1, HeadTailAppend, EmptySeq
    <3>3. [phase EXCEPT ![c] = "queued"] \in [Calls -> Phases]
      BY DEF TypeOK, Phases
    <3>4. /\ \A d \in Calls \ {c} :
               /\ phase'[d] = phase[d] /\ answer'[d] = answer[d]
               /\ child'[d] = child[d] /\ argsFile'[d] = argsFile[d]
          /\ \/ phase'[c] = "active" /\ answer'[c] = "none"
             \/ phase'[c] = "settled" /\ answer'[c] \in StartErrors
      BY <2>0, <3>2, <3>3, BeginEffect DEF TypeOK
    <3>5. Turns' /\ Unanswered' /\ Results'
      BY <2>3, <3>4 DEF Bookkeeping, Turns, Unanswered, Results, Current, StartErrors
    <3>6. \A d \in Calls : phase[d] # "queued"
      BY <3>1, EmptySeq DEF Bookkeeping, Waiting
    <3>7. Waiting'
      BY <2>3, <3>2, <3>4, <3>6, EmptySeq DEF Waiting
    <3>8. QED
      BY <3>5, <3>7 DEF Bookkeeping
  <2>4. /\ "worker-isolation-lost" \in Answers \ {"result"}
        /\ "aborted" \in Answers \ {"result"} /\ "busy" \in Answers \ {"result"}
    BY DEF Answers, Causes
  <2>5. QED
    BY <1>1, <2>1, <2>2, <2>3, <2>4 DEF CallWorker
<1>2. ASSUME NEW c \in Calls, Abort(c) PROVE Bookkeeping'
  <2>1. /\ aborted' = [aborted EXCEPT ![c] = TRUE]
        /\ \A d \in Calls \ {c} : aborted'[d] = aborted[d]
    BY <1>2 DEF Abort, TypeOK
  <2>2. ASSUME NEW i \in 1 .. Len(queue), queue[i] = c, phase[c] = "queued",
               queue' = Splice(queue, i),
               phase' = [phase EXCEPT ![c] = "done"],
               answer' = [answer EXCEPT ![c] = "aborted"],
               UNCHANGED <<running, failure, cause, watch, child, argsFile>>
        PROVE  Bookkeeping'
    <3>1. /\ Len(queue) \in Nat /\ Len(queue') = Len(queue) - 1
          /\ \A j \in 1 .. Len(queue) : queue[j] \in Calls
          /\ \A j \in 1 .. Len(queue') :
               queue'[j] = IF j < i THEN queue[j] ELSE queue[j + 1]
      BY <2>2, SpliceProperties, LenProperties, ElementOfSeq DEF TypeOK
    <3>2. /\ \A d \in Calls \ {c} : phase'[d] = phase[d] /\ answer'[d] = answer[d]
          /\ phase'[c] = "done" /\ answer'[c] = "aborted"
      BY <2>2 DEF TypeOK
    <3>3. Turns' /\ Unanswered' /\ Results'
      BY <2>2, <3>2 DEF Bookkeeping, Turns, Unanswered, Results, Current
    <3>4. \A j \in 1 .. Len(queue') : queue'[j] # c
      BY <2>2, <3>1 DEF Bookkeeping, Waiting
    <3>5. \A j \in 1 .. Len(queue') : phase'[queue'[j]] = "queued"
      BY <3>1, <3>2, <3>4 DEF Bookkeeping, Waiting
    <3>6. \A j, k \in 1 .. Len(queue') : queue'[j] = queue'[k] => j = k
      BY <2>2, <3>1 DEF Bookkeeping, Waiting
    <3>7. ASSUME NEW d \in Calls, phase'[d] = "queued"
          PROVE  ~aborted'[d] /\ \E j \in 1 .. Len(queue') : queue'[j] = d
      <4>1. d # c /\ phase[d] = "queued"
        BY <3>2, <3>7
      <4>2. PICK j \in 1 .. Len(queue) : queue[j] = d
        BY <4>1 DEF Bookkeeping, Waiting
      <4>3. CASE j < i
        <5>1. j \in 1 .. Len(queue') /\ queue'[j] = d
          BY <3>1, <4>2, <4>3
        <5>2. QED
          BY <2>1, <4>1, <5>1 DEF Bookkeeping, Waiting
      <4>4. CASE j > i
        <5>1. j - 1 \in 1 .. Len(queue') /\ queue'[j - 1] = d
          BY <3>1, <4>2, <4>4
        <5>2. QED
          BY <2>1, <4>1, <5>1 DEF Bookkeeping, Waiting
      <4>5. j # i
        BY <2>2, <4>1, <4>2
      <4>6. QED
        BY <4>3, <4>4, <4>5
    <3>8. queue' # <<>> => running'
      BY <2>2, EmptySeq DEF Bookkeeping, Waiting
    <3>9. QED
      BY <3>3, <3>5, <3>6, <3>7, <3>8 DEF Bookkeeping, Waiting
  <2>3. CASE BeginTermination(c, "aborted")
    <3>1. "aborted" \in Causes
      BY DEF Causes
    <3>2. QED
      BY <2>1, <2>3, <3>1, BookkeepingTermination
  <2>4. CASE /\ phase[c] # "queued"
             /\ UNCHANGED <<queue, running, failure, phase, answer, cause,
                            watch, child, argsFile>>
    BY <2>1, <2>4 DEF Bookkeeping, Turns, Waiting, Unanswered, Results, Current
  <2>5. QED
    BY <1>2, <2>2, <2>3, <2>4 DEF Abort
<1>3. ASSUME NEW c \in Calls, Finish(c) PROVE Bookkeeping'
  <2>1. /\ phase[c] = "settled" /\ UNCHANGED <<failure, aborted, cause>>
        /\ \A d \in Calls : Current(d) => d = c
    BY <1>3 DEF Finish, Bookkeeping, Turns, Current
  <2>2. CASE queue = <<>>
    <3>1. /\ \A d \in Calls \ {c} : phase'[d] = phase[d]
          /\ phase'[c] = "done" /\ queue' = <<>>
          /\ UNCHANGED <<answer, child, argsFile>>
      BY <1>3, <2>2 DEF Finish, TypeOK
    <3>2. Turns' /\ Unanswered' /\ Results'
      BY <2>1, <3>1 DEF Bookkeeping, Turns, Unanswered, Results, Current
    <3>3. Waiting'
      BY <2>1, <2>2, <3>1, EmptySeq DEF Bookkeeping, Waiting
    <3>4. QED
      BY <3>2, <3>3 DEF Bookkeeping
  <2>3. CASE queue # <<>> /\ failure
    <3>1. /\ queue' = <<>>
          /\ \A d \in Calls : phase[d] = "queued" =>
               phase'[d] = "done" /\ answer'[d] = "worker-isolation-lost"
          /\ phase'[c] = "done" /\ answer'[c] = answer[c]
          /\ \A d \in Calls : phase[d] # "queued" /\ d # c =>
               phase'[d] = phase[d] /\ answer'[d] = answer[d]
          /\ UNCHANGED <<child, argsFile>>
      BY <1>3, <2>1, <2>3 DEF Finish, TypeOK, Bookkeeping, Waiting
    <3>2. Turns' /\ Unanswered' /\ Results'
      BY <2>1, <3>1 DEF Bookkeeping, Turns, Unanswered, Results, Current
    <3>3. \A d \in Calls : phase'[d] # "queued"
      BY <3>1, <2>1
    <3>4. Waiting'
      BY <3>1, <3>3, EmptySeq DEF Waiting
    <3>5. QED
      BY <3>2, <3>4 DEF Bookkeeping
  <2>4. CASE queue # <<>> /\ ~failure
    <3> DEFINE h == Head(queue)
    <3>1. /\ h \in Calls /\ h = queue[1]
          /\ Len(queue) \in Nat \ {0} /\ Len(Tail(queue)) = Len(queue) - 1
          /\ \A i \in 1 .. Len(Tail(queue)) : Tail(queue)[i] = queue[i + 1]
          /\ \A i \in 1 .. Len(queue) : queue[i] \in Calls
      BY <2>4, HeadTailProperties, EmptySeq, ElementOfSeq DEF TypeOK
    <3>2. phase[h] = "queued" /\ h # c /\ answer[h] = "none"
      BY <2>1, <3>1 DEF Bookkeeping, Waiting, Unanswered
    <3>3. /\ queue' = Tail(queue) /\ running' = TRUE
          /\ Begin(h, [phase EXCEPT ![c] = "done"])
      BY <1>3, <2>4 DEF Finish
    <3>4. [phase EXCEPT ![c] = "done"] \in [Calls -> Phases]
      BY DEF TypeOK, Phases
    <3>5. /\ \A d \in Calls \ {h} :
               /\ phase'[d] = [phase EXCEPT ![c] = "done"][d] /\ answer'[d] = answer[d]
               /\ child'[d] = child[d] /\ argsFile'[d] = argsFile[d]
          /\ \/ phase'[h] = "active" /\ answer'[h] = answer[h]
             \/ phase'[h] = "settled" /\ answer'[h] \in StartErrors
      BY <3>1, <3>3, <3>4, BeginEffect
    <3>6. /\ \A d \in Calls \ {c, h} :
               /\ phase'[d] = phase[d] /\ answer'[d] = answer[d]
               /\ child'[d] = child[d] /\ argsFile'[d] = argsFile[d]
          /\ phase'[c] = "done" /\ answer'[c] = answer[c]
          /\ child'[c] = child[c] /\ argsFile'[c] = argsFile[c]
          /\ phase'[h] \in {"active", "settled"}
          /\ phase'[h] = "active" => answer'[h] = "none"
          /\ answer'[h] # "result"
      BY <3>2, <3>5 DEF TypeOK, StartErrors
    <3>7. Turns' /\ Unanswered' /\ Results'
      BY <2>1, <3>3, <3>6 DEF Bookkeeping, Turns, Unanswered, Results, Current
    <3>8. \A i \in 1 .. Len(queue') :
            /\ i + 1 \in 1 .. Len(queue) /\ queue'[i] = queue[i + 1]
            /\ queue'[i] \in Calls \ {c, h}
      <4>1. \A i \in 1 .. Len(queue') :
              i + 1 \in 1 .. Len(queue) /\ queue'[i] = queue[i + 1] /\ i + 1 # 1
        BY <3>1, <3>3
      <4>2. 1 \in 1 .. Len(queue)
        BY <3>1
      <4>3. QED
        BY <2>1, <3>1, <4>1, <4>2 DEF Bookkeeping, Waiting
    <3>9. /\ \A i \in 1 .. Len(queue') : phase'[queue'[i]] = "queued"
          /\ \A i, j \in 1 .. Len(queue') : queue'[i] = queue'[j] => i = j
      BY <3>6, <3>8 DEF Bookkeeping, Waiting
    <3>10. ASSUME NEW d \in Calls, phase'[d] = "queued"
           PROVE  ~aborted'[d] /\ \E i \in 1 .. Len(queue') : queue'[i] = d
      <4>1. d # h /\ d # c /\ phase[d] = "queued"
        BY <3>6, <3>10
      <4>2. PICK i \in 1 .. Len(queue) : queue[i] = d
        BY <4>1 DEF Bookkeeping, Waiting
      <4>3. i - 1 \in 1 .. Len(queue') /\ queue'[i - 1] = d
        BY <3>1, <3>3, <4>1, <4>2
      <4>4. QED
        BY <2>1, <4>1, <4>3 DEF Bookkeeping, Waiting
    <3>11. QED
      BY <3>3, <3>7, <3>9, <3>10 DEF Bookkeeping, Waiting
  <2>5. QED
    BY <2>2, <2>3, <2>4
<1>4. ASSUME NEW c \in Calls, CallTimer(c) \/ TooMuchOutput(c) PROVE Bookkeeping'
  <2>1. /\ BeginTermination(c, "timeout") \/ BeginTermination(c, "output-too-large")
        /\ UNCHANGED aborted
    BY <1>4 DEF CallTimer, TooMuchOutput
  <2>2. "timeout" \in Causes /\ "output-too-large" \in Causes
    BY DEF Causes
  <2>3. QED
    BY <2>1, <2>2, BookkeepingTermination
<1>5. ASSUME NEW c \in Calls, GraceTimer(c) PROVE Bookkeeping'
  BY <1>5 DEF GraceTimer, Bookkeeping, Turns, Waiting, Unanswered, Results, Current
<1>6. ASSUME NEW c \in Calls, HardTimer(c) PROVE Bookkeeping'
  <2>1. cause[c] # "result"
    BY <1>6 DEF HardTimer, TypeOK, Causes
  <2>2. QED
    BY <1>6, <2>1, BookkeepingSettle DEF HardTimer
<1>7. ASSUME NEW c \in Calls, ChildError(c) PROVE Bookkeeping'
  BY <1>7, BookkeepingSettle DEF ChildError
<1>8. ASSUME NEW c \in Calls, ChildClose(c) PROVE Bookkeeping'
  <2>1. CASE cause[c] # "none" /\ Settle(c, cause[c])
    <3>1. cause[c] # "result"
      BY <2>1 DEF TypeOK, Causes
    <3>2. QED
      BY <1>8, <2>1, <3>1, BookkeepingSettle DEF ChildClose
  <2>2. ASSUME cause[c] = "none", NEW e \in Endings, Settle(c, e) PROVE Bookkeeping'
    BY <1>8, <2>2, BookkeepingSettle DEF ChildClose
  <2>3. QED
    BY <1>8, <2>1, <2>2 DEF ChildClose
<1>9. ASSUME NEW c \in Calls, ChildExit(c) PROVE Bookkeeping'
  <2>1. /\ UNCHANGED <<queue, running, phase, answer, aborted, cause, argsFile>>
        /\ \A d \in Calls : child[d] = "gone" => child'[d] = "gone"
    BY <1>9 DEF ChildExit, TypeOK
  <2>2. QED
    BY <2>1 DEF Bookkeeping, Turns, Waiting, Unanswered, Results, Current
<1>10. CASE UNCHANGED vars
  BY <1>10 DEF vars, Bookkeeping, Turns, Waiting, Unanswered, Results, Current
<1>11. QED
  BY <1>1, <1>2, <1>3, <1>4, <1>5, <1>6, <1>7, <1>8, <1>9, <1>10 DEF Next

(* The books are in order in every reachable state.                        *)
LEMMA BookkeepingInvariant == Spec => [](TypeOK /\ Bookkeeping)
<1>1. Init => Bookkeeping
  <2>1. SUFFICES ASSUME Init PROVE Bookkeeping
    OBVIOUS
  <2>2. \A c \in Calls : phase[c] = "new" /\ answer[c] = "none"
    BY <2>1 DEF Init
  <2>3. Len(queue) = 0
    BY <2>1, EmptySeq DEF Init
  <2>4. Turns /\ Unanswered /\ Results
    BY <2>2 DEF Turns, Unanswered, Results, Current
  <2>5. Waiting
    BY <2>1, <2>2, <2>3 DEF Init, Waiting
  <2>6. QED
    BY <2>4, <2>5 DEF Bookkeeping
<1>2. QED
  BY <1>1, BookkeepingStep, TypeStep, TypeCorrect, PTL DEF Spec

(* No call is lost between the queue and the promises, and the bridge      *)
(* never idles while a call waits (callWorker, abortWhileQueued,           *)
(* runQueuedWorkerCall).                                                   *)
THEOREM NoCallLost == Spec => []NoLostCall
<1>1. TypeOK /\ Bookkeeping => NoLostCall
  <2> SUFFICES ASSUME TypeOK, Bookkeeping PROVE NoLostCall
    OBVIOUS
  <2>1. ASSUME NEW c \in Calls, phase[c] = "queued"
        PROVE  Cardinality({i \in 1 .. Len(queue) : queue[i] = c}) = 1
    <3>1. PICK i \in 1 .. Len(queue) : queue[i] = c
      BY <2>1 DEF Bookkeeping, Waiting
    <3>2. {j \in 1 .. Len(queue) : queue[j] = c} = {i}
      BY <3>1 DEF Bookkeeping, Waiting
    <3>3. QED
      BY <3>2, FS_Singleton
  <2>2. QED
    BY <2>1 DEF NoLostCall, Bookkeeping, Waiting
<1>2. QED
  BY <1>1, BookkeepingInvariant, PTL

(* A result is handed on only after the process tree has ended, without a  *)
(* termination on its way and with the argument file removed ("close").    *)
THEOREM ResultsAreFinal == Spec => []ResultIsFinal
<1>1. Bookkeeping => ResultIsFinal
  BY DEF Bookkeeping, Results, ResultIsFinal
<1>2. QED
  BY <1>1, BookkeepingInvariant, PTL

-----------------------------------------------------------------------------
(* Process trees stay apart as long as a kill does not fail on a living    *)
(* process; WorkerQueueKillFails shows that the assumption is needed.      *)

(* A process begins only while no other one lives.                         *)
LEMMA IsolationBegin ==
  ASSUME TypeOK, Isolation, NEW c \in Calls, NEW ph \in [Calls -> Phases], Begin(c, ph),
         UNCHANGED failure, ~failure,
         \A d \in Calls : phase[d] # "active",
         ~Live(c)
  PROVE  Isolation'
<1>1. \A d \in Calls : ~Live(d)
  BY DEF Isolation, Survivors
<1>2. /\ \A d \in Calls \ {c} : child'[d] = child[d]
      /\ phase'[c] = "active" \/ child'[c] = child[c]
  BY BeginEffect
<1>3. \A d \in Calls : Live(d)' => d = c /\ phase'[c] = "active"
  BY <1>1, <1>2 DEF Live
<1>4. QED
  BY <1>3 DEF Isolation, Survivors, OneLiveJob

(* Ending a process leaves it no companion.                                *)
LEMMA IsolationTermination ==
  ASSUME TypeOK, Isolation, KillMayFail = FALSE, NEW c \in Calls, NEW why,
         BeginTermination(c, why)
  PROVE  Isolation'
  BY DEF BeginTermination, Isolation, Survivors, OneLiveJob, Live

(* So while every kill works, no step has two processes live.              *)
LEMMA IsolationStep ==
  ASSUME KillMayFail = FALSE
  PROVE  TypeOK /\ Bookkeeping /\ Isolation /\ [Next]_vars => Isolation'
<1> SUFFICES ASSUME TypeOK, Bookkeeping, Isolation, [Next]_vars PROVE Isolation'
  OBVIOUS
<1>1. ASSUME NEW c \in Calls, CallWorker(c) PROVE Isolation'
  <2>0. phase[c] = "new" /\ ~Live(c)
    BY <1>1 DEF CallWorker, Isolation, Survivors
  <2>1. ASSUME NEW kind, Refuse(c, kind) PROVE Isolation'
    BY <2>0, <2>1 DEF Refuse, TypeOK, Isolation, Survivors, OneLiveJob, Live
  <2>2. CASE /\ phase' = [phase EXCEPT ![c] = "queued"]
             /\ UNCHANGED <<failure, answer, child>>
    BY <2>0, <2>2 DEF TypeOK, Isolation, Survivors, OneLiveJob, Live
  <2>3. ASSUME ~running, ~failure, UNCHANGED failure,
               Begin(Head(Append(queue, c)), [phase EXCEPT ![c] = "queued"])
        PROVE  Isolation'
    <3>1. queue = <<>> /\ \A d \in Calls : phase[d] # "active"
      BY <2>3 DEF Bookkeeping, Turns, Waiting, Current
    <3>2. Begin(c, [phase EXCEPT ![c] = "queued"])
      BY <2>3, <3>1, HeadTailAppend, EmptySeq
    <3>3. [phase EXCEPT ![c] = "queued"] \in [Calls -> Phases]
      BY DEF TypeOK, Phases
    <3>4. QED
      BY <2>0, <2>3, <3>1, <3>2, <3>3, IsolationBegin
  <2>4. QED
    BY <1>1, <2>1, <2>2, <2>3 DEF CallWorker
<1>2. ASSUME NEW c \in Calls, Abort(c) PROVE Isolation'
  <2>1. CASE /\ phase[c] = "queued"
             /\ phase' = [phase EXCEPT ![c] = "done"]
             /\ answer' = [answer EXCEPT ![c] = "aborted"]
             /\ UNCHANGED <<failure, child>>
    <3>1. ~Live(c)
      BY <2>1 DEF Isolation, Survivors
    <3>2. QED
      BY <2>1, <3>1 DEF TypeOK, Isolation, Survivors, OneLiveJob, Live
  <2>2. CASE BeginTermination(c, "aborted")
    BY <2>2, IsolationTermination
  <2>3. CASE UNCHANGED <<failure, phase, answer, child>>
    BY <2>3 DEF Isolation, Survivors, OneLiveJob, Live
  <2>4. QED
    BY <1>2, <2>1, <2>2, <2>3 DEF Abort
<1>3. ASSUME NEW c \in Calls, Finish(c) PROVE Isolation'
  <2>1. phase[c] = "settled" /\ UNCHANGED failure
    BY <1>3 DEF Finish
  <2>2. CASE queue = <<>>
    <3>1. phase' = [phase EXCEPT ![c] = "done"] /\ UNCHANGED <<answer, child>>
      BY <1>3, <2>2 DEF Finish
    <3>2. QED
      BY <2>1, <3>1 DEF TypeOK, Isolation, Survivors, OneLiveJob, Live
  <2>3. CASE queue # <<>> /\ failure
    <3>1. UNCHANGED child
      BY <1>3, <2>3 DEF Finish
    <3>2. ASSUME NEW d \in Calls, Live(d)
          PROVE  phase'[d] \in {"active", "settled", "done"}
                 /\ (phase'[d] # "active" => answer'[d] = answer[d] /\ phase[d] # "active")
      <4>1. phase[d] \in {"active", "settled", "done"}
        BY <3>2 DEF Isolation, Survivors
      <4>2. \A i \in 1 .. Len(queue) : queue[i] # d
        BY <4>1 DEF Bookkeeping, Waiting
      <4>3. phase'[d] = [phase EXCEPT ![c] = "done"][d] /\ answer'[d] = answer[d]
        BY <1>3, <2>3, <4>2 DEF Finish
      <4>4. QED
        BY <2>1, <4>1, <4>3 DEF TypeOK
    <3>3. QED
      BY <2>1, <3>1, <3>2 DEF Isolation, Survivors, OneLiveJob, Live
  <2>4. CASE queue # <<>> /\ ~failure
    <3>1. Head(queue) \in Calls /\ Head(queue) = queue[1] /\ 1 \in 1 .. Len(queue)
      BY <2>4, HeadTailProperties, EmptySeq DEF TypeOK
    <3>2. ~Live(Head(queue))
      BY <3>1 DEF Bookkeeping, Waiting, Isolation, Survivors
    <3>3. \A d \in Calls : phase[d] # "active"
      BY <2>1 DEF Bookkeeping, Turns, Current
    <3>4. Begin(Head(queue), [phase EXCEPT ![c] = "done"])
      BY <1>3, <2>4 DEF Finish
    <3>5. [phase EXCEPT ![c] = "done"] \in [Calls -> Phases]
      BY DEF TypeOK, Phases
    <3>6. QED
      BY <2>1, <2>4, <3>1, <3>2, <3>3, <3>4, <3>5, IsolationBegin
  <2>5. QED
    BY <2>2, <2>3, <2>4
<1>4. ASSUME NEW c \in Calls, CallTimer(c) \/ TooMuchOutput(c) PROVE Isolation'
  BY <1>4, IsolationTermination DEF CallTimer, TooMuchOutput
<1>5. ASSUME NEW c \in Calls, GraceTimer(c) PROVE Isolation'
  BY <1>5 DEF GraceTimer, Isolation, Survivors, OneLiveJob, Live
<1>6. ASSUME NEW c \in Calls, HardTimer(c) PROVE Isolation'
  <2>1. /\ cause[c] \in Causes /\ cause[c] \notin Endings
        /\ failure' = TRUE /\ UNCHANGED child /\ Settle(c, cause[c])
    BY <1>6 DEF HardTimer, TypeOK, Causes, Endings
  <2>2. /\ \A d \in Calls \ {c} : phase'[d] = phase[d] /\ answer'[d] = answer[d]
        /\ phase'[c] = "settled" /\ answer'[c] \in Causes
    BY <2>1, SettleEffect
  <2>3. QED
    BY <2>1, <2>2 DEF Isolation, Survivors, OneLiveJob, Live
<1>7. ASSUME NEW c \in Calls, ChildError(c) \/ ChildClose(c) PROVE Isolation'
  <2>1. /\ ~Live(c) /\ UNCHANGED <<failure, child>>
        /\ \E kind : Settle(c, kind)
    BY <1>7 DEF ChildError, ChildClose, Live
  <2>2. \A d \in Calls \ {c} : phase'[d] = phase[d] /\ answer'[d] = answer[d]
    BY <2>1, SettleEffect
  <2>3. QED
    BY <2>1, <2>2 DEF Isolation, Survivors, OneLiveJob, Live
<1>8. ASSUME NEW c \in Calls, ChildExit(c) PROVE Isolation'
  <2>1. /\ UNCHANGED <<failure, phase, answer>>
        /\ \A d \in Calls : Live(d)' => Live(d)
    BY <1>8 DEF ChildExit, TypeOK, Live
  <2>2. QED
    BY <2>1 DEF Isolation, Survivors, OneLiveJob
<1>9. CASE UNCHANGED vars
  BY <1>9 DEF vars, Isolation, Survivors, OneLiveJob, Live
<1>10. QED
  BY <1>1, <1>2, <1>3, <1>4, <1>5, <1>6, <1>7, <1>8, <1>9 DEF Next

(* Isolation holds in every reachable state.                               *)
LEMMA IsolationInvariant ==
  ASSUME KillMayFail = FALSE
  PROVE  Spec => [](Bookkeeping /\ Isolation)
<1>1. Init => Isolation
  BY DEF Init, Isolation, Survivors, OneLiveJob, Live
<1>2. QED
  BY <1>1, IsolationStep, BookkeepingInvariant, PTL DEF Spec

(* At most one call's process tree works on the application, whatever      *)
(* times out, aborts or survives (the queue of worker.ts).                 *)
THEOREM CallsTakeTurns ==
  ASSUME KillMayFail = FALSE
  PROVE  Spec => []OneLiveJob
<1>1. Isolation => OneLiveJob
  BY DEF Isolation
<1>2. QED
  BY <1>1, IsolationInvariant, PTL

(* A process that outlives its call is never silent: the caller was told   *)
(* of the termination and the bridge is closed (rejectTermination).        *)
THEOREM SurvivorsAreReported ==
  ASSUME KillMayFail = FALSE
  PROVE  Spec => []NoSilentSurvivor
<1>1. Isolation => NoSilentSurvivor
  BY DEF Isolation, Survivors, NoSilentSurvivor
<1>2. QED
  BY <1>1, IsolationInvariant, PTL

-----------------------------------------------------------------------------
(* What a step may never do. *)

(* No process starts for a call whose signal fired first, nor for any call *)
(* once the isolation is lost (startNextWorkerCall, abortWhileQueued).     *)
THEOREM NoLateStart == Spec => NoStartAfterAbortOrFailure
<1> DEFINE Allowed == \A c \in Calls : child[c] = "none" /\ child'[c] # "none" =>
                                         ~aborted[c] /\ ~failure
<1>1. TypeOK /\ Bookkeeping /\ [Next]_vars => Allowed
  <2> SUFFICES ASSUME TypeOK, Bookkeeping, [Next]_vars PROVE Allowed
    OBVIOUS
  <2>1. ASSUME NEW c \in Calls, CallWorker(c), ~UNCHANGED child PROVE Allowed
    <3>1. /\ ~running /\ ~failure /\ ~aborted[c]
          /\ Begin(Head(Append(queue, c)), [phase EXCEPT ![c] = "queued"])
      BY <2>1 DEF CallWorker, Refuse
    <3>2. queue = <<>>
      BY <3>1 DEF Bookkeeping, Waiting
    <3>3. Begin(c, [phase EXCEPT ![c] = "queued"])
      BY <3>1, <3>2, HeadTailAppend, EmptySeq
    <3>4. [phase EXCEPT ![c] = "queued"] \in [Calls -> Phases]
      BY DEF TypeOK, Phases
    <3>5. \A d \in Calls \ {c} : child'[d] = child[d]
      BY <3>3, <3>4, BeginEffect
    <3>6. QED
      BY <3>1, <3>5
  <2>2. ASSUME NEW c \in Calls, Finish(c), ~UNCHANGED child PROVE Allowed
    <3>1. /\ ~failure /\ queue # <<>>
          /\ Begin(Head(queue), [phase EXCEPT ![c] = "done"])
      BY <2>2 DEF Finish
    <3>2. Head(queue) \in Calls /\ Head(queue) = queue[1] /\ 1 \in 1 .. Len(queue)
      BY <3>1, HeadTailProperties, EmptySeq DEF TypeOK
    <3>3. [phase EXCEPT ![c] = "done"] \in [Calls -> Phases]
      BY DEF TypeOK, Phases
    <3>4. \A d \in Calls \ {Head(queue)} : child'[d] = child[d]
      BY <3>1, <3>2, <3>3, BeginEffect
    <3>5. ~aborted[Head(queue)]
      BY <3>2 DEF Bookkeeping, Waiting
    <3>6. QED
      BY <3>1, <3>4, <3>5
  <2>3. ASSUME NEW c \in Calls, ChildExit(c) PROVE Allowed
    BY <2>3 DEF ChildExit, TypeOK
  <2>4. CASE UNCHANGED child
    BY <2>4
  <2>5. ASSUME NEW c \in Calls,
               \/ Abort(c) \/ CallTimer(c) \/ TooMuchOutput(c) \/ GraceTimer(c)
               \/ HardTimer(c) \/ ChildError(c) \/ ChildClose(c)
        PROVE  UNCHANGED child
    BY <2>5 DEF Abort, CallTimer, TooMuchOutput, GraceTimer, HardTimer, ChildError,
                ChildClose, BeginTermination
  <2>6. QED
    BY <2>1, <2>2, <2>3, <2>4, <2>5 DEF Next, vars
<1>2. QED
  BY <1>1, BookkeepingInvariant, PTL DEF Spec, NoStartAfterAbortOrFailure

(* The first reason of a termination stays, an answer once given is never  *)
(* replaced, and a call whose termination was begun is answered with that  *)
(* reason or with "spawn" (beginTermination, the flag "settled").          *)
THEOREM ReasonsAndAnswersStay == Spec => FirstReasonWins
<1> DEFINE Stays == \A c \in Calls : /\ cause[c] # "none" => cause'[c] = cause[c]
                                     /\ answer[c] # "none" => answer'[c] = answer[c]
           Named == \A c \in Calls : phase[c] = "active" /\ cause[c] # "none" =>
                                       answer'[c] \in {"none", cause[c], "spawn"}
<1>1. TypeOK /\ Bookkeeping /\ [Next]_vars => Stays
  <2> SUFFICES ASSUME TypeOK, Bookkeeping, [Next]_vars PROVE Stays
    OBVIOUS
  <2>1. ASSUME NEW c \in Calls, phase[c] = "active", NEW kind, Settle(c, kind)
        PROVE  \A d \in Calls : answer[d] # "none" => answer'[d] = answer[d]
    <3>1. answer[c] = "none"
      BY <2>1 DEF Bookkeeping, Unanswered
    <3>2. QED
      BY <2>1, <3>1, SettleEffect
  <2>2. ASSUME NEW c \in Calls, NEW why, BeginTermination(c, why) PROVE Stays
    <3>1. \A d \in Calls : cause[d] # "none" => cause'[d] = cause[d]
      BY <2>2 DEF BeginTermination, TypeOK
    <3>2. CASE Settle(c, "spawn")
      BY <2>1, <2>2, <3>1, <3>2 DEF BeginTermination
    <3>3. CASE UNCHANGED answer
      BY <3>1, <3>3
    <3>4. QED
      BY <2>2, <3>2, <3>3 DEF BeginTermination
  <2>3. ASSUME NEW c \in Calls, CallWorker(c) PROVE Stays
    <3>1. answer[c] = "none" /\ UNCHANGED cause
      BY <2>3 DEF CallWorker, Refuse, Bookkeeping, Unanswered
    <3>2. CASE \E kind : Refuse(c, kind)
      BY <3>1, <3>2 DEF Refuse, TypeOK
    <3>3. CASE UNCHANGED answer
      BY <3>1, <3>3
    <3>4. ASSUME ~running, Begin(Head(Append(queue, c)), [phase EXCEPT ![c] = "queued"])
          PROVE  Stays
      <4>1. queue = <<>>
        BY <3>4 DEF Bookkeeping, Waiting
      <4>2. Begin(c, [phase EXCEPT ![c] = "queued"])
        BY <3>4, <4>1, HeadTailAppend, EmptySeq
      <4>3. [phase EXCEPT ![c] = "queued"] \in [Calls -> Phases]
        BY DEF TypeOK, Phases
      <4>4. \A d \in Calls \ {c} : answer'[d] = answer[d]
        BY <4>2, <4>3, BeginEffect
      <4>5. QED
        BY <3>1, <4>4
    <3>5. QED
      BY <2>3, <3>2, <3>3, <3>4 DEF CallWorker
  <2>4. ASSUME NEW c \in Calls, Finish(c) PROVE Stays
    <3>1. UNCHANGED cause
      BY <2>4 DEF Finish
    <3>2. CASE queue = <<>>
      BY <2>4, <3>1, <3>2 DEF Finish
    <3>3. CASE queue # <<>> /\ failure
      <4>1. \A i \in 1 .. Len(queue) : answer[queue[i]] = "none"
        BY ElementOfSeq DEF TypeOK, Bookkeeping, Waiting, Unanswered
      <4>2. QED
        BY <2>4, <3>1, <3>3, <4>1 DEF Finish
    <3>4. CASE queue # <<>> /\ ~failure
      <4>1. Head(queue) \in Calls /\ Head(queue) = queue[1] /\ 1 \in 1 .. Len(queue)
        BY <3>4, HeadTailProperties, EmptySeq DEF TypeOK
      <4>2. Begin(Head(queue), [phase EXCEPT ![c] = "done"])
        BY <2>4, <3>4 DEF Finish
      <4>3. [phase EXCEPT ![c] = "done"] \in [Calls -> Phases]
        BY DEF TypeOK, Phases
      <4>4. \A d \in Calls \ {Head(queue)} : answer'[d] = answer[d]
        BY <4>1, <4>2, <4>3, BeginEffect
      <4>5. answer[Head(queue)] = "none"
        BY <4>1 DEF Bookkeeping, Waiting, Unanswered
      <4>6. QED
        BY <3>1, <4>4, <4>5
    <3>5. QED
      BY <3>2, <3>3, <3>4
  <2>5. ASSUME NEW c \in Calls, Abort(c) PROVE Stays
    <3>1. CASE /\ phase[c] = "queued"
               /\ answer' = [answer EXCEPT ![c] = "aborted"]
               /\ UNCHANGED cause
      BY <3>1 DEF TypeOK, Bookkeeping, Unanswered
    <3>2. CASE BeginTermination(c, "aborted")
      BY <2>2, <3>2
    <3>3. CASE UNCHANGED <<answer, cause>>
      BY <3>3
    <3>4. QED
      BY <2>5, <3>1, <3>2, <3>3 DEF Abort
  <2>6. ASSUME NEW c \in Calls, CallTimer(c) \/ TooMuchOutput(c) PROVE Stays
    BY <2>2, <2>6 DEF CallTimer, TooMuchOutput
  <2>7. ASSUME NEW c \in Calls, HardTimer(c) \/ ChildError(c) \/ ChildClose(c) PROVE Stays
    <3>1. phase[c] = "active" /\ UNCHANGED cause /\ \E kind : Settle(c, kind)
      BY <2>7 DEF HardTimer, ChildError, ChildClose
    <3>2. QED
      BY <2>1, <3>1
  <2>8. ASSUME NEW c \in Calls, GraceTimer(c) \/ ChildExit(c) PROVE Stays
    BY <2>8 DEF GraceTimer, ChildExit
  <2>9. CASE UNCHANGED vars
    BY <2>9 DEF vars
  <2>10. QED
    BY <2>3, <2>4, <2>5, <2>6, <2>7, <2>8, <2>9 DEF Next
<1>2. TypeOK /\ Bookkeeping /\ [Next]_vars => Named
  <2> SUFFICES ASSUME TypeOK, Bookkeeping, [Next]_vars,
                      NEW c \in Calls, phase[c] = "active", cause[c] # "none"
               PROVE  answer'[c] \in {"none", cause[c], "spawn"}
    OBVIOUS
  <2>1. answer[c] = "none" /\ cause[c] \in Causes
    BY DEF Bookkeeping, Unanswered, TypeOK
  <2>2. ASSUME NEW d \in Calls, CallWorker(d) PROVE answer'[c] = answer[c]
    <3>1. phase[d] = "new" /\ d # c
      BY <2>2 DEF CallWorker
    <3>2. ASSUME ~running, Begin(Head(Append(queue, d)), [phase EXCEPT ![d] = "queued"])
          PROVE  FALSE
      BY <3>2 DEF Bookkeeping, Turns, Current
    <3>3. QED
      BY <2>2, <3>1, <3>2 DEF CallWorker, Refuse, TypeOK
  <2>3. ASSUME NEW d \in Calls, Finish(d) PROVE FALSE
    <3>1. phase[d] = "settled"
      BY <2>3 DEF Finish
    <3>2. QED
      BY <3>1 DEF Bookkeeping, Turns, Current
  <2>4. ASSUME NEW d \in Calls, NEW why, BeginTermination(d, why) PROVE answer'[c] = answer[c]
    <3>1. d # c
      BY <2>4 DEF BeginTermination
    <3>2. QED
      BY <2>4, <3>1, SettleEffect DEF BeginTermination
  <2>5. ASSUME NEW d \in Calls, Abort(d) \/ CallTimer(d) \/ TooMuchOutput(d)
        PROVE  answer'[c] = answer[c]
    <3>1. CASE phase[d] = "queued" /\ answer' = [answer EXCEPT ![d] = "aborted"]
      BY <3>1 DEF TypeOK
    <3>2. CASE \E why : BeginTermination(d, why)
      BY <2>4, <3>2
    <3>3. QED
      BY <2>5, <3>1, <3>2 DEF Abort, CallTimer, TooMuchOutput
  <2>6. ASSUME NEW d \in Calls, HardTimer(d) \/ ChildError(d) \/ ChildClose(d)
        PROVE  answer'[c] \in {cause[c], "spawn"}
    <3>1. d = c
      BY <2>6 DEF HardTimer, ChildError, ChildClose, Bookkeeping, Turns, Current
    <3>2. Settle(c, cause[c]) \/ Settle(c, "spawn")
      BY <2>6, <3>1 DEF HardTimer, ChildError, ChildClose
    <3>3. cause[c] \notin Endings /\ "spawn" \notin Endings
      BY <2>1 DEF Causes, Endings
    <3>4. QED
      BY <3>2, <3>3, SettleEffect
  <2>7. ASSUME NEW d \in Calls, GraceTimer(d) \/ ChildExit(d) PROVE UNCHANGED answer
    BY <2>7 DEF GraceTimer, ChildExit
  <2>8. CASE UNCHANGED vars
    BY <2>1, <2>8 DEF vars
  <2>9. QED
    BY <2>1, <2>2, <2>3, <2>5, <2>6, <2>7, <2>8 DEF Next
<1>3. TypeOK /\ Bookkeeping /\ [Next]_vars =>
        \A c \in Calls : /\ cause[c] # "none" => cause'[c] = cause[c]
                         /\ answer[c] # "none" => answer'[c] = answer[c]
                         /\ phase[c] = "active" /\ cause[c] # "none" =>
                              answer'[c] \in {"none", cause[c], "spawn"}
  BY <1>1, <1>2
<1>4. QED
  BY <1>3, BookkeepingInvariant, PTL DEF Spec, FirstReasonWins

-----------------------------------------------------------------------------
(* The bridge implements ExclusiveWorker: every turn of the event loop is  *)
(* one abstract step, or none.                                             *)

(* One step moves the answer of one call.                                  *)
LEMMA StatusStep ==
  ASSUME NEW c \in Calls, \A d \in Calls \ {c} : phase'[d] = phase[d]
  PROVE  /\ phase'[c] \in {"queued", "active"} =>
              Status' = [Status EXCEPT ![c] = "waiting"]
         /\ phase'[c] \in {"settled", "done"} =>
              Status' = [d \in Calls |-> IF d \in {c} THEN "answered" ELSE Status[d]]
  BY DEF Status

(* A waiting or new call is answered without ever having had a process. *)
LEMMA AnswerOne ==
  ASSUME NEW c \in Calls, \A d \in Calls \ {c} : phase'[d] = phase[d],
         phase[c] \in {"new", "queued", "active"}, phase'[c] \in {"settled", "done"},
         ~Live(c), UNCHANGED <<failure, child>>
  PROVE  Exclusive!AbsNext
<1>1. Holder' = Holder /\ c \notin Holder
  BY DEF Holder, Live
<1>2. Status[c] # "answered"
  BY DEF Status
<1>3. Exclusive!Answer({c})
  BY <1>1, <1>2, StatusStep DEF Exclusive!Answer
<1>4. {c} \in SUBSET Calls
  OBVIOUS
<1>5. QED
  BY <1>3, <1>4 DEF Exclusive!AbsNext

(* A call starts: it gets the turn, or fails, or its process is dead. *)
LEMMA StartRefines ==
  ASSUME TypeOK, Isolation, NEW c \in Calls, NEW ph \in [Calls -> Phases],
         Begin(c, ph), UNCHANGED failure, ~failure,
         phase[c] \in {"new", "queued"},
         \A d \in Calls \ {c} : ph[d] = phase[d] \/ (phase[d] = "settled" /\ ph[d] = "done"),
         \A d \in Calls : phase[d] # "active"
  PROVE  Exclusive!AbsNext
<1>1. /\ \A d \in Calls \ {c} : phase'[d] = ph[d] /\ child'[d] = child[d]
      /\ \/ phase'[c] = "active"
         \/ phase'[c] = "settled" /\ child'[c] = child[c]
  BY BeginEffect
<1>2. \A d \in Calls : ~Live(d)
  BY DEF Isolation, Survivors
<1>3. /\ phase'[c] = "active" => Status' = [Status EXCEPT ![c] = "waiting"]
      /\ phase'[c] = "settled" =>
           Status' = [d \in Calls |-> IF d \in {c} THEN "answered" ELSE Status[d]]
  BY <1>1 DEF Status
<1>4. Holder = {} /\ Status[c] \in {"idle", "waiting"}
  BY <1>2 DEF Holder, Status
<1>5. Holder' = {} \/ Holder' = {c}
  BY <1>1, <1>2 DEF Holder, Live
<1>6. CASE phase'[c] = "active" /\ Holder' = {c}
  BY <1>3, <1>4, <1>6 DEF Exclusive!AbsNext, Exclusive!Enter
<1>7. CASE phase'[c] = "active" /\ Holder' = {}
  <2>1. CASE Status[c] = "idle"
    BY <1>3, <1>4, <1>7, <2>1 DEF Exclusive!AbsNext, Exclusive!Ask
  <2>2. CASE Status[c] = "waiting"
    <3>1. Status' = Status
      BY <1>3, <1>7, <2>2 DEF Status
    <3>2. Exclusive!Leave(c)
      BY <1>4, <1>7, <3>1 DEF Exclusive!Leave
    <3>3. QED
      BY <3>2 DEF Exclusive!AbsNext
  <2>3. QED
    BY <1>4, <2>1, <2>2
<1>8. CASE phase'[c] = "settled"
  <2>1. Holder' = {}
    BY <1>1, <1>2, <1>8 DEF Holder, Live
  <2>2. Exclusive!Answer({c})
    BY <1>3, <1>4, <1>8, <2>1 DEF Exclusive!Answer
  <2>3. {c} \in SUBSET Calls
    OBVIOUS
  <2>4. QED
    BY <2>2, <2>3 DEF Exclusive!AbsNext
<1>9. QED
  BY <1>1, <1>5, <1>6, <1>7, <1>8

(* Every step is one of the exclusive worker or none of its.               *)
LEMMA RefinementStep ==
  ASSUME KillMayFail = FALSE
  PROVE  TypeOK /\ Bookkeeping /\ Isolation /\ [Next]_vars =>
           [Exclusive!AbsNext]_(Exclusive!avars)
<1> SUFFICES ASSUME TypeOK, Bookkeeping, Isolation, [Next]_vars
             PROVE  Exclusive!AbsNext \/ UNCHANGED <<Holder, Status, failure>>
  BY DEF Exclusive!avars
<1>1. ASSUME NEW c \in Calls, CallWorker(c)
      PROVE  Exclusive!AbsNext \/ UNCHANGED <<Holder, Status, failure>>
  <2>0. phase[c] = "new" /\ ~Live(c)
    BY <1>1 DEF CallWorker, Isolation, Survivors
  <2>1. ASSUME NEW kind, Refuse(c, kind) PROVE Exclusive!AbsNext
    <3>1. /\ \A d \in Calls \ {c} : phase'[d] = phase[d]
          /\ phase'[c] = "done" /\ UNCHANGED <<failure, child>>
      BY <2>1 DEF Refuse, TypeOK
    <3>2. QED
      BY <2>0, <3>1, AnswerOne
  <2>2. CASE /\ phase' = [phase EXCEPT ![c] = "queued"]
             /\ UNCHANGED <<failure, child>>
    <3>1. \A d \in Calls \ {c} : phase'[d] = phase[d]
      BY <2>2 DEF TypeOK
    <3>2. phase'[c] = "queued"
      BY <2>2 DEF TypeOK
    <3>3. Status' = [Status EXCEPT ![c] = "waiting"] /\ Status[c] = "idle"
      BY <2>0, <3>1, <3>2, StatusStep DEF Status
    <3>4. Holder' = Holder
      BY <2>2 DEF Holder, Live
    <3>5. QED
      BY <2>2, <3>3, <3>4 DEF Exclusive!AbsNext, Exclusive!Ask
  <2>3. ASSUME ~running, ~failure, UNCHANGED failure,
               Begin(Head(Append(queue, c)), [phase EXCEPT ![c] = "queued"])
        PROVE  Exclusive!AbsNext
    <3>1. queue = <<>> /\ \A d \in Calls : phase[d] # "active"
      BY <2>3 DEF Bookkeeping, Turns, Waiting, Current
    <3>2. Begin(c, [phase EXCEPT ![c] = "queued"])
      BY <2>3, <3>1, HeadTailAppend, EmptySeq
    <3>3. /\ [phase EXCEPT ![c] = "queued"] \in [Calls -> Phases]
          /\ \A d \in Calls \ {c} : [phase EXCEPT ![c] = "queued"][d] = phase[d]
      BY DEF TypeOK, Phases
    <3>4. QED
      BY <2>0, <2>3, <3>1, <3>2, <3>3, StartRefines
  <2>4. QED
    BY <1>1, <2>1, <2>2, <2>3 DEF CallWorker
<1>2. ASSUME NEW c \in Calls, NEW why, BeginTermination(c, why)
      PROVE  UNCHANGED <<Holder, Status, failure>>
  BY <1>2 DEF BeginTermination, Holder, Status, Live
<1>3. ASSUME NEW c \in Calls, Abort(c)
      PROVE  Exclusive!AbsNext \/ UNCHANGED <<Holder, Status, failure>>
  <2>1. CASE /\ phase[c] = "queued"
             /\ phase' = [phase EXCEPT ![c] = "done"]
             /\ UNCHANGED <<failure, child>>
    <3>1. ~Live(c)
      BY <2>1 DEF Isolation, Survivors
    <3>2. /\ \A d \in Calls \ {c} : phase'[d] = phase[d]
          /\ phase'[c] = "done"
      BY <2>1 DEF TypeOK
    <3>3. QED
      BY <2>1, <3>1, <3>2, AnswerOne
  <2>2. CASE BeginTermination(c, "aborted")
    BY <1>2, <2>2
  <2>3. CASE UNCHANGED <<failure, phase, child>>
    BY <2>3 DEF Holder, Status, Live
  <2>4. QED
    BY <1>3, <2>1, <2>2, <2>3 DEF Abort
<1>4. ASSUME NEW c \in Calls, Finish(c)
      PROVE  Exclusive!AbsNext \/ UNCHANGED <<Holder, Status, failure>>
  <2>1. phase[c] = "settled" /\ UNCHANGED failure
    BY <1>4 DEF Finish
  <2>2. CASE queue = <<>>
    <3>1. phase' = [phase EXCEPT ![c] = "done"] /\ UNCHANGED child
      BY <1>4, <2>2 DEF Finish
    <3>2. QED
      BY <2>1, <3>1 DEF TypeOK, Holder, Status, Live
  <2>3. CASE queue # <<>> /\ failure
    <3> DEFINE W == {d \in Calls : phase[d] = "queued"}
    <3>1. /\ \A d \in W : phase'[d] = "done"
          /\ \A d \in Calls \ W : phase'[d] = phase[d] \/ (d = c /\ phase'[d] = "done")
          /\ UNCHANGED child
      BY <1>4, <2>1, <2>3 DEF Finish, TypeOK, Bookkeeping, Waiting
    <3>2. Holder' = Holder
      BY <3>1 DEF Holder, Live
    <3>3. Status' = [d \in Calls |-> IF d \in W THEN "answered" ELSE Status[d]]
      BY <2>1, <3>1 DEF Status
    <3>4. W \cap Holder = {} /\ \A d \in W : Status[d] # "answered"
      BY DEF Holder, Status, Isolation, Survivors
    <3>5. W \in SUBSET Calls
      OBVIOUS
    <3>6. Exclusive!Answer(W)
      BY <2>1, <3>2, <3>3, <3>4 DEF Exclusive!Answer
    <3>7. QED
      BY <3>5, <3>6 DEF Exclusive!AbsNext
  <2>4. CASE queue # <<>> /\ ~failure
    <3>1. Head(queue) \in Calls /\ Head(queue) = queue[1] /\ 1 \in 1 .. Len(queue)
      BY <2>4, HeadTailProperties, EmptySeq DEF TypeOK
    <3>2. phase[Head(queue)] = "queued"
      BY <3>1 DEF Bookkeeping, Waiting
    <3>3. \A d \in Calls : phase[d] # "active"
      BY <2>1 DEF Bookkeeping, Turns, Current
    <3>4. Begin(Head(queue), [phase EXCEPT ![c] = "done"])
      BY <1>4, <2>4 DEF Finish
    <3>5. /\ [phase EXCEPT ![c] = "done"] \in [Calls -> Phases]
          /\ \A d \in Calls : \/ [phase EXCEPT ![c] = "done"][d] = phase[d]
                              \/ phase[d] = "settled" /\ [phase EXCEPT ![c] = "done"][d] = "done"
      BY <2>1 DEF TypeOK, Phases
    <3>6. QED
      BY <2>1, <2>4, <3>1, <3>2, <3>3, <3>4, <3>5, StartRefines
  <2>5. QED
    BY <2>2, <2>3, <2>4
<1>5. ASSUME NEW c \in Calls, CallTimer(c) \/ TooMuchOutput(c)
      PROVE  UNCHANGED <<Holder, Status, failure>>
  BY <1>2, <1>5 DEF CallTimer, TooMuchOutput
<1>6. ASSUME NEW c \in Calls, GraceTimer(c) PROVE UNCHANGED <<Holder, Status, failure>>
  BY <1>6 DEF GraceTimer, Holder, Status, Live
<1>7. ASSUME NEW c \in Calls, HardTimer(c) PROVE Exclusive!AbsNext
  <2>1. /\ phase[c] = "active" /\ failure' = TRUE /\ UNCHANGED child
        /\ \A d \in Calls \ {c} : phase'[d] = phase[d]
        /\ phase'[c] = "settled"
    BY <1>7, SettleEffect DEF HardTimer
  <2>2. Status[c] = "waiting" /\ Status' = [Status EXCEPT ![c] = "answered"]
    BY <2>1 DEF Status
  <2>3. Holder' = Holder
    BY <2>1 DEF Holder, Live
  <2>4. QED
    BY <2>1, <2>2, <2>3 DEF Exclusive!AbsNext, Exclusive!GiveUp
<1>8. ASSUME NEW c \in Calls, ChildError(c) \/ ChildClose(c) PROVE Exclusive!AbsNext
  <2>1. /\ phase[c] = "active" /\ ~Live(c) /\ UNCHANGED <<failure, child>>
        /\ \E kind : Settle(c, kind)
    BY <1>8 DEF ChildError, ChildClose, Live
  <2>2. /\ \A d \in Calls \ {c} : phase'[d] = phase[d]
        /\ phase'[c] = "settled"
    BY <2>1, SettleEffect
  <2>3. QED
    BY <2>1, <2>2, AnswerOne
<1>9. ASSUME NEW c \in Calls, ChildExit(c) PROVE Exclusive!AbsNext
  <2>1. UNCHANGED <<phase, failure>>
    BY <1>9 DEF ChildExit
  <2>2. Status' = Status
    BY <2>1 DEF Status
  <2>3. \A d \in Calls \ {c} : child'[d] = child[d]
    BY <1>9 DEF ChildExit, TypeOK
  <2>4. CASE child'[c] = "gone"
    <3>1. Holder' = Holder \ {c}
      BY <2>3, <2>4 DEF Holder, Live
    <3>2. QED
      BY <2>1, <2>2, <3>1 DEF Exclusive!AbsNext, Exclusive!Leave
  <2>5. CASE child[c] = "alive" /\ child'[c] = "orphaned"
    <3>1. Holder' = Holder /\ c \in Holder
      BY <2>3, <2>5 DEF Holder, Live
    <3>2. \E S \in SUBSET Calls : Exclusive!Answer(S)
      <4>1. Status' = [d \in Calls |-> IF d \in {} THEN "answered" ELSE Status[d]]
        BY <2>2 DEF Status
      <4>2. Exclusive!Answer({})
        BY <2>1, <3>1, <4>1 DEF Exclusive!Answer
      <4>3. QED
        BY <4>2
    <3>3. QED
      BY <3>2 DEF Exclusive!AbsNext
  <2>6. QED
    BY <1>9, <2>4, <2>5 DEF ChildExit, TypeOK
<1>10. CASE UNCHANGED vars
  BY <1>10 DEF vars, Holder, Status, Live
<1>11. QED
  BY <1>1, <1>3, <1>4, <1>5, <1>6, <1>7, <1>8, <1>9, <1>10 DEF Next

(* The bridge keeps its promise to the API: calls take turns, an answer    *)
(* comes after the turn, and the one exception closes the bridge.          *)
THEOREM BridgeImplementsPromise ==
  ASSUME KillMayFail = FALSE
  PROVE  Spec => ImplementsExclusiveWorker
<1>1. Init => Exclusive!AbsInit
  BY DEF Init, Exclusive!AbsInit, Holder, Status, Live
<1>2. QED
  BY <1>1, RefinementStep, IsolationInvariant, BookkeepingInvariant, PTL
     DEF Spec, ImplementsExclusiveWorker, Exclusive!AbsSpec

=============================================================================
