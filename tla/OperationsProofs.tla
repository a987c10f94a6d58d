-------------------------- MODULE OperationsProofs --------------------------
(***************************************************************************)
(* What holds of the operations for every value of the constants: of the   *)
(* program's own files, for any number of starters and targets and any     *)
(* size of the log; of one client's call, for any number of API processes  *)
(* and attempts; of launching, creating and helping; of the executor, for  *)
(* any depth of directories; of the plans and the advance VAT return, for  *)
(* any number of writes; of tables of any number of rows; of scenarios of  *)
(* any steps; and of listing, reading and comparing files of any number.   *)
(***************************************************************************)
EXTENDS Operations, FiniteSetTheorems, SequenceTheorems, WellFoundedInduction, TLAPS

-----------------------------------------------------------------------------
(* The inductive invariant of the program's own files.                     *)

(* A start that made the configuration has come past its link, and only a  *)
(* start that did not end has left its staged file.                        *)
StartersKnown ==
  /\ startAt \in [Starters -> {"idle", "look", "stage", "link", "clean", "ended", "crashed"}]
  /\ made \in [Starters -> BOOLEAN]
  /\ beside \subseteq Starters
  /\ \A s \in Starters :
       /\ made[s] <=> config = s
       /\ made[s] => startAt[s] \in {"clean", "ended", "crashed"}
       /\ s \in beside => startAt[s] \in {"link", "clean", "crashed"}

(* The texts are staged in their order, and renamed in the same order, so  *)
(* that those that are still staged are exactly those that are old.        *)
StagedInOrder ==
  /\ text \in [1 .. Targets -> {"old", "new"}]
  /\ replaceAt \in {"idle", "stage", "rename", "replaced", "refused", "threw", "unstaged", "torn"}
  /\ replaceAt = "stage" => \E k \in 0 .. Targets - 1 : stagedFile = 1 .. k
  /\ replaceAt = "rename" => \E k \in 1 .. Targets :
       /\ stagedFile = k .. Targets
       /\ \A t \in 1 .. Targets : text[t] = "new" <=> t < k
  /\ replaceAt \in {"replaced", "refused", "threw"} => stagedFile = {}
  /\ TextsWhole

(* Once the logger has looked at the log, it never takes it for shorter    *)
(* than it is.                                                             *)
LogKnown ==
  /\ log \in [now : Int, previous : Int]
  /\ logBytes \in Int /\ -1 <= logBytes /\ -1 <= log.now
  /\ available \in BOOLEAN /\ discarded \in BOOLEAN
  /\ logBytes = -1 => ~available /\ ~discarded
  /\ available => log.now <= logBytes /\ logBytes <= MaxBytes /\ log.previous <= MaxBytes
  /\ LogBounded

HostKnown == StartersKnown /\ StagedInOrder /\ LogKnown

-----------------------------------------------------------------------------
(* A step of the operations is one of the program's own files, or leaves   *)
(* them as they are.                                                       *)
LEMMA HostStep ==
  ASSUME [OperationsNext]_opvars
  PROVE  HostNext \/ UNCHANGED hfvars
BY DEF OperationsNext, opvars

(* Every first state of the program's own files is a known one.            *)
LEMMA HostStarts ==
  ASSUME HostInit
  PROVE  HostKnown
<1> USE HostAssumption DEF HostInit
<1>1. StartersKnown
  BY DEF StartersKnown, Nobody, Foreign
<1>2. StagedInOrder
  BY DEF StagedInOrder, TextsWhole
<1>3. LogKnown
  <2>1. /\ 0 .. MaxBytes + 1 \subseteq Int /\ {-1, MaxBytes, MaxBytes + 1} \subseteq Int
        /\ \A n \in 0 .. MaxBytes + 1 : -1 <= n
    OBVIOUS
  <2>2. log \in [now : Int, previous : Int] /\ -1 <= log.now
    <3>1. CASE duty = "log"
      BY <2>1, <3>1
    <3>2. CASE duty # "log"
      BY <3>2
    <3>3. QED
      BY <3>1, <3>2
  <2>3. logBytes = -1 /\ available = FALSE /\ discarded = FALSE
    OBVIOUS
  <2> HIDE DEF HostInit
  <2>4. logBytes \in Int /\ -1 <= logBytes
    BY <2>3
  <2>5. LogBounded
    BY <2>3 DEF LogBounded
  <2>6. QED
    BY <2>2, <2>3, <2>4, <2>5 DEF LogKnown
<1>4. QED
  BY <1>1, <1>2, <1>3 DEF HostKnown

(* No start replaces a configuration, and none believes that it made one   *)
(* that another made.                                                      *)
LEMMA StartersStep ==
  ASSUME StartersKnown, ConfigureNext
  PROVE  StartersKnown'
<1> USE HostAssumption DEF StartersKnown, StarterGoes
<1>1. ASSUME NEW s \in Starters, Look(s)
      PROVE  StartersKnown'
  BY <1>1 DEF Look
<1>2. ASSUME NEW s \in Starters, Stage(s)
      PROVE  StartersKnown'
  BY <1>2 DEF Stage
<1>3. ASSUME NEW s \in Starters, Link(s)
      PROVE  StartersKnown'
  <2>1. /\ startAt[s] = "link" /\ startAt' = [startAt EXCEPT ![s] = "clean"]
        /\ beside' = beside /\ ~made[s]
    BY <1>3 DEF Link
  <2>2. CASE config = Nobody /\ config' = s /\ made' = [made EXCEPT ![s] = TRUE]
    BY <2>1, <2>2
  <2>3. CASE config # Nobody /\ config' = config /\ made' = [made EXCEPT ![s] = FALSE]
    BY <2>1, <2>3
  <2>4. CASE UNCHANGED <<config, made>>
    BY <2>1, <2>4
  <2>5. QED
    BY <1>3, <2>2, <2>3, <2>4 DEF Link, Linked
<1>4. ASSUME NEW s \in Starters, Clean(s)
      PROVE  StartersKnown'
  BY <1>4 DEF Clean
<1>5. ASSUME NEW s \in Starters, StarterCrashes(s)
      PROVE  StartersKnown'
  BY <1>5 DEF StarterCrashes
<1>6. CASE SomebodyConfigures
  BY <1>6 DEF SomebodyConfigures
<1>7. QED
  BY <1>1, <1>2, <1>3, <1>4, <1>5, <1>6 DEF ConfigureNext

(* The first of the staged files that are left is the next target.         *)
LEMMA FirstStaged ==
  ASSUME NEW k \in 1 .. Targets
  PROVE  (CHOOSE u \in k .. Targets : \A v \in k .. Targets : u <= v) = k
<1>1. k \in k .. Targets /\ \A v \in k .. Targets : k <= v
  BY HostAssumption
<1>2. \A u \in k .. Targets : (\A v \in k .. Targets : u <= v) => u = k
  BY <1>1, HostAssumption
<1>3. QED
  BY <1>1, <1>2

(* No target is renamed before all are staged, and none out of its order.  *)
LEMMA TextsStep ==
  ASSUME StagedInOrder, ReplaceNext
  PROVE  StagedInOrder'
<1> USE HostAssumption DEF StagedInOrder, TextsWhole
<1>1. CASE StageText
  <2>1. PICK k \in 0 .. Targets - 1 : stagedFile = 1 .. k
    BY <1>1 DEF StageText
  <2>2. Cardinality(stagedFile) = k
    BY <2>1, FS_Interval
  <2>3. /\ stagedFile' = 1 .. k + 1
        /\ replaceAt' = IF k + 1 = Targets THEN "rename" ELSE "stage"
        /\ text' = text /\ replaceAt = "stage"
    BY <1>1, <2>1, <2>2 DEF StageText
  <2>4. CASE k + 1 = Targets
    BY <2>3, <2>4
  <2>5. CASE k + 1 # Targets
    <3>1. k + 1 \in 0 .. Targets - 1
      BY <2>5
    <3>2. QED
      BY <2>3, <2>5, <3>1
  <2>6. QED
    BY <2>4, <2>5
<1>2. CASE RenameText
  <2>1. PICK k \in 1 .. Targets :
          /\ stagedFile = k .. Targets
          /\ \A t \in 1 .. Targets : text[t] = "new" <=> t < k
    BY <1>2 DEF RenameText
  <2>2. Cardinality(stagedFile) = Targets - k + 1
    BY <2>1, FS_Interval
  <2>t. (CHOOSE u \in stagedFile : \A v \in stagedFile : u <= v) = k
    BY <2>1, FirstStaged
  <2>3. /\ text' = [text EXCEPT ![k] = "new"]
        /\ stagedFile' = stagedFile \ {k}
        /\ replaceAt' = IF k = Targets THEN "replaced" ELSE "rename"
        /\ replaceAt = "rename"
    <3>1. replaceAt' = IF Cardinality(stagedFile) = 1 THEN "replaced" ELSE "rename"
      BY <1>2 DEF RenameText
    <3>2. Cardinality(stagedFile) = 1 <=> k = Targets
      BY <2>2
    <3>3. QED
      BY <1>2, <2>t, <3>1, <3>2 DEF RenameText
  <2>4. stagedFile' = k + 1 .. Targets
    BY <2>1, <2>3
  <2>5. \A t \in 1 .. Targets : text'[t] = "new" <=> t < k + 1
    BY <2>1, <2>3
  <2>6. CASE k = Targets
    BY <2>3, <2>4, <2>5, <2>6
  <2>7. CASE k # Targets
    <3>1. k + 1 \in 1 .. Targets
      BY <2>7
    <3>2. QED
      BY <2>3, <2>4, <2>5, <2>7, <3>1
  <2>8. QED
    BY <2>6, <2>7
<1>3. CASE ReplaceFails
  BY <1>3 DEF ReplaceFails
<1>4. CASE ReplaceCrashes
  BY <1>4 DEF ReplaceCrashes
<1>5. QED
  BY <1>1, <1>2, <1>3, <1>4 DEF ReplaceNext

(* The log never grows past its limit, whoever takes it away.              *)
LEMMA LogStep ==
  ASSUME LogKnown, LogNext
  PROVE  LogKnown'
<1> USE HostAssumption DEF LogKnown, LogBounded
<1>1. CASE CreateLogger
  <2> DEFINE now == IF log.now > MaxBytes THEN -1 ELSE log.now
             before == IF log.previous > MaxBytes THEN -1 ELSE log.previous
  <2>1. log.now \in Int /\ log.previous \in Int /\ log = [now |-> log.now, previous |-> log.previous]
    OBVIOUS
  <2>2. /\ now \in Int /\ before \in Int /\ -1 <= now /\ now <= MaxBytes /\ before <= MaxBytes
    BY <2>1
  <2>3. logBytes = -1 /\ discarded' = discarded /\ ~available /\ ~discarded
    BY <1>1 DEF CreateLogger
  <2>4. CASE /\ log' = [now |-> now, previous |-> before] /\ available' = TRUE
             /\ logBytes' = IF log'.now = -1 THEN 0 ELSE log'.now
    <3>1. log'.now = now /\ log'.previous = before /\ log' \in [now : Int, previous : Int]
      BY <2>2, <2>4
    <3> HIDE DEF now, before
    <3>2. QED
      BY <2>2, <2>3, <2>4, <3>1
  <2>5. CASE /\ log' \in {log, [log EXCEPT !.previous = before]}
             /\ logBytes' = 0 /\ available' = available
    <3>1. log'.now = log.now /\ log' \in [now : Int, previous : Int]
      BY <2>1, <2>2, <2>5
    <3> HIDE DEF now, before
    <3>2. QED
      BY <2>3, <2>5, <3>1
  <2>6. QED
    BY <1>1, <2>4, <2>5 DEF CreateLogger
<1>2. CASE Log
  <2>1. PICK line \in 1 .. MaxLine :
          IF available THEN WriteLog(line) \/ LogFails(line)
          ELSE UNCHANGED <<log, logBytes, available>>
    BY <1>2 DEF Log
  <2>2. logBytes # -1 /\ discarded' = discarded
    BY <1>2 DEF Log
  <2>3. CASE available /\ WriteLog(line) /\ TooLong(line)
    BY <2>2, <2>3 DEF WriteLog, Rotated, Appended
  <2>4. CASE available /\ WriteLog(line) /\ ~TooLong(line)
    BY <2>2, <2>4 DEF WriteLog, TooLong, Appended
  <2>5. CASE available /\ LogFails(line)
    <3>1. /\ log' \in {log, [log EXCEPT !.previous = -1], [now |-> -1, previous |-> log.now]}
          /\ available' = FALSE /\ logBytes' = logBytes
      BY <2>5 DEF LogFails, Rotated
    <3>2. log' \in [now : Int, previous : Int] /\ -1 <= log'.now
      BY <3>1
    <3>3. QED
      BY <2>2, <3>1, <3>2
  <2>6. CASE ~available
    BY <2>1, <2>2, <2>6
  <2>7. QED
    BY <2>1, <2>3, <2>4, <2>5, <2>6
<1>3. CASE SomebodyDiscards
  BY <1>3 DEF SomebodyDiscards
<1>4. QED
  BY <1>1, <1>2, <1>3 DEF LogNext

(* The program's own files stay known.                                     *)
LEMMA HostKeeps ==
  ASSUME HostKnown, [OperationsNext]_opvars
  PROVE  HostKnown'
<1> USE DEF HostKnown
<1>a. UNCHANGED configuring => StartersKnown'
  BY DEF configuring, StartersKnown
<1>b. UNCHANGED replacing => StagedInOrder'
  BY DEF replacing, StagedInOrder, TextsWhole
<1>c. UNCHANGED logging => LogKnown'
  BY DEF logging, LogKnown, LogBounded
<1>1. /\ UNCHANGED configuring => StartersKnown'
      /\ UNCHANGED replacing => StagedInOrder'
      /\ UNCHANGED logging => LogKnown'
  BY <1>a, <1>b, <1>c
<1>2. CASE ConfigureNext
  BY <1>1, <1>2, StartersStep DEF ConfigureNext
<1>3. CASE ReplaceNext
  BY <1>1, <1>3, TextsStep DEF ReplaceNext
<1>4. CASE LogNext
  BY <1>1, <1>4, LogStep DEF LogNext
<1>5. CASE UNCHANGED hfvars
  BY <1>1, <1>5 DEF hfvars, configuring, replacing, logging
<1>6. QED
  BY <1>2, <1>3, <1>4, <1>5, HostStep DEF HostNext

(* For any number of starters and targets and any size of the log: a       *)
(* configuration is never replaced, and a start that says that it made it  *)
(* made the one that is there; texts are replaced in order once all are    *)
(* staged, an answer without an error means all of them; and the log and   *)
(* the one before never grow past the limit (atomic-files.ts,              *)
(* jsonl-logger.ts).                                                       *)
THEOREM HostFilesAlwaysWhole == OperationsSpec => []HostFilesWhole
<1>1. OperationsInit => HostKnown
  BY HostStarts DEF OperationsInit
<1>2. HostKnown /\ [OperationsNext]_opvars => HostKnown'
  BY HostKeeps
<1>3. HostKnown => HostFilesWhole
  <2> USE DEF HostKnown, HostFilesWhole
  <2>1. HostKnown => ConfigurationKept
    BY DEF StartersKnown, ConfigurationKept
  <2>2. HostKnown => NothingLeftBehind
    BY DEF StartersKnown, StagedInOrder, NothingLeftBehind
  <2>3. HostKnown => TextsWhole /\ LogBounded
    BY DEF StagedInOrder, LogKnown
  <2>4. QED
    BY <2>1, <2>2, <2>3
<1>4. QED
  BY <1>1, <1>2, <1>3, PTL DEF OperationsSpec

-----------------------------------------------------------------------------
(* The inductive invariant of a client's call.                             *)

ErrorKinds == {"none", "bad-args", "aborted", "network", "transport-unknown", "protocol", "timeout",
          "busy", "api-instance-mismatch", "worker-failed", "not-dispatched",
          "busy-budget-exhausted", "unexpected"}

CallReplies == {NoReply, Response(409, "api-instance-mismatch"), Response(409, "busy"),
            Response(200, "ok"), Response(200, "failed"), Response(502, "worker-failed")}

CallTyped ==
  /\ caller \in {"cli", "retry", "mcp", "none"}
  /\ kpc \in {"idle", "journal", "pin", "attempt", "send", "out", "body", "failed",
              "error", "result", "print", "ended"}
  /\ served \in 1 .. Instances /\ instance \in 0 .. served /\ boundTo \in 0 .. Instances
  /\ tries \in 0 .. MaxAttempts
  /\ kpc \in {"idle", "journal", "pin"} => tries = 0
  /\ kpc = "attempt" => tries < MaxAttempts
  /\ kpc = "print" => caller # "mcp"
  /\ request \in {"none", "sent", "running", "ended", "lost"}
  /\ failure.kind \in ErrorKinds

(* What the server has done with the request is what its place and its     *)
(* answer say: one that it rejects, or has not begun, it has not carried   *)
(* out, and it begins no request that is bound to another instance.        *)
ServedOnce ==
  /\ ranOn = << >> \/ \E i \in 1 .. Instances : ranOn = <<i>> /\ (boundTo # 0 => i = boundTo)
  /\ reply \in CallReplies
  /\ request \in {"none", "sent"} => ranOn = << >>
  /\ request = "running" => ranOn # << >>
  /\ request = "ended" => reply # NoReply
  /\ request = "ended" /\ reply.status = 409 => ranOn = << >>
  /\ request = "ended" /\ reply.status = 200 => ranOn # << >>

(* What the client can know of it at each place.                           *)
NotRun == ranOn = << >> /\ ~OnItsWay

ClientKnows ==
  /\ kpc \in {"idle", "journal", "pin", "attempt", "send"} => NotRun
  /\ kpc = "body" => request = "ended" /\ received
  /\ kpc \in {"result", "print"} => ranOn # << >>
  /\ kpc \in {"failed", "error"} =>
       /\ failure.kind \in NotStarted => NotRun
       /\ caller = "mcp" /\ ~OperationOutcomeUnknown(failure) => NotRun

(* What it has told its caller is true from then on.                       *)
Told(k, u) ==
  /\ answered = <<[kind |-> k, unknown |-> u]>>
  /\ kpc = "ended" \/ (caller = "mcp" /\ u)
  /\ k = "result" => ranOn # << >>
  /\ caller = "mcp" /\ ~u /\ k # "result" => NotRun
  /\ caller # "mcp" /\ k \in NotStarted => NotRun

ToldTruly ==
  answered = << >> \/ \E k \in ErrorKinds \cup {"result", "budget"}, u \in BOOLEAN : Told(k, u)

CallKnown == CallTyped /\ ServedOnce /\ ClientKnows /\ ToldTruly

-----------------------------------------------------------------------------
(* A step of the operations is one of the client's call, or leaves it as   *)
(* it is.                                                                  *)
LEMMA CallStep ==
  ASSUME [OperationsNext]_opvars
  PROVE  ClientNext \/ UNCHANGED kvars
BY DEF OperationsNext, opvars

(* Every client's call begins as a known one.                              *)
LEMMA CallStarts ==
  ASSUME OperationsInit
  PROVE  CallKnown
<1>1. caller \in {"cli", "retry", "mcp", "none"}
  BY DEF OperationsInit, Callers
<1>2. PICK start \in {"journal", "idle"} : ClientInit(start)
  BY DEF OperationsInit
<1>3. CallTyped
  BY <1>1, <1>2, ClientAssumption DEF ClientInit, CallTyped, NoFailure, ErrorOf, ErrorKinds
<1>4. ServedOnce
  BY <1>2 DEF ClientInit, ServedOnce, CallReplies
<1>5. ClientKnows
  BY <1>2 DEF ClientInit, ClientKnows, NotRun, OnItsWay
<1>6. ToldTruly
  BY <1>2 DEF ClientInit, ToldTruly
<1>7. QED
  BY <1>3, <1>4, <1>5, <1>6 DEF CallKnown

(* The server: it runs what it had not begun, on the instance the request  *)
(* is bound to.                                                            *)
LEMMA ServerKeeps ==
  ASSUME CallKnown, ServerStep
  PROVE  CallKnown'
<1> USE DEF CallKnown
<1>1. /\ UNCHANGED <<caller, kpc, server, boundTo, tries, cancelled, received, failure, told>>
      /\ instance # 0 /\ OnItsWay
  BY DEF ServerStep, Dispatches, Rejects, Finishes, OnItsWay
<1>2. /\ request' \in {"running", "ended"}
      /\ ranOn # << >> => ranOn' = ranOn
  BY DEF ServerStep, Dispatches, Rejects, Finishes, ServedOnce
<1>3. CallTyped'
  BY <1>1, <1>2 DEF server, CallTyped
<1>4. ServedOnce'
  <2>1. CASE Dispatches
    <3>1. ranOn' = <<instance>> /\ instance \in 1 .. Instances /\ (boundTo # 0 => instance = boundTo)
      <4>1. instance \in 1 .. Instances
        BY <1>1, ClientAssumption DEF CallTyped
      <4>2. ranOn = << >> /\ ranOn' = Append(ranOn, instance)
        BY <2>1 DEF Dispatches, ServedOnce
      <4>3. Append(<< >>, instance) = <<instance>>
        OBVIOUS
      <4>4. QED
        BY <2>1, <4>1, <4>2, <4>3 DEF Dispatches
    <3>2. <<instance>> # << >>
      OBVIOUS
    <3>3. QED
      BY <1>1, <2>1, <3>1, <3>2 DEF Dispatches, ServedOnce
  <2>2. CASE Rejects
    BY <1>1, <2>2 DEF Rejects, ServedOnce, CallReplies, Response, NoReply
  <2>3. CASE Finishes
    BY <1>1, <2>3 DEF Finishes, ServedOnce, CallReplies, Response, NoReply, ClientKnows
  <2>4. QED
    BY <2>1, <2>2, <2>3 DEF ServerStep
<1>5. ClientKnows'
  BY <1>1, <1>2 DEF ClientKnows, NotRun, OnItsWay, OperationOutcomeUnknown, KnownRejection
<1>6. ToldTruly'
  BY <1>1, <1>2 DEF ToldTruly, Told, NotRun, OnItsWay, told
<1>7. QED
  BY <1>3, <1>4, <1>5, <1>6

(* The API ends, or another one takes its place, and other clients keep it *)
(* busy; the client cancels.                                               *)
LEMMA OthersKeep ==
  ASSUME CallKnown, ApiChanges \/ CallerCancels
  PROVE  CallKnown'
<1> USE DEF CallKnown
<1>1. /\ UNCHANGED <<caller, kpc, boundTo, tries, reply, ranOn, received, failure, told>>
      /\ request' = request \/ (OnItsWay /\ request' = "lost")
      /\ served' \in 1 .. Instances /\ instance' \in 0 .. served'
  BY ClientAssumption DEF ApiChanges, CallerCancels, CallTyped, server
<1>2. CallTyped'
  BY <1>1 DEF CallTyped
<1>3. ServedOnce'
  BY <1>1 DEF ServedOnce
<1>4. ClientKnows'
  BY <1>1 DEF ClientKnows, NotRun, OnItsWay, OperationOutcomeUnknown, KnownRejection
<1>5. ToldTruly'
  BY <1>1 DEF ToldTruly, Told, NotRun, OnItsWay, told
<1>6. QED
  BY <1>2, <1>3, <1>4, <1>5

(* callApiOperationEnvelope: what it fails with says whether the request   *)
(* can have been carried out.                                              *)
LEMMA CallsKeep ==
  ASSUME CallKnown, Calls
  PROVE  CallKnown'
<1> USE DEF CallKnown, Calls
<1>1. UNCHANGED <<caller, server, boundTo, tries, reply, ranOn, cancelled, told>>
  OBVIOUS
<1>2. /\ kpc' \in {"failed", "out", "body", "result"}
      /\ failure'.kind \in ErrorKinds
      /\ request' \in {request, "sent"}
  BY DEF Prepare, Send, ReadHead, Broken, ReadBody, Invalid, GivesUp, Fails, ErrorOf, ErrorKinds,
         CallTyped, ClientKnows, ServedOnce, CallReplies, Response, NoReply
<1>3. CallTyped'
  BY <1>1, <1>2 DEF server, CallTyped
<1>4. request' # request => request' = "sent" /\ ranOn = << >>
  BY DEF Prepare, Send, ReadHead, Broken, ReadBody, Invalid, GivesUp, ClientKnows, NotRun
<1>5. ServedOnce'
  BY <1>1, <1>4 DEF ServedOnce
<1>6. ClientKnows'
  <2>1. CASE Prepare
    BY <1>1, <2>1 DEF Prepare, Fails, ErrorOf, ClientKnows, NotRun, OnItsWay
  <2>2. CASE Send
    BY <1>1, <2>2 DEF Send, Fails, ErrorOf, ClientKnows, NotRun, OnItsWay, NotStarted,
                      OperationOutcomeUnknown
  <2>3. CASE ReadHead
    BY <1>1, <2>3 DEF ReadHead, ClientKnows
  <2>4. CASE Broken \/ GivesUp
    BY <1>1, <2>4 DEF Broken, GivesUp, Fails, ErrorOf, ClientKnows, NotStarted,
                      OperationOutcomeUnknown
  <2>5. CASE Invalid
    BY <1>1, <2>5 DEF Invalid, Fails, ErrorOf, ClientKnows, NotStarted,
                      OperationOutcomeUnknown, KnownRejection
  <2>6. CASE ReadBody
    <3>1. request = "ended" /\ received /\ request' = request /\ received' = received
      BY <2>6 DEF ReadBody, ClientKnows
    <3>2. CASE reply.status = 200
      BY <1>1, <2>6, <3>1, <3>2 DEF ReadBody, ClientKnows, ServedOnce
    <3>3. CASE reply.status = 409
      <4>1. kpc' = "failed" /\ ranOn' = << >>
        BY <1>1, <2>6, <3>1, <3>3 DEF ReadBody, Fails, ServedOnce
      <4>2. QED
        BY <1>1, <3>1, <4>1 DEF ClientKnows, NotRun, OnItsWay
    <3>4. CASE reply = Response(502, "worker-failed")
      <4>1. kpc' = "failed" /\ failure' = [kind |-> "worker-failed", status |-> 502]
        BY <2>6, <3>4 DEF ReadBody, Fails, ErrorOf, Response
      <4>2. "worker-failed" \notin NotStarted /\ (OperationOutcomeUnknown(failure))'
        BY <3>1, <4>1 DEF NotStarted, OperationOutcomeUnknown, KnownRejection
      <4>3. QED
        BY <4>1, <4>2 DEF ClientKnows
    <3>5. QED
      BY <3>1, <3>2, <3>3, <3>4 DEF ServedOnce, CallReplies, Response, NoReply
  <2>7. QED
    BY <2>1, <2>2, <2>3, <2>4, <2>5, <2>6
<1>7. ToldTruly'
  BY <1>1, <1>4 DEF ToldTruly, Told, NotRun, OnItsWay, told, Send, ClientKnows, Prepare, ReadHead, Broken, ReadBody, Invalid, GivesUp
<1>8. QED
  BY <1>3, <1>5, <1>6, <1>7

(* callApiOperationWithBusyRetryEnvelope: it sends again only what was     *)
(* rejected as busy.                                                       *)
LEMMA RetryKeeps ==
  ASSUME CallKnown, RetryStep
  PROVE  CallKnown'
<1> USE DEF CallKnown, RetryStep
<1>1. /\ UNCHANGED <<caller, server, request, reply, ranOn, cancelled, received, told>>
      /\ kpc \in {"pin", "attempt", "failed"} /\ caller = "retry"
  BY DEF PinClient, Attempt, Retry
<1>2. CallTyped'
  BY <1>1, ClientAssumption DEF server, CallTyped, PinClient, Attempt, Retry, Reports, ErrorOf, ErrorKinds
<1>3. boundTo' # boundTo => ranOn = << >>
  BY DEF PinClient, Attempt, Retry, ClientKnows, NotRun
<1>4. ServedOnce'
  BY <1>1, <1>3 DEF ServedOnce
<1>5. ClientKnows'
  BY <1>1 DEF PinClient, Attempt, Retry, MayRetry, Reports, ErrorOf, ClientKnows, NotRun, OnItsWay,
              NotStarted
<1>6. ToldTruly'
  BY <1>1 DEF ToldTruly, Told, NotRun, OnItsWay, told
<1>7. QED
  BY <1>2, <1>4, <1>5, <1>6

(* runApiCli: what it tells its caller is what it knows.                   *)
LEMMA CliKeeps ==
  ASSUME CallKnown, CliStep \/ CliEnds
  PROVE  CallKnown'
<1> USE DEF CallKnown
<1>1. /\ UNCHANGED <<caller, server, boundTo, tries, request, reply, ranOn, cancelled, received>>
      /\ caller # "mcp"
  BY DEF CliStep, CliEnds, CreateCliJournal, ResultToJournal, PrintResult, CliError, CallTyped
<1>2. CallTyped' /\ ClientKnows'
  BY <1>1 DEF CallTyped, ClientKnows, CliStep, CliEnds, CreateCliJournal, ResultToJournal,
              PrintResult, CliError, Begin, Tells, Reports, ErrorOf, ErrorKinds, server, NotRun, OnItsWay,
              NotStarted
<1>3. ServedOnce'
  BY <1>1 DEF ServedOnce
<1>4. ToldTruly'
  <2>1. CASE answered' = answered
    <3>1. kpc # "ended"
      BY DEF CliStep, CliEnds, CreateCliJournal, ResultToJournal, PrintResult, CliError
    <3>2. answered = << >>
      BY <1>1, <3>1 DEF ToldTruly, Told
    <3>3. QED
      BY <2>1, <3>2 DEF ToldTruly
  <2>2. CASE CreateCliJournal /\ Tells("bad-args", FALSE)
    <3>1. Told("bad-args", FALSE)'
      BY <1>1, <2>2 DEF CreateCliJournal, Tells, Told, ClientKnows, NotRun, OnItsWay
    <3>2. QED
      BY <3>1 DEF ToldTruly, ErrorKinds
  <2>3. CASE PrintResult
    <3>1. Told("result", FALSE)'
      BY <1>1, <2>3 DEF PrintResult, Tells, Told, ClientKnows, NotStarted
    <3>2. QED
      BY <3>1 DEF ToldTruly
  <2>4. CASE CliError
    <3>1. failure.kind \in ErrorKinds /\ failure.kind # "result" /\ kpc \in {"failed", "error"}
      BY <2>4 DEF CliError, CallTyped, ErrorKinds
    <3>2. kpc' = "ended" /\ answered' = <<[kind |-> failure.kind, unknown |-> FALSE]>>
      BY <2>4 DEF CliError, Tells
    <3>3. (Told(failure.kind, FALSE))'
      BY <1>1, <2>4, <3>1, <3>2 DEF CliError, Told, ClientKnows, NotRun, OnItsWay
    <3>4. QED
      BY <2>4, <3>1, <3>3 DEF ToldTruly, CliError
  <2>5. QED
    BY <2>1, <2>2, <2>3, <2>4 DEF CliStep, CliEnds, CreateCliJournal, ResultToJournal, told
<1>5. QED
  BY <1>2, <1>3, <1>4

(* The tool of the MCP front end: it says that the outcome is unknown      *)
(* whenever it may be.                                                     *)
LEMMA McpKeeps ==
  ASSUME CallKnown, McpStep
  PROVE  CallKnown'
<1> USE DEF CallKnown, McpStep
<1>1. /\ UNCHANGED <<caller, server, tries, request, reply, ranOn, cancelled, journal, medium>>
      /\ caller = "mcp" /\ received' = received
  BY DEF CallApiOperation, CaughtError, Shape, BudgetAnswers
<1>2. CallTyped'
  BY <1>1, ClientAssumption
  DEF CallTyped, CallApiOperation, CaughtError, Shape, BudgetAnswers, Tells, Reports, ErrorOf, ErrorKinds,
      server
<1>a. ClientKnows'
  <2>1. CASE CallApiOperation
    BY <1>1, <2>1 DEF CallApiOperation, ClientKnows, Reports, NotRun, OnItsWay
  <2>2. CASE CaughtError \/ Shape
    BY <1>1, <2>2 DEF CaughtError, Shape, Tells, ClientKnows
  <2>3. CASE BudgetAnswers
    BY <1>1, <2>3 DEF BudgetAnswers, ClientKnows, NotRun, OnItsWay, OperationOutcomeUnknown,
                      KnownRejection
  <2>4. QED
    BY <2>1, <2>2, <2>3
<1>3. boundTo' # boundTo => ranOn = << >>
  BY DEF CallApiOperation, CaughtError, Shape, BudgetAnswers, ClientKnows, NotRun
<1>4. ServedOnce'
  BY <1>1, <1>3 DEF ServedOnce
<1>5. ToldTruly'
  <2>1. CASE CallApiOperation
    BY <1>1, <2>1 DEF CallApiOperation, ToldTruly, Told, NotRun, OnItsWay
  <2>2. CASE CaughtError
    <3>1. PICK u \in BOOLEAN : u = OperationOutcomeUnknown(failure)
      BY DEF OperationOutcomeUnknown
    <3>2. /\ failure.kind \in ErrorKinds /\ failure.kind # "result" /\ failure' = failure
          /\ kpc' = "ended" /\ answered' = <<[kind |-> failure.kind, unknown |-> u]>>
      BY <2>2, <3>1 DEF CaughtError, Tells, CallTyped, ErrorKinds
    <3>3. ~u => NotRun'
      BY <1>1, <2>2, <3>1 DEF CaughtError, ClientKnows, NotRun, OnItsWay
    <3>4. (Told(failure.kind, u))'
      BY <1>1, <3>1, <3>2, <3>3 DEF Told
    <3>5. QED
      BY <3>2, <3>4 DEF ToldTruly
  <2>3. CASE Shape
    <3>1. CASE Tells("result", FALSE)
      <4>1. (Told("result", FALSE))'
        BY <1>1, <2>3, <3>1 DEF Shape, Tells, Told, ClientKnows
      <4>2. QED
        BY <4>1 DEF ToldTruly
    <3>2. CASE Tells("protocol", TRUE)
      <4>1. (Told("protocol", TRUE))'
        BY <1>1, <3>2 DEF Tells, Told
      <4>2. QED
        BY <4>1 DEF ToldTruly, ErrorKinds
    <3>3. QED
      BY <2>3, <3>1, <3>2 DEF Shape
  <2>4. CASE BudgetAnswers
    <3>1. (Told("budget", TRUE))'
      BY <1>1, <2>4 DEF BudgetAnswers, Told
    <3>2. QED
      BY <3>1 DEF ToldTruly
  <2>5. QED
    BY <2>1, <2>2, <2>3, <2>4
<1>6. QED
  BY <1>2, <1>a, <1>4, <1>5

(* Every step of a client's call keeps it known.                           *)
LEMMA CallKeeps ==
  ASSUME CallKnown, [OperationsNext]_opvars
  PROVE  CallKnown'
<1>1. CASE UNCHANGED kvars
  BY <1>1 DEF kvars, CallKnown, CallTyped, ServedOnce, ClientKnows, ToldTruly, Told, NotRun,
              OnItsWay, OperationOutcomeUnknown, KnownRejection
<1>2. CASE ClientNext
  BY <1>2, ServerKeeps, OthersKeep, CallsKeep, RetryKeeps, CliKeeps, McpKeeps DEF ClientNext
<1>3. QED
  BY <1>1, <1>2, CallStep

-----------------------------------------------------------------------------
(* The inductive invariant of the journal: what it can hold at each place  *)
(* of the command line; the tool of the MCP front end has none.            *)

Pending == <<"pending">>
Completed == <<"pending", "complete">>
Errored == <<"pending", "error">>
TwiceEnded == <<"pending", "complete", "error">>

JournalKnown ==
  /\ journal \in {<< >>, Pending, Completed, Errored, TwiceEnded}
  /\ caller = "mcp" => journal = << >>
  /\ kpc \in {"idle", "journal"} => journal = << >>
  /\ kpc \in {"pin", "attempt", "send", "out", "body", "failed", "result"} =>
       journal \in {<< >>, Pending}
  /\ kpc = "print" => journal \in {<< >>, Completed}
  /\ kpc = "error" => journal \in {<< >>, Pending, Completed}
  /\ kpc = "error" /\ journal = Completed => medium
  /\ journal = TwiceEnded => medium
  /\ journal \in {Completed, TwiceEnded} => ranOn # << >>
  /\ answered # << >> /\ Head(answered).kind = "result" =>
       kpc = "ended" /\ journal \in {<< >>, Completed}

(* What a record more makes of a short sequence.                           *)
LEMMA OneMore ==
  /\ \A x, y : Append(<<x>>, y) = <<x, y>>
  /\ \A x, y, z : Append(<<x, y>>, z) = <<x, y, z>>
<1>1. ASSUME NEW x, NEW y PROVE Append(<<x>>, y) = <<x, y>>
  <2>1. <<x>> \in Seq({x, y}) /\ Len(<<x>>) = 1 /\ <<x>>[1] = x
    OBVIOUS
  <2>2. /\ Append(<<x>>, y) \in Seq({x, y}) /\ Len(Append(<<x>>, y)) = 2
        /\ Append(<<x>>, y)[1] = x /\ Append(<<x>>, y)[2] = y
    BY <2>1
  <2>3. /\ <<x, y>> \in Seq({x, y}) /\ Len(<<x, y>>) = 2
        /\ <<x, y>>[1] = x /\ <<x, y>>[2] = y
    OBVIOUS
  <2>4. \A i \in 1 .. 2 : i = 1 \/ i = 2
    OBVIOUS
  <2>5. \A i \in 1 .. 2 : Append(<<x>>, y)[i] = <<x, y>>[i]
    BY <2>2, <2>3, <2>4
  <2>6. QED
    BY <2>2, <2>3, <2>5, SeqEqual
<1>2. ASSUME NEW x, NEW y, NEW z PROVE Append(<<x, y>>, z) = <<x, y, z>>
  <2>1. <<x, y>> \in Seq({x, y, z}) /\ Len(<<x, y>>) = 2 /\ <<x, y>>[1] = x /\ <<x, y>>[2] = y
    OBVIOUS
  <2>2. /\ Append(<<x, y>>, z) \in Seq({x, y, z}) /\ Len(Append(<<x, y>>, z)) = 3
        /\ Append(<<x, y>>, z)[1] = x /\ Append(<<x, y>>, z)[2] = y /\ Append(<<x, y>>, z)[3] = z
    BY <2>1
  <2>3. /\ <<x, y, z>> \in Seq({x, y, z}) /\ Len(<<x, y, z>>) = 3
        /\ <<x, y, z>>[1] = x /\ <<x, y, z>>[2] = y /\ <<x, y, z>>[3] = z
    OBVIOUS
  <2>4. \A i \in 1 .. 3 : i = 1 \/ i = 2 \/ i = 3
    OBVIOUS
  <2>5. \A i \in 1 .. 3 : Append(<<x, y>>, z)[i] = <<x, y, z>>[i]
    BY <2>2, <2>3, <2>4
  <2>6. QED
    BY <2>2, <2>3, <2>5, SeqEqual
<1>3. QED
  BY <1>1, <1>2

(* What a record more makes of a journal.                                  *)
LEMMA Records ==
  /\ Append(Pending, "complete") = Completed
  /\ Append(Pending, "error") = Errored
  /\ Append(Completed, "error") = TwiceEnded
  /\ Pending # << >> /\ Completed # << >> /\ Errored # << >> /\ TwiceEnded # << >>
  /\ Pending # Completed /\ Pending # Errored /\ Pending # TwiceEnded
  /\ Completed # Errored /\ Completed # TwiceEnded /\ Errored # TwiceEnded
<1> USE DEF Pending, Completed, Errored, TwiceEnded
<1>1. Append(Pending, "complete") = Completed
  BY OneMore
<1>2. Append(Pending, "error") = Errored
  BY OneMore
<1>3. Append(Completed, "error") = TwiceEnded
  BY OneMore
<1>4. /\ Len(Pending) = 1 /\ Len(Completed) = 2 /\ Len(Errored) = 2 /\ Len(TwiceEnded) = 3
      /\ Len(<< >>) = 0
  OBVIOUS
<1>5. Completed[2] = "complete" /\ Errored[2] = "error"
  OBVIOUS
<1> HIDE DEF Pending, Completed, Errored, TwiceEnded
<1>6. /\ Pending # << >> /\ Completed # << >> /\ Errored # << >> /\ TwiceEnded # << >>
      /\ Pending # Completed /\ Pending # Errored /\ Pending # TwiceEnded
      /\ Completed # TwiceEnded /\ Errored # TwiceEnded
  BY <1>4
<1>7. Completed # Errored
  BY <1>5
<1>8. QED
  BY <1>1, <1>2, <1>3, <1>6, <1>7

(* A call begins with no journal.                                          *)
LEMMA JournalStarts ==
  ASSUME OperationsInit
  PROVE  JournalKnown
<1>1. PICK start \in {"journal", "idle"} : ClientInit(start)
  BY DEF OperationsInit
<1>2. QED
  BY <1>1, Records DEF ClientInit, JournalKnown

(* The command line writes a record before it does what the record is of.  *)
LEMMA JournalCli ==
  ASSUME JournalKnown, CallKnown, CliStep
  PROVE  JournalKnown'
<1> USE Records DEF JournalKnown
<1>1. ranOn' = ranOn /\ caller' = caller
  BY DEF CliStep
<1>2. CASE CreateCliJournal
  <2>1. kpc = "journal" /\ caller # "mcp" /\ answered = << >>
    BY <1>2 DEF CreateCliJournal, CallKnown, ToldTruly, Told
  <2>2. /\ journal' \in {<< >>, Pending}
        /\ \/ kpc' \in {"pin", "send"} /\ answered' = answered
           \/ kpc' = "ended" /\ answered' = <<[kind |-> "bad-args", unknown |-> FALSE]>>
    BY <1>2, <2>1 DEF CreateCliJournal, Begin, Tells, Pending
  <2>3. QED
    BY <1>1, <2>1, <2>2
<1>3. CASE ResultToJournal
  <2>1. kpc = "result" /\ caller # "mcp" /\ answered = << >> /\ ranOn # << >> /\ answered' = answered
    BY <1>3 DEF ResultToJournal, CallKnown, ToldTruly, Told, ClientKnows
  <2>2. \/ journal' = Complete /\ kpc' = "print"
        \/ kpc' = "error" /\ medium' /\ journal' \in {journal, Complete}
    BY <1>3 DEF ResultToJournal, Reports
  <2>3. journal \in {<< >>, Pending} /\ Complete = (IF journal = << >> THEN << >> ELSE Completed)
    BY <2>1 DEF Complete
  <2>4. QED
    BY <1>1, <2>1, <2>2, <2>3
<1>4. CASE PrintResult
  <2>1. /\ kpc = "print" /\ kpc' = "ended" /\ journal' = journal /\ medium' = medium
        /\ answered' = <<[kind |-> "result", unknown |-> FALSE]>>
    BY <1>4 DEF PrintResult, Tells
  <2>2. QED
    BY <1>1, <2>1
<1>5. CASE CliError
  <2>1. /\ kpc \in {"failed", "error"} /\ kpc' = "ended"
        /\ answered' = <<[kind |-> failure.kind, unknown |-> FALSE]>>
        /\ failure.kind # "result" /\ caller # "mcp"
    BY <1>5 DEF CliError, Tells, CallKnown, CallTyped, ErrorKinds
  <2>2. \/ medium' = medium /\ journal' = IF journal = << >> THEN << >> ELSE Append(journal, "error")
        \/ medium' = TRUE /\ journal' = journal
    BY <1>5 DEF CliError
  <2>3. Head(answered').kind # "result"
    BY <2>1
  <2>4. QED
    BY <1>1, <2>1, <2>2, <2>3
<1>6. QED
  BY <1>2, <1>3, <1>4, <1>5 DEF CliStep

(* Nobody else writes to the journal, and what has run has run.            *)
LEMMA JournalOthers ==
  ASSUME JournalKnown, CallKnown,
         ServerStep \/ ApiChanges \/ CallerCancels \/ Calls \/ RetryStep \/ CliEnds \/ McpStep
  PROVE  JournalKnown'
<1>1. journal' = journal /\ medium' = medium /\ caller' = caller
  BY DEF ServerStep, ApiChanges, CallerCancels, Calls, RetryStep, CliEnds, McpStep, told
<1>2. ranOn # << >> => ranOn' # << >>
  BY DEF ServerStep, Dispatches, Rejects, Finishes, ApiChanges, CallerCancels, Calls, RetryStep,
         CliEnds, McpStep, CallKnown, ServedOnce
<1>3. CASE McpStep
  <2>1. caller = "mcp" /\ journal = << >>
    BY <1>3 DEF McpStep, CallApiOperation, CaughtError, Shape, BudgetAnswers, JournalKnown
  <2>2. answered' # << >> /\ Head(answered').kind = "result" => kpc' = "ended"
    BY <1>3 DEF McpStep, CallApiOperation, CaughtError, Shape, BudgetAnswers, Tells, JournalKnown
  <2>3. QED
    BY <1>1, <2>1, <2>2, Records DEF JournalKnown
<1>4. CASE ~McpStep
  <2>1. answered' = answered
    BY <1>4 DEF ServerStep, ApiChanges, CallerCancels, Calls, RetryStep, CliEnds, told
  <2>2. \/ kpc' = kpc
        \/ kpc' = "ended" /\ answered = << >>
        \/ kpc \in {"pin", "attempt", "send", "out", "body", "failed"} /\
           kpc' \in {"pin", "attempt", "send", "out", "body", "failed", "result", "error"}
    BY <1>4
    DEF ServerStep, ApiChanges, CallerCancels, Calls, Prepare, Send, ReadHead, Broken, ReadBody,
        Invalid, GivesUp, Fails, RetryStep, PinClient, Attempt, Retry, Reports, CliEnds, CallKnown,
        ToldTruly, Told
  <2>3. answered # << >> /\ Head(answered).kind = "result" => kpc' = "ended"
    BY <2>2 DEF JournalKnown
  <2>4. QED
    BY <1>1, <1>2, <2>1, <2>2, <2>3, Records DEF JournalKnown
<1>5. QED
  BY <1>3, <1>4

(* Every step of a client's call keeps its journal.                        *)
LEMMA JournalKeeps ==
  ASSUME JournalKnown, CallKnown, [OperationsNext]_opvars
  PROVE  JournalKnown'
<1>1. CASE UNCHANGED kvars
  BY <1>1 DEF kvars, JournalKnown
<1>2. CASE ClientNext
  BY <1>2, JournalCli, JournalOthers DEF ClientNext
<1>3. QED
  BY <1>1, <1>2, CallStep

(* What is known of the call and of its journal implies the properties.    *)
LEMMA CallMeans ==
  ASSUME CallKnown, JournalKnown
  PROVE  CallAnswerIsTrue /\ JournalIsTrue
<1>1. /\ Len(Pending) = 1 /\ Len(Completed) = 2 /\ Len(Errored) = 2 /\ Len(TwiceEnded) = 3
      /\ Head(Pending) = "pending" /\ Head(Completed) = "pending" /\ Head(Errored) = "pending"
      /\ Head(TwiceEnded) = "pending" /\ Last(Completed) = "complete"
  BY DEF Pending, Completed, Errored, TwiceEnded, Last
<1>2. ~Contains(<< >>, "complete") /\ ~Contains(Pending, "complete") /\ ~Contains(Errored, "complete")
  BY DEF Contains, Pending, Errored
<1>3. JournalIsTrue
  BY <1>1, <1>2, Records DEF JournalIsTrue, JournalKnown
<1>4. Len(answered) <= 1 /\ Len(ranOn) <= 1
  <2>1. \A x : Len(<<x>>) <= 1
    OBVIOUS
  <2>2. answered = << >> \/ \E x : answered = <<x>>
    BY DEF CallKnown, ToldTruly, Told
  <2>3. ranOn = << >> \/ \E x : ranOn = <<x>>
    BY DEF CallKnown, ServedOnce
  <2>4. Len(<< >>) <= 1
    OBVIOUS
  <2>5. Len(answered) <= 1
    BY <2>1, <2>2, <2>4
  <2>6. Len(ranOn) <= 1
    BY <2>1, <2>3, <2>4
  <2>7. QED
    BY <2>5, <2>6
<1>5. ClientTypeOK
  <2>1. Len(journal) <= 3
    <3>1. /\ Len(<< >>) <= 3 /\ Len(Pending) <= 3 /\ Len(Completed) <= 3 /\ Len(Errored) <= 3
          /\ Len(TwiceEnded) <= 3
      BY <1>1
    <3>2. journal \in {<< >>, Pending, Completed, Errored, TwiceEnded}
      BY DEF JournalKnown
    <3>3. QED
      BY <3>1, <3>2
  <2>2. QED
    BY <1>4, <2>1, ClientAssumption DEF CallKnown, CallTyped, ClientTypeOK
<1>6. ranOn # << >> /\ boundTo # 0 => Head(ranOn) = boundTo
  BY DEF CallKnown, ServedOnce
<1>7. ASSUME answered # << >>
      PROVE  LET told1 == Head(answered) IN
               /\ told1.kind = "result" => ranOn # << >>
               /\ \/ caller = "mcp" /\ ~told1.unknown /\ told1.kind # "result"
                  \/ caller # "mcp" /\ told1.kind \in NotStarted
                  => ranOn = << >> /\ ~OnItsWay
  <2>1. PICK k \in ErrorKinds \cup {"result", "budget"}, u \in BOOLEAN : Told(k, u)
    BY <1>7 DEF CallKnown, ToldTruly
  <2>2. Head(answered).kind = k /\ Head(answered).unknown = u
    BY <2>1 DEF Told
  <2>3. QED
    BY <2>1, <2>2 DEF Told, NotRun
<1>8. QED
  BY <1>3, <1>4, <1>5, <1>6, <1>7 DEF CallAnswerIsTrue

(* For any number of API processes and attempts: an operation is carried   *)
(* out at most once for a call, on the instance that the call is bound to, *)
(* and an error that does not say that the outcome is unknown means that   *)
(* the write has not run and will not run (mcp-registry.ts                 *)
(* operationOutcomeUnknown, api-busy-retry.ts).                            *)
THEOREM CallAnswerAlwaysTrue == OperationsSpec => []CallAnswerIsTrue
<1>1. OperationsInit => CallKnown /\ JournalKnown
  BY CallStarts, JournalStarts
<1>2. CallKnown /\ JournalKnown /\ [OperationsNext]_opvars => CallKnown' /\ JournalKnown'
  BY CallKeeps, JournalKeeps
<1>3. CallKnown /\ JournalKnown => CallAnswerIsTrue
  BY CallMeans
<1>4. QED
  BY <1>1, <1>2, <1>3, PTL DEF OperationsSpec

(* For any number of API processes and attempts: nothing is sent before    *)
(* the pending record, a complete record means that the operation has run, *)
(* and a result is printed only after its record (api-cli-journal.ts).     *)
THEOREM JournalAlwaysTrue == OperationsSpec => []JournalIsTrue
<1>1. OperationsInit => CallKnown /\ JournalKnown
  BY CallStarts, JournalStarts
<1>2. CallKnown /\ JournalKnown /\ [OperationsNext]_opvars => CallKnown' /\ JournalKnown'
  BY CallKeeps, JournalKeeps
<1>3. CallKnown /\ JournalKnown => JournalIsTrue
  BY CallMeans
<1>4. QED
  BY <1>1, <1>2, <1>3, PTL DEF OperationsSpec

-----------------------------------------------------------------------------
(* The inductive invariant of the operations that start and end programs.  *)

LaunchTyped ==
  /\ sse \in {"none", "running", "gone"} /\ shown \in Screens
  /\ clock \in 0 .. 4 /\ stop \in BOOLEAN
  /\ lpc \in {"idle", "start", "probe", "judge", "failed"}
  /\ lseen \in Screens \union {"nothing", "fresh", "failed"}
  /\ prompts \in BOOLEAN /\ unstable \in BOOLEAN /\ handovers \in 0 .. MaxHandovers
  /\ lanswer \subseteq LaunchMarks

CaseTyped ==
  /\ file \in {"absent", "ours", "foreign"} /\ flight \in {"none", "input", "save"} /\ menu \in BOOLEAN
  /\ cpc \in {"idle", "args", "before", "desktop", "launch", "launching", "find", "dialogs",
              "uistate", "page", "wait", "subpages", "begin", "choose", "next", "menu", "dialog",
              "menuclose", "select", "bound", "failed", "close", "status", "done"}
  /\ pid \in BOOLEAN /\ unconfirmed \in BOOLEAN /\ pinned \in BOOLEAN /\ lacking \in BOOLEAN
  /\ roots \in 0 .. 3
  /\ why \subseteq FailureMarks /\ canswer \subseteq FailureMarks

(* One launch starts at most one program, and what it has answered stays   *)
(* true of the program.                                                    *)
LaunchKnown ==
  /\ LaunchTyped
  /\ lpc = "start" => sse = "none"
  /\ lpc # "idle" => lanswer = {}
  /\ lpc = "idle" /\ lanswer = {} => sse = "none"
  /\ "ready" \in lanswer => "ok" \in lanswer
  /\ LaunchAnswerIsTrue

BeforeLaunch == {"idle", "args", "before", "desktop", "launch"}
InStartPage == {"find", "dialogs", "uistate", "page"}
InAssistant == {"subpages", "begin", "choose", "next", "menu", "dialog", "menuclose", "select"}

(* The executor knows the program it has started from the launch's answer  *)
(* on; what is still on its way, and what may be lost by an end of the     *)
(* program, is among the marks of the failure.                             *)
CreationKnown ==
  /\ CaseTyped
  /\ op = "launch" => cpc = "idle"
  /\ cpc \in BeforeLaunch \ {"idle"} => lpc = "idle" /\ lanswer = {}
  /\ cpc \notin {"idle", "launching"} => lpc = "idle"
  /\ cpc \in BeforeLaunch \cup {"launching"} => ~pid
  /\ cpc \in InStartPage \cup InAssistant \cup {"bound", "close", "status"} => pid
  /\ cpc \in BeforeLaunch \cup {"launching"} \cup InStartPage => roots \in 0 .. 2
  /\ pid /\ ~unconfirmed => shown = "case"
  /\ flight # "none" => pid /\ cpc \in {"failed", "done"}
  /\ file = "ours" => cpc \in {"bound", "failed", "done"}
  /\ cpc = "bound" => file = "ours"
  /\ cpc \in {"failed", "close", "status"} => why \cap {"ok", "ended"} = {}
  /\ cpc = "failed" => /\ flight # "none" => "unknown" \in why
                       /\ ~pid /\ sse = "running" => "preserved" \in why
  /\ cpc \in {"close", "status"} => ~unconfirmed
  /\ CaseAnswerIsTrue

(* A helper has ended a program only after its marker was read as this     *)
(* API's own, and what it leaves open is in its answer.                    *)
HelperKnown ==
  /\ DesktopTypeOK
  /\ dpc \notin {"startown", "done"} => "second" \notin alive
  /\ dpc \notin {"stopown", "done"} => hit = {}
  /\ hit # {} => hit = {seenMark}
  /\ dpc \in {"stoprun", "stopown"} => Owned(seenMark)
  /\ dpc = "statusown" => dreply \cap {"active", "inactive"} # {} /\ "ok" \notin dreply
  /\ DesktopAnswerIsTrue

-----------------------------------------------------------------------------
(* A step of the operations is one of these, or leaves them as they are.   *)
LEMMA ProgramStep ==
  ASSUME [OperationsNext]_opvars
  PROVE  /\ op' = op
         /\ \/ op = "launch" /\ Launch
            \/ op = "case_create" /\ CaseNext
            \/ UNCHANGED ccvars
         /\ DesktopNext \/ UNCHANGED dvars
BY DEF OperationsNext, opvars

(* No program has been started when an operation begins.                   *)
LEMMA ProgramsStart ==
  ASSUME OperationsInit
  PROVE  LaunchKnown /\ CreationKnown /\ HelperKnown
<1>1. PICK start \in {"args", "idle"} : CaseInit(start) /\ (op = "launch" => start = "idle")
  BY DEF OperationsInit
<1>2. LaunchKnown
  <2>1. LaunchTyped /\ sse = "none" /\ lpc = "idle" /\ lanswer = {}
    <3>1. stop \in BOOLEAN /\ prompts \in BOOLEAN /\ unstable \in BOOLEAN
      BY <1>1, Zenon DEF CaseInit, LaunchInit
    <3>2. /\ sse = "none" /\ shown = "frame" /\ clock = 0 /\ lpc = "idle" /\ lseen = "nothing"
          /\ handovers = 0 /\ lanswer = {}
      BY <1>1 DEF CaseInit, LaunchInit
    <3>3. QED
      BY <3>1, <3>2, HandoversAssumption DEF LaunchTyped, Screens
  <2>2. QED
    BY <2>1 DEF LaunchKnown, LaunchAnswerIsTrue
<1>3. CreationKnown
  <2>1. /\ CaseTyped /\ lpc = "idle" /\ lanswer = {} /\ file = "absent" /\ flight = "none"
        /\ ~pid /\ roots = 0 /\ cpc \in {"args", "idle"} /\ (op = "launch" => cpc = "idle")
    <3>1. menu \in BOOLEAN /\ pid \in BOOLEAN /\ unconfirmed \in BOOLEAN /\ pinned \in BOOLEAN
          /\ lacking \in BOOLEAN /\ ~pid
      BY <1>1, Zenon DEF CaseInit
    <3>2. /\ file = "absent" /\ flight = "none" /\ cpc \in {"args", "idle"} /\ roots = 0 /\ why = {}
          /\ canswer = {} /\ lpc = "idle" /\ lanswer = {} /\ (op = "launch" => cpc = "idle")
      BY <1>1 DEF CaseInit, LaunchInit
    <3>3. QED
      BY <3>1, <3>2 DEF CaseTyped
  <2>2. QED
    BY <2>1 DEF CreationKnown, BeforeLaunch, InStartPage, InAssistant, CaseAnswerIsTrue
<1>4. PICK begin \in {"start", "stop", "status", "idle"} :
        /\ DesktopInit(begin)
    BY DEF OperationsInit, DesktopStarts, Helpers
<1>5. HelperKnown
  BY <1>4
  DEF DesktopInit, HelperKnown, DesktopTypeOK, DesktopAnswerIsTrue, Markers, Programs, DesktopMarks
<1>6. QED
  BY <1>2, <1>3, <1>5

(* The types, as the modules state them.                                   *)
LEMMA ProgramTypes ==
  ASSUME LaunchTyped, CaseTyped
  PROVE  CaseTypeOK
<1>1. ASSUME NEW a \in BOOLEAN, NEW b \in BOOLEAN, NEW c \in BOOLEAN, NEW d \in BOOLEAN
      PROVE  {a, b, c, d} \subseteq BOOLEAN /\ {a, b} \subseteq BOOLEAN
  OBVIOUS
<1>2. LaunchTypeOK
  BY <1>1 DEF LaunchTyped, LaunchTypeOK
<1>3. QED
  BY <1>1, <1>2 DEF CaseTyped, CaseTypeOK

(* Whatever is disturbed while a launch runs, what it has answered stays   *)
(* true: the program that ends is not started again.                       *)
LEMMA LaunchUndisturbed ==
  ASSUME LaunchKnown, LaunchDisturbed
  PROVE  LaunchKnown'
<1> USE DEF LaunchKnown, LaunchTyped, LaunchAnswerIsTrue, llocal
<1>1. CASE Tick
  BY <1>1 DEF Tick
<1>2. CASE ClientStops
  BY <1>2 DEF ClientStops
<1>3. CASE SseEnds
  BY <1>3 DEF SseEnds
<1>4. CASE SseShows
  BY <1>4 DEF SseShows, Screens
<1>5. QED
  BY <1>1, <1>2, <1>3, <1>4 DEF LaunchDisturbed

(* A call of the launch begins with no program.                            *)
LEMMA LaunchBegins ==
  ASSUME LaunchKnown, lpc = "idle", lanswer = {}, LaunchCalled, UNCHANGED world
  PROVE  LaunchKnown'
<1>1. /\ lpc' = "start" /\ lseen' = "nothing" /\ prompts' = FALSE /\ unstable' = FALSE
      /\ handovers' = 0 /\ lanswer' = {} /\ UNCHANGED <<sse, shown, clock, stop>> /\ sse = "none"
  BY DEF LaunchCalled, world, LaunchKnown
<1>2. LaunchTyped'
  <2>1. prompts' \in BOOLEAN /\ unstable' \in BOOLEAN
    BY <1>1, Zenon
  <2>2. QED
    BY <1>1, <2>1, HandoversAssumption DEF LaunchKnown, LaunchTyped
<1>3. QED
  BY <1>1, <1>2 DEF LaunchKnown, LaunchAnswerIsTrue

(* A launch that ends keeps the program that may run, or says that none    *)
(* was started.                                                            *)
LEMMA LaunchEnds ==
  ASSUME LaunchKnown, NEW marks \in SUBSET LaunchMarks, LaunchAnswers(marks), marks # {},
         shown' = shown, clock' = clock, stop' = stop, sse' \in {sse, "running"},
         "ready" \in marks => "ok" \in marks,
         sse' = "running" => marks \cap {"ready", "preserved"} # {},
         "unchanged" \in marks => sse' = "none"
  PROVE  LaunchKnown'
BY DEF LaunchKnown, LaunchAnswers, LaunchTyped, LaunchAnswerIsTrue

(* What a launch keeps is a part of its answer.                            *)
LEMMA KeptMarks ==
  ASSUME NEW known \in BOOLEAN, NEW still \in BOOLEAN
  PROVE  /\ PreservedLaunchState(known, still) \subseteq LaunchMarks
         /\ "preserved" \in PreservedLaunchState(known, still)
         /\ "ready" \notin PreservedLaunchState(known, still)
         /\ "unchanged" \notin PreservedLaunchState(known, still)
         /\ "ok" \notin PreservedLaunchState(known, still)
BY DEF PreservedLaunchState, LaunchMarks

(* Every step of the launch keeps it known.                                *)
LEMMA LaunchKeeps ==
  ASSUME LaunchKnown, LaunchStep
  PROVE  LaunchKnown' /\ shown' = shown /\ (sse' = "gone" <=> sse = "gone")
<1>1. CASE StartProgram
  <2>1. /\ lpc = "start" /\ sse = "none" /\ lanswer = {} /\ UNCHANGED <<shown, clock, stop>>
        /\ sse' \in {sse, "running"}
    BY <1>1 DEF StartProgram, LaunchKnown
  <2>2. CASE /\ sse' = "running" /\ lpc' = "probe"
             /\ UNCHANGED <<lseen, prompts, unstable, handovers, lanswer>>
    BY <2>1, <2>2 DEF LaunchKnown, LaunchTyped, LaunchAnswerIsTrue
  <2>3. CASE LaunchAnswers({"aborted"} \union PreservedLaunchState(TRUE, FALSE))
    BY <2>1, <2>3, KeptMarks, LaunchEnds DEF LaunchMarks
  <2>4. CASE \E known \in BOOLEAN : LaunchAnswers(PreservedLaunchState(known, FALSE))
    BY <2>1, <2>4, KeptMarks, LaunchEnds
  <2>5. CASE UNCHANGED sse /\ LaunchAnswers({"unchanged"})
    BY <2>1, <2>5, LaunchEnds DEF LaunchMarks
  <2>6. QED
    BY <1>1, <2>1, <2>2, <2>3, <2>4, <2>5 DEF StartProgram
<1>2. CASE Probe
  <2>1. lpc' \in {"judge", "probe", "failed"} /\ UNCHANGED <<sse, shown, clock, stop, lanswer>>
    BY <1>2 DEF Probe, Looks, world
  <2>2. handovers' \in 0 .. MaxHandovers
    <3>1. \/ handovers' \in {handovers, 0}
          \/ handovers < MaxHandovers /\ handovers' = handovers + 1
      BY <1>2 DEF Probe, Looks
    <3>2. QED
      BY <3>1, HandoversAssumption DEF LaunchKnown, LaunchTyped
  <2>a. lseen' \in Screens \union {"nothing", "fresh", "failed"}
    <3>1. lseen' \in {lseen, shown, "nothing", "fresh", "failed"}
      BY <1>2 DEF Probe, Looks
    <3>2. QED
      BY <3>1 DEF LaunchKnown, LaunchTyped
  <2>3. unstable' \in BOOLEAN
    BY <1>2, Zenon DEF Probe, LaunchKnown, LaunchTyped
  <2>4. prompts' \in BOOLEAN
    BY <1>2, Zenon DEF Probe, LaunchKnown, LaunchTyped
  <2>5. lpc = "probe"
    BY <1>2 DEF Probe
  <2>6. LaunchTyped'
    BY <2>1, <2>2, <2>a, <2>3, <2>4 DEF LaunchKnown, LaunchTyped
  <2>7. QED
    BY <2>1, <2>5, <2>6 DEF LaunchKnown, LaunchAnswerIsTrue
<1>3. CASE JudgeLaunch
  <2>1. UNCHANGED <<sse, shown, clock, stop>>
    BY <1>3 DEF JudgeLaunch, world
  <2>2. CASE LaunchAnswers({"ok", "ready", "pid"})
    BY <2>1, <2>2, LaunchEnds DEF LaunchMarks
  <2>3. CASE \E more \in SUBSET {"aborted", "ok", "blocked", "question"}, still \in BOOLEAN :
               LaunchAnswers(more \union PreservedLaunchState(TRUE, still))
    BY <2>1, <2>3, KeptMarks, LaunchEnds DEF LaunchMarks
  <2>4. CASE LaunchAnswers((IF LastPrompts /\ ~unstable THEN {"question"} ELSE {})
                           \union PreservedLaunchState(TRUE, LastPrompts /\ ~unstable /\ lseen = "prompt"))
    <3> DEFINE still == LastPrompts /\ ~unstable /\ lseen = "prompt"
               more == IF LastPrompts /\ ~unstable THEN {"question"} ELSE {}
    <3>1. still \in BOOLEAN /\ more \in SUBSET {"aborted", "ok", "blocked", "question"}
      OBVIOUS
    <3>2. LaunchAnswers(more \union PreservedLaunchState(TRUE, still))
      BY <2>4
    <3> HIDE DEF still, more
    <3>3. QED
      BY <2>3, <3>1, <3>2
  <2>5. CASE LaunchAnswers({"aborted"} \union PreservedLaunchState(TRUE, FALSE))
    BY <2>3, <2>5
  <2>6. CASE LaunchAnswers({"ok", "blocked"} \union PreservedLaunchState(TRUE, TRUE))
    BY <2>3, <2>6
  <2>7. CASE LaunchAnswers({"ok"} \union PreservedLaunchState(TRUE, TRUE))
    BY <2>3, <2>7
  <2>8. CASE LaunchAnswers(PreservedLaunchState(TRUE, TRUE))
    <3>1. PreservedLaunchState(TRUE, TRUE) = {} \union PreservedLaunchState(TRUE, TRUE)
      OBVIOUS
    <3>2. LaunchAnswers({} \union PreservedLaunchState(TRUE, TRUE))
      BY <2>8, <3>1
    <3>3. QED
      BY <2>3, <3>2
  <2>9. QED
    BY <1>3, <2>2, <2>4, <2>5, <2>6, <2>7, <2>8 DEF JudgeLaunch
<1>4. CASE ProbeThrew
  <2>1. UNCHANGED <<sse, shown, clock, stop>>
    BY <1>4 DEF ProbeThrew, world
  <2>2. PICK more \in SUBSET {"aborted"} :
          LaunchAnswers(more \union PreservedLaunchState(TRUE, FALSE))
    BY <1>4 DEF ProbeThrew
  <2>3. QED
    BY <2>1, <2>2, KeptMarks, LaunchEnds DEF LaunchMarks
<1>5. QED
  BY <1>1, <1>2, <1>3, <1>4 DEF LaunchStep

(* What a failure of a step leaves to be marked.                           *)
MarkedFailure(marks) ==
  /\ cpc' = "failed" /\ why' = marks /\ canswer' = canswer
  /\ marks \subseteq FailureMarks \ {"ok", "ended"}

(* Before the program has been started a failure has nothing to keep.      *)
LEMMA BeforeStartKeeps ==
  ASSUME LaunchKnown, CreationKnown, op = "case_create", op' = op,
         CheckArguments \/ ReadBefore
  PROVE  LaunchKnown' /\ CreationKnown'
<1>1. /\ UNCHANGED <<lcvars, cworld, clocal>> /\ cpc \in BeforeLaunch \ {"idle"}
      /\ \/ cpc' \in BeforeLaunch \ {"idle"} /\ UNCHANGED <<why, canswer>>
         \/ \E marks \in {{}, {"aborted"}} : MarkedFailure(marks)
  BY DEF CheckArguments, ReadBefore, Goes, FailsWith, ReadFails, StepDenied, BeforeLaunch,
         CreationKnown, MarkedFailure, FailureMarks, LaunchMarks
<1>2. UNCHANGED <<world, llocal>>
  BY <1>1 DEF lcvars
<1>3. LaunchKnown'
  BY <1>2 DEF LaunchKnown, LaunchTyped, LaunchAnswerIsTrue, world, llocal
<1>4. QED
  BY <1>1, <1>2, <1>3
  DEF CreationKnown, CaseTyped, CaseAnswerIsTrue, world, llocal, cworld, clocal, BeforeLaunch,
      InStartPage, InAssistant, MarkedFailure, LaunchKnown

(* A step that leaves the launch alone leaves it known.                    *)
LEMMA LaunchStays ==
  ASSUME LaunchKnown, UNCHANGED lcvars
  PROVE  LaunchKnown' /\ UNCHANGED <<sse, shown, clock, stop, lpc, lanswer>>
BY DEF LaunchKnown, LaunchTyped, LaunchAnswerIsTrue, lcvars, world, llocal

InProgram == InStartPage \cup InAssistant

(* A failure within the program it started keeps the creation known, if an *)
(* input that may still land is marked.                                    *)
LEMMA FailureKeeps ==
  ASSUME LaunchKnown, CreationKnown, op = "case_create", op' = op, UNCHANGED lcvars,
         cpc \in InProgram \cup {"bound"}, CaseTyped', pid' = pid, unconfirmed' = unconfirmed,
         NEW marks, MarkedFailure(marks), flight' # "none" => "unknown" \in marks
  PROVE  CreationKnown'
BY LaunchStays
DEF CreationKnown, CaseAnswerIsTrue, BeforeLaunch, InStartPage, InAssistant, InProgram, MarkedFailure

(* So does a step further.                                                 *)
LEMMA GoingOnKeeps ==
  ASSUME LaunchKnown, CreationKnown, op = "case_create", op' = op, UNCHANGED lcvars,
         cpc \in InProgram, CaseTyped', pid' = pid,
         unconfirmed' = unconfirmed \/ shown = "case",
         cpc' \in InProgram \cup {"bound"}, cpc' \in InStartPage => roots' \in 0 .. 2,
         flight' = flight, file' = "ours" <=> cpc' = "bound"
  PROVE  CreationKnown'
BY LaunchStays
DEF CreationKnown, CaseAnswerIsTrue, BeforeLaunch, InStartPage, InAssistant, InProgram

(* What the creation knows while it walks through the program.             *)
LEMMA InsideProgram ==
  ASSUME CreationKnown, cpc \in InProgram
  PROVE  pid /\ lpc = "idle" /\ flight = "none" /\ file # "ours"
BY DEF CreationKnown, InProgram, InStartPage, InAssistant

(* Failures of the steps, by what they send.                               *)
LEMMA ReadFailsMarks ==
  ASSUME NEW mark \in SUBSET (FailureMarks \ {"ok", "ended"}), ReadFails(mark)
  PROVE  \E marks : MarkedFailure(marks)
<1>1. \E marks \in SUBSET ({"aborted", "unknown", "reconcile"} \cup mark) :
        cpc' = "failed" /\ why' = marks /\ canswer' = canswer
  BY DEF ReadFails, StepDenied, FailsWith, Preserve
<1>2. QED
  BY <1>1 DEF MarkedFailure, FailureMarks, LaunchMarks

(* An input whose reply is lost is marked as one that may still land.      *)
LEMMA InputFailsMarks ==
  ASSUME NEW kind, InputFails(kind)
  PROVE  \E marks : /\ MarkedFailure(marks)
                    /\ flight' = flight \/ (flight' = kind /\ "unknown" \in marks)
BY DEF InputFails, StepDenied, FailsWith, MarkedFailure, FailureMarks, LaunchMarks

(* The steps on the start page.                                            *)
LEMMA StartPageKeeps ==
  ASSUME LaunchKnown, CreationKnown, op = "case_create", op' = op,
         FindWindow \/ ReadDialogs \/ ReadState \/ NextLook
  PROVE  CreationKnown'
<1>1. cpc \in InStartPage /\ UNCHANGED <<lcvars, file, flight, menu, pid>>
  BY DEF FindWindow, ReadDialogs, ReadState, NextLook, InStartPage, cworld, clocal
<1>2. pid /\ flight = "none" /\ file # "ours" /\ roots \in 0 .. 2 /\ CaseTyped
  BY <1>1, InsideProgram DEF InProgram, CreationKnown
<1>3. /\ \/ \E marks : MarkedFailure(marks)
         \/ cpc' \in InProgram /\ UNCHANGED <<why, canswer>>
      /\ unconfirmed' = unconfirmed \/ (unconfirmed' = FALSE /\ shown = "case" /\ cpc' = "subpages")
      /\ roots' = roots \/ (roots' = roots + 1 /\ (roots' = 3 => cpc' = "failed"))
  <2>1. CASE FindWindow
    BY <2>1, ReadFailsMarks
    DEF FindWindow, Goes, FailsWith, MarkedFailure, FailureMarks, LaunchMarks, Preserve, InProgram, InStartPage
  <2>2. CASE ReadDialogs
    BY <2>2, ReadFailsMarks
    DEF ReadDialogs, Goes, FailsWith, MarkedFailure, FailureMarks, LaunchMarks, Preserve, InProgram,
        InStartPage, clocal
  <2>3. CASE ReadState
    BY <2>3, ReadFailsMarks
    DEF ReadState, Goes, FailsWith, MarkedFailure, FailureMarks, LaunchMarks, Preserve, InProgram,
        InStartPage, InAssistant
  <2>4. CASE NextLook
    BY <2>4
    DEF NextLook, Goes, FailsWith, MarkedFailure, FailureMarks, LaunchMarks, Preserve, InProgram,
        InStartPage, clocal
  <2>5. QED
    BY <2>1, <2>2, <2>3, <2>4
<1>4. roots' \in 0 .. 3 /\ (cpc' # "failed" => roots' \in 0 .. 2)
  BY <1>2, <1>3
<1>5. unconfirmed' \in BOOLEAN
  BY <1>2, <1>3, Zenon DEF CaseTyped
<1>6. pinned' \in BOOLEAN /\ lacking' \in BOOLEAN
  BY <1>2, Zenon DEF FindWindow, ReadDialogs, ReadState, NextLook, clocal, CaseTyped
<1>7. CaseTyped'
  BY <1>1, <1>2, <1>3, <1>4, <1>5, <1>6 DEF CaseTyped, MarkedFailure, InProgram, InStartPage, InAssistant
<1>8. CASE \E marks : MarkedFailure(marks)
  BY <1>1, <1>2, <1>3, <1>7, <1>8, FailureKeeps DEF InProgram, MarkedFailure
<1>9. CASE cpc' \in InProgram
  BY <1>1, <1>2, <1>3, <1>4, <1>7, <1>9, GoingOnKeeps DEF InProgram, InStartPage, InAssistant
<1>10. QED
  BY <1>3, <1>8, <1>9

(* The steps through the assistant, up to the saved file.                  *)
LEMMA AssistantKeeps ==
  ASSUME LaunchKnown, CreationKnown, op = "case_create", op' = op,
         ReadSubpages \/ ClickThrough \/ OpenSaveDialog \/ CloseMenu \/ AwaitSaveDialog \/ SelectFile
  PROVE  CreationKnown'
<1>1. cpc \in InAssistant /\ UNCHANGED <<lcvars, pid, unconfirmed, pinned, roots, lacking>>
  BY DEF ReadSubpages, ClickThrough, AfterClick, OpenSaveDialog, CloseMenu, AwaitSaveDialog,
         SelectFile, InAssistant, clocal
<1>2. pid /\ flight = "none" /\ file # "ours" /\ CaseTyped
  BY <1>1, InsideProgram DEF InProgram, CreationKnown
<1>3. /\ \/ \E marks : MarkedFailure(marks) /\ (flight' # "none" => "unknown" \in marks)
         \/ /\ cpc' \in InAssistant \cup {"bound"} /\ why' \in {why, {}} /\ UNCHANGED <<canswer, flight>>
            /\ file' = "ours" <=> cpc' = "bound"
      /\ flight' \in {"none", "input", "save"} /\ file' \in {file, "ours"}
  <2>1. CASE ReadSubpages
    BY <1>2, <2>1, ReadFailsMarks
    DEF ReadSubpages, Goes, FailsWith, MarkedFailure, FailureMarks, LaunchMarks, InAssistant, cworld
  <2>2. CASE ClickThrough
    BY <1>2, <2>2, InputFailsMarks
    DEF ClickThrough, AfterClick, Goes, FailsWith, MarkedFailure, FailureMarks, LaunchMarks, InAssistant
  <2>3. CASE OpenSaveDialog
    BY <1>2, <2>3
    DEF OpenSaveDialog, StepDenied, Goes, FailsWith, MarkedFailure, FailureMarks, LaunchMarks, Preserve,
        InAssistant
  <2>4. CASE CloseMenu
    BY <1>2, <2>4
    DEF CloseMenu, Goes, FailsWith, MarkedFailure, FailureMarks, LaunchMarks, Preserve
  <2>5. CASE AwaitSaveDialog
    BY <1>2, <2>5
    DEF AwaitSaveDialog, Goes, FailsWith, MarkedFailure, FailureMarks, LaunchMarks, Preserve,
        InAssistant, cworld
  <2>6. CASE SelectFile
    BY <1>2, <2>6, InputFailsMarks
    DEF SelectFile, Goes, FailsWith, MarkedFailure, FailureMarks, LaunchMarks
  <2>7. QED
    BY <2>1, <2>2, <2>3, <2>4, <2>5, <2>6
<1>4. menu' \in BOOLEAN
  BY <1>2, Zenon
  DEF ReadSubpages, ClickThrough, OpenSaveDialog, CloseMenu, AwaitSaveDialog, SelectFile, CaseTyped, cworld
<1>5. CaseTyped'
  BY <1>1, <1>2, <1>3, <1>4 DEF CaseTyped, MarkedFailure, InAssistant
<1>6. CASE \E marks : MarkedFailure(marks) /\ (flight' # "none" => "unknown" \in marks)
  BY <1>1, <1>5, <1>6, FailureKeeps DEF InProgram
<1>7. CASE cpc' \in InAssistant \cup {"bound"} /\ flight' = flight /\ (file' = "ours" <=> cpc' = "bound")
  BY <1>1, <1>5, <1>7, GoingOnKeeps DEF InProgram, InStartPage, InAssistant
<1>8. QED
  BY <1>3, <1>6, <1>7

(* The launch within the creation: it is called once, and what it answers  *)
(* is known of the program from then on.                                   *)
LEMMA LaunchingKeeps ==
  ASSUME LaunchKnown, CreationKnown, op = "case_create", op' = op,
         CallLaunch \/ LaunchReturns
  PROVE  LaunchKnown' /\ CreationKnown'
<1>1. CASE CallLaunch /\ cpc' = "launching"
  <2>1. /\ cpc = "launch" /\ LaunchCalled /\ UNCHANGED <<world, cworld, clocal, why, canswer>>
    BY <1>1 DEF CallLaunch, Goes, FailsWith
  <2>2. lpc = "idle" /\ lanswer = {} /\ ~pid /\ CaseTyped /\ flight = "none" /\ file # "ours"
    BY <2>1 DEF CreationKnown, BeforeLaunch
  <2>3. LaunchKnown'
    BY <2>1, <2>2, LaunchBegins
  <2>4. QED
    BY <1>1, <2>1, <2>2, <2>3
    DEF CreationKnown, CaseTyped, CaseAnswerIsTrue, cworld, clocal, BeforeLaunch, InStartPage, InAssistant
<1>2. CASE CallLaunch /\ cpc' = "failed"
  <2>1. /\ cpc = "launch" /\ UNCHANGED <<lcvars, cworld, clocal>> /\ MarkedFailure({})
    BY <1>2 DEF CallLaunch, Goes, FailsWith, lcvars, MarkedFailure
  <2>2. lpc = "idle" /\ lanswer = {} /\ ~pid /\ CaseTyped /\ flight = "none" /\ file # "ours" /\ sse = "none"
    BY <2>1 DEF CreationKnown, BeforeLaunch, LaunchKnown
  <2>3. LaunchKnown' /\ lpc' = "idle" /\ sse' = "none"
    BY <2>1, <2>2, LaunchStays
  <2>4. QED
    BY <2>1, <2>2, <2>3
    DEF CreationKnown, CaseTyped, CaseAnswerIsTrue, cworld, clocal, BeforeLaunch, InStartPage, InAssistant,
        MarkedFailure
<1>3. CASE LaunchReturns
  <2>1. /\ cpc = "launching" /\ lpc = "idle" /\ UNCHANGED <<lcvars, cworld, pinned, roots, lacking>>
    BY <1>3 DEF LaunchReturns
  <2>2. /\ lanswer \subseteq LaunchMarks /\ ~pid /\ CaseTyped /\ flight = "none" /\ file # "ours"
        /\ sse = "running" => lanswer \cap {"ready", "preserved"} # {}
        /\ "ready" \in lanswer => "ok" \in lanswer
    BY <2>1 DEF CreationKnown, BeforeLaunch, LaunchKnown, LaunchTyped, LaunchAnswerIsTrue
  <2>3. CASE "ok" \notin lanswer
    <3>1. pid' = pid /\ unconfirmed' = unconfirmed /\ MarkedFailure(lanswer \cup {"launched"})
      BY <1>3, <2>2, <2>3 DEF LaunchReturns, FailsWith, MarkedFailure, FailureMarks, LaunchMarks
    <3>2. QED
      BY <2>1, <2>2, <2>3, <3>1, LaunchStays
      DEF CreationKnown, CaseTyped, CaseAnswerIsTrue, cworld, BeforeLaunch, InStartPage, InAssistant,
          MarkedFailure
  <2>4. CASE "ok" \in lanswer
    <3>1. /\ pid' /\ unconfirmed'
          /\ \/ cpc' = "find" /\ UNCHANGED <<why, canswer>>
             \/ MarkedFailure((lanswer \ {"ok"}) \cup {"preserved", "reconcile"})
      BY <1>3, <2>2, <2>4 DEF LaunchReturns, FailsWith, Goes, MarkedFailure, FailureMarks, LaunchMarks
    <3>2. pid' \in BOOLEAN /\ unconfirmed' \in BOOLEAN
      BY <1>3, <2>4, Zenon DEF LaunchReturns
    <3>3. QED
      BY <2>1, <2>2, <2>4, <3>1, <3>2, LaunchStays
      DEF CreationKnown, CaseTyped, CaseAnswerIsTrue, cworld, BeforeLaunch, InStartPage, InAssistant,
          MarkedFailure
  <2>5. QED
    BY <2>3, <2>4
<1>4. QED
  BY <1>1, <1>2, <1>3 DEF CallLaunch, Goes, FailsWith

(* What normalizeFailure adds: whatever is uncertain, and whatever was     *)
(* started and not yet recognized, is kept.                                *)
LEMMA NormalizedMarks ==
  ASSUME NEW marks \in SUBSET (FailureMarks \ {"ok", "ended"})
  PROVE  /\ marks \subseteq NormalizeFailure(marks)
         /\ NormalizeFailure(marks) \subseteq FailureMarks \ {"ok", "ended"}
         /\ pid /\ unconfirmed => "preserved" \in NormalizeFailure(marks)
         /\ pid /\ "unknown" \in marks => "preserved" \in NormalizeFailure(marks)
BY DEF NormalizeFailure, MustPreserveFailedCase, Preserve, FailureMarks, LaunchMarks

(* The steps that answer, and the end of the program that was started.     *)
LEMMA AnswerKeeps ==
  ASSUME LaunchKnown, CreationKnown, op = "case_create", op' = op,
         ReadBound \/ CaseFails \/ CloseStarted \/ ReadProcesses
  PROVE  LaunchKnown' /\ CreationKnown'
<1>1. CASE ReadBound
  <2>1. cpc = "bound" /\ UNCHANGED <<lcvars, cworld, clocal>>
    BY <1>1 DEF ReadBound
  <2>2. CaseTyped /\ pid /\ flight = "none" /\ file = "ours" /\ lpc = "idle"
    BY <2>1 DEF CreationKnown
  <2>3. CASE \E marks : MarkedFailure(marks)
    <3>1. CaseTyped'
      BY <2>1, <2>2, <2>3 DEF CaseTyped, MarkedFailure, cworld, clocal
    <3>2. QED
      BY <2>1, <2>2, <2>3, <3>1, FailureKeeps, LaunchStays DEF cworld, clocal
  <2>4. CASE cpc' = "done" /\ canswer' = {"ok", "created", "running"} /\ UNCHANGED why
    BY <2>1, <2>2, <2>4, LaunchStays
    DEF CreationKnown, CaseTyped, CaseAnswerIsTrue, cworld, clocal, BeforeLaunch, InStartPage, InAssistant,
        FailureMarks, LaunchMarks
  <2>5. QED
    BY <1>1, <2>3, <2>4, ReadFailsMarks
    DEF ReadBound, FailsWith, MarkedFailure, FailureMarks, LaunchMarks
<1>2. CASE CaseFails
  <2>1. /\ cpc = "failed" /\ UNCHANGED <<lcvars, cworld, clocal>> /\ why' = NormalizeFailure(why)
        /\ \/ cpc' = "close" /\ UNCHANGED canswer /\ pid /\ file = "absent" /\ "preserved" \notin why'
           \/ /\ cpc' = "done"
              /\ canswer' = {"failed"} \union why'
                            \union (IF file # "absent" THEN {"created"} ELSE {})
                            \union (IF pid /\ "preserved" \notin why' THEN {"running"} ELSE {})
    BY <1>2 DEF CaseFails
  <2>2. /\ CaseTyped /\ lpc = "idle" /\ why \in SUBSET (FailureMarks \ {"ok", "ended"})
        /\ flight # "none" => pid /\ "unknown" \in why
        /\ ~pid /\ sse = "running" => "preserved" \in why
    BY <2>1 DEF CreationKnown, CaseTyped
  <2>3. /\ why \subseteq why' /\ why' \subseteq FailureMarks \ {"ok", "ended"}
        /\ pid /\ unconfirmed => "preserved" \in why'
        /\ pid /\ "unknown" \in why => "preserved" \in why'
    BY <2>1, <2>2, NormalizedMarks
  <2>4. CaseTyped'
    BY <2>1, <2>2, <2>3 DEF CaseTyped, cworld, clocal, FailureMarks, LaunchMarks
  <2>5. CaseAnswerIsTrue'
    BY <2>1, <2>2, <2>3, LaunchStays DEF CaseAnswerIsTrue, cworld
  <2>6. QED
    BY <2>1, <2>2, <2>3, <2>4, <2>5, LaunchStays
    DEF CreationKnown, cworld, clocal, BeforeLaunch, InStartPage, InAssistant
<1>3. CASE CloseStarted
  <2>1. /\ cpc = "close" /\ cpc' = "status"
        /\ UNCHANGED <<shown, clock, stop, llocal, cworld, clocal, why, canswer>>
        /\ sse' = sse \/ (sse = "running" /\ sse' = "gone")
    BY <1>3 DEF CloseStarted
  <2>2. LaunchKnown'
    BY <2>1 DEF LaunchKnown, LaunchTyped, LaunchAnswerIsTrue, llocal
  <2>3. QED
    BY <2>1, <2>2
    DEF CreationKnown, CaseTyped, CaseAnswerIsTrue, cworld, clocal, llocal, BeforeLaunch, InStartPage,
        InAssistant
<1>4. CASE ReadProcesses
  <2>1. /\ cpc = "status" /\ cpc' = "done" /\ UNCHANGED <<lcvars, cworld, clocal, why>>
    BY <1>4 DEF ReadProcesses
  <2>2. /\ CaseTyped /\ pid /\ lpc = "idle" /\ why \cap {"ok", "ended"} = {} /\ flight = "none" /\ file # "ours"
    BY <2>1 DEF CreationKnown
  <2>3. \/ canswer' = {"failed"} \union why \union {"running"}
        \/ sse # "running" /\ canswer' = {"failed"} \union why \union {"ended"}
    BY <1>4 DEF ReadProcesses, StillRunning
  <2>4. CaseTyped'
    BY <2>1, <2>2, <2>3 DEF CaseTyped, cworld, clocal, FailureMarks, LaunchMarks
  <2>5. QED
    BY <2>1, <2>2, <2>3, <2>4, LaunchStays
    DEF CreationKnown, CaseAnswerIsTrue, cworld, clocal, BeforeLaunch, InStartPage, InAssistant
<1>5. QED
  BY <1>1, <1>2, <1>3, <1>4

(* What happens around the creation: a person saves another file, a        *)
(* program ends or shows something else, an input lands late.              *)
LEMMA DisturbanceKeeps ==
  ASSUME LaunchKnown, CreationKnown, op' = op, CaseDisturbed
  PROVE  LaunchKnown' /\ CreationKnown'
<1>1. UNCHANGED <<cpc, clocal, why, canswer>>
  BY DEF CaseDisturbed
<1>2. CASE LaunchDisturbed /\ UNCHANGED cworld
  <2>1. LaunchKnown'
    BY <1>2, LaunchUndisturbed
  <2>2. /\ UNCHANGED <<llocal, cworld>> /\ (sse' = sse \/ (sse = "running" /\ sse' = "gone"))
        /\ shown = "case" => shown' = "case"
    BY <1>2 DEF LaunchDisturbed, Tick, ClientStops, SseEnds, SseShows
  <2>3. /\ UNCHANGED <<lpc, lanswer, file, flight, menu, cpc, pid, unconfirmed, pinned, roots, lacking>>
        /\ UNCHANGED <<why, canswer>> /\ (sse' = "running" => sse = "running")
    BY <1>1, <2>2 DEF llocal, cworld, clocal
  <2>4. CaseTyped'
    BY <2>3 DEF CreationKnown, CaseTyped
  <2>5. CaseAnswerIsTrue'
    BY <2>3 DEF CreationKnown, CaseAnswerIsTrue
  <2>6. QED
    BY <2>1, <2>2, <2>3, <2>4, <2>5 DEF CreationKnown, BeforeLaunch, InStartPage, InAssistant
<1>3. CASE (SomebodySaves \/ InputLands) /\ UNCHANGED lcvars
  <2>1. LaunchKnown' /\ UNCHANGED <<sse, shown, lpc, lanswer>>
    BY <1>3, LaunchStays
  <2>2. /\ menu' = menu
        /\ \/ file = "absent" /\ file' = "foreign" /\ flight' = flight
           \/ flight # "none" /\ flight' = "none" /\ file' \in {file, "ours"}
    BY <1>3 DEF SomebodySaves, InputLands
  <2>3. CaseTyped'
    BY <1>1, <2>2 DEF CreationKnown, CaseTyped, clocal
  <2>4. QED
    BY <1>1, <2>1, <2>2, <2>3
    DEF CreationKnown, CaseAnswerIsTrue, clocal, BeforeLaunch, InStartPage, InAssistant
<1>4. QED
  BY <1>2, <1>3 DEF CaseDisturbed

(* The launch, called on its own or within the creation.                   *)
LEMMA LaunchStepsKeep ==
  ASSUME LaunchKnown, CreationKnown, op' = op,
         LaunchStep \/ LaunchDisturbed,
         cpc \in {"idle", "launching"}, UNCHANGED <<cworld, cpc, clocal, why, canswer>>
  PROVE  LaunchKnown' /\ CreationKnown'
<1>1. LaunchKnown'
  BY LaunchKeeps, LaunchUndisturbed
<1>2. QED
  BY <1>1
  DEF CreationKnown, CaseTyped, CaseAnswerIsTrue, cworld, clocal, BeforeLaunch, InStartPage, InAssistant

(* Every step of the operations keeps what is known of both.               *)
LEMMA ProgramsKeep ==
  ASSUME LaunchKnown, CreationKnown, [OperationsNext]_opvars
  PROVE  LaunchKnown' /\ CreationKnown'
<1>1. op' = op
  BY ProgramStep
<1>2. CASE UNCHANGED ccvars
  BY <1>1, <1>2, LaunchStays
  DEF ccvars, CreationKnown, CaseTyped, CaseAnswerIsTrue, cworld, clocal, BeforeLaunch, InStartPage, InAssistant
<1>3. CASE op = "launch" /\ Launch
  <2>1. cpc = "idle" /\ UNCHANGED <<cworld, cpc, clocal, why, canswer>>
    BY <1>3 DEF Launch, CreationKnown
  <2>2. CASE LaunchStep \/ LaunchDisturbed
    BY <1>1, <2>1, <2>2, LaunchStepsKeep
  <2>3. CASE lpc = "idle" /\ lanswer = {} /\ (LaunchCalled \/ LaunchAnswers({"unchanged"})) /\ UNCHANGED world
    <3>1. LaunchKnown'
      <4>1. CASE LaunchCalled
        BY <2>3, <4>1, LaunchBegins
      <4>2. CASE LaunchAnswers({"unchanged"})
        <5>1. sse = "none" /\ UNCHANGED <<sse, shown, clock, stop>>
          BY <2>3 DEF LaunchKnown, world
        <5>2. QED
          BY <4>2, <5>1, LaunchEnds DEF LaunchMarks
      <4>3. QED
        BY <2>3, <4>1, <4>2
    <3>2. shown' = shown
      BY <2>3 DEF world
    <3>3. QED
      BY <1>1, <1>3, <2>1, <3>1, <3>2
      DEF CreationKnown, CaseTyped, CaseAnswerIsTrue, cworld, clocal, BeforeLaunch, InStartPage, InAssistant
  <2>4. QED
    BY <1>3, <2>2, <2>3 DEF Launch
<1>4. CASE op = "case_create" /\ CaseNext
  <2>1. CASE LaunchStep /\ cpc = "launching" /\ UNCHANGED <<cworld, cpc, clocal, why, canswer>>
    BY <1>1, <2>1, LaunchStepsKeep
  <2>2. CASE FindWindow \/ ReadDialogs \/ ReadState \/ NextLook
    <3>1. UNCHANGED lcvars
      BY <2>2 DEF FindWindow, ReadDialogs, ReadState, NextLook
    <3>2. QED
      BY <1>1, <1>4, <2>2, <3>1, StartPageKeeps, LaunchStays
  <2>3. CASE ReadSubpages \/ ClickThrough \/ OpenSaveDialog \/ CloseMenu \/ AwaitSaveDialog \/ SelectFile
    <3>1. UNCHANGED lcvars
      BY <2>3 DEF ReadSubpages, ClickThrough, OpenSaveDialog, CloseMenu, AwaitSaveDialog, SelectFile
    <3>2. QED
      BY <1>1, <1>4, <2>3, <3>1, AssistantKeeps, LaunchStays
  <2>4. QED
    BY <1>1, <1>4, <2>1, <2>2, <2>3, BeforeStartKeeps, LaunchingKeeps, AnswerKeeps, DisturbanceKeeps
    DEF CaseNext, CaseStep
<1>5. QED
  BY <1>2, <1>3, <1>4, ProgramStep

(* Every step of a helper keeps what is known of it.                       *)
LEMMA HelperKeeps ==
  ASSUME HelperKnown, [OperationsNext]_opvars
  PROVE  HelperKnown'
<1> USE DEF Programs, Markers, DesktopMarks, Owned
<1>1. CASE StartLooks \/ StatusLooks \/ StopLooks
  <2>1. /\ UNCHANGED <<marker, alive, hit>> /\ hit = {} /\ "second" \notin alive
        /\ dpc \in {"start", "status", "stop"}
    BY <1>1 DEF StartLooks, StatusLooks, StopLooks, HelperKnown, dworldvars
  <2>2. \/ /\ dpc' \in {"startrun", "statusrun", "stoprun"} /\ UNCHANGED <<danswer, dreply>>
           /\ seenMark' = marker /\ (dpc' = "stoprun" => Owned(marker))
        \/ dpc' = "statusown" /\ UNCHANGED danswer /\ seenMark' = marker /\ dreply' = {"inactive"}
        \/ dpc' = "done" /\ danswer' = {"failed"} /\ UNCHANGED <<seenMark, dreply>>
    BY <1>1
    DEF StartLooks, StatusLooks, StopLooks, DesktopGoes, DesktopFails, DesktopReturns, ReadDesktopMarker
  <2>3. DesktopTypeOK'
    BY <2>1, <2>2 DEF HelperKnown, DesktopTypeOK
  <2>4. DesktopAnswerIsTrue'
    BY <2>1, <2>2 DEF DesktopAnswerIsTrue
  <2>5. dpc' = "statusown" => dreply' \cap {"active", "inactive"} # {} /\ "ok" \notin dreply'
    BY <2>2
  <2>6. QED
    BY <2>1, <2>2, <2>3, <2>4, <2>5 DEF HelperKnown
<1>2. CASE StartRuns
  <2>1. dpc = "startrun" /\ UNCHANGED <<hit, seenMark>> /\ hit = {} /\ "second" \notin alive
    BY <1>2 DEF StartRuns, HelperKnown
  <2>2. /\ alive' \subseteq Programs /\ marker' \in Markers
        /\ \/ dpc' = "startown" /\ (\E r \in Programs : dreply' = {r}) /\ UNCHANGED danswer
           \/ dpc' = "done" /\ danswer' = {"failed"} /\ UNCHANGED alive /\ dreply' \in {dreply, {}}
           \/ dpc' = "done" /\ danswer' = {"failed", "unknown"} /\ UNCHANGED dreply
    <3>1. /\ alive' \in {alive, alive \union {"second"}, {"second"}} /\ marker' \in {marker, "second"}
      BY <1>2 DEF StartRuns
    <3>2. /\ \/ dpc' = "startown" /\ (\E r \in Programs : dreply' = {r}) /\ UNCHANGED danswer
             \/ dpc' = "done" /\ danswer' = {"failed"} /\ UNCHANGED alive /\ dreply' \in {dreply, {}}
             \/ dpc' = "done" /\ danswer' = {"failed", "unknown"} /\ UNCHANGED dreply
      BY <1>2 DEF StartRuns, DesktopGoes, Interrupted
    <3>3. QED
      BY <3>1, <3>2 DEF HelperKnown, DesktopTypeOK
  <2>3. DesktopTypeOK'
    BY <2>1, <2>2 DEF HelperKnown, DesktopTypeOK
  <2>4. DesktopAnswerIsTrue'
    BY <2>1, <2>2 DEF DesktopAnswerIsTrue
  <2>5. QED
    BY <2>1, <2>2, <2>3, <2>4 DEF HelperKnown
<1>3. CASE StartOwns
  <2>1. dpc = "startown" /\ UNCHANGED <<marker, alive, hit, seenMark, dreply>> /\ hit = {} /\ dpc' = "done"
    BY <1>3 DEF StartOwns, HelperKnown, dworldvars, DesktopFails, DesktopReturns
  <2>2. danswer' = {"failed", "unknown"} \/ (danswer' = {"ok"} /\ marker = "second")
    BY <1>3 DEF StartOwns, DesktopFails, DesktopReturns
  <2>3. QED
    BY <2>1, <2>2 DEF HelperKnown, DesktopTypeOK, DesktopAnswerIsTrue
<1>4. CASE StatusRuns
  BY <1>4 DEF StatusRuns, DesktopGoes, HelperKnown, DesktopTypeOK, DesktopAnswerIsTrue, dworldvars
<1>5. CASE StatusOwns
  <2>1. /\ dpc = "statusown" /\ UNCHANGED <<marker, alive, hit, seenMark, dreply>> /\ dpc' = "done"
        /\ hit = {} /\ "second" \notin alive
        /\ dreply \cap {"active", "inactive"} # {} /\ "ok" \notin dreply /\ dreply \subseteq DesktopMarks
    BY <1>5 DEF StatusOwns, HelperKnown, dworldvars, DesktopFails, DesktopReturns, DesktopTypeOK
  <2>2. CASE danswer' = {"failed"}
    BY <2>1, <2>2 DEF HelperKnown, DesktopTypeOK, DesktopAnswerIsTrue
  <2>3. CASE Owned(seenMark) /\ marker = seenMark /\ danswer' = {"ok"} \union (dreply \ Programs)
    BY <2>1, <2>3 DEF HelperKnown, DesktopTypeOK, DesktopAnswerIsTrue
  <2>4. CASE danswer' = {"ok", "inactive"}
    BY <2>1, <2>4 DEF HelperKnown, DesktopTypeOK, DesktopAnswerIsTrue
  <2>5. QED
    BY <1>5, <2>2, <2>3, <2>4 DEF StatusOwns, DesktopFails, DesktopReturns
<1>6. CASE StopRuns
  <2>1. /\ dpc = "stoprun" /\ seenMark' = seenMark /\ hit = {} /\ "second" \notin alive /\ Owned(seenMark)
    BY <1>6 DEF StopRuns, HelperKnown
  <2>2. /\ marker' \in {marker, "none"}
        /\ (alive' = alive /\ hit' = hit) \/ (alive' = alive \ {seenMark} /\ hit' = hit \union {seenMark})
        /\ \/ dpc' = "stopown" /\ (\E r \in Programs : dreply' = {r}) /\ UNCHANGED danswer
           \/ dpc' = "done" /\ danswer' = {"failed"} /\ UNCHANGED <<hit, dreply>>
           \/ dpc' = "done" /\ danswer' \in {{"failed", "exited"}, {"failed", "unknown"}} /\ UNCHANGED dreply
    <3>1. marker' \in {marker, "none"}
      BY <1>6 DEF StopRuns, dworldvars
    <3>2. (alive' = alive /\ hit' = hit) \/ (alive' = alive \ {seenMark} /\ hit' = hit \union {seenMark})
      BY <1>6 DEF StopRuns, dworldvars
    <3>3. \/ dpc' = "stopown" /\ (\E r \in Programs : dreply' = {r}) /\ UNCHANGED danswer
          \/ dpc' = "done" /\ danswer' = {"failed"} /\ UNCHANGED <<hit, dreply>>
          \/ dpc' = "done" /\ danswer' \in {{"failed", "exited"}, {"failed", "unknown"}} /\ UNCHANGED dreply
      BY <1>6 DEF StopRuns, dworldvars, DesktopGoes, Interrupted
    <3>4. QED
      BY <3>1, <3>2, <3>3
  <2>3. alive' \subseteq {"first"} /\ (hit' = {} \/ hit' = {seenMark}) /\ marker' \in Markers
    BY <2>1, <2>2 DEF HelperKnown, DesktopTypeOK
  <2>4. DesktopTypeOK'
    BY <2>1, <2>2, <2>3 DEF HelperKnown, DesktopTypeOK
  <2>5. DesktopAnswerIsTrue'
    BY <2>1, <2>2, <2>3 DEF DesktopAnswerIsTrue
  <2>6. QED
    BY <2>1, <2>2, <2>3, <2>4, <2>5 DEF HelperKnown
<1>7. CASE StopOwns
  <2>1. /\ dpc = "stopown" /\ UNCHANGED <<marker, alive, hit, seenMark, dreply>> /\ dpc' = "done"
        /\ hit \in {{}, {seenMark}}
    BY <1>7 DEF StopOwns, HelperKnown, dworldvars, DesktopFails, DesktopReturns
  <2>2. danswer' = {"failed", "unknown"} \/ (danswer' = {"ok"} /\ marker = "none")
    BY <1>7 DEF StopOwns, DesktopFails, DesktopReturns
  <2>3. QED
    BY <2>1, <2>2 DEF HelperKnown, DesktopTypeOK, DesktopAnswerIsTrue
<1>8. CASE DesktopDisturbed
  BY <1>8 DEF DesktopDisturbed, HelperKnown, DesktopTypeOK, DesktopAnswerIsTrue
<1>9. CASE UNCHANGED dvars
  BY <1>9 DEF dvars, dworldvars, HelperKnown, DesktopTypeOK, DesktopAnswerIsTrue
<1>10. QED
  BY <1>1, <1>2, <1>3, <1>4, <1>5, <1>6, <1>7, <1>8, <1>9, ProgramStep DEF DesktopNext, DesktopStep

(* For any number of handovers: the answer of a launch or of a creation is *)
(* true of the program and of the file, a live program and a written file  *)
(* are never passed over in silence, and what a helper leaves open is      *)
(* marked (launch-executor.ts, case-create-executor.ts,                    *)
(* native-desktop-*.ts).                                                   *)
THEOREM ProgramAnswersAlwaysTrue == OperationsSpec => []ProgramAnswersAreTrue
<1>1. OperationsInit => LaunchKnown /\ CreationKnown /\ HelperKnown
  BY ProgramsStart
<1>2. LaunchKnown /\ CreationKnown /\ HelperKnown /\ [OperationsNext]_opvars
        => LaunchKnown' /\ CreationKnown' /\ HelperKnown'
  BY ProgramsKeep, HelperKeeps
<1>3. LaunchKnown /\ CreationKnown /\ HelperKnown => ProgramAnswersAreTrue
  BY ProgramTypes DEF LaunchKnown, CreationKnown, HelperKnown, ProgramAnswersAreTrue
<1>4. QED
  BY <1>1, <1>2, <1>3, PTL DEF OperationsSpec

(* For any number of handovers: the program started for a case is ended    *)
(* only while no input is on its way, nothing was saved by this operation, *)
(* and it shows what the executor put there                                *)
(* (case-create-executor.ts:420-431).                                      *)
THEOREM EndedOnlyHarmlessly == OperationsSpec => EndedOnlyIfNothingLost
<1> DEFINE EndsIt == cpc = "close" /\ sse = "running" /\ sse' = "gone" /\ cpc' = "status"
           Harmless == flight = "none" /\ file # "ours" /\ shown = "case"
<1>1. OperationsInit => LaunchKnown /\ CreationKnown
  BY ProgramsStart
<1>2. LaunchKnown /\ CreationKnown /\ [OperationsNext]_opvars => LaunchKnown' /\ CreationKnown'
  BY ProgramsKeep
<1>3. CreationKnown => [EndsIt => Harmless]_ccvars
  BY DEF CreationKnown, InStartPage, InAssistant
<1>4. QED
  BY <1>1, <1>2, <1>3, PTL DEF OperationsSpec, EndedOnlyIfNothingLost

-----------------------------------------------------------------------------
(* The inductive invariant of the executor.                                *)

ExecutorTyped ==
  /\ profile \in [status: {"supported", "experimental", "disabled"}, access: {"full", "verification-only"}]
  /\ optIn \in BOOLEAN /\ leased \in BOOLEAN /\ qt \in BOOLEAN /\ helper \in BOOLEAN
  /\ asked \in [op: ApiOperations, detail: Details]
  /\ apc \in {"idle", "gate", "parse", "route", "mkdir", "worker", "remove", "done"} /\ outcome \in Outcomes
  /\ dirs \in [Levels -> {"absent", "theirs", "ours"}] /\ stored \subseteq Levels
  /\ firstMade \in 0 .. Depth /\ candidate \in 0 .. Depth

(* What is past the gates was not called blocked.                          *)
PastGates ==
  /\ apc \in {"gate", "parse", "route", "mkdir", "worker"} => outcome = "none"
  /\ apc \in {"parse", "route", "mkdir", "worker", "remove"} => Availability(asked.op) # "blocked"

(* A component exists only with the ones above it; what was made for the   *)
(* worker reaches from firstMade to the end, and from firstMade to the     *)
(* candidate while it is taken away.                                       *)
DirectoriesKnown ==
  /\ \A k, l \in Levels : k < l /\ dirs[l] # "absent" => dirs[k] # "absent"
  /\ firstMade = 0 => \A l \in Levels : dirs[l] # "ours"
  /\ apc \in {"idle", "gate", "parse", "route", "mkdir"} => firstMade = 0
  /\ apc = "worker" => /\ dirs[Depth] # "absent"
                       /\ firstMade > 0 => \A l \in Levels : l >= firstMade => dirs[l] = "ours"
  /\ apc = "remove" =>
       /\ outcome = "failed" /\ 0 < firstMade /\ firstMade <= candidate
       /\ \A l \in Levels : l >= firstMade => dirs[l] = (IF l <= candidate THEN "ours" ELSE "absent")

ExecutorKnown ==
  ExecutorTyped /\ PastGates /\ AdvertisedIsExecuted /\ DirectoriesKnown /\ ExportDirectoriesAccounted

-----------------------------------------------------------------------------
(* A step of the operations is one of the executor, or leaves it alone.    *)
LEMMA ExecutorStep ==
  ASSUME [OperationsNext]_opvars
  PROVE  ExecutorNext \/ UNCHANGED xvars
BY DEF OperationsNext, opvars

(* Among the levels with some property there is a first one.               *)
LEMMA FirstLevel ==
  ASSUME NEW T \in SUBSET Levels, T # {}
  PROVE  \E m \in T : \A k \in T : m <= k
<1>1. Levels \subseteq Nat
  BY DEF Levels
<1>2. PICK m \in T : \A k \in T : <<k, m>> \notin OpToRel(<, Nat)
  <2>1. T \subseteq Nat
    BY <1>1
  <2>2. QED
    BY <2>1, WFMin, NatLessThanWellFounded, Zenon
<1>3. \A k \in T : ~(k < m)
  BY <1>1, <1>2, Zenon DEF OpToRel
<1>4. m \in Nat /\ \A k \in T : k \in Nat
  BY <1>1
<1>5. \A k \in T : m <= k
  BY <1>3, <1>4
<1>6. QED
  BY <1>5

(* A component whose parent is there has all that are above it.            *)
LEMMA AboveExists ==
  ASSUME NEW d \in [Levels -> {"absent", "theirs"}],
         \A l \in Levels : d[l] = "theirs" => l = 1 \/ d[l - 1] = "theirs",
         NEW k \in Levels, NEW l \in Levels, k < l, d[l] = "theirs"
  PROVE  d[k] = "theirs"
<1> DEFINE T == {j \in Levels : k < j /\ d[j] = "theirs"}
<1>1. SUFFICES ASSUME d[k] = "absent" PROVE FALSE
  OBVIOUS
<1>2. T \in SUBSET Levels /\ T # {}
  OBVIOUS
<1>3. PICK m \in T : \A j \in T : m <= j
  BY <1>2, FirstLevel
<1>4. m - 1 \in Levels /\ d[m - 1] = "theirs" /\ k <= m - 1
  BY ExecutorAssumption DEF Levels
<1>5. m - 1 # k
  BY <1>1, <1>4
<1>6. m - 1 \in T
  BY <1>4, <1>5 DEF Levels
<1>7. QED
  BY <1>3, <1>6 DEF Levels

(* The level of the topmost directory made is a level, the ones above it   *)
(* were there.                                                             *)
LEMMA TopmostMade ==
  ASSUME ExecutorTyped, dirs[Depth] = "absent",
         NEW m, m = CHOOSE l \in Levels : dirs[l] = "absent" /\ \A k \in 1 .. l - 1 : dirs[k] # "absent"
  PROVE  m \in Levels /\ dirs[m] = "absent" /\ \A k \in Levels : k < m => dirs[k] # "absent"
<1> DEFINE T == {l \in Levels : dirs[l] = "absent"}
<1>1. T \in SUBSET Levels /\ T # {}
  BY ExecutorAssumption DEF Levels
<1>2. PICK f \in T : \A j \in T : f <= j
  BY <1>1, FirstLevel
<1>3. f \in Levels /\ dirs[f] = "absent" /\ \A k \in 1 .. f - 1 : dirs[k] # "absent"
  <2>1. f \in Levels /\ dirs[f] = "absent"
    OBVIOUS
  <2>2. ASSUME NEW k \in 1 .. f - 1
        PROVE  dirs[k] # "absent"
    <3>1. k \in Levels /\ ~(f <= k)
      BY <2>1, ExecutorAssumption DEF Levels
    <3>2. QED
      BY <1>2, <3>1
  <2>3. QED
    BY <2>1, <2>2
<1>4. m \in Levels /\ dirs[m] = "absent" /\ \A k \in 1 .. m - 1 : dirs[k] # "absent"
  BY <1>3
<1>5. QED
  BY <1>4 DEF Levels

(* Nothing is refused or made when an operation begins.                    *)
LEMMA ExecutorBegins ==
  ASSUME OperationsInit
  PROVE  ExecutorKnown
<1>1. PICK start \in {"gate", "idle"} : ExecutorInit(start)
  BY DEF OperationsInit, ExecutorStarts
<1>2. ExecutorTyped
  <2>1. profile \in [status: {"supported", "experimental", "disabled"}, access: {"full", "verification-only"}]
    BY <1>1 DEF ExecutorInit
  <2>2. optIn \in BOOLEAN /\ leased \in BOOLEAN /\ qt \in BOOLEAN /\ helper \in BOOLEAN
    BY <1>1, Zenon DEF ExecutorInit
  <2>3. asked \in [op: ApiOperations, detail: Details]
    BY <1>1 DEF ExecutorInit, DetailsOf, Details
  <2>4. QED
    BY <1>1, <2>1, <2>2, <2>3, ExecutorAssumption DEF ExecutorInit, ExecutorTyped, Outcomes
<1>3. PastGates /\ AdvertisedIsExecuted
  BY <1>1 DEF ExecutorInit, PastGates, AdvertisedIsExecuted
<1>4. DirectoriesKnown
  <2>1. \A k, l \in Levels : k < l /\ dirs[l] # "absent" => dirs[k] # "absent"
    BY <1>1, AboveExists DEF ExecutorInit
  <2>2. QED
    BY <1>1, <2>1 DEF ExecutorInit, DirectoriesKnown
<1>5. ExportDirectoriesAccounted
  BY <1>1 DEF ExecutorInit, ExportDirectoriesAccounted, Levels
<1>6. QED
  BY <1>2, <1>3, <1>4, <1>5 DEF ExecutorKnown

(* The sets of operations that the two texts of the policy distinguish.    *)
LEMMA PolicySets ==
  /\ Base \cap ForegroundRequired = {}
  /\ "dialog_answer" \notin Base \cup ForegroundRequired \cup Verification
BY DEF Base, ForegroundRequired, Verification

(* The gates agree with capabilities.                                      *)
LEMMA GateAgrees ==
  ASSUME ExecutorTyped, PastGates, Gate
  PROVE  /\ UNCHANGED <<xconfig, xdirs>>
         /\ \/ /\ apc' = "parse" /\ outcome' = outcome /\ Availability(asked.op) # "blocked"
            \/ /\ apc' = "done" /\ outcome' = "bad-args"
            \/ /\ apc' = "done" /\ outcome' \in GateKinds /\ Availability(asked.op) # "allowed"
<1>1. CASE /\ apc' = "parse" /\ UNCHANGED <<xconfig, outcome, xdirs>>
           /\ profile.status = "disabled" => asked.op \in Base
           /\ asked.op \in ForegroundRequired => leased
           /\ FullyOpen \/ asked.op \in Base \/ (optIn /\ VerificationCandidate)
  BY <1>1, PolicySets DEF Availability, VerificationCandidate
<1>2. CASE Refused("profile-disabled") /\ profile.status = "disabled" /\ asked.op \notin Base
  BY <1>2 DEF Refused, GateKinds, Availability
<1>3. CASE Refused("bad-args")
  BY <1>3 DEF Refused
<1>4. CASE Refused("blocked") /\ asked.op \in ForegroundRequired /\ ~leased
  BY <1>4, PolicySets DEF Refused, GateKinds, Availability
<1>5. CASE Refused("profile-unverified") /\ ~FullyOpen /\ asked.op \notin Base /\ ~optIn
  BY <1>5 DEF Refused, GateKinds, Availability
<1>6. CASE Refused("profile-operation-unverified") /\ ~FullyOpen /\ asked.op \notin Base /\ ~VerificationCandidate
  BY <1>6 DEF Refused, GateKinds, Availability, VerificationCandidate
<1>7. QED
  BY <1>1, <1>2, <1>3, <1>4, <1>5, <1>6 DEF Gate

(* Whatever becomes of the directories, what was promised of the operation *)
(* is what was promised before.                                            *)
LEMMA PromiseStays ==
  ASSUME UNCHANGED xconfig
  PROVE  Availability(asked.op)' = Availability(asked.op)
BY DEF xconfig, Availability, FullyOpen

(* Every step keeps what is known of the directories.                      *)
LEMMA MakeKeeps ==
  ASSUME ExecutorKnown, MakeExportDirectory
  PROVE  ExecutorKnown'
<1> USE DEF ExecutorKnown
<1>1. CASE Refused("bad-args")
  BY <1>1, PromiseStays DEF Refused, xdirs, xconfig, ExecutorTyped, Outcomes, PastGates,
     AdvertisedIsExecuted, GateKinds, DirectoriesKnown, ExportDirectoriesAccounted, MakeExportDirectory
<1>2. CASE dirs[Depth] = "absent"
  <2>1. /\ firstMade' \in Levels /\ \A k \in Levels : k < firstMade' => dirs[k] # "absent"
        /\ dirs[firstMade'] = "absent"
    BY <1>2, TopmostMade DEF MakeExportDirectory
  <2>2. /\ dirs' = [l \in Levels |-> IF dirs[l] = "absent" THEN "ours" ELSE dirs[l]]
        /\ apc = "mkdir" /\ apc' = "worker" /\ UNCHANGED <<xconfig, outcome, stored, candidate>>
    BY <1>2 DEF MakeExportDirectory
  <2>3. ExecutorTyped'
    BY <2>1, <2>2 DEF ExecutorTyped, xconfig, Levels
  <2>4. PastGates' /\ AdvertisedIsExecuted'
    BY <2>2, PromiseStays DEF PastGates, AdvertisedIsExecuted, xconfig, GateKinds
  <2>5. \A l \in Levels : (l < firstMade' => dirs'[l] = "theirs") /\ (l >= firstMade' => dirs'[l] = "ours")
    BY <2>1, <2>2, ExecutorAssumption DEF DirectoriesKnown, ExecutorTyped, Levels
  <2>6. DirectoriesKnown'
    BY <2>1, <2>2, <2>5, ExecutorAssumption DEF DirectoriesKnown, Levels
  <2>7. ExportDirectoriesAccounted'
    BY <2>2, <2>5 DEF ExportDirectoriesAccounted, ExecutorTyped
  <2>8. QED
    BY <2>3, <2>4, <2>6, <2>7
<1>3. QED
  BY <1>1, <1>2 DEF MakeExportDirectory

(* The worker may store a file even if it fails afterwards; nothing it     *)
(* does touches the directories.                                           *)
LEMMA WorkerKeeps ==
  ASSUME ExecutorKnown, WorkerExports
  PROVE  ExecutorKnown'
<1> USE DEF ExecutorKnown
<1>1. /\ apc = "worker" /\ stored \subseteq stored' /\ stored' \subseteq stored \cup {Depth}
      /\ outcome' \in {"ok", "failed"}
      /\ \/ firstMade > 0 /\ outcome' = "failed" /\ apc' = "remove" /\ candidate' = Depth
         \/ ~(firstMade > 0 /\ outcome' = "failed") /\ apc' = "done" /\ candidate' = candidate
      /\ UNCHANGED <<xconfig, dirs, firstMade>>
  BY DEF WorkerExports
<1>2. ExecutorTyped'
  BY <1>1, ExecutorAssumption DEF ExecutorTyped, xconfig, Levels, Outcomes
<1>3. PastGates' /\ AdvertisedIsExecuted'
  BY <1>1, PromiseStays DEF PastGates, AdvertisedIsExecuted, xconfig, GateKinds
<1>4. DirectoriesKnown'
  BY <1>1, ExecutorAssumption DEF DirectoriesKnown, ExecutorTyped, Levels
<1>5. ExportDirectoriesAccounted'
  BY <1>1, ExecutorAssumption DEF DirectoriesKnown, ExportDirectoriesAccounted, ExecutorTyped, Levels
<1>6. QED
  BY <1>2, <1>3, <1>4, <1>5

(* Of the directories made for an export only empty ones of our own go,    *)
(* from the deepest up.                                                    *)
LEMMA RemovalKeeps ==
  ASSUME ExecutorKnown, RemoveEmpty
  PROVE  ExecutorKnown'
<1> USE DEF ExecutorKnown
<1>1. apc = "remove" /\ UNCHANGED <<xconfig, outcome, stored, firstMade>>
  BY DEF RemoveEmpty
<1>2. /\ candidate \in Levels /\ dirs[candidate] = "ours" /\ outcome = "failed"
      /\ firstMade \in Levels /\ firstMade <= candidate
      /\ \A l \in Levels : l >= firstMade => dirs[l] = (IF l <= candidate THEN "ours" ELSE "absent")
  BY <1>1, ExecutorAssumption DEF DirectoriesKnown, ExecutorTyped, Levels
<1>3. CASE Holds(candidate)
  <2>1. apc' = "done" /\ UNCHANGED <<dirs, candidate>>
    BY <1>3 DEF RemoveEmpty
  <2>2. candidate \in stored
    BY <1>2, <1>3, ExecutorAssumption DEF Holds, Levels
  <2>3. ExecutorTyped' /\ PastGates' /\ AdvertisedIsExecuted'
    BY <1>1, <2>1, PromiseStays DEF ExecutorTyped, PastGates, AdvertisedIsExecuted, xconfig, GateKinds
  <2>4. DirectoriesKnown'
    BY <1>1, <1>2, <2>1 DEF DirectoriesKnown
  <2>5. \A l \in Levels : dirs[l] = "ours" => candidate >= l
    BY <1>2, ExecutorAssumption DEF ExportDirectoriesAccounted, ExecutorTyped, Levels
  <2>6. ExportDirectoriesAccounted'
    BY <1>1, <2>1, <2>2, <2>5 DEF ExportDirectoriesAccounted
  <2>7. QED
    BY <2>3, <2>4, <2>6
<1>4. CASE ~Holds(candidate)
  <2>1. /\ dirs' = [dirs EXCEPT ![candidate] = "absent"]
        /\ \/ candidate = firstMade /\ apc' = "done" /\ candidate' = candidate
           \/ candidate # firstMade /\ apc' = "remove" /\ candidate' = candidate - 1
    BY <1>1, <1>2, <1>4, ExecutorAssumption DEF RemoveEmpty, RemovedLast, Parent, Levels
  <2>2. /\ candidate \notin stored
        /\ \A l \in Levels \ {candidate} : dirs'[l] = dirs[l]
        /\ dirs'[candidate] = "absent"
    BY <1>2, <1>4, <2>1 DEF Holds, ExecutorTyped
  <2>3. ExecutorTyped'
    BY <1>1, <1>2, <2>1, ExecutorAssumption DEF ExecutorTyped, xconfig, Levels
  <2>4. PastGates' /\ AdvertisedIsExecuted'
    BY <1>1, <2>1, PromiseStays DEF PastGates, AdvertisedIsExecuted, xconfig, GateKinds
  <2>5. DirectoriesKnown'
    <3>1. \A k, l \in Levels : k < l /\ dirs'[l] # "absent" => dirs'[k] # "absent"
      BY <1>2, <2>2, ExecutorAssumption DEF DirectoriesKnown, Levels
    <3>2. QED
      BY <1>1, <1>2, <2>1, <2>2, <3>1, ExecutorAssumption DEF DirectoriesKnown, Levels
  <2>6. ExportDirectoriesAccounted'
    <3>1. \A l \in Levels : l < firstMade => dirs'[l] = "theirs"
      BY <1>2, <2>2, ExecutorAssumption DEF ExportDirectoriesAccounted, Levels
    <3>2. stored \subseteq {l \in Levels : dirs'[l] # "absent"}
      BY <2>2 DEF ExportDirectoriesAccounted
    <3>3. apc' = "done" => \A l \in Levels : dirs'[l] # "ours"
      BY <1>2, <2>1, <2>2, ExecutorAssumption DEF ExportDirectoriesAccounted, Levels
    <3>4. QED
      BY <1>1, <3>1, <3>2, <3>3 DEF ExportDirectoriesAccounted
  <2>7. QED
    BY <2>3, <2>4, <2>5, <2>6
<1>5. QED
  BY <1>3, <1>4

(* Somebody else may use the results meanwhile.                            *)
LEMMA OthersInResultsKeep ==
  ASSUME ExecutorKnown, SomebodyInResults
  PROVE  ExecutorKnown'
<1> USE DEF ExecutorKnown
<1>1. /\ apc \in {"mkdir", "worker", "remove"}
      /\ UNCHANGED <<xconfig, apc, outcome, firstMade, candidate>>
  BY DEF SomebodyInResults
<1>2. PastGates' /\ AdvertisedIsExecuted'
  BY <1>1, PromiseStays DEF PastGates, AdvertisedIsExecuted, xconfig, GateKinds
<1>3. ASSUME apc = "mkdir", NEW l \in Levels, dirs[l] = "absent",
             \A k \in 1 .. l - 1 : dirs[k] # "absent",
             dirs' = [dirs EXCEPT ![l] = "theirs"], UNCHANGED stored
      PROVE  ExecutorTyped' /\ DirectoriesKnown' /\ ExportDirectoriesAccounted'
  <2>1. /\ \A k \in Levels \ {l} : dirs'[k] = dirs[k]
        /\ dirs'[l] = "theirs" /\ \A k \in Levels : k < l => dirs[k] # "absent"
    BY <1>3 DEF ExecutorTyped, Levels
  <2>2. ExecutorTyped'
    BY <1>1, <1>3 DEF ExecutorTyped, xconfig
  <2>3. DirectoriesKnown'
    BY <1>1, <1>3, <2>1 DEF DirectoriesKnown
  <2>4. ExportDirectoriesAccounted'
    BY <1>1, <1>3, <2>1 DEF DirectoriesKnown, ExportDirectoriesAccounted, ExecutorTyped
  <2>5. QED
    BY <2>2, <2>3, <2>4
<1>4. ASSUME NEW l \in Levels, dirs[l] # "absent", stored' = stored \cup {l}, UNCHANGED dirs
      PROVE  ExecutorTyped' /\ DirectoriesKnown' /\ ExportDirectoriesAccounted'
  <2>1. ExecutorTyped'
    BY <1>1, <1>4 DEF ExecutorTyped, xconfig
  <2>2. DirectoriesKnown'
    BY <1>1, <1>4 DEF DirectoriesKnown
  <2>3. ExportDirectoriesAccounted'
    BY <1>1, <1>4 DEF ExportDirectoriesAccounted
  <2>4. QED
    BY <2>1, <2>2, <2>3
<1>5. QED
  BY <1>2, <1>3, <1>4 DEF SomebodyInResults

(* The gates and the choice of who carries it out touch no directory.      *)
LEMMA PolicyKeeps ==
  ASSUME ExecutorKnown, Gate \/ Parse \/ Route
  PROVE  ExecutorKnown'
<1> USE DEF ExecutorKnown
<1>1. /\ UNCHANGED <<xconfig, xdirs>> /\ apc \in {"gate", "parse", "route"}
      /\ \/ /\ apc' \in {"parse", "route", "mkdir"} \/ (apc' = "worker" /\ dirs[Depth] # "absent")
            /\ outcome' = outcome /\ Availability(asked.op) # "blocked"
         \/ apc' = "done" /\ outcome' = "bad-args"
         \/ apc' = "done" /\ outcome' \in GateKinds /\ Availability(asked.op) # "allowed"
         \/ /\ apc' = "done" /\ outcome' \in {"local", "composite", "worker", "qt", "desktop"}
            /\ Availability(asked.op) # "blocked"
  <2>1. CASE Gate
    BY <2>1, GateAgrees DEF Gate
  <2>2. CASE Parse
    BY <2>2 DEF Parse, Refused, PastGates
  <2>3. CASE Route
    <3>1. Executor \in {"local", "composite", "worker", "qt", "desktop"}
      BY DEF Executor
    <3>2. QED
      BY <2>3, <3>1 DEF Route, Refused, PastGates
  <2>4. QED
    BY <2>1, <2>2, <2>3
<1>2. ExecutorTyped'
  BY <1>1 DEF ExecutorTyped, xconfig, xdirs, Outcomes, GateKinds
<1>3. PastGates' /\ AdvertisedIsExecuted'
  BY <1>1, PromiseStays DEF PastGates, AdvertisedIsExecuted, GateKinds, xconfig
<1>4. DirectoriesKnown'
  BY <1>1 DEF DirectoriesKnown, xdirs
<1>5. ExportDirectoriesAccounted'
  BY <1>1 DEF DirectoriesKnown, ExportDirectoriesAccounted, xdirs
<1>6. QED
  BY <1>2, <1>3, <1>4, <1>5

(* For every depth of the result directory: capabilities and the gates     *)
(* agree on every operation and every profile, and a failed export leaves  *)
(* no directory of its own that nobody put anything into, and takes none   *)
(* of another (profile-operation-policy.ts, api-executor.ts).              *)
THEOREM ExecutorAlwaysSound == OperationsSpec => []ExecutorIsSound
<1>1. OperationsInit => ExecutorKnown
  BY ExecutorBegins
<1>2. ExecutorKnown /\ [OperationsNext]_opvars => ExecutorKnown'
  <2> SUFFICES ASSUME ExecutorKnown, [OperationsNext]_opvars
               PROVE  ExecutorKnown'
    OBVIOUS
  <2>1. CASE ExecutorNext
    BY <2>1, PolicyKeeps, MakeKeeps, WorkerKeeps, RemovalKeeps, OthersInResultsKeep DEF ExecutorNext
  <2>2. CASE UNCHANGED xvars
    BY <2>2 DEF xvars, ExecutorKnown, ExecutorTyped, PastGates, AdvertisedIsExecuted, Availability,
       FullyOpen, DirectoriesKnown, ExportDirectoriesAccounted
  <2>3. QED
    BY <2>1, <2>2, ExecutorStep
<1>3. ExecutorKnown => ExecutorIsSound
  <2>1. ASSUME NEW a \in BOOLEAN, NEW b \in BOOLEAN, NEW c \in BOOLEAN, NEW d \in BOOLEAN
        PROVE  {a, b, c, d} \subseteq BOOLEAN
    OBVIOUS
  <2>2. ExecutorTyped => ExecutorTypeOK
    BY <2>1 DEF ExecutorTyped, ExecutorTypeOK
  <2>3. QED
    BY <2>2 DEF ExecutorKnown, ExecutorIsSound
<1>4. QED
  BY <1>1, <1>2, <1>3, PTL DEF OperationsSpec

-----------------------------------------------------------------------------
(* The inductive invariants of the plans and of the advance VAT return.    *)

(* Only a plan that is with the worker has changed anything.               *)
PlanKnown ==
  /\ PlanTypeOK
  /\ tpc \in {"check", "call", "reply", "fallback", "done"}
  /\ tpc \in {"check", "call", "fallback"} => planChanges = 0
  /\ tpc \in {"call", "reply"} => plan \in Plans
  /\ tpc = "fallback" => plan = "page_objects"
  /\ PlanAnswerIsTrue

(* The request is one of those that can be made.                           *)
RequestKnown ==
  /\ ureq.differs \in BOOLEAN /\ manualFlag \in BOOLEAN
  /\ ureq.manual => ureq.needs = "overview"

(* The change or click is the last step, bound to the page that the        *)
(* operation needs; a manual field to this call's own reading of it.       *)
UstvaKnown ==
  /\ RequestKnown
  /\ upc # "done" => acted = {} /\ uanswer.kind = "none" /\ ~uanswer.nested /\ fieldValue # "after"
  /\ upc = "act" => /\ heading = ureq.needs
                    /\ ureq.manual => seen = {[page |-> heading, manual |-> TRUE]}
  /\ UstvaAnswerIsTrue

-----------------------------------------------------------------------------
(* A step of the operations is one of a plan or of the return, or leaves   *)
(* both as they are.                                                       *)
LEMMA CompositeStep ==
  ASSUME [OperationsNext]_opvars
  PROVE  /\ PlanNext \/ UNCHANGED tvars
         /\ UstvaNext \/ UNCHANGED uvars
BY DEF OperationsNext, opvars

(* Nothing has been changed when an operation begins.                      *)
LEMMA CompositesStart ==
  ASSUME OperationsInit
  PROVE  PlanKnown /\ UstvaKnown
<1>1. PICK start \in Plans \cup {"page_objects", "none"} : PlanInit(start)
  BY DEF OperationsInit, PlanStarts
<1>2. PlanKnown
  BY <1>1, PlanAssumption DEF PlanInit, PlanKnown, PlanTypeOK, PlanAnswerIsTrue
<1>3. PICK begin \in {"start", "idle"} : UstvaInit(begin)
  BY DEF OperationsInit, UstvaStarts
<1>4. RequestKnown
  BY <1>3 DEF UstvaInit, Requests, Asked, RequestKnown
<1>5. UstvaKnown
  BY <1>3, <1>4 DEF UstvaInit, UstvaKnown, UstvaAnswerIsTrue
<1>6. QED
  BY <1>2, <1>5

(* An answer that is true of the changes ends a plan well.                 *)
LEMMA PlanEnds ==
  ASSUME PlanKnown, NEW kind, NEW state, NEW due \in BOOLEAN, Answers(kind, state, due),
         UNCHANGED <<plan, planChanges>>, planCalls' \in 0 .. 1,
         state = "unchanged" => planChanges = 0,
         kind = "ok" /\ plan \in Plans => planChanges = PlanWrites,
         planChanges > 0 /\ kind # "ok" /\ ~due =>
           kind = "worker-init" /\ plan = "receipt_manager_bulk_upsert"
  PROVE  PlanKnown'
<1>1. tpc' = "done" /\ tanswer' = [ok |-> kind = "ok", kind |-> kind, state |-> state, cleanup |-> due]
  BY DEF Answers
<1>2. /\ tanswer'.kind = kind /\ tanswer'.state = state
      /\ tanswer'.ok = (kind = "ok") /\ tanswer'.cleanup = due
  BY <1>1, Zenon
<1>3. PlanAnswerIsTrue'
  <2>1. tanswer'.state = "unchanged" => planChanges' = 0
    BY <1>2
  <2>2. CASE kind = "ok"
    <3>1. tanswer'.ok = TRUE
      BY <1>2, <2>2, Zenon
    <3>2. QED
      BY <2>1, <2>2, <3>1 DEF PlanAnswerIsTrue
  <2>3. CASE kind # "ok"
    <3>1. tanswer'.ok = FALSE
      BY <1>2, <2>3, Zenon
    <3>2. planChanges > 0 => tanswer'.cleanup \/ (tanswer'.kind = "worker-init" /\ plan = "receipt_manager_bulk_upsert")
      BY <1>2, <2>3
    <3>3. QED
      BY <2>1, <3>1, <3>2 DEF PlanAnswerIsTrue
  <2>4. QED
    BY <2>2, <2>3
<1>4. QED
  BY <1>1, <1>3 DEF PlanKnown, PlanTypeOK

(* A plan that is not answered goes on.                                    *)
LEMMA PlanGoesOn ==
  ASSUME PlanKnown, UNCHANGED <<plan, tanswer>>, planCalls' \in 0 .. 1, planChanges' \in 0 .. PlanWrites,
         tpc' \in {"check", "call", "reply", "fallback"},
         tpc' # "reply" => planChanges' = 0,
         tpc' \in {"call", "reply"} => plan \in Plans,
         tpc' = "fallback" => plan = "page_objects"
  PROVE  PlanKnown'
BY DEF PlanKnown, PlanTypeOK, PlanAnswerIsTrue

(* Every step of a plan answers what the worker has done.                  *)
LEMMA PlanKeeps ==
  ASSUME PlanKnown, PlanNext
  PROVE  PlanKnown'
<1>1. /\ PlanTypeOK
      /\ tpc \in {"check", "call", "fallback"} => planChanges = 0
      /\ tpc \in {"call", "reply"} => plan \in Plans
      /\ tpc = "fallback" => plan = "page_objects"
  BY DEF PlanKnown
<1> DEFINE Resting == UNCHANGED <<plan, planChanges, planCalls>>
<1>2. ASSUME tpc = "check", Resting, NEW kind, NEW state, Answers(kind, state, FALSE), kind # "ok"
      PROVE  PlanKnown'
  <2>1. planChanges = 0 /\ ~(planChanges > 0) /\ planCalls' \in 0 .. 1
    BY <1>1, <1>2 DEF PlanTypeOK
  <2>2. QED
    BY <1>2, <2>1, PlanEnds, Zenon
<1>3. ASSUME tpc = "check", Resting, tpc' = "call", UNCHANGED tanswer, plan \in Plans
      PROVE  PlanKnown'
  BY <1>1, <1>3, PlanGoesOn DEF PlanTypeOK
<1>4. CASE FillFieldsPlan
  BY <1>2, <1>3, <1>4 DEF FillFieldsPlan, Plans
<1>5. CASE ResolveReceiptReferences
  BY <1>2, <1>3, <1>5 DEF ResolveReceiptReferences, Plans
<1>6. CASE ExecuteCheckerOpen
  BY <1>2, <1>3, <1>6 DEF ExecuteCheckerOpen, Plans
<1>7. CASE WorkerActs
  BY <1>1, <1>7, PlanGoesOn DEF WorkerActs
<1>8. CASE FinishPlan
  <2>1. CASE Answers("failed", IF planChanges = 0 THEN "unchanged" ELSE "unknown", planChanges > 0)
    <3>1. /\ UNCHANGED <<plan, planChanges>> /\ planCalls' \in 0 .. 1 /\ (planChanges > 0) \in BOOLEAN
          /\ (IF planChanges = 0 THEN "unchanged" ELSE "unknown") = "unchanged" => planChanges = 0
      BY <1>1, <1>8 DEF FinishPlan, PlanTypeOK
    <3>2. QED
      BY <2>1, <3>1, PlanEnds, Zenon
  <2>2. CASE /\ planChanges = PlanWrites
             /\ Answers("ok", IF plan = "checker_open" THEN "detail-verified" ELSE "verified", FALSE)
    BY <1>1, <1>8, <2>2, PlanEnds DEF FinishPlan, PlanTypeOK
  <2>3. QED
    BY <1>8, <2>1, <2>2 DEF FinishPlan
<1>9. CASE ReplyLost
  BY <1>1, <1>9, PlanEnds DEF ReplyLost, FinishUnknown, PlanTypeOK
<1>10. CASE Trapped
  BY <1>1, <1>10, PlanEnds DEF Trapped, PlanTypeOK
<1>11. CASE PageObjects
  <2>1. plan \notin Plans /\ tpc = "check" /\ Resting
    BY <1>11 DEF PageObjects, Plans
  <2>2. ASSUME NEW kind, Answers(kind, "none", FALSE)
        PROVE  PlanKnown'
    <3>1. planChanges = 0 /\ ~(planChanges > 0)
      BY <1>1, <2>1
    <3>2. planCalls' \in 0 .. 1
      BY <1>1, <2>1 DEF PlanTypeOK
    <3>3. QED
      BY <2>1, <2>2, <3>1, <3>2, PlanEnds, Zenon
  <2>3. ASSUME tpc' = "fallback", UNCHANGED tanswer
        PROVE  PlanKnown'
    BY <1>1, <1>11, <2>1, <2>3, PlanGoesOn DEF PageObjects, PlanTypeOK
  <2>4. QED
    BY <1>11, <2>2, <2>3 DEF PageObjects
<1>12. CASE WorkerFallback
  <2>1. ASSUME NEW kind, Answers(kind, "none", FALSE)
        PROVE  PlanKnown'
    <3>1. tpc = "fallback" /\ planCalls' \in {planCalls, 1} /\ UNCHANGED <<plan, planChanges>>
      BY <1>12, Zenon DEF WorkerFallback
    <3>2. planChanges = 0 /\ ~(planChanges > 0) /\ planCalls' \in 0 .. 1 /\ plan \notin Plans
      BY <1>1, <3>1 DEF PlanTypeOK, Plans
    <3>3. QED
      BY <2>1, <3>1, <3>2, PlanEnds, Zenon
  <2>2. QED
    BY <1>12, <2>1 DEF WorkerFallback
<1>13. CASE LocalDelay
  BY <1>1, <1>13, PlanGoesOn DEF LocalDelay, PlanTypeOK
<1>14. QED
  BY <1>4, <1>5, <1>6, <1>7, <1>8, <1>9, <1>10, <1>11, <1>12, <1>13 DEF PlanNext

(* The answer of an operation that has done nothing yet, whoever states it. *)
LEMMA UstvaEnds ==
  ASSUME UstvaKnown, upc # "done", NEW kind, NEW nested \in BOOLEAN, Answered(kind, nested, FALSE),
         kind = "ok" => ureq.op = "ustva_read" /\ ~nested,
         UNCHANGED <<ureq, manualFlag, fieldValue, acted>>
  PROVE  UstvaKnown'
<1>1. uanswer' = [kind |-> kind, nested |-> nested, changed |-> FALSE] /\ upc' = "done"
  BY DEF Answered
<1>2. uanswer'.kind = kind /\ uanswer'.nested = nested /\ uanswer'.changed = FALSE
  BY <1>1, Zenon
<1>3. acted' = {} /\ fieldValue' # "after"
  BY DEF UstvaKnown
<1>4. QED
  BY <1>1, <1>2, <1>3 DEF UstvaKnown, UstvaAnswerIsTrue, RequestKnown

(* A nested failure of an operation that has done nothing yet.             *)
LEMMA NestedEnds ==
  ASSUME UstvaKnown, upc # "done", NestedFailure, UNCHANGED <<ureq, manualFlag, fieldValue, acted>>
  PROVE  UstvaKnown'
BY UstvaEnds DEF NestedFailure

(* A step that the executor refuses has done nothing.                      *)
LEMMA RefusalEnds ==
  ASSUME UstvaKnown, upc # "done", NEW least, StepRefused(least),
         UNCHANGED <<ureq, manualFlag, fieldValue, acted>>
  PROVE  UstvaKnown'
BY UstvaEnds DEF StepRefused

(* Every step of an operation on the return keeps its answer true.         *)
LEMMA UstvaKeeps ==
  ASSUME UstvaKnown, UstvaNext
  PROVE  UstvaKnown'
<1>1. CASE RefusedArguments
  BY <1>1, UstvaEnds DEF RefusedArguments
<1>2. CASE ResolveUstvaPageHeading
  <2>1. upc = "start" /\ UNCHANGED <<ureq, manualFlag, fieldValue, seen, acted>>
    BY <1>2 DEF ResolveUstvaPageHeading
  <2>2. CASE Answered("ustva-page", FALSE, FALSE)
    BY <2>1, <2>2, UstvaEnds
  <2>3. CASE upc' \in {"page", "act"} /\ UNCHANGED uanswer /\ (upc' = "act" => heading' = ureq.needs /\ ~ureq.manual)
    BY <2>1, <2>3 DEF UstvaKnown, UstvaAnswerIsTrue, RequestKnown
  <2>4. QED
    BY <1>2, <2>2, <2>3 DEF ResolveUstvaPageHeading, NeedsReading
<1>3. CASE ReadCurrentUstvaPage
  <2>1. upc = "page" /\ UNCHANGED <<ureq, manualFlag, fieldValue, acted>>
    BY <1>3 DEF ReadCurrentUstvaPage
  <2>2. ASSUME StepRefused(1)
        PROVE  UstvaKnown'
    BY <2>1, <2>2, RefusalEnds
  <2>3. ASSUME NestedFailure \/ Answered("dialog-open", FALSE, FALSE)
        PROVE  UstvaKnown'
    BY <2>1, <2>3, NestedEnds, UstvaEnds
  <2>4. ASSUME PageSays # "bound", Answered(PageSays, FALSE, FALSE)
        PROVE  UstvaKnown'
    <3>1. PageSays = "ok" => ureq.op = "ustva_read"
      BY DEF PageSays
    <3>2. QED
      BY <2>1, <2>4, <3>1, UstvaEnds
  <2>5. ASSUME PageSays = "bound", heading' = openPage, upc' = "act", UNCHANGED uanswer,
               seen' = {[page |-> openPage, manual |-> openPage = "overview" /\ manualFlag]}
        PROVE  UstvaKnown'
    <3>1. openPage = ureq.needs /\ (ureq.manual => manualFlag)
      BY <2>5 DEF PageSays, ManualProven
    <3>2. ureq.manual => (openPage = "overview" /\ manualFlag) = TRUE
      BY <3>1 DEF UstvaKnown, RequestKnown
    <3>3. ureq.manual => seen' = {[page |-> heading', manual |-> TRUE]}
      BY <2>5, <3>2
    <3>4. QED
      BY <2>1, <2>5, <3>1, <3>3 DEF UstvaKnown, UstvaAnswerIsTrue, RequestKnown
  <2>6. QED
    BY <1>3, <2>2, <2>3, <2>4, <2>5 DEF ReadCurrentUstvaPage
<1>4. CASE Act
  <2>1. /\ upc = "act" /\ UNCHANGED <<ureq, manualFlag, seen>>
        /\ heading = ureq.needs /\ (ureq.manual => seen = {[page |-> heading, manual |-> TRUE]})
        /\ fieldValue # "after"
    BY <1>4 DEF Act, UstvaKnown
  <2>2. ASSUME UNCHANGED <<fieldValue, acted>>, StepRefused(10) \/ NestedFailure
        PROVE  UstvaKnown'
    BY <2>1, <2>2, RefusalEnds, NestedEnds
  <2>3. ASSUME WorkerStep, NEW kind, NEW nested \in BOOLEAN, NEW changed, Answered(kind, nested, changed),
               kind = "ok" => ~nested /\ changed = ureq.differs, kind # "ok" => nested
        PROVE  UstvaKnown'
    <3>1. /\ acted' = {openPage} /\ openPage = heading
          /\ fieldValue' = IF ureq.differs THEN "after" ELSE fieldValue
      BY <2>3 DEF WorkerStep, ExpectedPage
    <3>2. upc' = "done" /\ uanswer' = [kind |-> kind, nested |-> nested, changed |-> changed]
      BY <2>3 DEF Answered
    <3>3. uanswer'.kind = kind /\ uanswer'.nested = nested /\ uanswer'.changed = changed
      BY <3>2, Zenon
    <3>4. kind = "ok" => (changed <=> fieldValue' = "after")
      BY <2>1, <2>3, <3>1 DEF UstvaKnown, RequestKnown
    <3>5. QED
      BY <2>1, <2>3, <3>1, <3>2, <3>3, <3>4 DEF UstvaKnown, UstvaAnswerIsTrue, RequestKnown
  <2>4. ASSUME WorkerStep, Answered("ok", FALSE, ureq.differs)
        PROVE  UstvaKnown'
    BY <2>3, <2>4
  <2>5. ASSUME WorkerStep, NestedFailure
        PROVE  UstvaKnown'
    BY <2>3, <2>5 DEF NestedFailure
  <2>6. QED
    BY <1>4, <2>2, <2>4, <2>5 DEF Act
<1>5. CASE PersonTurns
  <2>1. manualFlag' \in BOOLEAN /\ (fieldValue' = fieldValue \/ fieldValue' = "foreign")
        /\ upc # "done" /\ UNCHANGED <<ureq, upc, heading, seen, acted, uanswer>>
    BY <1>5 DEF PersonTurns, UstvaKnown, RequestKnown
  <2>2. QED
    BY <2>1 DEF UstvaKnown, UstvaAnswerIsTrue, RequestKnown
<1>6. CASE CallerLeaves
  BY <1>6 DEF CallerLeaves, UstvaKnown, UstvaAnswerIsTrue, RequestKnown
<1>7. QED
  BY <1>1, <1>2, <1>3, <1>4, <1>5, <1>6 DEF UstvaNext

(* For plans of any size and any budget of time: what a plan answers is    *)
(* true of the changes the worker has made; a value of the advance VAT     *)
(* return is changed, and a section clicked, only on the page its          *)
(* operation needs; and a failure that the executor itself states, not one *)
(* it passes on, means that nothing was changed or clicked                 *)
(* (bulk-plan-executor.ts, checker-executor.ts, ustva-executor.ts).        *)
THEOREM CompositeAnswersAlwaysTrue == OperationsSpec => []CompositeAnswersAreTrue
<1>1. OperationsInit => PlanKnown /\ UstvaKnown
  BY CompositesStart
<1>2. PlanKnown /\ UstvaKnown /\ [OperationsNext]_opvars => PlanKnown' /\ UstvaKnown'
  <2> SUFFICES ASSUME PlanKnown, UstvaKnown, [OperationsNext]_opvars
               PROVE  PlanKnown' /\ UstvaKnown'
    OBVIOUS
  <2>1. UNCHANGED tvars => PlanKnown'
    BY DEF tvars, PlanKnown, PlanTypeOK, PlanAnswerIsTrue
  <2>2. UNCHANGED uvars => UstvaKnown'
    BY DEF uvars, UstvaKnown, UstvaAnswerIsTrue, RequestKnown
  <2>3. QED
    BY <2>1, <2>2, CompositeStep, PlanKeeps, UstvaKeeps
<1>3. PlanKnown /\ UstvaKnown => CompositeAnswersAreTrue
  BY DEF PlanKnown, UstvaKnown, CompositeAnswersAreTrue
<1>4. QED
  BY <1>1, <1>2, <1>3, PTL DEF OperationsSpec

-----------------------------------------------------------------------------
(* The inductive invariant of the operations on tables.                    *)

PositionTyped ==
  /\ table \in {"same", "touched"} /\ row \in {"old", "new", "wrong"} /\ lease \in {"none", "open", "closed"}
  /\ ppc \in {"idle", "acquire", "read1", "position", "read2", "prepare", "focus", "read3", "checkpoint", "read4", "release"}
  /\ pres \subseteq TableMarks

PositionFlags ==
  /\ moved \in BOOLEAN /\ held \in BOOLEAN /\ unsure \in BOOLEAN /\ submitted \in BOOLEAN
  /\ positioned \in BOOLEAN /\ quiescent \in BOOLEAN /\ noop \in BOOLEAN /\ editor \in BOOLEAN

(* The cursor is moved to one row for the change of a row, for the search  *)
(* of a free row, or to begin a walk.                                      *)
Positions == mpc = "seeking" \/ rpc \in {"seeking", "bootstrap"}

(* A lease that is open is held or known to be unsure; a cursor that was   *)
(* moved was submitted, and a failure after that is an unknown outcome.    *)
PositionKnown ==
  /\ ppc # "idle" => Positions
  /\ ppc = "acquire" => lease # "open" /\ ~moved /\ ~submitted
  /\ ppc # "idle" => (lease = "open" => held \/ unsure)
  /\ Positions => (moved => submitted)
  /\ ppc = "release" => /\ "ok" \in pres \/ "failed" \in pres
                        /\ "failed" \in pres /\ submitted => "unknown" \in pres
  /\ Positions /\ ppc = "idle" =>
       /\ lease = "open" => "cleanup" \in pres /\ "ok" \notin pres
       /\ "failed" \in pres /\ submitted => "unknown" \in pres

ReadTyped ==
  /\ rpc \in {"idle", "prebind", "route", "seeking", "bootstrap", "settle", "done"} \union RouteSteps
  /\ sent \in 0 .. TableRows /\ ranswer \subseteq TableMarks
  /\ seek \in BOOLEAN /\ consumed \in BOOLEAN /\ reported \in BOOLEAN /\ active \in BOOLEAN

(* What moved the cursor is remembered, by the keys that were sent or by   *)
(* the activation; what is reported of a lease until it has ended, too.    *)
ReadKnown ==
  /\ rpc \in {"prebind", "route", "settle", "s-acquire", "f-acquire", "l-activate", "l-resume", "l-last"}
       => lease # "open"
  /\ rpc \in {"prebind", "route", "f-acquire", "l-activate"} => ~moved
  /\ rpc \in {"prebind", "route", "f-acquire"} => ~consumed
  /\ rpc \in {"prebind", "route", "seeking", "bootstrap", "settle", "s-acquire"} => sent = 0
  /\ rpc \in {"settle", "s-acquire"} => (moved => active)
  /\ rpc \in {"l-resume", "l-last"} => active
  /\ rpc \in {"s-focus", "s-key"} => sent < TableRows
  /\ rpc \in {"s-focus", "s-key", "s-last"} => (moved => active \/ sent > 0)
  /\ rpc \in {"s-focus", "s-key", "s-last", "s-release"} => (lease = "open" => held \/ unsure)
  /\ rpc = "s-release" =>
       /\ "ok" \in pres <=> "failed" \notin pres
       /\ "failed" \in pres /\ moved => active \/ "unknown" \in pres
  /\ rpc \in {"f-focus", "f-resume", "f-last", "f-release"} => reported /\ (consumed => lease # "open")
  /\ rpc = "f-release" => ("failed" \in pres => "unknown" \in pres)
  /\ rpc = "done" => /\ lease = "open" => "cleanup" \in ranswer
                     /\ moved /\ "failed" \in ranswer => "unknown" \in ranswer

-----------------------------------------------------------------------------
(* A failure after an input is one whose outcome is unknown.               *)
LEMMA ThrowMarks ==
  ASSUME PositionThrows
  PROVE  /\ ppc' = "release" /\ pres' \subseteq TableMarks
         /\ "failed" \in pres' /\ "ok" \notin pres'
         /\ submitted' => "unknown" \in pres'
BY DEF PositionThrows, If, TableMarks

(* The marks with which a move of the cursor comes back.                   *)
LEMMA ReleaseMarks ==
  ASSUME pres \subseteq TableMarks, NEW back \in BOOLEAN, unsure' \in BOOLEAN,
         PositionReturns((pres \ If(unsure', {"ok"}))
           \union If(back, {"unknown", "cleanup", "reconcile"})
           \union If(unsure', {"failed", "cleanup", "reconcile"} \union If("ok" \in pres, {"unknown"})))
  PROVE  /\ ppc' = "idle" /\ pres' \subseteq TableMarks
         /\ unsure' => "cleanup" \in pres' /\ "ok" \notin pres'
         /\ "unknown" \in pres => "unknown" \in pres'
         /\ "failed" \in pres' => "failed" \in pres \/ "unknown" \in pres' \/ ("ok" \notin pres /\ unsure')
BY DEF PositionReturns, If, TableMarks

(* A lease that was given back and is still open is an unsure one.         *)
LEMMA GivenBack ==
  ASSUME lease \in {"none", "open", "closed"}, NEW given \in GivesBack,
         lease' = given.lease, unsure' = given.unsure
  PROVE  /\ lease' \in {"none", "open", "closed"} /\ unsure' \in BOOLEAN
         /\ lease' = "open" => unsure'
<1>1. CASE given \in {[lease |-> l, unsure |-> TRUE] : l \in {lease, "closed"}}
  <2>1. unsure' = TRUE /\ lease' \in {lease, "closed"}
    BY <1>1
  <2>2. QED
    BY <2>1
<1>2. CASE given = [lease |-> "closed", unsure |-> FALSE]
  BY <1>2
<1>3. QED
  BY <1>1, <1>2 DEF GivesBack, If

(* Every step of a move keeps what is known of it.                         *)
LEMMA MoveKeeps ==
  ASSUME PositionTyped, PositionFlags, PositionKnown, PositionStep, Positions,
         UNCHANGED <<mpc, rpc>>
  PROVE  /\ PositionTyped' /\ PositionFlags' /\ PositionKnown'
         /\ UNCHANGED <<table, row, writes>>
<1>1. UNCHANGED <<table, row, writes>>
  BY DEF PositionStep, Acquire, ReadModel, tworld, PositionNumber, PrepareNumber, FocusOnly, CheckPosition, Release
<1>2. Positions'
  BY DEF Positions
<1> USE <1>1, <1>2
<1>3. CASE Acquire
  <2>1. /\ ppc = "acquire" /\ lease # "open" /\ ~moved /\ ~submitted
        /\ UNCHANGED <<moved, positioned, quiescent, noop, editor>>
    BY <1>3 DEF Acquire, PositionKnown
  <2>2. ASSUME NEW footer \in BOOLEAN, HandedOver(TRUE, TRUE), submitted' = footer, ppc' = "read1", UNCHANGED pres
        PROVE  PositionTyped' /\ PositionFlags' /\ PositionKnown'
    BY <2>1, <2>2 DEF HandedOver, PositionTyped, PositionFlags, PositionKnown
  <2>3. ASSUME NEW footer \in BOOLEAN, NEW kept \in BOOLEAN, HandedOver(kept, FALSE), submitted' = footer, PositionThrows
        PROVE  PositionTyped' /\ PositionFlags' /\ PositionKnown'
    BY <2>1, <2>3, ThrowMarks DEF HandedOver, PositionTyped, PositionFlags, PositionKnown
  <2>4. ASSUME UNCHANGED <<lease, held, unsure, submitted>>, NEW footer \in BOOLEAN,
               PositionReturns({"failed"} \union If(footer, {"unknown", "reconcile"}))
        PROVE  PositionTyped' /\ PositionFlags' /\ PositionKnown'
    BY <2>1, <2>4 DEF PositionReturns, If, TableMarks, PositionTyped, PositionFlags, PositionKnown
  <2>5. ASSUME UNCHANGED <<lease, held, unsure, submitted>>, PositionThrows
        PROVE  PositionTyped' /\ PositionFlags' /\ PositionKnown'
    BY <2>1, <2>5, ThrowMarks DEF PositionTyped, PositionFlags, PositionKnown
  <2>6. QED
    BY <1>3, <2>2, <2>3, <2>4, <2>5 DEF Acquire
<1>4. CASE ReadModel
  <2>1. /\ ppc \in {"read1", "read2", "read3", "read4"}
        /\ UNCHANGED <<tworld, held, unsure, submitted, positioned, quiescent, noop, editor>>
    BY <1>4 DEF ReadModel, AfterRead
  <2>2. CASE PositionThrows
    BY <2>1, <2>2, ThrowMarks DEF tworld, PositionTyped, PositionFlags, PositionKnown
  <2>3. CASE /\ ppc' \in {"prepare", "position", "focus", "checkpoint", "release"}
             /\ pres' = IF ppc' = "release" THEN {"ok"} ELSE pres
    BY <2>1, <2>3 DEF tworld, PositionTyped, PositionFlags, PositionKnown, TableMarks
  <2>4. QED
    BY <1>4, <2>1, <2>2, <2>3 DEF ReadModel, AfterRead
<1>5. CASE PositionNumber
  <2>1. ppc = "position" /\ UNCHANGED <<lease, held, unsure>>
    BY <1>5 DEF PositionNumber
  <2>2. CASE /\ moved' = TRUE /\ submitted' = TRUE /\ positioned' = TRUE /\ ppc' = "read2"
             /\ editor' \in BOOLEAN /\ quiescent' = ~editor' /\ UNCHANGED <<noop, pres>>
    <3>1. PositionFlags'
      BY <2>1, <2>2, Zenon DEF PositionFlags
    <3>2. QED
      BY <2>1, <2>2, <3>1 DEF PositionTyped, PositionKnown
  <2>3. CASE /\ UNCHANGED <<moved, submitted, positioned, editor>>
             /\ quiescent' = TRUE /\ noop' \in BOOLEAN /\ PositionThrows
    BY <2>1, <2>3, ThrowMarks DEF PositionTyped, PositionFlags, PositionKnown
  <2>4. CASE /\ moved' \in {moved, TRUE} /\ submitted' = TRUE /\ quiescent' \in BOOLEAN
             /\ positioned' \in BOOLEAN /\ UNCHANGED <<noop, editor>> /\ PositionThrows
    BY <2>1, <2>4, ThrowMarks DEF PositionTyped, PositionFlags, PositionKnown
  <2>5. QED
    BY <1>5, <2>2, <2>3, <2>4 DEF PositionNumber
<1>6. ASSUME UNCHANGED <<moved, submitted, positioned, noop, editor>>, ppc \in {"prepare", "checkpoint"},
             NEW next \in {"focus", "read4"}, HandBack(next)
      PROVE  PositionTyped' /\ PositionFlags' /\ PositionKnown'
  <2>1. CASE HandedOver(TRUE, TRUE) /\ ppc' = next /\ quiescent' = TRUE /\ UNCHANGED pres
    BY <1>6, <2>1 DEF HandedOver, PositionTyped, PositionFlags, PositionKnown
  <2>2. CASE HandedOver(FALSE, FALSE) /\ UNCHANGED quiescent /\ PositionThrows
    BY <1>6, <2>2, ThrowMarks DEF HandedOver, PositionTyped, PositionFlags, PositionKnown
  <2>3. CASE lease' \in {"open", "closed"} /\ held' = FALSE /\ unsure' = TRUE /\ UNCHANGED quiescent /\ PositionThrows
    BY <1>6, <2>3, ThrowMarks DEF PositionTyped, PositionFlags, PositionKnown
  <2>4. QED
    BY <1>6, <2>1, <2>2, <2>3 DEF HandBack
<1>7. ASSUME UNCHANGED <<moved, submitted, positioned, noop, editor, lease, held, unsure, quiescent>>,
             ppc # "idle", PositionThrows
      PROVE  PositionTyped' /\ PositionFlags' /\ PositionKnown'
  BY <1>7, ThrowMarks DEF PositionTyped, PositionFlags, PositionKnown
<1>8. CASE PrepareNumber
  BY <1>6, <1>7, <1>8 DEF PrepareNumber
<1>9. CASE FocusOnly
  BY ZenonT(40), <1>9, ThrowMarks DEF FocusOnly, PositionTyped, PositionFlags, PositionKnown
<1>10. CASE CheckPosition
  <2>1. CASE /\ lease' \in {"open", "closed"} /\ held' = FALSE /\ unsure' = TRUE /\ UNCHANGED quiescent
             /\ ppc' = "release" /\ pres' = {"failed", "unknown", "cleanup", "reconcile"}
    BY <1>10, <2>1 DEF CheckPosition, PositionTyped, PositionFlags, PositionKnown, TableMarks
  <2>2. QED
    BY <1>6, <1>7, <1>10, <2>1 DEF CheckPosition
<1>11. CASE Release
  <2>1. /\ ppc = "release" /\ held' = FALSE
        /\ UNCHANGED <<moved, submitted, positioned, quiescent, noop, editor>>
    BY <1>11 DEF Release
  <2>2. /\ lease' \in {"none", "open", "closed"} /\ unsure' \in BOOLEAN
        /\ lease' = "open" => unsure'
    <3>1. CASE held /\ quiescent
      BY <1>11, <3>1, GivenBack DEF Release, PositionTyped
    <3>2. CASE ~(held /\ quiescent)
      <4>1. lease' = lease /\ unsure' = (unsure \/ held)
        BY <1>11, <3>2 DEF Release
      <4>2. QED
        BY <2>1, <4>1 DEF PositionTyped, PositionFlags, PositionKnown
    <3>3. QED
      BY <3>1, <3>2
  <2>3. /\ ppc' = "idle" /\ pres' \subseteq TableMarks
        /\ unsure' => "cleanup" \in pres' /\ "ok" \notin pres'
        /\ "unknown" \in pres => "unknown" \in pres'
        /\ "failed" \in pres' => "failed" \in pres \/ "unknown" \in pres' \/ ("ok" \notin pres /\ unsure')
    BY <1>11, <2>2, ReleaseMarks DEF Release, PositionTyped
  <2>4. QED
    BY <2>1, <2>2, <2>3 DEF PositionTyped, PositionFlags, PositionKnown
<1>12. QED
  BY <1>3, <1>4, <1>5, <1>8, <1>9, <1>10, <1>11 DEF PositionStep

(* What an answer of a walk says after a failure.                          *)
LEMMA PriorActivation ==
  ASSUME NEW marks \in SUBSET TableMarks, active' \in BOOLEAN,
         ReadReturns(PreservePriorActivation(marks))
  PROVE  /\ rpc' = "done" /\ ranswer' \subseteq TableMarks /\ marks \subseteq ranswer'
         /\ active' /\ "ok" \notin marks => "unknown" \in ranswer'
         /\ "failed" \in ranswer' => "failed" \in marks
BY DEF ReadReturns, PreservePriorActivation, If, TableMarks

(* A reading that throws.                                                  *)
LEMMA ReadThrowMarks ==
  ASSUME ReadThrows, active' \in BOOLEAN
  PROVE  /\ rpc' = "done" /\ ranswer' \subseteq TableMarks
         /\ active' => "unknown" \in ranswer'
BY DEF ReadThrows, ReadReturns, PreservePriorActivation, If, TableMarks

(* Outside of a move nothing is known of it.                               *)
LEMMA NoMove ==
  ASSUME ppc' = "idle", ~Positions'
  PROVE  PositionKnown'
BY DEF PositionKnown

(* Outside of a move, on a route or at its end.                            *)
LEMMA OnRoute ==
  ASSUME ppc' = "idle", mpc' # "seeking", rpc' \notin {"seeking", "bootstrap"}
  PROVE  PositionKnown'
BY DEF PositionKnown, Positions

(* What is to be known at the keys, at a resumed walk, at a release and at *)
(* the answer.                                                             *)
LEMMA ReachKeys ==
  ASSUME rpc' \in {"s-focus", "s-key", "s-last"}, rpc' # "s-last" => sent' < TableRows,
         moved' => active' \/ sent' > 0, lease' = "open" => held' \/ unsure'
  PROVE  ReadKnown'
BY DEF ReadKnown

(* The same at a walk that is resumed.                                     *)
LEMMA ReachWalk ==
  ASSUME rpc' \in {"f-focus", "f-resume", "f-last"}, reported', consumed' => lease' # "open"
  PROVE  ReadKnown'
BY DEF ReadKnown

(* The same at the release after the keys.                                 *)
LEMMA ReachRelease ==
  ASSUME rpc' = "s-release", lease' = "open" => held' \/ unsure',
         "ok" \in pres' <=> "failed" \notin pres',
         "failed" \in pres' /\ moved' => active' \/ "unknown" \in pres'
  PROVE  ReadKnown'
BY DEF ReadKnown

(* The same at the release after a walk that was resumed.                  *)
LEMMA ReachFocusRelease ==
  ASSUME rpc' = "f-release", reported', consumed' => lease' # "open", "failed" \in pres' => "unknown" \in pres'
  PROVE  ReadKnown'
BY DEF ReadKnown

(* The same at the answer.                                                 *)
LEMMA ReachDone ==
  ASSUME rpc' = "done", lease' = "open" => "cleanup" \in ranswer',
         moved' /\ "failed" \in ranswer' => "unknown" \in ranswer'
  PROVE  ReadKnown'
BY DEF ReadKnown

(* The readings around a walk.                                             *)
LEMMA ReadBeginsKeep ==
  ASSUME PositionTyped, PositionFlags, PositionKnown, ReadTyped, ReadKnown, UNCHANGED mpc, mpc # "seeking",
         Prebind \/ ChooseRoute \/ SeekReturns \/ BootstrapReturns \/ Settle
  PROVE  /\ PositionTyped' /\ PositionFlags' /\ PositionKnown' /\ ReadTyped' /\ ReadKnown'
         /\ UNCHANGED <<table, row, writes>>
<1> USE DEF PositionTyped, PositionFlags, ReadTyped
<1>1. CASE Prebind
  <2>1. rpc = "prebind" /\ Unmoved /\ UNCHANGED <<ppc, seek, rlocal>> /\ ppc = "idle"
    BY <1>1 DEF Prebind, PositionKnown, Positions
  <2>2. CASE rpc' = "route" /\ UNCHANGED ranswer
    BY <2>1, <2>2, NoMove DEF Unmoved, tworld, plocal, rlocal, Positions, RouteSteps, ReadKnown
  <2>3. CASE ReadThrows
    BY <2>1, <2>3, NoMove, ReadThrowMarks DEF Unmoved, tworld, plocal, rlocal, Positions, RouteSteps, ReadKnown
  <2>4. QED
    BY <1>1, <2>2, <2>3 DEF Prebind
<1>2. CASE ChooseRoute
  <2>1. /\ rpc = "route" /\ UNCHANGED <<tworld, seek, rlocal, ranswer>> /\ ppc = "idle"
        /\ lease # "open" /\ ~moved /\ ~consumed /\ sent = 0
    BY <1>2 DEF ChooseRoute, PositionKnown, Positions, ReadKnown
  <2>2. CASE PositionCalled /\ rpc' \in {"seeking", "bootstrap"}
    BY <2>1, <2>2 DEF PositionCalled, tworld, rlocal, Positions, PositionKnown, ReadKnown, TableMarks
  <2>3. CASE rpc' \in {"s-acquire", "f-acquire", "l-activate"} /\ UNCHANGED <<ppc, plocal>>
    BY <2>1, <2>3, NoMove DEF tworld, plocal, rlocal, Positions, ReadKnown, RouteSteps
  <2>4. QED
    BY <1>2, <2>2, <2>3 DEF ChooseRoute, Routes
<1>3. CASE SeekReturns
  <2>1. /\ rpc = "seeking" /\ ppc = "idle" /\ Unmoved /\ UNCHANGED <<ppc, seek, rlocal>>
        /\ rpc' = "done" /\ ranswer' = pres
    BY <1>3 DEF SeekReturns, ReadReturns
  <2>2. /\ lease = "open" => "cleanup" \in pres
        /\ moved /\ "failed" \in pres => "unknown" \in pres
    BY <2>1 DEF PositionKnown, Positions
  <2>3. QED
    BY <2>1, <2>2, NoMove DEF Unmoved, tworld, plocal, rlocal, Positions, ReadKnown
<1>4. CASE BootstrapReturns
  <2>1. /\ rpc = "bootstrap" /\ ppc = "idle" /\ Unmoved /\ UNCHANGED <<ppc, seek, sent, consumed, reported>>
        /\ active' = ("ok" \in pres \/ submitted)
    BY <1>4 DEF BootstrapReturns
  <2>2. /\ lease = "open" => "cleanup" \in pres /\ "ok" \notin pres
        /\ "failed" \in pres /\ submitted => "unknown" \in pres
        /\ moved => submitted
    BY <2>1 DEF PositionKnown, Positions
  <2>3. active' \in BOOLEAN /\ (moved => active')
    BY <2>1, <2>2
  <2>4. CASE rpc' = "settle" /\ UNCHANGED ranswer /\ "ok" \in pres
    BY <2>1, <2>2, <2>3, <2>4, NoMove DEF Unmoved, tworld, plocal, Positions, ReadKnown
  <2>5. CASE ReadReturns(PreservePriorActivation(pres)) /\ "ok" \notin pres
    BY <2>1, <2>2, <2>3, <2>5, NoMove, PriorActivation DEF Unmoved, tworld, plocal, Positions, ReadKnown
  <2>6. QED
    BY <1>4, <2>4, <2>5 DEF BootstrapReturns
<1>5. CASE Settle
  <2>1. rpc = "settle" /\ Unmoved /\ UNCHANGED <<ppc, seek, rlocal>> /\ ppc = "idle"
    BY <1>5 DEF Settle, PositionKnown, Positions
  <2>2. CASE rpc' = "s-acquire" /\ UNCHANGED ranswer
    BY <2>1, <2>2, NoMove DEF Unmoved, tworld, plocal, rlocal, Positions, RouteSteps, ReadKnown
  <2>3. CASE ReadThrows
    BY <2>1, <2>3, NoMove, ReadThrowMarks DEF Unmoved, tworld, plocal, rlocal, Positions, ReadKnown
  <2>4. QED
    BY <1>5, <2>2, <2>3 DEF Settle
<1>6. QED
  BY <1>1, <1>2, <1>3, <1>4, <1>5

(* The lease of a route: what is reported is held or unsure, and without   *)
(* one the read ends.                                                      *)
LEMMA RouteAcquired ==
  ASSUME PositionTyped, PositionFlags, PositionKnown, ReadTyped, ReadKnown, UNCHANGED mpc, mpc # "seeking",
         StepAcquire \/ FocusAcquire
  PROVE  /\ PositionTyped' /\ PositionFlags' /\ PositionKnown' /\ ReadTyped' /\ ReadKnown'
         /\ UNCHANGED <<table, row, writes>>
<1> USE DEF PositionTyped, PositionFlags, ReadTyped
<1>1. PICK from \in {"s-acquire", "f-acquire"} :
        \E next \in IF from = "s-acquire" THEN {"s-focus"} ELSE {"f-focus"},
           end \in IF from = "s-acquire" THEN {"s-release"} ELSE {"f-release"} : RouteAcquire(from, next, end)
  BY DEF StepAcquire, FocusAcquire
<1>2. PICK next \in {"s-focus", "f-focus"}, end \in {"s-release", "f-release"} :
        /\ RouteAcquire(from, next, end)
        /\ (from = "s-acquire") <=> (next = "s-focus")
        /\ (from = "s-acquire") <=> (end = "s-release")
  BY <1>1
<1>3. /\ rpc = from /\ ppc = "idle" /\ lease # "open"
      /\ UNCHANGED <<table, row, writes, moved, ppc, positioned, quiescent, noop, editor, seek, sent, consumed, active>>
      /\ from = "s-acquire" => sent = 0 /\ (moved => active)
      /\ from = "f-acquire" => ~moved /\ ~consumed
  BY <1>2 DEF RouteAcquire, PositionKnown, Positions, ReadKnown
<1>4. ASSUME NEW footer \in BOOLEAN, HandedOver(TRUE, TRUE), submitted' = footer, reported' = TRUE,
             rpc' = next, pres' = {}, UNCHANGED ranswer
      PROVE  /\ PositionTyped' /\ PositionFlags' /\ PositionKnown' /\ ReadTyped' /\ ReadKnown'
  BY <1>2, <1>3, <1>4, NoMove, TableRowsAssumption DEF HandedOver, Positions, ReadKnown, RouteSteps
<1>5. ASSUME NEW footer \in BOOLEAN, NEW kept \in BOOLEAN, HandedOver(kept, FALSE), submitted' = footer,
             reported' = TRUE, rpc' = end, UNCHANGED ranswer,
             pres' = {"failed", "unknown"} \union If(footer \/ from = "f-acquire", {"reconcile"})
      PROVE  /\ PositionTyped' /\ PositionFlags' /\ PositionKnown' /\ ReadTyped' /\ ReadKnown'
  <2>1. pres' \subseteq TableMarks /\ "ok" \notin pres' /\ "failed" \in pres' /\ "unknown" \in pres'
    BY <1>5 DEF If, TableMarks
  <2>2. lease' = "open" /\ held' = kept /\ unsure' = TRUE
    BY <1>5 DEF HandedOver
  <2>3. QED
    BY <1>2, <1>3, <1>5, <2>1, <2>2, NoMove DEF Positions, ReadKnown, RouteSteps
<1>6. ASSUME UNCHANGED <<lease, held, unsure, submitted, reported, pres>>, NEW marks \in {{}, {"unknown", "reconcile"}},
             ReadReturns(PreservePriorActivation({"failed"} \union marks))
      PROVE  /\ PositionTyped' /\ PositionFlags' /\ PositionKnown' /\ ReadTyped' /\ ReadKnown'
  <2>1. {"failed"} \union marks \in SUBSET TableMarks /\ "ok" \notin {"failed"} \union marks
    BY <1>6 DEF TableMarks
  <2>2. /\ rpc' = "done" /\ ranswer' \subseteq TableMarks
        /\ active' => "unknown" \in ranswer'
    BY <1>3, <1>6, <2>1, PriorActivation
  <2>3. QED
    <3>1. PositionTyped'
      BY <1>3, <1>6
    <3>2. PositionFlags'
      BY <1>3, <1>6, Zenon
    <3>3. PositionKnown'
      BY <1>3, <2>2, OnRoute
    <3>4. ReadTyped'
      BY <1>3, <1>6, <2>2, Zenon
    <3>5. ReadKnown'
      BY <1>3, <1>6, <2>2, ReachDone
    <3>6. QED
      BY <3>1, <3>2, <3>3, <3>4, <3>5
<1>7. QED
  <2>1. CASE \E footer \in BOOLEAN : /\ HandedOver(TRUE, TRUE) /\ submitted' = footer
                                      /\ reported' = TRUE /\ rpc' = next /\ pres' = {} /\ UNCHANGED ranswer
    <3>1. PICK footer \in BOOLEAN : /\ HandedOver(TRUE, TRUE) /\ submitted' = footer
                                    /\ reported' = TRUE /\ rpc' = next /\ pres' = {} /\ UNCHANGED ranswer
      BY <2>1
    <3>2. PositionTyped' /\ PositionFlags' /\ PositionKnown' /\ ReadTyped' /\ ReadKnown'
      BY <1>4, <3>1, Zenon
    <3>3. QED
      BY <1>3, <3>2
  <2>2. CASE \E footer, kept \in BOOLEAN :
               /\ HandedOver(kept, FALSE) /\ submitted' = footer /\ reported' = TRUE /\ rpc' = end /\ UNCHANGED ranswer
               /\ pres' = {"failed", "unknown"} \union If(footer \/ from = "f-acquire", {"reconcile"})
    <3>1. PICK footer \in BOOLEAN, kept \in BOOLEAN :
               /\ HandedOver(kept, FALSE) /\ submitted' = footer /\ reported' = TRUE /\ rpc' = end /\ UNCHANGED ranswer
               /\ pres' = {"failed", "unknown"} \union If(footer \/ from = "f-acquire", {"reconcile"})
      BY <2>2
    <3>2. PositionTyped' /\ PositionFlags' /\ PositionKnown' /\ ReadTyped' /\ ReadKnown'
      BY <1>5, <3>1, Zenon
    <3>3. QED
      BY <1>3, <3>2
  <2>3. CASE /\ UNCHANGED <<lease, held, unsure, submitted, reported, pres>>
             /\ \E marks \in {{}, {"unknown", "reconcile"}} :
                  ReadReturns(PreservePriorActivation({"failed"} \union marks))
    <3>1. PICK marks \in {{}, {"unknown", "reconcile"}} :
            ReadReturns(PreservePriorActivation({"failed"} \union marks))
      BY <2>3
    <3>2. PositionTyped' /\ PositionFlags' /\ PositionKnown' /\ ReadTyped' /\ ReadKnown'
      BY <1>6, <2>3, <3>1, Zenon
    <3>3. QED
      BY <1>3, <3>2
  <2>4. QED
    BY <1>2, <2>1, <2>2, <2>3, Zenon DEF RouteAcquire

(* A walk by keys that fails.                                              *)
LEMMA StepThrowMarks ==
  ASSUME StepThrows
  PROVE  /\ rpc' = "s-release" /\ UNCHANGED ranswer /\ pres' \subseteq TableMarks
         /\ "failed" \in pres' /\ "ok" \notin pres'
         /\ submitted' \/ sent' > 0 \/ unsure' => "unknown" \in pres'
BY DEF StepThrows, If, TableMarks

(* The walk by keys: after the first key a failure is an unknown outcome.  *)
LEMMA SteppedKeeps ==
  ASSUME PositionTyped, PositionFlags, PositionKnown, ReadTyped, ReadKnown, UNCHANGED mpc, mpc # "seeking",
         StepFocus \/ StepKey \/ StepLast \/ StepRelease
  PROVE  /\ PositionTyped' /\ PositionFlags' /\ PositionKnown' /\ ReadTyped' /\ ReadKnown'
         /\ UNCHANGED <<table, row, writes>>
<1> USE TableRowsAssumption DEF PositionTyped, PositionFlags, ReadTyped
<1>1. /\ rpc \in {"s-focus", "s-key", "s-last", "s-release"} /\ ppc = "idle"
      /\ lease = "open" => held \/ unsure
      /\ UNCHANGED <<table, row, writes, ppc>>
  BY DEF StepFocus, StepKey, StepLast, StepRelease, PositionKnown, Positions, ReadKnown, tworld
<1>2. CASE StepFocus
  <2>1. /\ rpc = "s-focus" /\ submitted' \in {submitted, TRUE}
        /\ UNCHANGED <<moved, lease, held, unsure, positioned, quiescent, noop, editor, seek, rlocal>>
    BY <1>2 DEF StepFocus
  <2>2. CASE rpc' = "s-key" /\ UNCHANGED <<ranswer, pres>>
    <3>1. PositionTyped'
      BY <1>1, <2>1, <2>2
    <3>2. PositionFlags'
      BY <2>1, <2>2
    <3>3. PositionKnown'
      BY <1>1, <2>2, OnRoute
    <3>4. ReadTyped'
      BY <2>1, <2>2 DEF rlocal, RouteSteps
    <3>5. ReadKnown'
      BY <1>1, <2>1, <2>2, ReachKeys DEF ReadKnown, rlocal
    <3>6. QED
      BY <1>1, <3>1, <3>2, <3>3, <3>4, <3>5
  <2>3. CASE StepThrows
    <3>1. PositionTyped'
      BY <1>1, <2>1, <2>3, StepThrowMarks
    <3>2. PositionFlags'
      BY <2>1
    <3>3. PositionKnown'
      BY <1>1, <2>3, StepThrowMarks, OnRoute
    <3>4. ReadTyped'
      BY <2>1, <2>3, StepThrowMarks DEF rlocal, RouteSteps
    <3>5. ReadKnown'
      BY <1>1, <2>1, <2>3, StepThrowMarks, ReachRelease DEF ReadKnown, rlocal
    <3>6. QED
      BY <1>1, <3>1, <3>2, <3>3, <3>4, <3>5
  <2>4. QED
    BY <1>2, <2>2, <2>3 DEF StepFocus
<1>3. CASE StepKey
  <2>1. /\ rpc = "s-key" /\ sent < TableRows
        /\ UNCHANGED <<submitted, positioned, quiescent, noop, editor, seek, consumed, reported, active>>
    BY <1>3 DEF StepKey, ReadKnown
  <2>2. CASE UNCHANGED <<moved, lease, held, unsure, sent>> /\ StepThrows
    BY <1>1, <2>1, <2>2, NoMove, StepThrowMarks DEF Positions, RouteSteps, ReadKnown
  <2>3. CASE /\ moved' = TRUE /\ sent' = sent + 1 /\ HandedOver(TRUE, TRUE)
             /\ rpc' = (IF sent' = TableRows THEN "s-last" ELSE "s-focus") /\ UNCHANGED <<ranswer, pres>>
    BY <1>1, <2>1, <2>3, NoMove DEF HandedOver, Positions, RouteSteps, ReadKnown
  <2>4. CASE moved' = TRUE /\ sent' = sent + 1 /\ HandedOver(TRUE, TRUE) /\ StepThrows
    BY <1>1, <2>1, <2>4, NoMove, StepThrowMarks DEF HandedOver, Positions, RouteSteps, ReadKnown
  <2>5. CASE /\ moved' = TRUE /\ sent' \in {sent, sent + 1} /\ held' = FALSE
             /\ \/ lease' = "closed" /\ unsure' = FALSE /\ sent' > 0
                \/ lease' \in {"open", "closed"} /\ unsure' = TRUE
             /\ StepThrows
    <3>1. PositionTyped'
      BY <1>1, <2>1, <2>5, StepThrowMarks
    <3>2. PositionFlags'
      BY <2>1, <2>5
    <3>3. PositionKnown'
      BY <1>1, <2>5, StepThrowMarks, OnRoute
    <3>4. ReadTyped'
      BY <2>1, <2>5, StepThrowMarks DEF RouteSteps
    <3>5. ReadKnown'
      BY <1>1, <2>1, <2>5, StepThrowMarks, ReachRelease DEF ReadKnown
    <3>6. QED
      BY <1>1, <3>1, <3>2, <3>3, <3>4, <3>5
  <2>6. QED
    BY <1>3, <2>2, <2>3, <2>4, <2>5 DEF StepKey
<1>4. CASE StepLast
  <2>1. /\ rpc = "s-last"
        /\ UNCHANGED <<tworld, held, unsure, submitted, positioned, quiescent, noop, editor, seek, rlocal>>
    BY <1>4 DEF StepLast
  <2>2. CASE rpc' = "s-release" /\ pres' = {"ok"} /\ UNCHANGED ranswer
    BY <1>1, <2>1, <2>2, NoMove DEF tworld, rlocal, Positions, RouteSteps, ReadKnown, TableMarks
  <2>3. CASE StepThrows
    BY <1>1, <2>1, <2>3, NoMove, StepThrowMarks DEF tworld, rlocal, Positions, RouteSteps, ReadKnown
  <2>4. QED
    BY <1>4, <2>2, <2>3 DEF StepLast
<1>5. CASE StepRelease
  <2> DEFINE M == (pres \ If(unsure', {"ok"}))
                    \union If(unsure', {"failed", "cleanup", "reconcile"} \union If("ok" \in pres, {"unknown"}))
  <2>1. /\ rpc = "s-release" /\ held' = FALSE
        /\ UNCHANGED <<moved, submitted, positioned, quiescent, noop, editor, pres, seek, rlocal>>
        /\ ReadReturns(PreservePriorActivation(M))
    BY <1>5 DEF StepRelease
  <2>2. /\ lease' \in {"none", "open", "closed"} /\ unsure' \in BOOLEAN
        /\ lease' = "open" => unsure'
    <3>1. CASE held
      BY <1>5, <3>1, GivenBack DEF StepRelease
    <3>2. CASE ~held
      BY <1>1, <1>5, <3>2 DEF StepRelease
    <3>3. QED
      BY <3>1, <3>2
  <2>3. /\ M \in SUBSET TableMarks
        /\ unsure' => "cleanup" \in M
        /\ "failed" \in M => "unknown" \in M \/ ("failed" \in pres /\ "ok" \notin M)
        /\ "unknown" \in pres => "unknown" \in M
    BY <2>1, <2>2 DEF If, TableMarks, ReadKnown
  <2>4. /\ rpc' = "done" /\ ranswer' \subseteq TableMarks /\ M \subseteq ranswer'
        /\ active' /\ "ok" \notin M => "unknown" \in ranswer'
        /\ "failed" \in ranswer' => "failed" \in M
    <3>1. active' \in BOOLEAN
      BY <2>1 DEF rlocal
    <3> HIDE DEF M
    <3>2. QED
      BY <2>1, <2>3, <3>1, PriorActivation
  <2>5. moved' /\ "failed" \in ranswer' => "unknown" \in ranswer'
    <3> HIDE DEF M
    <3>1. QED
      BY <2>1, <2>3, <2>4 DEF ReadKnown, rlocal
  <2>6. lease' = "open" => "cleanup" \in ranswer'
    <3> HIDE DEF M
    <3>1. QED
      BY <2>2, <2>3, <2>4
  <2>7. QED
    <3>1. PositionTyped'
      BY <1>1, <2>1, <2>2
    <3>2. PositionFlags'
      BY <2>1, <2>2
    <3>3. PositionKnown'
      BY <1>1, <2>4, OnRoute
    <3>4. ReadTyped'
      BY <2>1, <2>4 DEF rlocal
    <3>5. ReadKnown'
      BY <2>4, <2>5, <2>6, ReachDone
    <3>6. QED
      BY <1>1, <3>1, <3>2, <3>3, <3>4, <3>5
<1>6. QED
  BY <1>2, <1>3, <1>4, <1>5

(* The walk that is resumed after the focus.                               *)
LEMMA FocusedKeeps ==
  ASSUME PositionTyped, PositionFlags, PositionKnown, ReadTyped, ReadKnown, UNCHANGED mpc, mpc # "seeking",
         FocusRoute \/ FocusResume \/ FocusLast \/ FocusRelease
  PROVE  /\ PositionTyped' /\ PositionFlags' /\ PositionKnown' /\ ReadTyped' /\ ReadKnown'
         /\ UNCHANGED <<table, row, writes>>
<1> USE DEF PositionTyped, PositionFlags, ReadTyped
<1>1. /\ rpc \in {"f-focus", "f-resume", "f-last", "f-release"} /\ ppc = "idle"
      /\ reported /\ (consumed => lease # "open") /\ UNCHANGED <<table, row, writes, ppc>>
  BY DEF FocusRoute, FocusResume, FocusLast, FocusRelease, PositionKnown, Positions, ReadKnown, tworld
<1>2. FocusThrows => /\ rpc' = "f-release" /\ UNCHANGED ranswer /\ pres' \subseteq TableMarks
                     /\ "unknown" \in pres'
  BY DEF FocusThrows, TableMarks
<1>3. CASE FocusRoute
  <2>1. /\ submitted' \in {submitted, TRUE} /\ UNCHANGED <<moved, lease, held, unsure, positioned, quiescent, noop, editor, seek, rlocal>>
        /\ FocusThrows \/ (rpc' = "f-resume" /\ UNCHANGED <<ranswer, pres>>)
    BY <1>3 DEF FocusRoute
  <2>2. QED
    <3>1. PositionTyped' /\ PositionFlags' /\ PositionKnown' /\ ReadTyped'
      <4>1. rpc' \in {"f-release", "f-resume"} /\ pres' \subseteq TableMarks /\ UNCHANGED ranswer
        BY <1>2, <2>1
      <4>2. PositionFlags'
        BY <2>1
      <4>3. PositionKnown'
        BY <1>1, <4>1, OnRoute
      <4>4. QED
        BY <1>1, <2>1, <4>1, <4>2, <4>3 DEF rlocal, RouteSteps
    <3>2. ReadKnown'
      BY <1>1, <1>2, <2>1, ReachWalk, ReachFocusRelease DEF rlocal
    <3>3. QED
      BY <3>1, <3>2, <1>1
<1>4. CASE FocusResume
  <2>1. /\ moved' \in {moved, TRUE} /\ UNCHANGED <<held, unsure, submitted, positioned, quiescent, noop, editor, seek, sent, reported, active>>
        /\ consumed' \in BOOLEAN /\ lease' \in {"open", "closed"} /\ (consumed' => lease' # "open")
        /\ FocusThrows \/ (rpc' = "f-last" /\ UNCHANGED <<ranswer, pres>>)
    BY <1>4 DEF FocusResume
  <2>2. QED
    <3>1. PositionTyped' /\ PositionFlags' /\ PositionKnown' /\ ReadTyped'
      <4>1. rpc' \in {"f-release", "f-last"} /\ pres' \subseteq TableMarks /\ UNCHANGED ranswer
        BY <1>2, <2>1
      <4>2. PositionFlags'
        BY <2>1
      <4>3. PositionKnown'
        BY <1>1, <4>1, OnRoute
      <4>4. QED
        BY <1>1, <2>1, <4>1, <4>2, <4>3 DEF RouteSteps
    <3>2. ReadKnown'
      BY <1>1, <1>2, <2>1, ReachWalk, ReachFocusRelease
    <3>3. QED
      BY <3>1, <3>2, <1>1
<1>5. CASE FocusLast
  <2>1. /\ UNCHANGED <<tworld, held, unsure, submitted, positioned, quiescent, noop, editor, seek, rlocal>>
        /\ FocusThrows \/ (rpc' = "f-release" /\ pres' = {"ok"} /\ UNCHANGED ranswer)
    BY <1>5 DEF FocusLast
  <2>2. QED
    <3>1. /\ rpc' = "f-release" /\ pres' \subseteq TableMarks /\ UNCHANGED ranswer
          /\ "failed" \in pres' => "unknown" \in pres'
      BY <1>2, <2>1 DEF TableMarks
    <3>2. PositionFlags'
      BY <2>1 DEF tworld
    <3>3. PositionKnown'
      BY <1>1, <3>1, OnRoute
    <3>4. PositionTyped' /\ ReadTyped'
      BY <1>1, <2>1, <3>1 DEF tworld, rlocal, RouteSteps
    <3>5. ReadKnown'
      BY <1>1, <2>1, <3>1, ReachFocusRelease DEF tworld, rlocal
    <3>6. QED
      BY <1>1, <3>2, <3>3, <3>4, <3>5
<1>6. CASE FocusRelease
  <2>1. /\ rpc = "f-release" /\ held' = FALSE
        /\ UNCHANGED <<moved, submitted, positioned, quiescent, noop, editor, pres, seek, rlocal>>
        /\ rpc' = "done" /\ ranswer' = pres \union If(unsure', {"cleanup", "reconcile"})
    BY <1>6 DEF FocusRelease, ReadReturns
  <2>2. /\ lease' \in {"none", "open", "closed"} /\ unsure' \in BOOLEAN
        /\ lease' = "open" => unsure'
    <3>1. CASE held /\ ~consumed
      BY <1>6, <3>1, GivenBack DEF FocusRelease
    <3>2. CASE ~(held /\ ~consumed)
      BY <1>1, <1>6, <3>2 DEF FocusRelease
    <3>3. QED
      BY <3>1, <3>2
  <2>3. /\ ranswer' \subseteq TableMarks
        /\ unsure' => "cleanup" \in ranswer'
        /\ "failed" \in ranswer' => "unknown" \in ranswer'
    BY <2>1, <2>2 DEF If, TableMarks, ReadKnown
  <2>4. QED
    <3>1. PositionTyped'
      BY <1>1, <2>1, <2>2
    <3>2. PositionFlags'
      BY <2>1, <2>2
    <3>3. PositionKnown'
      BY <1>1, <2>1, OnRoute
    <3>4. ReadTyped'
      BY <2>1, <2>3 DEF rlocal
    <3>5. ReadKnown'
      BY <2>1, <2>2, <2>3, ReachDone
    <3>6. QED
      BY <1>1, <3>1, <3>2, <3>3, <3>4, <3>5
<1>7. QED
  BY <1>3, <1>4, <1>5, <1>6

(* The activation of the viewport.                                         *)
LEMMA ActivatedKeeps ==
  ASSUME PositionTyped, PositionFlags, PositionKnown, ReadTyped, ReadKnown, UNCHANGED mpc, mpc # "seeking",
         Activate \/ WalkActivated
  PROVE  /\ PositionTyped' /\ PositionFlags' /\ PositionKnown' /\ ReadTyped' /\ ReadKnown'
         /\ UNCHANGED <<table, row, writes>>
<1> USE DEF PositionTyped, PositionFlags, ReadTyped
<1>1. /\ rpc \in {"l-activate", "l-resume", "l-last"} /\ ppc = "idle" /\ lease # "open"
      /\ rpc = "l-activate" => ~moved
      /\ rpc # "l-activate" => active
      /\ UNCHANGED <<table, row, writes, ppc, lease, plocal, seek, sent, consumed, reported>>
  BY DEF Activate, WalkActivated, PositionKnown, Positions, ReadKnown, Unmoved, tworld, rlocal
<1>2. CASE Activate
  <2>1. CASE active' = TRUE /\ moved' = TRUE /\ rpc' = "l-resume" /\ UNCHANGED ranswer
    BY <1>1, <2>1, NoMove DEF plocal, Positions, RouteSteps, ReadKnown
  <2>2. CASE active' = TRUE /\ moved' \in {moved, TRUE} /\ ReadThrows
    <3>1. PositionTyped'
      BY <1>1, <2>2 DEF plocal
    <3>2. PositionFlags'
      BY <1>1, <2>2 DEF plocal
    <3>3. PositionKnown'
      BY <1>1, <2>2, ReadThrowMarks, OnRoute
    <3>4. ReadTyped'
      BY <1>1, <2>2, ReadThrowMarks
    <3>5. ReadKnown'
      BY <1>1, <2>2, ReadThrowMarks, ReachDone
    <3>6. QED
      BY <1>1, <3>1, <3>2, <3>3, <3>4, <3>5
  <2>3. CASE active' = TRUE /\ UNCHANGED moved /\ ReadReturns({"failed"})
    BY <1>1, <1>2, <2>3, NoMove DEF Activate, ReadReturns, TableMarks, plocal, Positions, ReadKnown
  <2>4. CASE active' = FALSE /\ UNCHANGED moved /\ ReadThrows
    <3>1. PositionTyped'
      BY <1>1, <2>4 DEF plocal
    <3>2. PositionFlags'
      BY <1>1, <2>4 DEF plocal
    <3>3. PositionKnown'
      BY <1>1, <2>4, ReadThrowMarks, OnRoute
    <3>4. ReadTyped'
      BY <1>1, <2>4, ReadThrowMarks
    <3>5. ReadKnown'
      BY <1>1, <1>2, <2>4, ReadThrowMarks, ReachDone DEF Activate
    <3>6. QED
      BY <1>1, <3>1, <3>2, <3>3, <3>4, <3>5
  <2>5. QED
    BY <1>2, <2>1, <2>2, <2>3, <2>4 DEF Activate
<1>3. CASE WalkActivated
  <2>1. rpc # "l-activate" /\ active /\ UNCHANGED <<moved, active>>
    BY <1>1, <1>3 DEF WalkActivated, Unmoved, tworld, rlocal
  <2>2. CASE rpc' = "l-last" /\ UNCHANGED ranswer
    BY <1>1, <2>1, <2>2, NoMove DEF plocal, Positions, RouteSteps, ReadKnown
  <2>3. CASE ReadReturns({"failed", "unknown", "reconcile"}) \/ ReadReturns({"ok"})
    BY <1>1, <2>1, <2>3, NoMove DEF ReadReturns, TableMarks, plocal, Positions, ReadKnown
  <2>4. CASE ReadThrows
    BY <1>1, <2>1, <2>4, NoMove, ReadThrowMarks DEF plocal, Positions, ReadKnown
  <2>5. QED
    BY <1>3, <2>2, <2>3, <2>4 DEF WalkActivated
<1>4. QED
  BY <1>2, <1>3

(* Every step of a reading keeps what is known of it, and writes nothing.  *)
LEMMA ReadKeeps ==
  ASSUME PositionTyped, PositionFlags, PositionKnown, ReadTyped, ReadKnown, UNCHANGED mpc, mpc # "seeking", ReadStep
  PROVE  /\ PositionTyped' /\ PositionFlags' /\ PositionKnown' /\ ReadTyped' /\ ReadKnown'
         /\ UNCHANGED <<table, row, writes>>
<1>1. CASE rpc \in {"seeking", "bootstrap"} /\ PositionStep /\ UNCHANGED <<seek, rpc, rlocal, ranswer>>
  <2>1. /\ PositionTyped' /\ PositionFlags' /\ PositionKnown'
        /\ UNCHANGED <<table, row, writes>>
    BY <1>1, MoveKeeps DEF Positions
  <2>2. ReadTyped'
    BY <1>1 DEF ReadTyped, rlocal
  <2>3. ReadKnown'
    BY <1>1 DEF ReadKnown, rlocal
  <2>4. QED
    BY <2>1, <2>2, <2>3
<1>2. CASE Prebind \/ ChooseRoute \/ SeekReturns \/ BootstrapReturns \/ Settle
  BY <1>2, ReadBeginsKeep
<1>3. CASE StepAcquire \/ FocusAcquire
  BY <1>3, RouteAcquired
<1>4. CASE StepFocus \/ StepKey \/ StepLast \/ StepRelease
  BY <1>4, SteppedKeeps
<1>5. CASE FocusRoute \/ FocusResume \/ FocusLast \/ FocusRelease
  BY <1>5, FocusedKeeps
<1>6. CASE Activate \/ WalkActivated
  BY <1>6, ActivatedKeeps
<1>7. QED
  BY <1>1, <1>2, <1>3, <1>4, <1>5, <1>6 DEF ReadStep

-----------------------------------------------------------------------------
(* The change of a table.                                                  *)

MutationTyped ==
  /\ mpc \in {"idle", "reserve", "prove", "seek", "seeking", "readback", "last", "write", "compare", "check",
              "add", "addseek", "adding", "again", "done"}
  /\ attempted \in BOOLEAN /\ original \subseteq TableMarks /\ manswer \subseteq TableMarks
  /\ writes \in {0, 1}

(* Nothing is written before the write, or after an answer that is not     *)
(* sure of that; the answer is given only of a lease that has ended or is  *)
(* named in it, and the last checkpoint is of the wanted row.              *)
MutationKnown ==
  /\ op = "table_read" => mpc = "idle"
  /\ mpc \in {"reserve", "prove", "seek", "add", "addseek"} => rpc = "idle"
  /\ mpc \in {"idle", "reserve", "prove", "seek", "add", "addseek"} /\ rpc = "idle" => ~moved /\ lease # "open"
  /\ mpc \in {"seeking", "readback", "last", "write", "compare", "check"} => rpc = "idle"
  /\ mpc \in {"readback", "last", "write", "compare", "check", "again"} => lease # "open"
  /\ mpc = "again" => rpc = "done"
  /\ mpc \in {"add", "addseek", "adding", "again"} => ~attempted
  /\ mpc \in {"compare", "check", "done"} \/ (mpc = "addseek" /\ "unstarted" \notin original) \/ writes = 0
  /\ mpc = "check" => row = "new" /\ table = "same"
  /\ mpc = "done" => /\ lease = "open" => "cleanup" \in manswer
                     /\ "unstarted" \in manswer => writes = 0
                     /\ "ok" \in manswer => row = "new" /\ (attempted => table = "same")

TableKnown ==
  /\ PositionTyped /\ PositionFlags /\ PositionKnown
  /\ ReadTyped /\ ReadKnown
  /\ MutationTyped /\ MutationKnown

(* What a step of a change outside of the move leaves alone.               *)
Outside == UNCHANGED <<table, moved, lease, ppc, plocal, seek, rpc, rlocal, ranswer>>

(* Outside of a move and of a reading only the row, the number of writes   *)
(* and the change itself differ.                                           *)
LEMMA OutsideKeeps ==
  ASSUME PositionTyped, PositionFlags, PositionKnown, ReadTyped, ReadKnown, Outside, ppc = "idle",
         mpc' # "seeking", rpc \notin {"seeking", "bootstrap"}, row' \in {"old", "new", "wrong"}
  PROVE  /\ PositionTyped' /\ PositionFlags' /\ PositionKnown' /\ ReadTyped' /\ ReadKnown'
<1>1. UNCHANGED <<table, moved, lease, ppc, plocal, seek, rpc, rlocal, ranswer>>
  BY DEF Outside
<1>2. PositionTyped'
  BY <1>1 DEF PositionTyped, plocal
<1>3. PositionFlags'
  BY <1>1 DEF PositionFlags, plocal
<1>4. PositionKnown'
  BY <1>1, OnRoute
<1>5. ReadTyped'
  BY <1>1 DEF ReadTyped, rlocal
<1>6. ReadKnown'
  BY <1>1 DEF ReadKnown, rlocal, plocal
<1>7. QED
  BY <1>2, <1>3, <1>4, <1>5, <1>6

(* The end of a change.                                                    *)
LEMMA ReachAnswer ==
  ASSUME mpc' = "done", op' # "table_read",
         lease' = "open" => "cleanup" \in manswer',
         "unstarted" \in manswer' => writes' = 0,
         "ok" \in manswer' => row' = "new" /\ (attempted' => table' = "same")
  PROVE  MutationKnown'
BY DEF MutationKnown

(* A change that throws says that nothing was started only of one that     *)
(* had not tried.                                                          *)
LEMMA MutationThrowMarks ==
  ASSUME MutationThrows, mpc \in {"prove", "seek", "readback", "last", "write", "compare", "check"}
  PROVE  /\ mpc' = "done" /\ manswer' \subseteq TableMarks /\ "ok" \notin manswer'
         /\ UNCHANGED <<attempted, original>>
         /\ "unstarted" \in manswer' => mpc \in {"prove", "seek", "readback", "last"}
BY DEF MutationThrows, MutationReturns, TableMarks

(* The steps before the write.                                             *)
LEMMA ChangeBegins ==
  ASSUME TableKnown, UNCHANGED op, op # "table_read",
         ReserveBudget \/ ProveTarget \/ TargetFound \/ ReadBackTarget
  PROVE  TableKnown'
<1>1. /\ mpc \in {"reserve", "prove", "seeking", "readback", "last"} /\ rpc = "idle" /\ writes = 0
      /\ ppc = "idle" /\ UNCHANGED rvars
  BY DEF ReserveBudget, ProveTarget, TargetFound, ReadBackTarget, TableKnown, MutationKnown, PositionKnown, Positions
<1>2. Outside /\ row' = row /\ writes' = writes /\ table' = table /\ lease' = lease /\ moved' = moved /\ rpc' = rpc
  BY <1>1 DEF Outside, rvars, pvars, tworld
<1>3. /\ mpc # "seeking" => lease # "open"
      /\ mpc \in {"reserve", "prove"} => ~moved
      /\ mpc = "seeking" /\ lease = "open" => "cleanup" \in pres /\ "ok" \notin pres
  BY <1>1 DEF TableKnown, MutationKnown, PositionKnown, Positions
<1>4. SUFFICES MutationTyped' /\ MutationKnown' /\ mpc' # "seeking"
  BY <1>1, <1>2, OutsideKeeps DEF TableKnown, PositionTyped
<1>5. CASE MutationThrows /\ mpc \notin {"reserve", "seeking"}
  <2>1. /\ mpc' = "done" /\ manswer' \subseteq TableMarks /\ "ok" \notin manswer'
        /\ UNCHANGED <<attempted, original>>
    BY <1>1, <1>5, MutationThrowMarks
  <2>2. MutationTyped'
    BY <1>2, <2>1 DEF TableKnown, MutationTyped
  <2>3. QED
    BY <1>1, <1>2, <1>3, <1>5, <2>1, <2>2, ReachAnswer
<1>6. CASE MutationReturns({"failed", "unstarted"}) /\ mpc # "seeking"
  <2>1. mpc' = "done" /\ manswer' = {"failed", "unstarted"} /\ UNCHANGED <<attempted, original>>
    BY <1>6 DEF MutationReturns
  <2>2. MutationTyped'
    BY <1>2, <2>1 DEF TableKnown, MutationTyped, TableMarks
  <2>3. QED
    BY <1>1, <1>2, <1>3, <1>6, <2>1, <2>2, ReachAnswer
<1>7. CASE ReserveBudget /\ MutationGoes("prove")
  BY <1>1, <1>2, <1>3, <1>7 DEF ReserveBudget, MutationGoes, TableKnown, MutationTyped, MutationKnown
<1>8. CASE ProveTarget /\ MutationGoes("seek")
  BY <1>1, <1>2, <1>3, <1>8 DEF ProveTarget, MutationGoes, TableKnown, MutationTyped, MutationKnown
<1>9. CASE TargetFound /\ "ok" \in pres
  <2>1. mpc = "seeking" /\ MutationGoes("readback")
    BY <1>9 DEF TargetFound
  <2>2. QED
    BY <1>1, <1>2, <1>3, <1>9, <2>1 DEF MutationGoes, TableKnown, MutationTyped, MutationKnown
<1>10. CASE TargetFound /\ "ok" \notin pres
  <2>1. /\ mpc = "seeking" /\ mpc' = "done" /\ UNCHANGED <<attempted, original>>
        /\ manswer' = pres \union IF pres \intersect {"unknown", "cleanup"} # {} THEN {"maybe"} ELSE {"unstarted"}
    BY <1>10 DEF TargetFound, MutationReturns
  <2>2. manswer' \subseteq TableMarks /\ pres \subseteq manswer' /\ "ok" \notin manswer'
    BY <1>10, <2>1 DEF TableKnown, PositionTyped, TableMarks
  <2>3. MutationTyped'
    BY <1>2, <2>1, <2>2 DEF TableKnown, MutationTyped
  <2>4. QED
    BY <1>1, <1>2, <1>3, <2>1, <2>2, <2>3, ReachAnswer
<1>11. CASE ReadBackTarget /\ MutationGoes(IF mpc = "readback" THEN "last" ELSE "write")
  BY <1>1, <1>2, <1>3, <1>11 DEF ReadBackTarget, MutationGoes, TableKnown, MutationTyped, MutationKnown
<1>12. QED
  BY <1>5, <1>6, <1>7, <1>8, <1>9, <1>10, <1>11 DEF ReserveBudget, ProveTarget, TargetFound, ReadBackTarget

(* The beginning of the move to the row.                                   *)
LEMMA SeekKeeps ==
  ASSUME TableKnown, UNCHANGED op, op # "table_read", SeekTarget
  PROVE  TableKnown'
<1>1. /\ mpc = "seek" /\ rpc = "idle" /\ writes = 0 /\ ppc = "idle" /\ lease # "open" /\ ~moved
      /\ UNCHANGED <<tworld, seek, rpc, rlocal, ranswer>>
  BY DEF SeekTarget, TableKnown, MutationKnown, PositionKnown, Positions
<1>2. UNCHANGED <<table, row, writes, moved, lease>>
  BY <1>1 DEF tworld
<1>3. CASE PositionCalled /\ mpc' = "seeking" /\ attempted' = TRUE /\ UNCHANGED <<original, manswer>>
  <2>1. PositionTyped' /\ PositionFlags' /\ PositionKnown'
    BY <1>1, <1>2, <1>3 DEF PositionCalled, TableKnown, PositionTyped, PositionFlags, PositionKnown, Positions, TableMarks
  <2>2. ReadTyped' /\ ReadKnown'
    BY <1>1, <1>2 DEF TableKnown, ReadTyped, ReadKnown, rlocal
  <2>3. MutationTyped' /\ MutationKnown'
    BY <1>1, <1>2, <1>3 DEF TableKnown, MutationTyped, MutationKnown
  <2>4. QED
    BY <2>1, <2>2, <2>3 DEF TableKnown
<1>4. ASSUME UNCHANGED <<ppc, plocal>>, mpc' = "done", manswer' \subseteq TableMarks, "ok" \notin manswer',
             attempted' \in BOOLEAN, UNCHANGED original
      PROVE  TableKnown'
  <2>1. Outside
    BY <1>1, <1>2, <1>4 DEF Outside
  <2>2. PositionTyped' /\ PositionFlags' /\ PositionKnown' /\ ReadTyped' /\ ReadKnown'
    BY <1>1, <1>2, <1>4, <2>1, OutsideKeeps DEF TableKnown, PositionTyped
  <2>3. MutationTyped' /\ MutationKnown'
    BY <1>1, <1>2, <1>4, ReachAnswer DEF TableKnown, MutationTyped
  <2>4. QED
    BY <2>2, <2>3 DEF TableKnown
<1>5. CASE UNCHANGED <<ppc, plocal>> /\ MutationThrows
  BY <1>1, <1>4, <1>5, MutationThrowMarks DEF TableKnown, MutationTyped
<1>6. CASE /\ UNCHANGED <<ppc, plocal, original>> /\ attempted' = TRUE
           /\ mpc' = "done" /\ manswer' = {"failed", "unknown", "maybe", "reconcile"}
  BY <1>4, <1>6 DEF TableMarks
<1>7. QED
  BY <1>3, <1>5, <1>6 DEF SeekTarget

(* The write and its proof.                                                *)
LEMMA WriteKeeps ==
  ASSUME TableKnown, UNCHANGED op, op # "table_read", WriteOnce \/ CompareModels \/ LastCheckpoint
  PROVE  TableKnown'
<1>1. /\ mpc \in {"write", "compare", "check"} /\ rpc = "idle" /\ lease # "open" /\ ppc = "idle"
      /\ mpc = "write" => writes = 0
      /\ mpc = "check" => row = "new" /\ table = "same"
      /\ Outside
  BY DEF WriteOnce, CompareModels, LastCheckpoint, TableKnown, MutationKnown, PositionKnown, Positions, Outside,
         rvars, pvars, tworld
<1>2. UNCHANGED <<table, moved, lease, ppc, rpc>>
  BY <1>1 DEF Outside
<1>3. /\ writes' \in {0, 1} /\ row' \in {"old", "new", "wrong"}
      /\ mpc # "write" => row' = row
  BY <1>1 DEF WriteOnce, CompareModels, LastCheckpoint, TableKnown, MutationTyped, PositionTyped, rvars, pvars, tworld
<1>4. SUFFICES MutationTyped' /\ MutationKnown' /\ mpc' # "seeking"
  BY <1>1, <1>3, OutsideKeeps DEF TableKnown
<1>5. ASSUME mpc' = "done", manswer' \subseteq TableMarks, UNCHANGED <<attempted, original>>,
             "unstarted" \in manswer' => writes' = 0, "ok" \in manswer' => mpc = "check"
      PROVE  MutationTyped' /\ MutationKnown' /\ mpc' # "seeking"
  BY <1>1, <1>2, <1>3, <1>5, ReachAnswer DEF TableKnown, MutationTyped
<1>6. CASE MutationThrows
  BY <1>1, <1>5, <1>6, MutationThrowMarks
<1>7. CASE MutationGoes("compare") /\ mpc = "write"
  BY <1>1, <1>2, <1>3, <1>7 DEF MutationGoes, TableKnown, MutationTyped, MutationKnown
<1>8. CASE MutationGoes("check") /\ mpc = "compare" /\ row = "new" /\ table = "same"
  BY <1>1, <1>2, <1>3, <1>8 DEF MutationGoes, TableKnown, MutationTyped, MutationKnown
<1>9. CASE MutationReturns({"ok"}) /\ mpc = "check"
  BY <1>5, <1>9 DEF MutationReturns, TableMarks
<1>10. CASE MutationReturns({"failed", "unknown", "maybe", "reconcile"})
  BY <1>5, <1>10 DEF MutationReturns, TableMarks
<1>11. CASE MutationReturns({"failed", "unstarted"}) /\ writes' = 0
  BY <1>5, <1>11 DEF MutationReturns, TableMarks
<1>12. QED
  BY <1>1, <1>6, <1>7, <1>8, <1>9, <1>10, <1>11 DEF WriteOnce, CompareModels, LastCheckpoint, RowsUntouched

(* Adding a row, and adding it again after a free row was sought.          *)
LEMMA AddKeeps ==
  ASSUME TableKnown, UNCHANGED op, op # "table_read", AddRow \/ AddAgain
  PROVE  TableKnown'
<1>1. /\ mpc \in {"add", "again"} /\ rpc \in {"idle", "done"} /\ lease # "open" /\ ppc = "idle" /\ writes = 0
      /\ mpc = "add" => rpc = "idle" /\ ~moved
      /\ ~attempted /\ Outside
  BY DEF AddRow, AddAgain, TableKnown, MutationKnown, PositionKnown, Positions, Outside
<1>2. UNCHANGED <<table, moved, lease, ppc, rpc>>
  BY <1>1 DEF Outside
<1>3. /\ row' \in {"old", "new", "wrong"} /\ writes' \in {0, 1} /\ mpc' # "seeking"
  <2>1. row' \in {"old", "new", "wrong"} /\ writes' \in {0, 1}
    BY <1>1 DEF AddRow, AddAgain, TableKnown, PositionTyped
  <2>2. mpc' # "seeking"
    BY DEF AddRow, AddAgain, MutationReturns
  <2>3. QED
    BY <2>1, <2>2
<1>4. SUFFICES MutationTyped' /\ MutationKnown'
  BY <1>1, <1>3, OutsideKeeps DEF TableKnown
<1>5. ASSUME NEW marks \in SUBSET TableMarks, MutationReturns(marks),
             "unstarted" \in marks => writes' = 0, "ok" \in marks => row' = "new"
      PROVE  MutationTyped' /\ MutationKnown'
  <2>1. mpc' = "done" /\ manswer' = marks /\ UNCHANGED <<attempted, original>>
    BY <1>5 DEF MutationReturns
  <2>2. MutationTyped'
    BY <1>3, <2>1 DEF TableKnown, MutationTyped
  <2>3. QED
    BY <1>1, <1>2, <1>5, <2>1, <2>2, ReachAnswer
<1>6. CASE row' = "new" /\ MutationReturns({"ok"})
  BY <1>5, <1>6 DEF TableMarks
<1>7. CASE UNCHANGED <<row, writes>> /\ MutationReturns({"failed", "unstarted"})
  BY <1>1, <1>5, <1>7 DEF TableMarks
<1>8. CASE MutationReturns({"failed", "unknown", "maybe"})
  BY <1>5, <1>8 DEF TableMarks
<1>9. CASE /\ mpc' = "addseek" /\ UNCHANGED <<manswer, attempted>> /\ mpc = "add"
           /\ \/ UNCHANGED <<row, writes>> /\ original' \in {{"failed", "unstarted"}, {"failed", "unstarted", "reconcile"}}
              \/ original' \in {{"failed", "unknown", "maybe"}, {"failed", "maybe"}}
  <2>1. original' \subseteq TableMarks /\ ("unstarted" \in original' => writes' = 0)
    BY <1>1, <1>9 DEF TableMarks
  <2>2. QED
    BY <1>1, <1>2, <1>3, <1>9, <2>1 DEF TableKnown, MutationTyped, MutationKnown
<1>10. QED
  BY <1>6, <1>7, <1>8, <1>9 DEF AddRow, AddAgain

(* What the answer of an addition says of the search for a free row.       *)
LEMMA AddCursorMarks ==
  ASSUME original \subseteq TableMarks, NEW cursor \in SUBSET TableMarks
  PROVE  /\ AddCursorFailure(cursor) \subseteq TableMarks /\ "ok" \notin AddCursorFailure(cursor)
         /\ "unstarted" \in AddCursorFailure(cursor) => "unstarted" \in original
         /\ "cleanup" \in cursor => "cleanup" \in AddCursorFailure(cursor)
BY DEF AddCursorFailure, TableMarks

(* The search for a free row begins and ends.                              *)
LEMMA FreeRowKeeps ==
  ASSUME TableKnown, UNCHANGED op, op # "table_read", SeekFreeRow \/ FreeRowSought
  PROVE  TableKnown'
<1>1. /\ mpc \in {"addseek", "adding"} /\ ppc = "idle" /\ ~attempted /\ UNCHANGED <<tworld, ppc, plocal>>
      /\ mpc = "addseek" => rpc = "idle" /\ ~moved /\ lease # "open" /\ ("unstarted" \in original => writes = 0)
      /\ mpc = "adding" => writes = 0 /\ rpc = "done"
      /\ mpc = "adding" /\ lease = "open" => "cleanup" \in ranswer
  <2>1. mpc \in {"addseek", "adding"} /\ UNCHANGED <<tworld, ppc, plocal>> /\ (mpc = "adding" => rpc = "done")
    BY DEF SeekFreeRow, FreeRowSought, rvars, pvars
  <2>2. QED
    BY <2>1 DEF TableKnown, MutationKnown, PositionKnown, Positions, ReadKnown
<1>2. UNCHANGED <<table, row, writes, moved, lease>>
  BY <1>1 DEF tworld
<1>3. ASSUME NEW cursor \in SUBSET TableMarks, MutationReturns(AddCursorFailure(cursor)),
             UNCHANGED <<seek, rpc, rlocal, ranswer>>, lease = "open" => "cleanup" \in cursor
      PROVE  TableKnown'
  <2>1. Outside /\ mpc' = "done" /\ UNCHANGED <<attempted, original>>
    BY <1>1, <1>2, <1>3 DEF Outside, MutationReturns
  <2>2. PositionTyped' /\ PositionFlags' /\ PositionKnown' /\ ReadTyped' /\ ReadKnown'
    BY <1>1, <1>2, <2>1, OutsideKeeps DEF TableKnown, PositionTyped
  <2>3. /\ manswer' \subseteq TableMarks /\ "ok" \notin manswer'
        /\ "unstarted" \in manswer' => "unstarted" \in original
        /\ "cleanup" \in cursor => "cleanup" \in manswer'
    BY <1>3, AddCursorMarks DEF MutationReturns, TableKnown, MutationTyped
  <2>4. MutationTyped'
    BY <1>2, <2>1, <2>3 DEF TableKnown, MutationTyped
  <2>5. MutationKnown'
    BY <1>1, <1>2, <1>3, <2>1, <2>3, ReachAnswer
  <2>6. QED
    BY <2>2, <2>4, <2>5 DEF TableKnown
<1>4. CASE NothingWasAdded /\ ReadCalled(TRUE) /\ MutationGoes("adding") /\ mpc = "addseek"
  <2>1. "unstarted" \in original
    BY <1>4 DEF NothingWasAdded
  <2>2. /\ seek' = TRUE /\ rpc' = "prebind" /\ sent' = 0 /\ consumed' = FALSE /\ reported' = FALSE
        /\ active' = FALSE /\ ranswer' = {}
        /\ mpc' = "adding" /\ UNCHANGED <<manswer, attempted, original>>
    BY <1>4 DEF ReadCalled, MutationGoes
  <2>3. PositionTyped' /\ PositionFlags'
    BY <1>1, <1>2 DEF TableKnown, PositionTyped, PositionFlags, plocal
  <2>4. PositionKnown'
    BY <1>1, <2>2, OnRoute
  <2>5. ReadTyped'
    <3>1. sent' \in 0 .. TableRows
      BY <2>2, TableRowsAssumption
    <3>2. QED
      BY <2>2, <3>1 DEF ReadTyped
  <2>6. ReadKnown'
    BY <1>1, <1>2, <1>4, <2>2 DEF ReadKnown
  <2>7. MutationTyped' /\ MutationKnown'
    BY <1>1, <1>2, <1>4, <2>1, <2>2 DEF TableKnown, MutationTyped, MutationKnown
  <2>8. QED
    BY <2>3, <2>4, <2>5, <2>6, <2>7 DEF TableKnown
<1>5. CASE /\ mpc = "addseek" /\ UNCHANGED <<seek, rpc, rlocal, ranswer>>
           /\ \/ MutationReturns(AddCursorFailure(If("unstarted" \notin original, {"unknown"})))
              \/ MutationReturns(AddCursorFailure({}))
  <2>1. If("unstarted" \notin original, {"unknown"}) \in SUBSET TableMarks
    BY DEF If, TableMarks
  <2>2. CASE MutationReturns(AddCursorFailure(If("unstarted" \notin original, {"unknown"})))
    BY <1>1, <1>3, <1>5, <2>1, <2>2
  <2>3. CASE MutationReturns(AddCursorFailure({}))
    BY <1>1, <1>3, <1>5, <2>3
  <2>4. QED
    BY <1>5, <2>2, <2>3
<1>6. CASE FreeRowSought
  <2>1. mpc = "adding" /\ rpc = "done" /\ UNCHANGED rvars
    BY <1>6 DEF FreeRowSought
  <2>2. UNCHANGED <<seek, rpc, rlocal, ranswer>>
    BY <2>1 DEF rvars
  <2>3. CASE ranswer = {"ok"} /\ MutationGoes("again")
    <3>1. Outside /\ mpc' = "again" /\ lease # "open" /\ UNCHANGED <<manswer, attempted, original>>
      BY <1>1, <1>2, <2>1, <2>2, <2>3 DEF Outside, MutationGoes
    <3>2. PositionTyped' /\ PositionFlags' /\ PositionKnown' /\ ReadTyped' /\ ReadKnown'
      BY <1>1, <1>2, <2>1, <3>1, OutsideKeeps DEF TableKnown, PositionTyped
    <3>3. MutationTyped' /\ MutationKnown'
      BY <1>1, <1>2, <2>1, <2>2, <3>1 DEF TableKnown, MutationTyped, MutationKnown
    <3>4. QED
      BY <3>2, <3>3 DEF TableKnown
  <2>4. CASE ranswer = {"ok"} /\ MutationReturns(AddCursorFailure({}))
    BY <1>1, <1>3, <2>1, <2>2, <2>4
  <2>5. CASE MutationReturns(AddCursorFailure(ranswer))
    BY <1>1, <1>3, <2>1, <2>2, <2>5 DEF TableKnown, ReadTyped
  <2>6. QED
    BY <1>6, <2>3, <2>4, <2>5 DEF FreeRowSought
<1>7. QED
  <2>1. CASE SeekFreeRow
    BY <1>4, <1>5, <2>1, Zenon DEF SeekFreeRow
  <2>2. QED
    BY <1>6, <2>1

(* A reading that has begun is never as before it.                         *)
LEMMA ReadGoesOn ==
  ASSUME ReadStep
  PROVE  rpc' # "idle"
<1>1. CASE Prebind \/ ChooseRoute \/ SeekReturns \/ BootstrapReturns \/ Settle
  BY <1>1 DEF Prebind, ChooseRoute, Routes, SeekReturns, BootstrapReturns, Settle, ReadReturns, ReadThrows
<1>2. CASE StepAcquire \/ FocusAcquire
  BY <1>2 DEF StepAcquire, FocusAcquire, RouteAcquire, ReadReturns
<1>3. CASE StepFocus \/ StepKey \/ StepLast \/ StepRelease
  BY <1>3 DEF StepFocus, StepKey, StepLast, StepRelease, StepThrows, ReadReturns
<1>4. CASE FocusRoute \/ FocusResume \/ FocusLast \/ FocusRelease
  BY <1>4 DEF FocusRoute, FocusResume, FocusLast, FocusRelease, FocusThrows, ReadReturns
<1>5. CASE Activate \/ WalkActivated
  BY <1>5 DEF Activate, WalkActivated, ReadReturns, ReadThrows
<1>6. CASE rpc \in {"seeking", "bootstrap"} /\ UNCHANGED rpc
  BY <1>6
<1>7. QED
  BY <1>1, <1>2, <1>3, <1>4, <1>5, <1>6 DEF ReadStep

(* The steps of the move and of the search.                                *)
LEMMA NestedKeeps ==
  ASSUME TableKnown, UNCHANGED <<op, mpc, attempted, original, manswer>>,
         \/ mpc = "seeking" /\ PositionStep /\ UNCHANGED <<seek, rpc, rlocal, ranswer>>
         \/ mpc \in {"idle", "adding"} /\ ReadStep
  PROVE  TableKnown'
<1>1. /\ PositionTyped' /\ PositionFlags' /\ PositionKnown' /\ ReadTyped' /\ ReadKnown'
      /\ UNCHANGED <<table, row, writes>>
      /\ mpc = "seeking" => UNCHANGED rpc
  <2>1. CASE mpc = "seeking" /\ PositionStep /\ UNCHANGED <<seek, rpc, rlocal, ranswer>>
    <3>1. /\ PositionTyped' /\ PositionFlags' /\ PositionKnown'
          /\ UNCHANGED <<table, row, writes>>
      BY <2>1, MoveKeeps DEF TableKnown, Positions
    <3>2. ReadTyped'
      BY <2>1 DEF TableKnown, ReadTyped, rlocal
    <3>3. rpc = "idle"
      BY <2>1 DEF TableKnown, MutationKnown
    <3>4. ReadKnown'
      BY <2>1, <3>3 DEF ReadKnown
    <3>5. QED
      BY <2>1, <3>1, <3>2, <3>4
  <2>2. CASE mpc \in {"idle", "adding"} /\ ReadStep
    BY <2>2, ReadKeeps DEF TableKnown
  <2>3. QED
    BY <2>1, <2>2
<1>2. mpc \in {"idle", "adding"} => rpc' # "idle"
  BY <1>1, ReadGoesOn DEF TableKnown
<1>3. MutationTyped' /\ MutationKnown'
  BY <1>1, <1>2 DEF TableKnown, MutationTyped, MutationKnown
<1>4. QED
  BY <1>1, <1>3 DEF TableKnown

(* A person at the program: only the other rows change, and never between  *)
(* the comparison of the rows and the answer.                              *)
LEMMA DisturbedKeeps ==
  ASSUME TableKnown, UNCHANGED op, TableDisturbed
  PROVE  TableKnown'
<1>1. /\ table' = "touched" /\ mpc \notin {"check", "done"}
      /\ UNCHANGED <<row, writes, moved, lease, ppc, plocal, seek, rpc, rlocal, ranswer, mpc, attempted, original, manswer>>
  BY DEF TableDisturbed, Touch
<1>2. PositionTyped' /\ PositionFlags'
  BY <1>1 DEF TableKnown, PositionTyped, PositionFlags, plocal
<1>3. PositionKnown'
  BY <1>1 DEF TableKnown, PositionKnown, Positions, plocal
<1>4. ReadTyped' /\ ReadKnown'
  BY <1>1 DEF TableKnown, ReadTyped, ReadKnown, rlocal, plocal
<1>5. MutationTyped' /\ MutationKnown'
  BY <1>1 DEF TableKnown, MutationTyped, MutationKnown
<1>6. QED
  BY <1>2, <1>3, <1>4, <1>5 DEF TableKnown

(* The first step of a reading on its own.                                 *)
LEMMA ReadStarts ==
  ASSUME TableKnown, UNCHANGED op, mpc = "idle", rpc = "idle", ReadCalled(FALSE),
         UNCHANGED <<tworld, ppc, plocal, mpc, attempted, original, manswer>>
  PROVE  TableKnown'
<1>1. /\ seek' = FALSE /\ rpc' = "prebind" /\ sent' = 0 /\ consumed' = FALSE /\ reported' = FALSE
      /\ active' = FALSE /\ ranswer' = {} /\ UNCHANGED <<table, row, writes, moved, lease>>
  BY DEF ReadCalled, tworld
<1>2. ~moved /\ lease # "open" /\ ppc = "idle"
  BY DEF TableKnown, MutationKnown, PositionKnown, Positions
<1>3. PositionTyped' /\ PositionFlags'
  BY <1>1 DEF TableKnown, PositionTyped, PositionFlags, plocal
<1>4. PositionKnown'
  BY <1>1, <1>2, OnRoute
<1>5. ReadTyped'
  <2>1. sent' \in 0 .. TableRows
    BY <1>1, TableRowsAssumption
  <2>2. QED
    BY <1>1, <2>1 DEF ReadTyped
<1>6. ReadKnown'
  BY <1>1, <1>2 DEF ReadKnown
<1>7. MutationTyped' /\ MutationKnown'
  BY <1>1 DEF TableKnown, MutationTyped, MutationKnown
<1>8. QED
  BY <1>3, <1>4, <1>5, <1>6, <1>7 DEF TableKnown

(* Every step of every operation keeps it.                                 *)
LEMMA TableStep ==
  ASSUME TableKnown, [OperationsNext]_opvars
  PROVE  TableKnown'
<1>1. CASE UNCHANGED <<op, mvars>>
  <2>1. /\ UNCHANGED <<op, table, row, writes, moved, lease, ppc, plocal, seek, rpc, rlocal, ranswer>>
        /\ UNCHANGED <<mpc, attempted, original, manswer>>
    BY <1>1 DEF mvars, rvars, pvars, tworld
  <2>2. PositionTyped' /\ PositionFlags'
    BY <2>1 DEF TableKnown, PositionTyped, PositionFlags, plocal
  <2>3. PositionKnown'
    BY <2>1 DEF TableKnown, PositionKnown, Positions, plocal
  <2>4. ReadTyped' /\ ReadKnown'
    BY <2>1 DEF TableKnown, ReadTyped, ReadKnown, rlocal, plocal
  <2>5. MutationTyped' /\ MutationKnown'
    BY <2>1 DEF TableKnown, MutationTyped, MutationKnown
  <2>6. QED
    BY <2>2, <2>3, <2>4, <2>5 DEF TableKnown
<1>2. CASE op = "table_read" /\ TableRead /\ UNCHANGED op
  <2>1. mpc = "idle"
    BY <1>2 DEF TableKnown, MutationKnown
  <2>2. CASE rpc = "idle" /\ ReadCalled(FALSE) /\ UNCHANGED <<tworld, ppc, plocal, mpc, attempted, original, manswer>>
    BY <1>2, <2>1, <2>2, ReadStarts
  <2>3. CASE ReadStep /\ UNCHANGED <<mpc, attempted, original, manswer>>
    BY <1>2, <2>1, <2>3, NestedKeeps
  <2>4. CASE TableDisturbed
    BY <1>2, <2>4, DisturbedKeeps
  <2>5. QED
    BY <1>2, <2>2, <2>3, <2>4, Zenon DEF TableRead
<1>3. CASE op # "table_read" /\ TableChange /\ UNCHANGED op
  <2>1. CASE ReserveBudget \/ ProveTarget \/ TargetFound \/ ReadBackTarget
    BY <1>3, <2>1, ChangeBegins
  <2>2. CASE SeekTarget
    BY <1>3, <2>2, SeekKeeps
  <2>3. CASE WriteOnce \/ CompareModels \/ LastCheckpoint
    BY <1>3, <2>3, WriteKeeps
  <2>4. CASE AddRow \/ AddAgain
    BY <1>3, <2>4, AddKeeps
  <2>5. CASE SeekFreeRow \/ FreeRowSought
    BY <1>3, <2>5, FreeRowKeeps
  <2>6. CASE /\ mpc = "seeking" /\ PositionStep
             /\ UNCHANGED <<seek, rpc, rlocal, ranswer, mpc, attempted, original, manswer>>
    BY <1>3, <2>6, NestedKeeps
  <2>7. CASE mpc = "adding" /\ ReadStep /\ UNCHANGED <<mpc, attempted, original, manswer>>
    BY <1>3, <2>7, NestedKeeps
  <2>8. CASE TableDisturbed
    BY <1>3, <2>8, DisturbedKeeps
  <2>9. QED
    BY <1>3, <2>1, <2>2, <2>3, <2>4, <2>5, <2>6, <2>7, <2>8 DEF TableChange, MutationStep
<1>4. QED
  BY <1>1, <1>2, <1>3 DEF OperationsNext, opvars

(* It holds at the start.                                                  *)
LEMMA TablesStart ==
  ASSUME OperationsInit
  PROVE  TableKnown
<1>1. /\ table = "same" /\ row = "old" /\ writes = 0 /\ moved = FALSE /\ lease = "none" /\ ppc = "idle"
      /\ held = FALSE /\ unsure = FALSE /\ submitted = FALSE /\ positioned = FALSE /\ quiescent = TRUE
      /\ noop = FALSE /\ editor = FALSE /\ pres = {}
      /\ seek = FALSE /\ rpc = "idle" /\ sent = 0 /\ consumed = FALSE /\ reported = FALSE
      /\ active = FALSE /\ ranswer = {}
      /\ attempted = FALSE /\ original = {} /\ manswer = {}
      /\ mpc = CASE op = "table_update" -> "reserve" [] op = "table_add" -> "add" [] OTHER -> "idle"
  BY DEF OperationsInit, MutationInit, ReadInit, PositionInit
<1>2. mpc \in {"reserve", "add", "idle"} /\ (op = "table_read" => mpc = "idle")
  BY <1>1
<1>3. PositionTyped /\ PositionFlags /\ PositionKnown
  BY <1>1, <1>2 DEF PositionTyped, PositionFlags, PositionKnown, Positions
<1>4. ReadTyped /\ ReadKnown
  <2>1. sent \in 0 .. TableRows
    BY <1>1, TableRowsAssumption
  <2>2. QED
    BY <1>1, <2>1 DEF ReadTyped, ReadKnown
<1>5. MutationTyped /\ MutationKnown
  BY <1>1, <1>2 DEF MutationTyped, MutationKnown
<1>6. QED
  BY <1>3, <1>4, <1>5 DEF TableKnown

(* A table is written at most once, nothing was started is said only of a  *)
(* table nobody wrote, ok only of the wanted row, a cursor that moved is   *)
(* an unknown outcome after a failure, and a lease is given back or named  *)
(* (table-cursor-mutation.ts:131-218, table-add-seek.ts:17-42,             *)
(* table-cursor-position.ts:182-196, table-cursor-step.ts:163-183).        *)
THEOREM TableAnswersAlwaysTrue == OperationsSpec => []TableAnswersAreTrue
<1>1. TableKnown => TableAnswersAreTrue
  <2> SUFFICES ASSUME TableKnown PROVE TableAnswersAreTrue
    OBVIOUS
  <2>1. /\ writes \in 0 .. 2 /\ writes <= 1
        /\ {held, unsure, submitted, positioned, quiescent, noop, editor} \subseteq BOOLEAN
        /\ {consumed, reported, active} \subseteq BOOLEAN
    BY DEF TableKnown, MutationTyped, PositionFlags, ReadTyped
  <2>2. PositionTypeOK
    BY <2>1 DEF TableKnown, PositionTyped, PositionFlags, PositionTypeOK
  <2>3. ReadTypeOK
    BY <2>1, <2>2 DEF TableKnown, ReadTyped, ReadTypeOK
  <2>4. MutationTypeOK
    BY <2>3 DEF TableKnown, MutationTyped, MutationTypeOK
  <2>5. TableAnswerIsTrue /\ LeaseAccounted
    BY <2>1 DEF TableKnown, ReadKnown, MutationKnown, TableAnswerIsTrue, LeaseAccounted
  <2>6. QED
    BY <2>4, <2>5 DEF TableAnswersAreTrue
<1>2. QED
  BY <1>1, TablesStart, TableStep, PTL DEF OperationsSpec

-----------------------------------------------------------------------------
(* A set of natural numbers has a least member.                            *)
LEMMA LeastMember ==
  ASSUME NEW T \in SUBSET Nat, T # {}
  PROVE  \E m \in T : \A k \in T : m <= k
<1>1. PICK m \in T : \A k \in T : <<k, m>> \notin OpToRel(<, Nat)
  BY WFMin, NatLessThanWellFounded, Zenon
<1>2. \A k \in T : ~(k < m)
  BY <1>1, Zenon DEF OpToRel
<1>3. \A k \in T : m <= k
  BY <1>2
<1>4. QED
  BY <1>3

-----------------------------------------------------------------------------
(* Scenarios: what the steps of a phase ask for.                           *)

(* The fold over a set of places, as the library computes it.              *)
Asks(seq, s, f) ==
  f = [t \in SUBSET s |-> IF t = {} THEN 0 ELSE f[t \ {Max(t)}] + Requested(seq[Max(t)])]

(* The units that steps ask for together.                                  *)
Fold(seq) == FoldLeft(LAMBDA sum, step : sum + Requested(step), 0, seq)

(* The library's fold is the value of a function that satisfies Asks.      *)
LEMMA FoldIs ==
  ASSUME NEW seq
  PROVE  Fold(seq) = (CHOOSE f : Asks(seq, DOMAIN seq, f))[DOMAIN seq]
  BY DEF Fold, FoldLeft, MapThenFoldSet, Asks

(* A step asks for at least one unit.                                      *)
LEMMA EveryStepAsks ==
  ASSUME NEW step \in ScenarioStep
  PROVE  Requested(step) \in Nat /\ Requested(step) >= 1
BY DEF ScenarioStep, Requested

(* There is such a function for every number of steps: the least number    *)
(* without one would not be zero, and would have one by its predecessor's. *)
LEMMA AsksExists ==
  ASSUME NEW seq, NEW n \in Nat
  PROVE  \E f : Asks(seq, 1 .. n, f)
<1> DEFINE T == {m \in Nat : ~\E f : Asks(seq, 1 .. m, f)}
<1>1. SUFFICES T = {}
  BY <1>1
<1>2. SUFFICES ASSUME T # {} PROVE FALSE
  BY <1>2
<1>3. PICK m \in T : \A k \in T : m <= k
  <2> HIDE DEF T
  <2>1. T \in SUBSET Nat
    BY DEF T
  <2>2. QED
    BY <1>2, <2>1, LeastMember
<1>4. CASE m = 0
  <2> DEFINE f == [t \in SUBSET {} |-> 0]
  <2>1. f = [t \in SUBSET {} |-> IF t = {} THEN 0 ELSE f[t \ {Max(t)}] + Requested(seq[Max(t)])]
    OBVIOUS
  <2>2. 1 .. m = {}
    BY <1>4
  <2>3. Asks(seq, 1 .. m, f)
    BY <2>1, <2>2 DEF Asks
  <2>4. QED
    BY <2>3
<1>5. CASE m # 0
  <2>1. m - 1 \in Nat /\ m - 1 \notin T
    BY <1>3, <1>5
  <2>2. PICK g : Asks(seq, 1 .. (m - 1), g)
    BY <2>1
  <2> DEFINE f == [t \in SUBSET (1 .. m) |-> IF m \in t THEN g[t \ {m}] + Requested(seq[m]) ELSE g[t]]
             A(t) == IF t = {} THEN 0 ELSE f[t \ {Max(t)}] + Requested(seq[Max(t)])
  <2>3. ASSUME NEW t \in SUBSET (1 .. m), m \notin t PROVE f[t] = A(t)
    <3>1. t \in SUBSET (1 .. (m - 1))
      BY <2>1, <2>3
    <3>2. g[t] = IF t = {} THEN 0 ELSE g[t \ {Max(t)}] + Requested(seq[Max(t)])
      BY <2>2, <3>1 DEF Asks
    <3>3. f[t] = g[t]
      BY <2>3
    <3>4. f[t \ {Max(t)}] = g[t \ {Max(t)}]
      BY <2>3
    <3>5. QED
      BY <3>2, <3>3, <3>4
  <2>4. ASSUME NEW t \in SUBSET (1 .. m), m \in t PROVE f[t] = A(t)
    <3>1. Max(t) = m
      <4>1. \A y \in t : m >= y
        BY <2>4
      <4>2. \A x \in t : (\A y \in t : x >= y) => x = m
        BY <2>4
      <4>3. QED
        BY <2>4, <4>1, <4>2 DEF Max
    <3>2. f[t] = g[t \ {m}] + Requested(seq[m])
      BY <2>4
    <3>3. f[t \ {m}] = g[t \ {m}]
      BY <2>4
    <3>4. QED
      BY <2>4, <3>1, <3>2, <3>3
  <2>5. f = [t \in SUBSET (1 .. m) |-> A(t)]
    <3>1. \A t \in SUBSET (1 .. m) : f[t] = A(t)
      BY <2>3, <2>4
    <3> HIDE DEF A
    <3>2. QED
      BY <3>1
  <2>6. Asks(seq, 1 .. m, f)
    BY <2>5 DEF Asks
  <2>7. QED
    BY <2>6
<1>6. QED
  BY <1>4, <1>5

(* It gives at least one unit for every step.                              *)
LEMMA AsksAll ==
  ASSUME NEW seq \in Seq(ScenarioStep), NEW f, Asks(seq, 1 .. Len(seq), f)
  PROVE  f[1 .. Len(seq)] \in Nat /\ f[1 .. Len(seq)] >= Len(seq)
<1> DEFINE T == {m \in 0 .. Len(seq) : ~(f[1 .. m] \in Nat /\ f[1 .. m] >= m)}
<1>1. Len(seq) \in Nat
  OBVIOUS
<1>2. SUFFICES T = {}
  BY <1>1
<1>3. SUFFICES ASSUME T # {} PROVE FALSE
  OBVIOUS
<1>4. PICK m \in T : \A k \in T : m <= k
  <2> HIDE DEF T
  <2>1. T \in SUBSET Nat
    BY DEF T
  <2>2. QED
    BY <1>3, <2>1, LeastMember
<1>5. CASE m = 0
  <2>1. 1 .. m = {} /\ {} \in SUBSET (1 .. Len(seq))
    BY <1>5
  <2>2. f[{}] = 0
    BY <2>1 DEF Asks
  <2>3. QED
    BY <1>4, <1>5, <2>1, <2>2
<1>6. CASE m # 0
  <2>1. m - 1 \in 0 .. Len(seq) /\ m - 1 \notin T /\ m \in 1 .. Len(seq)
    BY <1>1, <1>4, <1>6
  <2>2. f[1 .. (m - 1)] \in Nat /\ f[1 .. (m - 1)] >= m - 1
    BY <2>1
  <2>3. Max(1 .. m) = m
    <3>1. m \in 1 .. m /\ \A y \in 1 .. m : m >= y
      BY <2>1
    <3>2. \A x \in 1 .. m : (\A y \in 1 .. m : x >= y) => x = m
      BY <2>1
    <3>3. QED
      BY <3>1, <3>2 DEF Max
  <2>4. (1 .. m) \ {m} = 1 .. (m - 1) /\ 1 .. m # {} /\ 1 .. m \in SUBSET (1 .. Len(seq))
    BY <2>1
  <2>5. f[1 .. m] = f[1 .. (m - 1)] + Requested(seq[m])
    BY <2>3, <2>4 DEF Asks
  <2>6. Requested(seq[m]) \in Nat /\ Requested(seq[m]) >= 1
    <3>1. seq[m] \in ScenarioStep
      BY <2>1
    <3>2. QED
      BY <3>1, EveryStepAsks
  <2>7. f[1 .. m] \in Nat /\ f[1 .. m] >= m
    BY <1>1, <2>1, <2>2, <2>5, <2>6
  <2>8. QED
    BY <1>4, <2>7
<1>7. QED
  BY <1>5, <1>6

(* So the steps of a phase ask for at least their number of units          *)
(* (requestedCleanupSeconds).                                              *)
LEMMA CleanupAsks ==
  ASSUME NEW seq \in Seq(ScenarioStep)
  PROVE  Fold(seq) \in Nat /\ Fold(seq) >= Len(seq)
<1>1. DOMAIN seq = 1 .. Len(seq) /\ Len(seq) \in Nat
  OBVIOUS
<1> DEFINE g == CHOOSE f : Asks(seq, DOMAIN seq, f)
<1>2. Asks(seq, 1 .. Len(seq), g)
  BY <1>1, AsksExists
<1>3. QED
  BY <1>1, <1>2, AsksAll, FoldIs

-----------------------------------------------------------------------------
(* What a step can have ended with, and what was sent.                     *)
StepOutcomes == {"ok", "failed", "threw", "aborted", "timeout", "input"}
ScnPlaces == [phase: {"main", "finally"}, place: Nat]

(* The scenario, its clock and what it has done so far have their types.   *)
ScnTyped ==
  /\ scn.main \in Seq(ScenarioStep) /\ scn.finally \in Seq(ScenarioStep)
  /\ scn.main # << >> /\ Len(scn.finally) <= 100
  /\ spc \in {"run", "main", "finally", "fallback", "done"}
  /\ elapsed \in Nat /\ left \in BOOLEAN /\ overran \in BOOLEAN
  /\ steps \in Seq(StepOutcomes) /\ cleanup \in Seq(StepOutcomes) /\ executed \in Seq(ScnPlaces)
  /\ prior \subseteq DOMAIN scn.main
  /\ target \in {"none", "foreign", "report"} /\ fallback \in {"none", "note"}
  /\ large \in BOOLEAN /\ faults \in BOOLEAN

(* What the cleanup steps ask for, a minute at most.                       *)
LEMMA RequestedIs == RequestedCleanup = MinOf(300, Fold(scn.finally))
BY DEF RequestedCleanup, Fold

(* The reserve is a number of units that leaves one, and if a third of the *)
(* time is enough it holds one for every cleanup step.                     *)
LEMMA ReserveKnown ==
  ASSUME ScnTyped
  PROVE  /\ CleanupReserve \in Nat /\ MainDeadline \in Nat
         /\ TotalBudget \div 3 >= Len(scn.finally) => CleanupReserve >= Len(scn.finally)
<1>1. RequestedCleanup = MinOf(300, Fold(scn.finally))
  BY RequestedIs
<1>2. Fold(scn.finally) \in Nat /\ Fold(scn.finally) >= Len(scn.finally)
  BY CleanupAsks DEF ScnTyped
<1>3. Len(scn.finally) \in Nat /\ Len(scn.finally) <= 100
  BY DEF ScnTyped
<1>4. RequestedCleanup \in Nat /\ RequestedCleanup >= Len(scn.finally)
  BY <1>1, <1>2, <1>3 DEF MinOf
<1>5. /\ TotalBudget \in Nat /\ TotalBudget >= 1 /\ TotalBudget \div 3 \in Nat
      /\ TotalBudget \div 3 <= TotalBudget - 1
  BY ScenarioAssumption
<1>6. QED
  BY <1>3, <1>4, <1>5 DEF CleanupReserve, MainDeadline, MinOf

(* What a main step does: it has one outcome, ok only if it was sent; and  *)
(* a call that keeps its time keeps the deadline of the main part.         *)
LEMMA MainStepEffect ==
  ASSUME ScnTyped, MainStep, Len(steps) < Len(scn.main)
  PROVE  /\ UNCHANGED <<scn, cleanup, target, fallback, large, faults, sanswer>>
         /\ spc = "main" /\ elapsed' \in Nat /\ left' \in BOOLEAN /\ overran' \in BOOLEAN
         /\ overran => overran'
         /\ ~overran' => elapsed' = elapsed \/ elapsed' <= MainDeadline
         /\ prior' \in {prior, prior \cup {Len(steps) + 1}}
         /\ \E r \in StepOutcomes :
              /\ steps' = Append(steps, r)
              /\ spc' = IF Len(steps) + 1 < Len(scn.main) /\ GoesOn(r, scn.main[Len(steps) + 1])
                        THEN "main" ELSE "finally"
              /\ \/ executed' = executed /\ r # "ok"
                 \/ executed' = Append(executed, Place("main", Len(steps) + 1))
<1> DEFINE i == Len(steps) + 1
           step == scn.main[i]
           time == MinOf(IF step.timeout = 0 THEN MainDeadline - elapsed ELSE step.timeout,
                         MainDeadline - elapsed)
<1>1. /\ i \in 1 .. Len(scn.main) /\ step \in ScenarioStep /\ step.timeout \in Nat
      /\ MainDeadline \in Nat /\ elapsed \in Nat /\ left \in BOOLEAN /\ overran \in BOOLEAN
      /\ steps \in Seq(StepOutcomes)
  <2>1. MainDeadline \in Nat
    BY ReserveKnown
  <2>2. scn.main \in Seq(ScenarioStep) /\ steps \in Seq(StepOutcomes) /\ i \in 1 .. Len(scn.main)
    BY DEF ScnTyped
  <2>3. step \in ScenarioStep
    BY <2>2
  <2>4. step.timeout \in Nat
    BY <2>3 DEF ScenarioStep
  <2>5. elapsed \in Nat /\ left \in BOOLEAN /\ overran \in BOOLEAN
    BY DEF ScnTyped
  <2>6. QED
    BY <2>1, <2>2, <2>3, <2>4, <2>5
<1>2. /\ UNCHANGED <<scn, cleanup, target, fallback, large, faults, sanswer>> /\ spc = "main"
      /\ spc' = IF i < Len(scn.main) /\ GoesOn(Last(steps'), step) THEN "main" ELSE "finally"
      /\ ExecuteScenarioStep("main", i, step, step.timeout, MainDeadline, TRUE, steps)
  BY DEF MainStep
<1>3. ASSUME NEW r \in StepOutcomes, steps' = Append(steps, r)
      PROVE  Last(steps') = r
  BY <1>1, <1>3 DEF Last
<1>4. CASE NotExecuted("main", i, step, MainDeadline, TRUE, steps)
  <2> DEFINE r == IF TRUE /\ left THEN "aborted"
                  ELSE IF MainDeadline - elapsed < 1 THEN "timeout" ELSE "input"
  <2>1. steps' = Append(steps, r) /\ UNCHANGED <<elapsed, executed, prior, overran, left>>
    BY <1>4 DEF NotExecuted
  <2>2. r \in StepOutcomes /\ r # "ok"
    BY DEF StepOutcomes
  <2> HIDE DEF r
  <2>3. Last(steps') = r
    BY <1>3, <2>1, <2>2
  <2>4. QED
    BY <1>1, <1>2, <2>1, <2>2, <2>3
<1>5. CASE MainDeadline - elapsed >= 1 /\ Returns("main", i, step, time, MainDeadline, TRUE, steps)
  <2>1. time \in Nat /\ time <= MainDeadline - elapsed
    BY <1>1, <1>5 DEF MinOf
  <2> HIDE DEF time
  <2>2. PICK taken \in {0, time, time + Overrun}, ended \in {"ok", "failed", "threw"}, stops \in BOOLEAN :
          /\ elapsed' = elapsed + taken
          /\ overran' = (overran \/ taken > time)
          /\ left' = (left \/ stops)
          /\ executed' = Append(executed, Place("main", i))
          /\ prior' = IF ended = "threw" \/ "main" = "finally" THEN prior ELSE prior \cup {i}
          /\ steps' = Append(steps,
               IF ended = "threw" THEN "threw"
               ELSE IF TRUE /\ left' THEN "aborted"
               ELSE IF elapsed' > MainDeadline THEN "timeout"
               ELSE ended)
    BY <1>5 DEF Returns
  <2> DEFINE r == IF ended = "threw" THEN "threw"
                  ELSE IF TRUE /\ left' THEN "aborted"
                  ELSE IF elapsed' > MainDeadline THEN "timeout" ELSE ended
  <2>3. r \in StepOutcomes
    BY DEF StepOutcomes
  <2>4. steps' = Append(steps, r)
    BY <2>2
  <2> HIDE DEF r
  <2>5. Last(steps') = r
    BY <1>3, <2>3, <2>4
  <2>6. elapsed' \in Nat /\ (taken > time \/ elapsed' <= MainDeadline)
    BY <1>1, <2>1, <2>2, ScenarioAssumption
  <2>7. left' \in BOOLEAN /\ overran' \in BOOLEAN /\ (overran => overran')
    BY <1>1, <2>2
  <2>8. ~overran' => elapsed' <= MainDeadline
    BY <2>2, <2>6
  <2>9. QED
    BY <1>2, <2>2, <2>3, <2>4, <2>5, <2>6, <2>7, <2>8
<1>6. MainDeadline - elapsed < 1 \/ MainDeadline - elapsed >= 1
  BY <1>1
<1>7. QED
  BY <1>2, <1>4, <1>5, <1>6 DEF ExecuteScenarioStep

(* Of R units that are left for n steps, one takes at most so many that    *)
(* one is left for each of the others.                                     *)
LEMMA FairShare ==
  ASSUME NEW R \in Nat, NEW n \in Nat \ {0}, R >= n
  PROVE  R \div n \in Nat /\ R \div n >= 1 /\ R - (R \div n) >= n - 1
<1> DEFINE s == R \div n  r == R % n
<1>1. R = n * s + r /\ 0 <= r /\ r < n /\ s \in Nat /\ r \in Nat
  OBVIOUS
<1> HIDE DEF s, r
<1>2. s >= 1
  <2>1. CASE s = 0
    <3>1. n * s = 0
      BY <2>1
    <3>2. QED
      BY <1>1, <3>1
  <2>2. QED
    BY <1>1, <2>1
<1>3. n * s >= s + n - 1
  <2>1. (n - 1) * (s - 1) >= 0
    BY <1>1, <1>2
  <2>2. (n - 1) * (s - 1) = n * s - n - s + 1
    BY <1>1
  <2>3. QED
    BY <1>1, <2>1, <2>2
<1>4. R - s >= n - 1
  <2>1. n * s \in Nat
    BY <1>1
  <2>2. QED
    BY <1>1, <1>3, <2>1
<1>5. QED
  BY <1>1, <1>2, <1>4 DEF s

(* What a cleanup step does: it has one outcome, and if nothing asks for   *)
(* more than its share, it has its time and leaves the others theirs.      *)
LEMMA CleanupStepEffect ==
  ASSUME ScnTyped, CleanupStep
  PROVE  /\ UNCHANGED <<scn, spc, steps, target, fallback, large, faults, sanswer>>
         /\ spc = "finally" /\ Len(cleanup) < Len(scn.finally)
         /\ elapsed' \in Nat /\ left' \in BOOLEAN /\ overran' \in BOOLEAN
         /\ overran => overran'
         /\ prior' = prior
         /\ \E r \in StepOutcomes :
              /\ cleanup' = Append(cleanup, r)
              /\ \/ executed' = executed /\ r # "ok"
                 \/ executed' = Append(executed, Place("finally", Len(cleanup) + 1))
              /\ (/\ ~overran' /\ scn.finally[Len(cleanup) + 1].timeout = 0
                  /\ TotalBudget - elapsed >= Len(scn.finally) - Len(cleanup))
                 => /\ r \notin {"timeout", "aborted"}
                    /\ TotalBudget - elapsed' >= Len(scn.finally) - (Len(cleanup) + 1)
<1> DEFINE i == Len(cleanup) + 1
           step == scn.finally[i]
           given == IF step.timeout = 0 THEN Share(i) ELSE step.timeout
           time == MinOf(IF given = 0 THEN TotalBudget - elapsed ELSE given, TotalBudget - elapsed)
           n == Len(scn.finally) - Len(cleanup)
           Fair == /\ ~overran' /\ step.timeout = 0
                   /\ TotalBudget - elapsed >= n
<1>1. /\ UNCHANGED <<scn, spc, steps, target, fallback, large, faults, sanswer>>
      /\ spc = "finally" /\ Len(cleanup) < Len(scn.finally)
      /\ ExecuteScenarioStep("finally", i, step, given, TotalBudget, FALSE, cleanup)
  BY DEF CleanupStep
<1>2. /\ cleanup \in Seq(StepOutcomes) /\ i \in 1 .. Len(scn.finally) /\ Len(cleanup) \in Nat
      /\ Len(scn.finally) \in Nat /\ n \in Nat \ {0}
      /\ elapsed \in Nat /\ left \in BOOLEAN /\ overran \in BOOLEAN /\ TotalBudget \in Nat
  BY <1>1, ScenarioAssumption DEF ScnTyped
<1>3. step \in ScenarioStep /\ step.timeout \in Nat
  <2>1. step \in ScenarioStep
    BY <1>2 DEF ScnTyped
  <2>2. QED
    BY <2>1 DEF ScenarioStep
<1>4. CASE NotExecuted("finally", i, step, TotalBudget, FALSE, cleanup)
  <2> DEFINE r == IF FALSE /\ left THEN "aborted"
                  ELSE IF TotalBudget - elapsed < 1 THEN "timeout" ELSE "input"
  <2>1. cleanup' = Append(cleanup, r) /\ UNCHANGED <<elapsed, executed, prior, overran, left>>
    BY <1>4 DEF NotExecuted
  <2>2. r \in StepOutcomes /\ r # "ok"
    BY DEF StepOutcomes
  <2>3. Fair => /\ r \notin {"timeout", "aborted"}
                /\ TotalBudget - elapsed' >= Len(scn.finally) - (Len(cleanup) + 1)
    BY <1>2, <2>1
  <2> HIDE DEF r
  <2>4. QED
    BY <1>1, <1>2, <2>1, <2>2, <2>3
<1>5. CASE TotalBudget - elapsed >= 1 /\ Returns("finally", i, step, time, TotalBudget, FALSE, cleanup)
  <2>1. given \in Nat
    <3>1. Share(i) \in Nat
      <4>1. Len(scn.finally) - i + 1 \in Nat \ {0} /\ TotalBudget - elapsed \in Nat
        BY <1>2, <1>5
      <4>2. (TotalBudget - elapsed) \div (Len(scn.finally) - i + 1) \in Nat
        BY <4>1
      <4>3. QED
        BY <4>2 DEF Share, MaxOf
    <3>2. QED
      BY <1>3, <3>1
  <2>2. time \in Nat /\ time <= TotalBudget - elapsed
    BY <1>2, <1>5, <2>1 DEF MinOf
  <2>3. Fair => TotalBudget - elapsed - time >= n - 1
    <3> SUFFICES ASSUME Fair PROVE TotalBudget - elapsed - time >= n - 1
      OBVIOUS
    <3>1. Len(scn.finally) - i + 1 = n
      BY <1>2
    <3>2. TotalBudget - elapsed \in Nat /\ TotalBudget - elapsed >= n
      BY <1>2, <1>5
    <3> DEFINE s == (TotalBudget - elapsed) \div n
    <3>3. s \in Nat /\ s >= 1 /\ TotalBudget - elapsed - s >= n - 1
      BY <1>2, <3>2, FairShare
    <3>4. Share(i) = s
      <4>1. Share(i) = MaxOf(1, s)
        BY <3>1 DEF Share
      <4> HIDE DEF s
      <4>2. QED
        BY <3>3, <4>1 DEF MaxOf
    <3>5. given = s
      BY <3>4
    <3> HIDE DEF s, given, n
    <3>6. QED
      BY <1>2, <3>2, <3>3, <3>5 DEF MinOf
  <2> HIDE DEF time, given
  <2>4. PICK taken \in {0, time, time + Overrun}, ended \in {"ok", "failed", "threw"}, stops \in BOOLEAN :
          /\ elapsed' = elapsed + taken
          /\ overran' = (overran \/ taken > time)
          /\ left' = (left \/ stops)
          /\ executed' = Append(executed, Place("finally", i))
          /\ prior' = IF ended = "threw" \/ "finally" = "finally" THEN prior ELSE prior \cup {i}
          /\ cleanup' = Append(cleanup,
               IF ended = "threw" THEN "threw"
               ELSE IF FALSE /\ left' THEN "aborted"
               ELSE IF elapsed' > TotalBudget THEN "timeout"
               ELSE ended)
    BY <1>5 DEF Returns
  <2> DEFINE r == IF ended = "threw" THEN "threw"
                  ELSE IF FALSE /\ left' THEN "aborted"
                  ELSE IF elapsed' > TotalBudget THEN "timeout" ELSE ended
  <2>5. r \in StepOutcomes
    BY DEF StepOutcomes
  <2>6. cleanup' = Append(cleanup, r)
    BY <2>4
  <2>7. elapsed' \in Nat /\ (taken > time \/ (elapsed' <= TotalBudget /\ elapsed' <= elapsed + time))
    BY <1>2, <2>2, <2>4, ScenarioAssumption
  <2>8. left' \in BOOLEAN /\ overran' \in BOOLEAN /\ (overran => overran') /\ (taken > time => overran')
    BY <1>2, <2>4
  <2>9. Fair => /\ r \notin {"timeout", "aborted"}
                /\ TotalBudget - elapsed' >= Len(scn.finally) - (Len(cleanup) + 1)
    BY <1>2, <2>2, <2>3, <2>7, <2>8
  <2> HIDE DEF r
  <2>10. QED
    BY <1>1, <2>4, <2>5, <2>6, <2>7, <2>8, <2>9
<1>6. TotalBudget - elapsed < 1 \/ TotalBudget - elapsed >= 1
  BY <1>2
<1>7. QED
  BY <1>1, <1>4, <1>5, <1>6 DEF ExecuteScenarioStep

-----------------------------------------------------------------------------
(* A scenario that was not called.                                         *)
ScnIdle ==
  /\ Len(scn.main) = 1 /\ scn.finally = << >> /\ spc = "idle" /\ elapsed = 0
  /\ steps = << >> /\ cleanup = << >> /\ executed = << >> /\ prior = {}
  /\ target = "none" /\ fallback = "none" /\ sanswer = << >>

(* Where a run stands: a step is taken up only behind one that let it go   *)
(* on, of a file that was accepted.                                        *)
ScnPhases ==
  /\ spc = "run" => steps = << >> /\ cleanup = << >> /\ elapsed = 0
  /\ spc = "main" => Len(steps) < Len(scn.main) /\ cleanup = << >>
  /\ Len(steps) <= Len(scn.main) /\ Len(cleanup) <= Len(scn.finally)
  /\ executed # << >> \/ spc \notin {"run", "done"} => Accepted
  /\ \A i \in DOMAIN steps :
       i < Len(steps) \/ spc = "main" => GoesOn(steps[i], scn.main[i])
  /\ spc # "done" => sanswer = << >>
  /\ spc = "fallback" => Len(cleanup) = Len(scn.finally) /\ (target = "foreign" \/ faults)

(* What was sent has a record, and what succeeded was sent.                *)
ScnSent ==
  /\ \A j \in Nat : Executed("main", j) => j \in DOMAIN steps
  /\ \A j \in Nat : Executed("finally", j) => j \in DOMAIN cleanup
  /\ \A i \in DOMAIN steps : steps[i] = "ok" => Executed("main", i)
  /\ \A i \in DOMAIN cleanup : cleanup[i] = "ok" => Executed("finally", i)

(* When no call overran its time, the main part keeps its deadline, and    *)
(* there is a unit for every cleanup step still to come.                   *)
ScnInTime ==
  ~overran /\ TotalBudget \div 3 >= Len(scn.finally)
  /\ (\A i \in DOMAIN scn.finally : scn.finally[i].timeout = 0)
  => /\ spc \in {"run", "main"} => elapsed <= MainDeadline
     /\ spc = "finally" => TotalBudget - elapsed >= Len(scn.finally) - Len(cleanup)
     /\ \A i \in DOMAIN cleanup : cleanup[i] \notin {"timeout", "aborted"}

(* What holds while a scenario is run, and of every operation.             *)
ScnRuns == ScnTyped /\ ScnPhases /\ ScnSent /\ ScnInTime /\ ScenarioAnswerIsTrue

ScnKnown ==
  /\ op # "scenario_run" => ScnIdle
  /\ op = "scenario_run" => ScnRuns

(* What was sent, when one more place is, or none.                         *)
LEMMA OneMoreSent ==
  ASSUME NEW old \in Seq(ScnPlaces), NEW phase \in {"main", "finally"}, NEW i \in Nat,
         NEW now, now = old \/ now = Append(old, Place(phase, i))
  PROVE  /\ now \in Seq(ScnPlaces)
         /\ \A e : Contains(old, e) => Contains(now, e)
         /\ \A e : Contains(now, e) => Contains(old, e) \/ e = Place(phase, i)
         /\ now # old => Contains(now, Place(phase, i))
<1>1. CASE now = old
  BY <1>1
<1>2. CASE now = Append(old, Place(phase, i))
  <2>1. Place(phase, i) \in ScnPlaces
    BY DEF Place, ScnPlaces
  <2>2. /\ now \in Seq(ScnPlaces) /\ Len(now) = Len(old) + 1 /\ Len(old) \in Nat
        /\ \A k \in 1 .. Len(old) : now[k] = old[k]
        /\ now[Len(old) + 1] = Place(phase, i)
    BY <1>2, <2>1
  <2>3. \A e : Contains(old, e) => Contains(now, e)
    BY <2>2 DEF Contains
  <2>4. \A e : Contains(now, e) => Contains(old, e) \/ e = Place(phase, i)
    <3> SUFFICES ASSUME NEW e, Contains(now, e) PROVE Contains(old, e) \/ e = Place(phase, i)
      OBVIOUS
    <3>1. PICK k \in 1 .. Len(now) : now[k] = e
      BY DEF Contains
    <3>2. k = Len(old) + 1 \/ k \in 1 .. Len(old)
      BY <2>2, <3>1
    <3>3. QED
      BY <2>2, <3>1, <3>2 DEF Contains
  <2>5. Contains(now, Place(phase, i))
    <3>1. Len(old) + 1 \in 1 .. Len(now)
      BY <2>2
    <3>2. QED
      BY <2>2, <3>1 DEF Contains
  <2>6. QED
    BY <2>2, <2>3, <2>4, <2>5
<1>3. QED
  BY <1>1, <1>2

(* A record more.                                                          *)
LEMMA OneMoreRecord ==
  ASSUME NEW s \in Seq(StepOutcomes), NEW r \in StepOutcomes, NEW t, t = Append(s, r)
  PROVE  /\ t \in Seq(StepOutcomes) /\ Len(s) \in Nat /\ Len(t) = Len(s) + 1
         /\ DOMAIN s = 1 .. Len(s) /\ DOMAIN t = 1 .. Len(s) + 1
         /\ \A i \in 1 .. Len(s) : t[i] = s[i]
         /\ t[Len(s) + 1] = r
OBVIOUS

(* The deadline is one of the file.                                        *)
LEMMA DeadlineStays ==
  ASSUME scn' = scn
  PROVE  MainDeadline' = MainDeadline
<1>1. (RequestedCleanup = MinOf(300, Fold(scn.finally)))'
  BY RequestedIs, PTL
<1>2. RequestedCleanup' = RequestedCleanup
  BY <1>1, RequestedIs
<1>3. QED
  BY <1>2 DEF MainDeadline, CleanupReserve

(* The main part.                                                          *)
LEMMA MainKeeps ==
  ASSUME ScnRuns, MainStep
  PROVE  ScnRuns'
<1> USE DEF ScnRuns
<1>0. spc = "main"
  BY DEF MainStep
<1>1. /\ UNCHANGED <<scn, cleanup, target, fallback, large, faults, sanswer>>
      /\ elapsed' \in Nat /\ left' \in BOOLEAN /\ overran' \in BOOLEAN
      /\ overran => overran'
      /\ ~overran' => elapsed' = elapsed \/ elapsed' <= MainDeadline
      /\ prior' \in {prior, prior \cup {Len(steps) + 1}}
  BY <1>0, MainStepEffect DEF ScnPhases
<1>2. PICK r \in StepOutcomes :
         /\ steps' = Append(steps, r)
         /\ spc' = IF Len(steps) + 1 < Len(scn.main) /\ GoesOn(r, scn.main[Len(steps) + 1])
                   THEN "main" ELSE "finally"
         /\ \/ executed' = executed /\ r # "ok"
            \/ executed' = Append(executed, Place("main", Len(steps) + 1))
  BY <1>0, MainStepEffect DEF ScnPhases
<1>3. /\ steps' \in Seq(StepOutcomes) /\ Len(steps) \in Nat /\ Len(steps') = Len(steps) + 1
      /\ DOMAIN steps = 1 .. Len(steps) /\ DOMAIN steps' = 1 .. Len(steps) + 1
      /\ \A i \in 1 .. Len(steps) : steps'[i] = steps[i]
      /\ steps'[Len(steps) + 1] = r
  BY <1>2, OneMoreRecord DEF ScnTyped
<1>4. /\ executed' \in Seq(ScnPlaces)
      /\ \A e : Contains(executed, e) => Contains(executed', e)
      /\ \A e : Contains(executed', e) => Contains(executed, e) \/ e = Place("main", Len(steps) + 1)
      /\ executed' # executed => Contains(executed', Place("main", Len(steps) + 1))
  <2>1. Len(steps) + 1 \in Nat
    BY <1>3
  <2>2. executed \in Seq(ScnPlaces)
    BY DEF ScnTyped
  <2>3. executed' = executed \/ executed' = Append(executed, Place("main", Len(steps) + 1))
    BY <1>2
  <2> DEFINE now == executed'
  <2> HIDE DEF now
  <2>4. now = executed \/ now = Append(executed, Place("main", Len(steps) + 1))
    BY <2>3 DEF now
  <2>5. /\ now \in Seq(ScnPlaces)
        /\ \A e : Contains(executed, e) => Contains(now, e)
        /\ \A e : Contains(now, e) => Contains(executed, e) \/ e = Place("main", Len(steps) + 1)
        /\ now # executed => Contains(now, Place("main", Len(steps) + 1))
    BY <2>1, <2>2, <2>4, OneMoreSent
  <2>6. QED
    BY <2>5 DEF now
<1>5. /\ Len(steps) < Len(scn.main) /\ cleanup = << >> /\ sanswer = << >> /\ Accepted
      /\ Len(scn.main) \in Nat /\ DOMAIN scn.main = 1 .. Len(scn.main)
  <2>1. scn.main \in Seq(ScenarioStep)
    BY DEF ScnTyped
  <2>2. QED
    BY <1>0, <2>1 DEF ScnPhases
<1>6. spc' \in {"main", "finally"}
  BY <1>2
<1>7. ScnTyped'
  <2>1. prior' \subseteq DOMAIN scn.main
    <3>1. Len(steps) + 1 \in DOMAIN scn.main
      BY <1>3, <1>5
    <3>2. QED
      BY <1>1, <3>1 DEF ScnTyped
  <2>2. QED
    BY <1>1, <1>3, <1>4, <1>6, <2>1 DEF ScnTyped
<1>8. ScnPhases'
  <2>1. \A i \in DOMAIN steps' :
          i < Len(steps') \/ spc' = "main" => GoesOn(steps'[i], scn.main[i])
    <3> SUFFICES ASSUME NEW i \in DOMAIN steps', i < Len(steps') \/ spc' = "main"
                 PROVE  GoesOn(steps'[i], scn.main[i])
      OBVIOUS
    <3>1. CASE i = Len(steps) + 1
      BY <1>2, <1>3, <3>1
    <3>2. CASE i # Len(steps) + 1
      <4>1. i \in DOMAIN steps /\ steps'[i] = steps[i]
        BY <1>3, <3>2
      <4>2. QED
        BY <1>0, <4>1 DEF ScnPhases
    <3>3. QED
      BY <3>1, <3>2
  <2>2. spc' = "main" => Len(steps') < Len(scn.main)
    BY <1>2, <1>3
  <2>3. Len(steps') <= Len(scn.main) /\ Len(cleanup) <= Len(scn.finally)
    BY <1>3, <1>5 DEF ScnPhases
  <2>4. Accepted'
    BY <1>1, <1>5 DEF Accepted
  <2>5. QED
    BY <1>1, <1>5, <1>6, <2>1, <2>2, <2>3, <2>4 DEF ScnPhases
<1>9. ScnSent'
  <2>1. ASSUME NEW j \in Nat, Executed("main", j)' PROVE j \in DOMAIN steps'
    BY <1>3, <1>4, <2>1 DEF ScnSent, Executed, Place
  <2>2. ASSUME NEW j \in Nat, Executed("finally", j)' PROVE j \in DOMAIN cleanup'
    BY <1>1, <1>4, <2>2 DEF ScnSent, Executed, Place
  <2>3. ASSUME NEW i \in DOMAIN steps', steps'[i] = "ok" PROVE Executed("main", i)'
    <3>1. CASE i = Len(steps) + 1
      <4>1. executed' = Append(executed, Place("main", Len(steps) + 1))
        BY <1>2, <1>3, <2>3, <3>1
      <4>2. executed' # executed
        BY <4>1 DEF ScnTyped
      <4>3. QED
        BY <1>4, <3>1, <4>2 DEF Executed
    <3>2. CASE i # Len(steps) + 1
      BY <1>3, <1>4, <2>3, <3>2 DEF ScnSent, Executed, Place
    <3>3. QED
      BY <3>1, <3>2
  <2>4. \A i \in DOMAIN cleanup' : cleanup'[i] = "ok" => Executed("finally", i)'
    BY <1>1, <1>4 DEF ScnSent, Executed, Place
  <2>5. QED
    BY <2>1, <2>2, <2>3, <2>4 DEF ScnSent
<1>10. ScnInTime'
  <2> SUFFICES ASSUME ~overran', TotalBudget \div 3 >= Len(scn.finally),
                      \A i \in DOMAIN scn.finally : scn.finally[i].timeout = 0
               PROVE  /\ elapsed' <= MainDeadline
                      /\ TotalBudget - elapsed' >= Len(scn.finally) - Len(cleanup)
    <3>1. MainDeadline' = MainDeadline
      BY <1>1, DeadlineStays
    <3>2. QED
      BY <1>1, <1>5, <1>6, <3>1 DEF ScnInTime
  <2>1. elapsed <= MainDeadline
    BY <1>0, <1>1 DEF ScnInTime
  <2>2. elapsed' <= MainDeadline
    BY <1>1, <2>1
  <2>3. /\ CleanupReserve \in Nat /\ MainDeadline \in Nat /\ CleanupReserve >= Len(scn.finally)
    BY ReserveKnown
  <2>4. TotalBudget - elapsed' >= Len(scn.finally)
    <3>1. Len(scn.finally) \in Nat
      BY DEF ScnTyped
    <3>2. MainDeadline = TotalBudget - CleanupReserve
      BY DEF MainDeadline
    <3>3. QED
      BY <1>1, <2>2, <2>3, <3>1, <3>2, ScenarioAssumption
  <2>5. Len(cleanup) = 0
    BY <1>5
  <2>6. QED
    BY <1>1, <2>2, <2>4, <2>5 DEF ScnTyped
<1>11. ScenarioAnswerIsTrue'
  BY <1>1, <1>5 DEF ScenarioAnswerIsTrue
<1>12. QED
  BY <1>7, <1>8, <1>9, <1>10, <1>11

(* The cleanup.                                                            *)
LEMMA CleanupKeeps ==
  ASSUME ScnRuns, CleanupStep
  PROVE  ScnRuns'
<1> USE DEF ScnRuns
<1>1. /\ UNCHANGED <<scn, spc, steps, target, fallback, large, faults, sanswer>>
      /\ spc = "finally" /\ Len(cleanup) < Len(scn.finally)
      /\ elapsed' \in Nat /\ left' \in BOOLEAN /\ overran' \in BOOLEAN
      /\ overran => overran'
      /\ prior' = prior
  BY CleanupStepEffect
<1>2. PICK r \in StepOutcomes :
         /\ cleanup' = Append(cleanup, r)
         /\ \/ executed' = executed /\ r # "ok"
            \/ executed' = Append(executed, Place("finally", Len(cleanup) + 1))
         /\ (/\ ~overran' /\ scn.finally[Len(cleanup) + 1].timeout = 0
             /\ TotalBudget - elapsed >= Len(scn.finally) - Len(cleanup))
            => /\ r \notin {"timeout", "aborted"}
               /\ TotalBudget - elapsed' >= Len(scn.finally) - (Len(cleanup) + 1)
  BY CleanupStepEffect
<1>3. /\ cleanup' \in Seq(StepOutcomes) /\ Len(cleanup) \in Nat /\ Len(cleanup') = Len(cleanup) + 1
      /\ DOMAIN cleanup = 1 .. Len(cleanup) /\ DOMAIN cleanup' = 1 .. Len(cleanup) + 1
      /\ \A i \in 1 .. Len(cleanup) : cleanup'[i] = cleanup[i]
      /\ cleanup'[Len(cleanup) + 1] = r
  BY <1>2, OneMoreRecord DEF ScnTyped
<1>4. /\ executed' \in Seq(ScnPlaces)
      /\ \A e : Contains(executed, e) => Contains(executed', e)
      /\ \A e : Contains(executed', e) => Contains(executed, e) \/ e = Place("finally", Len(cleanup) + 1)
      /\ executed' # executed => Contains(executed', Place("finally", Len(cleanup) + 1))
  <2>1. Len(cleanup) + 1 \in Nat
    BY <1>3
  <2>2. executed \in Seq(ScnPlaces)
    BY DEF ScnTyped
  <2>3. executed' = executed \/ executed' = Append(executed, Place("finally", Len(cleanup) + 1))
    BY <1>2
  <2> DEFINE now == executed'
  <2> HIDE DEF now
  <2>4. now = executed \/ now = Append(executed, Place("finally", Len(cleanup) + 1))
    BY <2>3 DEF now
  <2>5. /\ now \in Seq(ScnPlaces)
        /\ \A e : Contains(executed, e) => Contains(now, e)
        /\ \A e : Contains(now, e) => Contains(executed, e) \/ e = Place("finally", Len(cleanup) + 1)
        /\ now # executed => Contains(now, Place("finally", Len(cleanup) + 1))
    BY <2>1, <2>2, <2>4, OneMoreSent
  <2>6. QED
    BY <2>5 DEF now
<1>5. /\ sanswer = << >> /\ Accepted
      /\ Len(scn.finally) \in Nat /\ DOMAIN scn.finally = 1 .. Len(scn.finally)
  <2>1. scn.finally \in Seq(ScenarioStep)
    BY DEF ScnTyped
  <2>2. QED
    BY <1>1, <2>1 DEF ScnPhases
<1>7. ScnTyped'
  BY <1>1, <1>3, <1>4 DEF ScnTyped
<1>8. ScnPhases'
  <2>1. \A i \in DOMAIN steps' :
          i < Len(steps') \/ spc' = "main" => GoesOn(steps'[i], scn.main[i])
    BY <1>1 DEF ScnPhases
  <2>2. Len(steps') <= Len(scn.main) /\ Len(cleanup') <= Len(scn.finally)
    BY <1>1, <1>3, <1>5 DEF ScnPhases
  <2>3. Accepted'
    BY <1>1, <1>5 DEF Accepted
  <2>4. QED
    BY <1>1, <1>5, <2>1, <2>2, <2>3 DEF ScnPhases
<1>9. ScnSent'
  <2>1. ASSUME NEW j \in Nat, Executed("finally", j)' PROVE j \in DOMAIN cleanup'
    BY <1>3, <1>4, <2>1 DEF ScnSent, Executed, Place
  <2>2. ASSUME NEW j \in Nat, Executed("main", j)' PROVE j \in DOMAIN steps'
    BY <1>1, <1>4, <2>2 DEF ScnSent, Executed, Place
  <2>3. ASSUME NEW i \in DOMAIN cleanup', cleanup'[i] = "ok" PROVE Executed("finally", i)'
    <3>1. CASE i = Len(cleanup) + 1
      <4>1. executed' = Append(executed, Place("finally", Len(cleanup) + 1))
        BY <1>2, <1>3, <2>3, <3>1
      <4>2. executed' # executed
        BY <4>1 DEF ScnTyped
      <4>3. QED
        BY <1>4, <3>1, <4>2 DEF Executed
    <3>2. CASE i # Len(cleanup) + 1
      BY <1>3, <1>4, <2>3, <3>2 DEF ScnSent, Executed, Place
    <3>3. QED
      BY <3>1, <3>2
  <2>4. \A i \in DOMAIN steps' : steps'[i] = "ok" => Executed("main", i)'
    BY <1>1, <1>4 DEF ScnSent, Executed, Place
  <2>5. QED
    BY <2>1, <2>2, <2>3, <2>4 DEF ScnSent
<1>10. ScnInTime'
  <2> SUFFICES ASSUME ~overran', TotalBudget \div 3 >= Len(scn.finally),
                      \A i \in DOMAIN scn.finally : scn.finally[i].timeout = 0
               PROVE  /\ TotalBudget - elapsed' >= Len(scn.finally) - Len(cleanup')
                      /\ \A i \in DOMAIN cleanup' : cleanup'[i] \notin {"timeout", "aborted"}
    BY <1>1 DEF ScnInTime
  <2>1. /\ TotalBudget - elapsed >= Len(scn.finally) - Len(cleanup)
        /\ \A i \in DOMAIN cleanup : cleanup[i] \notin {"timeout", "aborted"}
    BY <1>1 DEF ScnInTime
  <2>2. scn.finally[Len(cleanup) + 1].timeout = 0
    BY <1>1, <1>3, <1>5
  <2>3. /\ r \notin {"timeout", "aborted"}
        /\ TotalBudget - elapsed' >= Len(scn.finally) - (Len(cleanup) + 1)
    BY <1>2, <2>1, <2>2
  <2>4. QED
    BY <1>3, <2>1, <2>3
<1>11. ScenarioAnswerIsTrue'
  BY <1>1, <1>5 DEF ScenarioAnswerIsTrue
<1>12. QED
  BY <1>7, <1>8, <1>9, <1>10, <1>11

(* The report.                                                             *)
LEMMA ReportKeeps ==
  ASSUME ScnRuns, WriteReport \/ WriteFallback
  PROVE  ScnRuns'
<1> USE DEF ScnRuns
<1>1. /\ UNCHANGED <<scn, elapsed, left, steps, cleanup, executed, prior, overran>>
      /\ spc \in {"finally", "fallback"} /\ spc' \in {"fallback", "done"}
      /\ Len(cleanup) = Len(scn.finally)
  BY DEF WriteReport, WriteFallback, Answer, Throws, ScnPhases
<1>2. /\ target' \in {target, "report"} /\ fallback' \in {fallback, "note"}
      /\ large' \in BOOLEAN /\ faults' \in {faults, TRUE}
  BY DEF WriteReport, WriteFallback, Answer, Throws, WriteFails, ScnTyped
<1>3. spc' = "fallback" => sanswer' = << >> /\ (target' = "foreign" \/ faults')
  BY <1>1 DEF WriteReport, WriteFallback, Answer, Throws, WriteFails, ScnPhases
<1>4. ScnTyped'
  BY <1>1, <1>2 DEF ScnTyped
<1>5. ScnPhases'
  <2>1. Accepted /\ Accepted' = Accepted
    BY <1>1 DEF ScnPhases, Accepted
  <2>2. QED
    BY <1>1, <1>3, <2>1 DEF ScnPhases
<1>6. ScnSent'
  BY <1>1 DEF ScnSent, Executed
<1>7. ScnInTime'
  BY <1>1 DEF ScnInTime
<1>8. ScenarioAnswerIsTrue'
  <2>1. (MainOk /\ CleanupOk) =>
          /\ \A i \in DOMAIN scn.main : Executed("main", i) /\ steps[i] = "ok"
          /\ \A i \in DOMAIN scn.finally : Executed("finally", i) /\ cleanup[i] = "ok"
    <3> SUFFICES ASSUME MainOk, CleanupOk
                 PROVE  /\ \A i \in DOMAIN scn.main : Executed("main", i) /\ steps[i] = "ok"
                        /\ \A i \in DOMAIN scn.finally : Executed("finally", i) /\ cleanup[i] = "ok"
      OBVIOUS
    <3>1. DOMAIN scn.main = DOMAIN steps
      BY DEF MainOk, ScnTyped
    <3>2. DOMAIN scn.finally = DOMAIN cleanup
      BY <1>1 DEF ScnTyped
    <3>3. QED
      BY <3>1, <3>2 DEF MainOk, CleanupOk, Ok, ScnSent
  <2>2. ASSUME NEW actual, NEW conflict, Answer(actual, conflict),
               ~faults' => (conflict <=> target' = "foreign"), target' = "report" \/ fallback' = "note"
        PROVE  ScenarioAnswerIsTrue'
    <3>2. PICK given \in BOOLEAN :
            sanswer' = <<[ok |-> MainOk /\ CleanupOk, ref |-> AnsweredRef(given, actual),
                          conflict |-> conflict]>>
      BY <2>2 DEF Answer
    <3>3. sanswer'[1].ok = (MainOk /\ CleanupOk) /\ sanswer'[1].conflict = conflict
      BY <3>2
    <3>4. sanswer'[1].ok =>
             /\ \A i \in DOMAIN scn.main : Executed("main", i) /\ steps[i] = "ok"
             /\ \A i \in DOMAIN scn.finally : Executed("finally", i) /\ cleanup[i] = "ok"
      BY <2>1, <3>3
    <3>5. ~faults' => (sanswer'[1].conflict <=> target' = "foreign")
      BY <2>2, <3>3
    <3>6. QED
      BY <1>1, <2>2, <3>4, <3>5 DEF ScenarioAnswerIsTrue, Executed
  <2>3. CASE Throws /\ (faults' \/ (target' = "foreign" /\ large'))
    BY <1>1, <2>3 DEF Throws, ScenarioAnswerIsTrue
  <2>4. CASE spc' = "fallback"
    BY <1>3, <2>4 DEF ScenarioAnswerIsTrue
  <2>5. CASE WriteReport
    <3>1. CASE target' = "report" /\ Answer("target", FALSE)
      <4>1. target' # "foreign"
        BY <3>1
      <4>2. QED
        BY <2>2, <3>1, <4>1
    <3>2. CASE spc' = "fallback"
      BY <2>4, <3>2
    <3>3. QED
      BY <2>5, <3>1, <3>2 DEF WriteReport
  <2>6. CASE WriteFallback
    <3>1. CASE fallback' = "note" /\ Answer("fallback", TRUE) /\ UNCHANGED faults
      <4>1. ~faults' => target' = "foreign"
        BY <2>6, <3>1 DEF WriteFallback, ScnPhases
      <4>2. QED
        BY <2>2, <3>1, <4>1
    <3>2. CASE Throws /\ (large \/ faults')
      <4>1. faults' \/ (target' = "foreign" /\ large')
        BY <2>6, <3>2 DEF WriteFallback, WriteFails, ScnPhases
      <4>2. QED
        BY <2>3, <3>2, <4>1
    <3>3. QED
      BY <2>6, <3>1, <3>2 DEF WriteFallback, WriteFails
  <2>7. QED
    BY <2>5, <2>6
<1>9. QED
  BY <1>4, <1>5, <1>6, <1>7, <1>8

(* Every step of every operation keeps it.                                 *)
LEMMA ScnStep ==
  ASSUME ScnKnown, [OperationsNext]_opvars
  PROVE  ScnKnown'
<1>1. op' = op /\ ((op = "scenario_run" /\ ScenarioNext) \/ UNCHANGED scvars)
  BY DEF OperationsNext, opvars
<1>2. CASE UNCHANGED scvars
  <2>1. UNCHANGED <<scn, spc, elapsed, left, steps, cleanup, executed, prior, overran, target,
                    fallback, large, faults, sanswer>>
    BY <1>2 DEF scvars
  <2>2. ScnIdle => ScnIdle'
    BY <2>1 DEF ScnIdle
  <2>3. ScnTyped => ScnTyped'
    BY <2>1 DEF ScnTyped
  <2>4. ScnPhases => ScnPhases'
    BY <2>1 DEF ScnPhases, Accepted
  <2>5. ScnSent => ScnSent'
    BY <2>1 DEF ScnSent, Executed
  <2>6. ScnInTime => ScnInTime'
    BY <2>1, DeadlineStays DEF ScnInTime
  <2>7. ScenarioAnswerIsTrue => ScenarioAnswerIsTrue'
    BY <2>1 DEF ScenarioAnswerIsTrue, Executed
  <2>8. QED
    BY <1>1, <2>2, <2>3, <2>4, <2>5, <2>6, <2>7 DEF ScnKnown, ScnRuns
<1>3. CASE op = "scenario_run" /\ ScenarioNext
  <2> SUFFICES ASSUME ScnRuns PROVE ScnRuns'
    BY <1>1, <1>3 DEF ScnKnown
  <2>1. CASE RunScenario
    <3>1. /\ spc = "run" /\ UNCHANGED <<scn, elapsed, left, steps, cleanup, executed, prior, overran,
                                        target, fallback, large, faults>>
      BY <2>1 DEF RunScenario
    <3>2. /\ steps = << >> /\ cleanup = << >> /\ elapsed = 0 /\ sanswer = << >> /\ executed = << >>
      <4>1. executed = << >>
        <5>1. SUFFICES ASSUME executed # << >> PROVE FALSE
          OBVIOUS
        <5>2. executed \in Seq(ScnPlaces)
          BY DEF ScnRuns, ScnTyped
        <5>3. Len(executed) \in Nat /\ 1 \in 1 .. Len(executed) /\ executed[1] \in ScnPlaces
          BY <5>1, <5>2
        <5>4. PICK p \in {"main", "finally"}, j \in Nat : executed[1] = Place(p, j)
          BY <5>3 DEF ScnPlaces, Place
        <5>5. Executed(p, j)
          BY <5>3, <5>4 DEF Executed, Contains
        <5>6. QED
          BY <3>1, <5>4, <5>5 DEF ScnRuns, ScnSent, ScnPhases
      <4>2. QED
        BY <3>1, <4>1 DEF ScnRuns, ScnPhases
    <3>3. \/ Accepted /\ spc' = "main" /\ UNCHANGED sanswer
          \/ Throws
      BY <2>1 DEF RunScenario
    <3>4. ScnTyped'
      BY <3>1, <3>3 DEF ScnRuns, ScnTyped, Throws
    <3>5. ScnPhases'
      <4>1. Len(scn.main) \in Nat /\ Len(scn.main) > 0 /\ Len(scn.finally) \in Nat
        BY DEF ScnRuns, ScnTyped
      <4>2. Accepted' = Accepted
        BY <3>1 DEF Accepted
      <4>3. QED
        BY <3>1, <3>2, <3>3, <4>1, <4>2 DEF ScnPhases, Throws
    <3>6. ScnSent'
      BY <3>1 DEF ScnRuns, ScnSent, Executed
    <3>7. ScnInTime'
      BY <3>1, <3>2, <3>3, ReserveKnown, DeadlineStays DEF ScnRuns, ScnInTime, Throws
    <3>8. ScenarioAnswerIsTrue'
      BY <3>1, <3>2, <3>3 DEF ScenarioAnswerIsTrue, Throws
    <3>9. QED
      BY <3>4, <3>5, <3>6, <3>7, <3>8 DEF ScnRuns
  <2>2. CASE MainStep
    BY <2>2, MainKeeps
  <2>3. CASE CleanupStep
    BY <2>3, CleanupKeeps
  <2>4. CASE WriteReport \/ WriteFallback
    BY <2>4, ReportKeeps
  <2>5. CASE SomebodyWrites
    <3>1. /\ spc \in {"run", "main", "finally"} /\ target' = "foreign"
          /\ UNCHANGED <<scn, spc, elapsed, left, steps, cleanup, executed, prior, overran,
                         fallback, large, faults, sanswer>>
      BY <2>5 DEF SomebodyWrites
    <3>2. ScnTyped'
      BY <3>1 DEF ScnRuns, ScnTyped
    <3>3. ScnPhases'
      BY <3>1 DEF ScnRuns, ScnPhases, Accepted
    <3>4. ScnSent'
      BY <3>1 DEF ScnRuns, ScnSent, Executed
    <3>5. ScnInTime'
      BY <3>1, DeadlineStays DEF ScnRuns, ScnInTime
    <3>6. ScenarioAnswerIsTrue'
      BY <3>1 DEF ScnRuns, ScnPhases, ScenarioAnswerIsTrue
    <3>7. QED
      BY <3>2, <3>3, <3>4, <3>5, <3>6 DEF ScnRuns
  <2>6. QED
    BY <1>3, <2>1, <2>2, <2>3, <2>4, <2>5 DEF ScenarioNext
<1>4. QED
  BY <1>1, <1>2, <1>3

(* It holds at the start.                                                  *)
LEMMA ScnStarts ==
  ASSUME OperationsInit
  PROVE  ScnKnown
<1>1. CASE op = "scenario_run"
  <2>1. ScenarioInit("run")
    BY <1>1 DEF OperationsInit, ScenarioStarts
  <2>2. /\ spc = "run" /\ elapsed = 0 /\ left \in BOOLEAN
        /\ steps = << >> /\ cleanup = << >> /\ executed = << >> /\ prior = {}
        /\ overran = FALSE /\ target \in {"none", "report"} /\ fallback \in {"none", "note"}
        /\ large = FALSE /\ faults = FALSE /\ sanswer = << >>
    BY <2>1 DEF ScenarioInit
  <2>3. ASSUME NEW s, NEW S, S \subseteq ScenarioStep, s \in BoundedSeq(S, Length)
        PROVE  s \in Seq(ScenarioStep) /\ Len(s) <= 100
    <3>1. PICK m \in 0 .. Length : s \in [1 .. m -> S]
      BY <2>3, ScenarioAssumption DEF BoundedSeq, SeqOf
    <3>2. m \in Nat /\ m <= 100
      BY <3>1, ScenarioAssumption
    <3>3. s \in [1 .. m -> ScenarioStep]
      BY <2>3, <3>1
    <3>4. QED
      BY <3>2, <3>3
  <2>4. /\ scn.main \in BoundedSeq(MainSteps, Length) /\ scn.main # << >>
        /\ scn.finally = << >> \/ scn.finally \in BoundedSeq(FinallySteps, Length)
    BY <2>1 DEF ScenarioInit
  <2>5. ScnTyped
    <3>1. scn.main \in Seq(ScenarioStep)
      BY <2>3, <2>4, ScenarioAssumption
    <3>2. scn.finally \in Seq(ScenarioStep) /\ Len(scn.finally) <= 100
      <4>1. CASE scn.finally = << >>
        BY <4>1
      <4>2. CASE scn.finally \in BoundedSeq(FinallySteps, Length)
        BY <2>3, <4>2, ScenarioAssumption
      <4>3. QED
        BY <2>4, <4>1, <4>2
    <3>3. steps \in Seq(StepOutcomes) /\ cleanup \in Seq(StepOutcomes) /\ executed \in Seq(ScnPlaces)
      BY <2>2
    <3>4. elapsed \in Nat /\ prior \subseteq DOMAIN scn.main
      BY <2>2
    <3>5. QED
      BY <2>2, <2>4, <3>1, <3>2, <3>3, <3>4 DEF ScnTyped
  <2>6. ScnPhases
    <3>1. Len(scn.main) \in Nat /\ Len(scn.finally) \in Nat
      BY <2>5 DEF ScnTyped
    <3>2. QED
      BY <2>2, <3>1 DEF ScnPhases
  <2>7. ScnSent
    BY <2>2 DEF ScnSent, Executed, Contains
  <2>8. ScnInTime
    BY <2>2, <2>5, ReserveKnown DEF ScnInTime
  <2>9. ScenarioAnswerIsTrue
    BY <2>2 DEF ScenarioAnswerIsTrue
  <2>10. QED
    BY <1>1, <2>5, <2>6, <2>7, <2>8, <2>9 DEF ScnKnown, ScnRuns
<1>2. CASE op # "scenario_run"
  <2>1. /\ scn = [version |-> 1, main |-> <<One(MainSteps)>>, finally |-> << >>]
        /\ target = "none" /\ fallback = "none" /\ ScenarioInit("idle")
    BY <1>2 DEF OperationsInit, ScenarioStarts
  <2>2. QED
    BY <1>2, <2>1 DEF ScnKnown, ScnIdle, ScenarioInit
<1>3. QED
  BY <1>1, <1>2

(* After a failed step the main steps only read, and the cleanup only      *)
(* reads and carries out operations of the cleanup class; it has its time, *)
(* and a success says that every step was carried out                      *)
(* (scenario.ts:462-602).                                                  *)
THEOREM ScenarioAlwaysSound == OperationsSpec => []ScenarioIsSound
<1>1. ScnKnown => ScenarioIsSound
  <2>1. CASE op # "scenario_run" /\ ScnKnown
    <3>1. ScnIdle
      BY <2>1 DEF ScnKnown
    <3>2. \A p, j : ~Executed(p, j)
      BY <3>1 DEF ScnIdle, Executed, Contains
    <3>3. QED
      BY <3>1, <3>2 DEF ScnIdle, ScenarioIsSound, ScenarioTypeOK, NoMutationAfterFailure,
                       CleanupNotStarved, ScenarioAnswerIsTrue
  <2>2. CASE op = "scenario_run" /\ ScnKnown
    <3>1. ScnTyped /\ ScnPhases /\ ScnSent /\ ScnInTime /\ ScenarioAnswerIsTrue
      BY <2>2 DEF ScnKnown, ScnRuns
    <3>2. ScenarioTypeOK
      BY <3>1 DEF ScenarioTypeOK, ScnTyped, ScnPhases
    <3>3. CleanupNotStarved
      BY <3>1 DEF CleanupNotStarved, ScnInTime
    <3>4. /\ DOMAIN scn.main = 1 .. Len(scn.main) /\ DOMAIN scn.finally = 1 .. Len(scn.finally)
          /\ DOMAIN steps = 1 .. Len(steps) /\ Len(steps) \in Nat
          /\ Len(scn.main) \in Nat /\ Len(scn.finally) \in Nat
      BY <3>1 DEF ScnTyped
    <3>5. ASSUME NEW p, NEW j, Executed(p, j) PROVE Accepted
      <4>1. executed # << >>
        BY <3>5 DEF Executed, Contains
      <4>2. QED
        BY <3>1, <4>1 DEF ScnPhases
    <3>6. ASSUME NEW i \in DOMAIN steps, NEW j \in DOMAIN scn.main,
                 steps[i] # "ok", i < j, Executed("main", j)
          PROVE  scn.main[j].class = "read"
      <4>1. j \in Nat /\ j \in DOMAIN steps
        BY <3>1, <3>4, <3>6 DEF ScnSent
      <4>2. i < Len(steps)
        BY <3>4, <3>6, <4>1
      <4>3. scn.main[i].continue
        BY <3>1, <3>6, <4>2 DEF ScnPhases, GoesOn
      <4>4. i \in DOMAIN scn.main
        BY <3>4, <3>6
      <4>5. SafeErrorContinuation(scn.main)
        BY <3>5, <3>6 DEF Accepted
      <4>6. j >= i
        BY <3>4, <3>6
      <4>7. QED
        BY <4>3, <4>4, <4>5, <4>6 DEF SafeErrorContinuation
    <3>7. ASSUME NEW j \in DOMAIN scn.finally, Executed("finally", j)
          PROVE  scn.finally[j].class \in {"read", "cleanup"}
      BY <3>5, <3>7 DEF Accepted, CleanupOnly
    <3>8. NoMutationAfterFailure
      BY <3>6, <3>7 DEF NoMutationAfterFailure
    <3>9. QED
      BY <3>1, <3>2, <3>3, <3>8 DEF ScenarioIsSound
  <2>3. QED
    BY <2>1, <2>2
<1>2. QED
  BY <1>1, ScnStarts, ScnStep, PTL DEF OperationsSpec

-----------------------------------------------------------------------------
(* Files: the table of powers of ten.                                      *)

(* The powers of ten up to one of them.                                    *)
ArePowers(p, n) ==
  p \in [0 .. n -> Nat] /\ p[0] = 1 /\ \A k \in 1 .. n : p[k] = 10 * p[k - 1]

(* There is such a table of any length: the least without one would not be *)
(* zero, and would have one by its predecessor's.                          *)
LEMMA PowersExist ==
  ASSUME NEW n \in Nat
  PROVE  \E p : ArePowers(p, n)
<1> DEFINE T == {m \in Nat : ~\E p : ArePowers(p, m)}
<1>1. SUFFICES ASSUME T # {} PROVE FALSE
  OBVIOUS
<1>2. PICK m \in T : \A k \in T : m <= k
  <2> HIDE DEF T
  <2>1. T \in SUBSET Nat
    BY DEF T
  <2>2. QED
    BY <1>1, <2>1, LeastMember
<1>3. CASE m = 0
  <2>1. ArePowers([k \in 0 .. 0 |-> 1], 0)
    BY DEF ArePowers
  <2>2. QED
    BY <1>2, <1>3, <2>1
<1>4. CASE m # 0
  <2>1. m - 1 \in Nat /\ m - 1 \notin T
    BY <1>2, <1>4
  <2>2. PICK p : ArePowers(p, m - 1)
    BY <2>1
  <2> DEFINE r == [k \in 0 .. m |-> IF k = m THEN 10 * p[m - 1] ELSE p[k]]
  <2>3. p \in [0 .. m - 1 -> Nat] /\ p[0] = 1 /\ \A k \in 1 .. m - 1 : p[k] = 10 * p[k - 1]
    BY <2>2 DEF ArePowers
  <2>4. r \in [0 .. m -> Nat]
    <3>1. p[m - 1] \in Nat
      BY <2>1, <2>3
    <3>2. 10 * p[m - 1] \in Nat
      BY <3>1
    <3>3. ASSUME NEW k \in 0 .. m, k # m PROVE p[k] \in Nat
      <4>1. k \in 0 .. m - 1
        BY <2>1, <3>3
      <4>2. QED
        BY <2>3, <4>1
    <3>4. QED
      BY <3>2, <3>3
  <2>5. r[0] = 1
    BY <1>4, <2>1, <2>3
  <2>6. ASSUME NEW k \in 1 .. m PROVE r[k] = 10 * r[k - 1]
    <3>1. k \in 0 .. m /\ k - 1 \in 0 .. m /\ k - 1 # m
      BY <2>1
    <3>2. r[k - 1] = p[k - 1]
      BY <3>1
    <3>3. CASE k = m
      BY <3>1, <3>2, <3>3
    <3>4. CASE k # m
      <4>1. k \in 1 .. m - 1 /\ r[k] = p[k]
        BY <2>1, <3>1, <3>4
      <4>2. QED
        BY <2>3, <3>2, <4>1
    <3>5. QED
      BY <3>3, <3>4
  <2>7. ArePowers(r, m)
    <3> HIDE DEF r
    <3>1. QED
      BY <2>4, <2>5, <2>6 DEF ArePowers
  <2>8. QED
    BY <1>2, <2>7
<1>5. QED
  BY <1>3, <1>4

(* Two such tables have the same powers.                                   *)
LEMMA PowersAgree ==
  ASSUME NEW n \in Nat, NEW m \in Nat, NEW p, NEW r, ArePowers(p, n), ArePowers(r, m),
         NEW k \in Nat, k <= n, k <= m
  PROVE  p[k] = r[k]
<1> DEFINE T == {j \in 0 .. k : p[j] # r[j]}
<1>1. SUFFICES ASSUME T # {} PROVE FALSE
  OBVIOUS
<1>2. PICK j \in T : \A i \in T : j <= i
  <2> HIDE DEF T
  <2>1. T \in SUBSET Nat
    BY DEF T
  <2>2. QED
    BY <1>1, <2>1, LeastMember
<1>3. CASE j = 0
  BY <1>2, <1>3 DEF ArePowers
<1>4. CASE j # 0
  <2>1. j - 1 \in 0 .. k /\ j - 1 \notin T /\ j \in 1 .. n /\ j \in 1 .. m
    BY <1>2, <1>4
  <2>2. p[j - 1] = r[j - 1]
    BY <2>1
  <2>3. p[j] = 10 * p[j - 1] /\ r[j] = 10 * r[j - 1]
    BY <2>1 DEF ArePowers
  <2>4. QED
    BY <1>2, <2>2, <2>3
<1>5. QED
  BY <1>3, <1>4

(* The table is what its definition says.                                  *)
LEMMA PowersDefined ==
  /\ POWERS_OF_TEN[0] = 1
  /\ \A n \in Nat : POWERS_OF_TEN[n + 1] = 10 * POWERS_OF_TEN[n]
<1> DEFINE choice(n) == CHOOSE p : ArePowers(p, n)
           P == [n \in Nat |-> choice(n)[n]]
           Body(f) == [exponent \in Nat |-> IF exponent = 0 THEN 1 ELSE 10 * f[exponent - 1]]
<1>1. \A n \in Nat : ArePowers(choice(n), n)
  BY PowersExist
<1>2. \A n \in Nat : P[n] = choice(n)[n]
  OBVIOUS
<1>3. ASSUME NEW n \in Nat PROVE P[n] = IF n = 0 THEN 1 ELSE 10 * P[n - 1]
  <2> HIDE DEF P, choice
  <2>1. CASE n = 0
    BY <1>1, <1>2, <2>1 DEF ArePowers
  <2>2. CASE n # 0
    <3>1. n - 1 \in Nat /\ n - 1 <= n /\ n \in 1 .. n
      BY <2>2
    <3>2. choice(n)[n] = 10 * choice(n)[n - 1]
      BY <1>1, <3>1 DEF ArePowers
    <3>3. choice(n)[n - 1] = choice(n - 1)[n - 1]
      BY <1>1, <3>1, PowersAgree
    <3>4. QED
      BY <1>2, <2>2, <3>1, <3>2, <3>3
  <2>3. QED
    BY <2>1, <2>2
<1>4. P = Body(P)
  <2>1. P = [n \in Nat |-> P[n]]
    OBVIOUS
  <2> HIDE DEF P
  <2>2. QED
    BY <1>3, <2>1
<1>5. POWERS_OF_TEN = Body(POWERS_OF_TEN)
  <2> HIDE DEF P
  <2>1. \E f : f = Body(f)
    BY <1>4
  <2>2. QED
    BY <2>1, Zenon DEF POWERS_OF_TEN
<1>6. \A n \in Nat : POWERS_OF_TEN[n] = IF n = 0 THEN 1 ELSE 10 * POWERS_OF_TEN[n - 1]
  BY <1>5
<1>7. QED
  <2>1. POWERS_OF_TEN[0] = 1
    BY <1>6
  <2>2. ASSUME NEW n \in Nat PROVE POWERS_OF_TEN[n + 1] = 10 * POWERS_OF_TEN[n]
    <3>1. n + 1 \in Nat /\ n + 1 # 0 /\ (n + 1) - 1 = n
      OBVIOUS
    <3>2. QED
      BY <1>6, <3>1
  <2>3. QED
    BY <2>1, <2>2

(* Powers are positive.                                                    *)
LEMMA PowersPositive ==
  ASSUME NEW n \in Nat
  PROVE  POWERS_OF_TEN[n] \in Nat /\ POWERS_OF_TEN[n] >= 1
<1> DEFINE T == {m \in Nat : ~(POWERS_OF_TEN[m] \in Nat /\ POWERS_OF_TEN[m] >= 1)}
<1>1. SUFFICES ASSUME T # {} PROVE FALSE
  OBVIOUS
<1>2. PICK m \in T : \A k \in T : m <= k
  <2> HIDE DEF T
  <2>1. T \in SUBSET Nat
    BY DEF T
  <2>2. QED
    BY <1>1, <2>1, LeastMember
<1>3. CASE m = 0
  BY <1>2, <1>3, PowersDefined
<1>4. CASE m # 0
  <2>1. m - 1 \in Nat /\ m - 1 \notin T /\ (m - 1) + 1 = m
    BY <1>2, <1>4
  <2>2. POWERS_OF_TEN[m - 1] \in Nat /\ POWERS_OF_TEN[m - 1] >= 1
    BY <2>1
  <2>3. POWERS_OF_TEN[m] = 10 * POWERS_OF_TEN[m - 1]
    BY <2>1, PowersDefined
  <2>4. QED
    BY <1>2, <2>2, <2>3
<1>5. QED
  BY <1>3, <1>4

(* The power of a sum is the product of the powers.                        *)
LEMMA PowerOfSum ==
  ASSUME NEW a \in Nat, NEW b \in Nat
  PROVE  POWERS_OF_TEN[a + b] = POWERS_OF_TEN[a] * POWERS_OF_TEN[b]
<1> DEFINE T == {m \in Nat : POWERS_OF_TEN[a + m] # POWERS_OF_TEN[a] * POWERS_OF_TEN[m]}
<1>1. SUFFICES ASSUME T # {} PROVE FALSE
  OBVIOUS
<1>2. PICK m \in T : \A k \in T : m <= k
  <2> HIDE DEF T
  <2>1. T \in SUBSET Nat
    BY DEF T
  <2>2. QED
    BY <1>1, <2>1, LeastMember
<1>3. CASE m = 0
  <2>1. a + 0 = a /\ POWERS_OF_TEN[a] * 1 = POWERS_OF_TEN[a]
    BY PowersPositive
  <2>2. QED
    BY <1>2, <1>3, <2>1, PowersDefined
<1>4. CASE m # 0
  <2>1. m - 1 \in Nat /\ m - 1 \notin T /\ (m - 1) + 1 = m /\ a + (m - 1) \in Nat
        /\ (a + (m - 1)) + 1 = a + m
    BY <1>2, <1>4
  <2>2. POWERS_OF_TEN[a + (m - 1)] = POWERS_OF_TEN[a] * POWERS_OF_TEN[m - 1]
    BY <2>1
  <2>3. POWERS_OF_TEN[m] = 10 * POWERS_OF_TEN[m - 1]
    BY <2>1, PowersDefined
  <2>4. POWERS_OF_TEN[a + m] = 10 * POWERS_OF_TEN[a + (m - 1)]
    BY <2>1, PowersDefined
  <2>5. POWERS_OF_TEN[a] \in Nat /\ POWERS_OF_TEN[m - 1] \in Nat
    BY <2>1, PowersPositive
  <2>6. \A x, y \in Nat : x * (10 * y) = 10 * (x * y)
    OBVIOUS
  <2>7. POWERS_OF_TEN[a] * (10 * POWERS_OF_TEN[m - 1]) = 10 * (POWERS_OF_TEN[a] * POWERS_OF_TEN[m - 1])
    BY <2>5, <2>6
  <2>8. QED
    BY <1>2, <2>2, <2>3, <2>4, <2>7
<1>5. QED
  BY <1>3, <1>4

-----------------------------------------------------------------------------
(* A number that leaves no remainder is its quotient times the divisor.    *)
LEMMA Divides ==
  ASSUME NEW x \in Int, NEW p \in Nat, p >= 1, x % p = 0
  PROVE  x \div p \in Int /\ x = (x \div p) * p
<1>1. x = p * (x \div p) + (x % p) /\ x \div p \in Int
  OBVIOUS
<1>2. QED
  BY <1>1

(* What is multiplied may be grouped at will.                              *)
LEMMA Associates ==
  ASSUME NEW a \in Int, NEW b \in Int, NEW c \in Int
  PROVE  (a * b) * c = a * (b * c)
OBVIOUS

(* Some number of trailing zeros can be taken off, and none is left.       *)
LEMMA ZerosFound ==
  ASSUME NEW d, d.digits \in Int, d.scale \in Nat
  PROVE  TrailingZeros(d) \in 0 .. d.scale /\ d.digits % POWERS_OF_TEN[TrailingZeros(d)] = 0
<1> DEFINE T == {m \in 0 .. d.scale : d.digits % POWERS_OF_TEN[d.scale - m] = 0}
<1>1. d.scale \in T
  <2>1. d.scale - d.scale = 0 /\ d.scale \in 0 .. d.scale
    OBVIOUS
  <2>2. d.digits % 1 = 0
    OBVIOUS
  <2>3. QED
    BY <2>1, <2>2, PowersDefined
<1>2. PICK m \in T : \A k \in T : m <= k
  <2> HIDE DEF T
  <2>1. T \in SUBSET Nat
    BY DEF T
  <2>2. QED
    BY <1>1, <2>1, LeastMember
<1>3. d.scale - m \in 0 .. d.scale /\ d.digits % POWERS_OF_TEN[d.scale - m] = 0
  BY <1>2
<1>4. ASSUME NEW j \in (d.scale - m) + 1 .. d.scale PROVE d.digits % POWERS_OF_TEN[j] # 0
  <2>1. d.scale - j \in 0 .. d.scale /\ d.scale - j < m /\ d.scale - (d.scale - j) = j
    BY <1>2, <1>3
  <2>2. d.scale - j \notin T
    BY <1>2, <2>1
  <2>3. QED
    BY <2>1, <2>2
<1>5. QED
  BY <1>3, <1>4 DEF TrailingZeros

(* A decimal stands for the amount it was read from.                       *)
IsDecimal(l) == l.digits \in Int /\ l.scale \in 0 .. Places

(* It has the amount's units, whatever zeros were taken off                *)
(* (decimalFromNormalized).                                                *)
LEMMA DecimalStands ==
  ASSUME NEW v \in CollectedValue
  PROVE  /\ IsDecimal(DecimalFromNormalized(v))
         /\ Units(v) = DecimalFromNormalized(v).digits
                        * POWERS_OF_TEN[Places - DecimalFromNormalized(v).scale]
<1> DEFINE d == ParseTableNumber(v)
           k == TrailingZeros(d)
           l == DecimalFromNormalized(v)
<1>1. Places \in Nat
  BY VerifyAssumption
<1>2. d.digits \in Int /\ d.scale \in 0 .. Places /\ d.scale \in Nat
  BY <1>1 DEF CollectedValue, ParseTableNumber
<1>3. Units(v) = d.digits * POWERS_OF_TEN[Places - d.scale]
  BY DEF Units
<1>4. l = [digits |-> d.digits \div POWERS_OF_TEN[k], scale |-> d.scale - k]
  BY DEF DecimalFromNormalized
<1> HIDE DEF d
<1>5. k \in 0 .. d.scale /\ d.digits % POWERS_OF_TEN[k] = 0
  BY <1>2, ZerosFound
<1> HIDE DEF k, l
<1>6. /\ k \in Nat /\ POWERS_OF_TEN[k] \in Nat /\ POWERS_OF_TEN[k] >= 1
      /\ Places - d.scale \in Nat /\ POWERS_OF_TEN[Places - d.scale] \in Nat
  BY <1>1, <1>2, <1>5, PowersPositive
<1>7. l.digits \in Int /\ d.digits = l.digits * POWERS_OF_TEN[k]
  BY <1>2, <1>4, <1>5, <1>6, Divides
<1>8. l.scale \in 0 .. Places /\ Places - l.scale = k + (Places - d.scale)
  BY <1>1, <1>2, <1>4, <1>5
<1>9. POWERS_OF_TEN[Places - l.scale] = POWERS_OF_TEN[k] * POWERS_OF_TEN[Places - d.scale]
  BY <1>6, <1>8, PowerOfSum
<1>10. (l.digits * POWERS_OF_TEN[k]) * POWERS_OF_TEN[Places - d.scale]
       = l.digits * (POWERS_OF_TEN[k] * POWERS_OF_TEN[Places - d.scale])
  BY <1>6, <1>7, Associates
<1>11. IsDecimal(l) /\ Units(v) = l.digits * POWERS_OF_TEN[Places - l.scale]
  BY <1>3, <1>7, <1>8, <1>9, <1>10 DEF IsDecimal
<1>12. QED
  BY <1>11 DEF l

(* Scaling does not change it.                                             *)
LEMMA ScaledStands ==
  ASSUME NEW l, IsDecimal(l), NEW m \in l.scale .. Places
  PROVE  /\ Scaled(l, m) \in Int
         /\ Scaled(l, m) * POWERS_OF_TEN[Places - m] = l.digits * POWERS_OF_TEN[Places - l.scale]
<1>1. /\ Places \in Nat /\ l.digits \in Int /\ l.scale \in Nat /\ m \in Nat
      /\ m - l.scale \in Nat /\ Places - m \in Nat
      /\ (m - l.scale) + (Places - m) = Places - l.scale
  BY VerifyAssumption DEF IsDecimal
<1>2. POWERS_OF_TEN[m - l.scale] \in Nat /\ POWERS_OF_TEN[Places - m] \in Nat
  BY <1>1, PowersPositive
<1>3. POWERS_OF_TEN[Places - l.scale] = POWERS_OF_TEN[m - l.scale] * POWERS_OF_TEN[Places - m]
  BY <1>1, PowerOfSum
<1>4. Scaled(l, m) = l.digits * POWERS_OF_TEN[m - l.scale]
  BY DEF Scaled
<1>5. (l.digits * POWERS_OF_TEN[m - l.scale]) * POWERS_OF_TEN[Places - m]
      = l.digits * (POWERS_OF_TEN[m - l.scale] * POWERS_OF_TEN[Places - m])
  BY <1>1, <1>2, Associates
<1>6. l.digits * POWERS_OF_TEN[m - l.scale] \in Int
  BY <1>1, <1>2
<1>7. QED
  BY <1>3, <1>4, <1>5, <1>6

(* The nearest multiple, an even one between two.                          *)
Nearest(off, unit, c) == 2 * off < unit \/ (2 * off = unit /\ c % 2 = 0)

(* So rounds roundedDifference: to the quotient or the one behind it.      *)
LEMMA NearestMultiple ==
  ASSUME NEW A \in Nat, NEW v \in Nat, v >= 1, NEW t \in Nat, t >= 1,
         NEW c, c = IF Rounds(A % v, v, A \div v) THEN A \div v + 1 ELSE A \div v
  PROVE  /\ c \in Nat
         /\ \E off \in Nat : /\ off = A * t - c * (v * t) \/ off = c * (v * t) - A * t
                            /\ Nearest(off, v * t, c)
<1> DEFINE w == A \div v  rest == A % v
<1>1. w \in Nat /\ rest \in Nat /\ rest < v /\ A = v * w + rest
  OBVIOUS
<1>2. c = IF Rounds(rest, v, w) THEN w + 1 ELSE w
  OBVIOUS
<1>8. rest \in Nat /\ 2 * rest \in Nat
  BY <1>1
<1> HIDE DEF w, rest
<1>3. A * t = w * (v * t) + rest * t
  <2>1. (v * w + rest) * t = w * (v * t) + rest * t
    BY <1>1
  <2>2. QED
    BY <1>1, <2>1
<1>4. v * t \in Nat /\ rest * t \in Nat /\ w * (v * t) \in Nat
  BY <1>1
<1>5. CASE ~Rounds(rest, v, w)
  <2>1. 2 * rest <= v /\ (2 * rest = v => w % 2 = 0)
    <3>1. rest * 2 = 2 * rest /\ w % 2 \in Int
      BY <1>1
    <3>2. QED
      BY <1>1, <1>5, <3>1 DEF Rounds
  <2>2. c = w
    BY <1>2, <1>5
  <2>3. rest * t = A * t - c * (v * t)
    BY <1>3, <1>4, <2>2
  <2>4. CASE 2 * rest = v
    <3>1. 2 * (rest * t) = v * t
      <4>1. (2 * rest) * t = 2 * (rest * t)
        BY <1>1
      <4>2. QED
        BY <2>4, <4>1
    <3>2. Nearest(rest * t, v * t, c)
      BY <2>1, <2>2, <2>4, <3>1 DEF Nearest
    <3>3. QED
      BY <1>1, <1>4, <2>2, <2>3, <3>2
  <2>5. CASE 2 * rest # v
    <3>1. 2 * (rest * t) < v * t
      <4>1. v - 2 * rest >= 1
        BY <1>8, <2>1, <2>5
      <4>2. (v - 2 * rest) * t >= 1
        BY <1>1, <4>1
      <4>3. (v - 2 * rest) * t = v * t - 2 * (rest * t)
        BY <1>1
      <4>4. QED
        BY <1>4, <4>2, <4>3
    <3>2. Nearest(rest * t, v * t, c)
      BY <3>1 DEF Nearest
    <3>3. QED
      BY <1>1, <1>4, <2>2, <2>3, <3>2
  <2>6. QED
    BY <2>4, <2>5
<1>6. CASE Rounds(rest, v, w)
  <2>1. 2 * rest >= v /\ (2 * rest = v => (w + 1) % 2 = 0)
    <3>1. rest * 2 = 2 * rest /\ (w % 2 # 0 => (w + 1) % 2 = 0)
      BY <1>1
    <3>2. QED
      BY <1>1, <1>6, <3>1 DEF Rounds
  <2>2. c = w + 1
    BY <1>2, <1>6
  <2>3. c * (v * t) = w * (v * t) + v * t
    <3>1. \A a, b \in Nat : (a + 1) * b = a * b + b
      OBVIOUS
    <3>2. QED
      BY <1>1, <1>4, <2>2, <3>1
  <2>4. v * t - rest * t = c * (v * t) - A * t
    BY <1>3, <1>4, <2>3
  <2>5. (v - rest) * t = v * t - rest * t
    BY <1>1
  <2>6. (v - rest) * t \in Nat
    <3>1. v - rest \in Nat
      BY <1>1
    <3>2. QED
      BY <3>1
  <2>7. 2 * (rest * t) >= v * t /\ (2 * (rest * t) = v * t => 2 * rest = v)
    <3>1. (2 * rest - v) * t = 2 * (rest * t) - v * t
      BY <1>1
    <3>2. 2 * rest - v \in Nat
      BY <1>8, <2>1
    <3> DEFINE x == 2 * rest - v
    <3>3. \A y \in Nat : y * t \in Nat /\ (y # 0 => y * t >= 1)
      OBVIOUS
    <3>4. x * t \in Nat /\ (x # 0 => x * t >= 1)
      BY <3>2, <3>3
    <3>5. 2 * (rest * t) \in Nat /\ v * t \in Nat /\ x * t = 2 * (rest * t) - v * t
      BY <1>4, <3>1
    <3>6. 2 * (rest * t) >= v * t /\ (x # 0 => 2 * (rest * t) # v * t)
      <4> HIDE DEF x
      <4>1. QED
        BY <3>4, <3>5
    <3>7. x = 0 => 2 * rest = v
      BY <1>8
    <3>8. QED
      BY <3>6, <3>7
  <2>8. Nearest((v - rest) * t, v * t, c)
    <3>1. 2 * ((v - rest) * t) = 2 * (v * t) - 2 * (rest * t)
      BY <1>4, <2>5
    <3>2. CASE 2 * (rest * t) = v * t
      <4>1. 2 * ((v - rest) * t) = v * t
        BY <1>4, <3>1, <3>2
      <4>2. QED
        BY <2>1, <2>2, <2>7, <3>2, <4>1 DEF Nearest
    <3>3. CASE 2 * (rest * t) > v * t
      <4>1. 2 * ((v - rest) * t) < v * t
        BY <1>4, <3>1, <3>3
      <4>2. QED
        BY <4>1 DEF Nearest
    <3>4. QED
      BY <1>4, <2>7, <3>2, <3>3
  <2>9. c \in Nat
    BY <1>1, <2>2
  <2>10. QED
    BY <2>4, <2>5, <2>6, <2>8, <2>9
<1>7. QED
  BY <1>5, <1>6

(* What lies between two decimals, in units of the last place.             *)
Between(l, r) ==
  l.digits * POWERS_OF_TEN[Places - l.scale] - r.digits * POWERS_OF_TEN[Places - r.scale]

(* The scaled difference stands for it.                                    *)
LEMMA DifferenceStands ==
  ASSUME NEW l, IsDecimal(l), NEW r, IsDecimal(r)
  PROVE  /\ MaxScaleOf(l, r) \in 0 .. Places
         /\ Scaled(l, MaxScaleOf(l, r)) \in Int /\ Scaled(r, MaxScaleOf(l, r)) \in Int
         /\ POWERS_OF_TEN[Places - MaxScaleOf(l, r)] \in Nat
         /\ (Scaled(l, MaxScaleOf(l, r)) - Scaled(r, MaxScaleOf(l, r)))
              * POWERS_OF_TEN[Places - MaxScaleOf(l, r)] = Between(l, r)
<1> DEFINE m == MaxScaleOf(l, r)
<1>1. Places \in Nat /\ l.scale \in 0 .. Places /\ r.scale \in 0 .. Places
  BY VerifyAssumption DEF IsDecimal
<1>2. m \in 0 .. Places /\ m \in l.scale .. Places /\ m \in r.scale .. Places
  BY <1>1 DEF MaxScaleOf
<1> HIDE DEF m
<1>3. /\ Scaled(l, m) \in Int
      /\ Scaled(l, m) * POWERS_OF_TEN[Places - m] = l.digits * POWERS_OF_TEN[Places - l.scale]
  BY <1>2, ScaledStands
<1>4. /\ Scaled(r, m) \in Int
      /\ Scaled(r, m) * POWERS_OF_TEN[Places - m] = r.digits * POWERS_OF_TEN[Places - r.scale]
  BY <1>2, ScaledStands
<1>5. POWERS_OF_TEN[Places - m] \in Nat
  <2>1. Places - m \in Nat
    BY <1>1, <1>2
  <2>2. QED
    BY <2>1, PowersPositive
<1>6. (Scaled(l, m) - Scaled(r, m)) * POWERS_OF_TEN[Places - m]
      = Scaled(l, m) * POWERS_OF_TEN[Places - m] - Scaled(r, m) * POWERS_OF_TEN[Places - m]
  <2>1. \A x, y, z \in Int : (x - y) * z = x * z - y * z
    OBVIOUS
  <2>2. QED
    BY <1>3, <1>4, <1>5, <2>1
<1>7. QED
  BY <1>2, <1>3, <1>4, <1>5, <1>6 DEF Between, m

(* Equal decimals are equal amounts (decimalEqual).                        *)
LEMMA EqualStands ==
  ASSUME NEW l, IsDecimal(l), NEW r, IsDecimal(r), DecimalEqual(l, r)
  PROVE  Between(l, r) = 0
<1>1. Scaled(l, MaxScaleOf(l, r)) - Scaled(r, MaxScaleOf(l, r)) = 0
  BY DifferenceStands DEF DecimalEqual
<1>2. \A z \in Nat : 0 * z = 0
  OBVIOUS
<1>3. QED
  BY <1>1, <1>2, DifferenceStands

(* The difference that is reported is the nearest cent, an even one        *)
(* between two (roundedDifference).                                        *)
LEMMA DifferenceIsNearest ==
  ASSUME NEW l, IsDecimal(l), NEW r, IsDecimal(r)
  PROVE  Nearest(Abs(Between(l, r) - RoundedDifference(l, r) * POWERS_OF_TEN[Places - 2]),
                 POWERS_OF_TEN[Places - 2], RoundedDifference(l, r))
<1> DEFINE m == MaxScaleOf(l, r)
           D == Scaled(l, m) - Scaled(r, m)
           t == POWERS_OF_TEN[Places - m]
           cent == POWERS_OF_TEN[Places - 2]
           c == RoundedDifference(l, r)
<1>1. Places \in Nat /\ Places >= 2
  BY VerifyAssumption
<1>2. m \in 0 .. Places /\ D \in Int /\ D * t = Between(l, r)
  BY DifferenceStands
<1>3. /\ Places - m \in Nat /\ t \in Nat /\ t >= 1
      /\ Places - 2 \in Nat /\ cent \in Nat /\ cent >= 1
  <2>1. Places - m \in Nat /\ Places - 2 \in Nat
    BY <1>1, <1>2
  <2> HIDE DEF m
  <2>2. QED
    BY <2>1, PowersPositive
<1>4. CASE m <= 2
  <2>1. c = D * POWERS_OF_TEN[2 - m]
    BY <1>4 DEF RoundedDifference
  <2> HIDE DEF m, D, c
  <2>2. 2 - m \in Nat /\ (2 - m) + (Places - 2) = Places - m
    BY <1>1, <1>2, <1>4
  <2>3. POWERS_OF_TEN[2 - m] \in Nat
    BY <2>2, PowersPositive
  <2>4. t = POWERS_OF_TEN[2 - m] * cent
    BY <1>3, <2>2, PowerOfSum
  <2>5. c * cent = D * t
    <3> HIDE DEF t, cent
    <3>1. (D * POWERS_OF_TEN[2 - m]) * cent = D * (POWERS_OF_TEN[2 - m] * cent)
      BY <1>2, <1>3, <2>3, Associates
    <3>2. QED
      BY <2>1, <2>4, <3>1
  <2>6. Between(l, r) \in Int
    <3> HIDE DEF t
    <3>1. D * t \in Int
      BY <1>2, <1>3
    <3>2. QED
      BY <1>2, <3>1
  <2> HIDE DEF t, cent
  <2>7. Between(l, r) - c * cent = 0
    BY <1>2, <2>5, <2>6
  <2>8. Abs(0) = 0
    BY DEF Abs
  <2>9. 2 * 0 < cent
    BY <1>3
  <2>10. Nearest(Abs(Between(l, r) - c * cent), cent, c)
    BY <2>7, <2>8, <2>9 DEF Nearest
  <2>11. QED
    BY <2>10 DEF c, cent
<1>5. CASE m > 2
  <2> DEFINE v == POWERS_OF_TEN[m - 2]
             A == Abs(D)
             n == IF Rounds(A % v, v, A \div v) THEN A \div v + 1 ELSE A \div v
  <2>1. c = IF D < 0 THEN -n ELSE n
    <3>1. ~(m <= 2)
      BY <1>2, <1>5
    <3>2. QED
      BY <3>1 DEF RoundedDifference
  <2> HIDE DEF m, D, c
  <2>2. m - 2 \in Nat /\ v \in Nat /\ v >= 1 /\ (m - 2) + (Places - m) = Places - 2
    <3>1. m - 2 \in Nat /\ (m - 2) + (Places - m) = Places - 2
      BY <1>1, <1>2, <1>5
    <3>2. QED
      BY <3>1, PowersPositive
  <2>3. cent = v * t
    BY <1>3, <2>2, PowerOfSum
  <2> HIDE DEF v, t, cent
  <2>4. A \in Nat /\ (D < 0 => A = -D) /\ (~(D < 0) => A = D)
    BY <1>2 DEF Abs
  <2> HIDE DEF A
  <2>5. /\ n \in Nat
        /\ \E off \in Nat : /\ off = A * t - n * (v * t) \/ off = n * (v * t) - A * t
                            /\ Nearest(off, v * t, n)
    BY <1>3, <2>2, <2>4, NearestMultiple
  <2> HIDE DEF n
  <2>6. PICK off \in Nat : /\ off = A * t - n * cent \/ off = n * cent - A * t
                           /\ Nearest(off, cent, n)
    BY <2>3, <2>5
  <2>7. \A x \in Nat, y \in Nat : x * y \in Nat /\ (-x) * y = -(x * y)
    OBVIOUS
  <2>8. A * t \in Nat /\ n * cent \in Nat /\ (-A) * t = -(A * t) /\ (-n) * cent = -(n * cent)
    BY <1>3, <2>4, <2>5, <2>7
  <2>9. \A x \in Int : (x = off \/ x = -off) => Abs(x) = off
    BY DEF Abs
  <2>10. CASE D < 0
    <3>1. D = -A /\ c = -n
      BY <1>2, <2>1, <2>4, <2>10
    <3>2. Between(l, r) - c * cent = -(A * t) - (-(n * cent))
      BY <1>2, <2>8, <3>1
    <3>3. -(A * t) - (-(n * cent)) = off \/ -(A * t) - (-(n * cent)) = -off
      BY <2>6, <2>8
    <3>4. Abs(Between(l, r) - c * cent) = off
      BY <2>9, <3>2, <3>3
    <3>5. n % 2 = 0 => c % 2 = 0
      BY <2>5, <3>1
    <3>6. Nearest(off, cent, c)
      BY <2>6, <3>5 DEF Nearest
    <3>7. QED
      BY <3>4, <3>6 DEF c, cent
  <2>11. CASE ~(D < 0)
    <3>1. D = A /\ c = n
      BY <2>1, <2>4, <2>11
    <3>2. Between(l, r) - c * cent = A * t - n * cent
      BY <1>2, <3>1
    <3>3. A * t - n * cent = off \/ A * t - n * cent = -off
      BY <2>6, <2>8
    <3>4. Abs(Between(l, r) - c * cent) = off
      BY <2>9, <3>2, <3>3
    <3>5. QED
      BY <2>6, <3>1, <3>4 DEF c, cent
  <2>12. QED
    BY <2>10, <2>11
<1>6. QED
  BY <1>2, <1>4, <1>5

-----------------------------------------------------------------------------
(* What an expectation may mean, and what is said of it.                   *)

(* The number a place has among those of a set.                            *)
Rank(same, i) == Cardinality({j \in same : j <= i})

(* Of the places whose names fit, one is at the place that was counted.    *)
LEMMA OneIsCounted ==
  ASSUME NEW n \in Nat, NEW same, same \subseteq 1 .. n, NEW i \in same, NEW k \in same,
         Rank(same, i) = Rank(same, k)
  PROVE  i = k
<1>1. ASSUME NEW a \in same, NEW b \in same, a < b
      PROVE  Rank(same, a) # Rank(same, b)
  <2> DEFINE A == {j \in same : j <= a}  B == {j \in same : j <= b}
  <2>1. IsFiniteSet(1 .. n)
    BY FS_Interval
  <2>2. IsFiniteSet(B)
    <3>1. B \subseteq 1 .. n
      OBVIOUS
    <3>2. QED
      BY <2>1, <3>1, FS_Subset
  <2>3. A \subseteq B /\ b \in B /\ b \notin A
    <3>1. \A x \in same : x \in Int
      OBVIOUS
    <3>2. a \in Int /\ b \in Int /\ ~(b <= a) /\ b <= b
      BY <1>1, <3>1
    <3>3. \A x \in same : x <= a => x <= b
      BY <1>1, <3>1, <3>2
    <3>4. QED
      BY <3>2, <3>3
  <2> HIDE DEF A, B
  <2>4. Cardinality(A) = Cardinality(B) => A = B
    BY <2>2, <2>3, FS_Subset
  <2>5. QED
    BY <2>3, <2>4 DEF Rank, A, B
<1>2. i < k \/ k < i \/ i = k
  OBVIOUS
<1>3. QED
  BY <1>1, <1>2

(* The place that resolveMatch finds, if any, is the one that may have     *)
(* been meant.                                                             *)
LEMMA MatchIsMeant ==
  ASSUME NEW names, NEW n \in Nat, DOMAIN names = 1 .. n, NEW needle, NEW occurrence \in Nat,
         NEW i \in Fits(names, needle, occurrence),
         ResolveMatch(names, needle, occurrence) # {0},
         ResolveMatch(names, needle, occurrence) # {}
  PROVE  i \in 1 .. n /\ ResolveMatch(names, needle, occurrence) = {i}
<1> DEFINE same == {j \in DOMAIN names : FoldLocalOrdinal(names[j]) = FoldLocalOrdinal(needle)}
<1>1. i \in same /\ (occurrence # 0 => Cardinality({j \in same : j <= i}) = occurrence)
  BY DEF Fits
<1>2. Matches(names, needle) = same
  BY <1>1 DEF Matches
<1>3. ResolveMatch(names, needle, occurrence) = Chosen(same, occurrence)
  BY <1>2 DEF ResolveMatch
<1>4. same \subseteq 1 .. n
  OBVIOUS
<1> HIDE DEF same
<1>5. CASE occurrence = 0
  <2>1. Cardinality(same) = 1 /\ Chosen(same, occurrence) = same
    BY <1>3, <1>5 DEF Chosen
  <2>2. IsFiniteSet(same)
    <3>1. IsFiniteSet(1 .. n)
      BY FS_Interval
    <3>2. QED
      BY <1>4, <3>1, FS_Subset
  <2>3. PICK x : same = {x}
    BY <2>1, <2>2, FS_Singleton
  <2>4. QED
    BY <1>1, <1>3, <1>4, <2>1, <2>3
<1>6. CASE occurrence # 0
  <2>1. Chosen(same, occurrence) = {Nth(same, occurrence)}
    BY <1>3, <1>6 DEF Chosen
  <2> DEFINE k == Nth(same, occurrence)
  <2>2. k \in same /\ Cardinality({j \in same : j <= k}) = occurrence
    <3>1. \E x \in same : Cardinality({j \in same : j <= x}) = occurrence
      BY <1>1, <1>6
    <3>2. QED
      BY <3>1 DEF Nth
  <2> HIDE DEF k
  <2>3. i = k
    <3>1. i \in same /\ k \in same /\ Rank(same, i) = Rank(same, k)
      BY <1>1, <1>6, <2>2 DEF Rank
    <3>2. QED
      BY <1>4, <3>1, OneIsCounted
  <2>4. QED
    BY <1>1, <1>3, <1>4, <2>1, <2>3 DEF k
<1>7. QED
  BY <1>5, <1>6

(* A comparison that is not left to the worker is true of two values.      *)
SaysTrue(equal, difference, v, w) ==
  /\ equal => IF Numeric(v) THEN Numeric(w) /\ Units(v) - Units(w) = 0
              ELSE FoldLocalValue(v.text) = FoldLocalValue(w.text)
  /\ Numeric(v) /\ Numeric(w)
     => Nearest(Abs((Units(v) - Units(w)) - difference * POWERS_OF_TEN[Places - 2]),
                POWERS_OF_TEN[Places - 2], difference)

(* What is compared is what is meant: texts by their folded form, amounts  *)
(* by their units (compareValues).                                         *)
LEMMA ComparisonTells ==
  ASSUME NEW v \in CollectedValue, NEW w \in CollectedValue, ~CompareValues(v, w).fallback
  PROVE  SaysTrue(CompareValues(v, w).equal, CompareValues(v, w).difference, v, w)
<1>1. CASE v.mark = "text" \/ w.mark = "text"
  <2>1. CompareValues(v, w) = Same(v.mark = w.mark
                                   /\ FoldLocalValue(v.text) = FoldLocalValue(w.text), 0)
    BY <1>1 DEF CompareValues, Unsure
  <2>2. CompareValues(v, w).equal = (v.mark = w.mark
                                     /\ FoldLocalValue(v.text) = FoldLocalValue(w.text))
    <3> DEFINE b == v.mark = w.mark /\ FoldLocalValue(v.text) = FoldLocalValue(w.text)
    <3>1. CompareValues(v, w) = Same(b, 0)
      BY <2>1
    <3> HIDE DEF b
    <3>2. CompareValues(v, w).equal = b
      BY <3>1 DEF Same
    <3>3. QED
      BY <3>2 DEF b
  <2>3. QED
    BY <1>1, <2>2 DEF SaysTrue, Numeric
<1>2. CASE ~(v.mark = "text" \/ w.mark = "text")
  <2> DEFINE l == DecimalFromNormalized(v)  r == DecimalFromNormalized(w)
  <2>1. CompareValues(v, w) = Same(DecimalEqual(l, r), RoundedDifference(l, r))
    BY <1>2 DEF CompareValues, Unsure
  <2>2. IsDecimal(l) /\ IsDecimal(r)
    BY DecimalStands
  <2>3. Units(v) - Units(w) = Between(l, r)
    BY DecimalStands DEF Between
  <2> HIDE DEF l, r
  <2>4. DecimalEqual(l, r) => Units(v) - Units(w) = 0
    BY <2>2, <2>3, EqualStands
  <2>5. Nearest(Abs((Units(v) - Units(w)) - RoundedDifference(l, r) * POWERS_OF_TEN[Places - 2]),
                POWERS_OF_TEN[Places - 2], RoundedDifference(l, r))
    BY <2>2, <2>3, DifferenceIsNearest
  <2>6. /\ CompareValues(v, w).equal = DecimalEqual(l, r)
        /\ CompareValues(v, w).difference = RoundedDifference(l, r)
    BY <2>1 DEF Same
  <2>7. QED
    BY <1>2, <2>4, <2>5, <2>6 DEF SaysTrue, Numeric
<1>3. QED
  BY <1>1, <1>2

(* The status of an expectation is true of every value that may have been  *)
(* meant (compareCollectExpectations).                                     *)
LEMMA StatusTells ==
  ASSUME NEW doc \in CollectedDocument, NEW e \in Expectation, NEW v \in Meant(doc, e),
         Status(doc, e).kind \in {"equal", "differs"}
  PROVE  v \in CollectedValue /\ SaysTrue(Status(doc, e).kind = "equal", Status(doc, e).difference, v, e.value)
<1> DEFINE p == ResolveMatch(PageNames(doc), e.page, e.pageOccurrence)
<1>1. /\ e.value \in CollectedValue /\ e.pageOccurrence \in Nat /\ e.labelOccurrence \in Nat
      /\ doc.pages \in Seq(CollectedPage)
  BY DEF Expectation, CollectedDocument
<1>2. PICK i \in Fits(PageNames(doc), e.page, e.pageOccurrence) :
        \E j \in Fits(Labels(doc.pages[i]), e.label, e.labelOccurrence) :
           v = doc.pages[i].fields[j].value
  BY DEF Meant
<1>3. PICK j \in Fits(Labels(doc.pages[i]), e.label, e.labelOccurrence) :
        v = doc.pages[i].fields[j].value
  BY <1>2
<1>4. p # {0} /\ p # {}
  BY DEF Status, FailureStatus
<1>5. DOMAIN PageNames(doc) = 1 .. Len(doc.pages) /\ Len(doc.pages) \in Nat
  BY <1>1 DEF PageNames
<1>6. i \in 1 .. Len(doc.pages) /\ p = {i}
  BY <1>1, <1>4, <1>5, MatchIsMeant
<1>7. doc.pages[i] \in CollectedPage
  BY <1>1, <1>6
<1> DEFINE page == doc.pages[i]
           f == ResolveMatch(Labels(page), e.label, e.labelOccurrence)
<1>8. page.fields \in Seq([label : STRING, value : CollectedValue])
  BY <1>7 DEF CollectedPage
<1>9. (CHOOSE x \in p : TRUE) = i
  BY <1>6
<1> HIDE DEF p
<1>10. Status(doc, e) =
         IF f = {0} THEN [kind |-> "fallback", difference |-> 0]
         ELSE IF f = {} THEN FailureStatus
         ELSE LET c == CompareValues(page.fields[CHOOSE x \in f : TRUE].value, e.value)
              IN [kind |-> IF c.fallback THEN "fallback"
                           ELSE IF c.equal THEN "equal" ELSE "differs",
                  difference |-> c.difference]
  BY <1>4, <1>9 DEF Status, p
<1>11. f # {0} /\ f # {}
  <2> HIDE DEF page, f
  <2>1. CASE f = {0}
    <3>1. Status(doc, e) = [kind |-> "fallback", difference |-> 0]
      BY <1>10, <2>1
    <3>2. Status(doc, e).kind = "fallback"
      BY <3>1
    <3>3. QED
      BY <3>2
  <2>2. CASE f # {0} /\ f = {}
    <3>1. Status(doc, e) = [kind |-> "not-found", difference |-> 0]
      BY <1>10, <2>2 DEF FailureStatus
    <3>2. Status(doc, e).kind = "not-found"
      BY <3>1
    <3>3. QED
      BY <3>2
  <2>3. QED
    BY <2>1, <2>2
<1>12. DOMAIN Labels(page) = 1 .. Len(page.fields) /\ Len(page.fields) \in Nat
  BY <1>8 DEF Labels
<1> HIDE DEF page
<1>13. j \in 1 .. Len(page.fields) /\ f = {j}
  BY <1>1, <1>3, <1>11, <1>12, MatchIsMeant DEF page
<1>14. (CHOOSE x \in f : TRUE) = j
  BY <1>13
<1>15. v = page.fields[j].value
  BY <1>3 DEF page
<1>16. v \in CollectedValue
  <2>1. page.fields[j] \in [label : STRING, value : CollectedValue]
    <3> DEFINE S == [label : STRING, value : CollectedValue]
    <3>1. page.fields \in Seq(S) /\ j \in 1 .. Len(page.fields)
      BY <1>8, <1>13
    <3> HIDE DEF S
    <3>2. page.fields[j] \in S
      BY <3>1
    <3>3. QED
      BY <3>2 DEF S
  <2>2. QED
    BY <1>15, <2>1
<1> HIDE DEF f
<1> DEFINE c == CompareValues(v, e.value)
<1>17. Status(doc, e) = [kind |-> IF c.fallback THEN "fallback"
                                  ELSE IF c.equal THEN "equal" ELSE "differs",
                         difference |-> c.difference]
  BY <1>10, <1>11, <1>14, <1>15
<1> HIDE DEF c
<1>18. ~c.fallback /\ (Status(doc, e).kind = "equal" => c.equal) /\ Status(doc, e).difference = c.difference
  BY <1>17
<1>19. SaysTrue(c.equal, c.difference, v, e.value)
  BY <1>1, <1>16, <1>18, ComparisonTells DEF c
<1>20. QED
  BY <1>16, <1>18, <1>19 DEF SaysTrue

-----------------------------------------------------------------------------
(* The comparison with expectations.                                       *)

(* Both reads have found the same content, that the caller named, and the  *)
(* file as it was.                                                         *)
ReadTwice == again # << >> /\ again[1].content = wanted /\ again[1].edits = bytes[1].edits

(* What a comparison speaks of, and that it has no answer before its end.  *)
VerifyKnown ==
  /\ wanted \in Sources /\ expected \in Expectations /\ partial \in BOOLEAN
  /\ halted \in {"no", "aborted", "timeout"}
  /\ vpc \in {"reread", "compare"} => bytes # << >> /\ bytes[1].content = wanted
  /\ vpc = "compare" => ReadTwice
  /\ vpc # "done" => vanswer = << >>
  /\ VerifyAnswerIsTrue

(* The statuses of a comparison of the content the caller named are true.  *)
LEMMA ComparedIsTrue ==
  ASSUME VerifyKnown, wanted' = wanted, expected' = expected, partial' = partial,
         wanted.complete = "yes" \/ partial, ReadTwice, UNCHANGED <<bytes, again>>,
         vanswer' = <<[kind |-> "compared", statuses |-> CompareCollectExpectations(wanted, expected)]>>
  PROVE  VerifyAnswerIsTrue'
<1>1. wanted \in CollectedDocument /\ expected \in Seq(Expectation)
  BY VerifyAssumption DEF VerifyKnown
<1>2. ASSUME NEW i \in DOMAIN expected, NEW v \in Meant(wanted, expected[i])
      PROVE  LET s == vanswer'[1].statuses[i]
                 exact == Units(v) - Units(expected[i].value)
                 cent == POWERS_OF_TEN[Places - 2]
                 off == Abs(exact - s.difference * cent)
             IN /\ s.kind = "equal" =>
                     IF Numeric(v) THEN Numeric(expected[i].value) /\ exact = 0
                     ELSE FoldLocalValue(v.text) = FoldLocalValue(expected[i].value.text)
                /\ s.kind = "differs" /\ Numeric(v) /\ Numeric(expected[i].value)
                     => 2 * off < cent \/ (2 * off = cent /\ s.difference % 2 = 0)
  <2> DEFINE e == expected[i]  s == Status(wanted, e)
  <2>1. e \in Expectation
    BY <1>1
  <2>2. vanswer'[1].statuses = CompareCollectExpectations(wanted, expected)
    OBVIOUS
  <2>3. vanswer'[1].statuses[i] = s
    BY <2>2 DEF CompareCollectExpectations
  <2> HIDE DEF s
  <2>4. s.kind \in {"equal", "differs"} => SaysTrue(s.kind = "equal", s.difference, v, e.value)
    BY <1>1, <2>1, StatusTells DEF s
  <2>5. s.kind = "equal" =>
          IF Numeric(v) THEN Numeric(e.value) /\ Units(v) - Units(e.value) = 0
          ELSE FoldLocalValue(v.text) = FoldLocalValue(e.value.text)
    BY <2>4 DEF SaysTrue
  <2>6. s.kind = "differs" /\ Numeric(v) /\ Numeric(e.value)
        => Nearest(Abs((Units(v) - Units(e.value)) - s.difference * POWERS_OF_TEN[Places - 2]),
                   POWERS_OF_TEN[Places - 2], s.difference)
    BY <2>4 DEF SaysTrue
  <2>7. QED
    BY <2>3, <2>5, <2>6 DEF Nearest
<1>3. QED
  BY <1>2 DEF VerifyAnswerIsTrue, ReadTwice

(* Every step of a comparison keeps what is known of it.                   *)
LEMMA VerifyKeeps ==
  ASSUME VerifyKnown, VerifyNext
  PROVE  VerifyKnown'
<1>1. UNCHANGED <<wanted, expected, partial>>
  BY DEF VerifyNext, FirstRead, SecondRead, ExecuteLocalVerify, SomebodyCollects, VerifyHalts
<1>2. ASSUME vanswer' = << >> \/ vanswer'[1].kind # "compared"
      PROVE  VerifyAnswerIsTrue'
  BY <1>2 DEF VerifyAnswerIsTrue
<1>4. halted \in {"no", "aborted", "timeout"} /\ halted' \in {"no", "aborted", "timeout"}
  BY DEF VerifyKnown, VerifyNext, FirstRead, SecondRead, ExecuteLocalVerify, SomebodyCollects,
         VerifyHalts
<1>3. ASSUME NEW kind, NEW statuses, Ends(kind, statuses), kind # "compared"
      PROVE  VerifyKnown'
  <2>1. vpc' = "done" /\ vanswer' = <<[kind |-> kind, statuses |-> statuses]>>
    BY <1>3 DEF Ends
  <2>2. vanswer'[1].kind # "compared"
    BY <1>3, <2>1
  <2>3. QED
    BY <1>1, <1>2, <1>4, <2>1, <2>2 DEF VerifyKnown
<1>5. halted # "compared"
  BY <1>4
<1>6. ASSUME vanswer' = vanswer, vpc' = vpc \/ (vpc' = "reread" /\ vpc = "read"),
             vpc # "done",
             vpc' \in {"reread", "compare"} => bytes' # << >> /\ bytes'[1].content = wanted,
             vpc' = "compare" => UNCHANGED <<bytes, again>>
      PROVE  VerifyKnown'
  <2>1. vanswer = << >>
    BY <1>6 DEF VerifyKnown
  <2>2. VerifyAnswerIsTrue'
    BY <1>2, <1>6, <2>1
  <2>3. QED
    BY <1>1, <1>4, <1>6, <2>1, <2>2 DEF VerifyKnown, ReadTwice
<1>12. ASSUME ReadFailed PROVE VerifyKnown'
  <2>1. PICK kind \in {"verification-source-changed", "bad-args", "invalid-source"} :
          LocalResult(kind, << >>)
    BY <1>12 DEF ReadFailed
  <2>2. QED
    BY <1>3, <1>5, <2>1 DEF LocalResult
<1>7. CASE FirstRead
  <2>1. CASE ReadFailed
    BY <1>12, <2>1
  <2>2. CASE /\ bytes' = <<Read>>
             /\ IF halted # "no" THEN Ends(halted, << >>)
                ELSE IF source # wanted THEN Ends("precondition-failed", << >>)
                ELSE vpc' = "reread" /\ UNCHANGED vanswer
    <3>1. bytes' # << >> /\ bytes'[1].content = source
      BY <2>2 DEF Read
    <3>2. CASE vpc' = "reread" /\ UNCHANGED vanswer /\ source = wanted
      BY <1>6, <1>7, <3>1, <3>2 DEF FirstRead
    <3>3. QED
      BY <1>3, <1>5, <2>2, <3>2
  <2>3. QED
    BY <1>7, <2>1, <2>2 DEF FirstRead
<1>8. CASE SecondRead
  <2>1. vpc = "reread" /\ UNCHANGED bytes /\ bytes # << >> /\ bytes[1].content = wanted
    BY <1>8 DEF SecondRead, VerifyKnown
  <2>2. CASE vpc' = "compare" /\ UNCHANGED vanswer /\ again' = <<Read>> /\ SameSource
    <3>1. vanswer = << >>
      BY <2>1 DEF VerifyKnown
    <3>2. VerifyAnswerIsTrue'
      BY <1>2, <2>2, <3>1
    <3>3. ReadTwice'
      BY <1>1, <2>1, <2>2 DEF SameSource, ReadTwice
    <3>4. QED
      BY <1>1, <1>4, <2>1, <2>2, <3>1, <3>2, <3>3 DEF VerifyKnown
  <2>3. CASE ReadFailed
    BY <1>12, <2>3
  <2>4. QED
    BY <1>3, <1>5, <1>8, <2>2, <2>3 DEF SecondRead
<1>9. CASE ExecuteLocalVerify
  <2> DEFINE statuses == CompareCollectExpectations(wanted, expected)
  <2>1. vpc = "compare" /\ bytes[1].content = wanted /\ ReadTwice /\ UNCHANGED <<bytes, again>>
    BY <1>9 DEF ExecuteLocalVerify, VerifyKnown
  <2>2. \/ Ends(halted, << >>) \/ Ends("invalid-source", << >>)
        \/ Ends("verification-source-incomplete", << >>) \/ Ends("worker-fallback", << >>)
        \/ Ends("compared", statuses) /\ (wanted.complete = "yes" \/ partial)
    <3> HIDE DEF statuses
    <3>1. QED
      BY <1>9, <2>1 DEF ExecuteLocalVerify, statuses
  <2>3. CASE Ends("compared", statuses) /\ (wanted.complete = "yes" \/ partial)
    <3>1. vpc' = "done" /\ vanswer' = <<[kind |-> "compared", statuses |-> statuses]>>
      BY <2>3 DEF Ends
    <3>2. VerifyAnswerIsTrue'
      BY <1>1, <2>1, <2>3, <3>1, ComparedIsTrue
    <3>3. QED
      BY <1>1, <1>4, <3>1, <3>2 DEF VerifyKnown
  <2>4. QED
    BY <1>3, <1>5, <2>2, <2>3
<1>10. CASE SomebodyCollects \/ VerifyHalts
  <2>1. vpc # "done" /\ UNCHANGED <<vpc, bytes, again, vanswer>>
    BY <1>10 DEF SomebodyCollects, VerifyHalts
  <2>2. QED
    BY <1>6, <2>1 DEF VerifyKnown
<1>11. QED
  BY <1>7, <1>8, <1>9, <1>10 DEF VerifyNext

-----------------------------------------------------------------------------
(* The case files.                                                         *)

(* What the reads of case files have come to.  A read that ends in a       *)
(* statement is of a file that nobody wrote to meanwhile.                  *)
ReadKinds == Statements \cup UnderWay \cup {"resource-changed", "not-found", "aborted", "fallback"}
CasesTyped ==
  /\ hpc \in {"idle", "list", "reading", "hash", "hashing", "done"}
  /\ cancel \in {"no", "aborted", "timeout"}
  /\ heads \in [CaseNames -> Headers] /\ rewritten \subseteq CaseNames
  /\ DOMAIN reads \subseteq CaseNames /\ \A n \in DOMAIN reads : reads[n] \in ReadKinds
  /\ borneOut \in [CaseNames -> SUBSET Statements]
  /\ cases \in Seq(Statements) /\ DOMAIN cases \subseteq CaseNames

CasePhases ==
  /\ hpc # "done" => hanswer = "none"
  /\ hpc \in {"list", "reading"} => batch \in CaseNames /\ Len(cases) = batch - 1
  /\ hpc = "reading" => DOMAIN reads = Batch
  /\ hpc = "hashing" => DOMAIN reads = {1} /\ reads[1] \in UnderWay
  /\ hpc \notin {"reading", "hashing"} => \A n \in DOMAIN reads : reads[n] \notin UnderWay
  /\ hanswer = "ok" => Len(cases) \in {1, CaseFiles}

CasesTold ==
  /\ \A n \in CaseNames : BearsOut(heads[n]) \subseteq borneOut[n]
  /\ \A n \in DOMAIN reads : reads[n] \in Statements => reads[n] \in borneOut[n]
  /\ \A n \in DOMAIN cases : cases[n] \in borneOut[n]

CasesKnown == CasesTyped /\ CasePhases /\ CasesTold

(* The first record that is not parsed.                                    *)
LEMMA ParsedIsReadable ==
  ASSUME NEW header \in Seq(HeaderRecord)
  PROVE  1 .. LastParsed(header) = Readable(header)
<1> DEFINE Ending(i) == header[i].name \in {"SvCrypted", "damaged"}
           ends == {i \in DOMAIN header : Ending(i)} \cup {Len(header) + 1} \cup {MaxRecords + 1}
           m == CHOOSE i \in ends : \A j \in ends : i <= j
<1>1. /\ Len(header) \in Nat /\ DOMAIN header = 1 .. Len(header) /\ MaxRecords \in Nat
      /\ LastParsed(header) = m - 1
  BY CaseFileAssumption DEF LastParsed
<1>2. /\ Len(header) + 1 \in ends /\ MaxRecords + 1 \in ends
      /\ \A i \in 1 .. Len(header) : Ending(i) => i \in ends
      /\ \A i \in ends : i \in Nat \ {0}
      /\ \A i \in ends : i # Len(header) + 1 /\ i # MaxRecords + 1 => i \in 1 .. Len(header) /\ Ending(i)
  BY <1>1
<1>3. Readable(header) = {i \in 1 .. Len(header) : i <= MaxRecords /\ \A j \in 1 .. i : ~Ending(j)}
  BY <1>1 DEF Readable
<1> HIDE DEF ends, Ending
<1>4. m \in ends /\ \A j \in ends : m <= j
  <2>1. ends \in SUBSET Nat /\ ends # {}
    BY <1>2
  <2>2. \E i \in ends : \A j \in ends : i <= j
    BY <2>1, LeastMember
  <2>3. QED
    BY <2>2
<1> HIDE DEF m
<1>5. m \in Nat \ {0} /\ m <= Len(header) + 1 /\ m <= MaxRecords + 1
  BY <1>2, <1>4
<1>6. ASSUME NEW i \in 1 .. m - 1
      PROVE  i \in 1 .. Len(header) /\ i <= MaxRecords /\ \A j \in 1 .. i : ~Ending(j)
  <2>1. i \in 1 .. Len(header) /\ i <= MaxRecords
    BY <1>1, <1>5
  <2>2. ASSUME NEW j \in 1 .. i, Ending(j) PROVE FALSE
    <3>1. j \in ends /\ j < m
      BY <1>1, <1>2, <1>5, <2>1, <2>2
    <3>2. QED
      BY <1>4, <1>5, <3>1
  <2>3. QED
    BY <2>1, <2>2
<1>7. ASSUME NEW i \in 1 .. Len(header), i <= MaxRecords, \A j \in 1 .. i : ~Ending(j)
      PROVE  i \in 1 .. m - 1
  <2>1. m \notin 1 .. i
    <3>1. CASE m = Len(header) + 1 \/ m = MaxRecords + 1
      BY <1>1, <1>7, <3>1
    <3>2. CASE m # Len(header) + 1 /\ m # MaxRecords + 1
      BY <1>2, <1>4, <1>7, <3>2
    <3>3. QED
      BY <3>1, <3>2
  <2>2. QED
    BY <1>1, <1>5, <2>1
<1>8. QED
  BY <1>1, <1>3, <1>6, <1>7

(* What is told of a case is borne out by its header.                      *)
LEMMA ToldIsTrue ==
  ASSUME NEW header \in Seq(HeaderRecord)
  PROVE  Transmitted(header) \in Statements /\ Transmitted(header) \in BearsOut(header)
<1> DEFINE r == {i \in 1 .. LastParsed(header) : header[i].name = "ElsterTransferTime"}
           i0 == CHOOSE i \in r : \A j \in r : j <= i
<1>1. r = TransferRecords(header) /\ r = TransferTimes(header)
  BY ParsedIsReadable DEF TransferRecords, TransferTimes
<1>2. r \subseteq 1 .. Len(header) /\ Len(header) \in Nat
  BY <1>1 DEF Readable, TransferTimes
<1> HIDE DEF r
<1>3. r # {} => i0 \in r /\ \A j \in r : j <= i0
  <2> SUFFICES ASSUME r # {} PROVE \E i \in r : \A j \in r : j <= i
    OBVIOUS
  <2> DEFINE T == {k \in 0 .. Len(header) : Len(header) - k \in r}
  <2>1. T \in SUBSET Nat
    OBVIOUS
  <2>2. ASSUME NEW i \in r PROVE Len(header) - i \in T
    <3>1. Len(header) - i \in 0 .. Len(header) /\ Len(header) - (Len(header) - i) = i
      BY <1>2
    <3>2. QED
      BY <3>1
  <2>3. T # {}
    BY <2>2
  <2>4. PICK m \in T : \A k \in T : m <= k
    <3> HIDE DEF T
    <3>1. QED
      BY <2>1, <2>3, LeastMember
  <2>5. Len(header) - m \in r /\ m \in Nat
    BY <2>4
  <2>6. ASSUME NEW j \in r PROVE j <= Len(header) - m
    <3>1. m <= Len(header) - j
      <4> HIDE DEF T
      <4>1. QED
        BY <2>2, <2>4
    <3>2. QED
      BY <1>2, <2>5, <3>1
  <2>7. QED
    BY <2>5, <2>6
<1> HIDE DEF i0
<1> DEFINE last == header[i0]
<1>4. Transmitted(header) = IF ~Parseable(header) \/ r = {} THEN "unknown"
        ELSE IF last.type # "text" THEN "unknown"
        ELSE CASE last.value = "time" -> "yes"
               [] last.value = "placeholder" -> "no"
               [] OTHER -> "unknown"
  BY <1>1 DEF Transmitted, i0
<1>5. Transmitted(header) \in Statements
  BY <1>4 DEF Statements
<1>6. Transmitted(header) = "no" => r # {} /\ last.value = "placeholder"
  BY <1>4
<1>7. ASSUME Transmitted(header) = "no"
      PROVE  /\ r # {}
             /\ \A i \in r : (header[i].type = "text" /\ header[i].value = "time") => \E j \in r : j > i
  <2>1. r # {} /\ last.value = "placeholder" /\ i0 \in r /\ \A j \in r : j <= i0
    BY <1>3, <1>6, <1>7
  <2>2. ASSUME NEW i \in r, header[i].value = "time" PROVE i0 > i
    <3>1. i # i0
      BY <2>1, <2>2
    <3>2. QED
      BY <1>2, <2>1, <3>1
  <2>3. QED
    BY <2>1, <2>2
<1>8. ASSUME Transmitted(header) = "yes"
      PROVE  \E i \in r : IsTime(header[i]) /\ \A j \in r : j <= i
  <2>1. r # {} /\ last.type = "text" /\ last.value = "time"
    BY <1>4, <1>8
  <2>2. QED
    BY <1>3, <2>1 DEF IsTime
<1>9. QED
  BY <1>1, <1>5, <1>7, <1>8 DEF BearsOut, ClaimHolds, IsTime

(* A batch is a run of files.                                              *)
LEMMA BatchIs ==
  ASSUME batch \in CaseNames
  PROVE  \E top \in CaseNames :
           /\ top >= batch /\ Batch = batch .. top /\ Cardinality(Batch) = top - batch + 1
           /\ \/ top = batch + Concurrency - 1
              \/ top = CaseFiles /\ batch + Concurrency > CaseFiles
<1> DEFINE top == IF batch + Concurrency - 1 <= CaseFiles THEN batch + Concurrency - 1 ELSE CaseFiles
<1>1. CaseFiles \in Nat \ {0} /\ Concurrency \in Nat \ {0} /\ CaseNames = 1 .. CaseFiles
  BY CaseFileAssumption DEF CaseNames
<1>2. /\ top \in CaseNames /\ top >= batch
      /\ \/ top = batch + Concurrency - 1
         \/ top = CaseFiles /\ batch + Concurrency > CaseFiles
  BY <1>1
<1>3. Batch = batch .. top
  BY <1>1 DEF Batch
<1> HIDE DEF top
<1>4. Cardinality(batch .. top) = top - batch + 1
  <2>1. batch \in Int /\ top \in Int /\ ~(batch > top)
    BY <1>1, <1>2
  <2>2. Cardinality(batch .. top) = IF batch > top THEN 0 ELSE top - batch + 1
    BY <2>1, FS_Interval
  <2>3. QED
    BY <2>1, <2>2
<1>5. QED
  BY <1>2, <1>3, <1>4

(* Every step of a listing or a hash keeps what is known of it.            *)
LEMMA CasesKeep ==
  ASSUME CasesKnown, CaseFileNext
  PROVE  CasesKnown'
<1> USE DEF CasesKnown
<1>1. 1 \in CaseNames
  BY CaseFileAssumption DEF CaseNames
<1>2. ASSUME NEW n \in CaseNames
      PROVE  Transmitted(heads[n]) \in Statements /\ Transmitted(heads[n]) \in borneOut[n]
  <2>1. heads[n] \in Seq(HeaderRecord)
    BY CaseFileAssumption DEF CasesTyped
  <2>2. QED
    BY <2>1, ToldIsTrue DEF CasesTold
<1>13. ASSUME NEW n \in CaseNames
       PROVE  "unknown" \in borneOut[n]
  BY DEF CasesTold, BearsOut, ClaimHolds, Statements
<1>3. ASSUME UNCHANGED <<heads, rewritten, borneOut, reads, batch, cancel, cases>>,
             NEW kind, kind # "ok", CaseFileEnds(kind),
             \A n \in DOMAIN reads : reads[n] \notin UnderWay
      PROVE  CasesKnown'
  <2>1. CasesTyped'
    BY <1>3 DEF CasesTyped, CaseFileEnds
  <2>2. CasePhases'
    BY <1>3 DEF CasePhases, CaseFileEnds
  <2>3. CasesTold'
    BY <1>3 DEF CasesTold
  <2>4. QED
    BY <2>1, <2>2, <2>3
<1>4. cancel \in {"no", "aborted", "timeout"}
  BY DEF CasesTyped
<1>5. CASE StartBatch
  <2>1. hpc = "list" /\ UNCHANGED <<heads, rewritten, borneOut, batch, cancel, cases>>
    BY <1>5 DEF StartBatch
  <2>2. CASE cancel # "no" /\ CaseFileEnds(cancel) /\ UNCHANGED reads
    BY <1>3, <1>4, <2>1, <2>2 DEF CasePhases
  <2>3. CASE hpc' = "reading" /\ reads' = [n \in Batch |-> "open"] /\ UNCHANGED hanswer
    <3>1. batch \in CaseNames /\ Len(cases) = batch - 1 /\ hanswer = "none"
      BY <2>1 DEF CasePhases
    <3>2. Batch' = Batch /\ Batch \subseteq CaseNames
      BY <2>1 DEF Batch
    <3>3. DOMAIN reads' = Batch /\ \A n \in Batch : reads'[n] = "open"
      BY <2>3
    <3>4. CasesTyped'
      BY <2>1, <2>3, <3>2, <3>3 DEF CasesTyped, ReadKinds, UnderWay
    <3>5. CasePhases'
      BY <2>1, <2>3, <3>1, <3>2, <3>3 DEF CasePhases
    <3>6. CasesTold'
      BY <2>1, <3>3 DEF CasesTold, Statements
    <3>7. QED
      BY <3>4, <3>5, <3>6
  <2>4. QED
    BY <1>5, <2>2, <2>3 DEF StartBatch
<1>6. CASE ReadCase
  <2>1. hpc = "reading" /\ UNCHANGED <<heads, rewritten, borneOut, batch, cancel, cases, hpc, hanswer>>
    BY <1>6 DEF ReadCase
  <2>12. PICK n \in DOMAIN reads : \E fault \in {"resource-changed", "not-found"}, said \in Says(n) :
          reads' = [reads EXCEPT ![n] =
              IF cancel # "no" THEN "aborted"
              ELSE IF ~SameFileState(n) THEN fault
              ELSE IF said = "unreadable" THEN "fallback" ELSE said]
    BY <1>6 DEF ReadCase
  <2>2. PICK fault \in {"resource-changed", "not-found"}, said \in Says(n) :
          reads' = [reads EXCEPT ![n] =
              IF cancel # "no" THEN "aborted"
              ELSE IF ~SameFileState(n) THEN fault
              ELSE IF said = "unreadable" THEN "fallback" ELSE said]
    BY <2>12
  <2> DEFINE read == IF cancel # "no" THEN "aborted"
              ELSE IF ~SameFileState(n) THEN fault
              ELSE IF said = "unreadable" THEN "fallback" ELSE said
  <2>3. n \in CaseNames
    BY DEF CasesTyped
  <2>4. SameFileState(n) /\ said # "unreadable" => said \in Statements /\ said \in borneOut[n]
    BY <1>2, <2>3 DEF Says, SameFileState
  <2>5. /\ read \in ReadKinds /\ (read \in Statements => read \in borneOut[n])
    BY <2>4 DEF ReadKinds, Statements
  <2>6. reads' = [reads EXCEPT ![n] = read]
    BY <2>2
  <2> HIDE DEF read
  <2>7. DOMAIN reads' = DOMAIN reads /\ reads'[n] = read
        /\ \A k \in DOMAIN reads : k # n => reads'[k] = reads[k]
    BY <2>6
  <2>8. CasesTyped'
    BY <2>1, <2>5, <2>7 DEF CasesTyped
  <2>9. CasePhases'
    <3>1. Batch' = Batch
      BY <2>1 DEF Batch
    <3>2. QED
      BY <2>1, <2>7, <3>1 DEF CasePhases
  <2>10. CasesTold'
    <3>1. \A k \in DOMAIN reads : reads'[k] \in Statements => reads'[k] \in borneOut[k]
      BY <2>5, <2>7 DEF CasesTold
    <3>2. QED
      BY <2>1, <2>7, <3>1 DEF CasesTold
  <2>11. QED
    BY <2>8, <2>9, <2>10
<1>7. CASE BatchEnds
  <2>1. /\ hpc = "reading" /\ UNCHANGED <<heads, rewritten, borneOut, reads, cancel>>
        /\ \A n \in DOMAIN reads : reads[n] \notin UnderWay
    BY <1>7 DEF BatchEnds, Settled
  <2>2. CASE cancel # "no" /\ CaseFileEnds(cancel) /\ UNCHANGED <<cases, batch>>
    BY <1>3, <1>4, <2>1, <2>2
  <2>3. CASE /\ Failed # {} /\ UNCHANGED <<cases, batch>>
             /\ CaseFileEnds(reads[CHOOSE n \in Failed : \A k \in Failed : n <= k])
    <3> DEFINE n0 == CHOOSE n \in Failed : \A k \in Failed : n <= k
    <3>1. Failed \in SUBSET Nat
      BY DEF Failed, CasesTyped, CaseNames
    <3>2. \E n \in Failed : \A k \in Failed : n <= k
      BY <2>3, <3>1, LeastMember
    <3>3. n0 \in Failed
      BY <3>2
    <3> HIDE DEF n0
    <3>4. reads[n0] \in {"resource-changed", "not-found", "aborted", "fallback"}
      BY <3>3 DEF Failed, CasesTyped, ReadKinds
    <3>5. CaseFileEnds(reads[n0])
      BY <2>3 DEF n0
    <3>6. QED
      BY <1>3, <2>1, <2>3, <3>4, <3>5
  <2>4. CASE /\ Failed = {}
             /\ cases' = cases \o [i \in 1..Cardinality(DOMAIN reads) |-> reads[batch + i - 1]]
             /\ batch' = batch + Concurrency
             /\ IF batch' > CaseFiles THEN CaseFileEnds("ok") ELSE hpc' = "list" /\ UNCHANGED hanswer
    <3>1. /\ batch \in CaseNames /\ batch \in Nat \ {0} /\ Len(cases) = batch - 1 /\ DOMAIN reads = Batch
          /\ hanswer = "none"
      BY <2>1 DEF CasePhases, CaseNames
    <3>2. PICK top \in CaseNames :
            /\ top >= batch /\ Batch = batch .. top /\ Cardinality(Batch) = top - batch + 1
            /\ \/ top = batch + Concurrency - 1
               \/ top = CaseFiles /\ batch + Concurrency > CaseFiles
      BY <3>1, BatchIs
    <3>3. CaseNames = 1 .. CaseFiles /\ CaseFiles \in Nat \ {0} /\ Concurrency \in Nat \ {0} /\ top \in Nat
      BY CaseFileAssumption DEF CaseNames
    <3>4. \A n \in batch .. top : reads[n] \in Statements
      BY <2>1, <2>4, <3>1, <3>2 DEF Failed, CasesTyped
    <3> DEFINE added == [i \in 1 .. top - batch + 1 |-> reads[batch + i - 1]]
    <3>5. added \in Seq(Statements) /\ Len(added) = top - batch + 1
      <4>1. \A i \in 1 .. top - batch + 1 : batch + i - 1 \in batch .. top
        BY <3>1, <3>3
      <4>2. added \in [1 .. top - batch + 1 -> Statements]
        BY <3>4, <4>1
      <4>3. top - batch + 1 \in Nat
        BY <3>1, <3>2, <3>3
      <4> HIDE DEF added
      <4>4. QED
        BY <4>2, <4>3
    <3>6. cases' = cases \o added
      BY <2>4, <3>1, <3>2
    <3>7. \A i \in 1 .. top - batch + 1 : added[i] = reads[batch + i - 1]
      OBVIOUS
    <3> HIDE DEF added
    <3>8. cases \in Seq(Statements)
      BY DEF CasesTyped
    <3>9. /\ cases' \in Seq(Statements) /\ Len(cases') = top
          /\ \A n \in 1 .. batch - 1 : cases'[n] = cases[n]
          /\ \A n \in batch .. top : cases'[n] = added[n - (batch - 1)]
      <4>1. cases' \in Seq(Statements) /\ Len(cases') = Len(cases) + Len(added)
        BY <3>5, <3>6, <3>8
      <4>2. Len(cases') = top
        BY <3>1, <3>3, <3>5, <4>1
      <4>3. \A n \in 1 .. top : cases'[n] = IF n <= Len(cases) THEN cases[n] ELSE added[n - Len(cases)]
        BY <3>5, <3>6, <3>8, <4>1, <4>2
      <4>4. \A n \in 1 .. batch - 1 : n \in 1 .. top /\ n <= Len(cases)
        BY <3>1, <3>2, <3>3
      <4>5. \A n \in batch .. top : n \in 1 .. top /\ ~(n <= Len(cases))
        BY <3>1, <3>2, <3>3
      <4>6. QED
        BY <3>1, <4>1, <4>2, <4>3, <4>4, <4>5
    <3>10. ASSUME NEW n \in batch .. top PROVE cases'[n] = reads[n]
      <4>1. n - (batch - 1) \in 1 .. top - batch + 1 /\ batch + (n - (batch - 1)) - 1 = n
        BY <3>1, <3>3
      <4>2. QED
        BY <3>7, <3>9, <4>1
    <3>11. CasesTold'
      <4>1. ASSUME NEW n \in DOMAIN cases' PROVE cases'[n] \in borneOut[n]
        <5>1. n \in 1 .. top
          BY <3>9
        <5>2. CASE n \in 1 .. batch - 1
          <6>1. n \in DOMAIN cases
            BY <3>1, <3>8, <5>2
          <6>2. QED
            BY <3>9, <5>2, <6>1 DEF CasesTold
        <5>3. CASE n \in batch .. top
          BY <3>1, <3>2, <3>4, <3>10, <5>3 DEF CasesTold
        <5>4. QED
          BY <3>1, <3>3, <5>1, <5>2, <5>3
      <4>2. QED
        BY <2>1, <4>1 DEF CasesTold
    <3>12. CasesTyped'
      <4>1. DOMAIN cases' = 1 .. top /\ 1 .. top \subseteq CaseNames
        BY <3>3, <3>9
      <4>2. hpc' \in {"done", "list"}
        BY <2>4 DEF CaseFileEnds
      <4>3. QED
        BY <2>1, <3>9, <4>1, <4>2 DEF CasesTyped
    <3>13. CasePhases'
      <4>1. CASE batch' > CaseFiles
        <5>1. top = CaseFiles /\ hpc' = "done"
          BY <2>4, <3>1, <3>2, <3>3, <4>1 DEF CaseFileEnds
        <5>2. QED
          BY <2>1, <3>9, <5>1 DEF CasePhases
      <4>2. CASE ~(batch' > CaseFiles)
        <5>1. top = batch' - 1 /\ batch' \in CaseNames /\ hpc' = "list" /\ hanswer' = "none"
          BY <2>4, <3>1, <3>2, <3>3, <4>2
        <5>2. QED
          BY <2>1, <3>9, <5>1 DEF CasePhases
      <4>3. QED
        BY <4>1, <4>2
    <3>14. QED
      BY <3>11, <3>12, <3>13
  <2>5. QED
    BY <1>7, <2>2, <2>3, <2>4 DEF BatchEnds
<1>8. CASE OpenCase
  <2>1. hpc = "hash" /\ UNCHANGED <<heads, rewritten, borneOut, batch, cancel, cases>>
        /\ \A n \in DOMAIN reads : reads[n] \notin UnderWay
    BY <1>8 DEF OpenCase, CasePhases
  <2>2. CASE \/ CaseFileEnds(Normalized("not-found")) /\ UNCHANGED reads
             \/ CaseFileEnds(Normalized("unsupported-case")) /\ UNCHANGED reads
    BY <1>3, <1>4, <2>1, <2>2 DEF Normalized
  <2>3. CASE hpc' = "hashing" /\ reads' = <<"open">> /\ UNCHANGED hanswer
    <3>1. DOMAIN reads' = {1} /\ reads'[1] = "open"
      BY <2>3
    <3>2. CasesTyped'
      BY <1>1, <2>1, <2>3, <3>1 DEF CasesTyped, ReadKinds, UnderWay
    <3>3. CasePhases'
      BY <2>1, <2>3, <3>1 DEF CasePhases, UnderWay
    <3>4. CasesTold'
      BY <2>1, <3>1 DEF CasesTold, Statements
    <3>5. QED
      BY <3>2, <3>3, <3>4
  <2>4. QED
    BY <1>8, <2>2, <2>3 DEF OpenCase
<1>9. CASE ReadCaseFileInfo
  <2>1. hpc = "hashing" /\ UNCHANGED <<heads, rewritten, borneOut, batch, cancel>> /\ hpc' = "done"
    BY <1>9 DEF ReadCaseFileInfo, CaseFileEnds
  <2>2. ASSUME UNCHANGED cases, hanswer' # "ok", NEW kind \in {"aborted", "resource-changed"}, reads' = <<kind>>
        PROVE  CasesKnown'
    <3>1. DOMAIN reads' = {1} /\ reads'[1] = kind
      BY <2>2
    <3>2. CasesTyped'
      BY <1>1, <2>1, <2>2, <3>1 DEF CasesTyped, ReadKinds
    <3>3. CasePhases'
      BY <2>1, <2>2, <3>1 DEF CasePhases, UnderWay
    <3>4. CasesTold'
      BY <2>1, <2>2, <3>1 DEF CasesTold, Statements
    <3>5. QED
      BY <3>2, <3>3, <3>4
  <2>3. ASSUME NEW word \in Statements, word \in borneOut[1], cases' = <<word>>, reads' = <<word>>
        PROVE  CasesKnown'
    <3>1. DOMAIN reads' = {1} /\ reads'[1] = word /\ DOMAIN cases' = {1} /\ cases'[1] = word
      BY <2>3
    <3>2. cases' \in Seq(Statements) /\ Len(cases') = 1
      BY <2>3
    <3>3. CasesTyped'
      BY <1>1, <2>1, <2>3, <3>1, <3>2 DEF CasesTyped, ReadKinds
    <3>4. CasePhases'
      BY <2>1, <2>3, <3>1, <3>2 DEF CasePhases, Statements, UnderWay
    <3>5. CasesTold'
      BY <2>1, <2>3, <3>1 DEF CasesTold
    <3>6. QED
      BY <3>3, <3>4, <3>5
  <2>4. CASE cancel # "no" /\ CaseFileEnds(cancel) /\ UNCHANGED cases /\ reads' = <<"aborted">>
    BY <1>4, <2>2, <2>4 DEF CaseFileEnds
  <2>5. CASE /\ UNCHANGED cases /\ reads' = <<"resource-changed">>
             /\ CaseFileEnds(Normalized("resource-changed"))
    BY <1>4, <2>2, <2>5 DEF CaseFileEnds, Normalized
  <2>6. CASE /\ SameFileState(1) /\ reads' = cases'
             /\ \E said \in Says(1) : cases' = <<IF said = "unreadable" THEN "unknown" ELSE said>>
    <3>1. PICK said \in Says(1) : cases' = <<IF said = "unreadable" THEN "unknown" ELSE said>>
      BY <2>6
    <3> DEFINE word == IF said = "unreadable" THEN "unknown" ELSE said
    <3>2. word \in Statements /\ word \in borneOut[1]
      <4>1. "unknown" \in borneOut[1] /\ "unknown" \in Statements
        BY <1>1, <1>13 DEF Statements
      <4>2. said # "unreadable" => said \in Statements /\ said \in borneOut[1]
        BY <1>1, <1>2, <2>6 DEF Says, SameFileState
      <4>3. QED
        BY <4>1, <4>2
    <3>3. cases' = <<word>> /\ reads' = <<word>>
      BY <2>6, <3>1
    <3> HIDE DEF word
    <3>4. QED
      BY <2>3, <3>2, <3>3
  <2>7. QED
    BY <1>9, <2>4, <2>5, <2>6 DEF ReadCaseFileInfo
<1>10. CASE SomebodySavesCase
  <2>1. /\ hpc # "done" /\ UNCHANGED <<batch, cancel, cases, hpc, hanswer>>
        /\ \E n \in CaseNames \ rewritten, h \in Headers :
             /\ heads' = [heads EXCEPT ![n] = h] /\ rewritten' = rewritten \cup {n}
             /\ borneOut' = [borneOut EXCEPT ![n] = @ \cup BearsOut(h)]
             /\ reads' = IF n \in DOMAIN reads /\ reads[n] = "open"
                         THEN [reads EXCEPT ![n] = "rewritten"] ELSE reads
    BY <1>10 DEF SomebodySavesCase
  <2>2. PICK n \in CaseNames \ rewritten, h \in Headers :
             /\ heads' = [heads EXCEPT ![n] = h] /\ rewritten' = rewritten \cup {n}
             /\ borneOut' = [borneOut EXCEPT ![n] = @ \cup BearsOut(h)]
             /\ reads' = IF n \in DOMAIN reads /\ reads[n] = "open"
                         THEN [reads EXCEPT ![n] = "rewritten"] ELSE reads
    BY <2>1
  <2>3. DOMAIN reads' = DOMAIN reads
        /\ \A k \in DOMAIN reads : \/ reads'[k] = reads[k]
                                   \/ reads'[k] = "rewritten" /\ reads[k] = "open"
    BY <2>2
  <2>4. heads' \in [CaseNames -> Headers] /\ \A k \in CaseNames : k # n => heads'[k] = heads[k]
    BY <2>2 DEF CasesTyped
  <2>9. /\ heads'[n] = h /\ borneOut'[n] = borneOut[n] \cup BearsOut(h)
        /\ \A k \in CaseNames : k # n => borneOut'[k] = borneOut[k]
        /\ borneOut' \in [CaseNames -> SUBSET Statements]
    <3>1. BearsOut(h) \subseteq Statements
      BY DEF BearsOut
    <3>2. QED
      BY <2>2, <3>1 DEF CasesTyped
  <2>5. CasesTyped'
    BY <2>1, <2>2, <2>3, <2>4, <2>9 DEF CasesTyped, ReadKinds, UnderWay
  <2>6. CasePhases'
    <3>1. Batch' = Batch
      BY <2>1 DEF Batch
    <3>2. QED
      BY <2>1, <2>3, <3>1 DEF CasePhases, UnderWay
  <2>7. CasesTold'
    <3>1. \A k \in DOMAIN reads : reads'[k] \in Statements => reads'[k] = reads[k]
      BY <2>3 DEF Statements
    <3>2. \A k \in CaseNames : borneOut[k] \subseteq borneOut'[k]
      BY <2>9
    <3>3. \A k \in CaseNames : BearsOut(heads'[k]) \subseteq borneOut'[k]
      BY <2>4, <2>9 DEF CasesTold
    <3>4. DOMAIN reads \subseteq CaseNames /\ DOMAIN cases \subseteq CaseNames
      BY DEF CasesTyped
    <3>5. QED
      BY <2>1, <2>3, <3>1, <3>2, <3>3, <3>4 DEF CasesTold
  <2>8. QED
    BY <2>5, <2>6, <2>7
<1>11. CASE CallEnds
  <2>1. /\ cancel' \in {"aborted", "timeout"}
        /\ UNCHANGED <<heads, rewritten, borneOut, batch, reads, cases, hpc, hanswer>>
    BY <1>11 DEF CallEnds
  <2>2. Batch' = Batch
    BY <2>1 DEF Batch
  <2>3. QED
    BY <2>1, <2>2 DEF CasesTyped, CasePhases, CasesTold
<1>12. QED
  BY <1>5, <1>6, <1>7, <1>8, <1>9, <1>10, <1>11 DEF CaseFileNext

-----------------------------------------------------------------------------
(* The text files.                                                         *)

(* What is open is the file of one name: its bytes are a text that stood   *)
(* there, or they are torn, and then the change shows.                     *)
Stood(name, got) == got \in versions[name] \cap Texts
Opens(name) ==
  \E o \in opened : /\ opened = {o} /\ o.name = name
                    /\ \/ Stood(name, o.bytes)
                       \/ o.bytes = "torn" /\ o.changed = TRUE /\ name \in touched

FilesTyped ==
  /\ WorkspaceTypeOK
  /\ found = [n \in DOMAIN found |-> found[n]] /\ \A n \in DOMAIN found : found[n] \in BOOLEAN

(* A text file that nobody disturbed is listed or still to be looked at.   *)
FilesSeen ==
  fpc \in {"entry", "hash", "path"} =>
    \A n \in Names \ touched :
      files[n] \in Texts => n \in DOMAIN listed \/ (n \in DOMAIN found /\ found[n])

FilesOpen ==
  /\ fpc \in {"hash", "path"} => DOMAIN found # {}
  /\ fpc = "path" => NextName \in DOMAIN listed
  /\ fpc = "hash" => Opens(NextName)
  /\ fpc = "reread" => Opens(1)

FilesListed ==
  /\ \A n \in Names : files[n] \in versions[n]
  /\ \A n \in DOMAIN listed :
       \/ Stood(n, listed[n])
       \/ listed[n] = "omitted" /\ fanswer # "text"
       \/ listed[n] = "torn" /\ fanswer = "text" /\ n \in touched

FilesAnswered ==
  /\ fpc # "done" => fanswer = "none"
  /\ fanswer = "ok" => \A n \in Names \ touched : files[n] \in Texts => n \in DOMAIN listed

FilesKnown == FilesTyped /\ FilesSeen /\ FilesOpen /\ FilesListed /\ FilesAnswered

(* The entry that is looked at is one of those still to be looked at.      *)
LEMMA NextIsFound ==
  ASSUME DOMAIN found \subseteq Names, DOMAIN found # {}
  PROVE  NextName \in DOMAIN found
<1>1. DOMAIN found \in SUBSET Nat
  BY WorkspaceAssumption DEF Names
<1>2. \E n \in DOMAIN found : \A k \in DOMAIN found : n <= k
  BY <1>1, LeastMember
<1>3. QED
  BY <1>2 DEF NextName

(* There is nothing left to look at only when nothing was found.           *)
LEMMA NothingLeft ==
  ASSUME found = [n \in DOMAIN found |-> found[n]]
  PROVE  found # << >> <=> DOMAIN found # {}
<1>1. found = << >> => DOMAIN found = {}
  BY SMT
<1>2. ASSUME DOMAIN found = {} PROVE found = << >>
  <2>1. found = [n \in {} |-> found[n]]
    BY <1>2
  <2>2. << >> = [n \in {} |-> found[n]]
    OBVIOUS
  <2>3. QED
    BY <2>1, <2>2
<1>3. QED
  BY <1>1, <1>2

(* What is left when one entry is taken away.                              *)
LEMMA WithoutIs ==
  ASSUME NEW f, NEW name
  PROVE  /\ DOMAIN Without(f, name) = DOMAIN f \ {name}
         /\ \A n \in DOMAIN f \ {name} : Without(f, name)[n] = f[n]
         /\ Without(f, name) = [n \in DOMAIN Without(f, name) |-> Without(f, name)[n]]
BY DEF Without

(* Every step of an operation on text files keeps what is known of them.   *)
LEMMA FilesKeep ==
  ASSUME FilesKnown, WorkspaceNext
  PROVE  FilesKnown'
<1> USE DEF FilesKnown
<1>1. /\ Names = 1 .. Entries /\ 1 \in Names /\ Entries \in Nat
      /\ HashBudget \in Nat /\ budget \in 0 .. HashBudget
      /\ files \in [Names -> Kinds] /\ DOMAIN found \subseteq Names /\ DOMAIN listed \subseteq Names
  BY WorkspaceAssumption DEF Names, FilesTyped, WorkspaceTypeOK
<1>23. fanswer = "none"
  <2>1. ListStep => fpc # "done"
    BY DEF ListStep, ReadDirectory, SkipEntry, EscapedEntry, Truncate, OpenEntry, HashEntry, KeepEntry,
           ListEnds, ListStopped, LooksAt
  <2>2. TextStep => fpc # "done"
    BY DEF TextStep, ReadText, ReadAgain, CheckTarget, PlaceText, TextStopped
  <2>3. SomebodyChanges \/ CallerOrClock => fpc # "done"
    BY Zenon DEF SomebodyChanges, CallerOrClock
  <2>4. QED
    BY <2>1, <2>2, <2>3 DEF WorkspaceNext, FilesAnswered
<1>24. /\ \A n \in Names : files[n] \in versions[n]
       /\ \A n \in DOMAIN listed : Stood(n, listed[n]) \/ listed[n] = "omitted"
  BY <1>23 DEF FilesListed
<1>25. ASSUME UNCHANGED <<files, versions>>, fanswer' # "text",
              \A n \in DOMAIN listed' : Stood(n, listed'[n]) \/ listed'[n] = "omitted"
       PROVE  FilesListed'
  BY <1>24, <1>25 DEF FilesListed, Stood
<1>2. ASSUME UNCHANGED <<files, touched, versions, gone, late, found, opened, budget, listed>>,
             NEW kind, kind \notin {"ok", "text"}, FileAnswer(kind)
      PROVE  FilesKnown'
  <2>1. fpc' = "done" /\ fanswer' = kind
    BY <1>2 DEF FileAnswer
  <2>2. FilesTyped'
    BY <1>2, <2>1 DEF FilesTyped, WorkspaceTypeOK
  <2>3. FilesListed'
    BY <1>2, <1>24, <1>25, <2>1
  <2>4. QED
    BY <1>2, <2>1, <2>2, <2>3 DEF FilesSeen, FilesOpen, FilesAnswered
<1>3. ASSUME AnswersStopped PROVE FilesKnown'
  BY <1>2, <1>3 DEF AnswersStopped
<1>4. ASSUME LooksAt
      PROVE  fpc = "entry" /\ DOMAIN found # {} /\ NextName \in DOMAIN found /\ NextName \in Names
  <2>1. fpc = "entry" /\ DOMAIN found # {}
    BY <1>4, NothingLeft DEF LooksAt, FilesTyped
  <2>2. QED
    BY <1>1, <2>1, NextIsFound
<1>5. ASSUME UNCHANGED found PROVE NextName' = NextName
  BY <1>5 DEF NextName
<1>22. ASSUME NEW f
       PROVE  /\ DOMAIN Without(f, NextName) = DOMAIN f \ {NextName}
              /\ \A n \in DOMAIN f \ {NextName} : Without(f, NextName)[n] = f[n]
              /\ Without(f, NextName) = [n \in DOMAIN Without(f, NextName) |-> Without(f, NextName)[n]]
  BY WithoutIs
<1>6. CASE ReadDirectory
  <2>1. /\ found' = [n \in {k \in Names : files[k] # "none"} |-> files[n] \in Texts]
        /\ fpc' = "entry" /\ fpc = "list"
        /\ UNCHANGED <<files, touched, versions, gone, late, opened, budget, listed, fanswer>>
    BY <1>6 DEF ReadDirectory
  <2>2. /\ DOMAIN found' = {k \in Names : files[k] # "none"}
        /\ \A n \in DOMAIN found' : found'[n] = (files[n] \in Texts)
        /\ found' = [n \in DOMAIN found' |-> found'[n]]
    BY <2>1
  <2>3. FilesTyped'
    BY <2>1, <2>2 DEF FilesTyped, WorkspaceTypeOK
  <2>4. FilesSeen'
    BY <2>1, <2>2 DEF FilesSeen, Texts
  <2>5. FilesListed'
    BY <1>23, <1>24, <1>25, <2>1
  <2>6. QED
    BY <2>1, <2>3, <2>4, <2>5 DEF FilesOpen, FilesAnswered
<1>7. CASE SkipEntry
  <2>1. /\ LooksAt /\ (~found[NextName] \/ files[NextName] = "none")
        /\ found' = Without(found, NextName)
        /\ UNCHANGED <<files, touched, versions, fpc, gone, late, opened, budget, listed, fanswer>>
    BY <1>7 DEF SkipEntry
  <2>2. fpc = "entry"
    BY <1>4, <2>1
  <2>3. /\ DOMAIN found' = DOMAIN found \ {NextName}
        /\ \A n \in DOMAIN found \ {NextName} : found'[n] = found[n]
        /\ found' = [n \in DOMAIN found' |-> found'[n]]
    BY <1>22, <2>1
  <2>4. FilesTyped'
    BY <1>1, <2>1, <2>3 DEF FilesTyped, WorkspaceTypeOK
  <2>5. FilesSeen'
    BY <2>1, <2>2, <2>3 DEF FilesSeen, Texts
  <2>6. FilesListed'
    BY <1>23, <1>24, <1>25, <2>1
  <2>7. QED
    BY <2>1, <2>2, <2>4, <2>5, <2>6 DEF FilesOpen, FilesAnswered
<1>8. CASE EscapedEntry
  BY <1>2, <1>8 DEF EscapedEntry
<1>9. CASE Truncate
  BY <1>2, <1>9 DEF Truncate
<1>10. CASE OpenEntry
  <2>1. /\ LooksAt /\ found[NextName] /\ files[NextName] \in Texts
        /\ UNCHANGED <<files, touched, versions, gone, late, found, fanswer>>
    BY <1>10 DEF OpenEntry
  <2>2. fpc = "entry" /\ DOMAIN found # {} /\ NextName \in Names /\ NextName' = NextName
        /\ fanswer = "none"
    BY <1>4, <1>5, <2>1 DEF FilesAnswered
  <2>3. CASE /\ budget > 0
             /\ opened' = {[name |-> NextName, bytes |-> files[NextName], changed |-> FALSE]}
             /\ budget' = budget - 1 /\ fpc' = "hash" /\ UNCHANGED listed
    <3> DEFINE o == [name |-> NextName, bytes |-> files[NextName], changed |-> FALSE]
    <3>1. /\ o \in [name : Names, bytes : BytesRead, changed : BOOLEAN]
          /\ o.name = NextName /\ o.bytes = files[NextName] /\ opened' = {o}
      BY <2>1, <2>2, <2>3 DEF BytesRead
    <3> HIDE DEF o
    <3>2. FilesTyped'
      BY <1>1, <2>1, <2>3, <3>1 DEF FilesTyped, WorkspaceTypeOK
    <3>3. Opens(NextName)'
      BY <1>24, <2>1, <2>2, <3>1 DEF Opens, Stood
    <3>4. FilesListed'
      BY <1>24, <1>25, <2>1, <2>2, <2>3
    <3>5. QED
      BY <2>1, <2>2, <2>3, <3>2, <3>3, <3>4 DEF FilesSeen, FilesOpen, FilesAnswered
  <2>4. CASE /\ listed' = [n \in DOMAIN listed \cup {NextName} |->
                             IF n = NextName THEN "omitted" ELSE listed[n]]
             /\ fpc' = "path" /\ UNCHANGED <<opened, budget>>
    <3>1. /\ DOMAIN listed' = DOMAIN listed \cup {NextName}
          /\ \A n \in DOMAIN listed' : listed'[n] = "omitted" \/ (n \in DOMAIN listed /\ listed'[n] = listed[n])
      BY <2>4
    <3>2. FilesTyped'
      BY <1>1, <2>1, <2>2, <2>4, <3>1 DEF FilesTyped, WorkspaceTypeOK
    <3>3. FilesListed'
      BY <1>24, <1>25, <2>1, <2>2, <3>1
    <3>4. QED
      BY <2>1, <2>2, <2>4, <3>1, <3>2, <3>3 DEF FilesSeen, FilesOpen, FilesAnswered
  <2>5. QED
    BY <1>10, <2>3, <2>4 DEF OpenEntry
<1>11. CASE HashEntry
  <2>1. /\ fpc = "hash" /\ opened' = {} /\ fpc' = "path"
        /\ UNCHANGED <<files, touched, versions, gone, late, found, budget, fanswer>>
    BY <1>11 DEF HashEntry
  <2>2. NextName' = NextName /\ DOMAIN found # {}
    BY <1>5, <2>1 DEF FilesOpen
  <2>3. PICK o \in opened : /\ opened = {o} /\ o.name = NextName
                            /\ Stood(NextName, o.bytes) \/ (o.bytes = "torn" /\ o.changed = TRUE)
    BY <2>1 DEF FilesOpen, Opens
  <2>4. listed' = [n \in DOMAIN listed \cup {o.name} |-> IF n = o.name THEN Digest(o) ELSE listed[n]]
    BY <1>11, <2>3 DEF HashEntry
  <2>5. NextName \in Names
    BY <2>3 DEF FilesTyped, WorkspaceTypeOK
  <2>10. Digest(o) = "omitted" \/ Stood(NextName, Digest(o))
    BY <2>3 DEF Digest
  <2>6. /\ DOMAIN listed' = DOMAIN listed \cup {NextName}
        /\ \A n \in DOMAIN listed' : \/ n = NextName /\ listed'[n] = Digest(o)
                                     \/ n \in DOMAIN listed /\ listed'[n] = listed[n]
    BY <2>3, <2>4
  <2>7. FilesTyped'
    BY <1>1, <2>1, <2>5, <2>6 DEF FilesTyped, WorkspaceTypeOK
  <2>8. FilesListed'
    BY <1>23, <1>24, <1>25, <2>1, <2>6, <2>10
  <2>9. QED
    BY <2>1, <2>2, <2>6, <2>7, <2>8 DEF FilesSeen, FilesOpen, FilesAnswered
<1>12. CASE KeepEntry
  <2>1. fpc = "path" /\ UNCHANGED <<files, touched, versions, gone, late, opened, budget>>
    BY <1>12 DEF KeepEntry
  <2>2. CASE FileAnswer("threw") /\ UNCHANGED <<found, listed>>
    BY <1>2, <2>1, <2>2
  <2>3. CASE /\ fpc' = "entry" /\ found' = Without(found, NextName) /\ UNCHANGED fanswer
             /\ listed' = IF files[NextName] = "none" THEN Without(listed, NextName) ELSE listed
    <3>1. NextName \in DOMAIN listed /\ fanswer = "none"
      BY <2>1 DEF FilesOpen, FilesAnswered
    <3>2. /\ DOMAIN found' = DOMAIN found \ {NextName}
          /\ \A n \in DOMAIN found \ {NextName} : found'[n] = found[n]
          /\ found' = [n \in DOMAIN found' |-> found'[n]]
      BY <1>22, <2>3
    <3>3. /\ DOMAIN listed' \subseteq DOMAIN listed
          /\ \A n \in DOMAIN listed' : listed'[n] = listed[n]
          /\ \A n \in DOMAIN listed : n \in DOMAIN listed' \/ (n = NextName /\ files[n] = "none")
      BY <1>22, <2>3
    <3>4. FilesTyped'
      BY <1>1, <2>1, <2>3, <3>2, <3>3 DEF FilesTyped, WorkspaceTypeOK
    <3>5. FilesSeen'
      BY <2>1, <2>3, <3>1, <3>2, <3>3 DEF FilesSeen, Texts
    <3>6. FilesListed'
      BY <1>24, <1>25, <2>1, <2>3, <3>1, <3>3
    <3>7. QED
      BY <2>3, <3>1, <3>4, <3>5, <3>6 DEF FilesOpen, FilesAnswered
  <2>4. QED
    BY <1>12, <2>2, <2>3 DEF KeepEntry
<1>13. CASE ListEnds
  <2>1. /\ fpc = "entry" /\ found = << >> /\ fpc' = "done" /\ fanswer' = "ok"
        /\ UNCHANGED <<files, touched, versions, gone, late, found, opened, budget, listed>>
    BY <1>13 DEF ListEnds, FileAnswer
  <2>2. DOMAIN found = {}
    BY <2>1, NothingLeft DEF FilesTyped
  <2>3. FilesTyped'
    BY <2>1 DEF FilesTyped, WorkspaceTypeOK
  <2>4. FilesAnswered'
    BY <2>1, <2>2 DEF FilesSeen, FilesAnswered
  <2>5. FilesListed'
    BY <1>24, <1>25, <2>1
  <2>6. QED
    BY <2>1, <2>3, <2>4, <2>5 DEF FilesSeen, FilesOpen
<1>14. CASE ListStopped \/ TextStopped
  BY <1>3, <1>14 DEF ListStopped, TextStopped
<1>15. CASE ReadText
  <2>1. fpc = "read" /\ UNCHANGED <<files, touched, versions, gone, late, found, budget, listed>>
    BY <1>15 DEF ReadText
  <2>2. CASE /\ files[1] \in Texts /\ fpc' = "reread" /\ UNCHANGED fanswer
             /\ opened' = {[name |-> 1, bytes |-> files[1], changed |-> FALSE]}
    <3> DEFINE o == [name |-> 1, bytes |-> files[1], changed |-> FALSE]
    <3>1. /\ o \in [name : Names, bytes : BytesRead, changed : BOOLEAN]
          /\ o.name = 1 /\ o.bytes = files[1] /\ opened' = {o}
      BY <1>1, <2>2 DEF BytesRead
    <3> HIDE DEF o
    <3>2. FilesTyped'
      BY <2>1, <2>2, <3>1 DEF FilesTyped, WorkspaceTypeOK
    <3>3. Opens(1)'
      BY <1>1, <1>24, <2>1, <2>2, <3>1 DEF Opens, Stood
    <3>4. FilesListed'
      BY <1>23, <1>24, <1>25, <2>1, <2>2
    <3>5. QED
      BY <2>1, <2>2, <3>2, <3>3, <3>4 DEF FilesSeen, FilesOpen, FilesAnswered
  <2>3. CASE FileAnswer("threw") /\ UNCHANGED opened
    BY <1>2, <2>1, <2>3
  <2>4. QED
    BY <1>15, <2>2, <2>3 DEF ReadText
<1>16. CASE ReadAgain
  <2>1. /\ fpc = "reread" /\ fpc' = "done" /\ fanswer' \in {"threw", "aborted", "timeout", "text"}
        /\ UNCHANGED <<files, touched, versions, gone, late, found, opened, budget>>
        /\ listed' = IF fanswer' = "text" THEN [n \in {1} |-> (CHOOSE o \in opened : TRUE).bytes]
                     ELSE listed
    BY <1>16 DEF ReadAgain, FileAnswer
  <2>2. PICK o \in opened : /\ opened = {o} /\ o.name = 1
                            /\ Stood(1, o.bytes) \/ (o.bytes = "torn" /\ 1 \in touched)
    BY <2>1 DEF FilesOpen, Opens
  <2>3. (CHOOSE p \in opened : TRUE) = o
    BY <2>2
  <2>4. \/ listed' = listed /\ fanswer' # "text"
        \/ DOMAIN listed' = {1} /\ listed'[1] = o.bytes /\ fanswer' = "text"
    BY <2>1, <2>3
  <2>5. FilesTyped'
    BY <1>1, <2>1, <2>4 DEF FilesTyped, WorkspaceTypeOK
  <2>6. FilesListed'
    <3>1. CASE listed' = listed /\ fanswer' # "text"
      BY <1>24, <1>25, <2>1, <3>1
    <3>2. CASE DOMAIN listed' = {1} /\ listed'[1] = o.bytes /\ fanswer' = "text"
      BY <1>24, <2>1, <2>2, <3>2 DEF FilesListed, Stood
    <3>3. QED
      BY <2>4, <3>1, <3>2
  <2>7. QED
    BY <2>1, <2>5, <2>6 DEF FilesSeen, FilesOpen, FilesAnswered
<1>17. CASE CheckTarget
  <2>1. fpc = "write" /\ UNCHANGED <<files, touched, versions, gone, late, found, opened, budget, listed>>
    BY <1>17 DEF CheckTarget
  <2>2. CASE fpc' = "place" /\ UNCHANGED fanswer
    <3>1. FilesTyped'
      BY <2>1, <2>2 DEF FilesTyped, WorkspaceTypeOK
    <3>2. FilesListed'
      BY <1>23, <1>24, <1>25, <2>1, <2>2
    <3>3. QED
      BY <2>1, <2>2, <3>1, <3>2 DEF FilesSeen, FilesOpen, FilesAnswered
  <2>3. QED
    BY <1>2, <1>17, <2>1, <2>2 DEF CheckTarget
<1>18. CASE PlaceText
  <2>1. fpc = "place" /\ UNCHANGED <<touched, gone, late, found, opened, budget>>
    BY <1>18 DEF PlaceText
  <2>2. CASE /\ files' = [files EXCEPT ![1] = "v1"] /\ FileAnswer("text")
             /\ versions' = [versions EXCEPT ![1] = @ \cup {"v1"}]
             /\ listed' = [n \in {1} |-> "v1"]
    <3>1. /\ files' \in [Names -> Kinds] /\ files'[1] = "v1"
          /\ DOMAIN listed' = {1} /\ listed'[1] = "v1"
          /\ fpc' = "done" /\ fanswer' = "text"
      BY <1>1, <2>2 DEF FileAnswer, Kinds, Texts
    <3>4. /\ versions' \in [Names -> SUBSET Kinds]
          /\ \A n \in Names : versions'[n] = IF n = 1 THEN versions[n] \cup {"v1"} ELSE versions[n]
          /\ \A n \in Names : files'[n] = IF n = 1 THEN "v1" ELSE files[n]
      BY <1>1, <2>2 DEF FilesTyped, WorkspaceTypeOK, Kinds, Texts
    <3>2. FilesTyped'
      BY <1>1, <2>1, <3>1, <3>4 DEF FilesTyped, WorkspaceTypeOK
    <3>5. FilesListed'
      BY <1>1, <1>24, <3>1, <3>4 DEF FilesListed, Stood, Texts
    <3>3. QED
      BY <2>1, <3>1, <3>2, <3>5 DEF FilesSeen, FilesOpen, FilesAnswered
  <2>3. CASE FileAnswer("threw") /\ UNCHANGED <<files, versions, listed>>
    BY <1>2, <2>1, <2>3
  <2>4. QED
    BY <1>18, <2>2, <2>3 DEF PlaceText
<1>19. CASE SomebodyChanges
  <2>1. /\ fpc # "done"
        /\ UNCHANGED <<fpc, gone, late, found, budget, listed, fanswer>>
        /\ fanswer = "none"
    BY <1>19, <1>23, Zenon DEF SomebodyChanges
  <2>2. PICK n \in Names \ touched, k \in Kinds :
          /\ files' = [files EXCEPT ![n] = k] /\ touched' = touched \cup {n}
          /\ versions' = [versions EXCEPT ![n] = @ \cup {k}]
          /\ \/ UNCHANGED opened
             \/ k \in Texts /\ \E o \in opened :
                  /\ o.name = n
                  /\ \E got \in {o.bytes, "torn"} :
                       opened' = {[o EXCEPT !.bytes = got, !.changed = TRUE]}
    BY <1>19, Zenon DEF SomebodyChanges
  <2>17. /\ files' = [files EXCEPT ![n] = k] /\ touched' = touched \cup {n}
         /\ versions' = [versions EXCEPT ![n] = @ \cup {k}]
    BY <2>2, Zenon
  <2>4. /\ files' \in [Names -> Kinds] /\ files'[n] = k
        /\ \A j \in Names : j # n => files'[j] = files[j]
    BY <1>1, <2>17
  <2>15. /\ versions' \in [Names -> SUBSET Kinds] /\ k \in versions'[n]
         /\ \A j \in Names : versions[j] \subseteq versions'[j]
    BY <2>17 DEF FilesTyped, WorkspaceTypeOK
  <2> DEFINE Opened == [name : Names, bytes : BytesRead, changed : BOOLEAN]
  <2>5. \A p \in opened : p \in Opened
    BY DEF FilesTyped, WorkspaceTypeOK
  <2>6. ASSUME NEW p \in Opened, NEW got \in BytesRead
        PROVE  /\ [p EXCEPT !.bytes = got, !.changed = TRUE] \in Opened
               /\ [p EXCEPT !.bytes = got, !.changed = TRUE].name = p.name
               /\ [p EXCEPT !.bytes = got, !.changed = TRUE].bytes = got
               /\ [p EXCEPT !.bytes = got, !.changed = TRUE].changed = TRUE
    OBVIOUS
  <2>16. ASSUME NEW p \in Opened PROVE p.bytes \in BytesRead /\ "torn" \in BytesRead
    BY DEF BytesRead
  <2>3. \/ opened' = opened
        \/ \E o \in opened, c \in Opened :
             /\ opened' = {c} /\ o.name = n /\ c.name = n
             /\ c.bytes \in {o.bytes, "torn"} /\ c.changed = TRUE
    <3> HIDE DEF Opened
    <3>1. SUFFICES ASSUME NEW o \in opened, o.name = n, NEW got \in {o.bytes, "torn"},
                          opened' = {[o EXCEPT !.bytes = got, !.changed = TRUE]}
                   PROVE  \E c \in Opened : /\ opened' = {c} /\ c.name = n
                                            /\ c.bytes \in {o.bytes, "torn"} /\ c.changed = TRUE
      BY <2>2, Zenon
    <3>2. o \in Opened /\ got \in BytesRead
      BY <2>5, <2>16, <3>1
    <3> DEFINE c == [o EXCEPT !.bytes = got, !.changed = TRUE]
    <3>3. c \in Opened /\ c.name = o.name /\ c.bytes = got /\ c.changed = TRUE
      BY <2>6, <3>2, Zenon
    <3>4. opened' = {c}
      BY <3>1
    <3> HIDE DEF c
    <3>5. QED
      BY <3>1, <3>3, <3>4
  <2>7. opened' \subseteq Opened
    <3> HIDE DEF Opened
    <3>1. QED
      BY <2>3, <2>5
  <2>8. touched' \subseteq Names
    BY <2>17 DEF FilesTyped, WorkspaceTypeOK
  <2>9. FilesTyped'
    BY <2>1, <2>4, <2>7, <2>8, <2>15 DEF FilesTyped, WorkspaceTypeOK
  <2>10. ASSUME NEW name \in Names, Opens(name) PROVE Opens(name)'
    <3>1. PICK o \in opened : /\ opened = {o} /\ o.name = name
                              /\ \/ Stood(name, o.bytes)
                                 \/ o.bytes = "torn" /\ o.changed = TRUE /\ name \in touched
      BY <2>10 DEF Opens
    <3>2. /\ \A got : Stood(name, got) => got \in versions'[name] \cap Texts
          /\ touched \subseteq touched' /\ n \in touched'
      BY <2>15, <2>17 DEF Stood
    <3>3. CASE opened' = opened
      BY <3>1, <3>2, <3>3 DEF Opens, Stood
    <3>4. ASSUME NEW c \in Opened, opened' = {c}, c.name = n, o.name = n,
                 c.bytes \in {o.bytes, "torn"}, c.changed = TRUE
          PROVE  Opens(name)'
      BY <3>1, <3>2, <3>4 DEF Opens, Stood
    <3>5. QED
      BY <2>3, <3>1, <3>3, <3>4
  <2>11. FilesOpen'
    <3>1. NextName' = NextName
      BY <1>5, <2>1
    <3>2. DOMAIN found # {} => NextName \in Names
      BY <1>1, NextIsFound
    <3>3. QED
      BY <1>1, <2>1, <2>10, <3>1, <3>2 DEF FilesOpen, Opens
  <2>12. FilesSeen'
    BY <2>1, <2>4, <2>17 DEF FilesSeen
  <2>13. FilesListed'
    <3>1. \A j \in Names : files'[j] \in versions'[j]
      BY <1>24, <2>4, <2>15
    <3>2. \A j \in DOMAIN listed : listed[j] \in versions'[j] \cap Texts \/ listed[j] = "omitted"
      BY <1>1, <1>24, <2>15 DEF Stood
    <3>3. QED
      BY <1>23, <2>1, <3>1, <3>2 DEF FilesListed, Stood
  <2>14. QED
    BY <2>1, <2>9, <2>11, <2>12, <2>13 DEF FilesAnswered
<1>20. CASE CallerOrClock
  <2>1. /\ UNCHANGED <<files, touched, versions, fpc, found, opened, budget, listed, fanswer>>
        /\ gone' \in BOOLEAN /\ late' \in BOOLEAN
    BY <1>20 DEF CallerOrClock, FilesTyped, WorkspaceTypeOK
  <2>2. FilesTyped'
    BY <2>1 DEF FilesTyped, WorkspaceTypeOK
  <2>3. FilesOpen'
    BY <1>5, <2>1 DEF FilesOpen, Opens, Stood
  <2>4. FilesListed'
    BY <1>23, <1>24, <1>25, <2>1
  <2>5. QED
    BY <2>1, <2>2, <2>3, <2>4 DEF FilesSeen, FilesAnswered
<1>21. QED
  BY <1>6, <1>7, <1>8, <1>9, <1>10, <1>11, <1>12, <1>13, <1>14, <1>15, <1>16, <1>17, <1>18,
     <1>19, <1>20 DEF WorkspaceNext, ListStep, TextStep

-----------------------------------------------------------------------------
(* The operations on files together.                                       *)

(* What is known of the operations on files.                               *)
FileRunsKnown == VerifyKnown /\ CasesKnown /\ FilesKnown

(* It holds at the start.                                                  *)
LEMMA FileRunsStart ==
  ASSUME OperationsInit
  PROVE  FileRunsKnown
<1>1. VerifyKnown
  <2>1. VerifyInit("read") \/ VerifyInit("idle")
    BY DEF OperationsInit, VerifyStarts
  <2>2. /\ wanted \in Sources /\ expected \in Expectations /\ partial \in BOOLEAN
        /\ halted = "no" /\ vanswer = << >> /\ vpc \in {"read", "idle"}
    BY <2>1 DEF VerifyInit
  <2>3. QED
    BY <2>2 DEF VerifyKnown, VerifyAnswerIsTrue
<1>2. CasesKnown
  <2>1. CaseFileInit("list") \/ CaseFileInit("hash") \/ CaseFileInit("idle")
    BY DEF OperationsInit, CaseFileStarts
  <2>2. /\ heads \in [CaseNames -> Headers] /\ rewritten = {}
        /\ borneOut = [n \in CaseNames |-> BearsOut(heads[n])]
        /\ batch = 1 /\ reads = << >> /\ cancel = "no" /\ cases = << >>
        /\ hpc \in {"list", "hash", "idle"} /\ hanswer = "none"
    BY <2>1 DEF CaseFileInit
  <2>3. 1 \in CaseNames
    BY CaseFileAssumption DEF CaseNames
  <2>4. << >> \in Seq(Statements) /\ DOMAIN << >> = {} /\ Len(<< >>) = 0
    OBVIOUS
  <2>5. CasesTyped
    BY <2>2, <2>4 DEF CasesTyped, BearsOut
  <2>6. CasePhases
    BY <2>2, <2>3, <2>4 DEF CasePhases
  <2>7. CasesTold
    BY <2>2, <2>4 DEF CasesTold
  <2>8. QED
    BY <2>5, <2>6, <2>7 DEF CasesKnown
<1>3. FilesKnown
  <2>1. WorkspaceInit("list") \/ WorkspaceInit("read") \/ WorkspaceInit("write") \/ WorkspaceInit("idle")
    BY DEF OperationsInit, WorkspaceStarts
  <2>2. /\ files \in [Names -> Kinds] /\ versions = [n \in Names |-> {files[n]}] /\ touched = {}
        /\ fpc \in {"list", "read", "write", "idle"}
        /\ gone = FALSE /\ late = FALSE /\ found = << >> /\ opened = {} /\ budget = HashBudget
        /\ listed = << >> /\ fanswer = "none"
    BY <2>1 DEF WorkspaceInit
  <2>3. << >> = [n \in DOMAIN << >> |-> << >>[n]] /\ DOMAIN << >> = {}
    OBVIOUS
  <2>4. FilesTyped
    <3>1. HashBudget \in 0 .. HashBudget
      BY WorkspaceAssumption
    <3>2. /\ DOMAIN found = {} /\ DOMAIN listed = {}
          /\ found = [n \in DOMAIN found |-> found[n]]
      BY <2>2, <2>3, Zenon
    <3>3. QED
      BY <2>2, <3>1, <3>2 DEF FilesTyped, WorkspaceTypeOK
  <2>5. QED
    BY <2>2, <2>3, <2>4 DEF FilesKnown, FilesSeen, FilesOpen, FilesListed, FilesAnswered
<1>4. QED
  BY <1>1, <1>2, <1>3 DEF FileRunsKnown

(* Every step of every operation keeps it.                                 *)
LEMMA FileRunsStep ==
  ASSUME FileRunsKnown, [OperationsNext]_opvars
  PROVE  FileRunsKnown'
<1>1. /\ UNCHANGED vvars \/ VerifyNext
      /\ UNCHANGED lfvars \/ CaseFileNext
      /\ UNCHANGED fvars \/ WorkspaceNext
  BY DEF OperationsNext, opvars
<1>2. VerifyKnown'
  <2>1. CASE UNCHANGED vvars
    BY <2>1 DEF vvars, FileRunsKnown, VerifyKnown, VerifyAnswerIsTrue, ReadTwice
  <2>2. QED
    BY <1>1, <2>1, VerifyKeeps DEF FileRunsKnown
<1>3. CasesKnown'
  <2>1. CASE UNCHANGED lfvars
    BY <2>1 DEF lfvars, FileRunsKnown, CasesKnown, CasesTyped, CasePhases, CasesTold, Batch
  <2>2. QED
    BY <1>1, <2>1, CasesKeep DEF FileRunsKnown
<1>4. FilesKnown'
  <2>1. CASE UNCHANGED fvars
    BY <2>1 DEF fvars, FileRunsKnown, FilesKnown, FilesTyped, FilesSeen, FilesOpen, FilesListed,
                FilesAnswered, WorkspaceTypeOK, Opens, Stood, NextName
  <2>2. QED
    BY <1>1, <2>1, FilesKeep DEF FileRunsKnown
<1>5. QED
  BY <1>2, <1>3, <1>4 DEF FileRunsKnown

(* A listing that calls itself complete holds every text file that nobody  *)
(* disturbed, and every hash in it, also of a file disturbed while it was  *)
(* hashed, is of a text that has stood at its name since the call began;   *)
(* what is said of a case is borne out by one header that its file has had *)
(* since then; a comparison is of the content the caller named, found in   *)
(* the file by both reads and unchanged between them; an expectation is    *)
(* said to be met only if every field it may mean meets it, and a reported *)
(* difference is the nearest cent (workspace.ts, case-file.ts,             *)
(* verify-executor.ts, collect-verification.ts).                           *)
THEOREM FileAnswersAlwaysTrue == OperationsSpec => []FileAnswersAreTrue
<1>1. FileRunsKnown => FileAnswersAreTrue
  <2> SUFFICES ASSUME FileRunsKnown PROVE FileAnswersAreTrue
    OBVIOUS
  <2>1. WorkspaceTypeOK /\ ListingIsTrue
    BY DEF FileRunsKnown, FilesKnown, FilesTyped, FilesListed, FilesAnswered, Stood, ListingIsTrue
  <2>2. hpc = "done" => \A n \in DOMAIN reads : reads[n] \notin UnderWay
    BY DEF FileRunsKnown, CasesKnown, CasePhases
  <2>3. CaseFileAnswerIsTrue
    BY <2>2 DEF FileRunsKnown, CasesKnown, CasePhases, CasesTold, CaseFileAnswerIsTrue
  <2>4. VerifyAnswerIsTrue
    BY DEF FileRunsKnown, VerifyKnown
  <2>5. QED
    BY <2>1, <2>3, <2>4 DEF FileAnswersAreTrue
<1>2. QED
  BY <1>1, FileRunsStart, FileRunsStep, PTL DEF OperationsSpec

=============================================================================
