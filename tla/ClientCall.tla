----------------------------- MODULE ClientCall -----------------------------
(***************************************************************************)
(* One call of a writing operation by a client of the API: the command     *)
(* line, plain or with --busy-attempts, with or without a journal, and a   *)
(* tool of the MCP front end.  The API may stop, be replaced or be busy at *)
(* any moment, the answer may be lost at any point, and the client may     *)
(* give up, or be ended, while its request is still on its way: the server *)
(* may carry it out afterwards.                                            *)
(***************************************************************************)
EXTENDS Integers, Sequences, SequencesExt

CONSTANTS
  Instances,     \* bound: API processes that listen one after the other
  MaxAttempts    \* attempts of callApiOperationWithBusyRetry

ASSUME ClientAssumption == Instances \in Nat \ {0} /\ MaxAttempts \in Nat \ {0}

VARIABLES
  caller,     \* cli, retry (cli with 2 or more --busy-attempts) or mcp
  kpc,        \* place in the client
  instance,   \* the API that listens, 0: none
  served,     \* how many have listened
  occupied,   \* it carries out somebody else's operation
  boundTo,    \* expectedInstanceId, 0: none
  tries,      \* attempts made
  request,    \* what has become of the request sent last
  reply,      \* the status and code of the response
  ranOn,      \* the instances that have carried out the operation
  cancelled,  \* the client's signal is aborted
  received,   \* operationResponseReceived
  failure,    \* the ApiClientError of the call
  answered,   \* what the client tells its caller
  journal,    \* the records of the journal, in order
  medium      \* the journal's medium has failed

kvars == <<caller, kpc, instance, served, occupied, boundTo, tries, request, reply,
           ranOn, cancelled, received, failure, answered, journal, medium>>
server == <<instance, served, occupied>>
told == <<answered, journal, medium>>

Response(status, code) == [status |-> status, code |-> code]
NoReply == Response(0, "none")
ErrorOf(kind, status) == [kind |-> kind, status |-> status]
NoFailure == ErrorOf("none", 0)

OnItsWay == request \in {"sent", "running"}

ClientInit(start) ==
  /\ kpc = start
  /\ instance = 1 /\ served = 1 /\ occupied \in (IF start = "idle" THEN {FALSE} ELSE BOOLEAN)
  /\ boundTo = 0 /\ tries = 0 /\ request = "none" /\ reply = NoReply /\ ranOn = << >>
  /\ cancelled = FALSE /\ received = FALSE /\ failure = NoFailure
  /\ answered = << >> /\ journal = << >> /\ medium = FALSE

-----------------------------------------------------------------------------
(* The server, as far as one call sees it.                                 *)
Dispatches ==
  /\ request = "sent" /\ ~(boundTo # 0 /\ boundTo # instance) /\ ~occupied
  /\ request' = "running" /\ ranOn' = Append(ranOn, instance)
  /\ UNCHANGED reply

Rejects ==
  /\ request = "sent"
  /\ reply' = IF boundTo # 0 /\ boundTo # instance THEN Response(409, "api-instance-mismatch")
              ELSE Response(409, "busy")
  /\ (boundTo # 0 /\ boundTo # instance) \/ occupied
  /\ request' = "ended" /\ UNCHANGED ranOn

(* A result, its failure, or an answer the server could not make.          *)
Finishes ==
  /\ request = "running"
  /\ request' = "ended"
  /\ reply' \in {Response(200, "ok"), Response(200, "failed"), Response(502, "worker-failed")}
  /\ UNCHANGED ranOn

ServerStep ==
  /\ instance # 0
  /\ Dispatches \/ Rejects \/ Finishes
  /\ UNCHANGED <<caller, kpc, server, boundTo, tries, cancelled, received, failure, told>>

(* The API ends, with whatever it was doing; another one takes the port;   *)
(* other clients keep it busy.                                              *)
ApiChanges ==
  /\ kpc # "idle"
  /\ \/ /\ instance # 0 /\ instance' = 0 /\ occupied' = FALSE /\ UNCHANGED served
        /\ request' = IF OnItsWay THEN "lost" ELSE request
     \/ /\ instance = 0 /\ served < Instances
        /\ served' = served + 1 /\ instance' = served' /\ UNCHANGED <<occupied, request>>
     \/ /\ instance # 0 /\ request # "running"
        /\ occupied' = ~occupied /\ UNCHANGED <<instance, served, request>>
  /\ UNCHANGED <<caller, kpc, boundTo, tries, reply, ranOn, cancelled, received, failure, told>>

(* The tool's caller cancels, or its 280 s are over.                       *)
CallerCancels ==
  /\ caller = "mcp" /\ kpc # "idle" /\ ~cancelled /\ cancelled' = TRUE
  /\ UNCHANGED <<caller, kpc, server, boundTo, tries, request, reply, ranOn, received,
                 failure, told>>

-----------------------------------------------------------------------------
(* callApiOperationEnvelope.                                                *)
Fails(kind, status) == kpc' = "failed" /\ failure' = ErrorOf(kind, status)

Prepare ==
  /\ kpc = "send" /\ Fails("bad-args", 0)  \* the arguments or the size of the request
  /\ UNCHANGED <<request, received>>

Send ==
  /\ kpc = "send" /\ received' = FALSE
  /\ IF cancelled THEN Fails("aborted", 0) /\ UNCHANGED request
     ELSE IF instance = 0 THEN Fails("network", 0) /\ UNCHANGED request
     ELSE kpc' = "out" /\ request' = "sent" /\ UNCHANGED failure

ReadHead ==
  /\ kpc = "out" /\ request = "ended" /\ ~cancelled
  /\ received' = TRUE /\ kpc' = "body" /\ UNCHANGED <<request, failure>>

(* The connection ends before there is an answer, or within it, with the   *)
(* API or without.                                                          *)
Broken ==
  /\ kpc \in {"out", "body"} /\ ~cancelled
  /\ Fails("transport-unknown", 0) /\ UNCHANGED <<request, received>>

ReadBody ==
  /\ kpc = "body" /\ ~cancelled
  /\ CASE reply.status = 200 -> kpc' = "result" /\ UNCHANGED failure
       [] OTHER -> Fails(reply.code, reply.status)
  /\ UNCHANGED <<request, received>>

(* No JSON, another operation, a result that is not of its contract.       *)
Invalid ==
  /\ kpc = "body" /\ ~cancelled /\ Fails("protocol", 0) /\ UNCHANGED <<request, received>>

(* The signal of the caller, or the client's own timer: the server goes on.*)
GivesUp ==
  /\ kpc \in {"out", "body"}
  /\ Fails(IF cancelled THEN "aborted" ELSE "timeout", 0)
  /\ UNCHANGED <<request, received>>

Calls ==
  /\ Prepare \/ Send \/ ReadHead \/ Broken \/ ReadBody \/ Invalid \/ GivesUp
  /\ UNCHANGED <<caller, server, boundTo, tries, reply, ranOn, cancelled, told>>

-----------------------------------------------------------------------------
(* callApiOperationWithBusyRetryEnvelope: the instance is bound before     *)
(* the first attempt, and only a busy rejection by it is followed by       *)
(* another one, within one shared budget.                                  *)
Reports(kind, status) == kpc' = "error" /\ failure' = ErrorOf(kind, status)

PinClient ==
  /\ caller = "retry" /\ kpc = "pin"
  /\ \/ instance # 0 /\ boundTo' = instance /\ kpc' = "attempt" /\ UNCHANGED failure
     \/ Reports("not-dispatched", 0) /\ UNCHANGED boundTo
  /\ UNCHANGED tries

Attempt ==
  /\ caller = "retry" /\ kpc = "attempt"
  /\ \/ kpc' = "send" /\ tries' = tries + 1 /\ UNCHANGED failure
     \/ Reports("busy-budget-exhausted", 0) /\ UNCHANGED tries
  /\ UNCHANGED boundTo

BuggyMayRetry(error) == error.kind \in {"busy", "transport-unknown"}
MayRetry(error) == error.kind = "busy" /\ error.status = 409

Retry ==
  /\ caller = "retry" /\ kpc = "failed"
  /\ IF MayRetry(failure) /\ tries < MaxAttempts
     THEN \/ kpc' = "attempt" /\ UNCHANGED failure
          \/ Reports("busy-budget-exhausted", 0)
     ELSE kpc' = "error" /\ UNCHANGED failure
  /\ UNCHANGED <<boundTo, tries>>

RetryStep ==
  /\ PinClient \/ Attempt \/ Retry
  /\ UNCHANGED <<caller, server, request, reply, ranOn, cancelled, received, told>>

-----------------------------------------------------------------------------
(* The command line, api-cli.ts runApiCli.  With a journal a pending       *)
(* record is on the medium before anything else is done, and a complete    *)
(* one before the result is printed.                                       *)
Begin(record) ==
  /\ journal' = record
  /\ kpc' = IF caller = "retry" THEN "pin" ELSE "send"

Tells(kind, unknown) ==
  kpc' = "ended" /\ answered' = <<[kind |-> kind, unknown |-> unknown]>>

CreateCliJournal ==
  /\ kpc = "journal" /\ caller # "mcp"
  /\ \/ Begin(<< >>) /\ UNCHANGED <<answered, medium>>             \* no --journal
     \/ Begin(<<"pending">>) /\ UNCHANGED <<answered, medium>>
     \/ Tells("bad-args", FALSE) /\ UNCHANGED <<journal, medium>>   \* the file exists
     \/ /\ Tells("bad-args", FALSE) /\ medium' = TRUE
        /\ journal' \in {<< >>, <<"pending">>}
  /\ UNCHANGED failure

BuggyComplete == Append(journal, "complete")
Complete == IF journal = << >> THEN << >> ELSE Append(journal, "complete")

(* A record that could not be synced may be there all the same, and the    *)
(* error record then follows it.                                            *)
ResultToJournal ==
  /\ kpc = "result" /\ caller # "mcp"
  /\ \/ journal' = Complete /\ kpc' = "print" /\ UNCHANGED <<failure, medium>>
     \/ /\ journal # << >> /\ medium' = TRUE /\ Reports("unexpected", 0)
        /\ journal' \in {journal, Complete}
  /\ UNCHANGED answered

PrintResult ==
  /\ kpc = "print" /\ Tells("result", FALSE)
  /\ UNCHANGED <<failure, journal, medium>>

CliError ==
  /\ caller # "mcp"
  /\ kpc = "error" \/ (caller = "cli" /\ kpc = "failed")
  /\ \/ journal' = (IF journal = << >> THEN << >> ELSE Append(journal, "error"))
        /\ UNCHANGED medium
     \/ journal # << >> /\ medium' = TRUE /\ UNCHANGED journal
  /\ Tells(failure.kind, FALSE) /\ UNCHANGED failure

CliStep ==
  /\ CreateCliJournal \/ ResultToJournal \/ PrintResult \/ CliError
  /\ UNCHANGED <<caller, server, boundTo, tries, request, reply, ranOn, cancelled, received>>

(* The process of the command line ends: Ctrl+C, a crash.                  *)
CliEnds ==
  /\ caller # "mcp" /\ kpc \notin {"idle", "ended"} /\ kpc' = "ended"
  /\ UNCHANGED <<caller, server, boundTo, tries, request, reply, ranOn, cancelled, received,
                 failure, told>>

-----------------------------------------------------------------------------
(* The MCP front end, mcp-registry.ts: the identity of the API is read for *)
(* every call and the request bound to it.                                 *)
CallApiOperation ==
  /\ caller = "mcp" /\ kpc = "journal" /\ ~cancelled
  /\ \/ instance = 1 /\ boundTo' = instance /\ kpc' = "send" /\ UNCHANGED failure
     \/ instance > 1 /\ Reports("protocol", 0) /\ UNCHANGED boundTo   \* replaced
     \/ instance = 0 /\ Reports("network", 0) /\ UNCHANGED boundTo
     \/ Reports("not-dispatched", 0) /\ UNCHANGED boundTo
  /\ UNCHANGED <<received, answered>>

KnownRejection(error) == error.kind # "protocol" /\ error.status \in 400..499
OperationOutcomeUnknown(error) ==
  \/ error.kind \in {"timeout", "aborted", "transport-unknown"}
  \/ received /\ ~KnownRejection(error)

CaughtError ==
  /\ caller = "mcp" /\ kpc \in {"failed", "error"} /\ answered = << >>
  /\ Tells(failure.kind, OperationOutcomeUnknown(failure))
  /\ UNCHANGED <<boundTo, received, failure>>

(* The result as it is, or shaped, which may fail.                         *)
Shape ==
  /\ caller = "mcp" /\ kpc = "result" /\ answered = << >>
  /\ Tells("result", FALSE) \/ Tells("protocol", TRUE)
  /\ UNCHANGED <<boundTo, received, failure>>

(* McpOperationBudget races the answer only: the call goes on behind it.   *)
BudgetAnswers ==
  /\ caller = "mcp" /\ cancelled /\ answered = << >>
  /\ answered' = <<[kind |-> "budget", unknown |-> TRUE]>>
  /\ kpc' = (IF kpc = "journal" THEN "ended" ELSE kpc)
  /\ UNCHANGED <<boundTo, received, failure>>

McpStep ==
  /\ CallApiOperation \/ CaughtError \/ Shape \/ BudgetAnswers
  /\ UNCHANGED <<caller, server, tries, request, reply, ranOn, cancelled, journal, medium>>

ClientNext ==
  \/ ServerStep \/ ApiChanges \/ CallerCancels
  \/ Calls \/ RetryStep \/ CliStep \/ CliEnds \/ McpStep

-----------------------------------------------------------------------------
ClientTypeOK ==
  /\ kpc \in {"idle", "journal", "pin", "attempt", "send", "out", "body", "failed",
              "error", "result", "print", "ended"}
  /\ instance \in 0..served /\ served <= Instances /\ boundTo \in 0..Instances
  /\ tries \in 0..MaxAttempts /\ request \in {"none", "sent", "running", "ended", "lost"}
  /\ Len(answered) <= 1 /\ Len(journal) <= 3

(* An operation is carried out at most once for a call, on the instance    *)
(* the call is bound to; and what the client is told leaves no doubt where *)
(* there is none: an error that does not say that the outcome is unknown,  *)
(* of a tool, or that by its kind says that nothing was started, of the    *)
(* command line, means that the write has not run and will not run         *)
(* (mcp-registry.ts operationOutcomeUnknown, api-busy-retry.ts).           *)
NotStarted == {"bad-args", "network", "not-dispatched", "busy", "busy-budget-exhausted",
               "api-instance-mismatch"}
CallAnswerIsTrue ==
  /\ ClientTypeOK
  /\ Len(ranOn) <= 1
  /\ ranOn # << >> /\ boundTo # 0 => Head(ranOn) = boundTo
  /\ answered # << >> =>
       LET told1 == Head(answered) IN
         /\ told1.kind = "result" => ranOn # << >>
         /\ \/ caller = "mcp" /\ ~told1.unknown /\ told1.kind # "result"
            \/ caller # "mcp" /\ told1.kind \in NotStarted
            => ranOn = << >> /\ ~OnItsWay

(* The journal tells what may have happened: nothing is sent before its    *)
(* pending record, a complete record means that the operation has run, and *)
(* a result is printed only after its record; only a medium that failed    *)
(* leaves two final records (api-cli-journal.ts createCliJournal).         *)
JournalIsTrue ==
  /\ journal # << >> => Head(journal) = "pending"
  /\ Contains(journal, "complete") => ranOn # << >>
  /\ journal # << >> /\ answered # << >> /\ Head(answered).kind = "result"
       => Last(journal) = "complete"
  /\ Len(journal) = 3 => medium

=============================================================================
