------------------------------ MODULE CaseFile ------------------------------
(***************************************************************************)
(* case-file.ts: list_cases reads the headers of the case files of a       *)
(* folder, a few at a time; case_hash reads one file whole.  Both say      *)
(* whether a case was sent to the tax office, and say so only of a file    *)
(* that was the same before and after it was read.                         *)
(***************************************************************************)
EXTENDS Integers, Sequences, FiniteSets

CONSTANTS
  CaseFiles,      \* case files of the folder
  Concurrency,    \* CASE_HEADER_READ_CONCURRENCY
  Headers,        \* headers a case file may have: sequences of records
  MaxRecords      \* records the parser looks at (400)

(* A record is a name and a value, which is a text or not.                 *)
HeaderRecord == [name: STRING, type: STRING, value: STRING]

(* A batch reads at least one file; a header is at most what is parsed.    *)
ASSUME CaseFileAssumption ==
  /\ CaseFiles \in Nat \ {0} /\ Concurrency \in Nat \ {0} /\ MaxRecords \in Nat
  /\ Headers \subseteq Seq(HeaderRecord)

VARIABLES
  heads,      \* the header of each file
  rewritten,  \* files written to since the call began
  borneOut,   \* history: what some header of each file has borne out since the call began
  batch,      \* the first file of the batch being read
  reads,      \* the batch: what each read has come to
  cancel,     \* "no", "aborted", "timeout"
  cases,      \* files of the answer: transmitted
  hpc,        \* phase of listCaseFiles or readCaseFileInfo
  hanswer     \* the answer or the kind of the error thrown

lfvars == <<heads, rewritten, borneOut, batch, reads, cancel, cases, hpc, hanswer>>

CaseNames == 1..CaseFiles
Statements == {"yes", "no", "unknown"}   \* transmitted
UnderWay == {"open", "rewritten"}

---------------------------------------------------------------------------
(* parseAkadMeta: the records up to the encrypted part or to one that does *)
(* not parse; of two records with the same name the later one counts.      *)
LastParsed(header) ==
  LET ends == {i \in DOMAIN header: header[i].name \in {"SvCrypted", "damaged"}}
               \cup {Len(header) + 1} \cup {MaxRecords + 1}
  IN (CHOOSE i \in ends: \A j \in ends: i <= j) - 1
Parseable(header) == header # << >> /\ header[1].name # "damaged"
TransferRecords(header) ==
  {i \in 1..LastParsed(header): header[i].name = "ElsterTransferTime"}

(* caseSummaryFromMeta.  A missing or odd field is no statement.           *)
Transmitted(header) ==
  LET r == TransferRecords(header) IN
  IF ~Parseable(header) \/ r = {} THEN "unknown"
  ELSE LET last == header[CHOOSE i \in r: \A j \in r: j <= i] IN
       IF last.type # "text" THEN "unknown"
       ELSE CASE last.value = "time" -> "yes"
              [] last.value = "placeholder" -> "no"
              [] OTHER -> "unknown"

---------------------------------------------------------------------------
(* What a header bears out, by all its records up to the encrypted part or *)
(* to one that does not parse: that a case was not sent only when every    *)
(* record with a time of transfer is followed by one without, that it was  *)
(* sent only when the last record has one.                                 *)
Readable(header) ==
  {i \in DOMAIN header: i <= MaxRecords /\ \A j \in 1..i: header[j].name \notin {"SvCrypted", "damaged"}}
TransferTimes(header) == {i \in Readable(header): header[i].name = "ElsterTransferTime"}
IsTime(record) == record.type = "text" /\ record.value = "time"
ClaimHolds(header, claim) ==
  LET r == TransferTimes(header) IN
  /\ claim = "no" => r # {} /\ \A i \in r: IsTime(header[i]) => \E j \in r: j > i
  /\ claim = "yes" => \E i \in r: IsTime(header[i]) /\ \A j \in r: j <= i
BearsOut(header) == {claim \in Statements: ClaimHolds(header, claim)}

CaseFileInit(start) ==
  /\ heads \in [CaseNames -> Headers] /\ rewritten = {}
  /\ borneOut = [n \in CaseNames |-> BearsOut(heads[n])]
  /\ batch = 1 /\ reads = << >> /\ cancel = "no"
  /\ cases = << >> /\ hpc = start /\ hanswer = "none"

CaseFileEnds(kind) == hpc' = "done" /\ hanswer' = kind

(* normalizeListError, normalizeFileError: the timeout and the abort come  *)
(* before whatever they have caused.                                        *)
Normalized(kind) == IF cancel = "no" THEN kind ELSE cancel

Batch == {n \in CaseNames: batch <= n /\ n < batch + Concurrency}

StartBatch ==
  /\ hpc = "list"
  /\ IF cancel # "no" THEN CaseFileEnds(cancel) /\ UNCHANGED reads
     ELSE hpc' = "reading" /\ reads' = [n \in Batch |-> "open"] /\ UNCHANGED hanswer
  /\ UNCHANGED <<heads, rewritten, borneOut, batch, cancel, cases>>

(* What the bytes may say that were read of a file; of a file saved        *)
(* meanwhile they may be pieces of two headers, and say anything.          *)
Says(n) ==
  IF reads[n] = "rewritten" THEN Statements \cup {"unreadable"}
  ELSE {IF Parseable(heads[n]) THEN Transmitted(heads[n]) ELSE "unreadable"}

(* sameFileState before and after the bytes, of the handle and the name.   *)
SameFileState(n) == reads[n] # "rewritten"

(* readCase: a header that this parser cannot read is left to the worker.  *)
ReadCase ==
  /\ hpc = "reading"
  /\ \E n \in DOMAIN reads:
       /\ reads[n] \in UnderWay
       /\ \E failure \in {"resource-changed", "not-found"}, said \in Says(n):
            reads' = [reads EXCEPT ![n] =
              IF cancel # "no" THEN "aborted"
              ELSE IF ~SameFileState(n) THEN failure
              ELSE IF said = "unreadable" THEN "fallback" ELSE said]
  /\ UNCHANGED <<heads, rewritten, borneOut, batch, cancel, cases, hpc, hanswer>>

(* Promise.allSettled: every read of the batch has ended before the first  *)
(* failure in the order of the folder is thrown.                           *)
Settled == \A n \in DOMAIN reads: reads[n] \notin UnderWay
Failed == {n \in DOMAIN reads: reads[n] \notin Statements \cup UnderWay}

BatchEnds ==
  /\ hpc = "reading" /\ Settled
  /\ IF cancel # "no" THEN CaseFileEnds(cancel) /\ UNCHANGED <<cases, batch>>
     ELSE IF Failed # {}
     THEN /\ CaseFileEnds(reads[CHOOSE n \in Failed: \A k \in Failed: n <= k])
          /\ UNCHANGED <<cases, batch>>
     ELSE /\ cases' = cases \o [i \in 1..Cardinality(DOMAIN reads) |-> reads[batch + i - 1]]
          /\ batch' = batch + Concurrency
          /\ IF batch' > CaseFiles THEN CaseFileEnds("ok") ELSE hpc' = "list" /\ UNCHANGED hanswer
  /\ UNCHANGED <<heads, rewritten, borneOut, reads, cancel>>

(* readCaseFileInfo of file 1: opened, read to its end, and compared with  *)
(* what it was, by its handle and by its name; an abort that comes after   *)
(* the last byte goes unnoticed.                                            *)
OpenCase ==
  /\ hpc = "hash"
  /\ \/ CaseFileEnds(Normalized("not-found")) /\ UNCHANGED reads
     \/ CaseFileEnds(Normalized("unsupported-case")) /\ UNCHANGED reads
     \/ cancel = "no" /\ hpc' = "hashing" /\ reads' = <<"open">> /\ UNCHANGED hanswer
  /\ UNCHANGED <<heads, rewritten, borneOut, batch, cancel, cases>>

ReadCaseFileInfo ==
  /\ hpc = "hashing"
  /\ \/ cancel # "no" /\ CaseFileEnds(cancel) /\ UNCHANGED cases /\ reads' = <<"aborted">>
     \/ ~SameFileState(1) /\ UNCHANGED cases /\ reads' = <<"resource-changed">>
        /\ CaseFileEnds(Normalized("resource-changed"))
     \/ /\ SameFileState(1) /\ CaseFileEnds("ok")
        /\ \E said \in Says(1): cases' = <<IF said = "unreadable" THEN "unknown" ELSE said>>
        /\ reads' = cases'
  /\ UNCHANGED <<heads, rewritten, borneOut, batch, cancel>>

SomebodySavesCase ==
  /\ hpc # "done"
  /\ \E n \in CaseNames \ rewritten, h \in Headers:
       /\ heads' = [heads EXCEPT ![n] = h]
       /\ rewritten' = rewritten \cup {n}
       /\ borneOut' = [borneOut EXCEPT ![n] = @ \cup BearsOut(h)]
       /\ reads' = IF n \in DOMAIN reads /\ reads[n] = "open"
                   THEN [reads EXCEPT ![n] = "rewritten"] ELSE reads
  /\ UNCHANGED <<batch, cancel, cases, hpc, hanswer>>

CallEnds ==
  /\ hpc # "done" /\ cancel = "no" /\ cancel' \in {"aborted", "timeout"}
  /\ UNCHANGED <<heads, rewritten, borneOut, batch, reads, cases, hpc, hanswer>>

CaseFileNext ==
  \/ StartBatch \/ ReadCase \/ BatchEnds \/ OpenCase \/ ReadCaseFileInfo
  \/ SomebodySavesCase \/ CallEnds

---------------------------------------------------------------------------
(* Whatever is saved meanwhile, what is said of a file is borne out by one *)
(* header that the file has had since the call began, never only by pieces *)
(* of two.  No read is still open when the answer is given or the worker   *)
(* takes over, and a list is complete (case-file.ts readStableCaseHeader,  *)
(* listCaseFiles, caseSummaryFromMeta).                                     *)
CaseFileAnswerIsTrue ==
  /\ hpc = "done" => \A n \in DOMAIN reads: reads[n] \notin UnderWay
  /\ hanswer = "ok" => Len(cases) \in {1, CaseFiles}
  /\ \A n \in DOMAIN cases: cases[n] \in borneOut[n]

=============================================================================
