----------------------------- MODULE HostFiles -----------------------------
(***************************************************************************)
(* The files the program keeps for itself.  The first start of the API     *)
(* makes its configuration beside the name and links it there, while       *)
(* another start or the user may do the same; several texts are replaced   *)
(* from files staged beside them; the log is cut at a size by moving it    *)
(* away.  A process may end between any two of these steps.                *)
(***************************************************************************)
EXTENDS Integers, FiniteSets

CONSTANTS
  Starters,   \* first starts under way
  Targets,    \* bound: files replaced together, 1..Targets
  MaxBytes,   \* the log's limit, in units of a record's least size
  MaxLine     \* longest record the log takes

Nobody == "nobody"
Foreign == "other"

ASSUME HostAssumption ==
  /\ Targets \in Nat \ {0} /\ MaxBytes \in Nat \ {0} /\ MaxLine \in 1..MaxBytes
  /\ Nobody \notin Starters /\ Foreign \notin Starters

VARIABLES
  duty,       \* configure, replace or log
  config,     \* who made the configuration: nobody, a starter, or other
  startAt,    \* per starter: where it is
  beside,     \* starters whose staged file lies beside the configuration
  made,       \* per starter: ForegroundApiFirstRun.created
  text,       \* per target: old or new
  stagedFile, \* targets whose new text is staged
  replaceAt,  \* where replaceTextFilesFromStaging is, and what it answers
  log,        \* bytes of the log and of the one before it
  logBytes,   \* what the logger takes the log's size for
  available,  \* fileLoggingAvailable
  discarded   \* somebody has taken the log away

hfvars == <<duty, config, startAt, beside, made, text, stagedFile, replaceAt,
            log, logBytes, available, discarded>>
configuring == <<config, startAt, beside, made>>
replacing == <<text, stagedFile, replaceAt>>
logging == <<log, logBytes, available, discarded>>

HostInit ==
  /\ config \in (IF duty = "configure" THEN {Nobody, Foreign} ELSE {Nobody})
  /\ startAt = [s \in Starters |-> IF duty = "configure" THEN "look" ELSE "idle"]
  /\ beside = {} /\ made = [s \in Starters |-> FALSE]
  /\ text = [t \in 1..Targets |-> "old"] /\ stagedFile = {}
  /\ replaceAt = IF duty = "replace" THEN "stage" ELSE "idle"
  /\ log \in [now: IF duty = "log" THEN 0..MaxBytes + 1 ELSE {0},
              previous: IF duty = "log" THEN {-1, MaxBytes, MaxBytes + 1} ELSE {-1}]
  /\ logBytes = -1 /\ available = FALSE /\ discarded = FALSE

-----------------------------------------------------------------------------
(* ensureForegroundApiFirstRun: only a configuration that is not there is  *)
(* made, by createTextFileExclusive.                                        *)
StarterGoes(s, place) == startAt' = [startAt EXCEPT ![s] = place]

Look(s) ==
  /\ startAt[s] = "look"
  /\ StarterGoes(s, IF config = Nobody THEN "stage" ELSE "ended")
  /\ UNCHANGED <<config, beside, made>>

(* The areas and the staged file; a failed write leaves no staged file.    *)
Stage(s) ==
  /\ startAt[s] = "stage"
  /\ \/ config # Nobody /\ StarterGoes(s, "ended") /\ UNCHANGED beside
     \/ config = Nobody /\ StarterGoes(s, "link") /\ beside' = beside \cup {s}
     \/ StarterGoes(s, "ended") /\ UNCHANGED beside
  /\ UNCHANGED <<config, made>>

BuggyLinked(s) == s
Linked(s) == IF config = Nobody THEN s ELSE config

Link(s) ==
  /\ startAt[s] = "link"
  /\ \/ /\ config' = Linked(s)
        /\ made' = [made EXCEPT ![s] = config = Nobody]
     \/ UNCHANGED <<config, made>>     \* the link cannot be made
  /\ StarterGoes(s, "clean") /\ UNCHANGED beside

Clean(s) ==
  /\ startAt[s] = "clean" /\ StarterGoes(s, "ended")
  /\ beside' = beside \ {s} /\ UNCHANGED <<config, made>>

StarterCrashes(s) ==
  /\ startAt[s] \in {"stage", "link", "clean"} /\ StarterGoes(s, "crashed")
  /\ UNCHANGED <<config, beside, made>>

SomebodyConfigures ==
  /\ config = Nobody /\ config' = Foreign /\ UNCHANGED <<startAt, beside, made>>

ConfigureNext ==
  /\ duty = "configure"
  /\ \/ \E s \in Starters:
          Look(s) \/ Stage(s) \/ Link(s) \/ Clean(s) \/ StarterCrashes(s)
     \/ SomebodyConfigures
  /\ UNCHANGED <<duty, replacing, logging>>

-----------------------------------------------------------------------------
(* replaceTextFilesFromStaging: every text is staged before the first      *)
(* target is renamed over; a failure takes the staged files that are left. *)
StageText ==
  /\ replaceAt = "stage"
  /\ LET t == Cardinality(stagedFile) + 1 IN
       /\ stagedFile' = stagedFile \cup {t}
       /\ replaceAt' = IF t = Targets THEN "rename" ELSE "stage"
  /\ UNCHANGED text

RenameText ==
  /\ replaceAt = "rename" /\ stagedFile # {}
  /\ LET t == CHOOSE u \in stagedFile: \A v \in stagedFile: u <= v IN
       /\ text' = [text EXCEPT ![t] = "new"]
       /\ stagedFile' = stagedFile \ {t}
  /\ replaceAt' = IF Cardinality(stagedFile) = 1 THEN "replaced" ELSE "rename"

ReplaceFails ==
  /\ replaceAt \in {"stage", "rename"}
  /\ replaceAt' = (IF replaceAt = "stage" THEN "refused" ELSE "threw")
  /\ stagedFile' = {} /\ UNCHANGED text

ReplaceCrashes ==
  /\ replaceAt \in {"stage", "rename"} /\ replaceAt' = IF replaceAt = "stage" THEN "unstaged" ELSE "torn"
  /\ UNCHANGED <<text, stagedFile>>

ReplaceNext ==
  /\ duty = "replace"
  /\ StageText \/ RenameText \/ ReplaceFails \/ ReplaceCrashes
  /\ UNCHANGED <<duty, configuring, logging>>

-----------------------------------------------------------------------------
(* createRotatingJsonlLogger: a log that is too long is discarded at the   *)
(* start; -1 stands for no file.                                            *)
CreateLogger ==
  /\ logBytes = -1
  /\ \/ /\ log' = [now |-> IF log.now > MaxBytes THEN -1 ELSE log.now,
                   previous |-> IF log.previous > MaxBytes THEN -1 ELSE log.previous]
        /\ logBytes' = (IF log'.now = -1 THEN 0 ELSE log'.now)
        /\ available' = TRUE
     \/ /\ log' \in {log, [log EXCEPT !.previous = IF @ > MaxBytes THEN -1 ELSE @]}
        /\ logBytes' = 0 /\ UNCHANGED available
  /\ UNCHANGED discarded

Rotated == [now |-> -1, previous |-> log.now]
TooLong(line) == logBytes + line > MaxBytes

Appended(file, line) == [file EXCEPT !.now = (IF @ = -1 THEN 0 ELSE @) + line]

WriteLog(line) ==
  LET rotates == TooLong(line)
      file == IF rotates THEN Rotated ELSE log
  IN /\ log' = Appended(file, line)
     /\ logBytes' = (IF rotates THEN 0 ELSE logBytes) + line
     /\ UNCHANGED available

(* A log that cannot be written is not tried again; the one before may be  *)
(* gone already.                                                            *)
LogFails(line) ==
  /\ available' = FALSE
  /\ \/ UNCHANGED log
     \/ TooLong(line) /\ log' = [log EXCEPT !.previous = -1]
     \/ TooLong(line) /\ log' = Rotated
  /\ UNCHANGED logBytes

Log ==
  /\ logBytes # -1
  /\ \E line \in 1..MaxLine:
       IF available THEN WriteLog(line) \/ LogFails(line)
       ELSE UNCHANGED <<log, logBytes, available>>
  /\ UNCHANGED discarded

(* Somebody discards the log while the logger runs.                        *)
SomebodyDiscards ==
  /\ logBytes # -1 /\ log.now # -1 /\ discarded' = TRUE
  /\ log' = [log EXCEPT !.now = -1]
  /\ UNCHANGED <<logBytes, available>>

LogNext ==
  /\ duty = "log"
  /\ CreateLogger \/ Log \/ SomebodyDiscards
  /\ UNCHANGED <<duty, configuring, replacing>>

HostNext == ConfigureNext \/ ReplaceNext \/ LogNext

-----------------------------------------------------------------------------
(* A configuration is never replaced, whoever made it, and a start that    *)
(* says that it made one made the one that is there; a text is whole, old  *)
(* or new, none is new unless all were staged, and an answer without an    *)
(* error means that all are; the log and the one before never grow past    *)
(* the limit once the logger has looked at them, and the logger knows how  *)
(* long the log is (atomic-files.ts, jsonl-logger.ts).                     *)
ConfigurationKept ==
  \A s \in Starters: made[s] <=> config = s /\ startAt[s] \in {"clean", "ended", "crashed"}
NothingLeftBehind ==
  /\ \A s \in Starters: startAt[s] = "ended" => s \notin beside
  /\ replaceAt \in {"replaced", "refused", "threw"} => stagedFile = {}
TextsWhole ==
  /\ replaceAt = "replaced" => \A t \in 1..Targets: text[t] = "new"
  /\ replaceAt \in {"stage", "refused", "unstaged"} => \A t \in 1..Targets: text[t] = "old"
  /\ \A t \in 1..Targets, u \in 1..Targets: t < u /\ text[u] = "new" => text[t] = "new"
LogBounded ==
  /\ available => log.now <= MaxBytes /\ log.previous <= MaxBytes
  /\ available /\ ~discarded => (log.now = -1 /\ logBytes = 0) \/ log.now = logBytes
HostFilesWhole == ConfigurationKept /\ NothingLeftBehind /\ TextsWhole /\ LogBounded

=============================================================================
