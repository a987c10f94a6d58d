----------------------------- MODULE Workspace -----------------------------
(***************************************************************************)
(* workspace.ts and the three file operations of workspace-executor.ts:    *)
(* list, read and write the text files of an area the user's person and    *)
(* other programs work in too.  A file is named by its place in the order  *)
(* of the directory; a text is a version of it.                            *)
(***************************************************************************)
EXTENDS Integers, FiniteSets

CONSTANTS
  Entries,        \* files of the directory
  ListLimit,      \* args.limit: files a listing may hold
  HashBudget      \* MAX_LIST_TOTAL_HASH_BYTES, in files

(* A listing has a file to miss and holds at least one. *)
ASSUME WorkspaceAssumption ==
  Entries \in Nat \ {0} /\ ListLimit \in Nat \ {0} /\ HashBudget \in Nat

VARIABLES
  files,      \* what is at each name
  touched,    \* names somebody disturbed since the call began
  versions,       \* history: all that each name has held since the call began
  fpc,        \* the operation
  gone,       \* the client has left: signal.aborted
  late,       \* the time budget is used up
  found,      \* readdirSync: the names still to be looked at, and which are files
  opened,     \* the file whose bytes are read, and what they are a text of
  budget,     \* hashBudget.remaining
  listed,     \* files of the answer: the text whose hash (or which) each carries
  fanswer     \* the answer

fvars == <<files, touched, versions, fpc, gone, late, found, opened, budget, listed, fanswer>>

Names == 1..Entries
Texts == {"v1", "v2"}
(* "link" is a symbolic link that leads out of the area.                   *)
Kinds == Texts \cup {"none", "link"}
(* Bytes read piece by piece while somebody writes into the file may be    *)
(* pieces of several texts, together a text that no name ever held.        *)
BytesRead == Texts \cup {"torn"}

WorkspaceTypeOK ==
  /\ files \in [Names -> Kinds] /\ touched \subseteq Names
  /\ versions \in [Names -> SUBSET Kinds]
  /\ fpc \in {"idle", "list", "entry", "hash", "path", "read", "reread", "write", "place", "done"}
  /\ gone \in BOOLEAN /\ late \in BOOLEAN
  /\ DOMAIN found \subseteq Names
  /\ opened \subseteq [name: Names, bytes: BytesRead, changed: BOOLEAN]
  /\ budget \in 0..HashBudget
  /\ DOMAIN listed \subseteq Names

WorkspaceInit(start) ==
  /\ files \in [Names -> Kinds]
  /\ versions = [n \in Names |-> {files[n]}]
  /\ touched = {} /\ fpc = start /\ gone = FALSE /\ late = FALSE
  /\ found = << >> /\ opened = {} /\ budget = HashBudget
  /\ listed = << >> /\ fanswer = "none"

Stopped == gone \/ late

FileAnswer(kind) == fpc' = "done" /\ fanswer' = kind

(* stopped and checkStopped: the abort is looked at before the clock.      *)
AnswersStopped ==
  /\ Stopped
  /\ FileAnswer(IF gone THEN "aborted" ELSE "timeout")
  /\ UNCHANGED <<files, touched, versions, gone, late, found, opened, budget, listed>>

(* resolveWorkspacePath: an existing entry must lie inside the area; a     *)
(* name that is not there resolves to itself.                               *)
Inside(name) == files[name] # "link"

---------------------------------------------------------------------------
(* workspace_file_list.  walkWorkspaceFiles reads the directory once; the  *)
(* driver looks at abort and deadline between any two units of work.       *)
ReadDirectory ==
  /\ fpc = "list" /\ ~Stopped
  /\ found' = [n \in {k \in Names: files[k] # "none"} |-> files[n] \in Texts]
  /\ fpc' = "entry"
  /\ UNCHANGED <<files, touched, versions, gone, late, opened, budget, listed, fanswer>>

NextName == CHOOSE n \in DOMAIN found: \A k \in DOMAIN found: n <= k
Without(f, name) == [n \in DOMAIN f \ {name} |-> f[n]]
LooksAt == fpc = "entry" /\ ~Stopped /\ found # << >>

(* A link, or a file that has gone since the directory was read            *)
(* (isVanishedPathError).                                                   *)
SkipEntry ==
  /\ LooksAt
  /\ ~found[NextName] \/ files[NextName] = "none"
  /\ found' = Without(found, NextName)
  /\ UNCHANGED <<files, touched, versions, fpc, gone, late, opened, budget, listed, fanswer>>

EscapedEntry ==
  /\ LooksAt /\ found[NextName] /\ ~Inside(NextName)
  /\ FileAnswer("threw")
  /\ UNCHANGED <<files, touched, versions, gone, late, found, opened, budget, listed>>

LimitReached == Cardinality(DOMAIN listed) >= ListLimit

Truncate ==
  /\ LooksAt /\ found[NextName]
  /\ files[NextName] \in Texts /\ LimitReached
  /\ FileAnswer("truncated")
  /\ UNCHANGED <<files, touched, versions, gone, late, found, opened, budget, listed>>

(* mayHash: a file beyond the budget is listed without its hash.           *)
OpenEntry ==
  /\ LooksAt /\ found[NextName]
  /\ files[NextName] \in Texts /\ ~LimitReached
  /\ IF budget > 0
     THEN /\ opened' = {[name |-> NextName, bytes |-> files[NextName], changed |-> FALSE]}
          /\ budget' = budget - 1 /\ fpc' = "hash" /\ UNCHANGED listed
     ELSE /\ listed' = [n \in DOMAIN listed \cup {NextName} |->
                          IF n = NextName THEN "omitted" ELSE listed[n]]
          /\ fpc' = "path" /\ UNCHANGED <<opened, budget>>
  /\ UNCHANGED <<files, touched, versions, gone, late, found, fanswer>>

(* hashFile: the digest of the bytes read is given only when size, mtime   *)
(* and ctime of the open file are those it had when it was opened.         *)
BuggyDigest(o) == o.bytes
Digest(o) == IF o.changed THEN "omitted" ELSE o.bytes

HashEntry ==
  /\ fpc = "hash" /\ ~Stopped
  /\ \E o \in opened:
       listed' = [n \in DOMAIN listed \cup {o.name} |->
                    IF n = o.name THEN Digest(o) ELSE listed[n]]
  /\ opened' = {} /\ fpc' = "path"
  /\ UNCHANGED <<files, touched, versions, gone, late, found, budget, fanswer>>

(* realpathSync(path) !== file: an entry that was taken away meanwhile is  *)
(* skipped, one that leads elsewhere now fails the listing.                *)
KeepEntry ==
  /\ fpc = "path"
  /\ IF ~Inside(NextName)
     THEN FileAnswer("threw") /\ UNCHANGED <<found, listed>>
     ELSE /\ fpc' = "entry" /\ found' = Without(found, NextName) /\ UNCHANGED fanswer
          /\ listed' = IF files[NextName] = "none" THEN Without(listed, NextName) ELSE listed
  /\ UNCHANGED <<files, touched, versions, gone, late, opened, budget>>

ListEnds ==
  /\ fpc = "entry" /\ ~Stopped /\ found = << >>
  /\ FileAnswer("ok")
  /\ UNCHANGED <<files, touched, versions, gone, late, found, opened, budget, listed>>

ListStopped == fpc \in {"list", "entry", "hash"} /\ AnswersStopped

ListStep ==
  \/ ReadDirectory \/ SkipEntry \/ EscapedEntry \/ Truncate
  \/ OpenEntry \/ HashEntry \/ KeepEntry \/ ListEnds \/ ListStopped

---------------------------------------------------------------------------
(* workspace_file_read_text of name 1: the bytes are read through a path   *)
(* that is resolved again afterwards; whether the file was written to      *)
(* meanwhile is not asked (readFileBounded).                               *)
ReadText ==
  /\ fpc = "read" /\ ~Stopped
  /\ IF files[1] \in Texts
     THEN /\ opened' = {[name |-> 1, bytes |-> files[1], changed |-> FALSE]}
          /\ fpc' = "reread" /\ UNCHANGED fanswer
     ELSE FileAnswer("threw") /\ UNCHANGED opened
  /\ UNCHANGED <<files, touched, versions, gone, late, found, budget, listed>>

ReadAgain ==
  /\ fpc = "reread"
  /\ FileAnswer(IF ~Inside(1) THEN "threw"
                ELSE IF gone THEN "aborted" ELSE IF late THEN "timeout" ELSE "text")
  /\ listed' = IF fanswer' = "text" THEN [n \in {1} |-> (CHOOSE o \in opened: TRUE).bytes] ELSE listed
  /\ UNCHANGED <<files, touched, versions, gone, late, found, opened, budget>>

(* workspace_file_write_text of name 1: the text is placed by a hard link, *)
(* which fails when the name is taken; once it is placed no deadline turns *)
(* the answer into a failure.                                              *)
CheckTarget ==
  /\ fpc = "write" /\ ~Stopped
  /\ IF files[1] = "none" THEN fpc' = "place" /\ UNCHANGED fanswer ELSE FileAnswer("threw")
  /\ UNCHANGED <<files, touched, versions, gone, late, found, opened, budget, listed>>

PlaceText ==
  /\ fpc = "place"
  /\ IF files[1] = "none"
     THEN /\ files' = [files EXCEPT ![1] = "v1"] /\ FileAnswer("text")
          /\ versions' = [versions EXCEPT ![1] = @ \cup {"v1"}]
          /\ listed' = [n \in {1} |-> "v1"]
     ELSE FileAnswer("threw") /\ UNCHANGED <<files, versions, listed>>
  /\ UNCHANGED <<touched, gone, late, found, opened, budget>>

TextStopped == fpc \in {"read", "write"} /\ AnswersStopped

TextStep == ReadText \/ ReadAgain \/ CheckTarget \/ PlaceText \/ TextStopped

---------------------------------------------------------------------------
(* Another program at the files, the client, the clock.  A name gets       *)
(* another file, which leaves the open one as it is, or the open file is   *)
(* written to, which shows in its size or times whatever of it was read.   *)
SomebodyChanges ==
  /\ fpc # "done"
  /\ \E n \in Names \ touched, k \in Kinds:
       /\ k # files[n]
       /\ files' = [files EXCEPT ![n] = k]
       /\ touched' = touched \cup {n}
       /\ versions' = [versions EXCEPT ![n] = @ \cup {k}]
       /\ \/ UNCHANGED opened
          \/ k \in Texts /\ \E o \in opened:
               /\ o.name = n
               /\ \E bytes \in {o.bytes, "torn"}:
                    opened' = {[o EXCEPT !.bytes = bytes, !.changed = TRUE]}
  /\ UNCHANGED <<fpc, gone, late, found, budget, listed, fanswer>>

CallerOrClock ==
  /\ fpc # "done"
  /\ \/ ~gone /\ gone' = TRUE /\ UNCHANGED late
     \/ ~late /\ late' = TRUE /\ UNCHANGED gone
  /\ UNCHANGED <<files, touched, versions, fpc, found, opened, budget, listed, fanswer>>

WorkspaceNext == ListStep \/ TextStep \/ SomebodyChanges \/ CallerOrClock

---------------------------------------------------------------------------
(* A listing that calls itself complete holds every text file nobody       *)
(* disturbed.  Every hash it holds, of a file disturbed while it was       *)
(* hashed too, is of a text that its name has held since the call began: a *)
(* file written to meanwhile is listed without a hash instead of with the  *)
(* hash of a text that never existed (workspace.ts hashFile).  A text read *)
(* or written whole has stood at its name; only one that somebody wrote to *)
(* while it was read may be torn.                                          *)
ListingIsTrue ==
  /\ fanswer = "ok" =>
       \A n \in Names \ touched: files[n] \in Texts => n \in DOMAIN listed
  /\ \A n \in DOMAIN listed:
       \/ listed[n] \in versions[n] \cap Texts
       \/ listed[n] = "omitted" /\ fanswer # "text"
       \/ listed[n] = "torn" /\ fanswer = "text" /\ n \in touched

=============================================================================
