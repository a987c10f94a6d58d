------------------------- MODULE ArchiveTransaction -------------------------
(***************************************************************************)
(* archive_cases: the move of case files into a new archive, and its       *)
(* rollback (src/src/archive-executor.ts, with archive-file-copy.ts,       *)
(* owned-file.ts and local-file-transaction.ts below it).                  *)
(*                                                                         *)
(* Nothing is renamed: a case is copied through a handle that stays open,  *)
(* the copy is verified, and only then is the name in the case folder      *)
(* removed.  Every await lets others touch any of the files; between any   *)
(* two steps the process may be killed, so an invariant speaks of what a   *)
(* crash leaves behind.  One action is what the code does between two      *)
(* awaits that matter; the last check of an owned file and its unlink are  *)
(* one step, as the comment above removeOwnedFile accepts.                 *)
(*                                                                         *)
(* The operators named Buggy... are this code with one plausible mistake   *)
(* each; no specification uses them, the properties are tried on them.     *)
(***************************************************************************)
EXTENDS Naturals

CONSTANT N     \* how many cases are archived, in the order of the request

ASSUME SomeCases == N \in Nat \ {0}

Files == 1..N

VARIABLES
  pc,          \* what the executor does next
  cur,         \* the case it is at
  moved,       \* the cases 1..moved have been moved
  source,      \* what the name in the case folder holds
  handle,      \* what the open handle of a case holds
  target,      \* what the name in the archive holds
  recovery,    \* the .sse-recovery- file of a case
  dest,        \* the archive folder
  manifest,    \* pruefsummen.csv
  stray,       \* a foreign entry in the archive folder
  rest,        \* the cases that stay are as expected
  sse,         \* the application runs
  halted,      \* the client has aborted or the time is up
  restored, stillOriginal,  \* of the case that is rolled back
  retained,    \* something in the archive is to be left there: retainedTargets
  report,      \* rollbackFiles
  result, rolledBack,       \* the answer
  touched      \* cases one of whose files somebody else has touched

files == <<source, handle, target, recovery, dest, manifest>>
others == <<stray, rest, sse, halted, touched>>
local == <<moved, restored, stillOriginal, retained>>
answer == <<report, result, rolledBack>>
vars == <<pc, cur, files, others, local, answer>>

(* "own" is a complete copy made here, "partial" one that is being made;   *)
(* "pending" is a removed name that stays until the handle is closed.      *)
ArchTypeOK ==
  /\ pc \in {"prepare", "create", "manifest", "check", "copy", "copying", "recheck", "process",
             "unlink", "visible", "inventory", "entries", "hashes", "rollback", "restoring",
             "judge", "recover", "clear", "report", "unlist", "remove", "finished"}
  /\ cur \in 0..N + 1 /\ moved \in 0..N
  /\ source \in [Files -> {"none", "original", "foreign", "pending", "partial", "own"}]
  /\ handle \in [Files -> {"original", "changed"}]
  /\ target \in [Files -> {"none", "partial", "own", "foreign"}]
  /\ recovery \in [Files -> {"none", "own"}]
  /\ dest \in {"absent", "ours"}
  /\ manifest \in {"none", "partial", "own", "foreign"}
  /\ {stray, rest, sse, halted, restored, stillOriginal, retained, rolledBack} \subseteq BOOLEAN
  /\ report \in [Files -> {"none", "restored", "recoverable", "lost"}]
  /\ result \in {"none", "ok", "failed"}
  /\ touched \in SUBSET Files

ArchInit ==
  /\ pc = "prepare" /\ cur = 1 /\ moved = 0
  /\ source = [n \in Files |-> "original"] /\ handle = [n \in Files |-> "original"]
  /\ target = [n \in Files |-> "none"] /\ recovery = [n \in Files |-> "none"]
  /\ dest = "absent" /\ manifest = "none"
  /\ stray = FALSE /\ rest = TRUE /\ sse = FALSE /\ halted = FALSE
  /\ restored = FALSE /\ stillOriginal = FALSE /\ retained = FALSE
  /\ report = [n \in Files |-> "none"]
  /\ result = "none" /\ rolledBack = FALSE
  /\ touched = {}

-----------------------------------------------------------------------------
(* Everybody else. *)

(* A case is changed in place, replaced, or taken away; a foreign file     *)
(* appears where a case was. *)
SourceTouched(n) ==
  /\ \/ /\ source[n] = "original"
        /\ source' = [source EXCEPT ![n] = "foreign"]
        /\ handle' = [handle EXCEPT ![n] = "changed"]
     \/ /\ source[n] \notin {"foreign", "pending"}
        /\ source' = [source EXCEPT ![n] = "foreign"]
        /\ UNCHANGED handle
     \/ /\ source[n] \in {"original", "own", "foreign"}
        /\ source' = [source EXCEPT ![n] = "none"]
        /\ UNCHANGED handle
  /\ UNCHANGED target

TargetTouched(n) ==
  /\ dest = "ours"
  /\ \/ target[n] # "foreign" /\ target' = [target EXCEPT ![n] = "foreign"]
     \/ target[n] # "none" /\ target' = [target EXCEPT ![n] = "none"]
  /\ UNCHANGED <<source, handle>>

Touch ==
  \E n \in Files :
    /\ SourceTouched(n) \/ TargetTouched(n)
    /\ touched' = touched \cup {n}
    /\ UNCHANGED <<pc, cur, recovery, dest, manifest, stray, rest, sse, halted, local, answer>>

(* The archive folder, the cases that stay, the application, the client.   *)
Disturb ==
  /\ \/ /\ dest = "ours" /\ ~stray /\ stray' = TRUE
        /\ UNCHANGED <<manifest, rest, sse, halted>>
     \/ /\ dest = "ours" /\ manifest # "foreign" /\ manifest' = "foreign"
        /\ UNCHANGED <<stray, rest, sse, halted>>
     \/ rest /\ rest' = FALSE /\ UNCHANGED <<stray, manifest, sse, halted>>
     \/ ~sse /\ sse' = TRUE /\ UNCHANGED <<stray, manifest, rest, halted>>
     \/ ~halted /\ halted' = TRUE /\ UNCHANGED <<stray, manifest, rest, sse>>
  /\ UNCHANGED <<pc, cur, source, handle, target, recovery, dest, touched, local, answer>>

-----------------------------------------------------------------------------
(* The way forward. *)

SourceBound(n) == source[n] = "original" /\ handle[n] = "original"

EntriesExact ==
  /\ dest = "ours" /\ ~stray /\ manifest # "none"
  /\ \A n \in Files : target[n] # "none" <=> n <= moved

(* removeOwnedFile and removeOwnedCopyPrefix: what is not ours stays. *)
WithoutOwn(n) == [target EXCEPT ![n] = IF @ \in {"own", "partial"} THEN "none" ELSE @]

(* What was begun is taken back, as far as that succeeds. *)
CleanUp(n) == target' = WithoutOwn(n) \/ UNCHANGED target

(* Anything the way forward awaits may fail, and then it turns back. *)
Fail == pc' = "rollback" /\ cur' = moved /\ result' = "failed"
Go(where) == pc' = where /\ UNCHANGED <<cur, result>>

(* Everything up to the new folder: inventory, handles, hashes, states.    *)
Prepare ==
  /\ pc = "prepare"
  /\ \/ (\A n \in Files : SourceBound(n)) /\ rest /\ ~sse /\ ~halted /\ Go("create")
     \/ Fail
  /\ UNCHANGED <<files, others, local, report, rolledBack>>

CreateDestination ==
  /\ pc = "create"
  /\ \/ dest' = "ours" /\ Go("manifest")
     \/ dest' \in {"absent", "ours"} /\ Fail
  /\ UNCHANGED <<source, handle, target, recovery, manifest, others, local, report, rolledBack>>

WriteManifest ==
  /\ pc = "manifest"
  /\ \/ manifest = "none" /\ manifest' = "own" /\ Go("check")
     \/ manifest = "none" /\ manifest' = "partial" /\ Fail
     \/ Fail /\ UNCHANGED manifest
  /\ UNCHANGED <<source, handle, target, recovery, dest, others, local, report, rolledBack>>

Check ==
  /\ pc = "check"
  /\ \/ cur <= N /\ ~halted /\ EntriesExact /\ SourceBound(cur) /\ Go("copy")
     \/ cur > N /\ ~halted /\ Go("inventory")
     \/ Fail
  /\ UNCHANGED <<files, others, local, report, rolledBack>>

(* open with wx+: an existing file is never written to. *)
OpenTarget ==
  /\ pc = "copy"
  /\ \/ target[cur] = "none" /\ target' = [target EXCEPT ![cur] = "partial"] /\ Go("copying")
     \/ Fail /\ UNCHANGED target
  /\ UNCHANGED <<source, handle, recovery, dest, manifest, others, local, report, rolledBack>>

(* The copy is complete and verified, or its own part of it is removed.    *)
FinishCopy ==
  /\ pc = "copying"
  /\ \/ /\ target[cur] = "partial" /\ handle[cur] = "original"
        /\ target' = [target EXCEPT ![cur] = "own"]
        /\ Go("recheck")
     \/ Fail /\ CleanUp(cur)
  /\ UNCHANGED <<source, handle, recovery, dest, manifest, others, local, report, rolledBack>>

Recheck ==
  /\ pc = "recheck"
  /\ \/ SourceBound(cur) /\ Go("process") /\ UNCHANGED target
     \/ Fail /\ CleanUp(cur)
  /\ UNCHANGED <<source, handle, recovery, dest, manifest, others, local, report, rolledBack>>

ProcessCheck ==
  /\ pc = "process"
  /\ \/ ~sse /\ Go("unlink") /\ UNCHANGED target
     \/ Fail /\ CleanUp(cur)
  /\ UNCHANGED <<source, handle, recovery, dest, manifest, others, local, report, rolledBack>>

(* The name in the case folder goes; a file system that keeps it until the *)
(* handle is closed is possible; or it cannot be removed.                  *)
RemoveSource ==
  /\ pc = "unlink"
  /\ \/ /\ source[cur] # "none"
        /\ \E left \in {"none", "pending"} : source' = [source EXCEPT ![cur] = left]
        /\ moved' = cur /\ Go("visible")
        /\ UNCHANGED target
     \/ Fail /\ CleanUp(cur) /\ UNCHANGED <<source, moved>>
  /\ UNCHANGED <<handle, recovery, dest, manifest, others, restored, stillOriginal, retained, report,
                 rolledBack>>

Visible ==
  /\ pc = "visible"
  /\ \/ source[cur] = "none" /\ pc' = "check" /\ cur' = cur + 1 /\ UNCHANGED result
     \/ Fail
  /\ UNCHANGED <<files, others, local, report, rolledBack>>

(* The end: what remains in the case folder, what the archive folder       *)
(* lists, and what its files hold.                                         *)
Inventory ==
  /\ pc = "inventory"
  /\ \/ rest /\ (\A n \in Files : source[n] = "none") /\ Go("entries")
     \/ Fail
  /\ UNCHANGED <<files, others, local, report, rolledBack>>

Entries ==
  /\ pc = "entries"
  /\ \/ EntriesExact /\ Go("hashes")
     \/ Fail
  /\ UNCHANGED <<files, others, local, report, rolledBack>>

Hashes ==
  /\ pc = "hashes"
  /\ \/ (\A n \in Files : target[n] = "own") /\ pc' = "finished" /\ result' = "ok" /\ UNCHANGED cur
     \/ Fail
  /\ UNCHANGED <<files, others, local, report, rolledBack>>

-----------------------------------------------------------------------------
(* The way back: the moved cases in reverse order. *)

(* A free name is written from the open handle, exclusively. *)
Restore ==
  /\ pc = "rollback" /\ cur > 0
  /\ \/ /\ source[cur] = "none" /\ handle[cur] = "original"
        /\ source' = [source EXCEPT ![cur] = "partial"]
        /\ pc' = "restoring" /\ UNCHANGED restored
     \/ pc' = "judge" /\ restored' = FALSE /\ UNCHANGED source
  /\ UNCHANGED <<cur, handle, target, recovery, dest, manifest, others, moved, stillOriginal, retained,
                 answer>>

FinishRestore ==
  /\ pc = "restoring"
  /\ pc' = "judge"
  /\ \/ /\ source[cur] = "partial" /\ source' = [source EXCEPT ![cur] = "own"]
        /\ restored' = TRUE
     \/ /\ \/ source[cur] = "partial" /\ source' = [source EXCEPT ![cur] = "none"]
           \/ UNCHANGED source
        /\ restored' = FALSE
  /\ UNCHANGED <<cur, handle, target, recovery, dest, manifest, others, moved, stillOriginal, retained,
                 answer>>

Judge ==
  /\ pc = "judge"
  /\ stillOriginal' = (target[cur] = "own")
  /\ pc' = IF restored \/ target[cur] = "own" THEN "clear" ELSE "recover"
  /\ UNCHANGED <<cur, files, others, moved, restored, retained, answer>>

(* Both names are in foreign hands: an exclusive recovery copy, verified. *)
Recover ==
  /\ pc = "recover"
  /\ pc' = "clear"
  /\ \/ handle[cur] = "original" /\ recovery' = [recovery EXCEPT ![cur] = "own"]
     \/ UNCHANGED recovery
  /\ UNCHANGED <<cur, source, handle, target, dest, manifest, others, local, answer>>

(* The copy in the archive goes whether or not the case is back. *)
BuggyClear ==
  /\ pc = "clear"
  /\ pc' = "report"
  /\ target' = WithoutOwn(cur)
  /\ retained' = (retained \/ target'[cur] # "none")
  /\ UNCHANGED <<cur, source, handle, recovery, dest, manifest, others, moved, restored,
                 stillOriginal, answer>>

Clear ==
  /\ pc = "clear"
  /\ pc' = "report"
  /\ \/ restored /\ target' = WithoutOwn(cur)
     \/ UNCHANGED target
  /\ retained' = (retained \/ target'[cur] # "none")
  /\ UNCHANGED <<cur, source, handle, recovery, dest, manifest, others, moved, restored,
                 stillOriginal, answer>>

Report ==
  /\ pc = "report"
  /\ report' = [report EXCEPT ![cur] =
                  IF restored /\ source[cur] = "own" THEN "restored"
                  ELSE IF restored \/ stillOriginal \/ recovery[cur] = "own" THEN "recoverable"
                  ELSE "lost"]
  /\ pc' = "rollback" /\ cur' = cur - 1
  /\ UNCHANGED <<files, others, local, result, rolledBack>>

RemoveManifest ==
  /\ pc = "rollback" /\ cur = 0
  /\ pc' = "remove"
  /\ \/ manifest = "own" /\ manifest' = "none"
     \/ UNCHANGED manifest
  /\ retained' = (retained \/ manifest' # "none")
  /\ UNCHANGED <<cur, source, handle, target, recovery, dest, others, moved, restored,
                 stillOriginal, answer>>

(* The cases are back, and so everything is as it was. *)
BuggyRolledBack == \A n \in 1..moved : report[n] = "restored"

RolledBack ==
  /\ \A n \in 1..moved : report[n] = "restored"
  /\ ~retained /\ dest' = "absent"

(* The folder goes if it is empty; the handles are closed. *)
Empty == ~stray /\ manifest = "none" /\ \A n \in Files : target[n] = "none"

RemoveDestination ==
  /\ pc = "remove"
  /\ pc' = "finished"
  /\ retained' = (retained \/ (dest = "ours" /\ ~Empty))
  /\ \/ dest' = IF retained' THEN dest ELSE "absent"
     \/ UNCHANGED dest
  /\ source' = [n \in Files |-> IF source[n] = "pending" THEN "none" ELSE source[n]]
  /\ rolledBack' = RolledBack
  /\ UNCHANGED <<cur, handle, target, recovery, manifest, others, moved, restored,
                 stillOriginal, report, result>>

-----------------------------------------------------------------------------
Forward ==
  \/ Prepare \/ CreateDestination \/ WriteManifest \/ Check \/ OpenTarget \/ FinishCopy
  \/ Recheck \/ ProcessCheck \/ RemoveSource \/ Visible \/ Inventory \/ Entries \/ Hashes

Backward ==
  \/ Restore \/ FinishRestore \/ Judge \/ Recover \/ Clear \/ Report
  \/ RemoveManifest \/ RemoveDestination

ArchNext == Touch \/ Disturb \/ Forward \/ Backward
ArchSpec == ArchInit /\ [][ArchNext]_vars

-----------------------------------------------------------------------------
(* Properties. *)

(* At every moment, and so after a crash at any moment, a case that nobody *)
(* else has touched is whole in the case folder or in the archive.         *)
NothingLost ==
  /\ ArchTypeOK
  /\ \A n \in Files \ touched : source[n] \in {"original", "own"} \/ target[n] = "own"

(* What the answer says of such a case is so: archived and gone from the   *)
(* case folder, back as if nothing had been done, or at least to be found. *)
AnswerIsTrue ==
  \A n \in Files \ touched :
    /\ result = "ok" => target[n] = "own" /\ source[n] = "none"
    /\ rolledBack => source[n] \in {"original", "own"} /\ target[n] = "none"
    /\ report[n] # "lost"

(* A file that somebody else has put or changed there is never removed or  *)
(* overwritten, on no path of success or failure; the exception is the     *)
(* moment between the last look at a case and its removal.                 *)
ForeignKept ==
  [][pc' # pc =>
       /\ \A n \in Files :
            /\ target[n] = "foreign" => target'[n] = "foreign"
            /\ source[n] = "foreign" /\ pc # "unlink" => source'[n] = "foreign"
       /\ manifest = "foreign" => manifest' = "foreign"
       /\ stray \/ manifest = "foreign" => dest' = dest]_vars

=============================================================================
