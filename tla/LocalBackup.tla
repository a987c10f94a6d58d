---------------------------- MODULE LocalBackup ----------------------------
(***************************************************************************)
(* backup_cases: every case of a folder is copied into a new folder, which *)
(* gets a manifest, or nothing is left of it (src/src/backup-executor.ts,  *)
(* with local-file-transaction.ts and owned-file.ts below it).  The single *)
(* copies are WorkingCopy's, and so is the late file that may still appear *)
(* after the backup has given up.                                          *)
(*                                                                         *)
(* The parents created with the folder share its fate and are not kept     *)
(* apart from it.                                                          *)
(***************************************************************************)
EXTENDS WorkingCopy

VARIABLES
  bpc, bcur,   \* what the executor does next, and at which case
  copied,      \* the cases 1..copied have a verified copy
  version,     \* what was read of each case: sha256 in copied and in the manifest
  list,        \* pruefsummen.csv of the backup
  listMade,    \* none, begun, complete: the executor's record of it
  intruder,    \* a foreign entry in the backup folder
  names,       \* the case folder lists what it listed at the start
  named,       \* retainedTargets is not empty
  bresult, undone   \* the answer, and its rolledBack

bothers == <<list, intruder, names>>
blocal == <<bpc, bcur, copied, version, listMade, named>>
banswer == <<bresult, undone>>
bvars == <<bothers, blocal, banswer>>

BackupTypeOK ==
  /\ CopyTypeOK
  /\ bpc \in {"idle", "prepare", "check", "info", "copying", "recheck", "approve", "manifest",
              "listing", "final", "unlist", "remove", "left", "rmdir"}
  /\ bcur \in 0..M + 1 /\ copied \in 0..M
  /\ version \in [Slots -> Versions]
  /\ list \in {"none", "part", "own", "foreign"}
  /\ listMade \in {"none", "begun", "complete"}
  /\ {intruder, names, named, undone} \subseteq BOOLEAN
  /\ bresult \in {"none", "ok", "refused", "failed"}

BackupInit(start) ==
  /\ bpc = start /\ bcur = 1 /\ copied = 0 /\ version = [n \in Slots |-> "v1"]
  /\ list = "none" /\ listMade = "none" /\ intruder = FALSE /\ names = TRUE
  /\ named = FALSE /\ bresult = "none" /\ undone = FALSE

-----------------------------------------------------------------------------
(* Everybody else: the backup folder and the list of cases. *)
BackupDisturbed ==
  /\ \/ place = "there" /\ ~intruder /\ intruder' = TRUE /\ UNCHANGED <<list, names>>
     \/ place = "there" /\ list # "foreign" /\ list' = "foreign" /\ UNCHANGED <<intruder, names>>
     \/ names /\ names' = FALSE /\ UNCHANGED <<list, intruder>>
  /\ UNCHANGED <<wvars, blocal, banswer>>

-----------------------------------------------------------------------------
(* The way forward. *)

OnlyOwnEntries(listed) ==
  /\ place = "there" /\ ~intruder /\ (list # "none" <=> listed)
  /\ \A n \in Slots : copy[n] # "none" <=> n <= copied

(* assertVerifiedTargetStillOwned *)
CopyStillOwned(n) == copy[n] = version[n]

BackupGo(where, n) == bpc' = where /\ bcur' = n /\ UNCHANGED <<bresult, undone>>
BackupFails == BackupGo("unlist", copied)
Kept == UNCHANGED <<bothers, copied, version, listMade, named>>

(* Arguments, folder, names, and the new folder; it may be there when its  *)
(* creation is reported as failed.                                         *)
PrepareBackup ==
  /\ bpc = "prepare"
  /\ Kept /\ UNCHANGED <<original, copy, late, disturbed, stop, wlocal, wanswer>>
  /\ \/ bpc' = "idle" /\ bresult' = "refused" /\ UNCHANGED <<bcur, undone, place>>
     \/ ~stop /\ place' = "there" /\ BackupGo("check", 1)
     \/ place' \in {"there", "absent"} /\ BackupFails

CheckBackup ==
  /\ bpc = "check"
  /\ Kept /\ UNCHANGED wvars
  /\ \/ bcur <= M /\ ~stop /\ OnlyOwnEntries(FALSE) /\ names /\ BackupGo("info", bcur)
     \/ bcur > M /\ BackupGo("recheck", 1)
     \/ BackupFails

(* The case is hashed, and the copy is bound to that hash. *)
CopyNextCase ==
  /\ bpc = "info"
  /\ UNCHANGED <<bothers, copied, listMade, named>>
  /\ \/ /\ original[bcur] \in Versions
        /\ version' = [version EXCEPT ![bcur] = original[bcur]]
        /\ CopyCalled(bcur, original[bcur])
        /\ BackupGo("copying", bcur)
     \/ BackupFails /\ UNCHANGED <<version, wvars>>

CopyReturns ==
  /\ bpc = "copying" /\ wpc = "idle"
  /\ UNCHANGED <<bothers, version, listMade, named, wvars>>
  /\ \/ wresult = "ok" /\ copied' = bcur /\ BackupGo("check", bcur + 1)
     \/ wresult # "ok" /\ BackupFails /\ UNCHANGED copied

(* The copies are hashed once more, one after the other. *)
RecheckCopies ==
  /\ bpc = "recheck"
  /\ Kept /\ UNCHANGED wvars
  /\ \/ bcur <= M /\ ~stop /\ CopyStillOwned(bcur) /\ BackupGo("recheck", bcur + 1)
     \/ bcur > M /\ names /\ OnlyOwnEntries(FALSE) /\ BackupGo("manifest", bcur)
     \/ BackupFails

OpenManifest ==
  /\ bpc = "manifest"
  /\ UNCHANGED <<wvars, intruder, names, copied, version, named>>
  /\ \/ list = "none" /\ list' = "part" /\ listMade' = "begun" /\ BackupGo("listing", bcur)
     \/ list = "none" /\ list' = "part" /\ UNCHANGED listMade /\ BackupFails
     \/ BackupFails /\ UNCHANGED <<list, listMade>>

FinishManifest ==
  /\ bpc = "listing"
  /\ UNCHANGED <<wvars, intruder, names, copied, version, named>>
  /\ \/ list = "part" /\ list' = "own" /\ listMade' = "complete" /\ BackupGo("final", bcur)
     \/ list = "part" /\ list' \in {"part", "own"} /\ UNCHANGED listMade /\ BackupFails
     \/ BackupFails /\ UNCHANGED <<list, listMade>>

FinalCheck ==
  /\ bpc = "final"
  /\ Kept /\ UNCHANGED wvars
  /\ \/ /\ ~stop /\ names /\ OnlyOwnEntries(TRUE)
        /\ bpc' = "idle" /\ bresult' = "ok" /\ UNCHANGED <<bcur, undone>>
     \/ BackupFails

-----------------------------------------------------------------------------
(* The way back: manifest, copies in reverse order, folder. *)

RemoveManifestOfBackup ==
  /\ bpc = "unlist"
  /\ bpc' = "remove" /\ bresult' = "failed"
  /\ \/ /\ listMade # "none" /\ list \in {"part", "own"}
        /\ list' = "none" /\ UNCHANGED named
     \/ named' = (named \/ list # "none") /\ UNCHANGED list
  /\ UNCHANGED <<wvars, intruder, names, bcur, copied, version, listMade, undone>>

(* Copies that failed in between are not among the removed ones. *)
RemoveCopies ==
  /\ bpc = "remove"
  /\ UNCHANGED <<original, place, late, disturbed, stop, wlocal, wanswer, bothers, copied,
                 version, listMade, banswer>>
  /\ \/ /\ bcur > 0
        /\ \/ CopyStillOwned(bcur) /\ copy' = [copy EXCEPT ![bcur] = "none"] /\ UNCHANGED named
           \/ named' = (named \/ copy[bcur] # "none") /\ UNCHANGED copy
        /\ bpc' = "remove" /\ bcur' = bcur - 1
     \/ bcur = 0 /\ bpc' = "left" /\ UNCHANGED <<bcur, copy, named>>

FolderEmpty == ~intruder /\ list = "none" /\ \A n \in Slots : copy[n] = "none"

(* readdir of the folder: whatever is still in it is named. *)
ListWhatIsLeft ==
  /\ bpc = "left"
  /\ bpc' = "rmdir"
  /\ \/ named' = (named \/ (place = "there" /\ ~FolderEmpty))
     \/ named' = TRUE
  /\ UNCHANGED <<wvars, bothers, bcur, copied, version, listMade, banswer>>

(* removeOwnedEmptyDirectory; a folder that stays is named itself. *)
RemoveFolder ==
  /\ bpc = "rmdir"
  /\ bpc' = "idle"
  /\ \/ ~named /\ FolderEmpty /\ place' = "absent"
     \/ UNCHANGED place
  /\ named' = (named \/ place' = "there")
  /\ undone' = (place' = "absent")
  /\ UNCHANGED <<original, copy, late, disturbed, stop, wlocal, wanswer, bothers, bcur,
                 copied, version, listMade, bresult>>

BackupStep ==
  \/ PrepareBackup \/ CheckBackup \/ CopyNextCase \/ CopyReturns \/ RecheckCopies
  \/ OpenManifest \/ FinishManifest \/ FinalCheck
  \/ RemoveManifestOfBackup \/ RemoveCopies \/ ListWhatIsLeft \/ RemoveFolder

BackupNext == BackupStep \/ BackupDisturbed \/ (CopyNext /\ UNCHANGED bvars)

-----------------------------------------------------------------------------
(* Properties. *)

(* What the answer says of a copy is so: a copy reported as made holds the *)
(* version that was asked for, and of one that was not made nothing is     *)
(* left, once the late open is over, unless the answer says that something *)
(* is.                                                                     *)
CopyAnswerIsTrue ==
  wat \notin disturbed /\ wpc = "idle" =>
    /\ wresult = "ok" /\ bpc \in {"idle", "copying"} /\ bresult = "none" =>
         copy[wat] = want
    /\ wresult = "failed" /\ wowned \in {"none", "removed"} /\ late[wat] = "none" =>
         copy[wat] = "none"

(* A backup reported as made holds every case in the version its manifest  *)
(* names; one that was undone has left no folder, not even for a file that *)
(* was asked for before and is made afterwards; and one that was not names *)
(* what it has left.                                                       *)
BackupAnswerIsTrue ==
  bpc = "idle" =>
    /\ bresult = "ok" => \A n \in Slots \ disturbed : copy[n] = version[n]
    /\ undone => place = "absent" /\ \A n \in Slots : copy[n] = "none"
    /\ bresult = "failed" /\ place = "there" => named

(* No step of the executor, nor of a late open, removes or overwrites what *)
(* somebody else has put or changed there.                                 *)
ForeignCopyKept ==
  [][<<wpc, bpc, bcur, late>>' # <<wpc, bpc, bcur, late>> =>
       /\ \A n \in Slots : copy[n] = "foreign" => copy'[n] = "foreign"
       /\ list = "foreign" => list' = "foreign"
       /\ intruder \/ list = "foreign" => place' = place]_<<wvars, bvars>>

=============================================================================
