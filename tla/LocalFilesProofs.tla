-------------------------- MODULE LocalFilesProofs --------------------------
(***************************************************************************)
(* What holds of the operations that write case files, for any number of   *)
(* cases: no case is lost at any moment of the archiving or its rollback,  *)
(* the answers are true of the files, and what somebody else has put there *)
(* stays.                                                                  *)
(***************************************************************************)
EXTENDS LocalFiles, TLAPS

-----------------------------------------------------------------------------
(* archive_cases: where the executor stands.  The cases 1..moved are       *)
(* moved, in order, and the rollback goes down from the last of them.      *)

AtCopy == {"copy", "copying", "recheck", "process", "unlink"}

WayForward ==
  {"prepare", "create", "manifest", "check", "visible", "inventory", "entries", "hashes"}
    \cup AtCopy

AtRestore == {"restoring", "judge", "recover", "clear", "report"}

Control ==
  /\ pc \in {"prepare", "create", "manifest"} => cur = 1 /\ moved = 0
  /\ pc \in {"prepare", "create"} => dest = "absent" /\ ~stray /\ manifest = "none"
  /\ pc \in AtCopy \cup {"check"} => cur = moved + 1
  /\ pc \in AtCopy => cur <= N
  /\ pc = "visible" => cur = moved /\ moved # 0
  /\ pc \in WayForward => result = "none" /\ \A n \in Files : report[n] = "none"
  /\ pc \in WayForward \ {"prepare", "create"} => dest = "ours"
  /\ pc \in AtRestore \cup {"rollback"} => cur <= moved
  /\ pc \in AtRestore => cur # 0
  /\ result = "ok" \/ rolledBack => pc = "finished"

(* Where a case is that nobody else has touched.  The rollback removes a   *)
(* copy in the archive only of a case that is back, and says so; until it  *)
(* comes to a case, the copy is whole.                                     *)
NotYetTaken(n) ==
  \/ pc \in WayForward
  \/ pc \in AtRestore \cup {"rollback"} /\ n < cur
  \/ pc \in {"rollback", "restoring", "judge", "recover", "clear"} /\ n = cur

Whole(n) ==
  /\ handle[n] = "original"
  /\ dest = "absent" => target[n] = "none"
  /\ n > moved => source[n] = "original"
  /\ n <= moved => target[n] = "own" \/ source[n] = "own"
  /\ n <= moved /\ NotYetTaken(n) => target[n] = "own"
  /\ pc \in {"recheck", "process", "unlink"} /\ n = cur => target[n] = "own"
  /\ pc \in {"judge", "recover", "clear", "report"} /\ n = cur /\ restored => source[n] = "own"
  /\ pc \in {"recover", "clear", "report"} /\ n = cur => stillOriginal
  /\ pc \in {"entries", "hashes"} => source[n] = "none"
  /\ result = "ok" => target[n] = "own" /\ source[n] = "none"
  /\ report[n] = "restored" => source[n] = "own"
  /\ report[n] # "lost"
  /\ rolledBack => source[n] \in {"original", "own"} /\ target[n] = "none"

ArchInv ==
  /\ ArchTypeOK
  /\ Control
  /\ \A n \in Files \ touched : Whole(n)

-----------------------------------------------------------------------------
(* Every step of the executor and of everybody else preserves it.          *)

(* Types, on the way forward and on the way back.                          *)
LEMMA ForwardType == ArchInv /\ Forward => ArchTypeOK'
<1> SUFFICES ASSUME ArchInv, Forward PROVE ArchTypeOK'
  OBVIOUS
<1> USE SomeCases DEF ArchInv, ArchTypeOK, Control, files, others, local, answer, Fail, Go, CleanUp,
                      WithoutOwn, Files
<1>1. CASE Prepare
  BY <1>1 DEF Prepare
<1>2. CASE CreateDestination
  BY <1>2 DEF CreateDestination
<1>3. CASE WriteManifest
  BY <1>3 DEF WriteManifest
<1>4. CASE Check
  BY <1>4 DEF Check
<1>5. CASE OpenTarget
  BY <1>5 DEF OpenTarget
<1>6. CASE FinishCopy
  BY <1>6 DEF FinishCopy
<1>7. CASE Recheck
  BY <1>7 DEF Recheck
<1>8. CASE ProcessCheck
  BY <1>8 DEF ProcessCheck
<1>9. CASE RemoveSource
  <2>1. cur \in Files
    BY <1>9 DEF RemoveSource, AtCopy
  <2>2. ASSUME NEW left \in {"none", "pending"}, source' = [source EXCEPT ![cur] = left]
        PROVE  source' \in [Files -> {"none", "original", "foreign", "pending", "partial", "own"}]
    BY <2>2
  <2>3. /\ source' \in [Files -> {"none", "original", "foreign", "pending", "partial", "own"}]
        /\ moved' \in 0..N /\ cur' \in 0..N + 1 /\ pc' \in {"visible", "rollback"}
        /\ result' \in {"none", "ok", "failed"}
    <3>1. \/ /\ \E left \in {"none", "pending"} : source' = [source EXCEPT ![cur] = left]
             /\ moved' = cur /\ pc' = "visible" /\ UNCHANGED <<cur, result>>
          \/ /\ pc' = "rollback" /\ cur' = moved /\ result' = "failed"
             /\ UNCHANGED <<source, moved>>
      BY <1>9 DEF RemoveSource
    <3>2. QED
      BY <2>1, <2>2, <3>1
  <2>4. target' \in [Files -> {"none", "partial", "own", "foreign"}]
    BY <1>9 DEF RemoveSource
  <2>5. QED
    BY <1>9, <2>3, <2>4 DEF RemoveSource
<1>10. CASE Visible
  BY <1>10 DEF Visible
<1>11. CASE Inventory
  BY <1>11 DEF Inventory
<1>12. CASE Entries
  BY <1>12 DEF Entries
<1>13. CASE Hashes
  BY <1>13 DEF Hashes
<1>14. QED
  BY <1>1, <1>2, <1>3, <1>4, <1>5, <1>6, <1>7, <1>8, <1>9, <1>10, <1>11, <1>12, <1>13 DEF Forward

(* The way back takes the types along as well.                             *)
LEMMA BackwardType == ArchInv /\ Backward => ArchTypeOK'
<1> SUFFICES ASSUME ArchInv, Backward PROVE ArchTypeOK'
  OBVIOUS
<1> USE SomeCases DEF ArchInv, ArchTypeOK, Control, files, others, local, answer, Fail, Go, CleanUp,
                      WithoutOwn, Files, AtRestore
<1>1. CASE Restore
  BY <1>1 DEF Restore
<1>2. CASE FinishRestore
  BY <1>2 DEF FinishRestore
<1>3. CASE Judge
  BY <1>3 DEF Judge
<1>4. CASE Recover
  BY <1>4 DEF Recover
<1>5. CASE Clear
  BY <1>5 DEF Clear
<1>6. CASE Report
  BY <1>6 DEF Report
<1>7. CASE RemoveManifest
  BY <1>7 DEF RemoveManifest
<1>8. CASE RemoveDestination
  <2>1. source' \in [Files -> {"none", "original", "foreign", "pending", "partial", "own"}]
    BY <1>8 DEF RemoveDestination
  <2>2. retained' \in BOOLEAN /\ dest' \in {"absent", "ours"} /\ pc' = "finished"
    BY <1>8 DEF RemoveDestination
  <2>3. rolledBack' \in BOOLEAN
    BY <1>8 DEF RemoveDestination, RolledBack
  <2>4. QED
    BY <1>8, <2>1, <2>2, <2>3 DEF RemoveDestination
<1>9. QED
  BY <1>1, <1>2, <1>3, <1>4, <1>5, <1>6, <1>7, <1>8 DEF Backward

(* Forward, the position is one past what has moved until Fail sets it to  *)
(* the last moved case.                                                    *)
LEMMA ForwardControl == ArchInv /\ Forward => Control'
<1> SUFFICES ASSUME ArchInv, Forward PROVE Control'
  OBVIOUS
<1> USE SomeCases DEF ArchInv, ArchTypeOK, Control, files, others, local, answer, Fail, Go, CleanUp,
                      WithoutOwn, Files, AtCopy, WayForward, AtRestore
<1>1. CASE Prepare
  BY <1>1 DEF Prepare
<1>2. CASE CreateDestination
  BY <1>2 DEF CreateDestination
<1>3. CASE WriteManifest
  BY <1>3 DEF WriteManifest
<1>4. CASE Check
  BY <1>4 DEF Check
<1>5. CASE OpenTarget
  BY <1>5 DEF OpenTarget
<1>6. CASE FinishCopy
  BY <1>6 DEF FinishCopy
<1>7. CASE Recheck
  BY <1>7 DEF Recheck
<1>8. CASE ProcessCheck
  BY <1>8 DEF ProcessCheck
<1>9. CASE RemoveSource
  BY <1>9 DEF RemoveSource
<1>10. CASE Visible
  BY <1>10 DEF Visible
<1>11. CASE Inventory
  BY <1>11 DEF Inventory
<1>12. CASE Entries
  BY <1>12 DEF Entries
<1>13. CASE Hashes
  BY <1>13 DEF Hashes
<1>14. QED
  BY <1>1, <1>2, <1>3, <1>4, <1>5, <1>6, <1>7, <1>8, <1>9, <1>10, <1>11, <1>12, <1>13 DEF Forward

(* Backward, the position only falls, and the folder is judged when it     *)
(* reaches zero.                                                           *)
LEMMA BackwardControl == ArchInv /\ Backward => Control'
<1> SUFFICES ASSUME ArchInv, Backward PROVE Control'
  OBVIOUS
<1> USE SomeCases DEF ArchInv, ArchTypeOK, Control, files, others, local, answer, Fail, Go, CleanUp,
                      WithoutOwn, Files, AtCopy, WayForward, AtRestore
<1>1. CASE Restore
  BY <1>1 DEF Restore
<1>2. CASE FinishRestore
  BY <1>2 DEF FinishRestore
<1>3. CASE Judge
  BY <1>3 DEF Judge
<1>4. CASE Recover
  BY <1>4 DEF Recover
<1>5. CASE Clear
  BY <1>5 DEF Clear
<1>6. CASE Report
  BY <1>6 DEF Report
<1>7. CASE RemoveManifest
  BY <1>7 DEF RemoveManifest
<1>8. CASE RemoveDestination
  BY <1>8 DEF RemoveDestination
<1>9. QED
  BY <1>1, <1>2, <1>3, <1>4, <1>5, <1>6, <1>7, <1>8 DEF Backward

(* Forward, the name in the case folder goes only after its copy was       *)
(* verified.                                                               *)
LEMMA ForwardWhole ==
  ASSUME ArchInv, Forward, NEW n \in Files \ touched
  PROVE  Whole(n)'
<1> USE SomeCases DEF ArchInv, ArchTypeOK, Control, files, others, local, answer, Fail, Go, CleanUp,
                      WithoutOwn, Files, AtCopy, WayForward, AtRestore,
                      NotYetTaken, Whole
<1>1. CASE Prepare
  BY <1>1 DEF Prepare
<1>2. CASE CreateDestination
  BY <1>2 DEF CreateDestination
<1>3. CASE WriteManifest
  BY <1>3 DEF WriteManifest
<1>4. CASE Check
  BY <1>4 DEF Check
<1>5. CASE OpenTarget
  BY <1>5 DEF OpenTarget
<1>6. CASE FinishCopy
  BY <1>6 DEF FinishCopy
<1>7. CASE Recheck
  BY <1>7 DEF Recheck
<1>8. CASE ProcessCheck
  BY <1>8 DEF ProcessCheck
<1>9. CASE RemoveSource
  BY <1>9 DEF RemoveSource
<1>10. CASE Visible
  BY <1>10 DEF Visible
<1>11. CASE Inventory
  BY <1>11 DEF Inventory
<1>12. CASE Entries
  BY <1>12 DEF Entries
<1>13. CASE Hashes
  BY <1>13 DEF Hashes
<1>14. QED
  BY <1>1, <1>2, <1>3, <1>4, <1>5, <1>6, <1>7, <1>8, <1>9, <1>10, <1>11, <1>12, <1>13 DEF Forward

(* Backward, the copy in the archive goes only of a case that is back.     *)
LEMMA BackwardWhole ==
  ASSUME ArchInv, Backward, NEW n \in Files \ touched
  PROVE  Whole(n)'
<1> USE SomeCases DEF ArchInv, ArchTypeOK, Control, files, others, local, answer, Fail, Go, CleanUp,
                      WithoutOwn, Files, AtCopy, WayForward, AtRestore,
                      NotYetTaken, Whole, RolledBack, Empty
<1>1. CASE Restore
  BY <1>1 DEF Restore
<1>2. CASE FinishRestore
  BY <1>2 DEF FinishRestore
<1>3. CASE Judge
  BY <1>3 DEF Judge
<1>4. CASE Recover
  BY <1>4 DEF Recover
<1>5. CASE Clear
  BY <1>5 DEF Clear
<1>6. CASE Report
  BY <1>6 DEF Report
<1>7. CASE RemoveManifest
  BY <1>7 DEF RemoveManifest
<1>8. CASE RemoveDestination
  <2>1. /\ pc = "remove" /\ pc' = "finished"
        /\ UNCHANGED <<cur, moved, handle, target, report, result, touched>>
        /\ source'[n] = IF source[n] = "pending" THEN "none" ELSE source[n]
    BY <1>8 DEF RemoveDestination
  <2>2. dest' = "absent" => target[n] = "none"
    <3>1. dest = "ours" /\ target[n] # "none" => retained'
      BY <1>8 DEF RemoveDestination
    <3>2. retained' => dest' = dest
      BY <1>8 DEF RemoveDestination
    <3>3. dest \in {"absent", "ours"}
      OBVIOUS
    <3>4. QED
      BY <3>1, <3>2, <3>3
  <2>3. rolledBack' => dest' = "absent" /\ (n <= moved => report[n] = "restored")
    <3>1. rolledBack' = RolledBack
      BY <1>8 DEF RemoveDestination
    <3>2. RolledBack => dest' = "absent" /\ \A m \in 1..moved : report[m] = "restored"
      BY DEF RolledBack
    <3>3. n <= moved => n \in 1..moved
      OBVIOUS
    <3>4. QED
      BY <3>1, <3>2, <3>3
  <2>4. QED
    BY <2>1, <2>2, <2>3
<1>9. QED
  BY <1>1, <1>2, <1>3, <1>4, <1>5, <1>6, <1>7, <1>8 DEF Backward

(* What everybody else does to a case puts it into touched, and concerns   *)
(* no other case; nothing else they do is looked at by Whole.              *)
LEMMA OthersStep ==
  ASSUME ArchInv, Touch \/ Disturb
  PROVE  ArchInv'
<1>1. CASE Touch
  <2>1. PICK n \in Files : /\ SourceTouched(n) \/ TargetTouched(n)
                           /\ touched' = touched \cup {n}
    BY <1>1 DEF Touch
  <2>2. UNCHANGED <<pc, cur, recovery, dest, manifest, stray, rest, sse, halted, moved, restored,
                    stillOriginal, retained, report, result, rolledBack>>
    BY <1>1 DEF Touch, local, answer
  <2>3. /\ source' \in [Files -> {"none", "original", "foreign", "pending", "partial", "own"}]
        /\ handle' \in [Files -> {"original", "changed"}]
        /\ target' \in [Files -> {"none", "partial", "own", "foreign"}]
        /\ \A m \in Files \ {n} :
             source'[m] = source[m] /\ handle'[m] = handle[m] /\ target'[m] = target[m]
    BY <2>1 DEF ArchInv, ArchTypeOK, SourceTouched, TargetTouched
  <2>4. ArchTypeOK' /\ Control'
    BY <2>1, <2>2, <2>3 DEF ArchInv, ArchTypeOK, Control
  <2>5. \A m \in Files \ touched' : Whole(m)'
    BY <2>1, <2>2, <2>3 DEF ArchInv, Whole, NotYetTaken
  <2>6. QED
    BY <2>4, <2>5 DEF ArchInv
<1>2. CASE Disturb
  <2>1. /\ UNCHANGED <<pc, cur, source, handle, target, recovery, dest, touched, moved, restored,
                       stillOriginal, retained, report, result, rolledBack>>
        /\ {stray', rest', sse', halted'} \subseteq BOOLEAN
        /\ manifest' \in {"none", "partial", "own", "foreign"}
        /\ dest = "ours" \/ UNCHANGED <<stray, manifest>>
    BY <1>2 DEF ArchInv, ArchTypeOK, Disturb, local, answer
  <2>2. ArchTypeOK' /\ Control'
    BY <2>1 DEF ArchInv, ArchTypeOK, Control
  <2>3. \A m \in Files \ touched' : Whole(m)'
    BY <2>1 DEF ArchInv, Whole, NotYetTaken
  <2>4. QED
    BY <2>2, <2>3 DEF ArchInv
<1>3. QED
  BY <1>1, <1>2

(* A step of the executor touches nothing in the name of others.           *)
LEMMA ArchStep ==
  ASSUME ArchInv, [ArchNext]_vars
  PROVE  ArchInv'
<1>1. CASE Forward
  <2>1. UNCHANGED touched
    BY <1>1 DEF Forward, Prepare, CreateDestination, WriteManifest, Check, OpenTarget, FinishCopy,
                Recheck, ProcessCheck, RemoveSource, Visible, Inventory, Entries, Hashes, others
  <2>2. QED
    BY <1>1, <2>1, ForwardType, ForwardControl, ForwardWhole DEF ArchInv
<1>2. CASE Backward
  <2>1. UNCHANGED touched
    BY <1>2 DEF Backward, Restore, FinishRestore, Judge, Recover, Clear, Report,
                RemoveManifest, RemoveDestination, others
  <2>2. QED
    BY <1>2, <2>1, BackwardType, BackwardControl, BackwardWhole DEF ArchInv
<1>3. CASE UNCHANGED vars
  <2>1. ArchTypeOK' /\ Control'
    BY <1>3 DEF vars, files, others, local, answer, ArchInv, ArchTypeOK, Control
  <2>2. \A m \in Files \ touched' : Whole(m)'
    BY <1>3 DEF vars, files, others, local, answer, ArchInv, Whole, NotYetTaken
  <2>3. QED
    BY <2>1, <2>2 DEF ArchInv
<1>4. QED
  BY <1>1, <1>2, <1>3, OthersStep DEF ArchNext

(* Before the first step every case is in its folder.                      *)
LEMMA ArchStarts == ArchInit => ArchInv
<1> SUFFICES ASSUME ArchInit PROVE ArchInv
  OBVIOUS
<1>1. ArchTypeOK
  <2>1. /\ [n \in Files |-> "original"]
             \in [Files -> {"none", "original", "foreign", "pending", "partial", "own"}]
        /\ [n \in Files |-> "original"] \in [Files -> {"original", "changed"}]
        /\ [n \in Files |-> "none"] \in [Files -> {"none", "partial", "own", "foreign"}]
        /\ [n \in Files |-> "none"] \in [Files -> {"none", "own"}]
        /\ [n \in Files |-> "none"] \in [Files -> {"none", "restored", "recoverable", "lost"}]
    OBVIOUS
  <2>2. 1 \in 0..N + 1 /\ 0 \in 0..N
    BY SomeCases
  <2>3. {FALSE, TRUE} \subseteq BOOLEAN /\ {} \in SUBSET Files
    OBVIOUS
  <2>4. QED
    BY <2>1, <2>2, <2>3 DEF ArchInit, ArchTypeOK
<1>2. Control
  BY SomeCases DEF ArchInit, Control, AtCopy, WayForward, AtRestore, Files
<1>3. \A n \in Files \ touched : Whole(n)
  BY SomeCases DEF ArchInit, Whole, NotYetTaken, WayForward, AtRestore, Files
<1>4. QED
  BY <1>1, <1>2, <1>3 DEF ArchInv

-----------------------------------------------------------------------------
(* make_working_copy and backup_cases: where a copy is.                    *)

(* What the two modules' steps keep true of every name, also of one that   *)
(* somebody else has disturbed: an open that is under way when its copy is *)
(* given up is not answered to a later copy.                               *)
Opens ==
  /\ created => late[wat] = "none" /\ wpc \notin {"look", "create"}
  /\ wpc \in {"bind", "write", "writing", "verify", "approve"} => created
  /\ wpc = "look" => late[wat] = "none"
  /\ wpc = "create" => late[wat] # "opened"
  /\ wpc \in {"look", "create", "bind", "write"} => written = "empty"
  /\ wpc = "idle" /\ wresult = "ok" => created
  /\ wpc # "idle" => wresult = "none"
  /\ place = "absent" => \A n \in Slots : copy[n] = "none"

(* The contents, as far as nobody else has disturbed them. *)
CopyHolds(n) ==
  /\ late[n] = "pending" => copy[n] = "none"
  /\ late[n] = "opened" => copy[n] = "empty"
  /\ n = wat =>
       /\ wpc \in {"look", "create"} => copy[n] = "none"
       /\ created /\ wpc # "idle" => copy[n] = written
       /\ ~created /\ wpc = "undo" /\ late[n] = "none" => copy[n] = "none"
       /\ wpc = "approve" => written = want
       /\ wpc = "idle" /\ wresult = "failed" /\ wowned \in {"none", "removed"}
            /\ late[n] = "none" => copy[n] = "none"

Copying == Opens /\ \A n \in Slots \ disturbed : CopyHolds(n)

(* The copies that are still to be made have no trace yet. *)
Ahead(n) ==
  \/ bpc \in {"prepare", "check", "info"} /\ n >= bcur
  \/ bpc = "copying" /\ n > bcur
  \/ bpc = "idle" /\ bresult = "none" /\ wpc = "idle" /\ wresult = "none"

Untouched == \A n \in Slots : Ahead(n) => late[n] = "none" /\ (n \notin disturbed => copy[n] = "none")

(* The copies that count as made hold what the manifest will name. *)
Counting == {"check", "info", "copying", "recheck", "manifest", "listing", "final"}

Made ==
  bpc \in Counting \/ (bpc = "idle" /\ bresult = "ok") =>
    \A n \in 1..copied : late[n] = "none" /\ (n \notin disturbed => copy[n] = version[n])

Verified ==
  wpc = "idle" /\ wresult = "ok" /\ wat \notin disturbed
    /\ (bpc = "copying" \/ (bpc = "idle" /\ bresult = "none")) => copy[wat] = want

BackupControl ==
  /\ bpc = "prepare" =>
       bcur = 1 /\ copied = 0 /\ place = "absent" /\ ~intruder /\ list = "none"
  /\ bpc \in {"check", "info", "copying"} => copied + 1 = bcur
  /\ bpc \in {"info", "copying"} => bcur <= M
  /\ bpc = "copying" => wat = bcur /\ want = version[bcur]
  /\ bpc \in {"recheck", "manifest", "listing", "final"} \/ bresult = "ok" => copied = M
  /\ bpc # "copying" /\ (bpc # "idle" \/ bresult # "none") => wpc = "idle"
  /\ bpc \in Counting \cup {"prepare", "unlist"} => bresult = "none"
  /\ bpc # "idle" => bresult \in {"none", "failed"} /\ ~undone
  /\ bpc \in {"remove", "left", "rmdir"} => bresult = "failed"
  /\ bresult = "failed" /\ bpc = "idle" /\ place = "there" => named
  /\ undone => place = "absent"
  /\ bpc \in {"unlist", "remove"} => bcur <= M

CopyInv == BackupTypeOK /\ Copying /\ Untouched /\ Made /\ Verified /\ BackupControl

(* Which operation runs decides which of the two modules may act. *)
OperationInv ==
  /\ op \in {"archive_cases", "make_working_copy", "backup_cases"}
  /\ op = "backup_cases" <=> bpc # "idle" \/ bresult # "none"

(* Every step of the copying, of a late open and of everybody else.       *)
LEMMA CopyTypeStep ==
  ASSUME CopyTypeOK, CopyNext
  PROVE  CopyTypeOK'
<1> USE SomeFiles DEF CopyTypeOK, shared, wlocal, wanswer, CopyGo, CopyRefused, Awaited,
              Reaches, RemoveIfHolding, Versions
<1>1. CASE LookAtOriginal
  BY <1>1 DEF LookAtOriginal
<1>2. CASE OpenCopy
  BY <1>2 DEF OpenCopy
<1>3. CASE OpenAbandoned
  BY <1>3 DEF OpenAbandoned
<1>4. CASE Bind
  BY <1>4 DEF Bind
<1>5. CASE WriteFirstChunk
  BY <1>5 DEF WriteFirstChunk
<1>6. CASE WriteRest
  BY <1>6 DEF WriteRest
<1>7. CASE Verify
  BY <1>7 DEF Verify
<1>8. CASE Approve
  BY <1>8 DEF Approve
<1>9. CASE Undo
  BY <1>9 DEF Undo
<1>10. CASE StopOrdered
  BY <1>10 DEF StopOrdered
<1>11. ASSUME NEW m \in Slots, OpenSucceeds(m) PROVE CopyTypeOK'
  <2>1. CASE Awaited(m)
    BY <1>11, <2>1 DEF OpenSucceeds
  <2>2. CASE ~Awaited(m)
    BY <1>11, <2>2 DEF OpenSucceeds
  <2>3. QED
    BY <2>1, <2>2
<1>12. ASSUME NEW m \in Slots, OpenFails(m) PROVE CopyTypeOK'
  BY <1>12 DEF OpenFails
<1>13. ASSUME NEW m \in Slots, CleanupLateTargetOpen(m) PROVE CopyTypeOK'
  BY <1>13 DEF CleanupLateTargetOpen
<1>14. ASSUME NEW m \in Slots, OriginalTouched(m) PROVE CopyTypeOK'
  BY <1>14 DEF OriginalTouched
<1>15. ASSUME NEW m \in Slots, CopyTouched(m) PROVE CopyTypeOK'
  BY <1>15 DEF CopyTouched
<1>16. QED
  BY <1>1, <1>2, <1>3, <1>4, <1>5, <1>6, <1>7, <1>8, <1>9, <1>10, <1>11, <1>12, <1>13, <1>14, <1>15 DEF CopyNext, CopyStep, LateStep, CopyDisturbed

(* No step of the copying leaves an open behind that a later copy could be *)
(* given.                                                                  *)
LEMMA OpensStep ==
  ASSUME CopyTypeOK, Opens, CopyNext
  PROVE  Opens'
<1> USE SomeFiles DEF CopyTypeOK, shared, wlocal, wanswer, CopyGo, CopyRefused, Awaited,
              Reaches, RemoveIfHolding, Versions, Opens
<1>1. CASE LookAtOriginal
  BY <1>1 DEF LookAtOriginal
<1>2. CASE OpenCopy
  BY <1>2 DEF OpenCopy
<1>3. CASE OpenAbandoned
  BY <1>3 DEF OpenAbandoned
<1>4. CASE Bind
  BY <1>4 DEF Bind
<1>5. CASE WriteFirstChunk
  BY <1>5 DEF WriteFirstChunk
<1>6. CASE WriteRest
  BY <1>6 DEF WriteRest
<1>7. CASE Verify
  BY <1>7 DEF Verify
<1>8. CASE Approve
  BY <1>8 DEF Approve
<1>9. CASE Undo
  BY <1>9 DEF Undo
<1>10. CASE StopOrdered
  BY <1>10 DEF StopOrdered
<1>11. ASSUME NEW m \in Slots, OpenSucceeds(m) PROVE Opens'
  <2>1. CASE Awaited(m)
    BY <1>11, <2>1 DEF OpenSucceeds
  <2>2. CASE ~Awaited(m)
    BY <1>11, <2>2 DEF OpenSucceeds
  <2>3. QED
    BY <2>1, <2>2
<1>12. ASSUME NEW m \in Slots, OpenFails(m) PROVE Opens'
  BY <1>12 DEF OpenFails
<1>13. ASSUME NEW m \in Slots, CleanupLateTargetOpen(m) PROVE Opens'
  BY <1>13 DEF CleanupLateTargetOpen
<1>14. ASSUME NEW m \in Slots, OriginalTouched(m) PROVE Opens'
  BY <1>14 DEF OriginalTouched
<1>15. ASSUME NEW m \in Slots, CopyTouched(m) PROVE Opens'
  BY <1>15 DEF CopyTouched
<1>16. QED
  BY <1>1, <1>2, <1>3, <1>4, <1>5, <1>6, <1>7, <1>8, <1>9, <1>10, <1>11, <1>12, <1>13, <1>14, <1>15 DEF CopyNext, CopyStep, LateStep, CopyDisturbed

(* What the executor has written is what the name holds, while nobody else *)
(* touches it.                                                             *)
LEMMA CopyHoldsStep ==
  ASSUME CopyTypeOK, Opens, CopyNext, NEW n \in Slots \ disturbed', CopyHolds(n)
  PROVE  CopyHolds(n)'
<1> USE SomeFiles DEF CopyTypeOK, shared, wlocal, wanswer, CopyGo, CopyRefused, Awaited,
              Reaches, RemoveIfHolding, Versions, Opens, CopyHolds, OriginalStable, CopyStable
<1>1. CASE LookAtOriginal
  BY <1>1 DEF LookAtOriginal
<1>2. CASE OpenCopy
  BY <1>2 DEF OpenCopy
<1>3. CASE OpenAbandoned
  BY <1>3 DEF OpenAbandoned
<1>4. CASE Bind
  BY <1>4 DEF Bind
<1>5. CASE WriteFirstChunk
  BY <1>5 DEF WriteFirstChunk
<1>6. CASE WriteRest
  <2>1. /\ UNCHANGED <<late, wat, want, created>> /\ created /\ late[wat] = "none"
        /\ wpc = "writing" /\ wpc' \in {"verify", "undo"}
        /\ wpc' = "undo" => UNCHANGED <<copy, written>>
        /\ n # wat => copy'[n] = copy[n]
    BY <1>6 DEF WriteRest
  <2>2. n = wat /\ wpc' = "verify" => copy'[n] = written'
    BY <1>6 DEF WriteRest
  <2>3. QED
    BY <2>1, <2>2
<1>7. CASE Verify
  <2>1. /\ UNCHANGED <<late, wat, want, written, created>> /\ created /\ late[wat] = "none"
        /\ wpc = "verify" /\ wpc' \in {"approve", "idle", "undo"}
        /\ wpc' # "idle" => UNCHANGED copy
        /\ n # wat => copy'[n] = copy[n]
        /\ wpc' = "approve" => written = want
    BY <1>7 DEF Verify
  <2>2. n = wat /\ wpc' = "idle" /\ wowned' \in {"none", "removed"} => copy'[n] = "none"
    BY <1>7 DEF Verify
  <2>3. QED
    BY <2>1, <2>2
<1>8. CASE Approve
  BY <1>8 DEF Approve
<1>9. CASE Undo
  BY <1>9 DEF Undo
<1>10. CASE StopOrdered
  BY <1>10 DEF StopOrdered
<1>11. ASSUME NEW m \in Slots, OpenSucceeds(m) PROVE CopyHolds(n)'
  <2>1. CASE Awaited(m)
    BY <1>11, <2>1 DEF OpenSucceeds
  <2>2. CASE ~Awaited(m)
    BY <1>11, <2>2 DEF OpenSucceeds
  <2>3. QED
    BY <2>1, <2>2
<1>12. ASSUME NEW m \in Slots, OpenFails(m) PROVE CopyHolds(n)'
  BY <1>12 DEF OpenFails
<1>13. ASSUME NEW m \in Slots, CleanupLateTargetOpen(m) PROVE CopyHolds(n)'
  BY <1>13 DEF CleanupLateTargetOpen
<1>14. ASSUME NEW m \in Slots, OriginalTouched(m) PROVE CopyHolds(n)'
  BY <1>14 DEF OriginalTouched
<1>15. ASSUME NEW m \in Slots, CopyTouched(m) PROVE CopyHolds(n)'
  BY <1>15 DEF CopyTouched
<1>16. QED
  BY <1>1, <1>2, <1>3, <1>4, <1>5, <1>6, <1>7, <1>8, <1>9, <1>10, <1>11, <1>12, <1>13, <1>14, <1>15 DEF CopyNext, CopyStep, LateStep, CopyDisturbed

(* What is not being copied, and not awaited, stays as it is.              *)
CopyKept(n) ==
  /\ disturbed \subseteq disturbed' /\ place' = place /\ wat' = wat /\ want' = want
  /\ wpc = "idle" => wpc' = "idle" /\ wresult' = wresult
  /\ wpc' = "idle" /\ wresult' = "none" => wpc = "idle"
  /\ late[n] = "none" /\ (n # wat \/ wpc = "idle") =>
       late'[n] = "none" /\ (n \notin disturbed' => copy'[n] = copy[n])

(* Each step reaches only the copy at hand and those whose open is         *)
(* unanswered.                                                             *)
LEMMA CopyFrame ==
  ASSUME CopyTypeOK, CopyNext, NEW n \in Slots
  PROVE  CopyKept(n)
<1> USE SomeFiles DEF CopyTypeOK, shared, wlocal, wanswer, CopyGo, CopyRefused, Awaited, Reaches,
              RemoveIfHolding, Versions, CopyKept
<1>1. CASE LookAtOriginal
  BY <1>1 DEF LookAtOriginal
<1>2. CASE OpenCopy
  BY <1>2 DEF OpenCopy
<1>3. CASE OpenAbandoned
  BY <1>3 DEF OpenAbandoned
<1>4. CASE Bind
  BY <1>4 DEF Bind
<1>5. CASE WriteFirstChunk
  BY <1>5 DEF WriteFirstChunk
<1>6. CASE WriteRest
  BY <1>6 DEF WriteRest
<1>7. CASE Verify
  BY <1>7 DEF Verify
<1>8. CASE Approve
  BY <1>8 DEF Approve
<1>9. CASE Undo
  BY <1>9 DEF Undo
<1>10. CASE StopOrdered
  BY <1>10 DEF StopOrdered
<1>11. ASSUME NEW m \in Slots, OpenSucceeds(m) PROVE CopyKept(n)
  BY <1>11 DEF OpenSucceeds
<1>12. ASSUME NEW m \in Slots, OpenFails(m) PROVE CopyKept(n)
  BY <1>12 DEF OpenFails
<1>13. ASSUME NEW m \in Slots, CleanupLateTargetOpen(m) PROVE CopyKept(n)
  BY <1>13 DEF CleanupLateTargetOpen
<1>14. ASSUME NEW m \in Slots, OriginalTouched(m) PROVE CopyKept(n)
  BY <1>14 DEF OriginalTouched
<1>15. ASSUME NEW m \in Slots, CopyTouched(m) PROVE CopyKept(n)
  BY <1>15 DEF CopyTouched
<1>16. QED
  BY <1>1, <1>2, <1>3, <1>4, <1>5, <1>6, <1>7, <1>8, <1>9, <1>10, <1>11, <1>12, <1>13, <1>14, <1>15 DEF CopyNext, CopyStep, LateStep, CopyDisturbed

(* A copy begins where no trace of it is yet.                              *)
LEMMA CopyCalledStep ==
  ASSUME CopyTypeOK, Copying, NEW n \in Slots, NEW v \in Versions, CopyCalled(n, v),
         late[n] = "none", n \notin disturbed => copy[n] = "none"
  PROVE  CopyTypeOK' /\ Copying'
<1>1. CopyTypeOK'
  BY DEF CopyTypeOK, CopyCalled, shared, Versions
<1>2. Opens'
  BY DEF CopyTypeOK, CopyCalled, shared, Copying, Opens
<1>3. ASSUME NEW m \in Slots \ disturbed PROVE CopyHolds(m)'
  BY DEF CopyTypeOK, CopyCalled, shared, Copying, CopyHolds
<1>4. QED
  BY <1>1, <1>2, <1>3 DEF Copying, CopyCalled, shared

(* The state of the opens and of the contents is preserved together.       *)
LEMMA CopyingStep ==
  ASSUME CopyTypeOK, Copying, CopyNext
  PROVE  CopyTypeOK' /\ Copying'
<1>1. CopyTypeOK' /\ Opens'
  BY CopyTypeStep, OpensStep DEF Copying
<1>2. ASSUME NEW n \in Slots \ disturbed' PROVE CopyHolds(n)'
  <2>1. n \notin disturbed
    BY CopyFrame DEF CopyKept
  <2>2. QED
    BY <2>1, CopyHoldsStep DEF Copying
<1>3. QED
  BY <1>1, <1>2 DEF Copying

(* Copying while the executor of the backup waits for it, or after it has  *)
(* ended and left an open unanswered.                                      *)
LEMMA CopyingBeside ==
  ASSUME CopyInv, CopyNext, UNCHANGED bvars
  PROVE  CopyInv'
<1>1. UNCHANGED <<list, intruder, names, bpc, bcur, copied, version, listMade, named, bresult, undone>>
  BY DEF bvars, bothers, blocal, banswer
<1>2. CopyTypeOK' /\ Copying'
  BY CopyingStep DEF CopyInv, BackupTypeOK
<1>3. BackupTypeOK'
  BY <1>1, <1>2 DEF CopyInv, BackupTypeOK
<1>4. /\ \A n \in Slots : CopyKept(n)
      /\ place' = place /\ wat' = wat /\ want' = want
      /\ wpc = "idle" => wpc' = "idle" /\ wresult' = wresult
      /\ wpc' = "idle" /\ wresult' = "none" => wpc = "idle"
  <2>1. wat \in Slots
    BY DEF CopyInv, BackupTypeOK, CopyTypeOK
  <2>2. \A n \in Slots : CopyKept(n)
    BY CopyFrame DEF CopyInv, BackupTypeOK
  <2>3. QED
    BY <2>1, <2>2 DEF CopyKept
<1>5. BackupControl'
  BY <1>1, <1>4 DEF CopyInv, BackupControl
<1>6. Untouched'
  <2> SUFFICES ASSUME NEW n \in Slots, Ahead(n)'
               PROVE  late'[n] = "none" /\ (n \notin disturbed' => copy'[n] = copy[n])
    BY <1>1, <1>4 DEF CopyInv, Untouched, Ahead, CopyKept
  <2>1. Ahead(n)
    BY <1>1, <1>4 DEF Ahead
  <2>2. n # wat \/ wpc = "idle"
    BY <2>1 DEF Ahead, CopyInv, BackupControl, BackupTypeOK, Slots
  <2>3. QED
    BY <1>4, <2>1, <2>2 DEF CopyInv, Untouched, CopyKept
<1>7. Made'
  <2> SUFFICES ASSUME bpc \in Counting \/ (bpc = "idle" /\ bresult = "ok"), NEW n \in 1..copied
               PROVE  late'[n] = "none" /\ (n \notin disturbed' => copy'[n] = version[n])
    BY <1>1 DEF Made
  <2>1. n \in Slots
    BY SomeFiles DEF CopyInv, BackupTypeOK, Slots
  <2>2. n # wat \/ wpc = "idle"
    BY DEF CopyInv, BackupControl, BackupTypeOK, Counting
  <2>3. late[n] = "none" /\ (n \notin disturbed => copy[n] = version[n])
    BY DEF CopyInv, Made
  <2>4. QED
    BY <1>4, <2>1, <2>2, <2>3 DEF CopyKept
<1>8. Verified'
  <2> SUFFICES ASSUME wpc' = "idle", wresult' = "ok", wat \notin disturbed',
                      bpc = "copying" \/ (bpc = "idle" /\ bresult = "none")
               PROVE  copy'[wat] = want
    BY <1>1, <1>4 DEF Verified
  <2>1. wat \in Slots /\ wat \notin disturbed
    BY <1>4 DEF CopyInv, BackupTypeOK, CopyTypeOK, CopyKept
  <2>2. CASE wpc = "idle"
    BY <1>4, <2>1, <2>2 DEF CopyInv, Verified, Copying, Opens, CopyKept
  <2>3. CASE wpc # "idle"
    <3>1. wpc = "approve" /\ copy' = copy
      <4>1. wresult = "none"
        BY <2>3 DEF CopyInv, Copying, Opens
      <4>2. ASSUME CopyStep PROVE wpc = "approve" /\ copy' = copy
        BY <2>3, <4>1, <4>2 DEF CopyStep, LookAtOriginal, OpenCopy, OpenAbandoned, Bind, WriteFirstChunk,
             WriteRest, Verify, Approve, Undo, CopyGo, CopyRefused, wlocal, wanswer, shared
      <4>3. ASSUME LateStep \/ CopyDisturbed PROVE FALSE
        BY <2>3, <4>1, <4>3 DEF LateStep, CopyDisturbed, OpenSucceeds, OpenFails, CleanupLateTargetOpen,
             StopOrdered, OriginalTouched, CopyTouched, CopyGo, CopyRefused, wlocal, wanswer
      <4>4. QED
        BY <4>2, <4>3 DEF CopyNext
    <3>2. QED
      BY <2>1, <3>1 DEF CopyInv, Copying, Opens, CopyHolds
  <2>4. QED
    BY <2>2, <2>3
<1>9. QED
  BY <1>2, <1>3, <1>5, <1>6, <1>7, <1>8 DEF CopyInv

(* Every step of the executor of backup_cases.                             *)
LEMMA BackupControlStep ==
  ASSUME CopyInv, BackupStep
  PROVE  BackupTypeOK' /\ BackupControl'
<1> USE SomeFiles DEF CopyInv, BackupTypeOK, CopyTypeOK, wvars, shared, wlocal, wanswer, Kept, BackupGo,
              BackupFails, bothers, Versions, Slots, CopyStillOwned, BackupControl, CopyCalled, CopyNext,
              Counting
<1>1. CASE PrepareBackup
  BY <1>1 DEF PrepareBackup
<1>2. CASE CheckBackup
  <2>1. /\ UNCHANGED <<original, copy, place, late, disturbed, stop, wpc, wat, want, held,
                       written, created, wresult, wowned, list, intruder, names, copied,
                       version, listMade, named, bresult, undone>>
        /\ bpc = "check"
        /\ \/ bcur <= M /\ bpc' = "info" /\ bcur' = bcur
           \/ bcur > M /\ bpc' = "recheck" /\ bcur' = 1
           \/ bpc' = "unlist" /\ bcur' = copied
    BY <1>2 DEF CheckBackup
  <2>2. QED
    BY <2>1
<1>3. CASE CopyNextCase
  <2>1. bcur \in Slots
    BY <1>3 DEF CopyNextCase
  <2>2. CASE /\ version' = [version EXCEPT ![bcur] = original[bcur]]
             /\ CopyCalled(bcur, original[bcur]) /\ original[bcur] \in Versions
             /\ bpc' = "copying" /\ bcur' = bcur
    <3>1. BackupTypeOK'
      BY ZenonT(40), <1>3, <2>1, <2>2 DEF CopyNextCase
    <3>2. BackupControl'
      BY <1>3, <2>1, <2>2 DEF CopyNextCase
    <3>3. QED
      BY <3>1, <3>2
  <2>3. CASE BackupFails /\ UNCHANGED <<version, wvars>>
    BY <1>3, <2>1, <2>3 DEF CopyNextCase
  <2>4. QED
    BY <1>3, <2>2, <2>3 DEF CopyNextCase
<1>4. CASE CopyReturns
  BY <1>4 DEF CopyReturns
<1>5. CASE RecheckCopies
  <2>1. /\ UNCHANGED <<original, copy, place, late, disturbed, stop, wpc, wat, want, held,
                       written, created, wresult, wowned, list, intruder, names, copied,
                       version, listMade, named, bresult, undone>>
        /\ bpc = "recheck"
        /\ \/ bcur <= M /\ bpc' = "recheck" /\ bcur' = bcur + 1
           \/ bpc' = "manifest" /\ bcur' = bcur
           \/ bpc' = "unlist" /\ bcur' = copied
    BY <1>5 DEF RecheckCopies
  <2>2. QED
    BY <2>1
<1>6. CASE OpenManifest
  BY <1>6 DEF OpenManifest
<1>7. CASE FinishManifest
  BY <1>7 DEF FinishManifest
<1>8. CASE FinalCheck
  <2>1. /\ UNCHANGED <<original, copy, place, late, disturbed, stop, wpc, wat, want, held,
                       written, created, wresult, wowned, list, intruder, names, copied,
                       version, listMade, named, undone>>
        /\ bpc = "final"
        /\ \/ bpc' = "idle" /\ bresult' = "ok" /\ bcur' = bcur
           \/ bpc' = "unlist" /\ bcur' = copied /\ bresult' = bresult
    BY <1>8 DEF FinalCheck
  <2>2. QED
    BY <2>1
<1>9. CASE RemoveManifestOfBackup
  <2>1. /\ UNCHANGED <<original, copy, place, late, disturbed, stop, wpc, wat, want, held,
                       written, created, wresult, wowned, intruder, names, bcur, copied,
                       version, listMade, undone>>
        /\ bpc = "unlist"
        /\ bpc' = "remove" /\ bresult' = "failed"
        /\ list' \in {list, "none"} /\ named' \in BOOLEAN
    BY <1>9 DEF RemoveManifestOfBackup
  <2>2. QED
    BY <2>1
<1>10. CASE RemoveCopies
  <2>1. /\ UNCHANGED <<original, place, late, disturbed, stop, wpc, wat, want, held, written,
                       created, wresult, wowned, list, intruder, names, copied, version,
                       listMade, bresult, undone>>
        /\ bpc = "remove"
        /\ named' \in BOOLEAN
        /\ \/ bcur > 0 /\ bpc' = "remove" /\ bcur' = bcur - 1
           \/ bcur = 0 /\ bpc' = "left" /\ bcur' = bcur
        /\ copy' = copy \/ copy' = [copy EXCEPT ![bcur] = "none"]
    BY <1>10 DEF RemoveCopies, banswer
  <2>2. QED
    BY <2>1
<1>11. CASE ListWhatIsLeft
  <2>1. /\ UNCHANGED <<original, copy, place, late, disturbed, stop, wpc, wat, want, held,
                       written, created, wresult, wowned, list, intruder, names, bcur,
                       copied, version, listMade, bresult, undone>>
        /\ bpc = "left"
        /\ bpc' = "rmdir" /\ named' \in BOOLEAN
    BY <1>11 DEF ListWhatIsLeft, banswer
  <2>2. QED
    BY <2>1
<1>12. CASE RemoveFolder
  <2>1. BackupTypeOK'
    BY <1>12 DEF RemoveFolder
  <2>2. BackupControl'
    BY <1>12 DEF RemoveFolder
  <2>3. QED
    BY <2>1, <2>2
<1>13. QED
  BY <1>1, <1>2, <1>3, <1>4, <1>5, <1>6, <1>7, <1>8, <1>9, <1>10, <1>11, <1>12 DEF BackupStep

(* What the executor does to the variables of the copying: it calls for    *)
(* the next copy, makes or removes the folder, or removes a copy that      *)
(* still holds its version.                                                *)
LEMMA BackupReaches ==
  ASSUME CopyInv, BackupStep
  PROVE  \/ UNCHANGED wvars
         \/ /\ bpc = "info" /\ bpc' = "copying" /\ bcur' = bcur /\ bcur \in Slots
            /\ original[bcur] \in Versions /\ CopyCalled(bcur, original[bcur])
            /\ version' = [version EXCEPT ![bcur] = original[bcur]] /\ copied' = copied
         \/ /\ bpc \in {"prepare", "rmdir"} /\ place' \in {"there", "absent"}
            /\ place' = "absent" => \A n \in Slots : copy[n] = "none"
            /\ UNCHANGED <<original, copy, late, disturbed, stop, wlocal, wanswer>>
         \/ /\ bpc = "remove" /\ bcur \in Slots /\ copy[bcur] = version[bcur]
            /\ copy' = [copy EXCEPT ![bcur] = "none"]
            /\ UNCHANGED <<original, place, late, disturbed, stop, wlocal, wanswer>>
<1>1. CASE PrepareBackup
  BY <1>1 DEF PrepareBackup, CopyInv, BackupControl, Copying, Opens, BackupTypeOK, CopyTypeOK, wvars, shared
<1>2. CASE CopyNextCase
  <2>1. bcur \in Slots
    BY <1>2, SomeFiles DEF CopyNextCase, CopyInv, BackupControl, BackupTypeOK, Slots
  <2>2. QED
    BY <1>2, <2>1 DEF CopyNextCase, BackupGo
<1>3. CASE RemoveCopies
  <2>1. bcur > 0 => bcur \in Slots
    BY <1>3, SomeFiles DEF RemoveCopies, CopyInv, BackupControl, BackupTypeOK, Slots
  <2>2. QED
    BY <1>3, <2>1 DEF RemoveCopies, CopyStillOwned, wvars, shared
<1>4. CASE RemoveFolder
  BY <1>4 DEF RemoveFolder, FolderEmpty, CopyInv, BackupTypeOK, CopyTypeOK, Copying, Opens
<1>5. CASE CheckBackup \/ CopyReturns \/ RecheckCopies \/ OpenManifest \/ FinishManifest
           \/ FinalCheck \/ RemoveManifestOfBackup \/ ListWhatIsLeft
  BY <1>5 DEF CheckBackup, CopyReturns, RecheckCopies, OpenManifest, FinishManifest,
              FinalCheck, RemoveManifestOfBackup, ListWhatIsLeft
<1>6. QED
  BY <1>1, <1>2, <1>3, <1>4, <1>5 DEF BackupStep

(* The executor of the backup does not disturb the copying.                *)
LEMMA BackupCopying ==
  ASSUME CopyInv, BackupStep
  PROVE  Copying'
<1> USE DEF CopyInv, BackupTypeOK, CopyTypeOK, Copying, Opens, CopyHolds, wlocal, wanswer
<1>1. CASE UNCHANGED wvars
  BY <1>1 DEF wvars, shared
<1>2. CASE /\ bpc = "info" /\ bcur \in Slots
           /\ original[bcur] \in Versions /\ CopyCalled(bcur, original[bcur])
  <2>1. late[bcur] = "none" /\ (bcur \notin disturbed => copy[bcur] = "none")
    BY <1>2 DEF Untouched, Ahead, Slots
  <2>2. QED
    BY <1>2, <2>1, CopyCalledStep
<1>3. CASE /\ bpc \in {"prepare", "rmdir"}
           /\ place' = "absent" => \A n \in Slots : copy[n] = "none"
           /\ UNCHANGED <<original, copy, late, disturbed, stop, wlocal, wanswer>>
  BY <1>3
<1>4. CASE /\ bpc = "remove" /\ bcur \in Slots /\ copy[bcur] = version[bcur]
           /\ copy' = [copy EXCEPT ![bcur] = "none"]
           /\ UNCHANGED <<original, place, late, disturbed, stop, wlocal, wanswer>>
  <2>1. wpc = "idle"
    BY <1>4 DEF BackupControl
  <2>2. copy[bcur] \in Versions
    BY <1>4
  <2>3. \A n \in Slots : n # bcur => copy'[n] = copy[n]
    BY <1>4
  <2>4. copy'[bcur] = "none" /\ copy[bcur] \notin {"none", "empty"}
    BY <1>4, <2>2 DEF Versions
  <2>5. Opens'
    BY <1>4, <2>3, <2>4
  <2>6. ASSUME NEW n \in Slots \ disturbed' PROVE CopyHolds(n)'
    BY <1>4, <2>1, <2>3, <2>4, <2>6
  <2>7. QED
    BY <2>5, <2>6
<1>5. QED
  BY <1>1, <1>2, <1>3, <1>4, BackupReaches

(* A copy that is still to be made afterwards was so before, and is        *)
(* untouched.                                                              *)
LEMMA StillAhead ==
  ASSUME CopyInv, BackupStep, NEW n \in Slots, Ahead(n)'
  PROVE  Ahead(n) /\ UNCHANGED <<late, copy, disturbed>>
<1> USE SomeFiles DEF CopyInv, BackupControl, BackupTypeOK, CopyTypeOK, wvars, shared, wlocal, wanswer,
              bothers, banswer, Kept, BackupGo, BackupFails, CopyCalled, Ahead, Slots
<1>1. CASE PrepareBackup
  BY <1>1 DEF PrepareBackup
<1>2. CASE CheckBackup
  BY <1>2 DEF CheckBackup
<1>3. CASE CopyNextCase
  BY <1>3 DEF CopyNextCase
<1>4. CASE CopyReturns
  BY <1>4 DEF CopyReturns
<1>5. CASE RecheckCopies
  BY <1>5 DEF RecheckCopies
<1>6. CASE OpenManifest
  BY <1>6 DEF OpenManifest
<1>7. CASE FinishManifest
  BY <1>7 DEF FinishManifest
<1>8. CASE FinalCheck
  BY <1>8 DEF FinalCheck
<1>9. CASE RemoveManifestOfBackup
  BY <1>9 DEF RemoveManifestOfBackup
<1>10. CASE RemoveCopies
  BY <1>10 DEF RemoveCopies
<1>11. CASE ListWhatIsLeft
  BY <1>11 DEF ListWhatIsLeft
<1>12. CASE RemoveFolder
  BY <1>12 DEF RemoveFolder
<1>13. QED
  BY <1>1, <1>2, <1>3, <1>4, <1>5, <1>6, <1>7, <1>8, <1>9, <1>10, <1>11, <1>12 DEF BackupStep

(* The number of copies grows only by the one that was just verified.      *)
LEMMA BackupMade ==
  ASSUME CopyInv, BackupStep
  PROVE  Made'
<1> USE DEF CopyInv, BackupControl, BackupTypeOK, wvars, shared, Kept, BackupGo, BackupFails, Made,
            Counting
<1>1. CASE PrepareBackup
  BY <1>1 DEF PrepareBackup
<1>2. CASE CheckBackup
  BY <1>2 DEF CheckBackup
<1>3. CASE CopyNextCase
  <2> SUFFICES ASSUME bpc' \in Counting \/ (bpc' = "idle" /\ bresult' = "ok"), NEW n \in 1..copied'
               PROVE  late'[n] = "none" /\ (n \notin disturbed' => copy'[n] = version'[n])
    BY DEF Made
  <2>1. CASE BackupFails /\ UNCHANGED <<version, wvars>>
    BY <2>1 DEF BackupFails, BackupGo, Counting
  <2>2. CASE /\ version' = [version EXCEPT ![bcur] = original[bcur]]
             /\ CopyCalled(bcur, original[bcur])
    <3>1. copied' = copied /\ copied + 1 = bcur /\ bpc = "info"
      BY <1>3, <2>2 DEF CopyNextCase, CopyInv, BackupControl
    <3>2. n \in 1..copied /\ n # bcur /\ version'[n] = version[n]
      BY <2>2, <3>1 DEF CopyInv, BackupTypeOK, Slots
    <3>3. UNCHANGED <<late, copy, disturbed>>
      BY <2>2 DEF CopyCalled, shared
    <3>4. QED
      BY <3>1, <3>2, <3>3 DEF CopyInv, Made, Counting
  <2>3. QED
    BY <1>3, <2>1, <2>2 DEF CopyNextCase
<1>4. CASE CopyReturns
  <2> SUFFICES ASSUME NEW n \in 1..copied'
               PROVE  late'[n] = "none" /\ (n \notin disturbed' => copy'[n] = version'[n])
    BY DEF Made
  <2>1. /\ bpc = "copying" /\ wpc = "idle" /\ wat = bcur /\ want = version[bcur]
        /\ UNCHANGED <<late, copy, disturbed, version>>
        /\ copied' = copied \/ (wresult = "ok" /\ copied' = bcur)
        /\ copied + 1 = bcur
    BY <1>4 DEF CopyReturns, CopyInv, BackupControl, wvars, shared, BackupFails, BackupGo
  <2>2. \A m \in 1..copied : late[m] = "none" /\ (m \notin disturbed => copy[m] = version[m])
    BY <2>1 DEF CopyInv, Made, Counting
  <2>3. wresult = "ok" => late[bcur] = "none" /\ (bcur \notin disturbed => copy[bcur] = version[bcur])
    BY <2>1 DEF CopyInv, Copying, Opens, Verified
  <2>4. n \in 1..copied \/ (n = bcur /\ wresult = "ok")
    BY <2>1 DEF CopyInv, BackupTypeOK
  <2>5. QED
    BY <2>1, <2>2, <2>3, <2>4
<1>5. CASE RecheckCopies
  BY <1>5 DEF RecheckCopies
<1>6. CASE OpenManifest
  BY <1>6 DEF OpenManifest
<1>7. CASE FinishManifest
  BY <1>7 DEF FinishManifest
<1>8. CASE FinalCheck
  BY <1>8 DEF FinalCheck
<1>9. CASE RemoveManifestOfBackup
  BY <1>9 DEF RemoveManifestOfBackup
<1>10. CASE RemoveCopies
  BY <1>10 DEF RemoveCopies
<1>11. CASE ListWhatIsLeft
  BY <1>11 DEF ListWhatIsLeft
<1>12. CASE RemoveFolder
  BY <1>12 DEF RemoveFolder
<1>13. QED
  BY <1>1, <1>2, <1>3, <1>4, <1>5, <1>6, <1>7, <1>8, <1>9, <1>10, <1>11, <1>12 DEF BackupStep

(* An answer of the copying is read before the next copy is asked for.     *)
LEMMA BackupVerified ==
  ASSUME CopyInv, BackupStep
  PROVE  Verified'
<1> USE SomeFiles DEF CopyInv, BackupControl, BackupTypeOK, CopyTypeOK, wvars, shared, wlocal, wanswer,
              bothers, banswer, Kept, BackupGo, BackupFails, CopyCalled, Verified
<1>1. CASE PrepareBackup
  BY <1>1 DEF PrepareBackup
<1>2. CASE CheckBackup
  BY <1>2 DEF CheckBackup
<1>3. CASE CopyNextCase
  BY <1>3 DEF CopyNextCase
<1>4. CASE CopyReturns
  BY <1>4 DEF CopyReturns
<1>5. CASE RecheckCopies
  BY <1>5 DEF RecheckCopies
<1>6. CASE OpenManifest
  BY <1>6 DEF OpenManifest
<1>7. CASE FinishManifest
  BY <1>7 DEF FinishManifest
<1>8. CASE FinalCheck
  BY <1>8 DEF FinalCheck
<1>9. CASE RemoveManifestOfBackup
  BY <1>9 DEF RemoveManifestOfBackup
<1>10. CASE RemoveCopies
  BY <1>10 DEF RemoveCopies
<1>11. CASE ListWhatIsLeft
  BY <1>11 DEF ListWhatIsLeft
<1>12. CASE RemoveFolder
  BY <1>12 DEF RemoveFolder
<1>13. QED
  BY <1>1, <1>2, <1>3, <1>4, <1>5, <1>6, <1>7, <1>8, <1>9, <1>10, <1>11, <1>12 DEF BackupStep

(* Every step of backup_cases, and of others beside it, preserves the      *)
(* invariant.                                                              *)
LEMMA BackupInvStep ==
  ASSUME CopyInv, BackupNext
  PROVE  CopyInv'
<1>1. CASE BackupStep
  <2>1. Untouched'
    <3> SUFFICES ASSUME NEW n \in Slots, Ahead(n)'
                 PROVE  late'[n] = "none" /\ (n \notin disturbed' => copy'[n] = "none")
      BY DEF Untouched
    <3>1. Ahead(n) /\ UNCHANGED <<late, copy, disturbed>>
      BY <1>1, StillAhead
    <3>2. QED
      BY <3>1 DEF CopyInv, Untouched
  <2>2. QED
    BY <1>1, <2>1, BackupControlStep, BackupCopying, BackupMade, BackupVerified
       DEF CopyInv
<1>2. CASE BackupDisturbed
  <2>1. /\ UNCHANGED <<original, copy, place, late, disturbed, stop, wpc, wat, want, held, written,
                       created, wresult, wowned, bpc, bcur, copied, version, listMade, named,
                       bresult, undone>>
        /\ {intruder', names'} \subseteq BOOLEAN /\ list' \in {"none", "part", "own", "foreign"}
        /\ place = "there" \/ UNCHANGED <<intruder, list>>
    BY <1>2 DEF BackupDisturbed, wvars, shared, wlocal, wanswer, blocal, banswer, CopyInv, BackupTypeOK
  <2>2. BackupTypeOK' /\ BackupControl'
    BY <2>1 DEF CopyInv, BackupTypeOK, CopyTypeOK, BackupControl
  <2>3. Copying' /\ Untouched' /\ Made' /\ Verified'
    BY <2>1 DEF CopyInv, Copying, Opens, CopyHolds, Untouched, Ahead, Made, Verified
  <2>4. QED
    BY <2>2, <2>3 DEF CopyInv
<1>3. QED
  BY <1>1, <1>2, CopyingBeside DEF BackupNext

(* make_working_copy is one copy, asked for once.                          *)
LEMMA WorkingCopyStep ==
  ASSUME CopyInv, MakeWorkingCopy, UNCHANGED bvars, bpc = "idle", bresult = "none"
  PROVE  CopyInv'
<1>1. ASSUME wresult = "none", CopyCalled(1, "v1") PROVE CopyInv'
  <2>1. UNCHANGED <<list, intruder, names, bpc, bcur, copied, version, listMade, named, bresult, undone>>
    BY DEF bvars, bothers, blocal, banswer
  <2>2. 1 \in Slots /\ "v1" \in Versions
    BY SomeFiles DEF Slots, Versions
  <2>3. late[1] = "none" /\ (1 \notin disturbed => copy[1] = "none")
    BY <1>1, <2>2 DEF CopyCalled, CopyInv, Untouched, Ahead
  <2>4. CopyTypeOK' /\ Copying'
    BY <1>1, <2>2, <2>3, CopyCalledStep DEF CopyInv, BackupTypeOK
  <2>5. wpc' = "look" /\ place' = place
    BY <1>1 DEF CopyCalled, shared
  <2>6. BackupTypeOK' /\ BackupControl'
    BY <2>1, <2>4, <2>5 DEF CopyInv, BackupTypeOK, BackupControl
  <2>7. Untouched' /\ Made' /\ Verified'
    BY <2>1, <2>5 DEF Untouched, Ahead, Made, Counting, Verified
  <2>8. QED
    BY <2>4, <2>6, <2>7 DEF CopyInv
<1>2. QED
  BY <1>1, CopyingBeside DEF MakeWorkingCopy

(* Before the first step there is no copy, no open and no manifest.        *)
LEMMA CopyStarts ==
  ASSUME NEW p \in {"there", "absent"}, CopyInit(p), NEW start \in {"prepare", "idle"},
         BackupInit(start), start = "prepare" => p = "absent"
  PROVE  CopyInv
<1>1. 1 \in Slots /\ 1 \in 0..M + 1 /\ 0 \in 0..M
  BY SomeFiles DEF Slots
<1>2. CopyTypeOK
  BY <1>1 DEF CopyInit, CopyTypeOK, Versions
<1>3. BackupTypeOK
  BY <1>1, <1>2 DEF BackupInit, BackupTypeOK, Versions
<1>4. Copying
  BY DEF CopyInit, Copying, Opens, CopyHolds
<1>5. Untouched /\ Made /\ Verified /\ BackupControl
  BY <1>1 DEF CopyInit, BackupInit, Untouched, Made, Counting, Verified, BackupControl
<1>6. QED
  BY <1>3, <1>4, <1>5 DEF CopyInv

-----------------------------------------------------------------------------
(* The three operations together.                                          *)

LocalInv == ArchInv /\ CopyInv /\ OperationInv

(* A backup that has begun is not idle without an answer.                  *)
LEMMA BackupStands ==
  ASSUME CopyInv, BackupNext, bpc # "idle" \/ bresult # "none"
  PROVE  bpc' # "idle" \/ bresult' # "none"
<1>1. CASE BackupStep
  BY <1>1 DEF BackupStep, PrepareBackup, CheckBackup, CopyNextCase, CopyReturns, RecheckCopies,
              OpenManifest, FinishManifest, FinalCheck, RemoveManifestOfBackup, RemoveCopies,
              ListWhatIsLeft, RemoveFolder, BackupGo, BackupFails, CopyInv, BackupControl
<1>2. CASE BackupDisturbed \/ UNCHANGED bvars
  BY <1>2 DEF BackupDisturbed, bvars, blocal, banswer
<1>3. QED
  BY <1>1, <1>2 DEF BackupNext

(* Each of the three operations starts in the invariant.                   *)
LEMMA LocalStarts == LocalInit => LocalInv
<1> SUFFICES ASSUME LocalInit PROVE LocalInv
  OBVIOUS
<1>1. ArchInv
  BY ArchStarts DEF LocalInit
<1>2. OperationInv
  BY DEF LocalInit, OperationInv, BackupInit
<1>3. CASE op = "backup_cases"
  <2>1. CopyInit("absent") /\ BackupInit("prepare")
    BY <1>3 DEF LocalInit
  <2>2. CopyInv
    BY <2>1, CopyStarts
  <2>3. QED
    BY <1>1, <1>2, <2>2 DEF LocalInv
<1>4. CASE op # "backup_cases"
  <2>1. CopyInit("there") /\ BackupInit("idle")
    BY <1>4 DEF LocalInit
  <2>2. CopyInv
    BY <2>1, CopyStarts
  <2>3. QED
    BY <1>1, <1>2, <2>2 DEF LocalInv
<1>5. QED
  BY <1>3, <1>4

(* An operation preserves its own part and leaves the other alone.         *)
LEMMA LocalStep ==
  ASSUME LocalInv, [LocalNext]_lvars
  PROVE  LocalInv'
<1>1. CASE op = "archive_cases" /\ ArchNext /\ UNCHANGED <<wvars, bvars, op>>
  <2>1. ArchInv'
    BY <1>1, ArchStep DEF LocalInv
  <2>2. CopyInv' /\ OperationInv'
    BY <1>1 DEF LocalInv, OperationInv, wvars, shared, wlocal, wanswer, bvars, bothers, blocal, banswer,
       CopyInv, BackupTypeOK, CopyTypeOK, Copying, Opens, CopyHolds, Untouched, Ahead, Made, Verified,
       BackupControl
  <2>3. QED
    BY <2>1, <2>2 DEF LocalInv
<1>2. CASE op = "make_working_copy" /\ MakeWorkingCopy /\ UNCHANGED <<vars, bvars, op>>
  <2>1. ArchInv'
    BY <1>2, ArchStep DEF LocalInv
  <2>2. bpc = "idle" /\ bresult = "none" /\ OperationInv'
    BY <1>2 DEF LocalInv, OperationInv, bvars, blocal, banswer
  <2>3. QED
    BY <1>2, <2>1, <2>2, WorkingCopyStep DEF LocalInv
<1>3. CASE op = "backup_cases" /\ BackupNext /\ UNCHANGED <<vars, op>>
  <2>1. ArchInv'
    BY <1>3, ArchStep DEF LocalInv
  <2>2. CopyInv'
    BY <1>3, BackupInvStep DEF LocalInv
  <2>3. OperationInv'
    BY <1>3, BackupStands DEF LocalInv, OperationInv
  <2>4. QED
    BY <2>1, <2>2, <2>3 DEF LocalInv
<1>4. CASE UNCHANGED lvars
  <2>1. ArchInv'
    BY <1>4, ArchStep DEF LocalInv, lvars
  <2>2. CopyInv' /\ OperationInv'
    BY <1>4 DEF lvars, LocalInv, OperationInv, wvars, shared, wlocal, wanswer, bvars, bothers, blocal,
       banswer, CopyInv, BackupTypeOK, CopyTypeOK, Copying, Opens, CopyHolds, Untouched, Ahead, Made,
       Verified, BackupControl
  <2>3. QED
    BY <2>1, <2>2 DEF LocalInv
<1>5. QED
  BY <1>1, <1>2, <1>3, <1>4 DEF LocalNext

(* The inductive invariant holds in every reachable state.                 *)
LEMMA LocalInvariant == LocalSpec => []LocalInv
BY LocalStarts, LocalStep, PTL DEF LocalSpec

-----------------------------------------------------------------------------
(* The properties.                                                         *)

(* At every moment of archive_cases and its rollback, and so after a crash *)
(* at any moment, a case that nobody else has touched is whole in the case *)
(* folder or in the archive.                                               *)
THEOREM NothingIsEverLost == LocalSpec => []NothingLost
<1>1. LocalInv => NothingLost
  BY DEF LocalInv, ArchInv, ArchTypeOK, Whole, NothingLost, Files
<1>2. QED
  BY <1>1, LocalInvariant, PTL

(* What archive_cases answers of such a case is so of its files.           *)
THEOREM ArchiveAnswerIsTrue == LocalSpec => []AnswerIsTrue
<1>1. LocalInv => AnswerIsTrue
  BY DEF LocalInv, ArchInv, Whole, AnswerIsTrue
<1>2. QED
  BY <1>1, LocalInvariant, PTL

(* What make_working_copy and backup_cases answer is so of the copies, for *)
(* any number of cases and however late an open is answered.               *)
THEOREM CopiesAreAlwaysTrue == LocalSpec => []CopiesAreTrue
<1>1. LocalInv => CopyAnswerIsTrue
  <2> SUFFICES ASSUME CopyInv, wat \notin disturbed, wpc = "idle"
               PROVE  /\ wresult = "ok" /\ bpc \in {"idle", "copying"} /\ bresult = "none" =>
                           copy[wat] = want
                      /\ wresult = "failed" /\ wowned \in {"none", "removed"} /\ late[wat] = "none" =>
                           copy[wat] = "none"
    BY DEF LocalInv, CopyAnswerIsTrue
  <2>1. CopyHolds(wat)
    BY DEF CopyInv, BackupTypeOK, CopyTypeOK, Copying
  <2>2. QED
    BY <2>1 DEF CopyInv, Verified, CopyHolds
<1>2. LocalInv => BackupAnswerIsTrue
  BY DEF LocalInv, CopyInv, Made, Copying, Opens, BackupControl, BackupAnswerIsTrue, Slots
<1>3. LocalInv => CopiesAreTrue
  BY <1>1, <1>2 DEF LocalInv, CopyInv, CopiesAreTrue
<1>4. QED
  BY <1>3, LocalInvariant, PTL

(* Foreign files, step by step.                                            *)
ArchKeeps ==
  /\ \A n \in Files :
       /\ target[n] = "foreign" => target'[n] = "foreign"
       /\ source[n] = "foreign" /\ pc # "unlink" => source'[n] = "foreign"
  /\ manifest = "foreign" => manifest' = "foreign"
  /\ stray \/ manifest = "foreign" => dest' = dest

CopiesKeep ==
  /\ \A n \in Slots : copy[n] = "foreign" => copy'[n] = "foreign"
  /\ list = "foreign" => list' = "foreign"
  /\ intruder \/ list = "foreign" => place' = place

(* Forward, only own parts are removed and only free names are written.    *)
LEMMA ForwardKeeps ==
  ASSUME ArchInv, Forward
  PROVE  ArchKeeps
<1> USE SomeCases DEF ArchInv, ArchTypeOK, Control, files, Fail, Go, CleanUp, WithoutOwn, Files, AtCopy,
                      ArchKeeps
<1>1. CASE Prepare \/ Check \/ Visible \/ Inventory \/ Entries \/ Hashes
  BY <1>1 DEF Prepare, Check, Visible, Inventory, Entries, Hashes
<1>2. CASE CreateDestination
  BY <1>2 DEF CreateDestination
<1>3. CASE WriteManifest
  BY <1>3 DEF WriteManifest
<1>4. CASE OpenTarget
  BY <1>4 DEF OpenTarget
<1>5. CASE FinishCopy
  BY <1>5 DEF FinishCopy
<1>6. CASE Recheck
  BY <1>6 DEF Recheck
<1>7. CASE ProcessCheck
  BY <1>7 DEF ProcessCheck
<1>8. CASE RemoveSource
  BY <1>8 DEF RemoveSource
<1>9. QED
  BY <1>1, <1>2, <1>3, <1>4, <1>5, <1>6, <1>7, <1>8 DEF Forward

(* Backward, a folder with anything in it that is not own stays.           *)
LEMMA BackwardKeeps ==
  ASSUME ArchInv, Backward
  PROVE  ArchKeeps
<1> USE DEF ArchInv, ArchTypeOK, Control, files, WithoutOwn, Files, AtRestore, ArchKeeps
<1>1. CASE Restore
  BY <1>1 DEF Restore
<1>2. CASE FinishRestore
  BY <1>2 DEF FinishRestore
<1>3. CASE Judge \/ Recover \/ Report
  BY <1>3 DEF Judge, Recover, Report
<1>4. CASE Clear
  BY <1>4 DEF Clear
<1>5. CASE RemoveManifest
  BY <1>5 DEF RemoveManifest
<1>6. CASE RemoveDestination
  <2>1. stray \/ manifest = "foreign" => dest' = dest
    BY <1>6 DEF RemoveDestination, Empty
  <2>2. /\ UNCHANGED <<target, manifest>>
        /\ \A n \in Files : source'[n] = IF source[n] = "pending" THEN "none" ELSE source[n]
    BY <1>6 DEF RemoveDestination
  <2>3. QED
    BY <2>1, <2>2
<1>7. QED
  BY <1>1, <1>2, <1>3, <1>4, <1>5, <1>6 DEF Backward

(* Removing asks for a content that is not foreign, and writing reaches    *)
(* only the file of the own handle.                                        *)
LEMMA CopyKeeps ==
  ASSUME CopyInv, CopyNext, UNCHANGED bvars, <<wpc, late>>' # <<wpc, late>>
  PROVE  CopiesKeep
<1> USE DEF CopyInv, BackupTypeOK, CopyTypeOK, shared, wlocal, wanswer, CopyGo, CopyRefused, Reaches,
            RemoveIfHolding, Versions, bvars, bothers, CopiesKeep
<1>1. CASE LookAtOriginal \/ OpenCopy \/ OpenAbandoned \/ Bind \/ Approve
  BY <1>1 DEF LookAtOriginal, OpenCopy, OpenAbandoned, Bind, Approve
<1>2. CASE WriteFirstChunk
  BY <1>2 DEF WriteFirstChunk
<1>3. CASE WriteRest
  BY <1>3 DEF WriteRest
<1>4. CASE Verify
  BY <1>4 DEF Verify
<1>5. CASE Undo
  BY <1>5 DEF Undo
<1>6. ASSUME NEW m \in Slots, OpenSucceeds(m) PROVE CopiesKeep
  BY <1>6 DEF OpenSucceeds
<1>7. ASSUME NEW m \in Slots, OpenFails(m) PROVE CopiesKeep
  BY <1>7 DEF OpenFails
<1>8. ASSUME NEW m \in Slots, CleanupLateTargetOpen(m) PROVE CopiesKeep
  BY <1>8 DEF CleanupLateTargetOpen
<1>9. CASE CopyDisturbed
  BY <1>9 DEF CopyDisturbed, StopOrdered, OriginalTouched, CopyTouched
<1>10. QED
  BY <1>1, <1>2, <1>3, <1>4, <1>5, <1>6, <1>7, <1>8, <1>9 DEF CopyNext, CopyStep, LateStep

(* The executor of the backup removes only what holds the version it made. *)
LEMMA BackupKeeps ==
  ASSUME CopyInv, BackupStep
  PROVE  CopiesKeep
<1> USE DEF CopyInv, BackupTypeOK, CopyTypeOK, BackupControl, wvars, shared, Kept, bothers, Versions,
            CopiesKeep
<1>1. CASE PrepareBackup
  BY <1>1 DEF PrepareBackup
<1>2. CASE CheckBackup \/ CopyReturns \/ RecheckCopies \/ FinalCheck \/ ListWhatIsLeft
  BY <1>2 DEF CheckBackup, CopyReturns, RecheckCopies, FinalCheck, ListWhatIsLeft
<1>3. CASE CopyNextCase
  BY <1>3 DEF CopyNextCase, CopyCalled
<1>4. CASE OpenManifest
  BY <1>4 DEF OpenManifest
<1>5. CASE FinishManifest
  BY <1>5 DEF FinishManifest
<1>6. CASE RemoveManifestOfBackup
  BY <1>6 DEF RemoveManifestOfBackup
<1>7. CASE RemoveCopies
  <2>1. bcur > 0 => bcur \in Slots
    BY <1>7 DEF RemoveCopies, Slots
  <2>2. QED
    BY <1>7, <2>1 DEF RemoveCopies, CopyStillOwned
<1>8. CASE RemoveFolder
  BY <1>8 DEF RemoveFolder, FolderEmpty
<1>9. QED
  BY <1>1, <1>2, <1>3, <1>4, <1>5, <1>6, <1>7, <1>8 DEF BackupStep

(* So every step of the three operations keeps what is foreign.            *)
LEMMA LocalKeeps ==
  ASSUME LocalInv, [LocalNext]_lvars
  PROVE  /\ pc' # pc => ArchKeeps
         /\ <<wpc, bpc, bcur, late>>' # <<wpc, bpc, bcur, late>> => CopiesKeep
<1>1. ASSUME ArchNext, pc' # pc PROVE ArchKeeps
  BY <1>1, ForwardKeeps, BackwardKeeps DEF LocalInv, ArchNext, Touch, Disturb
<1>2. ASSUME CopyNext, UNCHANGED bvars, <<wpc, bpc, bcur, late>>' # <<wpc, bpc, bcur, late>>
      PROVE  CopiesKeep
  BY <1>2, CopyKeeps DEF LocalInv, bvars, blocal
<1>3. ASSUME wresult = "none", CopyCalled(1, "v1"), UNCHANGED bvars PROVE CopiesKeep
  BY <1>3 DEF CopyCalled, shared, bvars, bothers, CopiesKeep
<1>4. ASSUME BackupNext, <<wpc, bpc, bcur, late>>' # <<wpc, bpc, bcur, late>> PROVE CopiesKeep
  <2>1. CASE BackupDisturbed
    BY <1>4, <2>1 DEF BackupDisturbed, wvars, shared, wlocal, blocal
  <2>2. QED
    BY <1>2, <1>4, <2>1, BackupKeeps DEF BackupNext, LocalInv
<1>5. UNCHANGED vars => pc' = pc
  BY DEF vars
<1>6. UNCHANGED <<wvars, bvars>> => UNCHANGED <<wpc, bpc, bcur, late>>
  BY DEF wvars, bvars, shared, wlocal, blocal
<1>7. QED
  BY <1>1, <1>2, <1>3, <1>4, <1>5, <1>6 DEF LocalNext, MakeWorkingCopy, lvars

(* None of the three operations, nor a late open after them, removes or    *)
(* overwrites what somebody else has put or changed there, on no path of   *)
(* success or failure.                                                     *)
THEOREM OthersAlwaysKept == LocalSpec => OthersKept
<1>1. LocalInv /\ [LocalNext]_lvars =>
        [pc' # pc =>
           /\ \A n \in Files :
                /\ target[n] = "foreign" => target'[n] = "foreign"
                /\ source[n] = "foreign" /\ pc # "unlink" => source'[n] = "foreign"
           /\ manifest = "foreign" => manifest' = "foreign"
           /\ stray \/ manifest = "foreign" => dest' = dest]_vars
  BY LocalKeeps DEF ArchKeeps
<1>2. LocalInv /\ [LocalNext]_lvars =>
        [<<wpc, bpc, bcur, late>>' # <<wpc, bpc, bcur, late>> =>
           /\ \A n \in Slots : copy[n] = "foreign" => copy'[n] = "foreign"
           /\ list = "foreign" => list' = "foreign"
           /\ intruder \/ list = "foreign" => place' = place]_<<wvars, bvars>>
  BY LocalKeeps DEF CopiesKeep
<1>3. QED
  BY <1>1, <1>2, LocalInvariant, PTL DEF LocalSpec, OthersKept, ForeignKept, ForeignCopyKept

=============================================================================
