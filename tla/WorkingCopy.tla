---------------------------- MODULE WorkingCopy ----------------------------
(***************************************************************************)
(* make_working_copy: one case file is copied to a new name and verified   *)
(* (src/src/working-copy-executor.ts, abortable.ts and owned-file.ts below *)
(* it).  LocalBackup calls it for every case of a folder.                  *)
(*                                                                         *)
(* The open that creates the copy cannot be cancelled: an abort or the     *)
(* timeout wins against it, and the file it makes afterwards is removed by *)
(* a callback that nobody waits for.  Every await lets others change the   *)
(* case in place, replace it, or put something else where the copy is.     *)
(*                                                                         *)
(* A content is a version of the case; "empty", "part" and "torn" are      *)
(* copies made here that hold nothing, the beginning of a version, or      *)
(* pieces of two.  "foreign" is whatever somebody else has written or put. *)
(***************************************************************************)
EXTENDS Naturals

CONSTANT M     \* how many cases the folder holds

ASSUME SomeFiles == M \in Nat \ {0}

Slots == 1..M
Versions == {"v1", "v2"}

VARIABLES
  original,    \* what the name of each case holds
  copy,        \* what the name of its copy holds
  place,       \* the folder of the copies
  late,        \* the exclusive open of a copy that the system has not answered
  disturbed,   \* cases whose copy somebody else has touched
  stop,        \* the client has aborted or the time is up
  wpc, wat,    \* what the executor does next, and for which case
  want,        \* expectedSourceHash
  held,        \* what the open handle of the case reads
  written,     \* what was written to the copy so far: writtenDigest
  created,     \* targetCreated
  wresult, wowned   \* the answer, and targetStillOwned with rolledBack

shared == <<original, copy, place, late, disturbed, stop>>
wlocal == <<wpc, wat, want, held, written, created>>
wanswer == <<wresult, wowned>>
wvars == <<shared, wlocal, wanswer>>

CopyTypeOK ==
  /\ original \in [Slots -> Versions \cup {"none"}]
  /\ copy \in [Slots -> Versions \cup {"none", "empty", "part", "torn", "foreign"}]
  /\ place \in {"there", "absent"}
  /\ late \in [Slots -> {"none", "pending", "opened"}]
  /\ disturbed \in SUBSET Slots /\ stop \in BOOLEAN
  /\ wpc \in {"idle", "look", "create", "bind", "write", "writing", "verify", "approve", "undo"}
  /\ wat \in Slots /\ want \in Versions /\ held \in Versions
  /\ written \in Versions \cup {"empty", "part", "torn"}
  /\ created \in BOOLEAN
  /\ wresult \in {"none", "ok", "refused", "failed"}
  /\ wowned \in {"none", "removed", "owned", "unknown"}

CopyInit(p) ==
  /\ original = [n \in Slots |-> "v1"] /\ copy = [n \in Slots |-> "none"]
  /\ place = p /\ late = [n \in Slots |-> "none"]
  /\ disturbed = {} /\ stop = FALSE
  /\ wpc = "idle" /\ wat = 1 /\ want = "v1" /\ held = "v1" /\ written = "empty"
  /\ created = FALSE /\ wresult = "none" /\ wowned = "none"

-----------------------------------------------------------------------------
(* Everybody else. *)

(* A case is changed in place or replaced; a replaced one is still read by *)
(* the handle that was opened before.                                      *)
OriginalTouched(n) ==
  /\ \/ original[n] = "v1" /\ original' = [original EXCEPT ![n] = "v2"]
        /\ held' \in IF wpc # "idle" /\ wat = n THEN {held, "v2"} ELSE {held}
     \/ original[n] # "none" /\ original' = [original EXCEPT ![n] = "none"] /\ UNCHANGED held
  /\ UNCHANGED <<copy, place, late, disturbed, stop, wpc, wat, want, written, created, wanswer>>

CopyTouched(n) ==
  /\ place = "there"
  /\ \/ copy[n] # "foreign" /\ copy' = [copy EXCEPT ![n] = "foreign"]
     \/ copy[n] # "none" /\ copy' = [copy EXCEPT ![n] = "none"]
  /\ disturbed' = disturbed \cup {n}
  /\ UNCHANGED <<original, place, late, stop, wlocal, wanswer>>

StopOrdered ==
  /\ ~stop /\ stop' = TRUE
  /\ UNCHANGED <<original, copy, place, late, disturbed, wlocal, wanswer>>

-----------------------------------------------------------------------------
(* The executor. *)

CopyGo(where) == wpc' = where /\ UNCHANGED <<wat, want, held, created, wanswer>>

(* return localResult(...) before anything was created *)
CopyRefused ==
  /\ wpc' = "idle" /\ wresult' = "refused" /\ wowned' = "none"
  /\ UNCHANGED <<wat, want, held, created>>

CopyCalled(n, v) ==
  /\ wpc = "idle"
  /\ wpc' = "look" /\ wat' = n /\ want' = v
  /\ written' = "empty" /\ created' = FALSE /\ wresult' = "none" /\ wowned' = "none"
  /\ UNCHANGED <<shared, held>>

(* The case is opened and hashed, and everything is looked at that could   *)
(* forbid the copy.                                                        *)
LookAtOriginal ==
  /\ wpc = "look"
  /\ UNCHANGED <<shared, written>>
  /\ \/ /\ ~stop /\ original[wat] = want /\ copy[wat] = "none" /\ place = "there"
        /\ wpc' = "create" /\ held' = want
        /\ UNCHANGED <<wat, want, created, wanswer>>
     \/ CopyRefused
     \/ CopyGo("undo")

(* open(target, "wx+") goes to the system. *)
OpenCopy ==
  /\ wpc = "create" /\ late[wat] = "none" /\ ~created
  /\ late' = [late EXCEPT ![wat] = "pending"]
  /\ UNCHANGED <<original, copy, place, disturbed, stop, wlocal, wanswer>>

Awaited(n) == wpc = "create" /\ wat = n

(* The system answers.  The executor takes the handle only if it has not   *)
(* been told to stop meanwhile.                                            *)
OpenSucceeds(n) ==
  /\ late[n] = "pending" /\ copy[n] = "none" /\ place = "there"
  /\ copy' = [copy EXCEPT ![n] = "empty"]
  /\ IF Awaited(n)
     THEN /\ late' = [late EXCEPT ![n] = "none"]
          /\ wpc' = "bind" /\ created' = TRUE
     ELSE /\ late' = [late EXCEPT ![n] = "opened"]
          /\ UNCHANGED <<wpc, created>>
  /\ UNCHANGED <<original, place, disturbed, stop, wat, want, held, written, wanswer>>

OpenFails(n) ==
  /\ late[n] = "pending"
  /\ late' = [late EXCEPT ![n] = "none"]
  /\ IF Awaited(n) THEN CopyRefused \/ CopyGo("undo")
                   ELSE UNCHANGED <<wpc, wat, want, held, created, wanswer>>
  /\ UNCHANGED <<original, copy, place, disturbed, stop, written>>

(* The abort settles abortable() first. *)
OpenAbandoned ==
  /\ wpc = "create" /\ late[wat] = "pending" /\ stop
  /\ CopyGo("undo")
  /\ UNCHANGED <<shared, written>>

(* The late handle is closed and nothing else. *)
BuggyCleanupLateTargetOpen(n) ==
  /\ late[n] = "opened"
  /\ late' = [late EXCEPT ![n] = "none"]
  /\ UNCHANGED <<original, copy, place, disturbed, stop, wlocal, wanswer>>

(* cleanupLateTargetOpen: what is still empty and the same file goes.  One *)
(* that cannot be removed remains and is remembered here as disturbed.     *)
CleanupLateTargetOpen(n) ==
  /\ late[n] = "opened"
  /\ late' = [late EXCEPT ![n] = "none"]
  /\ \/ /\ copy' = [copy EXCEPT ![n] = IF @ = "empty" THEN "none" ELSE @]
        /\ UNCHANGED disturbed
     \/ disturbed' = disturbed \cup {n} /\ UNCHANGED copy
  /\ UNCHANGED <<original, place, stop, wlocal, wanswer>>

(* The new name is still the file of the handle. *)
Bind ==
  /\ wpc = "bind"
  /\ \/ copy[wat] = "empty" /\ CopyGo("write")
     \/ CopyGo("undo")
  /\ UNCHANGED <<shared, written>>

(* Own writing reaches the copy as long as the name is the handle's file.  *)
Reaches(content) ==
  copy' = [copy EXCEPT ![wat] = IF @ \in {"none", "foreign"} THEN @ ELSE content]

WriteFirstChunk ==
  /\ wpc = "write"
  /\ \/ /\ ~stop
        /\ written' = "part" /\ Reaches("part")
        /\ want' = want /\ wpc' = "writing"
        /\ UNCHANGED <<wat, held, created, wanswer>>
     \/ CopyGo("undo") /\ UNCHANGED <<copy, written>>
  /\ UNCHANGED <<original, place, late, disturbed, stop>>

(* The rest; a case changed in place since the first chunk leaves pieces   *)
(* of both versions, or the new one whole.                                 *)
WriteRest ==
  /\ wpc = "writing"
  /\ \/ /\ ~stop
        /\ written' \in {want, held} \cup (IF held = want THEN {} ELSE {"torn"})
        /\ Reaches(written')
        /\ CopyGo("verify")
     \/ CopyGo("undo") /\ UNCHANGED <<copy, written>>
  /\ UNCHANGED <<original, place, late, disturbed, stop>>

(* removeOwnedFile(path, identity, bytes, hash): the file goes if it is    *)
(* still the one that was made here and holds exactly this content.        *)
RemoveIfHolding(content) ==
  /\ IF copy[wat] = content
     THEN \/ copy' = [copy EXCEPT ![wat] = "none"] /\ wowned' = "removed"
          \/ wowned' \in {"owned", "unknown"} /\ UNCHANGED copy
     ELSE /\ wowned' = IF copy[wat] = "none" THEN "removed" ELSE "unknown"
          /\ UNCHANGED copy
  /\ UNCHANGED <<original, place, late, disturbed, stop>>

(* stableHash of either file finds the version the copy was bound to.      *)
OriginalStable == original[wat] = want /\ held = want
CopyStable == written = want /\ copy[wat] = want

(* Both files are hashed again and compared with what was read before.  A  *)
(* copy that does not pass is removed if it holds the hash of the case.    *)
Verify ==
  /\ wpc = "verify"
  /\ UNCHANGED written
  /\ \/ /\ ~stop /\ OriginalStable /\ CopyStable
        /\ CopyGo("approve") /\ UNCHANGED shared
     \/ /\ ~(OriginalStable /\ CopyStable)
        /\ RemoveIfHolding(want)
        /\ wpc' = "idle" /\ wresult' = "failed"
        /\ UNCHANGED <<wat, want, held, created>>
     \/ CopyGo("undo") /\ UNCHANGED shared

Approve ==
  /\ wpc = "approve"
  /\ UNCHANGED <<shared, written>>
  /\ \/ /\ ~stop /\ wpc' = "idle" /\ wresult' = "ok"
        /\ UNCHANGED <<wat, want, held, created, wowned>>
     \/ stop /\ CopyGo("undo")

(* The copy is removed by its name alone. *)
BuggyUndo ==
  /\ wpc = "undo"
  /\ wpc' = "idle" /\ wresult' = "failed"
  /\ IF created THEN copy' = [copy EXCEPT ![wat] = "none"] /\ wowned' = "removed"
                ELSE wowned' = "none" /\ UNCHANGED copy
  /\ UNCHANGED <<original, place, late, disturbed, stop, wat, want, held, written, created>>

(* Whatever was thrown: what was written so far is removed. *)
Undo ==
  /\ wpc = "undo"
  /\ wpc' = "idle" /\ wresult' = "failed"
  /\ \/ created /\ RemoveIfHolding(written)
     \/ created /\ wowned' = "unknown" /\ UNCHANGED shared
     \/ ~created /\ wowned' = "none" /\ UNCHANGED shared
  /\ UNCHANGED <<wat, want, held, written, created>>

CopyStep ==
  \/ LookAtOriginal \/ OpenCopy \/ OpenAbandoned \/ Bind \/ WriteFirstChunk \/ WriteRest
  \/ Verify \/ Approve \/ Undo

LateStep == \E n \in Slots : OpenSucceeds(n) \/ OpenFails(n) \/ CleanupLateTargetOpen(n)

CopyDisturbed == StopOrdered \/ \E n \in Slots : OriginalTouched(n) \/ CopyTouched(n)

CopyNext == CopyStep \/ LateStep \/ CopyDisturbed

=============================================================================
