--------------------------- MODULE DesktopHelpers ---------------------------
(***************************************************************************)
(* The hidden desktop: desktop_start, desktop_status and desktop_stop, each*)
(* one run of a native helper between two looks at the marker file that    *)
(* says whose the desktop is (src/src/native-desktop-start.ts, -status.ts, *)
(* -stop.ts, src/src/desktop-marker.ts).  The first program is the one an  *)
(* earlier start left, the second one a start brings; the helper can be    *)
(* cut off at any moment, and another controller can change the marker.    *)
(***************************************************************************)
EXTENDS Naturals, FiniteSets

VARIABLES
  marker,    \* the marker: none, the program it names, center (another owner), bad
  alive,     \* the programs that run on the hidden desktop
  hit,       \* the programs the helper has ended
  dpc,       \* the next step
  seenMark,  \* the marker as it was read before the helper
  dreply,    \* the marks of the helper's reply
  danswer

dworldvars == <<marker, alive, hit>>
dvars == <<dworldvars, dpc, seenMark, dreply, danswer>>

Programs == {"first", "second"}
Markers == {"none", "center", "bad"} \union Programs
Owned(mark) == mark \in Programs
DesktopMarks == {"ok", "failed", "unknown", "exited", "active", "inactive"} \union Programs

DesktopTypeOK ==
  /\ marker \in Markers /\ alive \subseteq Programs /\ hit \subseteq Programs
  /\ dpc \in {"idle", "start", "startrun", "startown", "status", "statusrun", "statusown", "stop", "stoprun", "stopown", "done"}
  /\ seenMark \in Markers /\ dreply \subseteq DesktopMarks /\ danswer \subseteq DesktopMarks

DesktopInit(start) ==
  /\ \/ marker \in {"first", "none", "center", "bad"} /\ alive = {"first"}
     \/ marker \in {"first", "none"} /\ alive = {}
  /\ hit = {} /\ dpc = start /\ seenMark = "none" /\ dreply = {} /\ danswer = {}

(* Another controller takes or gives up the marker; a program ends. *)
DesktopDisturbed ==
  /\ dpc # "done"
  /\ UNCHANGED <<dpc, hit, seenMark, dreply, danswer>>
  /\ \/ marker' \in {"none", "center"} \ {marker} /\ UNCHANGED alive
     \/ \E p \in alive : alive' = alive \ {p} /\ UNCHANGED marker

-----------------------------------------------------------------------------
(* Answers. *)

DesktopReturns(marks) == dpc' = "done" /\ danswer' = marks /\ UNCHANGED <<seenMark, dreply>>
DesktopFails(unknown) == DesktopReturns({"failed"} \union IF unknown THEN {"unknown"} ELSE {})
DesktopGoes(where) == dpc' = where /\ UNCHANGED danswer

(* outcomeUnknown of a helper that was cut off or whose reply is not       *)
(* understood: it is known only of one that never ran.                     *)
Interrupted(spawned) == spawned

(* Only a missing file is no marker; every other one that cannot be read   *)
(* is refused.                                                             *)
ReadDesktopMarker(use) == marker # "bad" /\ use

-----------------------------------------------------------------------------
(* executeNativeDesktopStart *)

StartLooks ==
  /\ dpc = "start"
  /\ UNCHANGED dworldvars
  /\ \/ ReadDesktopMarker(marker # "center") /\ DesktopGoes("startrun") /\ seenMark' = marker /\ UNCHANGED dreply
     \/ DesktopFails(FALSE)

(* The helper starts the second program and writes the marker, unless a program     *)
(* runs; after a failure it cleans up, if it can, and says so.             *)
StartRuns ==
  /\ dpc = "startrun"
  /\ UNCHANGED <<hit, seenMark>>
  /\ \/ /\ alive = {} /\ marker # "center"
        /\ alive' = {"second"} /\ marker' = "second" /\ dreply' \in {{p} : p \in Programs} /\ DesktopGoes("startown")
     \/ UNCHANGED <<marker, alive>> /\ dreply' = {} /\ dpc' = "done" /\ danswer' = {"failed"}
     \/ /\ UNCHANGED dreply /\ dpc' = "done" /\ danswer' = {"failed", "unknown"}
        /\ alive' \in {alive, alive \union {"second"}} /\ marker' \in {marker, "second"}
     \/ /\ UNCHANGED dreply /\ dpc' = "done"
        /\ \E spawned \in BOOLEAN :
             /\ danswer' = {"failed"} \union IF Interrupted(spawned) THEN {"unknown"} ELSE {}
             /\ IF spawned /\ alive = {} /\ marker # "center"
                  THEN alive' \in {alive, {"second"}} /\ marker' \in {marker, "second"}
                  ELSE UNCHANGED <<marker, alive>>

(* A reply that binds another process than the one it started is no reply. *)
FitsStart == dreply = {"second"}

(* After the hand-over the marker must name what was started. *)
StartOwns ==
  /\ dpc = "startown"
  /\ UNCHANGED dworldvars
  /\ \/ FitsStart /\ marker = "second" /\ DesktopReturns({"ok"})
     \/ ~(FitsStart /\ marker = "second") /\ DesktopFails(TRUE)

-----------------------------------------------------------------------------
(* executeNativeDesktopStatus: only reads. *)

StatusLooks ==
  /\ dpc = "status"
  /\ UNCHANGED dworldvars
  /\ \/ /\ ReadDesktopMarker(TRUE) /\ seenMark' = marker /\ UNCHANGED danswer
        /\ IF marker = "none" THEN dpc' = "statusown" /\ dreply' = {"inactive"}
           ELSE dpc' = "statusrun" /\ UNCHANGED dreply
     \/ DesktopFails(FALSE)

StatusRuns ==
  /\ dpc = "statusrun"
  /\ UNCHANGED <<dworldvars, seenMark>>
  /\ \/ /\ DesktopGoes("statusown")
        /\ \E p \in Programs : dreply' = {p} \union (IF p \in alive THEN {"active"} ELSE {"inactive"})
     \/ UNCHANGED dreply /\ dpc' = "done" /\ danswer' = {"failed"}

(* The process of the reply must be the one the marker named. *)
FitsStatus == Owned(seenMark) => seenMark \in dreply

StatusOwns ==
  /\ dpc = "statusown"
  /\ UNCHANGED dworldvars
  /\ \/ FitsStatus /\ marker = seenMark
        /\ DesktopReturns({"ok"} \union IF Owned(seenMark) THEN dreply \ Programs ELSE {"inactive"})
     \/ DesktopFails(FALSE)

-----------------------------------------------------------------------------
(* executeNativeDesktopStop: never saves. *)

StopLooks ==
  /\ dpc = "stop"
  /\ UNCHANGED dworldvars
  /\ \/ ReadDesktopMarker(Owned(marker)) /\ DesktopGoes("stoprun") /\ seenMark' = marker /\ UNCHANGED dreply
     \/ DesktopFails(FALSE)

(* The helper keeps the process object through close, exit and removal of  *)
(* the marker; what it reports must fit together.                          *)
StopRuns ==
  /\ dpc = "stoprun"
  /\ UNCHANGED seenMark
  /\ LET mine == seenMark
         ends == alive' = alive \ {mine} /\ hit' = hit \union {mine}
     IN \/ /\ marker = seenMark /\ ends /\ marker' = "none" /\ dreply' \in {{p} : p \in Programs} /\ DesktopGoes("stopown")
        \/ UNCHANGED <<dworldvars, dreply>> /\ dpc' = "done" /\ danswer' = {"failed"}
        \/ ends /\ UNCHANGED <<marker, dreply>> /\ dpc' = "done" /\ danswer' = {"failed", "exited"}
        \/ /\ UNCHANGED <<marker, dreply>> /\ dpc' = "done" /\ danswer' = {"failed", "unknown"}
           /\ (ends \/ UNCHANGED <<alive, hit>>)
        \/ /\ UNCHANGED dreply /\ dpc' = "done"
           /\ \E spawned \in BOOLEAN :
                /\ danswer' = {"failed"} \union IF Interrupted(spawned) THEN {"unknown"} ELSE {}
                /\ \/ UNCHANGED dworldvars
                   \/ spawned /\ ends /\ marker' \in {marker, IF marker = seenMark THEN "none" ELSE marker}

(* What it ended must be what it was asked to end. *)
FitsStop == dreply = {seenMark}

StopOwns ==
  /\ dpc = "stopown"
  /\ UNCHANGED dworldvars
  /\ \/ FitsStop /\ marker = "none" /\ DesktopReturns({"ok"})
     \/ ~(FitsStop /\ marker = "none") /\ DesktopFails(TRUE)

DesktopStep ==
  StartLooks \/ StartRuns \/ StartOwns \/ StatusLooks \/ StatusRuns \/ StatusOwns \/ StopLooks \/ StopRuns \/ StopOwns

DesktopNext == DesktopStep \/ DesktopDisturbed

-----------------------------------------------------------------------------
(* What must hold. *)

(* native-desktop-start.ts:121-150 and native-desktop-stop.ts:77-88: what  *)
(* the answer of a helper operation leaves open is marked unknown.  A      *)
(* failed start without that mark left no program, a failed stop without   *)
(* it ended none that it does not name, an answer "ok" was still true of   *)
(* the marker when it was given, and no helper ends a program whose marker *)
(* this API did not read as its own.                                       *)
DesktopAnswerIsTrue ==
  dpc = "done" /\ danswer # {} =>
    /\ danswer = {"failed"} => "second" \notin alive /\ hit = {}
    /\ "active" \in danswer => Owned(marker)
    /\ hit # {} => danswer \intersect {"ok", "exited", "unknown"} # {} /\ hit = {seenMark}
    /\ danswer = {"ok"} => marker \in {"none", "second"}

=============================================================================
