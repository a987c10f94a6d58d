----------------------------- MODULE LocalFiles -----------------------------
(***************************************************************************)
(* The operations of the API process that write case files themselves:     *)
(* archive_cases, make_working_copy and backup_cases.  The API runs one    *)
(* operation at a time (ApiServer's OneOperation), so a behaviour here is  *)
(* one of the three from its first step to whatever it leaves running.     *)
(***************************************************************************)
EXTENDS ArchiveTransaction, LocalBackup

VARIABLE op

lvars == <<vars, wvars, bvars, op>>

LocalInit ==
  /\ ArchInit
  /\ op \in {"archive_cases", "make_working_copy", "backup_cases"}
  /\ CopyInit(IF op = "backup_cases" THEN "absent" ELSE "there")
  /\ BackupInit(IF op = "backup_cases" THEN "prepare" ELSE "idle")

MakeWorkingCopy ==
  \/ wresult = "none" /\ CopyCalled(1, "v1")
  \/ CopyNext

LocalNext ==
  /\ UNCHANGED op
  /\ \/ op = "archive_cases" /\ ArchNext /\ UNCHANGED <<wvars, bvars>>
     \/ op = "make_working_copy" /\ MakeWorkingCopy /\ UNCHANGED <<vars, bvars>>
     \/ op = "backup_cases" /\ BackupNext /\ UNCHANGED vars

LocalSpec == LocalInit /\ [][LocalNext]_lvars

-----------------------------------------------------------------------------
(* What the answers of make_working_copy and backup_cases say is so of the *)
(* files, once a late open is over (working-copy-executor.ts:259-300,      *)
(* backup-executor.ts:327-380).                                            *)
CopiesAreTrue == BackupTypeOK /\ CopyAnswerIsTrue /\ BackupAnswerIsTrue

(* None of the three removes or overwrites what somebody else has put or   *)
(* changed there, on no path of success or failure.                        *)
OthersKept == ForeignKept /\ ForeignCopyKept

=============================================================================
