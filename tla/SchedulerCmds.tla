---------------------------- MODULE SchedulerCmds ----------------------------
(***************************************************************************)
(* The commands of the scheduler object that change its state:             *)
(* SCHEDULER_ResetStatus, SCHEDULER_ConfigSchEntryCmd and                  *)
(* SCHEDULER_LoadSchEntryCmd, and the two load functions the table manager *)
(* (schtbl.c, not under src/) calls with a table or an entry it has        *)
(* validated, SCHEDULER_LoadSchTbl and SCHEDULER_LoadSchTblEntry.  They   *)
(* run in the scheduler task between two calls of SCHEDULER_Execute (the *)
(* application's loop, not under src/),                                 *)
(* hence the guard pc = "Wait".  The slot and activity of a command are   *)
(* checked by SCHTBL_GetEntryIndex and the entry by SCHTBL_ValidEntry      *)
(* (schtbl.c, not under src/): the model enumerates valid indices and      *)
(* takes ValidEntry (SchedulerState) from the spec.                        *)
(***************************************************************************)
EXTENDS SchedulerState

(* SCHEDULER_ResetStatus: counters, TablePassCount, the noisy-frame count *)
(* and IgnoreMajorFrame are cleared.                                      *)
ResetStatus ==
  /\ pc = "Wait"
  /\ TablePassCount' = 0
  /\ ConsecutiveNoisyFrameCounter' = 0
  /\ IgnoreMajorFrame' = FALSE
  /\ UNCHANGED <<NextSlotNumber, LastProcessCount, MinorFramesSinceTone,
                 LastSyncMETSlot, SyncToMET, MajorFrameSource,
                 SyncAttemptsLeft, UnexpectedMajorFrame,
                 SendNoisyMajorFrameMsg, SchTbl, envVars, taskVars, mfPc>>

(* Variant that enables an entry without checking it. *)
ConfigSchEntryCmdUnchecked(i, enabled) ==
  /\ pc = "Wait"
  /\ SchTbl' = [SchTbl EXCEPT ![i].Enabled = enabled]
  /\ UNCHANGED <<NextSlotNumber, TablePassCount, LastProcessCount,
                 MinorFramesSinceTone, LastSyncMETSlot, SyncToMET,
                 MajorFrameSource, SyncAttemptsLeft, IgnoreMajorFrame,
                 UnexpectedMajorFrame, ConsecutiveNoisyFrameCounter,
                 SendNoisyMajorFrameMsg, envVars, taskVars, mfPc>>

(* SCHEDULER_ConfigSchEntryCmd: enable or disable entry i; enabling is   *)
(* accepted only if the entry as it stands is valid.                     *)
ConfigSchEntryCmd(i, enabled) ==
  /\ pc = "Wait"
  /\ enabled => ValidEntry(SchTbl[i])
  /\ SchTbl' = [SchTbl EXCEPT ![i].Enabled = enabled]
  /\ UNCHANGED <<NextSlotNumber, TablePassCount, LastProcessCount,
                 MinorFramesSinceTone, LastSyncMETSlot, SyncToMET,
                 MajorFrameSource, SyncAttemptsLeft, IgnoreMajorFrame,
                 UnexpectedMajorFrame, ConsecutiveNoisyFrameCounter,
                 SendNoisyMajorFrameMsg, envVars, taskVars, mfPc>>

(* SCHEDULER_LoadSchEntryCmd: replace entry i by e if e is valid. *)
LoadSchEntryCmd(i, e) ==
  /\ pc = "Wait"
  /\ ValidEntry(e)
  /\ SchTbl' = [SchTbl EXCEPT ![i] = e]
  /\ UNCHANGED <<NextSlotNumber, TablePassCount, LastProcessCount,
                 MinorFramesSinceTone, LastSyncMETSlot, SyncToMET,
                 MajorFrameSource, SyncAttemptsLeft, IgnoreMajorFrame,
                 UnexpectedMajorFrame, ConsecutiveNoisyFrameCounter,
                 SendNoisyMajorFrameMsg, envVars, taskVars, mfPc>>

(* SCHEDULER_LoadSchTbl: the whole working table is replaced by t, with   *)
(* no check.                                                              *)
LoadSchTbl(t) ==
  /\ pc = "Wait"
  /\ SchTbl' = t
  /\ UNCHANGED <<NextSlotNumber, TablePassCount, LastProcessCount,
                 MinorFramesSinceTone, LastSyncMETSlot, SyncToMET,
                 MajorFrameSource, SyncAttemptsLeft, IgnoreMajorFrame,
                 UnexpectedMajorFrame, ConsecutiveNoisyFrameCounter,
                 SendNoisyMajorFrameMsg, envVars, taskVars, mfPc>>

(* SCHEDULER_LoadSchTblEntry: entry i is replaced by e, with no check of  *)
(* the index or the entry.                                               *)
LoadSchTblEntry(i, e) ==
  /\ pc = "Wait"
  /\ SchTbl' = [SchTbl EXCEPT ![i] = e]
  /\ UNCHANGED <<NextSlotNumber, TablePassCount, LastProcessCount,
                 MinorFramesSinceTone, LastSyncMETSlot, SyncToMET,
                 MajorFrameSource, SyncAttemptsLeft, IgnoreMajorFrame,
                 UnexpectedMajorFrame, ConsecutiveNoisyFrameCounter,
                 SendNoisyMajorFrameMsg, envVars, taskVars, mfPc>>

=============================================================================
