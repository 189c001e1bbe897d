---------------------------- MODULE SyncMonitor ----------------------------
(***************************************************************************)
(* The Synchronization Monitor: MajorFrameCallback, registered with cFE    *)
(* TIME as the 1 Hz tone callback.  The tone may arrive at any moment: a   *)
(* noisy source is exactly one whose tone arrives at the wrong slot.  The  *)
(* callback runs to completion (it holds no lock and the task never        *)
(* writes what it reads between two of its own steps, see README).        *)
(***************************************************************************)
EXTENDS SchedulerState

(* The classification of the signal as noisy (scheduler.c 882-886).  The *)
(* uint32 subtraction SCHTBL_SLOTS - WorstCaseSlotsPerMinorFrame - 1 is   *)
(* kept modulo Word.                                                      *)
(* Variant whose window is one slot narrower. *)
NoisyMajorFrameNarrow ==
  \/ /\ SyncToMET = {}
     /\ MinorFramesSinceTone # TimeSyncSlot
  \/ /\ SyncToMET = {"TO_MINOR"}
     /\ NextSlotNumber # 0
     /\ NextSlotNumber < (Slots - WorstCaseSlotsPerMinorFrame) % Word
NoisyMajorFrame ==
  \/ /\ SyncToMET = {}
     /\ MinorFramesSinceTone # TimeSyncSlot
  \/ /\ SyncToMET = {"TO_MINOR"}
     /\ NextSlotNumber # 0
     /\ NextSlotNumber < (Slots - WorstCaseSlotsPerMinorFrame - 1) % Word

(* MajorFrameCallback.  Unless cFE TIME is flywheeling, a noisy signal   *)
(* counts towards IgnoreMajorFrame, an expected one clears the count;    *)
(* then, whatever the classification, if the major frame is not ignored *)
(* the timer is set to nominal, slot 0 is declared, the MET major-frame  *)
(* flags are cleared and the task is woken.  In every case the MET slot  *)
(* of the signal is recorded in LastSyncMETSlot.                         *)
MajorFrameCallback ==
  LET noisy   == ~flying /\ NoisyMajorFrame
      counter == ConsecutiveNoisyFrameCounter + 1
      ignore  == IF noisy /\ ~IgnoreMajorFrame
                 THEN counter >= MaxNoisyMF
                 ELSE IgnoreMajorFrame
      resync  == ~flying /\ ~ignore
  IN
  /\ TimedEnv => ~toneSeen
  /\ toneSeen' = TimedEnv
  /\ UnexpectedMajorFrame' =
       IF flying THEN UnexpectedMajorFrame ELSE noisy
  /\ ConsecutiveNoisyFrameCounter' =
       CASE flying                     -> ConsecutiveNoisyFrameCounter
         [] ~noisy                     -> 0
         [] noisy /\ ~IgnoreMajorFrame -> counter
         [] OTHER                      -> ConsecutiveNoisyFrameCounter
  /\ IgnoreMajorFrame' = ignore
  /\ timer' = IF resync THEN "Periodic" ELSE timer
  /\ timerLeft' = IF resync THEN TimerStart(SlotPeriod) ELSE timerLeft
  /\ MinorFramesSinceTone' = IF resync THEN 0 ELSE MinorFramesSinceTone
  /\ MajorFrameSource' = IF resync THEN "CFE_TIME" ELSE MajorFrameSource
  /\ SyncToMET' = IF resync THEN SyncToMET \cap {"TO_MINOR"} ELSE SyncToMET
  /\ TimeSemaphore' = (resync \/ TimeSemaphore)
  /\ LastSyncMETSlot' = GetMETSlotNumber(met)
  /\ UNCHANGED <<NextSlotNumber, TablePassCount, LastProcessCount,
                 SyncAttemptsLeft, SendNoisyMajorFrameMsg, SchTbl,
                 met, flying, taskVars, mfPc>>

=============================================================================
