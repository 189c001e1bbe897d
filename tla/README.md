# Verification of the kit_sch scheduler

This directory holds TLA+ models of `src/cfs/apps/kit_sch/fsw/src/scheduler.c`. That file is the slot scheduler of the cFS `kit_sch` application. The directory also holds the TLC configurations that check the models on small instances and the TLAPS proofs that hold for every instance. `PROJECT.json` lists the components, runs, mutants, the definition-to-source map, the findings, the hazards and the theorems.

## The system

The scheduler is one object (`SCHEDULER_Class`), shared without a lock by three actors:

| Actor | Code | Role |
|---|---|---|
| tone callback | `MajorFrameCallback` (852-970) | cFE TIME calls it at the 1 Hz tone. It classifies the tone as on-time or noisy and counts consecutive noisy tones. Unless it is ignoring the major frame, it resynchronizes: timer to nominal, `MinorFramesSinceTone = 0`, MET flags cleared, semaphore given. It always records `LastSyncMETSlot`. |
| timer callback | `MinorFrameCallback` (977-1093) | The OS timer calls it once per slot. With no tone source it makes the timer the source and synchronizes to MET over at most `SCHEDULER_MAX_SYNC_ATTEMPTS` calls. Otherwise it counts minor frames and rolls the counter over with a short slot. At the time-sync slot it arms a long one-shot timer. It gives the semaphore. |
| scheduler task | `SCHEDULER_Execute` (679-845), `ProcessNextSlot` (1190-1268) | It takes the semaphore and reads the current slot (`GetCurrentSlotNumber`, either from the counter or from MET re-based on `LastSyncMETSlot`). It computes how many slots to process, applying the rollover, jitter correction, same-slot, lag-skip and per-wakeup cap rules. It then runs `ProcessNextSlot` that many times. Between wakeups the same task runs the commands `SCHEDULER_ResetStatus`, `SCHEDULER_ConfigSchEntryCmd` and `SCHEDULER_LoadSchEntryCmd`, and the table manager's loads `SCHEDULER_LoadSchTbl` and `SCHEDULER_LoadSchTblEntry`. |

`SCHEDULER_Constructor` (62-150) and `SCHEDULER_StartTimers` (641-672) set up the start state. A timer less accurate than `SCHEDULER_WORST_CLOCK_ACCURACY` makes slots come from MET (`SyncToMET = TO_MINOR`). The first timer period is a one-shot start-up period.

## Modules

| Module | Models | State and actions |
|---|---|---|
| `SlotClock` | `GetMETSlotNumber`, `GetCurrentSlotNumber` (MET branch) | pure operators; uint32 arithmetic modulo `Word` |
| `SchedulerState` | `SCHEDULER_Class`, constructor and `StartTimers` | constants, VARIABLES, `TypeOK`, `Init`, `TimerStart` (the start time of `OS_TimerSet`), `ValidEntry` and `TableManagerAccepts` (the table manager's validation, from the spec) |
| `SyncMonitor` | `MajorFrameCallback` | `NoisyMajorFrame`, action `MajorFrameCallback` |
| `MinorFrameDriver` | `MinorFrameCallback` | actions `MinorFrameCallback` (head) and `MinorFrameTail` (rollover, long slot, semaphore); `TailTimer`/`TailLeft` (the timer mode and start time it sets) |
| `SlotExecutor` | `ProcessNextSlot` | `Due`, `AdvanceSlot`, `AdvancePass`, `ProcessNextSlot(failed)` |
| `WakeupReconciler` | `SCHEDULER_Execute` | actions `ExecuteTake`, `ExecuteCount`, `ExecuteRun(failed)` and the count policy operators |
| `SchedulerCmds` | the three table/reset commands and the two load functions | `ResetStatus`, `ConfigSchEntryCmd`, `LoadSchEntryCmd`, `LoadSchTbl`, `LoadSchTblEntry` |
| `TableCursor` | what spec 4.4/4.5 promise about (slot, pass) | abstract `Advance`, `Skip`, `RestartPass` |
| `Scheduler` | the composition and the environment | `MetTick`, `ClockStateChange`, `Next`, `Spec`, `Fairness`, `FairSpec`, properties, the refinement |
| `MCScheduler` | TLC instances | tables, command entries, loaded tables, the pass bound, the pass counter modulo 1 for liveness |
| `SchedulerProofs` | TLAPS proofs | `SlotInv` and what follows from it (below) |
| `TableProofs` | TLAPS proofs | `EnabledEntriesValid` |
| `TimerProofs` | TLAPS proofs | `TimerInv` and `TimerArmed` |
| `CursorProofs` | TLAPS proofs | the refinement of `TableCursor` |

### Correspondence to the code

- **Variables.** Each field of `SCHEDULER_Class` that some guard reads is a variable of the same name. `TimeSemaphore` is the binary semaphore (a Boolean, because gives coalesce). `timer` is the OS timer's mode: periodic, one-shot still to fire, or one-shot fired and not set again. `met` is the MET sub-second in microseconds. `flying` is cFE TIME's flywheel flag. `timerLeft` is the MET time until the timer expires, and `toneSeen` records that the tone of the current MET second has come; both only matter when `TimedEnv` (below). `pc`, `metMode`, `CurrentSlot`, `lastSyncCmp` and `ProcessCount` are the locals of `SCHEDULER_Execute`. `mfPc` marks a threaded `MinorFrameCallback` between its two halves.
- **Dropped state.** Diagnostic counters and events are left out because no guard reads them.
- **Splitting the task.** `SCHEDULER_Execute` is split where another actor can change what it read:
  - after the semaphore take and the first half of `GetCurrentSlotNumber`;
  - after the count decision;
  - once per loop iteration.

  The callbacks are single steps, except for the split described next.
- **Build constants.**
  - `CallbackThreads`: the timer callback runs in an OSAL time-base thread, so the task can run between the increment at 1048 and the rollover at 1051.
  - `ReloadShared`: the compiler reloads `LastSyncMETSlot` for the subtraction at 1118 instead of reusing the value compared at 1116.

  With both FALSE, the build is *atomic*.
- **Timed environment.** With `TimedEnv = FALSE` (the safety runs) the timer may expire at any moment, which covers every timer inaccuracy. With `TimedEnv = TRUE` (the liveness run) each `OS_TimerSet` loads `timerLeft` with its start time:
  - `SCHEDULER_STARTUP_PERIOD` at start-up (666);
  - the nominal period on every periodic set (932, 1015);
  - the short slot at the rollover (1061);
  - the long slot at the time-sync slot (1076).

  `MetTick` counts `timerLeft` down and cannot pass an expired timer, so the callback fires on time. At most one tone comes per MET second.
- **Table loads.** `SCHEDULER_LoadSchTbl` and `SCHEDULER_LoadSchTblEntry` copy without any check. The table manager that calls them validates first; its acceptance, `TableManagerAccepts` (an enabled entry is valid), is taken from spec 3 and marked `spec_modelled`.
- **Dispatch.** Message lookup and `CFE_SB_TransmitMsg` are the environment's choice: any subset of the due entries may fail, and a failed entry is disabled (1229).
- **Out-of-range slot.** For a slot past the table, the code reads past the array (undefined). The model dispatches nothing there. `NextSlotInRange` is what rules this case out.
- **Command checks.** `SCHTBL_GetEntryIndex` and `SCHTBL_ValidEntry` live in `schtbl.c`, which is not under `src/`. They are modelled from the spec: valid indices are enumerated, and `ValidEntry` is `Period >= 1 /\ Offset < Period`. This is marked `spec_modelled` in the map.

## Runs

The safety runs use `MCScheduler` with `CONSTRAINT MCConstraint` (`TablePassCount <= 1`). Pass 1 is the first pass whose phase differs from pass 0, which is what the refinement and the executor's periodic entries need. `Word = 256`: every uint32 computation is kept modulo `Word`, and 256 is larger than any value a correct run reaches. An underflow therefore lands far outside the table, as it does on the target.

| Run | cfg | Expect | What it shows |
|---|---|---|---|
| timing | `MCTiming.cfg` | pass | 4 slots, accurate timer, atomic build. `TypeOK`, `NextSlotInRange`, `TimerArmed`, `SyncAttemptsInRange`, the proof's `SlotInv` and the refinement `CursorRefinement` hold over about 3.4M states. |
| poor_clock | `MCPoorClock.cfg` | pass | As timing (4 slots), with a poor timer: `SlotPeriod = 3` µs in a 12 µs second and `ClockAccuracy = 1`, so the Minor Frames synchronize with MET and `WorstCaseSlotsPerMinorFrame = 1`. Re-based MET slots stay in the table and refine the cursor. `NoisyClassification`: the noisy test of a tone matches spec 4.2 (b). The bound at 886 is `4 - 1 - 1 = 2`, so a tone at slot 1 is noisy and tones at slots 0, 2 and 3 are on time, and the run reaches both. (With `WorstCaseSlotsPerMinorFrame = 2` the window would be empty, and a 5-slot table takes TLC too long.) |
| executor | `MCExecutor.cfg` | pass | 3 slots, entries of period 2 in both phases, a disabled invalid entry, dispatch failures, enable/disable/load commands, and the table manager reloading the table. `EnabledEntriesValid` (no division by zero at 1209) and the refinement hold. |
| threads | `MCThreads.cfg` | pass | 3 slots, threaded timer callback. Tones and task steps land between the two halves of the callback. The timer is always re-armed, and the inductive invariants `IInv` (which contains `TypeOK` and `SyncAttemptsInRange`) and `TimerInv` hold. |
| liveness | `MCLiveness.cfg` | pass | 3 slots, timed environment, under `FairSpec`. `ScheduleProgressPrompt` holds over about 1.07M states: once no tone comes any more and the task handles each wakeup before the MET moves on, a slot is processed infinitely often. |
| very_poor_clock | `MCVeryPoorClock.cfg` | violation | `NoisyClassification` fails: with `ClockAccuracy = 4`, `WorstCaseSlotsPerMinorFrame = 5` exceeds the 4-slot table, the uint32 bound at 886 wraps, and an on-time tone at slot 1 is classified noisy (finding 5). |
| race_threads | `MCRaceThreads.cfg` | violation | `NextSlotInRange` fails: the task reads `MinorFramesSinceTone = SCHTBL_SLOTS` mid-callback, and the lag skip sets `NextSlotNumber = SCHTBL_SLOTS` (finding 1). |
| race_reload | `MCRaceReload.cfg` | violation | `NextSlotInRange` fails: a tone falls between the two loads of `LastSyncMETSlot` (finding 2). |
| noisy_resync | `MCNoisyResync.cfg` | violation | `ResyncOnlyOnTime` fails: a noisy tone below the threshold still resets the counter (finding 3, against spec 4.2). |
| reset_phase | `MCResetPhase.cfg` | violation | `PassCountMonotonic` fails: the reset command zeroes `TablePassCount` (finding 4, against spec 3 and 8). |

**Bounds.** `MicrosPerSec` is `Slots * SlotPeriod + 1`, so the round-up and the wrap of `GetMETSlotNumber` both occur. The lag limit (2 of 4 or 1 of 3) and the per-wakeup cap of 1 make all three outcomes reachable: a lag skip, a jitter correction, and a capped catch-up. Two noisy tones reach the ignore threshold, and two sync attempts reach both the early return and the give-up. The model's `met` advances one microsecond at a time, independently of the callbacks. A tone or a timer tick can therefore happen at any MET, which is exactly the inaccuracy the code must tolerate.

**Liveness bounds.** A state constraint would cut every behaviour at the bound, so a liveness property would hold vacuously there. The liveness run therefore has no constraint. Instead its cfg replaces `NextPass` (`TablePassCount++`) by `MCNextPass`, which counts modulo 1. That is sound because its table is all disabled (period 1), and `Due` reads the pass count only modulo a period. The run has 3 slots, `SlotPeriod = 2` in a 6 µs second, a 1 µs start-up period, `SCHEDULER_MAX_SYNC_ATTEMPTS = 2` (so the early return at 1021 is taken: the first callback with no tone keeps waiting while the MET slot is not 0), and a long/short slot of 3/1 µs (the two sum to two nominal slots, as in the code). Two-slot tables are degenerate: the slot one behind is also the slot one ahead.

**Mutants.** Every property of a passing run is broken by a plausible bug in a mapped definition, listed in `PROJECT.json`. The variants sit next to the definitions they replace. Examples:
- a rollover test one slot late;
- a one-shot timer not re-armed;
- a lag skip that does not count the rollover;
- an enable command without the entry check.

**Fairness.** `FairSpec` adds weak fairness to these steps:
- `MinorFrameCallback` and `MinorFrameTail`: the OS keeps firing a set timer;
- `ExecuteTake`, `ExecuteCount` and `ExecuteRun`: the scheduler task blocks only in `OS_BinSemTake` and has no other suspend point;
- `MetTick`: the MET keeps advancing.

The tone, the flywheel state and the commands are the environment's and get no fairness.

`ScheduleProgressPrompt` is conditional. Its hypothesis says that eventually no tone comes and the task finishes each wakeup within the MET microsecond it was given in. This is the case the code is built for: the scheduler task has the highest priority, and `SCHEDULER_Execute` is short against a slot. Without the promptness assumption, TLC finds behaviours that stall, in which the task reads the MET slot late at every wakeup. These are artefacts of a 6 µs second, in which a task delay is comparable to a slot. A property that needs a tone to arrive would need fairness no one can promise for the tone.

The plausible bugs that the liveness property catches include a one-shot long slot that is not re-armed. Off-by-one variants of the count policy (same-slot width, exclusive first count) still make progress, so they do not break it.

## Proofs

TLAPS proves, for every value of the constants allowed by the named assumptions (`SlotsAssumption`, `MicrosAssumption`, `WordAssumption`, `MaxSyncAssumption`, ...):

- `SlotInvariant`: `Spec => []SlotInv`.
- `InductiveInvariant`: `Spec => []IInv`, in every build.
- `TypeCorrect`: `Spec => []TypeOK`.
- `SyncAttemptsBounded`: `Spec => []SyncAttemptsInRange`.
- `NextSlotBounded`: in an atomic build, `Spec => []NextSlotInRange`. The runs race_threads and race_reload show that neither hypothesis can be dropped.
- `NoisyClassificationHolds`: if `WorstCaseSlotsPerMinorFrame < SCHTBL_SLOTS`, then `Spec => NoisyClassification`. This covers every table size and accuracy with the bound in range. It rests on `NoisyStep`: below the bound, the uint32 subtraction at 886 does not wrap, and the code's test is the negation of spec 4.2's on-time test. The run very_poor_clock shows that the bound is needed.

**Why TypeOK needs strengthening.** `TypeOK` is not inductive alone:
- the timer callback stores `MinorFramesSinceTone + 1`;
- the loop decrements `ProcessCount`;
- the callback decrements `SyncAttemptsLeft`.

**The inductive invariant.** `IInv` in `Scheduler.tla` adds these facts:
- the counter is at most `SCHTBL_SLOTS`, and is a slot whenever no callback is half-done;
- `LastSyncMETSlot` and the task's copy of it are MET slots;
- the loop is entered only with a positive count;
- `SyncAttemptsInRange`.

`SlotInv` adds, for atomic builds, that `mfPc = "Idle"`, `NextSlotNumber` is a slot, and the slot read by the task is a slot. TLC checks `SlotInv` in timing and `IInv` in threads.

**How the proof is laid out.**
- `InitSlotInv` shows the start state satisfies `SlotInv`.
- There is one lemma per action, and under each one step per conjunct the action can disturb.
- `NextSlotInv` combines the action lemmas, and the theorems follow by PTL.

**Lemmas the action proofs rest on.**
- `METSlotInRange`: `GetMETSlotNumber` maps every microsecond to a slot. This rests on `MicrosAssumption`: a second holds `Slots` slot periods plus less than one.
- `RebasedSlotInRange` and `RebasedSlotType`.
- `DivMod`, `DivUnique` and `ModSmall`, facts about integer division; `WorstCaseNat`.
- `LoadTblSlotInv` and `LoadTblEntrySlotInv`, for the table manager's loads.

**`EnabledEntriesValid` (`TableProofs`, theorem `EntriesValid`).** The invariant is inductive given the type of `SchTbl`, and that type comes from `TypeCorrect`. It rests on one assumption about a constant, `SchTblInitValid` (in `SchedulerState`): the start-up table, like every table and entry the table manager loads, passes its validation `TableManagerAccepts`. That validation is in `schtbl.c`, which is not under `src/`, so it is taken from spec 3. TLC evaluates the assumption on every run.

The proof has one lemma per kind of write to the table:
- `StoreAccepted`: an accepted entry may be stored anywhere;
- `ExecuteRunValid`: a failed dispatch only clears `Enabled`;
- `ConfigValid`: the command enables an entry only if it is valid, and leaves its `Period` and `Offset` alone.

`NextValid` combines these lemmas.

**`TimerArmed` (`TimerProofs`).** `TimerArmed` is not inductive. A one-shot timer that fires stops, and only the rollover branch of the same callback sets it again. The strengthening `TimerInv` (in `Scheduler.tla`, checked by TLC in threads) says why that branch is always taken:
- while no callback is half-done, a one-shot timer runs only with the tone counter at the time-sync slot, so the callback it fires sees `SCHTBL_SLOTS` and sets the timer periodic;
- between the two halves of a threaded callback, the timer is never a one-shot still to fire;
- between the two halves, a stopped timer has its counter at `SCHTBL_SLOTS`. A tone in between resets the counter, but it also sets the timer periodic.

`TailTimerCases` states what the rollover tail does to the timer. There is one lemma per callback (`MajorFrameTimer`, `MinorFrameTimer`, `MinorFrameTailTimer`). Every other action leaves `timer`, the counter and `mfPc` alone (`TimerUnchanged`). The theorems `TimerInvariant` and `TimerAlwaysArmed` hold in every build, threaded or not.

**The refinement of `TableCursor` (`CursorProofs`, theorem `CursorRefines`).** In an atomic build, `Spec => CursorRefinement`, where `CursorRefinement` is `Cursor!Spec` under `slot <- NextSlotNumber, pass <- TablePassCount`. The proof is laid out the way a refinement is usually proved:
- the initial state maps to `Cursor!Init`;
- under `SlotInv`, every step of `Next` is a step of `Cursor!Next` or leaves the pair unchanged (`CursorStep`);
- PTL combines the two with `SlotInvariant`.

In `CursorStep`:
- `ExecuteRun` is `Advance` (`AdvanceIsAdvance`: on a slot of the table, the uint32 increment does not wrap);
- `ExecuteCount` is a `Skip` when it lag-skips and a stutter otherwise (`ExecuteCountCursor`);
- `ResetStatus` is `RestartPass`;
- every other action leaves the pair alone.

The skip case rests on three lemmas:
- `FirstCountAhead`: the first count is the cursor's forward distance plus one;
- `PolicyBound`: the jitter and same-slot rules never produce a count above `SCHEDULER_MAX_LAG_COUNT` unless the first count is above it and short of the whole table;
- `LagSkipIsSkip`: `SkipPass` counts the pass exactly when the jump crosses the rollover.

The hypothesis `AtomicBuild` is needed. It is what makes the slot the task skips to a slot of the table, and race_threads and race_reload show that this fails without it.

**Left to TLC.** Only `ScheduleProgressPrompt` (liveness under fairness) is model-checked and not proved. The prover cannot reason about liveness, `ENABLED` or recursive definitions. The violation runs' properties (`ResyncOnlyOnTime`, `PassCountMonotonic`, `NextSlotInRange` in non-atomic builds, `NoisyClassification` past its bound) are false of the code, and TLC exhibits the counterexamples.

## Not modelled

- **Telemetry commands** (`SendSchEntryCmd`, `SendMsgEntryCmd`, `SendDiagTlmCmd`, `SendTblEntryTlm`): pure output.
- **The message table** (`LoadMsgEntryCmd`, `LoadMsgTbl`, `LoadMsgTblEntry`): message contents are abstracted into the dispatch outcome.
- **Error returns of OS and cFE calls.**
- **The ground-command hook**: a stub in the code.

## Plan for later work

1. A phase property with a history variable: every periodic entry fires once per `Period` passes. The same-slot collapse (766) loses a pass when the task is a whole table late.
2. `LastSyncMETSlot` is recorded while ignoring or flywheeling (966). Comparing the schedule with and without such a tone is a property of pairs of behaviours.
3. Checking `GetMETSlotNumber` against a reference definition (the nearest slot boundary) over all microseconds.
