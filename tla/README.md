# A TLA+ model of ArduConfigurator

ArduConfigurator is a browser application that configures ArduPilot flight
controllers over MAVLink.  Its core, `packages/ardupilot-core`, is a set of
asynchronous services over one link that loses, delays and reorders messages to a
board that reboots, is swapped and turns motors.  The modules here model the
services whose mistakes cost most (a table shown for the wrong board, a write
reported as done that is not, a motor that goes on turning, a log with a hole in
it, a calibration that takes another one's verdict, a flash or a save reported as good
that is not), check them with TLC on small instances, and prove what TLAPS can prove for
every instance.

Paths below are relative to `src/`; `runtime.ts` and the `runtime-*.ts` files are in
`packages/ardupilot-core/src/`.  `PROJECT.json` maps every definition to its lines.

## 1. The system

| Part | State it keeps | Operations | Hard because | Model |
|---|---|---|---|---|
| Parameter download and resume (`runtime.ts`) | `vehicle`, the table and its alias mirrors, the names and indices streamed, the announced total, the stall timer, the marker of a retained table | `connect`, `disconnect`, `requestParameterList`, `processHeartbeat`, `processParamValue`, `retryParameterSync` | frames lost and reordered, a table that grows while the board boots, a link that returns to another board, awaited sends | `ParamSync` |
| Verified parameter writes (`runtime.ts`, `runtime-parameter-waiters.ts`) | `parameterBatchWriteActive`, the readback waiters, the cached table | `setParameter`, `setParameters` with rollback | `PARAM_SET` has no ack; the gate may shut between two writes; concurrent callers | `ParamWrite` |
| Motor test (`runtime-motor-test-service.ts`) and `COMMAND_ACK` waiters (`runtime.ts`) | the state, the sequences of the test, the sweep token, the completion timer | `run`, `continueSweep`, `stop`, `reset` | an ack names no motor; `run`, the rest of its sweep and `stop` overlap | `MotorTest` |
| Onboard log download (`runtime-log-download-service.ts`) | the operation in flight: entries, buffer, contiguous frontier, retries, timer | `listLogs`, `downloadLog`, `handleLogEntry`, `handleLogData`, `onTimeout`, `cancelAll` | no request numbers and no acks; a lost end request leaves the board deaf | `LogDownload` |
| MAVFTP (`runtime-mavftp-service.ts`) | the promise chain of `withExclusiveSession` and its activity stamp; the request that waits, the sequence number, the burst in progress | list, read, prefix, burst, upload, delete, `cancelAll` | callers that queue behind a silent one; a burst without request numbers; a server with one session that answers a repeated number from its cache | `FtpQueue` (implements `ExclusiveSession`), `FtpTransfer` |
| Guided actions (`runtime-guided-action-service.ts`, texts in `runtime-helpers.ts`) | one state per calibration or reboot, the posture asked for, the hold, six timers, reports per compass | `runGuidedAction`, `cancelAction`, ack, prompt, report, status-text, attitude and restart handlers, timeouts | acks after the timeout, verdicts that the autopilot repeats, commands shared by two actions | `GuidedAction`; one abstract calibration in `ParamWrite` |
| Serial bootloader (`packages/firmware-flash`, `FirmwareFlasher.tsx`) | the phase of the flash, the bytes the read pump holds | identify, settle, compare, erase, program with resend, verify with retry, reboot | replies are matched by position alone, and may be late | `Bootloader` |
| CAN bus (`runtime-can-bus-service.ts`, `packages/can-core`) | the nodes and the walk over the parameters of each, pending writes, what follows them (SAVE, re-fetch, restart), the SAVE watchdog, the firmware update | `start`, `stop`, `reset`, `fetchAllParameters`, `writeParameter`, `applyAndSave`, `saveParameters`, `changeNodeId`, `restartNode`, `startFirmwareUpdate`, `tick`, the response handlers | a tunnel that loses frames, answers without a request number, a retry while the first answer is on its way, a node that reads its firmware from the application | `CanNode`, `CanBus` |
| Transports (`packages/transport`), reconnect (`apps/web/src/serial-reconnect.ts`) | port, reader, status, retry loop | connect, disconnect, send | a disconnect during a pending open | seen as "up" and "down" |
| DFU (`packages/firmware-flash/src/dfu.ts`), MSP (`packages/protocol-msp`) | a request in flight | download, status; request | a late MSP reply settles the next request of its command byte | not modelled |
| Drafts, backups, follow-ups (`parameter-drafts.ts`, `parameter-backups.ts`) | none (pure) | staging, diffs, restores | equality and normalisation rules | not modelled |
| Codec, parsers, metadata, log analysis, plots, AI assistant, views, test doubles | - | - | bytes, floating point, data, views | not modelled |

How they interact.  A transport reports statuses and chunks of bytes; the session
turns them into messages; `runtime.ts` handles each synchronously and passes `LOG_*`,
FTP and ack messages to the services.  Operations are asynchronous calls: what runs
between two awaits is atomic, and between an await and its continuation only the
remaining frames of the same chunk run.  Every module therefore has one step per
stretch between two awaits, and a guard `Quiet` on the steps that cannot come
between a settled promise and its continuation.  The services meet in the write gate
(`parameterWriteBlockReason`): a download in progress, an active guided action, an
armed vehicle or an active motor test shut it.

What makes each part correct:

* download: writes open only on the whole table of the board that is there, a
  finished download stays finished, and one on a live link ends;
* writes: what is reported as verified is on the board, what is reported as rolled
  back is restored, and every call ends;
* motor test: a stop that reports success leaves no motor turning, no sweep goes on
  after a stop, and no test stays active for ever;
* logs: what resolves is whole, a few losses do not fail a download, and no operation
  blocks the next for ever;
* MAVFTP: one conversation at a time, what resolves is the file that was asked for, an
  upload that resolves is stored, and no caller and no operation waits for ever;
* guided actions: a calibration takes only a verdict of its own run, a posture is
  confirmed only when it is the one asked for, and no action that the autopilot is not
  in holds the write gate for ever;
* bootloader: what is reported as flashed is on the board, nothing is sent into an erase,
  one mishap while writing does not fail the flash, and every session ends;
* CAN bus: what is reported as saved is in the node's flash, a parameter list without an
  error is whole, an update reported as completed is one, and nothing that was begun goes
  on for ever.

## 2. Modules

Each component's module has the code's fields as variables (named after them, as far
as TLA+ allows), one action per handler or stretch of a call, and a section with the
external board and wire.  The modules `MC...` give the constants of the instances; the
`.cfg` files bounds and properties (a module that needs no definitions is run as it
is).  The `...Proofs` modules hold
the theorems.  Operators marked `Mutant` are the faulty variants of the operator that
follows; no specification uses them.

**ParamSync.**  A board runs an *image*: a table of names, and the identity its
heartbeat carries (`KeyOf`, the `staleLinkKey`).  `Grows`, `Reboots` and `Swaps` say which
image may follow which while it boots, restarts behind a surviving link, or is
replaced while the link is down.  A parameter value is abstracted to the image it was
read from, which is what tells a blend apart.  `Connect` is `connect()` together with
the `requestParameterList()` that every caller issues right after it; `BeginDownload` is
the continuation of `waitForVehicle` up to the first send; `SendReaches`, `SendIsLost`
and `SendFails` are one awaited `session.send` each, for the request and for the retry,
which may both be in progress; `ParamValue` is `processParamValue` with
`reconcileResumedParameterTable`.  `doneImage` is history: whose frame completed the
table.  Completion counts `realParameterIdsReceived`, never alias mirrors.

**ParamWrite.**  `call[w]` is the asynchronous call of a writer: the writes left, those
verified and what each replaced, the rollback and its outcome.  `Continue` is the loop
body up to a send, `Confirm` and `Unverified` the continuation of a verification,
`DropUndo` and `RollbackSource` the rollback.  A board may settle on another value than
the one asked for (`Settles`).  Values are abstract: equality stands for equality within
the tolerance of `runtime-parameter-waiters.ts`.  The download is one step
(`SyncCompletes`); arming, a calibration and a motor test are the events that move the
gate.  A verification whose time is up comes after all frames under way, unless
`LateEchoes` says that an echo may be later than that.

**MotorTest.**  `call[c]` is the call a `run()` or a `stop()` has in progress, `ack[c]` its
waiter; `CommandAck` settles every waiter of the command, as `resolveCommandAckWaiters`
does, because an ack names no motor.  `started` and `stopped` are history: the motors
commanded since the latest `run()`, and what the last `stop()` reported (`"proven"` when it
was the first of a test that overlapped no other call, found no command outstanding, met no
call before it ended and had all its aborts acknowledged; `"early"` when they were but one of
the others fails).  `Begins` unsettles the calls in progress when another begins.  A sweep's
step timer outlasts the window of the motor it commanded last (`WindowOver`) unless a later
call commanded it; the completion timer may fire while a motor that was commanded late still
turns.  The views allow one `run()` in flight, and
`stop()` at any time.  A request is taken to have passed the eligibility gate.

**LogDownload.**  A byte is abstracted to the log it belongs to, so a hole or a foreign
byte is visible.  The board streams chunks from the offset asked for, a shorter chunk
being the last, and ignores data requests while it holds a transfer active, as the
service's comments say (`Deaf`).  The inactivity timer fires when nothing that would bump it
is under way.  `ignored` is history: a retry of the operation held a start of its log, and so
did not send `LOG_REQUEST_END`, and met a deaf board.

**ExclusiveSession, FtpQueue.**  `ExclusiveSession` is what the class comment of
`MavftpService` promises: operations have session 0 one at a time, in the order of the
calls, and a waiting caller may be refused.  `FtpQueue` is the promise chain that
implements it (`OneConversation` is the refinement, with `phase` as the mapping of the
abstract `state`).  A link is *chained* until the link before it resolves, then *held*,
and *resolved* by the `release()` in the `finally` of the operation.  `activity` abstracts
`lastTransferActivityAtMs` to never, recent and silent; `Send` stamps it and a burst's
packets do not.  `Wedge` is a transport write that never settles.

**FtpTransfer.**  One operation at a time, as `FtpQueue` guarantees.  `pc` is the request
the operation is at, `op` its locals, `burst` the fields of `BurstOperation`.  A file is a
sequence of chunks that name their file and index, so that a hole or a foreign chunk is
visible.  `After` is the continuation of every awaited `send()`, by the step it was sent
from; `ReceivePacket` is `handleBurstPacket` with its frontier, high-water mark, retries
and re-requests; `Drop` is `cancelAll`.  Numbers wrap at `SeqMod` and are adopted by the
signed comparison of `adoptServerSequence`.  The server is external: it has one open
file, answers request n with n + 1, counts one more for every packet it streams, and
repeats its last reply to a request that it takes for a repeated one.  The close of a
burst can be such a request, and the file then stays open: `openFileForRead` retries
through `RESET_SESSIONS`, and `CleanReadsSucceed` says that this is enough.

**GuidedAction.**  The fields of the service are one record, `app`, and every handler
(`handleCommandAck`, `handleCommandLong`, `handleMagCalProgress`, `handleMagCalReport`,
`processStatusText`, `handleVehicleRestart`, `reset`, ...) a function of it.  `calls` are the
`sendCommand` promises that runners await, `sends` the awaited confirmations.  An ack
settles every waiter of its command (`Answer`); the runner continues in a step of its
own, between which and the ack only frames of the same chunk come (`NoMicrotask`).  The
accelerometer and the level calibration share `PREFLIGHT_CALIBRATION`.  The autopilot is
external: an accelerometer routine that asks for one posture after another, takes any
confirmation for the one it asks for, and repeats its verdict; a calibrator per compass
that repeats its report.  `old` marks a verdict that an earlier run reached; `hollow` and
`mistaken` are history, of a verdict and of a confirmation that went to the wrong run or
posture.

**Bootloader.**  `client` is where `writeFirmware` and `BootloaderClient.flash` are: the
phase (identify, two settles with the CRC comparison between them, external flash,
erase, program, verify, reboot), the step in it, and the read it is at.  `Resolves` and
`Rejects` are what follows when the promise of a step settles.  A reply is a sequence of
typed bytes, read from `buf` by position, as the protocol has it; `flushInput` and
`drainInput` empty it.  Firmware is a sequence of chunks and a CRC is the firmware it was
computed from.  The board is external: one command at a time, an erase that takes longer
than a reply may, a frame that was cut off swallows what follows it as its payload.

**CanNode, CanBus.**  Nodes are independent of each other, so one stands for all.
`CanNode` has the maps of the service as far as they are about that node: `walk` is
`paramFetch` with the names in `parameters`, `pending` its part of `pendingWrites`, `saveAfter`,
`refetchAfter` and `restartAfter` what follows a drained batch or an acknowledged SAVE, and
`saving` the attempts of a SAVE whose watchdog is armed.  The order of the pending writes in
their map is left open.  `loops` are the calls of `applyAndSave`
that still have writes to send, `dropping` the entry that goes when the restart of an ID
change has been sent.  `Tick` is one pass of the poll timer, with any subset of the writes
due; `OnParam`, `OnEnd` and `OnSaved` are the response handlers.  `CanBus` extends it by
the firmware update (`update`) and composes the two: `stop()` and `reset()` drop both.
Offsets are in chunks of 256 bytes, and an image is a number of full chunks and perhaps a
shorter one.  External are the tunnel, the node (writes go to RAM, SAVE copies RAM to
flash, a restart loads it) and its bootloader, which reads chunk by chunk, repeats a read
that is not answered, and starts what it has when an answer is not full.  `job`,
`cleanWalk` and `update.first` are history: whether something else of the node was under
way when an Apply & Save, a walk or an update began.

## 3. Runs

| Run | Checks | Shows |
|---|---|---|
| `sync_tables` | `WritesSeeWholeTable`, `RetryTimerHasSync`, `NoActiveActionAfterSync`, `RetainedMatchesVehicle`, `NoBlendedTable`, `CompletionSticks` | a board that grows while booting, drops, resumes, restarts, echoes and losses, and a link that returns to the same board, a reflashed one or another kind: writes never open on part of a table or on values of another build, and nothing reopens a finished download |
| `sync_liveness` | `TableEventuallyHeld` | retries and gap-fill collect as many names as announced |
| `write_batch` | `TypeOK`, `VerifiedWritesStand`, `RollbackRestores`, `CalibrationExcludesBatch`, `NoOrphanWaiter`, `WritesAreRouted` | one caller's batches with a name written twice, two spellings of one name, a clamped value and an unknown one |
| `write_liveness` | `CallsEnd` | two callers, late echoes, a link drop: every call ends |
| `motor_stop` | `ProvenStopStops`, `StopEndsSweep`, `TestEnds` | single, simultaneous and sweeping tests of two motors, replaced, stopped and cut off |
| `log_download` | `DownloadIsWhole`, `ListIsWhole`, `FewLossesAreSurvived`, `OperationEnds` | two logs, one ending in a short and one in a full chunk, sizes reported too small and too large |
| `ftp_queue` | `OneConversation`, `EveryWaiterLeaves` | five calls that queue, give up, stream and wedge: the chain implements `ExclusiveSession`, and no caller waits for ever |
| `ftp_transfer` | `NoForeignBytes`, `TruncatedOnlyByLostTail`, `CleanReadsSucceed`, `UploadIsStored`, `OperationSettles` | two operations of six kinds, on files of exact, unknown, overstated and excessive size, with two of: a loss, a late reply, an abort, a drop |
| `guided` | `NoHollowSuccess`, `NoMistakenPosture`, `AccelIsWatched`, `NoActionIsStranded` | two runs of any of four actions, with cancels and one of nine kinds of fault |
| `bootloader` | `FlashedIsImage`, `ErasedBeforeWritten`, `SurvivesOneFault`, `SessionEnds` | a flash with and without external flash, by readback and by CRC, of a board that holds the image already and one that does not, with two of seven kinds of fault |
| `can_bus` | `SavedBatchInFlash`, `CompleteWalkIsWhole`, `CompletedIsWhole`, `BusSettles` | a node with its ID and one more parameter, images of two and a half, two and half a chunk, and two calls of eleven kinds with a fault |
| `ftp_broken` | `ChainUnbroken`, violated | a disagreement between the code and what the repository says of it (section 6) |

Bounds, and why they are enough:

* `sync_*`: tables of one to three names are the least in which a name has an alias, the
  growth inserts a name in the middle (so that indices shift), a reflash renames one and
  drops the others, and a gap-fill of `MaxGapFill` can be too small.  `MinMissing` and `MaxGapFill`, 64 and 256 in
  the code, are scaled down with the table so that each disjunct of `GapTooLargeToFill` can
  hold.  `MaxEvents` (2, and 3 for liveness) counts drops, disconnects, re-syncs, echoes,
  swaps and restarts; a resume needs one drop, a swap and a resume two.  Losses, retries,
  heartbeats and growth are not bounded.
* `write_*`: two calls, so that the second meets what the first left behind; one or two
  events, enough for a gate that shuts before, during and after a rollback.  Losses are
  not bounded.
* `motor_stop`: two motors distinguish the first of a test from the rest, and four calls are a
  run, a stop, a run that replaces it or follows and the stop of that run.  Losses are not
  bounded.  The inductive invariant of section 4 also holds with two `stop()` callers
  (1.3 million states).
* `log_download`: logs of three and four bytes in chunks of two; `MaxRetries` is 3
  as in the code and `MaxLosses` 4, so that both "as many losses as retries" and "one more"
  happen, and a loss is left for a link drop that leaves the board deaf.  Three
  calls make late chunks of one operation arrive in the next.
* `ftp_queue`: five calls are a holder, a waiter that gives up, waiters behind it, and a
  caller that comes later.
* `ftp_transfer`: a log of five chunks in bursts of three needs a second request and ends
  inside it; two operations show what the first leaves open; two faults are a loss and
  the retry that is lost too, and a third reaches the limit of section 6.  `SeqMod` is 16, so
  that numbers wrap.  `NumberReused` of section 4 happens in none of its 631,034 states.
* `guided`: three postures are a first, a middle and a last; two compasses can report one
  after the other; a second run meets the verdict of the first.  One fault per behaviour
  and two runs: more of either reach the limits of section 6.
* `bootloader`: two chunks are a first and a last, the flash has room for one more, so
  that a chunk written twice fits (the property asks for that room); with three faults and with `"late resync"` among them
  `FlashedIsImage` still holds (1.4 million states).
* `can_bus`: two calls overlap in every way, and with at most three calls and faults
  together one fault meets two calls and two faults one.  A fault is a lost message, a refused
  SAVE or update, or a timer that fires while an answer is under way; the tries of every
  timer are scaled down to one or two, so that giving up happens.  Two messages fit in each
  direction, two writes or a SAVE and the next read.  An update does not begin amid a walk,
  a write or a SAVE (`Overlaps`), which it does not share state with; the CAN tab disables
  the other operations while it is in progress.

The largest runs reach 630,000 (`ftp_transfer`), 590,000 (`motor_stop`), 510,000 (`sync_tables`) and 495,000 states (`can_bus`), each in one to three
minutes.

Deadlock is not checked: an idle application with its events and calls used up may stop.

Fairness, and why the code justifies it.  In every module: an armed timer fires, the
continuation of a settled promise runs, an awaited send settles.  `ParamSync` moreover
assumes that heartbeats repeat (the autopilot sends them at 1 Hz) and that a link that
stays up is not deaf: a request or a frame sent again and again gets through (strong
fairness; the stall retry repeats for as long as the download is live).  `ParamWrite`,
`MotorTest` and `LogDownload` assume only that a message on the wire arrives or is lost,
and that the board works through what it was asked for.  `FtpQueue` assumes that an
operation whose writes settle returns, because every request and every burst has a timer
of its own: this is `OperationSettles`, which `ftp_transfer` checks.  `GuidedAction` assumes
that an autopilot that is heard goes on repeating its verdict or report and handles the
commands that reach it, `Bootloader` that a board that is there answers.  `CanBus` assumes
that the program and the tunnel do not stand still: a timer that is due fires, or something
under way arrives or is lost, in whichever order; the node need not answer a parameter
request, and a node that reads a file goes on.  Nothing assumes that a link stays up or
that an operator acts.

## 4. Proofs

The theorems hold for every value of the constants that the named assumptions
(`ImageAssumption`, `NoneAssumption`, `BoundAssumption`, `MotorAssumption`,
`LogAssumption`, `MaxCallsAssumption`, and those of `FtpTransfer`, `GuidedAction`, `CanBus` and
`Bootloader`) allow; TLC evaluates these on every run.

* **ParamSyncProofs**: `TypeCorrect`, with one lemma per handler.  `ControlInv`
  (`ControlAlways`) says that a resumed download is settled before anything completes it,
  that a complete one belongs to a live link, and that it reports an active guided action
  only while a request has not begun; it is needed because `NoActiveActionAfterSync` and
  `CompletionSticks` are not inductive: a refuted resume could otherwise take a complete
  download back to streaming.  `RetainedMatchesVehicle` and `RetryTimerHasSync` follow
  handler by handler.
  The last part proves `WritesSeeWholeTableWhileGrowing`, under the explicit hypothesis `GrowthOnly` (no restart or swap brings another image).  `GrowthInv` has four
  parts: frames in the air name what their image holds, and their images are stages of
  the growth that ends in the running one (`AirInv`); every name held is in every table a
  frame in the air may speak of (`NamesInv`); only one board is heard (`KeyInv`); a
  complete download holds the table that completed it (`DoneInv`).  With the names held a
  subset of the announcing table, `downloaded >= total` forces equality by counting
  (`CountedIsWhole`).  The hypothesis cannot be dropped: see "a smaller count" in section 6.
  `NoBlendedTableUnlessEarly` proves `NoBlendedTable` for swaps and restarts of any kind, under
  two explicit hypotheses: builds differ in the identity or in the count, which are all the
  runtime compares (`BuildsApart`), and no `PARAM_VALUE` is handled while the fate of a
  retained table is open (`~EarlyValue`).  `LineInv` says that what is retained, or resumed
  and not yet settled, is all of one build for this kind of board beside a count of that build
  (`Carries`), so that a first frame with another count clears it and one with the same
  count is of the same build; `LinkInv`, that a link begins with a request that waits for a
  heartbeat.  Neither hypothesis can be dropped: see the reflash and the early value in section 6.
* **ParamWriteProofs**: `TypeCorrect`, where `Placed` says that the position of a call lies in
  its batch and that what it has still to roll back are positions of writes that replaced a
  value (`LatestIsLatest`, that `Latest` picks the last of them, rests on well-founded
  induction over the naturals); `NoOrphanWaiterAlways`, for any number of callers, and
  `CalibrationExcludesOneWriter`, for one (`OneWriter`).  `WaiterInv` adds that a waiter and
  a verdict never stand together, which is needed because a settled verification goes on to
  the next write; `FlagInv` ties `batchActive` to the call in progress.  `OneWriter`
  cannot be dropped: see the overlapping batches in section 6.
  The part about the board proves `VerifiedWritesStandAlways` and `RollbackRestoresAlways`, for every
  table, alias map, batch, clamp and loss, across link drops and downloads; and
  `WritesAreRoutedAlways`, for any number of callers, where the operator writes only names that
  the board answers under one spelling or the other (`NamesAreKnown`).  Neither of the first two
  is inductive: they speak of finished calls, whose values were fixed by frames long gone.
  `WholeInv` says of the call in progress what it is owed: every frame but that of its write
  tells what the board holds (`Tame`), so that only that one may change the board (`Before`);
  once it has arrived, its echoes tell the old value or, the last of them, what the board now
  holds (`After`); a confirmed write is what the board holds (`Vouches`).  A link drop leaves the
  frame behind, when nothing is claimed of its name (`Exempt`: its write failed, so that the name
  is doubtful or the rollback `Spoiled`).  `Claim` is what the call promises on its way: forward,
  the last verified write of each name, and rolling back, the first restored one.
  The hypotheses are those of the
  run: one caller (`OneWriter`), echoes that do not outlive their verification (`~LateEchoes`:
  see the late echo in section 6), and a board on which the value that a write settles on is one
  that settles on itself (`StableBoard`: a clamp clamps once), without which writing a value
  back does not bring it back.
* **MotorTestProofs**: `TypeCorrect`, from `TypeInv` (a waiting call has a motor to wait
  for); `StopEndsSweepAlways`, from `TokenInv`: no call holds a token of the future,
  and after a stop has begun every token held is out of date; and `ProvenStopStopsAlways`, for
  any number of motors, `run()` and `stop()` callers.  Its invariant has three parts: until it
  is stopped, a test that overlapped nothing is the only call in progress (`OneCall`), and each
  motor it commanded is recorded or still (`Recorded`), a sweep's because its timer outlasts
  their windows; a settled stop is the only call that waits, so that the ack it takes is for
  the motor it waits for and the motors that may turn are those it has not aborted (`StopInv`).
* **LogDownloadProofs**: `TypeCorrect`, `DownloadIsWholeAlways` and `ListIsWholeAlways`
  from one invariant: the wire holds true entries and chunks that are short only at the
  end of their log (`Wire`), and the operation holds every byte of its log below its
  frontier, and only logs of the board as entries (`Progress`).
  `FewLossesAreSurvivedAlways` charges each retry to a message lost or overtaken: a download
  has met as many as it has retried, and one more unless what it misses is on its way
  (`Charged`), as a request that a board free of transfers will hear (`Asked`) or as a run of
  chunks that continues what it holds, with the board's stream behind it (`Served`).  The
  timer fires in neither case, so a loss pays for the retry, which restores one of them or is
  `ignored`; before the first loss an idle service means a board that is free or about to be
  (`Freed`).
* **MavftpProofs** holds the theorems of both MAVFTP modules.
  `NoForeignBytesAlways`, `TruncatedOnlyByLostTailAlways` and `UploadIsStoredAlways` hold for files
  of any length, any number of operations, retries and faults, and any `SeqMod` above three; the
  numbers wrap.  None of the three is inductive: they speak of a result whose bytes came in many
  messages.  `FtpInv` (`FtpInvariant`) relates what is under way to what the operation believes.
  At a file that is open the link is silent between two requests and the next one is no repetition
  (`Ready`); otherwise the request, or its answer, is all that is under way, and the answer tells
  the chunk at the operation's offset or the end of its file (`Exchange`).  While a file is being
  opened, stale messages of earlier operations may be under way, but none that has the number waited
  for (`Opening`).  A burst has asked once, or its packets come in the order of their offsets with
  the end last (`Streaming`), and its buffer is the file up to the frontier (`Frontiers`); what a
  burst leaves behind is at most the end of its stream (`Trailing`); and when that end was streamed,
  the chunk before it was seen, is on its way or was lost (`TailInv`).  Each action has a lemma
  `...Keeps`.  The theorems have three hypotheses, and TLC finds a counterexample without each: an
  abort comes when the packets have ceased (`"abort in stream" \notin Faults`, as in the run); a
  vehicle that declares the size of a file does not understate it (`SizesDeclared`); and no OPEN or
  CREATE is sent with a number that a message still under way has, or comes to the vehicle
  with the number it stands at (`[][~NumberReused]_vars`).  In the run of `ftp_transfer` this never
  happens; with a third fault it does (section 6), because the vehicle counts the packets of a burst
  and the service only those that reach it.
  `CleanReadsSucceedAlways` (while nothing is lost, late or dropped, no read of a file that is
  there and within the limit fails) adds `Clean` to `FtpInv`, as long as `faults` is empty.  A
  request of a read or its answer is always under way, so that its timeout does not fire, and an
  OPEN is answered with ACK, because there is no file, or with FAIL at the first try only
  (`Awaited`).  The packets of a burst come without a gap and the last of them ends it or calls
  for the next request, so that its watchdog does not fire, no EOF meets a hole and no retry is
  spent; a burst request that the vehicle takes for a repetition has its last packet repeated,
  which lies below the frontier (`Gapless`).  After RESET nothing is under way and no session is
  open, and the reopening is no repetition (`Retry`).  It assumes
  `SizesDeclared` and `[][~NumberReused]_vars`, nothing about aborts, and of the sizes that a
  file within the limit of 16 MB declares no more than the limit, has less than the limit when
  it declares none, and that a prefix is not longer than the limit (`SizesAccepted`): the loop
  stops at the limit before it reads the EOF that would end such a file (`:589`).
  Of the queue, `QueueTyped`, and `QueueImplements`: it implements `ExclusiveSession`
  for any number of calls.  `ChainInv` ties the phases to the links: a link that is held or
  resolved has only resolved links before it, a resolved link is that of an operation that
  returned, and an operation runs behind a held link of its own.  A call that enters
  therefore finds every earlier one done; that none of them merely gave up is why nothing
  but the operation's own `finally` may release a link.
* **GuidedActionProofs**: `TypeCorrect`, and `AlwaysWatched`: a running accelerometer
  calibration has its watchdog and a requested one a call that settles it, whatever the
  postures, compasses, runs and faults.  `AccelIsWatched` is not inductive: a confirmation
  and the warm-up fallback set the action to running without arming anything.  `Sound` adds
  that a posture is shown only by a running calibration, `Waits` and `Anchors` that a call
  and a send belong to an action there is.  Each handler has a lemma `...Keeps`.
  `OwnVerdictsAlways` (no verdict of an earlier run ends this one) and `PosturesMatchAlways` (no
  confirmation is taken for another posture) hold for any number of runs, faults, postures and
  compasses when the accelerometer and the level calibration are not both in play, and for fewer
  than three runs, respectively two faults, when they are.  TLC finds a counterexample just beyond
  (section 6), and `HollowNeedsThreeRuns` and `MistakeNeedsTwoFaults` state it without a bound: what
  goes wrong is the accelerometer's, it takes both calibrations, which share a command and hence an
  acknowledgement, and at least that many runs or faults.  Their invariant is `JInv`.  `Counted`
  says how many runs have been spent on what is under way; `NotedInTime` and `RunsInTime` that a
  calibration acknowledged next to an old verdict is one whose own command still holds the autopilot,
  so that the sentinel is not repeated before that command replaces it.  `ReportInv` says that a compass
  calibration collects reports only of calibrators started anew.  `UplinkSound` and `CardSound` tie
  the posture on the card and in a confirmation to the one asked for, `ConfirmedOnce` says that
  nothing can be confirmed again while a confirmation is on its way, and `LateSound` that a late
  acknowledgement, or the warm-up fallback, meets an autopilot that is ahead only after a fault.
  Most handlers start nothing, show no posture and open no window (`AsWas`); the others have lemmas
  `...Effect`, and each action of the system a lemma `...Step`.
* **BootloaderProofs**: `FlashedIsImageAlways`, for every size of image, external flash and chip, any
  revision and any number of faults of every kind, `"late resync"` included; and
  `ErasedBeforeWrittenUnlessLate`, for all faults but that one, without which it is false (section 6;
  the run leaves it out as well).  Neither is inductive: an ack may be that of an earlier command,
  and the client never learns it.  `FlashInv` therefore counts.  `Load` is what is under way in
  bytes, and outside of a drain it is never more than what the step still reads (`Due`) and two acks
  that came late.  The field of a CRC or of a chunk read back is four bytes and an ack, more than two
  acks make up, so one that is confirmed is the answer to its own command (`Answered`), told by a flash that no
  erase still under way can change (`Verifying`).  `Reading` ties the chunk that is read back to the
  board's cursor, behind the rewind that resets it.  `ExtErase` and `Erase` say that an erase is read
  to the last byte of its reply; `Overtaken` lists the states in which a late ack ended it and the
  first frame, or the recovery from it, is on its way to a chip still being erased; and
  `External` that no external erase outlives its phase.  What a step may lead to has one
  lemma per phase (`BeErasing`, `BeProgramming`, ...), and each action one lemma per phase it can
  happen in.
  `SurvivesOneFaultAlways` (a session that fails has met a mishap, and more than one that a resend
  or the second attempt makes up for) has an invariant of its own, `MishapInv`, and rests on
  `FlashInv`: while no mishap has happened, or one that can be survived, the state is `Calm`.  Every
  reply is then the answer to the command that waits for it, byte by byte (`Known`, `ExtErasing`,
  `ChipErasing`, `Writing`, `Checking`), but for the chunk the mishap struck, of which nothing, a
  refusal or a late ack may be under way until the drain has taken it.  The memory holds the chunks
  confirmed so far (`Holding`), so that the verify confirms it.  In the first attempt one of them may be
  damaged or written twice (`Dirty`); the verify then may fail, but the mishap is spent (`History`), and
  the second attempt is not dirty.  The proof showed where the property was too strong: a chunk
  written twice needs room (section 6), and `Survivable` says so.
* **CanBusProofs**: `TypeCorrect`, `SaveAwaitsWritesAlways` (no Apply & Save is left with its
  writes acknowledged and no SAVE to come) and `CompleteWalkIsWholeAlways`.  The last is not
  inductive, because the answer that ends the list is on its way before it arrives.
  `WalkInv` follows it back: the cursor of a walk never exceeds the number of names it has
  shown, so while a name is missing neither a read past the end nor its answer is under
  way.  Queues are typed by what they may hold (`Early`, `NoEnd`), which makes every step a
  matter of typing.  `SavedBatchInFlashAlways` (an undisturbed Apply & Save reported as saved
  is in flash, whatever was lost, repeated, refused or given up) follows the batch from its
  call to the ack of its SAVE: while the SAVE waits, nothing is under way but requests of the
  batch and answers that are true of the node's RAM, and what is not pending any more is in RAM
  (`JobWriting`); while the SAVE is under way RAM has all of it and an ack is true of flash
  (`JobSaving`); after that RAM and flash agree on it (`JobOver`), also when a write that was
  repeated, or a restart, comes late.  The invariant needs that no walk is going on or begins: a
  known node whose walk never began (`"idle"`, after an answer recreated its entry) is walked on its
  next NodeStatus, and the answer of that walk would acknowledge a lost write.
  `CompletedIsWholeUnlessReused` (an update reported as completed is the whole image on the
  node, but for the answer under way) holds for images of any size and whatever is lost, late,
  refused, repeated or cancelled, under `[][~TidReused]_busVars`: no transfer ID comes into use
  while a message that has it is under way (there are 32, and the tunnel keeps the order; in
  the run of `can_bus`, whose faults are fewer than its IDs, it never does).  `FileInv` says that
  requests to begin are consumed before the first chunk (`BeginsFirst`), that a message with the
  ID of the latest read is that read or its answer and nothing of the transfer follows it
  (`LatestRead`), and that the node holds the first chunks of the image.  The service cannot
  know this: it reports an update as completed on the offset of a read alone.

Only model-checked: all liveness (`TableEventuallyHeld`, `CallsEnd`, `TestEnds`,
`OperationEnds`, `EveryWaiterLeaves`, `OperationSettles`, `NoActionIsStranded`, `SessionEnds`,
`BusSettles`), because fairness and ENABLED are out of the prover's reach.  Every invariant that a
passing run checks is proved, under the hypotheses named above.

## 5. What is left out of the modelled parts

Byte encodings, wording of notices, progress percentages, and the delays of timers
(a timer may fire whenever it is armed, except where section 2 says otherwise).  One
board is on a link: `processParamValue` does not look at the source of a `PARAM_VALUE`
(`runtime.ts:2946`), so the table of a second one would be mixed in.  `waitForParameterSync` and the autopilot-version request only
report.  `LOG_ERASE` and the throttle and duration checks of a motor test keep no state.
Two passes of the stall retry do not overlap.

Timing that the newer modules assume:

* `FtpTransfer`: a watchdog or a request's timer ends when nothing is under way that could
  still answer, unless the fault `"late reply"` says otherwise (requests only).  An abort
  comes on a silent link, and nothing is lost after a link drop; `"abort in stream"` and
  `"loss after drop"` are faults of the module that the run leaves out.  All frames of
  session 0 keep their order.
* `GuidedAction`: timers end and the operator acts only when no confirmation is on its way
  (`Confirming`), and a prompt does not cross one; a calibration by hand outlasts the ack of
  any command (`NoCommandUnderway`); the warm-up fallback comes after a sample and the prompt
  that follows it (`WarmUpOver`); only the start of the accelerometer is slow enough for its
  timeout to race its ack (`Overdue`), and only `PREFLIGHT_CALIBRATION` is answered
  `IN_PROGRESS`; the report watchdog outlasts every ack (`MagSilent`) and the guidance timer a
  cancel; a cancel nobody waits for is through before the operator starts anew
  (`CancelThrough`); an autopilot that answers after a restart has sent a heartbeat (`Up`).
  A compass text during a cancel or in the chunk of an ack is a fault.
* `Bootloader`: the four `getInfo` requests are one step (`info`), and a revision that is not
  supported and a bad silicon revision, which end the session before anything is written,
  are left out.  A late reply comes before the silence that a drain waits for is over, and
  no reply is as long as the limit of the drain.
* `CanNode`, `CanBus`: the tunnel keeps the order of its messages and carries the update
  beside the parameters; forwarding is kept alive by `tick` and does not lapse; another bus is
  reached through `stop()`.  A batch names a parameter once.

## 6. Where code and documentation part

One has a run whose counterexample TLC prints.  `ftp_broken`: a caller that gives up in
`awaitPredecessor` leaves `withExclusiveSession` before its `try`, so its link is never
released and every later call fails after the silence bound, also when nobody holds the
session (`runtime-mavftp-service.ts:320`, whose comment says that the chain stays unbroken).
No wedged transfer is needed: a burst longer than the bound is, as `sendBurstReadRequest`
does not stamp the activity.

The same models show the following when a constant is widened or the formula named is
checked in place of a run's own.

Parameters:

* *a resume that misses nothing*: frames that arrive on a returned link before its first
  heartbeat may complete the retained table; the resume then asks for nothing and stays
  in `requesting`, its retries finding nothing to ask for (`status \in Syncing ~> status
  \notin Syncing` under the fairness of `sync_liveness`);
* *a smaller count* is taken over while the names received before are kept, so a board
  that restarts behind a surviving link completes on names of its previous boot
  (`WritesSeeWholeTable` with `<<"full", "boot">>` in `Reboots`);
* *a reflash with the count of the table before* completes on names that the board does not
  have (`WritesSeeWholeTable` with two images of one key and length in `Swaps`), and two
  boards of one kind, address and count are not told apart (`NoBlendedTable`);
* *an early value*: a `PARAM_VALUE` that arrives on a returned link before the request begins
  leaves its count beside the values retained from the build before.  When the resume that
  follows is cut off before its first frame, `markStaleLink` keeps that count with those
  values, and the next resume is not refuted but completes on values of two builds
  (`NoBlendedTable` with a reflash to a longer table of the same key and `MaxEvents = 4`; the
  comment at `runtime.ts:2911` says that the operator is not served a blend of two firmwares);
* a batch skips a request whose value the cached table already shows, though the cache
  is stale after a write whose echo was lost (`runtime.ts:1329`);
* the echo of a write that timed out confirms a later, lost write of the same value
  (`VerifiedWritesStand` with `LateEchoes`);
* the first of two overlapping batches to finish clears `parameterBatchWriteActive` for
  both (`CalibrationExcludesBatch` with two writers).

Motor test:

* a single-motor test records no sequence, so its stop aborts motor 1 whichever motor turns
  (`runtime-motor-test-service.ts:340`; `ProvenStopStops` without `OtherMotorAlone`), while
  `tests/motor-test-service.test.mjs:308` says that each abort must name the sequence its
  start used;
* a `stop()` that overtakes the commands of a simultaneous run aborts the motors recorded
  so far, and reports success while the next one starts (`stopped = "early"` with a motor
  turning);
* a single or simultaneous run that replaces a sweep leaves `sweepToken` as it was, and
  the sweep commands its next motor beside it and is then the only one that `stop()` knows of
  (`ProvenStopStops` with `stopped' = "no"` in `StartRun`; the comment at
  `runtime-motor-test-service.ts:58` says that `run()` bumps the token and the sweep ends);
* a `stop()` whose abort is still outstanding as a run begins clears that run's sequences when
  it returns: the `stop()` of the run then aborts the motors commanded since, reports every
  abort acknowledged, and motor 1 goes on turning until its own window ends (the same);
* two `stop()` calls of one test take each other's acks, and both report success when the
  aborts of a motor are lost twice (the same, with `settled` left as it is in `Begins`);
* a run whose ack was lost is no longer active: the `stop()` that follows sends nothing and
  reports success while the motor turns until its own window ends.

Onboard logs:

* a retry that holds a start of the log sends no `LOG_REQUEST_END`
  (`runtime-log-download-service.ts:365`): when the board still considers another transfer
  active, as after a link drop and a listing whose end was lost, chunks of an earlier stream
  can begin the download, and after the loss of one more message every retry is ignored
  (`FewLossesAreSurvived` without `ignored`).

MAVFTP:

* packets of a burst that was aborted amid its stream arrive in the next burst and are
  stored as its own, because every session is number 0 (`NoForeignBytes` with `"abort in
  stream"`; the comment at `runtime-mavftp-service.ts:826` says that a late packet is
  identifiable);
* an answer is known by its number alone: `resolveWaiters` does not look at the opcode it
  answers (`runtime-mavftp-service.ts:1228`).  When the last packet of a burst is lost, the burst is
  aborted and its close is lost as well, the next OPEN may have the number that the vehicle
  stands at; the vehicle repeats its last packet, the service takes it for the answer to the
  OPEN, and reads the file of the burst, which is still open, as the one it asked for
  (`NoForeignBytes` with three faults);
* an EOF after a lost last packet ends a burst short of the file: it cannot be told from
  the EOF of a vehicle that declared too much (`lostTail` in `TruncatedOnlyByLostTail`).

Guided actions:

* the ack of a level calibration, which has the same command, resumes an accelerometer
  calibration that timed out, and the action then takes the verdict of an earlier run
  (`NoHollowSuccess` with three runs, by `HollowNeedsThreeRuns` not with fewer; the comment at
  `runtime-guided-action-service.ts:606` says that only an ack for the command of the pending
  action counts); of an autopilot whose prompts are then no longer heard, it leaves the first
  posture to be confirmed while a later one is asked for (`NoMistakenPosture` with two faults,
  by `MistakeNeedsTwoFaults` not with one);
* the gate on compass reports is opened by a status text and by a cancel as well as by
  the ack, and "calibration complete" of any sensor completes an accelerometer or level
  calibration (`runtime-helpers.ts:676`).

Bootloader:

* a reply that comes after the settle before the flash has failed is read as the end of
  the erase: the failure of `settleLink` is swallowed, and `erase()` does not flush
  (`ErasedBeforeWritten` with `"late resync"`; `FirmwareFlasher.tsx:1109` says that nothing
  late may be read as the next reply).  The verify still finds it;
* the pairing `"large v2"` passes the guard of the view, which knows revision and flash
  size, and is refused by the one in `flash()`, which is given neither;
* of an image that fills the flash, a chunk whose ack is lost or late is written twice and the
  last chunk is refused rather than the mismatch found by the verify, so that the session fails on
  one mishap (`SurvivesOneFault` without `Chunks < FlashChunks`, with `FlashChunks = 2`); and a
  mismatch of the external flash is not retried.

CAN bus:

* any answer that names a parameter acknowledges its pending write, also the answer to a
  read or to an earlier write: the write may be lost, and the SAVE captures the old value
  (`SavedBatchInFlash` without `job.alone`; the comment at `runtime-can-bus-service.ts:712`
  says that flash captures the new values);
* a BeginFirmwareUpdate of a cancelled update that arrives between a write and its SAVE takes
  the node to its bootloader: after a power cycle the SAVE, sent again, saves the old value
  and the batch is reported as saved (`SavedBatchInFlash` with `job` unchanged in `BootServes`,
  with four calls: `MaxOps = 4`, `MaxEvents = 4`);
* an ID change called while a SAVE is pending restarts the node on the ack of that SAVE,
  before the new ID is saved; `restartAfterSave` moreover survives a write or a SAVE that
  was given up, `stop()` and `reset()`, and a later plain SAVE then restarts the node;
* a write that is given up takes the SAVE of every batch of its node with it, also of one
  whose own writes were acknowledged;
* the end-of-list answer to an earlier walk completes a new one at once, with parameters
  missing and no error (`CompleteWalkIsWhole` without `cleanWalk`);
* an answer that recreates the entry of a node stays in its `parameters` when the walk then
  starts over: the walk does not get past that name and stops with an error;
* a NodeStatus between the removal of an entry whose ID changes and the reboot of the node
  brings the old entry back, as a ghost;
* an update that is begun while the node still reads for a cancelled one answers from the
  new image at the old offset: the node takes chunks of both, and the update is reported as
  completed (`CompletedIsWhole` without `update.first`, with three calls and the loss of the
  second BeginFirmwareUpdate: `MaxOps = 3`, `MaxEvents = 4`).

## 7. Not modelled, and why

* **The rest of the CAN bus service**: the node-ID allocator assembles a unique ID byte by
  byte and answers from a table; identity, ESC telemetry and the raw-frame monitor keep
  nothing that the modelled operations read.
* **Transports, reconnect, MAVLink session**: their effect on the services, a link that
  goes up and down at any time and frames that are lost, is the environment of every
  module.  What happens inside (a disconnect during a pending open) is not modelled.
* **MSP session, DFU**: one request and its reply at a time, over a USB or serial link
  with a status of its own.
* **Drafts, backups, setup exercises, eligibility tables, snapshot and notices**: pure
  functions of a snapshot, with floating-point equality; unit tests enumerate them
  better than TLC could.
* **Codec, file formats, metadata, log analysis, plots, AI assistant, views, test
  doubles**: bytes, floating point, generated data and rendering, which are most of the
  repository's lines and have no state that the properties are about.
