---------------------------- MODULE GuidedAction ----------------------------
(***************************************************************************)
(* GuidedActionService (runtime-guided-action-service.ts): the operator    *)
(* starts a calibration or a reboot, the service sends its command, and    *)
(* acknowledgements, prompts, reports, status texts and timers move the    *)
(* action from "requested" to "running" and to a verdict.                  *)
(*                                                                         *)
(* While an action is "requested" or "running" every parameter write is    *)
(* refused, so an action that never ends locks the configurator.           *)
(*                                                                         *)
(* The fields of the service are one record, app, and each handler is a    *)
(* function from app to app.  A command travels to the autopilot in        *)
(* uplink; what the autopilot sends is handled in the step it is sent in,  *)
(* so the delay of both directions is the time a command spends in uplink. *)
(* The autopilot itself is external: it is modelled from what the comments *)
(* and handlers of the service say of it.                                  *)
(***************************************************************************)
EXTENDS Naturals, Sequences

CONSTANTS
  Ids,          \* the guided actions in play
  Cancellable,  \* those of them the operator cancels
  Postures,     \* length of ACCELEROMETER_CALIBRATION_STEPS
  Compasses,    \* compass instances of the vehicle
  CalMask,      \* cal_mask of every MAG_CAL_REPORT; {} when it is not filled
  Faults,       \* the faults in play
  MaxFaults,    \* bound: faults in one behaviour
  MaxRuns       \* bound: actions the operator starts

FaultKinds == {"command lost", "ack lost", "mute", "restart", "heartbeat gap",
               "link drop", "send fails", "no compass", "untimely text"}

ASSUME IdsAssumption ==
  /\ Ids \subseteq {"accel", "level", "compass", "reboot"}
  /\ Cancellable \subseteq Ids
ASSUME PosturesAssumption == Postures \in Nat \ {0}
ASSUME MaskAssumption == CalMask \in {{}, Compasses}
ASSUME FaultsAssumption == Faults \subseteq FaultKinds
ASSUME BoundsAssumption == MaxFaults \in Nat /\ MaxRuns \in Nat

VARIABLES
  app,      \* the fields of GuidedActionService
  calls,    \* sendCommand promises that a runner awaits
  sends,    \* session.send promises that advanceAccelerometerCalibration awaits
  uplink,   \* commands and confirmations on their way to the autopilot
  acal,     \* external: the accelerometer routine of the autopilot
  mcal,     \* external: the calibrator of each compass
  fitted,   \* the parameter table shows an enabled compass
  mute,     \* external: the link no longer delivers what the autopilot sends
  rebooted, \* external: a restart the heartbeats have yet to show
  runs,     \* actions started so far
  faults,   \* faults so far
  hollow,   \* history: actions that took a verdict not their own
  mistaken  \* history: a confirmation was taken for another posture

vars == <<app, calls, sends, uplink, acal, mcal, fitted, mute, rebooted,
          runs, faults, hollow, mistaken>>
vehicleVars == <<acal, mcal, mute, rebooted>>
historyVars == <<hollow, mistaken>>

Steps == 0..(Postures - 1)
Statuses == {"idle", "requested", "running", "succeeded", "failed"}
Timers == {"prompt watchdog", "prompt fallback", "guidance",
           "report watchdog"}
NoStep == Postures
NoPose == [step |-> NoStep, waiting |-> FALSE, prompted |-> FALSE]
Command(id) == IF id \in {"accel", "level"} THEN "preflight" ELSE id
Results == {"pending", "noted", "accepted", "in progress", "rejected",
            "timed out", "closed"}

PoseType == [step: 0..Postures, waiting: BOOLEAN, prompted: BOOLEAN]
AppType ==
  [status: [Ids -> Statuses],
   pose: PoseType,
   cta: BOOLEAN, hold: 0..Postures, advance: 0..Postures,
   resumable: BOOLEAN, timers: SUBSET Timers, texted: BOOLEAN,
   cancelling: BOOLEAN, reports: [Compasses -> {"none", "ok", "bad"}]]
CallType == [id: Ids \cup {"cancel"}, run: 0..MaxRuns, result: Results]
PacketType == [id: Ids \cup {"cancel", "confirm"}, run: 0..MaxRuns,
               step: 0..Postures, beat: BOOLEAN]

TypeOK ==
  /\ app \in AppType
  /\ calls \subseteq CallType
  /\ sends \subseteq [step: 0..Postures, auto: BOOLEAN]
  /\ uplink \in Seq(PacketType)
  /\ acal \in [phase: {"off", "asking", "sampling", "ok", "bad"},
               step: Steps, old: BOOLEAN]
  /\ mcal \in [Compasses -> [phase: {"off", "running", "ok", "bad"},
                             old: BOOLEAN]]
  /\ fitted \in BOOLEAN /\ mute \in BOOLEAN /\ rebooted \in BOOLEAN
  /\ runs \in 0..MaxRuns /\ faults \in 0..MaxFaults
  /\ hollow \subseteq {"accel", "compass"} /\ mistaken \in BOOLEAN

NoReports == [i \in Compasses |-> "none"]

Init ==
  /\ app = [status |-> [a \in Ids |-> "idle"], pose |-> NoPose, cta |-> FALSE,
            hold |-> NoStep, advance |-> NoStep, resumable |-> FALSE,
            timers |-> {}, texted |-> FALSE, cancelling |-> FALSE, reports |-> NoReports]
  /\ calls = {} /\ sends = {} /\ uplink = <<>>
  /\ acal = [phase |-> "off", step |-> 0, old |-> FALSE]
  /\ mcal = [i \in Compasses |-> [phase |-> "off", old |-> FALSE]]
  /\ fitted = TRUE /\ mute = FALSE /\ rebooted = FALSE
  /\ runs = 0 /\ faults = 0 /\ hollow = {} /\ mistaken = FALSE

-----------------------------------------------------------------------------
(* What the handlers of the service do to its fields.                      *)

Is(c, a, set) == a \in Ids /\ c.status[a] \in set
IsActive(c, a) == Is(c, a, {"requested", "running"})
Active(a) == IsActive(app, a)

(* The timers that failAction clears; the others of the accelerometer are  *)
(* cleared by its callers.                                                 *)
WatchOf(a) == CASE a = "accel" -> {"prompt watchdog"}
                [] a = "compass" -> {"guidance", "report watchdog"}
                [] OTHER -> {}

FailAction(c, a) ==
  [c EXCEPT !.status[a] = "failed", !.timers = @ \ WatchOf(a),
            !.cta = @ /\ a # "accel"]

(* clearAccelerometerPromptFallbackTimer, clearAccelerometerAdvanceTimer   *)
(* (the hold goes with it) and accelerometerCalibration = undefined.       *)
DropPose(c) ==
  [c EXCEPT !.timers = @ \ {"prompt fallback"}, !.advance = NoStep,
            !.hold = NoStep, !.pose = NoPose]

ToIdle(c, a) ==
  [c EXCEPT !.status[a] = "idle",
            !.texted = @ /\ a # "compass", !.cta = @ /\ a # "accel"]

(* buildAccelerometerCalibrationGuidedAction, for a posture of the list. *)
ShowPosture(c) == [c EXCEPT !.status["accel"] = "running", !.cta = TRUE]

MarkCompassCalibrationStarted(c) ==
  [c EXCEPT !.status["compass"] = "running"]

StartedUnwatched(c) ==
  [c EXCEPT !.pose = [step |-> 0, waiting |-> FALSE, prompted |-> FALSE],
            !.status["accel"] = "running", !.cta = FALSE,
            !.timers = @ \cup {"prompt fallback"}]
MarkAccelerometerCalibrationStarted(c) ==
  [c EXCEPT !.pose = [step |-> 0, waiting |-> FALSE, prompted |-> FALSE],
            !.status["accel"] = "running", !.cta = FALSE,
            !.timers = @ \cup {"prompt fallback", "prompt watchdog"}]

CompleteAccelerometerCalibration(c) ==
  [DropPose(c) EXCEPT !.status["accel"] = "succeeded", !.cta = FALSE,
                      !.timers = @ \ {"prompt watchdog"}]

(* The window is open until LateWindowCloses. *)
CanResume(c) == Is(c, "accel", {"failed"}) /\ c.resumable

(* handleCommandAck, for an ACCEPTED acknowledgement. *)
HandleCommandAck(c, command) ==
  CASE command = "compass" /\ Is(c, "compass", {"requested"}) ->
         MarkCompassCalibrationStarted(c)
    [] command = "preflight" /\ Is(c, "accel", {"requested"})
         /\ c.pose = NoPose ->
         MarkAccelerometerCalibrationStarted(c)
    [] command = "preflight" /\ CanResume(c) ->
         MarkAccelerometerCalibrationStarted([c EXCEPT !.resumable = FALSE])
    [] OTHER -> c

(* handleCommandLong for ACCELCAL_VEHICLE_POS naming a posture.  The same  *)
(* prompt again leaves the hold alone.                                     *)
SamePrompt(c, s) == c.pose.prompted /\ c.pose.step = s /\ ~c.pose.waiting

HandlePrompt(c, s) ==
  LET live == [c EXCEPT !.resumable = @ /\ ~CanResume(c),
                        !.timers = (@ \cup {"prompt watchdog"})
                                     \ {"prompt fallback"}] IN
  IF ~(Is(c, "accel", {"running"}) \/ CanResume(c)) THEN c
  ELSE IF SamePrompt(c, s) THEN live
  ELSE ShowPosture(
         [DropPose(live) EXCEPT
            !.pose = [step |-> s, waiting |-> FALSE, prompted |-> TRUE]])

(* handleCommandLong for the SUCCESS and FAILED sentinels. *)
AcceptsAnySentinel(c) == Is(c, "accel", {"requested", "running"})
AcceptsSentinel(c) == Is(c, "accel", {"running"})

HandleSentinel(c, ok) ==
  IF ~AcceptsSentinel(c) THEN c
  ELSE IF ok THEN CompleteAccelerometerCalibration(c)
  ELSE DropPose(FailAction(c, "accel"))

ProgressEndsGuidance(c) ==
  IF Is(c, "compass", {"running"})
    THEN [c EXCEPT !.timers = @ \ {"guidance"}]
    ELSE c
HandleMagCalProgress(c) ==
  IF Is(c, "compass", {"running"})
    THEN [c EXCEPT !.timers = (@ \ {"guidance"}) \cup {"report watchdog"}]
    ELSE c

(* handleMagCalReport: the report of compass i is taken up, and the action *)
(* ends when every compass of the mask has reported.                       *)
AcceptsReport(c) == Is(c, "compass", {"running"})
Expected(r) == IF CalMask = {} THEN {i \in Compasses : r[i] # "none"}
                               ELSE CalMask

HandleMagCalReport(c, i, ok) ==
  LET r == [c.reports EXCEPT ![i] = IF ok THEN "ok" ELSE "bad"]
      heard == [c EXCEPT !.timers = @ \ {"guidance"}, !.reports = r]
      all == [heard EXCEPT !.timers = @ \ {"report watchdog"},
                           !.reports = NoReports]
  IN IF ~AcceptsReport(c) THEN c
     ELSE IF \E j \in Expected(r) : r[j] = "none"
       THEN [heard EXCEPT !.timers = @ \cup {"report watchdog"}]
     ELSE IF \A j \in Expected(r) : r[j] = "ok"
       THEN [all EXCEPT !.status["compass"] = "succeeded"]
     ELSE FailAction(all, "compass")

(* matchGuidedActionText: the status a text asks for, or "none".  A text   *)
(* is named for the words that match.  "calibration complete" is generic:  *)
(* another sensor's text has the same words.                               *)
Texts == {"place vehicle", "calibration complete", "calibration failed",
          "compass calibration"}
MatchGuidedActionText(c, a, text) ==
  CASE a = "accel" /\ text = "calibration complete" /\ IsActive(c, a) ->
         "succeeded"
    [] a = "level" /\ text = "calibration complete" /\ IsActive(c, a) ->
         "succeeded"
    [] text = "calibration failed" /\ a # "reboot" /\ IsActive(c, a) ->
         "failed"
    [] a = "accel" /\ text = "place vehicle" /\ IsActive(c, a) -> "running"
    [] a = "compass" /\ text = "compass calibration"
         /\ ~Is(c, a, {"succeeded", "failed"}) -> "running"
    [] OTHER -> "none"

(* processStatusText.  No text matches the accelerometer and the compass   *)
(* with different results, and each has timers of its own.                 *)
ProcessStatusText(c, text) ==
  LET next == [a \in Ids |-> MatchGuidedActionText(c, a, text)]
      To(a, set) == a \in Ids /\ next[a] \in set
      ended == {"succeeded", "failed"}
      moved == [c EXCEPT
        !.status = [a \in Ids |-> IF next[a] = "none" THEN @[a] ELSE next[a]],
        !.texted = @ \/ To("compass", Statuses),
        !.cta = @ /\ ~To("accel", ended),
        !.timers =
          (@ \ ((IF To("compass", Statuses) THEN {"guidance"} ELSE {})
                \cup (IF To("compass", ended) THEN {"report watchdog"} ELSE {})
                \cup (IF To("accel", ended) THEN {"prompt watchdog"} ELSE {})))
          \cup (IF To("compass", {"running"}) THEN {"report watchdog"} ELSE {})
          \cup (IF To("accel", {"running"}) THEN {"prompt watchdog"} ELSE {})]
  IN IF To("accel", ended) THEN DropPose(moved) ELSE moved

(* handleVehicleRestart. *)
HandleVehicleRestart(c) ==
  LET one(a) == IF ~IsActive(c, a) THEN c.status[a]
                ELSE IF a = "reboot" THEN "succeeded" ELSE "failed"
      accel == IsActive(c, "accel")
      compass == IsActive(c, "compass")
      dropped == IF accel THEN [DropPose(c) EXCEPT !.resumable = FALSE] ELSE c
  IN [dropped EXCEPT
        !.status = [a \in Ids |-> one(a)],
        !.cta = @ /\ ~accel,
        !.reports = IF compass THEN NoReports ELSE @,
        !.timers = @ \ ((IF accel THEN WatchOf("accel") ELSE {})
                        \cup (IF compass THEN WatchOf("compass") ELSE {}))]

(* reset: a disconnect.  compassCancelInFlight is not among its fields. *)
Reset(c) ==
  [c EXCEPT !.status = [a \in Ids |-> "idle"], !.pose = NoPose, !.cta = FALSE,
            !.hold = NoStep, !.advance = NoStep, !.resumable = FALSE,
            !.timers = {}, !.texted = FALSE, !.reports = NoReports]

-----------------------------------------------------------------------------
(* The operator. *)

Packet(id, run, step) ==
  [id |-> id, run |-> run, step |-> step, beat |-> FALSE]

(* sendCommand with waitForAck. *)
SendAndWait(id, run) ==
  /\ calls' = calls \cup {[id |-> id, run |-> run, result |-> "pending"]}
  /\ uplink' = Append(uplink, Packet(id, run, NoStep))

(* guidedActionBlockReason: no other action is active. *)
NoOtherActive(a) == \A b \in Ids \ {a} : ~Active(b)

(* What the autopilot is at, or repeats the verdict of, is old for the     *)
(* new run.                                                                *)
Age(a) ==
  /\ acal' = [acal EXCEPT !.old = @ \/ (a = "accel" /\ acal.phase # "off")]
  /\ mcal' = [i \in Compasses |-> [mcal[i] EXCEPT
                !.old = @ \/ (a = "compass" /\ mcal[i].phase \in {"ok", "bad"})]]

(* runGuidedAction of an action that is not active, up to the await. *)
Request(c, a) ==
  [c EXCEPT !.status[a] = "requested", !.cta = @ /\ a # "accel",
            !.resumable = @ /\ a # "accel", !.texted = @ /\ a # "compass",
            !.reports = IF a = "compass" THEN NoReports ELSE @,
            !.timers = IF a = "compass" THEN @ \ WatchOf(a) ELSE @]

(* The cancel that nobody waits for is through before the operator, who    *)
(* reads that it was sent, starts anew.                                    *)
CancelThrough ==
  \A i \in 1..Len(uplink) : uplink[i].id = "cancel" => uplink[i].run > 0

Start(a) ==
  /\ ~Active(a) /\ NoOtherActive(a) /\ CancelThrough
  /\ a = "compass" => fitted
  /\ runs < MaxRuns /\ runs' = runs + 1
  /\ SendAndWait(a, runs + 1)
  /\ app' = Request(app, a)
  /\ Age(a)
  /\ hollow' = hollow \ {a}
  /\ UNCHANGED <<sends, fitted, mute, rebooted, faults, mistaken>>

(* runCompassCalibrationAction without an enabled compass. *)
StartWithoutCompass ==
  /\ "compass" \in Ids /\ ~fitted
  /\ ~Active("compass") /\ NoOtherActive("compass")
  /\ app' = FailAction(app, "compass")
  /\ UNCHANGED <<calls, sends, uplink, vehicleVars, fitted, runs, faults,
                 historyVars>>

(* A confirmation is on its way: it arrives before a timer ends and before *)
(* the operator or the hold gives the next.                                *)
Confirming == sends # {} \/ \E i \in 1..Len(uplink) : uplink[i].id = "confirm"

(* advanceAccelerometerCalibration up to its await of session.send. *)
Advance(auto) ==
  /\ app' = [app EXCEPT !.status["accel"] = "running", !.cta = FALSE,
                        !.timers = @ \ {"prompt fallback"},
                        !.advance = NoStep, !.hold = NoStep,
                        !.pose = [step |-> app.pose.step, waiting |-> FALSE,
                                  prompted |-> FALSE]]
  /\ sends' = sends \cup {[step |-> app.pose.step, auto |-> auto]}
  /\ uplink' = Append(uplink, Packet("confirm", 0, app.pose.step))
  /\ UNCHANGED <<calls, vehicleVars, fitted, runs, faults, historyVars>>

(* The operator confirms the posture the card shows. *)
Confirm ==
  /\ "accel" \in Ids
  /\ Active("accel") /\ app.cta /\ NoOtherActive("accel")
  /\ app.pose # NoPose
  /\ Advance(FALSE)

(* handleAttitudeSample: the posture that may be confirmed by the attitude *)
(* alone.                                                                  *)
AutoConfirmsUnasked(c) ==
  /\ Is(c, "accel", {"running"})
  /\ c.pose # NoPose /\ ~c.pose.waiting
  /\ c.pose.step > 0
  /\ \A x \in sends : ~x.auto
AutoConfirmable(c) ==
  /\ Is(c, "accel", {"running"})
  /\ c.pose # NoPose /\ ~c.pose.waiting /\ c.pose.prompted
  /\ c.pose.step > 0
  /\ \A x \in sends : ~x.auto

HoldBegins ==
  /\ AutoConfirmable(app) /\ app.hold # app.pose.step
  /\ app' = [app EXCEPT !.hold = app.pose.step]
  /\ UNCHANGED <<calls, sends, uplink, vehicleVars, fitted, runs, faults,
                 historyVars>>

HoldEnds ==
  /\ app.hold # NoStep
  /\ app' = [app EXCEPT !.hold = NoStep]
  /\ UNCHANGED <<calls, sends, uplink, vehicleVars, fitted, runs, faults,
                 historyVars>>

AutoConfirm ==
  /\ AutoConfirmable(app) /\ app.hold = app.pose.step
  /\ Advance(TRUE)

(* cancelAction; the compass waits for the autopilot to confirm. *)
Cancel(a) ==
  /\ Active(a) /\ a # "compass"
  /\ app' = IF a = "accel"
              THEN ToIdle([DropPose(app) EXCEPT !.resumable = FALSE,
                             !.timers = @ \ {"prompt watchdog", "prompt fallback"}], a)
              ELSE ToIdle(app, a)
  /\ UNCHANGED <<calls, sends, uplink, vehicleVars, fitted, runs, faults,
                 historyVars>>

CancelCompass ==
  /\ Active("compass") /\ ~app.cancelling
  /\ SendAndWait("cancel", runs)
  /\ app' = [app EXCEPT !.timers = @ \ WatchOf("compass"),
                        !.reports = NoReports, !.cancelling = TRUE,
                        !.status["compass"] = "running"]
  /\ UNCHANGED <<sends, vehicleVars, fitted, runs, faults, historyVars>>

-----------------------------------------------------------------------------
(* The continuations of what the service awaits. *)

Unsettled == {"pending", "noted"}

(* Only the accelerometer's start is slow enough for its timeout to race   *)
(* the answer: its handler blocks on a gyro calibration.                   *)
Overdue(k) ==
  /\ ~Confirming
  /\ \/ k.id = "accel"
     \/ \A i \in 1..Len(uplink) : uplink[i].id # k.id \/ uplink[i].run # k.run

(* Microtasks run before the next event: between an acknowledgement and    *)
(* the continuation it triggers come only frames of the same chunk.        *)
NoMicrotask == \A k \in calls : k.result \in Unsettled

(* What the runner does when its sendCommand has settled. *)
Accepted(k) == k.result = "accepted"
InProgressIsEnough(k) == k.result \in {"accepted", "in progress"}

AfterStart(c, k) ==
  CASE k.id = "accel" ->
         IF ~InProgressIsEnough(k)
           THEN FailAction([DropPose(c) EXCEPT
                              !.resumable = k.result = "timed out"], "accel")
         ELSE IF c.status["accel"] = "requested" /\ c.pose = NoPose
           THEN MarkAccelerometerCalibrationStarted(c)
         ELSE c
    [] k.id = "compass" /\ InProgressIsEnough(k) ->
         [c EXCEPT !.status["compass"] = "running",
                   !.timers = @ \cup {"guidance"}]
    [] k.id \in {"level", "reboot"} /\ Accepted(k) ->
         [c EXCEPT !.status[k.id] = "succeeded"]
    [] OTHER -> FailAction(c, k.id)

AfterCancel(c, k) ==
  [IF Accepted(k) THEN ToIdle(c, "compass") ELSE FailAction(c, "compass")
     EXCEPT !.cancelling = FALSE]

Settle(k, result) ==
  LET done == [k EXCEPT !.result = result] IN
  /\ app' = IF k.id = "cancel" THEN AfterCancel(app, done)
                               ELSE AfterStart(app, done)
  /\ calls' = calls \ {k}
  /\ UNCHANGED <<sends, uplink, vehicleVars, fitted, runs, faults, historyVars>>

(* An acknowledgement settles the promise, and the runner goes on when the *)
(* frames that came in the same chunk have been handled; promises that     *)
(* settled earlier go first.                                               *)
Precedes(j, k) ==
  j.run < k.run \/ (j.run = k.run /\ k.id = "cancel" /\ j.id # "cancel")

Continue(k) ==
  /\ k.result \notin Unsettled
  /\ \A j \in calls : Precedes(j, k) => j.result \in Unsettled
  /\ Settle(k, k.result)

(* onTimeout of waitForCommandAck: after an IN_PROGRESS it resolves. *)
Expire(k) ==
  /\ k.result \in Unsettled /\ Overdue(k)
  /\ Settle(k, IF k.result = "noted" THEN "in progress" ELSE "timed out")

(* session.send of a confirmation has resolved, or rejected. *)
Sent(x) ==
  /\ sends' = sends \ {x}
  /\ app' = [app EXCEPT !.hold = NoStep, !.advance = x.step]
  /\ UNCHANGED <<calls, uplink, vehicleVars, fitted, runs, faults, historyVars>>

Fault(kind) == kind \in Faults /\ faults < MaxFaults /\ faults' = faults + 1

SendFails(x) ==
  /\ Fault("send fails")
  /\ sends' = sends \ {x}
  /\ uplink' = IF uplink # <<>> /\ uplink[Len(uplink)].id = "confirm"
                  THEN SubSeq(uplink, 1, Len(uplink) - 1) ELSE uplink
  /\ app' = FailAction(DropPose(app), "accel")
  /\ UNCHANGED <<calls, vehicleVars, fitted, runs, historyVars>>

-----------------------------------------------------------------------------
(* Timers.  The watchdogs are re-armed by every sign of life, so they end  *)
(* only when the autopilot is not in the calibration or is not heard.  The *)
(* one of the compass outlasts every acknowledgement.                      *)

AccelSilent == mute \/ acal.phase = "off"
MagSilent ==
  /\ mute \/ \A i \in Compasses : mcal[i].phase = "off"
  /\ \A k \in calls : k.id \notin {"compass", "cancel"}

Armed(t) ==
  /\ t \in app.timers
  /\ UNCHANGED <<calls, sends, vehicleVars, fitted, runs, faults, historyVars>>
Disarm(c, t) == [c EXCEPT !.timers = @ \ {t}]

PromptWatchdogFires ==
  /\ Armed("prompt watchdog") /\ AccelSilent
  /\ app' = IF Is(app, "accel", {"running"})
              THEN FailAction([DropPose(app) EXCEPT !.resumable = FALSE], "accel")
              ELSE Disarm(app, "prompt watchdog")
  /\ UNCHANGED uplink

(* The warm-up outlasts a sample and the prompt for the posture after it.  *)
WarmUpOver ==
  /\ acal.phase # "sampling"
  /\ acal.phase = "asking" /\ ~mute => acal.step = 0

PromptFallbackFires ==
  /\ Armed("prompt fallback") /\ WarmUpOver
  /\ app' = IF app.pose.step = 0 /\ ~Is(app, "accel", {"failed", "succeeded"})
              THEN ShowPosture(Disarm(app, "prompt fallback"))
              ELSE Disarm(app, "prompt fallback")
  /\ UNCHANGED uplink

(* scheduleAccelerometerStepAdvance; the completion fallback that follows  *)
(* the last posture only changes the wording.                              *)
StepAdvanceFires ==
  /\ app.advance # NoStep
  /\ LET mine == app.pose.step = app.advance /\ Is(app, "accel", {"running"})
     IN app' = [app EXCEPT
          !.advance = NoStep,
          !.cta = @ /\ ~mine,
          !.pose = IF mine /\ @.step = Postures - 1
                     THEN [@ EXCEPT !.waiting = TRUE, !.prompted = FALSE]
                     ELSE @]
  /\ UNCHANGED <<calls, sends, uplink, vehicleVars, fitted, runs, faults,
                 historyVars>>

(* A DO_CANCEL_MAG_CAL nobody waits for. *)
CancelOnboard == uplink' = Append(uplink, Packet("cancel", 0, NoStep))

(* The guidance timer outlasts a DO_CANCEL_MAG_CAL sent before it. *)
GuidanceFires ==
  /\ Armed("guidance") /\ ~app.cancelling
  /\ IF Active("compass") /\ ~app.texted
       THEN app' = FailAction(app, "compass") /\ CancelOnboard
       ELSE app' = Disarm(app, "guidance") /\ UNCHANGED uplink

ReportWatchdogFires ==
  /\ Armed("report watchdog") /\ MagSilent
  /\ IF Active("compass")
       THEN /\ app' = FailAction([app EXCEPT !.reports = NoReports], "compass")
            /\ CancelOnboard
       ELSE app' = Disarm(app, "report watchdog") /\ UNCHANGED uplink

LateWindowCloses ==
  /\ app.resumable
  /\ app' = [app EXCEPT !.resumable = FALSE]
  /\ UNCHANGED <<calls, sends, uplink, vehicleVars, fitted, runs, faults,
                 historyVars>>

-----------------------------------------------------------------------------
(* The autopilot and the link (external), and the handlers they call.      *)

(* resolveCommandAckWaiters: every waiter of the command is answered. *)
Answer(command, result) ==
  {IF Command(k.id) = command /\ k.result \in Unsettled
     THEN [k EXCEPT !.result = result] ELSE k : k \in calls}

CommandAhead == uplink # <<>> /\ Head(uplink).id # "confirm"
Blocked == CommandAhead /\ Head(uplink).beat
(* An autopilot that answers again has sent its heartbeat. *)
Up == rebooted => mute
(* A calibration by hand outlasts the acknowledgement of any command. *)
NoCommandUnderway ==
  calls = {} /\ \A i \in 1..Len(uplink) : uplink[i].id = "confirm"

(* IN_PROGRESS, which is an acceptance: the handler of PREFLIGHT_          *)
(* CALIBRATION blocks, and goes on.                                        *)
Beat ==
  /\ CommandAhead /\ ~Blocked /\ ~mute /\ Up
  /\ Command(Head(uplink).id) = "preflight"
  /\ uplink' = [uplink EXCEPT ![1].beat = TRUE]
  /\ calls' = Answer(Command(Head(uplink).id), "noted")
  /\ UNCHANGED <<app, sends, vehicleVars, fitted, runs, faults, historyVars>>

Obey(id) ==
  /\ acal' = CASE id = "reboot" -> [phase |-> "off", step |-> 0, old |-> FALSE]
               [] id = "accel" /\ acal.phase \notin {"asking", "sampling"} ->
                    [phase |-> "asking", step |-> 0, old |-> FALSE]
               [] OTHER -> acal
  /\ mcal' = CASE id \in {"reboot", "cancel"} ->
                    [i \in Compasses |-> [phase |-> "off", old |-> FALSE]]
               [] id = "compass" ->
                    [i \in Compasses |-> [phase |-> "running", old |-> FALSE]]
               [] OTHER -> mcal
  /\ rebooted' = (rebooted \/ id = "reboot")
  /\ uplink' = IF id = "reboot" THEN <<>> ELSE Tail(uplink)

HandleCommand(result, heard) ==
  /\ CommandAhead /\ Up
  /\ Blocked => result = "accepted"
  /\ IF heard THEN ~mute /\ UNCHANGED faults
              ELSE IF mute THEN UNCHANGED faults ELSE Fault("ack lost")
  /\ LET id == Head(uplink).id IN
     /\ IF result = "accepted"
          THEN Obey(id)
          ELSE uplink' = Tail(uplink) /\ UNCHANGED <<acal, mcal, rebooted>>
     /\ calls' = IF heard THEN Answer(Command(id), result) ELSE calls
     /\ app' = IF heard /\ result = "accepted"
                 THEN HandleCommandAck(app, Command(id)) ELSE app
  /\ UNCHANGED <<sends, fitted, mute, runs, historyVars>>

TakeConfirmation ==
  /\ uplink # <<>> /\ Head(uplink).id = "confirm"
  /\ uplink' = Tail(uplink)
  /\ IF acal.phase = "asking"
       THEN /\ acal' = [acal EXCEPT !.phase = "sampling"]
            /\ mistaken' = (mistaken \/ (~acal.old /\ Head(uplink).step # acal.step))
       ELSE UNCHANGED <<acal, mistaken>>
  /\ UNCHANGED <<app, calls, sends, mcal, fitted, mute, rebooted, runs, faults,
                 hollow>>

Lose ==
  /\ uplink # <<>> /\ ~Blocked /\ Fault("command lost")
  /\ uplink' = Tail(uplink)
  /\ UNCHANGED <<app, calls, sends, vehicleVars, fitted, runs, historyVars>>

(* The service handles a message; taken is the action that accepts a       *)
(* verdict the autopilot did not reach in this run.                        *)
Deliver(next, taken) ==
  /\ ~mute
  /\ app' = next
  /\ hollow' = hollow \cup taken
  /\ UNCHANGED <<calls, sends, uplink, fitted, mute, runs, mistaken>>

(* The autopilot repeats its prompt; one that crosses a confirmation is    *)
(* left out.                                                               *)
Prompt ==
  /\ acal.phase = "asking" /\ ~Blocked /\ ~Confirming
  /\ Deliver(HandlePrompt(app, acal.step), {})
  /\ UNCHANGED <<acal, mcal, rebooted, faults>>

PromptText ==
  /\ acal.phase = "asking" /\ ~Blocked
  /\ Deliver(ProcessStatusText(app, "place vehicle"), {})
  /\ UNCHANGED <<acal, mcal, rebooted, faults>>

(* The sample is taken, or refused and the same posture asked for again. *)
SampleEnds(good) ==
  /\ acal.phase = "sampling" /\ NoCommandUnderway
  /\ good => acal.step < Postures - 1
  /\ acal' = [acal EXCEPT !.phase = "asking", !.step = IF good THEN @ + 1 ELSE @]
  /\ UNCHANGED <<app, calls, sends, uplink, mcal, fitted, mute, rebooted, runs,
                 faults, historyVars>>

VerdictText(ok) == IF ok THEN "calibration complete" ELSE "calibration failed"

Verdict(ok, heard) ==
  /\ acal.phase = "sampling" /\ NoCommandUnderway
  /\ ok => acal.step = Postures - 1
  /\ acal' = [acal EXCEPT !.phase = IF ok THEN "ok" ELSE "bad",
                         !.old = FALSE]
  /\ IF heard
       THEN Deliver(ProcessStatusText(app, VerdictText(ok)), {})
       ELSE UNCHANGED <<app, calls, sends, uplink, fitted, mute, runs, historyVars>>
  /\ UNCHANGED <<mcal, rebooted, faults>>

Sentinel ==
  /\ acal.phase \in {"ok", "bad"} /\ ~Blocked
  /\ Deliver(HandleSentinel(app, acal.phase = "ok"),
             IF AcceptsSentinel(app) /\ acal.old THEN {"accel"} ELSE {})
  /\ UNCHANGED <<acal, mcal, rebooted, faults>>

MagProgress(i) ==
  /\ mcal[i].phase = "running"
  /\ Deliver(HandleMagCalProgress(app), {})
  /\ UNCHANGED <<acal, mcal, rebooted, faults>>

(* "Compass calibration running", every few seconds while no compass has   *)
(* reported.  One in the chunk of an acknowledgement or during a cancel is *)
(* a fault.                                                                *)
CompassText ==
  /\ Compasses # {} /\ \A i \in Compasses : mcal[i].phase = "running"
  /\ IF NoMicrotask /\ ~app.cancelling THEN UNCHANGED faults
                                       ELSE Fault("untimely text")
  /\ Deliver(ProcessStatusText(app, "compass calibration"), {})
  /\ UNCHANGED <<acal, mcal, rebooted>>

MagEnds(i, ok) ==
  /\ mcal[i].phase = "running" /\ NoCommandUnderway
  /\ mcal' = [mcal EXCEPT ![i].phase = IF ok THEN "ok" ELSE "bad"]
  /\ UNCHANGED <<app, calls, sends, uplink, acal, fitted, mute, rebooted, runs,
                 faults, historyVars>>

MagReport(i) ==
  /\ mcal[i].phase \in {"ok", "bad"}
  /\ Deliver(HandleMagCalReport(app, i, mcal[i].phase = "ok"),
             IF AcceptsReport(app) /\ mcal[i].old /\ ~app.cancelling
               THEN {"compass"} ELSE {})
  /\ UNCHANGED <<acal, mcal, rebooted, faults>>

(* A restart of its own accord; the heartbeats show it later. *)
Restart ==
  /\ Fault("restart")
  /\ acal' = [phase |-> "off", step |-> 0, old |-> FALSE]
  /\ mcal' = [i \in Compasses |-> [phase |-> "off", old |-> FALSE]]
  /\ rebooted' = TRUE /\ uplink' = <<>>
  /\ UNCHANGED <<app, calls, sends, fitted, mute, runs, historyVars>>

NoticeRestart ==
  /\ rebooted
  /\ rebooted' = FALSE
  /\ Deliver(HandleVehicleRestart(app), {})
  /\ UNCHANGED <<acal, mcal, faults>>

HeartbeatGap ==
  /\ Fault("heartbeat gap")
  /\ Deliver(HandleVehicleRestart(app), {})
  /\ UNCHANGED <<acal, mcal, rebooted>>

FallMute ==
  /\ ~mute /\ Fault("mute")
  /\ mute' = TRUE
  /\ UNCHANGED <<app, calls, sends, uplink, acal, mcal, fitted, rebooted, runs,
                 historyVars>>

(* The link drops and is opened again: reset() and the rejected waiters. *)
LinkDrops ==
  /\ Fault("link drop")
  /\ app' = Reset(app)
  /\ calls' = {IF k.result \in Unsettled THEN [k EXCEPT !.result = "closed"]
                                         ELSE k : k \in calls}
  /\ uplink' = <<>> /\ mute' = FALSE /\ rebooted' = FALSE
  /\ UNCHANGED <<sends, acal, mcal, fitted, runs, historyVars>>

(* reconcileCompassCalibrationAvailability, when a completed table shows   *)
(* no enabled compass.                                                     *)
CompassGone ==
  /\ fitted /\ Fault("no compass")
  /\ fitted' = FALSE
  /\ app' = IF Active("compass") THEN FailAction(app, "compass") ELSE app
  /\ UNCHANGED <<calls, sends, uplink, vehicleVars, runs, historyVars>>

-----------------------------------------------------------------------------
Operator ==
  \/ \E a \in Ids : Start(a)
  \/ StartWithoutCompass
  \/ Confirm \/ HoldBegins \/ HoldEnds \/ AutoConfirm
  \/ \E a \in Cancellable : Cancel(a)
  \/ "compass" \in Cancellable /\ CancelCompass

Awaited ==
  \/ \E k \in calls : Expire(k)
  \/ \E x \in sends : Sent(x) \/ SendFails(x)

TimerFires ==
  \/ PromptWatchdogFires \/ PromptFallbackFires \/ StepAdvanceFires
  \/ GuidanceFires \/ ReportWatchdogFires \/ LateWindowCloses

Vehicle ==
  \/ Beat \/ TakeConfirmation
  \/ \E r \in {"accepted", "rejected"}, h \in BOOLEAN : HandleCommand(r, h)
  \/ Prompt \/ PromptText \/ Sentinel
  \/ \E good \in BOOLEAN : SampleEnds(good)
  \/ \E ok, h \in BOOLEAN : Verdict(ok, h)
  \/ CompassText
  \/ \E i \in Compasses : MagProgress(i) \/ MagReport(i)
  \/ \E i \in Compasses, ok \in BOOLEAN : MagEnds(i, ok)

Mishap ==
  \/ NoticeRestart
  \/ Lose \/ Restart \/ HeartbeatGap \/ FallMute \/ LinkDrops
  \/ CompassGone

Next ==
  \/ NoMicrotask /\ (Awaited \/ Mishap)
  \/ NoMicrotask /\ ~Confirming /\ (Operator \/ TimerFires)
  \/ \E k \in calls : Continue(k)
  \/ Vehicle

Spec == Init /\ [][Next]_vars

(* Timers end, promises settle, and an autopilot that is heard goes on     *)
(* sending; nothing is assumed of the operator.                            *)
Fairness ==
  /\ WF_vars(\E k \in calls : Continue(k))
  /\ WF_vars(NoMicrotask /\ \E k \in calls : Expire(k))
  /\ WF_vars(NoMicrotask /\ \E x \in sends : Sent(x))
  /\ WF_vars(NoMicrotask /\ ~Confirming /\ PromptWatchdogFires)
  /\ WF_vars(NoMicrotask /\ ~Confirming /\ GuidanceFires)
  /\ WF_vars(NoMicrotask /\ ~Confirming /\ ReportWatchdogFires)
  /\ WF_vars(TakeConfirmation)
  /\ WF_vars(\E r \in {"accepted", "rejected"}, h \in BOOLEAN : HandleCommand(r, h))
  /\ WF_vars(Sentinel)
  /\ \A i \in Compasses : WF_vars(MagReport(i))
  /\ WF_vars(NoMicrotask /\ NoticeRestart)

FairSpec == Spec /\ Fairness

-----------------------------------------------------------------------------
(* handleCommandLong and handleMagCalReport take a verdict only once the   *)
(* start of this run was acknowledged: the SUCCESS that the autopilot goes *)
(* on repeating for an earlier run never completes an accelerometer or     *)
(* compass calibration that is not being cancelled.                        *)
NoHollowSuccess == hollow = {}

(* The autopilot takes any confirmation for the posture it asks for.  The  *)
(* one it takes was meant for that posture: the step moves with the        *)
(* autopilot's prompts only, and nothing is confirmed twice.               *)
NoMistakenPosture == ~mistaken

(* A running accelerometer calibration has its no-prompt watchdog, and a   *)
(* requested one a call that will settle it: nothing else would ever end   *)
(* the action and the refusal of parameter writes.                         *)
AccelIsWatched ==
  /\ Is(app, "accel", {"running"}) => "prompt watchdog" \in app.timers
  /\ Is(app, "accel", {"requested"}) => \E k \in calls : k.id = "accel"

(* Every action ends unless the autopilot really is calibrating: a lost    *)
(* acknowledgement, verdict or report, a restart or a dead link does not   *)
(* leave parameter writes refused for ever.                                *)
Calibrating(a) ==
  /\ ~mute
  /\ \/ a = "accel" /\ acal.phase \in {"asking", "sampling"}
     \/ a = "compass" /\ \E i \in Compasses : mcal[i].phase = "running"
NoActionIsStranded == \A a \in Ids : []<>(~Active(a) \/ Calibrating(a))
=============================================================================
