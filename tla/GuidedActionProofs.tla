------------------------- MODULE GuidedActionProofs -------------------------
(***************************************************************************)
(* An accelerometer calibration is never left without something that will  *)
(* end it, for every number of postures, compasses, runs and faults.       *)
(*                                                                         *)
(* AccelIsWatched is not inductive by itself.  A confirmation and the      *)
(* warm-up fallback set the action to "running" without arming anything:   *)
(* they are safe because a posture is only ever shown by a calibration     *)
(* that is running (Sound), hence watched already.  The same fact makes    *)
(* the continuation of the start leave no "requested" action behind.       *)
(*                                                                         *)
(* Each handler is a function of the service's fields, so each has a lemma *)
(* of its own: Keeps(c, d) says that d is sound if c is, and that d is     *)
(* not newly "requested".                                                  *)
(*                                                                         *)
(* The second half is about verdicts and postures.  Only the acknowledge-  *)
(* ment tells a run from the one before it, and the autopilot answers the  *)
(* accelerometer's and the level calibration's command alike.  JInv says   *)
(* what holds nevertheless:                                                *)
(*   VerdictInv  an old verdict and an acknowledged start meet only while  *)
(*               the start's own command holds the autopilot (AccelHeld),  *)
(*               or after three runs that share the acknowledgement;       *)
(*   ReportInv   a compass calibration that collects reports has started   *)
(*               every calibrator anew;                                    *)
(*   PostureInv  a posture that can be confirmed, or whose confirmation is *)
(*               on its way, is the one the autopilot asks for, or two     *)
(*               faults and a level calibration are the excuse.            *)
(* AsWas(c, d), like Keeps, is what most handlers have in common: they     *)
(* start nothing, show no posture and open no window.                      *)
(***************************************************************************)
EXTENDS GuidedAction, SequenceTheorems, TLAPS

Sound(c) ==
  /\ Is(c, "accel", {"running"}) => "prompt watchdog" \in c.timers
  /\ c.pose # NoPose => Is(c, "accel", {"running"})

Keeps(c, d) ==
  /\ d \in AppType
  /\ Sound(c) => Sound(d)
  /\ Is(d, "accel", {"requested"}) => Is(c, "accel", {"requested"})

\* What a posture field may hold.
LEMMA PoseTypes ==
  /\ NoPose \in PoseType /\ NoStep \in 0..Postures
  /\ \A s \in Steps, w, p \in BOOLEAN :
       /\ [step |-> s, waiting |-> w, prompted |-> p] \in PoseType
       /\ [step |-> s, waiting |-> w, prompted |-> p] # NoPose
       /\ s \in 0..Postures
BY PosturesAssumption DEF NoPose, NoStep, PoseType, Steps

\* The fields that failAction clears leave a sound service sound, when the
\* posture is dropped with them or the action is not the accelerometer's.
LEMMA FailActionKeeps ==
  ASSUME NEW c \in AppType, NEW a \in Ids, a = "accel" => c.pose = NoPose
  PROVE  Keeps(c, FailAction(c, a))
BY DEF Keeps, Sound, FailAction, AppType, Is, WatchOf, Timers, Statuses, NoPose, NoStep

\* Dropping the posture touches neither the status nor the watchdog.
LEMMA DropPoseKeeps ==
  ASSUME NEW c \in AppType
  PROVE  Keeps(c, DropPose(c)) /\ DropPose(c).pose = NoPose
<1> DEFINE d == DropPose(c)
<1>1. d \in AppType
    BY PoseTypes DEF DropPose, AppType
<1>2. d.status = c.status /\ d.pose = NoPose /\ d.timers = c.timers \ {"prompt fallback"}
    BY DEF DropPose, AppType
<1> QED BY <1>1, <1>2 DEF Keeps, Sound, Is

\* The started calibration is watched.
LEMMA MarkStartedKeeps ==
  ASSUME NEW c \in AppType, "accel" \in Ids
  PROVE  Keeps(c, MarkAccelerometerCalibrationStarted(c))
<1> DEFINE d == MarkAccelerometerCalibrationStarted(c)
<1>1. d \in AppType
    <2>1. [step |-> 0, waiting |-> FALSE, prompted |-> FALSE] \in PoseType
        BY PosturesAssumption DEF PoseType
    <2> QED BY <2>1 DEF MarkAccelerometerCalibrationStarted, AppType, Timers, Statuses
<1>2. d.status["accel"] = "running" /\ "prompt watchdog" \in d.timers
    BY DEF MarkAccelerometerCalibrationStarted, AppType
<1> QED BY <1>1, <1>2 DEF Keeps, Sound, Is

\* Keeps can be chained.
LEMMA KeepsTransitive ==
  ASSUME NEW c, NEW d, NEW e, Keeps(c, d), Keeps(d, e)
  PROVE  Keeps(c, e)
BY DEF Keeps

\* A change of fields that Sound does not mention.
LEMMA OtherFieldsKeep ==
  ASSUME NEW c \in AppType, NEW d \in AppType,
         d.status = c.status \/ ("accel" \in Ids => d.status["accel"] = c.status["accel"]),
         d.pose = c.pose,
         "prompt watchdog" \in c.timers => "prompt watchdog" \in d.timers
  PROVE  Keeps(c, d)
BY DEF Keeps, Sound, Is

\* The verdict "succeeded" drops the posture.
LEMMA CompleteKeeps ==
  ASSUME NEW c \in AppType, "accel" \in Ids
  PROVE  Keeps(c, CompleteAccelerometerCalibration(c))
<1> DEFINE b == DropPose(c)
           d == CompleteAccelerometerCalibration(c)
<1>1. b \in AppType /\ b.pose = NoPose
    BY DropPoseKeeps DEF Keeps
<1> HIDE DEF b
<1>2. d = [b EXCEPT !.status["accel"] = "succeeded", !.cta = FALSE,
                    !.timers = @ \ {"prompt watchdog"}]
    BY DEF CompleteAccelerometerCalibration, b
<1> HIDE DEF d
<1>3. d \in AppType /\ d.pose = NoPose /\ d.status["accel"] = "succeeded"
    BY <1>1, <1>2 DEF AppType, Statuses
<1> QED BY <1>3 DEF Keeps, Sound, Is, d

\* A failed accelerometer calibration has no posture.
LEMMA FailAccelKeeps ==
  ASSUME NEW c \in AppType, "accel" \in Ids
  PROVE  /\ Keeps(c, DropPose(FailAction(c, "accel")))
         /\ Keeps(c, FailAction(DropPose(c), "accel"))
         /\ \A b \in BOOLEAN :
              Keeps(c, FailAction([DropPose(c) EXCEPT !.resumable = b], "accel"))
<1>1. Keeps(c, DropPose(c)) /\ DropPose(c) \in AppType /\ DropPose(c).pose = NoPose
    BY DropPoseKeeps DEF Keeps
<1>2. Keeps(c, FailAction(DropPose(c), "accel"))
    BY <1>1, FailActionKeeps, KeepsTransitive
<1>3. ASSUME NEW b \in BOOLEAN
      PROVE  Keeps(c, FailAction([DropPose(c) EXCEPT !.resumable = b], "accel"))
    <2> DEFINE d == DropPose(c)
               e == [d EXCEPT !.resumable = b]
    <2> HIDE DEF d
    <2>1. e \in AppType /\ e.pose = NoPose /\ e.status = d.status /\ e.timers = d.timers
        BY <1>1 DEF AppType, d
    <2>2. Keeps(d, e)
        BY <1>1, <2>1, OtherFieldsKeep DEF d
    <2>3. Keeps(e, FailAction(e, "accel"))
        BY <2>1, FailActionKeeps
    <2> QED BY <1>1, <2>2, <2>3, KeepsTransitive DEF d
<1>4. Keeps(c, DropPose(FailAction(c, "accel")))
    <2> DEFINE f == FailAction(c, "accel")
    <2>1. f \in AppType /\ f.status["accel"] = "failed"
        BY DEF FailAction, AppType, WatchOf, Statuses
    <2>2. Keeps(f, DropPose(f)) /\ DropPose(f).pose = NoPose
        BY <2>1, DropPoseKeeps
    <2>3. DropPose(f).status = f.status
        BY <2>1 DEF DropPose, AppType
    <2> QED BY <2>1, <2>2, <2>3 DEF Keeps, Sound, Is
<1> QED BY <1>2, <1>3, <1>4

\* handleCommandAck starts or resumes a calibration that is watched.
LEMMA HandleCommandAckKeeps ==
  ASSUME NEW c \in AppType, NEW command
  PROVE  Keeps(c, HandleCommandAck(c, command))
<1>0. Keeps(c, c)
    BY DEF Keeps
<1>1. ASSUME "compass" \in Ids PROVE Keeps(c, MarkCompassCalibrationStarted(c))
    <2>1. MarkCompassCalibrationStarted(c) \in AppType
        BY DEF MarkCompassCalibrationStarted, AppType, Statuses
    <2> QED BY <1>1, <2>1, OtherFieldsKeep DEF MarkCompassCalibrationStarted, AppType
<1>2. ASSUME "accel" \in Ids
      PROVE Keeps(c, MarkAccelerometerCalibrationStarted([c EXCEPT !.resumable = FALSE]))
    <2> DEFINE e == [c EXCEPT !.resumable = FALSE]
    <2>1. e \in AppType /\ e.status = c.status /\ e.timers = c.timers /\ e.pose = c.pose
        BY DEF AppType
    <2>2. Keeps(c, e)
        BY <2>1, OtherFieldsKeep
    <2> HIDE DEF e
    <2>3. Keeps(e, MarkAccelerometerCalibrationStarted(e))
        BY <1>2, <2>1, MarkStartedKeeps
    <2> QED BY <2>2, <2>3, KeepsTransitive DEF e
<1> QED BY <1>0, <1>1, <1>2, MarkStartedKeeps DEF HandleCommandAck, Is, CanResume

\* A prompt shows its posture and re-arms the watchdog.
LEMMA HandlePromptKeeps ==
  ASSUME NEW c \in AppType, NEW s \in Steps
  PROVE  Keeps(c, HandlePrompt(c, s))
<1> DEFINE live == [c EXCEPT !.resumable = @ /\ ~CanResume(c),
                             !.timers = (@ \cup {"prompt watchdog"})
                                          \ {"prompt fallback"}]
           posed == [DropPose(live) EXCEPT
                       !.pose = [step |-> s, waiting |-> FALSE, prompted |-> TRUE]]
<1>0. Keeps(c, c)
    BY DEF Keeps
<1>1. /\ live \in AppType /\ live.status = c.status /\ live.pose = c.pose
      /\ "prompt watchdog" \in live.timers
    <2>1. (c.resumable /\ ~CanResume(c)) \in BOOLEAN
        OBVIOUS
    <2> QED BY <2>1 DEF AppType, Timers
<1>2. Keeps(c, live)
    BY <1>1, OtherFieldsKeep
<1>3. ASSUME Is(c, "accel", {"running"}) \/ CanResume(c)
      PROVE  Keeps(c, ShowPosture(posed))
    <2> DEFINE e == DropPose(live)
    <2>0. "accel" \in Ids
        BY <1>3 DEF Is, CanResume
    <2>1. e \in AppType /\ "prompt watchdog" \in e.timers
        <3> HIDE DEF live
        <3>1. e \in AppType
            BY <1>1, DropPoseKeeps DEF Keeps
        <3>2. e.timers = live.timers \ {"prompt fallback"}
            BY <1>1 DEF DropPose, AppType
        <3> QED BY <1>1, <3>1, <3>2
    <2> HIDE DEF e
    <2>2. /\ posed = [e EXCEPT !.pose = [step |-> s, waiting |-> FALSE, prompted |-> TRUE]]
          /\ [step |-> s, waiting |-> FALSE, prompted |-> TRUE] \in PoseType
        BY PoseTypes DEF e
    <2>3. posed \in AppType /\ "prompt watchdog" \in posed.timers
        BY <2>1, <2>2 DEF AppType
    <2> HIDE DEF posed
    <2>4. /\ ShowPosture(posed) \in AppType
          /\ ShowPosture(posed).status["accel"] = "running"
          /\ "prompt watchdog" \in ShowPosture(posed).timers
        BY <2>0, <2>3 DEF ShowPosture, AppType, Statuses
    <2> QED BY <2>0, <2>4 DEF Keeps, Sound, Is
<1> QED BY <1>0, <1>2, <1>3 DEF HandlePrompt

\* A sentinel ends the calibration with its posture.
LEMMA HandleSentinelKeeps ==
  ASSUME NEW c \in AppType, NEW ok \in BOOLEAN
  PROVE  Keeps(c, HandleSentinel(c, ok))
<1>1. Keeps(c, c)
    BY DEF Keeps
<1> QED BY <1>1, CompleteKeeps, FailAccelKeeps DEF HandleSentinel, AcceptsSentinel, Is

\* Progress and reports are the compass's own.
LEMMA HandleMagCalProgressKeeps ==
  ASSUME NEW c \in AppType
  PROVE  Keeps(c, HandleMagCalProgress(c))
<1>1. HandleMagCalProgress(c) \in AppType
    BY DEF HandleMagCalProgress, AppType, Timers
<1> QED BY <1>1, OtherFieldsKeep DEF HandleMagCalProgress, AppType

LEMMA HandleMagCalReportKeeps ==
  ASSUME NEW c \in AppType, NEW i \in Compasses, NEW ok \in BOOLEAN
  PROVE  Keeps(c, HandleMagCalReport(c, i, ok))
<1> DEFINE r == [c.reports EXCEPT ![i] = IF ok THEN "ok" ELSE "bad"]
           heard == [c EXCEPT !.timers = @ \ {"guidance"}, !.reports = r]
           all == [heard EXCEPT !.timers = @ \ {"report watchdog"},
                                !.reports = NoReports]
           more == [heard EXCEPT !.timers = @ \cup {"report watchdog"}]
           done == [all EXCEPT !.status["compass"] = "succeeded"]
<1>0. Keeps(c, c)
    BY DEF Keeps
<1>1. r \in [Compasses -> {"none", "ok", "bad"}]
    BY DEF AppType
<1> HIDE DEF r
<1>2. /\ heard \in AppType /\ heard.status = c.status /\ heard.pose = c.pose
      /\ heard.timers = c.timers \ {"guidance"}
    BY <1>1 DEF AppType
<1> HIDE DEF heard
<1>3. /\ all \in AppType /\ all.status = c.status /\ all.pose = c.pose
      /\ "prompt watchdog" \in c.timers => "prompt watchdog" \in all.timers
    BY <1>2 DEF AppType, NoReports
<1>4. /\ more \in AppType /\ more.status = c.status /\ more.pose = c.pose
      /\ "prompt watchdog" \in c.timers => "prompt watchdog" \in more.timers
    BY <1>2 DEF AppType, Timers
<1>5. Keeps(c, all) /\ Keeps(c, more)
    BY <1>3, <1>4, OtherFieldsKeep
<1> HIDE DEF all, more
<1>6. ASSUME "compass" \in Ids PROVE Keeps(c, done)
    <2>1. done \in AppType /\ done.pose = all.pose /\ done.timers = all.timers
        BY <1>3 DEF AppType, Statuses
    <2>2. "accel" \in Ids => done.status["accel"] = all.status["accel"]
        BY <1>3 DEF AppType
    <2>3. Keeps(all, done)
        BY <1>3, <2>1, <2>2, OtherFieldsKeep
    <2> QED BY <1>5, <2>3, KeepsTransitive
<1>7. ASSUME "compass" \in Ids PROVE Keeps(c, FailAction(all, "compass"))
    BY <1>3, <1>5, <1>7, FailActionKeeps, KeepsTransitive
<1> HIDE DEF done
<1> QED
    BY <1>0, <1>5, <1>6, <1>7
    DEF HandleMagCalReport, AcceptsReport, Is, r, heard, all, more, done

\* No text asks for "requested".
LEMMA MatchTyped ==
  ASSUME NEW c, NEW a, NEW text
  PROVE  MatchGuidedActionText(c, a, text) \in {"none", "running", "succeeded", "failed"}
BY DEF MatchGuidedActionText

\* A text that ends the accelerometer calibration drops its posture, and one
\* that shows it alive arms its watchdog.
LEMMA ProcessStatusTextKeeps ==
  ASSUME NEW c \in AppType, NEW text
  PROVE  Keeps(c, ProcessStatusText(c, text))
<1> DEFINE next == [a \in Ids |-> MatchGuidedActionText(c, a, text)]
           To(a, set) == a \in Ids /\ next[a] \in set
           ended == {"succeeded", "failed"}
           status == [a \in Ids |-> IF next[a] = "none" THEN c.status[a] ELSE next[a]]
           timers == (c.timers
             \ ((IF To("compass", Statuses) THEN {"guidance"} ELSE {})
                \cup (IF To("compass", ended) THEN {"report watchdog"} ELSE {})
                \cup (IF To("accel", ended) THEN {"prompt watchdog"} ELSE {})))
             \cup (IF To("compass", {"running"}) THEN {"report watchdog"} ELSE {})
             \cup (IF To("accel", {"running"}) THEN {"prompt watchdog"} ELSE {})
           moved == [c EXCEPT !.status = status,
                              !.texted = @ \/ To("compass", Statuses),
                              !.cta = @ /\ ~To("accel", ended),
                              !.timers = timers]
           texted == c.texted \/ To("compass", Statuses)
           cta == c.cta /\ ~To("accel", ended)
<1>1. \A a \in Ids : next[a] \in {"none", "running", "succeeded", "failed"}
    BY MatchTyped
<1>2. ProcessStatusText(c, text) = IF To("accel", ended) THEN DropPose(moved) ELSE moved
    BY DEF ProcessStatusText, AppType
<1> HIDE DEF next
<1>3. status \in [Ids -> Statuses]
    BY <1>1 DEF AppType, Statuses
<1>4. timers \in SUBSET Timers
    BY DEF AppType, Timers
<1>5. texted \in BOOLEAN /\ cta \in BOOLEAN
    OBVIOUS
<1>6. "accel" \in Ids =>
        /\ next["accel"] = "none" => status["accel"] = c.status["accel"]
        /\ next["accel"] # "none" => status["accel"] = next["accel"]
    OBVIOUS
<1>7. /\ To("accel", {"running"}) => "prompt watchdog" \in timers
      /\ ~To("accel", ended) /\ "prompt watchdog" \in c.timers
           => "prompt watchdog" \in timers
    OBVIOUS
<1> HIDE DEF status, timers, texted, cta
<1>8. /\ moved = [c EXCEPT !.status = status, !.texted = texted, !.cta = cta,
                           !.timers = timers]
      /\ moved \in AppType
      /\ moved.status = status /\ moved.timers = timers /\ moved.pose = c.pose
    BY <1>3, <1>4, <1>5 DEF AppType, texted, cta
<1> HIDE DEF moved
<1>9. CASE To("accel", ended)
    <2>1. DropPose(moved) \in AppType /\ DropPose(moved).pose = NoPose
        BY <1>8, DropPoseKeeps DEF Keeps
    <2>2. DropPose(moved).status = status
        BY <1>8 DEF DropPose, AppType
    <2> QED BY <1>2, <1>6, <1>9, <2>1, <2>2 DEF Keeps, Sound, Is
<1>10. CASE ~To("accel", ended)
    <2>1. "accel" \in Ids => next["accel"] \in {"none", "running"}
        BY <1>1, <1>10
    <2> QED BY <1>2, <1>6, <1>7, <1>8, <1>10, <2>1 DEF Keeps, Sound, Is
<1> QED BY <1>9, <1>10

\* A restart ends every active action.
LEMMA HandleVehicleRestartKeeps ==
  ASSUME NEW c \in AppType
  PROVE  Keeps(c, HandleVehicleRestart(c))
<1> DEFINE one(a) == IF ~IsActive(c, a) THEN c.status[a]
                     ELSE IF a = "reboot" THEN "succeeded" ELSE "failed"
           accel == IsActive(c, "accel")
           compass == IsActive(c, "compass")
           dropped == IF accel THEN [DropPose(c) EXCEPT !.resumable = FALSE] ELSE c
           status == [a \in Ids |-> one(a)]
           lost == (IF accel THEN WatchOf("accel") ELSE {})
                     \cup (IF compass THEN WatchOf("compass") ELSE {})
           d == HandleVehicleRestart(c)
<1>1. status \in [Ids -> Statuses]
    BY DEF AppType, Statuses
<1>2. /\ "accel" \in Ids /\ accel => status["accel"] = "failed"
      /\ "accel" \in Ids /\ ~accel => status["accel"] = c.status["accel"]
    OBVIOUS
<1>3. ~accel => "prompt watchdog" \notin lost
    BY DEF WatchOf
<1>4. dropped \in AppType /\ (accel => dropped.pose = NoPose) /\ (~accel => dropped = c)
    <2> DEFINE e == DropPose(c)
    <2>1. e \in AppType /\ e.pose = NoPose
        BY DropPoseKeeps DEF Keeps
    <2> HIDE DEF e
    <2>2. [e EXCEPT !.resumable = FALSE] \in AppType /\ [e EXCEPT !.resumable = FALSE].pose = NoPose
        BY <2>1 DEF AppType
    <2> QED BY <2>2 DEF e
<1>5. d = [dropped EXCEPT !.status = status, !.cta = @ /\ ~accel,
                          !.reports = IF compass THEN NoReports ELSE @,
                          !.timers = @ \ lost]
    BY DEF HandleVehicleRestart
<1>6. IsActive(c, "accel") \in BOOLEAN
    BY DEF IsActive, Is
<1> HIDE DEF status, lost, dropped, d
<1>7. /\ d \in AppType /\ d.status = status /\ d.pose = dropped.pose
      /\ d.timers = dropped.timers \ lost
    <2>1. (dropped.cta /\ ~accel) \in BOOLEAN
        BY <1>6
    <2>2. NoReports \in [Compasses -> {"none", "ok", "bad"}]
        BY DEF NoReports
    <2> HIDE DEF accel, compass
    <2> QED BY <1>1, <1>4, <1>5, <2>1, <2>2 DEF AppType
<1>8. CASE accel
    BY <1>2, <1>4, <1>7, <1>8 DEF Keeps, Sound, Is, d
<1>9. CASE ~accel
    BY <1>2, <1>3, <1>4, <1>7, <1>9 DEF Keeps, Sound, Is, d
<1> QED BY <1>8, <1>9

\* A disconnect leaves every action idle.
LEMMA ResetKeeps ==
  ASSUME NEW c \in AppType
  PROVE  Keeps(c, Reset(c))
<1>1. Reset(c) \in AppType
    BY PoseTypes DEF Reset, AppType, Statuses, NoReports
<1>2. Reset(c).pose = NoPose /\ Reset(c).status = [a \in Ids |-> "idle"]
    BY DEF Reset, AppType
<1> QED BY <1>1, <1>2 DEF Keeps, Sound, Is

\* Back to the first step; the posture is dropped before it.
LEMMA ToIdleKeeps ==
  ASSUME NEW c \in AppType, NEW a \in Ids, a = "accel" => c.pose = NoPose
  PROVE  Keeps(c, ToIdle(c, a))
<1>1. (c.texted /\ a # "compass") \in BOOLEAN /\ (c.cta /\ a # "accel") \in BOOLEAN
    OBVIOUS
<1>2. ToIdle(c, a) \in AppType
    BY <1>1 DEF ToIdle, AppType, Statuses
<1>3. /\ ToIdle(c, a).pose = c.pose /\ ToIdle(c, a).timers = c.timers
      /\ ToIdle(c, a).status = [c.status EXCEPT ![a] = "idle"]
    BY DEF ToIdle, AppType
<1>4. \A b \in Ids : b # a => ToIdle(c, a).status[b] = c.status[b]
    BY <1>3 DEF AppType
<1>5. ToIdle(c, a).status[a] = "idle"
    BY <1>3 DEF AppType
<1> QED BY <1>2, <1>3, <1>4, <1>5 DEF Keeps, Sound, Is

\* The continuation of a start settles the action that waited for it.
LEMMA AfterStartKeeps ==
  ASSUME NEW c \in AppType, NEW k \in CallType, k.id # "cancel"
  PROVE  /\ Keeps(c, AfterStart(c, k))
         /\ Sound(c) /\ k.id = "accel" => ~Is(AfterStart(c, k), "accel", {"requested"})
<1>0. k.id \in Ids
    BY DEF CallType
<1>1. CASE k.id = "accel"
    <2> DEFINE b == (k.result = "timed out")
               f == FailAction([DropPose(c) EXCEPT !.resumable = b], "accel")
    <2>1. b \in BOOLEAN
        OBVIOUS
    <2>2. Keeps(c, f) /\ Keeps(c, MarkAccelerometerCalibrationStarted(c)) /\ Keeps(c, c)
        BY <1>0, <1>1, <2>1, FailAccelKeeps, MarkStartedKeeps DEF Keeps
    <2>3. ~Is(f, "accel", {"requested"})
        <3> DEFINE d == DropPose(c)
                   e == [d EXCEPT !.resumable = b]
        <3>1. d \in AppType
            BY DropPoseKeeps DEF Keeps
        <3> HIDE DEF d, b
        <3>2. e \in AppType
            BY <2>1, <3>1 DEF AppType
        <3> HIDE DEF e
        <3>3. FailAction(e, "accel").status["accel"] = "failed"
            BY <1>0, <1>1, <3>2 DEF FailAction, AppType
        <3> QED BY <3>3 DEF Is, d, e
    <2>4. ~Is(MarkAccelerometerCalibrationStarted(c), "accel", {"requested"})
        BY <1>0, <1>1 DEF MarkAccelerometerCalibrationStarted, AppType, Is
    <2>5. Sound(c) /\ c.pose # NoPose => ~Is(c, "accel", {"requested"})
        BY DEF Sound, Is
    <2>6. AfterStart(c, k) =
            IF ~InProgressIsEnough(k) THEN f
            ELSE IF c.status["accel"] = "requested" /\ c.pose = NoPose
              THEN MarkAccelerometerCalibrationStarted(c)
            ELSE c
        BY <1>1 DEF AfterStart
    <2> HIDE DEF f
    <2> QED BY <2>2, <2>3, <2>4, <2>5, <2>6 DEF Is
<1>2. CASE k.id = "compass"
    <2> DEFINE d == [c EXCEPT !.status["compass"] = "running",
                              !.timers = @ \cup {"guidance"}]
    <2>1. d \in AppType /\ d.pose = c.pose /\ d.timers = c.timers \cup {"guidance"}
        BY <1>0, <1>2 DEF AppType, Statuses, Timers
    <2>2. "accel" \in Ids => d.status["accel"] = c.status["accel"]
        BY DEF AppType
    <2>3. Keeps(c, d) /\ Keeps(c, FailAction(c, k.id))
        BY <1>0, <1>2, <2>1, <2>2, OtherFieldsKeep, FailActionKeeps
    <2>4. AfterStart(c, k) = IF InProgressIsEnough(k) THEN d ELSE FailAction(c, k.id)
        BY <1>2 DEF AfterStart
    <2> QED BY <1>2, <2>3, <2>4
<1>3. CASE k.id \notin {"accel", "compass"}
    <2> DEFINE d == [c EXCEPT !.status[k.id] = "succeeded"]
    <2>1. d \in AppType /\ d.pose = c.pose /\ d.timers = c.timers
        BY <1>0 DEF AppType, Statuses
    <2>2. "accel" \in Ids => d.status["accel"] = c.status["accel"]
        BY <1>3 DEF AppType
    <2>3. Keeps(c, d) /\ Keeps(c, FailAction(c, k.id))
        BY <1>0, <1>3, <2>1, <2>2, OtherFieldsKeep, FailActionKeeps
    <2>4. AfterStart(c, k) = d \/ AfterStart(c, k) = FailAction(c, k.id)
        BY <1>3 DEF AfterStart
    <2> QED BY <1>3, <2>3, <2>4
<1> QED BY <1>0, <1>1, <1>2, <1>3

\* The continuation of a cancel is about the compass.
LEMMA AfterCancelKeeps ==
  ASSUME NEW c \in AppType, NEW k, "compass" \in Ids
  PROVE  Keeps(c, AfterCancel(c, k))
<1> DEFINE e == IF Accepted(k) THEN ToIdle(c, "compass") ELSE FailAction(c, "compass")
           d == [e EXCEPT !.cancelling = FALSE]
<1>1. Keeps(c, e) /\ e \in AppType
    BY ToIdleKeeps, FailActionKeeps DEF Keeps
<1>2. AfterCancel(c, k) = d
    BY DEF AfterCancel
<1> HIDE DEF e
<1>3. d \in AppType /\ d.status = e.status /\ d.pose = e.pose /\ d.timers = e.timers
    BY <1>1 DEF AppType
<1>4. Keeps(e, d)
    BY <1>1, <1>3, OtherFieldsKeep
<1> QED BY <1>1, <1>2, <1>4, KeepsTransitive

-----------------------------------------------------------------------------
(* The inductive invariant. *)

RestType ==
  /\ calls \subseteq CallType
  /\ sends \subseteq [step: 0..Postures, auto: BOOLEAN]
  /\ uplink \in Seq(PacketType)
  /\ acal \in [phase: {"off", "asking", "sampling", "ok", "bad"},
               step: Steps, old: BOOLEAN]
  /\ mcal \in [Compasses -> [phase: {"off", "running", "ok", "bad"},
                             old: BOOLEAN]]
  /\ fitted \in BOOLEAN /\ mute \in BOOLEAN /\ rebooted \in BOOLEAN
  /\ runs \in 0..MaxRuns /\ faults \in 0..MaxFaults
  /\ hollow \subseteq {"accel", "compass"} /\ mistaken \in BOOLEAN

AccelAwaited == \E k \in calls : k.id = "accel"
Waits == Is(app, "accel", {"requested"}) => AccelAwaited
Anchors ==
  /\ (\E k \in calls : k.id = "cancel") => "compass" \in Ids
  /\ sends # {} => "accel" \in Ids

IInv == app \in AppType /\ RestType /\ Sound(app) /\ Waits /\ Anchors

\* A service that was just constructed watches nothing.
LEMMA InitInv == Init => IInv
<1> SUFFICES ASSUME Init PROVE IInv
    OBVIOUS
<1>1. app \in AppType
    BY PoseTypes DEF Init, AppType, Statuses, NoReports
<1>2. RestType
    <2>1. acal \in [phase: {"off", "asking", "sampling", "ok", "bad"},
                   step: Steps, old: BOOLEAN]
        BY PosturesAssumption DEF Init, Steps
    <2>2. mcal \in [Compasses -> [phase: {"off", "running", "ok", "bad"},
                                 old: BOOLEAN]]
        BY DEF Init
    <2>3. uplink \in Seq(PacketType)
        BY DEF Init
    <2>4. calls = {} /\ sends = {} /\ fitted /\ ~mute /\ ~rebooted /\ hollow = {}
        BY DEF Init
    <2>5. fitted \in BOOLEAN /\ mute \in BOOLEAN /\ rebooted \in BOOLEAN /\ mistaken \in BOOLEAN
        BY DEF Init
    <2>6. runs \in 0..MaxRuns /\ faults \in 0..MaxFaults
        BY BoundsAssumption DEF Init
    <2> QED BY <2>1, <2>2, <2>3, <2>4, <2>5, <2>6 DEF RestType
<1>3. Sound(app) /\ Waits /\ Anchors
    BY DEF Init, Sound, Waits, Anchors, Is
<1> QED BY <1>1, <1>2, <1>3 DEF IInv

\* What an action has to show: its handler keeps the service sound, and the
\* call a requested calibration waits for is not lost.
LEMMA StepInv ==
  ASSUME IInv, Keeps(app, app'), RestType', Anchors',
         AccelAwaited => AccelAwaited' \/ ~Is(app', "accel", {"requested"})
  PROVE  IInv'
BY DEF IInv, Keeps, Sound, Waits, Is

\* The same, when the calls and confirmations that are awaited do not change.
LEMMA QuietInv ==
  ASSUME IInv, Keeps(app, app'), RestType', UNCHANGED <<calls, sends>>
  PROVE  IInv'
<1>1. Anchors' /\ (AccelAwaited => AccelAwaited')
    BY DEF IInv, Anchors, AccelAwaited
<1> QED BY <1>1, StepInv

\* A packet that is sent is one of its type.
LEMMA Packets ==
  ASSUME RestType, NEW id \in Ids \cup {"cancel", "confirm"},
         NEW run \in 0..MaxRuns, NEW step \in 0..Postures
  PROVE  Append(uplink, Packet(id, run, step)) \in Seq(PacketType)
BY DEF RestType, Packet, PacketType

\* A confirmation is awaited by a calibration that is running already.
LEMMA AdvanceInv ==
  ASSUME IInv, NEW auto \in BOOLEAN, app.pose # NoPose, Advance(auto)
  PROVE  IInv'
<1>0. Is(app, "accel", {"running"}) /\ app \in AppType
    BY DEF IInv, Sound
<1> DEFINE p == [step |-> app.pose.step, waiting |-> FALSE, prompted |-> FALSE]
<1>1. app.pose.step \in 0..Postures /\ p \in PoseType
    BY <1>0 DEF AppType, PoseType
<1>2. app' \in AppType
    BY <1>0, <1>1, PoseTypes DEF Advance, AppType, Statuses
<1>3. app'.status["accel"] = "running" /\ app'.timers = app.timers \ {"prompt fallback"}
    BY <1>0 DEF Advance, AppType, Is
<1>4. Keeps(app, app')
    BY <1>0, <1>2, <1>3 DEF Keeps, Sound, Is
<1>5. uplink' \in Seq(PacketType)
    BY <1>1, Packets, BoundsAssumption DEF Advance, IInv
<1>6. RestType'
    BY <1>1, <1>5 DEF Advance, IInv, RestType, vehicleVars, historyVars
<1>7. Anchors' /\ calls' = calls
    BY <1>0 DEF Advance, IInv, Anchors, Is
<1> QED BY <1>4, <1>6, <1>7, StepInv DEF AccelAwaited

\* What the operator does.
LEMMA OperatorInv ==
  ASSUME IInv, Operator
  PROVE  IInv'
<1> USE DEF IInv
<1>1. ASSUME NEW a \in Ids, Start(a) PROVE IInv'
    <2> DEFINE d == Request(app, a)
    <2>1. /\ (app.cta /\ a # "accel") \in BOOLEAN
          /\ (app.resumable /\ a # "accel") \in BOOLEAN
          /\ (app.texted /\ a # "compass") \in BOOLEAN
          /\ NoReports \in [Compasses -> {"none", "ok", "bad"}]
        BY DEF NoReports
    <2>2. d \in AppType
        BY <2>1 DEF Request, AppType, Statuses
    <2>3. /\ d.pose = app.pose /\ d.status = [app.status EXCEPT ![a] = "requested"]
          /\ "prompt watchdog" \in app.timers => "prompt watchdog" \in d.timers
        BY DEF Request, AppType, WatchOf
    <2>4. /\ d.status[a] = "requested"
          /\ \A b \in Ids : b # a => d.status[b] = app.status[b]
        BY <2>3 DEF AppType
    <2>5. ~Is(app, "accel", {"running"}) \/ a # "accel"
        BY <1>1 DEF Start, Active, IsActive, Is
    <2>6. app' = d /\ Sound(d)
        BY <1>1, <2>3, <2>4, <2>5 DEF Start, Sound, Is
    <2>7. runs + 1 \in 0..MaxRuns /\ runs' = runs + 1
        BY <1>1, BoundsAssumption DEF Start, RestType
    <2>8. /\ calls' = calls \cup {[id |-> a, run |-> runs + 1, result |-> "pending"]}
          /\ [id |-> a, run |-> runs + 1, result |-> "pending"] \in CallType
        BY <1>1, <2>7 DEF Start, SendAndWait, CallType, Results
    <2>9. uplink' \in Seq(PacketType)
        BY <1>1, <2>7, Packets, PoseTypes DEF Start, SendAndWait
    <2>10. acal' \in [phase: {"off", "asking", "sampling", "ok", "bad"},
                      step: Steps, old: BOOLEAN]
        BY <1>1 DEF Start, Age, RestType
    <2>11. mcal' \in [Compasses -> [phase: {"off", "running", "ok", "bad"},
                                    old: BOOLEAN]]
        <3>1. mcal \in [Compasses -> [phase: {"off", "running", "ok", "bad"},
                                      old: BOOLEAN]]
            BY DEF RestType
        <3> QED BY <1>1, <3>1 DEF Start, Age
    <2>12. RestType'
        BY <1>1, <2>7, <2>8, <2>9, <2>10, <2>11 DEF Start, RestType
    <2>13. Anchors'
        BY <1>1, <2>8, IdsAssumption DEF Start, Anchors
    <2>14. Waits'
        <3>1. a = "accel" => AccelAwaited'
            BY <2>8 DEF AccelAwaited
        <3>2. AccelAwaited => AccelAwaited'
            BY <2>8 DEF AccelAwaited
        <3> QED BY <2>4, <2>6, <3>1, <3>2 DEF Waits, Is
    <2> QED BY <2>2, <2>6, <2>12, <2>13, <2>14 DEF Sound, Is
<1>2. CASE StartWithoutCompass
    <2>1. Keeps(app, app')
        BY <1>2, FailActionKeeps DEF StartWithoutCompass
    <2>2. RestType' /\ UNCHANGED <<calls, sends>>
        BY <1>2 DEF StartWithoutCompass, RestType, vehicleVars, historyVars
    <2> QED BY <2>1, <2>2, QuietInv
<1>3. CASE Confirm
    BY <1>3, AdvanceInv DEF Confirm
<1>4. CASE HoldBegins
    <2>1. app.pose.step \in 0..Postures
        BY DEF AppType, PoseType
    <2>2. app' \in AppType
        BY <1>4, <2>1 DEF HoldBegins, AppType
    <2>3. Keeps(app, app')
        BY <1>4, <2>2, OtherFieldsKeep DEF HoldBegins, AppType
    <2>4. RestType' /\ UNCHANGED <<calls, sends>>
        BY <1>4 DEF HoldBegins, RestType, vehicleVars, historyVars
    <2> QED BY <2>3, <2>4, QuietInv
<1>5. CASE HoldEnds
    <2>1. app' \in AppType
        BY <1>5, PoseTypes DEF HoldEnds, AppType
    <2>2. Keeps(app, app')
        BY <1>5, <2>1, OtherFieldsKeep DEF HoldEnds, AppType
    <2>3. RestType' /\ UNCHANGED <<calls, sends>>
        BY <1>5 DEF HoldEnds, RestType, vehicleVars, historyVars
    <2> QED BY <2>2, <2>3, QuietInv
<1>6. CASE AutoConfirm
    BY <1>6, AdvanceInv DEF AutoConfirm, AutoConfirmable
<1>7. ASSUME NEW a \in Cancellable, Cancel(a) PROVE IInv'
    <2>0. a \in Ids
        BY IdsAssumption
    <2> DEFINE b == DropPose(app)
               e == [b EXCEPT !.resumable = FALSE,
                              !.timers = @ \ {"prompt watchdog", "prompt fallback"}]
    <2>1. b \in AppType /\ b.pose = NoPose
        BY DropPoseKeeps DEF Keeps
    <2> HIDE DEF b
    <2>2. e \in AppType /\ e.pose = NoPose
        BY <2>1 DEF AppType
    <2>3. CASE a = "accel"
        <3> HIDE DEF e
        <3>1. app' = ToIdle(e, a) /\ ToIdle(e, a) \in AppType
            BY <1>7, <2>0, <2>2, <2>3, ToIdleKeeps DEF Cancel, Keeps, e, b
        <3>2. app'.status["accel"] = "idle" /\ app'.pose = NoPose
            BY <2>0, <2>2, <2>3, <3>1 DEF ToIdle, AppType
        <3> QED
            <4>1. Keeps(app, app')
                BY <3>1, <3>2 DEF Keeps, Sound, Is
            <4>2. RestType' /\ UNCHANGED <<calls, sends>>
                BY <1>7 DEF Cancel, RestType, vehicleVars, historyVars
            <4> QED BY <4>1, <4>2, QuietInv
    <2>4. CASE a # "accel"
        <3>1. Keeps(app, app')
            BY <1>7, <2>0, <2>4, ToIdleKeeps DEF Cancel
        <3>2. RestType' /\ UNCHANGED <<calls, sends>>
            BY <1>7 DEF Cancel, RestType, vehicleVars, historyVars
        <3> QED BY <3>1, <3>2, QuietInv
    <2> QED BY <2>3, <2>4
<1>8. CASE CancelCompass
    <2>0. "compass" \in Ids
        BY <1>8 DEF CancelCompass, Active, IsActive, Is
    <2>1. NoReports \in [Compasses -> {"none", "ok", "bad"}]
        BY DEF NoReports
    <2>2. app' \in AppType
        BY <1>8, <2>1 DEF CancelCompass, AppType, Statuses
    <2>3. /\ app'.pose = app.pose
          /\ "prompt watchdog" \in app.timers => "prompt watchdog" \in app'.timers
          /\ "accel" \in Ids => app'.status["accel"] = app.status["accel"]
        BY <1>8 DEF CancelCompass, AppType, WatchOf
    <2>4. Keeps(app, app')
        BY <2>2, <2>3, OtherFieldsKeep
    <2>5. runs \in 0..MaxRuns
        BY DEF RestType
    <2>6. /\ calls' = calls \cup {[id |-> "cancel", run |-> runs, result |-> "pending"]}
          /\ [id |-> "cancel", run |-> runs, result |-> "pending"] \in CallType
        BY <1>8, <2>5 DEF CancelCompass, SendAndWait, CallType, Results
    <2>7. uplink' \in Seq(PacketType)
        BY <1>8, <2>5, Packets, PoseTypes DEF CancelCompass, SendAndWait
    <2>8. RestType'
        BY <1>8, <2>6, <2>7 DEF CancelCompass, RestType, vehicleVars, historyVars
    <2>9. Anchors' /\ (AccelAwaited => AccelAwaited')
        BY <1>8, <2>0, <2>6 DEF CancelCompass, Anchors, AccelAwaited
    <2> QED BY <2>4, <2>8, <2>9, StepInv
<1> QED BY <1>1, <1>2, <1>3, <1>4, <1>5, <1>6, <1>7, <1>8 DEF Operator

\* A fault that happens is within the bound.
LEMMA FaultCount ==
  ASSUME RestType, NEW kind, Fault(kind)
  PROVE  faults' \in 0..MaxFaults
BY BoundsAssumption DEF RestType, Fault

\* Removing a settled call: a start settles the action that waited for it.
LEMMA SettleInv ==
  ASSUME IInv, NEW k \in calls, NEW result \in Results, Settle(k, result)
  PROVE  IInv'
<1> USE DEF IInv
<1> DEFINE done == [k EXCEPT !.result = result]
<1>0. k \in CallType
    BY DEF RestType
<1>1. done \in CallType /\ done.id = k.id
    BY <1>0 DEF CallType
<1> HIDE DEF done
<1>2. RestType' /\ sends' = sends /\ calls' = calls \ {k}
    BY DEF Settle, RestType, vehicleVars, historyVars
<1>3. Anchors'
    BY <1>2 DEF Anchors
<1>4. CASE k.id = "cancel"
    <2>1. "compass" \in Ids
        BY <1>4 DEF Anchors
    <2>2. Keeps(app, app')
        BY <1>4, <2>1, AfterCancelKeeps DEF Settle, done
    <2>3. AccelAwaited => AccelAwaited'
        BY <1>2, <1>4 DEF AccelAwaited
    <2> QED BY <1>2, <1>3, <2>2, <2>3, StepInv
<1>5. CASE k.id # "cancel"
    <2>1. app' = AfterStart(app, done)
        BY <1>5 DEF Settle, done
    <2>2. Keeps(app, app') /\ (k.id = "accel" => ~Is(app', "accel", {"requested"}))
        BY <1>1, <1>5, <2>1, AfterStartKeeps
    <2>3. k.id # "accel" /\ AccelAwaited => AccelAwaited'
        BY <1>2 DEF AccelAwaited
    <2> QED BY <1>2, <1>3, <2>2, <2>3, StepInv
<1> QED BY <1>4, <1>5

\* The continuations of what the service awaits.
LEMMA AwaitedInv ==
  ASSUME IInv, Awaited \/ \E k \in calls : Continue(k)
  PROVE  IInv'
<1>1. ASSUME NEW k \in calls, Continue(k) PROVE IInv'
    <2>1. k.result \in Results
        BY DEF IInv, RestType, CallType
    <2> QED BY <1>1, <2>1, SettleInv DEF Continue
<1>2. ASSUME NEW k \in calls, Expire(k) PROVE IInv'
    <2>1. (IF k.result = "noted" THEN "in progress" ELSE "timed out") \in Results
        BY DEF Results
    <2> QED BY <1>2, <2>1, SettleInv DEF Expire
<1>3. ASSUME NEW x \in sends, Sent(x) PROVE IInv'
    <2>1. x.step \in 0..Postures
        BY DEF IInv, RestType
    <2>2. app' \in AppType
        BY <1>3, <2>1, PoseTypes DEF IInv, Sent, AppType
    <2>3. Keeps(app, app')
        BY <1>3, <2>2, OtherFieldsKeep DEF IInv, Sent, AppType
    <2>4. RestType'
        BY <1>3 DEF IInv, Sent, RestType, vehicleVars, historyVars
    <2>5. Anchors' /\ (AccelAwaited => AccelAwaited')
        BY <1>3 DEF IInv, Sent, Anchors, AccelAwaited
    <2> QED BY <2>3, <2>4, <2>5, StepInv
<1>4. ASSUME NEW x \in sends, SendFails(x) PROVE IInv'
    <2>0. "accel" \in Ids
        BY DEF IInv, Anchors
    <2>1. Keeps(app, app')
        BY <1>4, <2>0, FailAccelKeeps DEF IInv, SendFails
    <2>2. uplink' \in Seq(PacketType)
        <3>1. uplink \in Seq(PacketType)
            BY DEF IInv, RestType
        <3>2. CASE uplink # <<>> /\ uplink[Len(uplink)].id = "confirm"
            <4>1. uplink' = SubSeq(uplink, 1, Len(uplink) - 1)
                BY <1>4, <3>2 DEF SendFails
            <4>2. \A i \in 1..(Len(uplink) - 1) : uplink[i] \in PacketType
                BY <3>1
            <4>3. Len(uplink) \in Nat /\ Len(uplink) # 0
                BY <3>1, <3>2
            <4> QED BY <3>1, <4>1, <4>2, <4>3, SubSeqProperties
        <3>3. CASE ~(uplink # <<>> /\ uplink[Len(uplink)].id = "confirm")
            BY <1>4, <3>1, <3>3 DEF SendFails
        <3> QED BY <3>2, <3>3
    <2>3. RestType'
        <3>1. faults' \in 0..MaxFaults
            BY <1>4, FaultCount DEF IInv, SendFails
        <3> QED BY <1>4, <2>2, <3>1 DEF IInv, SendFails, RestType, vehicleVars, historyVars
    <2>4. Anchors' /\ (AccelAwaited => AccelAwaited')
        BY <1>4, <2>0 DEF IInv, SendFails, Anchors, AccelAwaited
    <2> QED BY <2>1, <2>3, <2>4, StepInv
<1> QED BY <1>1, <1>2, <1>3, <1>4 DEF Awaited

\* A timer other than the watchdog is disarmed without harm; the watchdog
\* once the calibration is not running.
LEMMA DisarmKeeps ==
  ASSUME NEW c \in AppType, NEW t \in Timers,
         t = "prompt watchdog" => ~Is(c, "accel", {"running"})
  PROVE  Keeps(c, Disarm(c, t))
<1>1. /\ Disarm(c, t) \in AppType /\ Disarm(c, t).status = c.status
      /\ Disarm(c, t).pose = c.pose /\ Disarm(c, t).timers = c.timers \ {t}
    BY DEF Disarm, AppType
<1> QED BY <1>1 DEF Keeps, Sound, Is

\* What the timers do.
LEMMA TimerInv ==
  ASSUME IInv, TimerFires
  PROVE  IInv'
<1>0. app \in AppType /\ Sound(app) /\ RestType
    BY DEF IInv
<1>1. CASE PromptWatchdogFires
    <2>1. Keeps(app, app')
        <3>1. CASE Is(app, "accel", {"running"})
            BY <1>0, <1>1, <3>1, FailAccelKeeps DEF PromptWatchdogFires, Is
        <3>2. CASE ~Is(app, "accel", {"running"})
            BY <1>0, <1>1, <3>2, DisarmKeeps DEF PromptWatchdogFires, Timers
        <3> QED BY <3>1, <3>2
    <2>2. RestType' /\ UNCHANGED <<calls, sends>>
        BY <1>0, <1>1 DEF PromptWatchdogFires, Armed, RestType, vehicleVars, historyVars
    <2> QED BY <2>1, <2>2, QuietInv
<1>2. CASE PromptFallbackFires
    <2> DEFINE d == Disarm(app, "prompt fallback")
    <2>1. Keeps(app, d) /\ d \in AppType /\ d.pose = app.pose
        BY <1>0, DisarmKeeps DEF Keeps, Timers, Disarm, AppType
    <2>2. app.pose.step = 0 => app.pose # NoPose /\ Is(app, "accel", {"running"})
        <3>1. NoPose.step # 0
            BY PosturesAssumption DEF NoPose, NoStep
        <3>2. app.pose.step = 0 => app.pose # NoPose
            BY <3>1
        <3> QED BY <1>0, <3>2 DEF Sound
    <2>3. ASSUME app.pose.step = 0 PROVE Keeps(app, ShowPosture(d))
        <3>1. Sound(d) /\ "accel" \in Ids /\ d.pose # NoPose
            BY <1>0, <2>1, <2>2, <2>3 DEF Keeps, Is
        <3> HIDE DEF d
        <3>2. /\ ShowPosture(d) \in AppType /\ ShowPosture(d).status["accel"] = "running"
              /\ ShowPosture(d).timers = d.timers /\ ShowPosture(d).pose = d.pose
            BY <2>1, <3>1 DEF ShowPosture, AppType, Statuses
        <3> QED BY <3>1, <3>2 DEF Keeps, Sound, Is
    <2>4. Keeps(app, app')
        BY <1>2, <2>1, <2>3 DEF PromptFallbackFires
    <2>5. RestType' /\ UNCHANGED <<calls, sends>>
        BY <1>0, <1>2 DEF PromptFallbackFires, Armed, RestType, vehicleVars, historyVars
    <2> QED BY <2>4, <2>5, QuietInv
<1>3. CASE StepAdvanceFires
    <2> DEFINE mine == app.pose.step = app.advance /\ Is(app, "accel", {"running"})
               cta == app.cta /\ ~mine
               pose == IF mine /\ app.pose.step = Postures - 1
                         THEN [app.pose EXCEPT !.waiting = TRUE, !.prompted = FALSE]
                         ELSE app.pose
    <2>1. app' = [app EXCEPT !.advance = NoStep, !.cta = cta, !.pose = pose]
        BY <1>0, <1>3 DEF StepAdvanceFires, AppType
    <2>2. cta \in BOOLEAN
        BY DEF Is
    <2>3. pose \in PoseType /\ (pose # app.pose => Is(app, "accel", {"running"}))
        BY <1>0 DEF AppType, PoseType
    <2> HIDE DEF cta, pose, mine
    <2>4. /\ app' \in AppType /\ app'.status = app.status /\ app'.timers = app.timers
          /\ app'.pose = pose
        BY <1>0, <2>1, <2>2, <2>3, PoseTypes DEF AppType
    <2>5. Keeps(app, app')
        BY <1>0, <2>3, <2>4 DEF Keeps, Sound, Is
    <2>6. RestType' /\ UNCHANGED <<calls, sends>>
        BY <1>0, <1>3 DEF StepAdvanceFires, RestType, vehicleVars, historyVars
    <2> QED BY <2>5, <2>6, QuietInv
<1>4. ASSUME GuidanceFires \/ ReportWatchdogFires PROVE IInv'
    <2>0. Append(uplink, Packet("cancel", 0, NoStep)) \in Seq(PacketType)
        <3>1. 0 \in 0..MaxRuns /\ NoStep \in 0..Postures
            BY PoseTypes, BoundsAssumption
        <3> QED BY <1>0, <3>1, Packets
    <2> DEFINE e == [app EXCEPT !.reports = NoReports]
    <2>1. e \in AppType /\ e.status = app.status /\ e.timers = app.timers /\ e.pose = app.pose
        BY <1>0 DEF AppType, NoReports
    <2>2. Keeps(app, e)
        BY <1>0, <2>1, OtherFieldsKeep
    <2> HIDE DEF e
    <2>3. "compass" \in Ids => Keeps(app, FailAction(app, "compass"))
                                /\ Keeps(app, FailAction(e, "compass"))
        BY <1>0, <2>1, <2>2, FailActionKeeps, KeepsTransitive
    <2>4. Keeps(app, Disarm(app, "guidance")) /\ Keeps(app, Disarm(app, "report watchdog"))
        BY <1>0, DisarmKeeps DEF Timers
    <2>5. Keeps(app, app')
        BY <1>4, <2>3, <2>4
        DEF GuidanceFires, ReportWatchdogFires, Active, IsActive, Is, e
    <2>6. uplink' \in Seq(PacketType)
        BY <1>0, <1>4, <2>0 DEF GuidanceFires, ReportWatchdogFires, CancelOnboard, RestType
    <2>7. RestType' /\ UNCHANGED <<calls, sends>>
        BY <1>0, <1>4, <2>6
        DEF GuidanceFires, ReportWatchdogFires, Armed, RestType, vehicleVars, historyVars
    <2> QED BY <2>5, <2>7, QuietInv
<1>5. CASE LateWindowCloses
    <2>1. app' \in AppType
        BY <1>0, <1>5 DEF LateWindowCloses, AppType
    <2>2. Keeps(app, app')
        BY <1>0, <1>5, <2>1, OtherFieldsKeep DEF LateWindowCloses, AppType
    <2>3. RestType' /\ UNCHANGED <<calls, sends>>
        BY <1>0, <1>5 DEF LateWindowCloses, RestType, vehicleVars, historyVars
    <2> QED BY <2>2, <2>3, QuietInv
<1> QED BY <1>1, <1>2, <1>3, <1>4, <1>5 DEF TimerFires

\* An acknowledgement answers the calls that wait for it; none is lost.
LEMMA AnswerKept ==
  ASSUME IInv, NEW command, NEW result \in Results, calls' = Answer(command, result)
  PROVE  /\ calls' \subseteq CallType
         /\ \A id : (\E k \in calls' : k.id = id) <=> (\E k \in calls : k.id = id)
<1> DEFINE to(k) == IF Command(k.id) = command /\ k.result \in Unsettled
                      THEN [k EXCEPT !.result = result] ELSE k
<1>1. \A k \in calls : to(k) \in CallType /\ to(k).id = k.id
    BY DEF IInv, RestType, CallType
<1>2. calls' = {to(k) : k \in calls}
    BY DEF Answer
<1> HIDE DEF to
<1> QED BY <1>1, <1>2

\* The same for calls that a closed link rejects.
LEMMA ClosedKept ==
  ASSUME IInv, calls' = {IF k.result \in Unsettled THEN [k EXCEPT !.result = "closed"]
                                                   ELSE k : k \in calls}
  PROVE  /\ calls' \subseteq CallType
         /\ \A id : (\E k \in calls' : k.id = id) <=> (\E k \in calls : k.id = id)
<1> DEFINE to(k) == IF k.result \in Unsettled THEN [k EXCEPT !.result = "closed"] ELSE k
<1>1. \A k \in calls : to(k) \in CallType /\ to(k).id = k.id
    BY DEF IInv, RestType, CallType, Results
<1> HIDE DEF to
<1>2. calls' = {to(k) : k \in calls}
    BY DEF to
<1> QED BY <1>1, <1>2

\* A message the service handles changes only its fields and the history.
LEMMA DeliverInv ==
  ASSUME IInv, NEW next, NEW taken \in SUBSET {"accel", "compass"}, Deliver(next, taken),
         Keeps(app, next),
         acal' \in [phase: {"off", "asking", "sampling", "ok", "bad"},
                    step: Steps, old: BOOLEAN],
         UNCHANGED mcal, rebooted' \in BOOLEAN, faults' \in 0..MaxFaults
  PROVE  IInv'
<1>1. Keeps(app, app') /\ UNCHANGED <<calls, sends>>
    BY DEF Deliver
<1>2. RestType'
    BY DEF Deliver, IInv, RestType
<1> QED BY <1>1, <1>2, QuietInv

\* What the autopilot sends and does.
LEMMA VehicleInv ==
  ASSUME IInv, Vehicle
  PROVE  IInv'
<1> DEFINE AType == [phase: {"off", "asking", "sampling", "ok", "bad"},
                     step: Steps, old: BOOLEAN]
           MType == [Compasses -> [phase: {"off", "running", "ok", "bad"}, old: BOOLEAN]]
<1>0. /\ app \in AppType /\ RestType /\ acal \in AType /\ mcal \in MType
      /\ faults \in 0..MaxFaults /\ rebooted \in BOOLEAN
    BY DEF IInv, RestType
<1>1. CASE Beat
    <2>1. "noted" \in Results /\ calls' = Answer(Command(Head(uplink).id), "noted")
        BY <1>1 DEF Beat, Results
    <2>2. uplink' \in Seq(PacketType)
        <3>1. uplink \in Seq(PacketType) /\ uplink # <<>>
            BY <1>0, <1>1 DEF Beat, CommandAhead, RestType
        <3>2. [uplink[1] EXCEPT !.beat = TRUE] \in PacketType
            <4>1. uplink[1] \in PacketType
                BY <3>1
            <4> QED BY <4>1 DEF PacketType
        <3>3. uplink' = [uplink EXCEPT ![1] = [uplink[1] EXCEPT !.beat = TRUE]]
            BY <1>1 DEF Beat
        <3> QED BY <3>1, <3>2, <3>3
    <2>3. RestType'
        BY <1>0, <1>1, <2>1, <2>2, AnswerKept DEF Beat, RestType, vehicleVars, historyVars
    <2>4. Anchors' /\ (AccelAwaited => AccelAwaited')
        BY <1>1, <2>1, AnswerKept DEF Beat, IInv, Anchors, AccelAwaited
    <2>5. Keeps(app, app')
        BY <1>0, <1>1 DEF Beat, Keeps, Sound, Is
    <2> QED BY <2>3, <2>4, <2>5, StepInv
<1>2. ASSUME NEW result \in {"accepted", "rejected"}, NEW heard \in BOOLEAN,
             HandleCommand(result, heard)
      PROVE  IInv'
    <2> DEFINE id == Head(uplink).id
    <2>1. result \in Results /\ CommandAhead
        BY <1>2 DEF Results, HandleCommand
    <2>2. /\ calls' = Answer(Command(id), result) \/ calls' = calls
          /\ sends' = sends
        BY <1>2 DEF HandleCommand
    <2>3. /\ calls' \subseteq CallType
          /\ \A i : (\E k \in calls' : k.id = i) <=> (\E k \in calls : k.id = i)
        BY <1>0, <2>1, <2>2, AnswerKept DEF RestType
    <2>4. Tail(uplink) \in Seq(PacketType) /\ <<>> \in Seq(PacketType)
        BY <1>0, <2>1 DEF RestType, CommandAhead
    <2>5. uplink' \in Seq(PacketType)
        BY <1>2, <2>4 DEF HandleCommand, Obey
    <2>6. acal' \in AType
        <3>1. /\ 0 \in Steps
              /\ [phase |-> "off", step |-> 0, old |-> FALSE] \in AType
              /\ [phase |-> "asking", step |-> 0, old |-> FALSE] \in AType
            BY PosturesAssumption DEF Steps
        <3>2. \/ acal' = acal
              \/ acal' = [phase |-> "off", step |-> 0, old |-> FALSE]
              \/ acal' = [phase |-> "asking", step |-> 0, old |-> FALSE]
            BY <1>2 DEF HandleCommand, Obey
        <3> QED BY <1>0, <3>1, <3>2
    <2>7. mcal' \in MType
        <3>1. CASE mcal' = mcal
            BY <1>0, <3>1
        <3>2. CASE mcal' = [i \in Compasses |-> [phase |-> "off", old |-> FALSE]]
            BY <3>2
        <3>3. CASE mcal' = [i \in Compasses |-> [phase |-> "running", old |-> FALSE]]
            BY <3>3
        <3> QED BY <1>2, <3>1, <3>2, <3>3 DEF HandleCommand, Obey
    <2>8. rebooted' \in BOOLEAN
        BY <1>0, <1>2 DEF HandleCommand, Obey
    <2>9. faults' \in 0..MaxFaults
        BY <1>0, <1>2, FaultCount DEF HandleCommand
    <2>10. RestType'
        BY <1>0, <1>2, <2>3, <2>5, <2>6, <2>7, <2>8, <2>9
        DEF HandleCommand, RestType, historyVars
    <2>11. Keeps(app, app')
        <3>1. Keeps(app, app)
            BY <1>0 DEF Keeps
        <3> QED BY <1>0, <1>2, <3>1, HandleCommandAckKeeps DEF HandleCommand
    <2>12. Anchors' /\ (AccelAwaited => AccelAwaited')
        BY <2>2, <2>3 DEF IInv, Anchors, AccelAwaited
    <2> QED BY <2>10, <2>11, <2>12, StepInv
<1>3. CASE TakeConfirmation
    <2>1. Tail(uplink) \in Seq(PacketType)
        BY <1>0, <1>3 DEF TakeConfirmation, RestType
    <2>2. acal' \in AType /\ mistaken' \in BOOLEAN
        BY <1>0, <1>3 DEF TakeConfirmation, RestType
    <2>3. RestType' /\ UNCHANGED <<calls, sends>>
        BY <1>0, <1>3, <2>1, <2>2 DEF TakeConfirmation, RestType
    <2>4. Keeps(app, app')
        BY <1>0, <1>3 DEF TakeConfirmation, Keeps, Sound, Is
    <2> QED BY <2>3, <2>4, QuietInv
<1>4. CASE Prompt
    BY <1>0, <1>4, HandlePromptKeeps, DeliverInv DEF Prompt
<1>5. CASE PromptText
    BY <1>0, <1>5, ProcessStatusTextKeeps, DeliverInv DEF PromptText
<1>6. CASE Sentinel
    BY <1>0, <1>6, HandleSentinelKeeps, DeliverInv DEF Sentinel
<1>7. ASSUME NEW good \in BOOLEAN, SampleEnds(good) PROVE IInv'
    <2>1. acal' \in AType
        <3>1. (IF good THEN acal.step + 1 ELSE acal.step) \in Steps
            BY <1>0, <1>7, PosturesAssumption DEF SampleEnds, Steps
        <3>2. acal' = [acal EXCEPT !.phase = "asking",
                                   !.step = IF good THEN acal.step + 1 ELSE acal.step]
            BY <1>7 DEF SampleEnds
        <3> QED BY <1>0, <3>1, <3>2
    <2>2. RestType' /\ UNCHANGED <<calls, sends>>
        BY <1>0, <1>7, <2>1 DEF SampleEnds, RestType, historyVars
    <2>3. Keeps(app, app')
        BY <1>0, <1>7 DEF SampleEnds, Keeps, Sound, Is
    <2> QED BY <2>2, <2>3, QuietInv
<1>8. ASSUME NEW ok \in BOOLEAN, NEW heard \in BOOLEAN, Verdict(ok, heard) PROVE IInv'
    <2>1. acal' \in AType
        BY <1>0, <1>8 DEF Verdict
    <2>2. CASE heard
        BY <1>0, <1>8, <2>1, <2>2, ProcessStatusTextKeeps, DeliverInv DEF Verdict
    <2>3. CASE ~heard
        <3>1. RestType' /\ UNCHANGED <<calls, sends>>
            BY <1>0, <1>8, <2>1, <2>3 DEF Verdict, RestType, historyVars
        <3>2. Keeps(app, app')
            BY <1>0, <1>8, <2>3 DEF Verdict, Keeps, Sound, Is
        <3> QED BY <3>1, <3>2, QuietInv
    <2> QED BY <2>2, <2>3
<1>9. CASE CompassText
    <2>1. faults' \in 0..MaxFaults
        BY <1>0, <1>9, FaultCount DEF CompassText
    <2> QED BY <1>0, <1>9, <2>1, ProcessStatusTextKeeps, DeliverInv DEF CompassText
<1>10. ASSUME NEW i \in Compasses, MagProgress(i) PROVE IInv'
    BY <1>0, <1>10, HandleMagCalProgressKeeps, DeliverInv DEF MagProgress
<1>11. ASSUME NEW i \in Compasses, MagReport(i) PROVE IInv'
    BY <1>0, <1>11, HandleMagCalReportKeeps, DeliverInv DEF MagReport
<1>12. ASSUME NEW i \in Compasses, NEW ok \in BOOLEAN, MagEnds(i, ok) PROVE IInv'
    <2>1. mcal' \in MType
        BY <1>0, <1>12 DEF MagEnds
    <2>2. RestType' /\ UNCHANGED <<calls, sends>>
        BY <1>0, <1>12, <2>1 DEF MagEnds, RestType, historyVars
    <2>3. Keeps(app, app')
        BY <1>0, <1>12 DEF MagEnds, Keeps, Sound, Is
    <2> QED BY <2>2, <2>3, QuietInv
<1> QED BY <1>1, <1>2, <1>3, <1>4, <1>5, <1>6, <1>7, <1>8, <1>9, <1>10, <1>11, <1>12
        DEF Vehicle

\* Faults.
LEMMA MishapInv ==
  ASSUME IInv, Mishap
  PROVE  IInv'
<1> DEFINE AType == [phase: {"off", "asking", "sampling", "ok", "bad"},
                     step: Steps, old: BOOLEAN]
           MType == [Compasses -> [phase: {"off", "running", "ok", "bad"}, old: BOOLEAN]]
<1>0. /\ app \in AppType /\ RestType /\ acal \in AType /\ mcal \in MType
      /\ faults \in 0..MaxFaults /\ rebooted \in BOOLEAN /\ Keeps(app, app)
    BY DEF IInv, RestType, Keeps
<1>1. CASE NoticeRestart
    BY <1>0, <1>1, HandleVehicleRestartKeeps, DeliverInv DEF NoticeRestart
<1>2. CASE Lose
    <2>1. faults' \in 0..MaxFaults /\ Tail(uplink) \in Seq(PacketType)
        <3>1. faults' \in 0..MaxFaults
            BY <1>0, <1>2, FaultCount DEF Lose
        <3>2. uplink \in Seq(PacketType) /\ uplink # <<>>
            BY <1>0, <1>2 DEF Lose, RestType
        <3> QED BY <3>1, <3>2
    <2>2. RestType' /\ UNCHANGED <<calls, sends, app>>
        BY <1>0, <1>2, <2>1 DEF Lose, RestType, vehicleVars, historyVars
    <2> QED BY <1>0, <2>2, QuietInv
<1>3. CASE Restart
    <2>1. acal' \in AType
        BY <1>3, PosturesAssumption DEF Restart, Steps
    <2>2. mcal' \in MType
        BY <1>3 DEF Restart
    <2>3. faults' \in 0..MaxFaults /\ uplink' \in Seq(PacketType)
        BY <1>0, <1>3, FaultCount DEF Restart
    <2>4. RestType' /\ UNCHANGED <<calls, sends, app>>
        BY <1>0, <1>3, <2>1, <2>2, <2>3 DEF Restart, RestType, historyVars
    <2> QED BY <1>0, <2>4, QuietInv
<1>4. CASE HeartbeatGap
    <2>1. faults' \in 0..MaxFaults
        BY <1>0, <1>4, FaultCount DEF HeartbeatGap
    <2> QED BY <1>0, <1>4, <2>1, HandleVehicleRestartKeeps, DeliverInv DEF HeartbeatGap
<1>5. CASE FallMute
    <2>1. faults' \in 0..MaxFaults
        BY <1>0, <1>5, FaultCount DEF FallMute
    <2>2. RestType' /\ UNCHANGED <<calls, sends, app>>
        BY <1>0, <1>5, <2>1 DEF FallMute, RestType, historyVars
    <2> QED BY <1>0, <2>2, QuietInv
<1>6. CASE LinkDrops
    <2>1. faults' \in 0..MaxFaults /\ uplink' \in Seq(PacketType)
        <3>1. faults' \in 0..MaxFaults
            BY <1>0, <1>6, FaultCount DEF LinkDrops
        <3>2. uplink' = <<>>
            BY <1>6 DEF LinkDrops
        <3> QED BY <3>1, <3>2
    <2>2. /\ calls' \subseteq CallType
          /\ \A i : (\E k \in calls' : k.id = i) <=> (\E k \in calls : k.id = i)
        BY <1>6, ClosedKept DEF LinkDrops
    <2>3. RestType' /\ sends' = sends
        BY <1>0, <1>6, <2>1, <2>2 DEF LinkDrops, RestType, historyVars
    <2>4. Keeps(app, app')
        BY <1>0, <1>6, ResetKeeps DEF LinkDrops
    <2>5. Anchors' /\ (AccelAwaited => AccelAwaited')
        BY <2>2, <2>3 DEF IInv, Anchors, AccelAwaited
    <2> QED BY <2>3, <2>4, <2>5, StepInv
<1>7. CASE CompassGone
    <2>1. faults' \in 0..MaxFaults
        BY <1>0, <1>7, FaultCount DEF CompassGone
    <2>2. RestType' /\ UNCHANGED <<calls, sends>>
        BY <1>0, <1>7, <2>1 DEF CompassGone, RestType, vehicleVars, historyVars
    <2>3. Keeps(app, app')
        BY <1>0, <1>7, FailActionKeeps DEF CompassGone, Active, IsActive, Is
    <2> QED BY <2>2, <2>3, QuietInv
<1> QED BY <1>1, <1>2, <1>3, <1>4, <1>5, <1>6, <1>7 DEF Mishap

\* Every step keeps the invariant.
LEMMA NextInv == IInv /\ [Next]_vars => IInv'
<1> SUFFICES ASSUME IInv, [Next]_vars PROVE IInv'
    OBVIOUS
<1>1. CASE Awaited \/ \E k \in calls : Continue(k)
    BY <1>1, AwaitedInv
<1>2. CASE Mishap
    BY <1>2, MishapInv
<1>3. CASE Operator
    BY <1>3, OperatorInv
<1>4. CASE TimerFires
    BY <1>4, TimerInv
<1>5. CASE Vehicle
    BY <1>5, VehicleInv
<1>6. CASE UNCHANGED vars
    <2>1. RestType' /\ UNCHANGED <<calls, sends, app>>
        BY <1>6 DEF vars, IInv, RestType
    <2>2. Keeps(app, app')
        BY <2>1 DEF IInv, Keeps
    <2> QED BY <2>1, <2>2, QuietInv
<1> QED BY <1>1, <1>2, <1>3, <1>4, <1>5, <1>6 DEF Next

\* Every reachable state satisfies the invariant.
LEMMA Invariance == Spec => []IInv
BY InitInv, NextInv, PTL DEF Spec

\* The fields of GuidedActionService and the link have their types, whatever
\* the operator, the timers and the autopilot do.
THEOREM TypeCorrect == Spec => []TypeOK
<1>1. IInv => TypeOK
    BY DEF IInv, RestType, TypeOK
<1> QED BY <1>1, Invariance, PTL

\* An accelerometer calibration that is running has its no-prompt watchdog,
\* and a requested one a start that will settle it, for every number of
\* postures, runs and faults: parameter writes are not refused for ever.
THEOREM AlwaysWatched == Spec => []AccelIsWatched
<1>1. IInv => AccelIsWatched
    BY DEF IInv, Sound, Waits, AccelAwaited, AccelIsWatched
<1> QED BY <1>1, Invariance, PTL

-----------------------------------------------------------------------------
(* What a handler may do to a calibration without starting it, showing a   *)
(* posture, or opening the late window.                                    *)
Confirmable(c) == c.pose # NoPose /\ (c.cta \/ c.pose.prompted)

Calm(c, d) ==
  /\ Confirmable(d) => Confirmable(c)
  /\ d.pose # NoPose => c.pose # NoPose /\ d.pose.step = c.pose.step
  /\ "prompt fallback" \in d.timers => "prompt fallback" \in c.timers
  /\ d.resumable => c.resumable
  /\ Is(c, "accel", {"failed"}) /\ d.resumable => Is(d, "accel", {"failed"})
  /\ Is(d, "accel", {"requested"}) => Is(c, "accel", {"requested"})

AccelAsWas(c, d) == Is(d, "accel", {"running"}) => Is(c, "accel", {"running"})
Collects(c) == Is(c, "compass", {"running"}) /\ ~c.cancelling
CompassAsWas(c, d) == Collects(d) => Collects(c)
AsWas(c, d) == Calm(c, d) /\ AccelAsWas(c, d) /\ CompassAsWas(c, d)

\* A handler that changes nothing leaves a calibration as it was.
LEMMA AsWasReflexive ==
  ASSUME NEW c
  PROVE  AsWas(c, c)
BY DEF AsWas, Calm, AccelAsWas, CompassAsWas

\* Handlers that leave it as it was can be chained.
LEMMA AsWasTransitive ==
  ASSUME NEW c, NEW d, NEW e, AsWas(c, d), AsWas(d, e)
  PROVE  AsWas(c, e)
BY DEF AsWas, Calm, AccelAsWas, CompassAsWas

\* Fields that are only cleared.
LEMMA ClearedAsWas ==
  ASSUME NEW c \in AppType, NEW d \in AppType,
         d.status = c.status, d.cancelling = c.cancelling,
         d.pose \in {c.pose, NoPose}, d.cta => c.cta,
         d.resumable => c.resumable,
         "prompt fallback" \in d.timers => "prompt fallback" \in c.timers
  PROVE  AsWas(c, d)
BY DEF AsWas, Calm, AccelAsWas, CompassAsWas, Collects, Confirmable, Is, NoPose

\* An action that ends, or another status that is neither a request nor a run.
LEMMA EndedAsWas ==
  ASSUME NEW c \in AppType, NEW d \in AppType, NEW a \in Ids,
         d.status[a] \in {"idle", "succeeded", "failed"},
         \A b \in Ids : b # a => d.status[b] = c.status[b],
         a = "accel" => d.status[a] = "failed" \/ ~d.resumable \/ ~Is(c, "accel", {"failed"}),
         d.cancelling = c.cancelling \/ a = "compass",
         d.pose \in {c.pose, NoPose}, d.cta => c.cta,
         d.resumable => c.resumable,
         "prompt fallback" \in d.timers => "prompt fallback" \in c.timers
  PROVE  AsWas(c, d)
<1>1. Calm(c, d)
    BY DEF Calm, Confirmable, Is, NoPose
<1>2. AccelAsWas(c, d)
    BY DEF AccelAsWas, Is
<1>3. CompassAsWas(c, d)
    BY DEF CompassAsWas, Collects, Is
<1> QED BY <1>1, <1>2, <1>3 DEF AsWas

\* Without its posture a calibration has nothing to confirm.
LEMMA DropPoseAsWas ==
  ASSUME NEW c \in AppType
  PROVE  /\ DropPose(c) \in AppType /\ DropPose(c).pose = NoPose
         /\ DropPose(c).status = c.status /\ DropPose(c).resumable = c.resumable
         /\ DropPose(c).cancelling = c.cancelling /\ DropPose(c).cta = c.cta
         /\ DropPose(c).timers = c.timers \ {"prompt fallback"}
         /\ AsWas(c, DropPose(c))
<1>1. DropPose(c) \in AppType
    BY DropPoseKeeps DEF Keeps
<1>2. /\ DropPose(c).pose = NoPose
      /\ DropPose(c).status = c.status /\ DropPose(c).resumable = c.resumable
      /\ DropPose(c).cancelling = c.cancelling /\ DropPose(c).cta = c.cta
      /\ DropPose(c).timers = c.timers \ {"prompt fallback"}
    BY DEF DropPose, AppType
<1> QED BY <1>1, <1>2, ClearedAsWas

\* failAction leaves the posture and the late window to its callers.
LEMMA FailActionAsWas ==
  ASSUME NEW c \in AppType, NEW a \in Ids
  PROVE  /\ FailAction(c, a) \in AppType
         /\ FailAction(c, a).status[a] = "failed"
         /\ AsWas(c, FailAction(c, a))
         /\ FailAction(c, a).resumable = c.resumable
         /\ FailAction(c, a).pose = c.pose
         /\ "prompt fallback" \in FailAction(c, a).timers <=> "prompt fallback" \in c.timers
<1> DEFINE d == FailAction(c, a)
           cta == c.cta /\ a # "accel"
<1>1. d = [c EXCEPT !.status[a] = "failed", !.timers = @ \ WatchOf(a), !.cta = cta]
    BY DEF FailAction
<1>2. cta \in BOOLEAN /\ (cta => c.cta)
    OBVIOUS
<1>3. "prompt fallback" \notin WatchOf(a)
    BY DEF WatchOf
<1> HIDE DEF d, cta
<1>4. d \in AppType
    BY <1>1, <1>2 DEF AppType, Statuses
<1>5. /\ d.status = [c.status EXCEPT ![a] = "failed"] /\ d.timers = c.timers \ WatchOf(a)
      /\ d.cta = cta /\ d.pose = c.pose /\ d.resumable = c.resumable
      /\ d.cancelling = c.cancelling
    BY <1>1 DEF AppType
<1>6. d.status[a] = "failed" /\ \A b \in Ids : b # a => d.status[b] = c.status[b]
    BY <1>5 DEF AppType
<1>7. AsWas(c, d)
    <2>1. /\ d.pose \in {c.pose, NoPose} /\ (d.cta => c.cta)
          /\ d.resumable = c.resumable /\ d.cancelling = c.cancelling
          /\ "prompt fallback" \in d.timers => "prompt fallback" \in c.timers
        BY <1>2, <1>5
    <2> QED BY <1>4, <1>6, <2>1, EndedAsWas
<1> QED BY <1>3, <1>4, <1>5, <1>6, <1>7 DEF d

\* An action that goes back to idle opens nothing, once the late window is
\* closed.
LEMMA ToIdleAsWas ==
  ASSUME NEW c \in AppType, NEW a \in Ids, a = "accel" => ~c.resumable
  PROVE  /\ ToIdle(c, a) \in AppType
         /\ AsWas(c, ToIdle(c, a))
         /\ ToIdle(c, a).status[a] = "idle"
<1> DEFINE d == ToIdle(c, a)
           cta == c.cta /\ a # "accel"
           texted == c.texted /\ a # "compass"
<1>1. d = [c EXCEPT !.status[a] = "idle", !.texted = texted, !.cta = cta]
    BY DEF ToIdle
<1>2. cta \in BOOLEAN /\ (cta => c.cta) /\ texted \in BOOLEAN
    OBVIOUS
<1> HIDE DEF d, cta, texted
<1>4. d \in AppType
    BY <1>1, <1>2 DEF AppType, Statuses
<1>5. /\ d.status = [c.status EXCEPT ![a] = "idle"] /\ d.timers = c.timers
      /\ d.cta = cta /\ d.pose = c.pose /\ d.resumable = c.resumable
      /\ d.cancelling = c.cancelling
    BY <1>1 DEF AppType
<1>6. d.status[a] = "idle" /\ \A b \in Ids : b # a => d.status[b] = c.status[b]
    BY <1>5 DEF AppType
<1>7. AsWas(c, d)
    <2>1. /\ d.pose \in {c.pose, NoPose} /\ (d.cta => c.cta)
          /\ d.resumable = c.resumable /\ d.cancelling = c.cancelling
          /\ "prompt fallback" \in d.timers => "prompt fallback" \in c.timers
        BY <1>2, <1>5
    <2> QED BY <1>4, <1>6, <2>1, EndedAsWas
<1> QED BY <1>4, <1>6, <1>7 DEF d

\* A timer that ends starts nothing by itself.
LEMMA DisarmAsWas ==
  ASSUME NEW c \in AppType, NEW t
  PROVE  Disarm(c, t) \in AppType /\ AsWas(c, Disarm(c, t))
<1>1. Disarm(c, t) \in AppType
    BY DEF Disarm, AppType
<1>2. /\ Disarm(c, t).status = c.status /\ Disarm(c, t).pose = c.pose
      /\ Disarm(c, t).cta = c.cta /\ Disarm(c, t).resumable = c.resumable
      /\ Disarm(c, t).cancelling = c.cancelling
      /\ Disarm(c, t).timers = c.timers \ {t}
    BY DEF Disarm, AppType
<1> QED BY <1>1, <1>2, ClearedAsWas

\* A calibration that fails with its posture; the late window stays as it is
\* or is closed.
LEMMA FailAccelAsWas ==
  ASSUME NEW c \in AppType, "accel" \in Ids
  PROVE  /\ AsWas(c, FailAction(DropPose(c), "accel"))
         /\ AsWas(c, DropPose(FailAction(c, "accel")))
         /\ AsWas(c, FailAction([DropPose(c) EXCEPT !.resumable = FALSE], "accel"))
<1> DEFINE d == DropPose(c)
           e == [d EXCEPT !.resumable = FALSE]
           f == FailAction(c, "accel")
<1>1. d \in AppType /\ AsWas(c, d)
    BY DropPoseAsWas
<1>2. AsWas(c, f) /\ f \in AppType /\ AsWas(f, DropPose(f))
    BY FailActionAsWas, DropPoseAsWas
<1>3. AsWas(d, FailAction(d, "accel"))
    BY <1>1, FailActionAsWas
<1> HIDE DEF d, f
<1>4. e \in AppType /\ AsWas(d, e)
    <2>1. /\ e \in AppType /\ e.status = d.status /\ e.pose = d.pose /\ e.cta = d.cta
          /\ e.timers = d.timers /\ e.resumable = FALSE /\ e.cancelling = d.cancelling
        BY <1>1 DEF AppType
    <2> QED BY <1>1, <2>1, ClearedAsWas
<1> HIDE DEF e
<1>5. AsWas(e, FailAction(e, "accel"))
    BY <1>4, FailActionAsWas
<1>6. AsWas(c, FailAction(d, "accel")) /\ AsWas(c, DropPose(f))
    BY <1>1, <1>2, <1>3, AsWasTransitive
<1>7. AsWas(c, FailAction(e, "accel"))
    BY <1>1, <1>4, <1>5, AsWasTransitive
<1> QED BY <1>6, <1>7 DEF d, e, f

\* A calibration that succeeds has nothing left to confirm.
LEMMA CompleteAsWas ==
  ASSUME NEW c \in AppType, Is(c, "accel", {"running"})
  PROVE  AsWas(c, CompleteAccelerometerCalibration(c))
<1> DEFINE b == DropPose(c)
           d == CompleteAccelerometerCalibration(c)
<1>1. b \in AppType /\ b.pose = NoPose /\ AsWas(c, b) /\ b.status = c.status
    BY DropPoseAsWas
<1>2. d = [b EXCEPT !.status["accel"] = "succeeded", !.cta = FALSE,
                    !.timers = @ \ {"prompt watchdog"}]
    BY DEF CompleteAccelerometerCalibration
<1> HIDE DEF b, d
<1>3. /\ d \in AppType /\ d.pose = b.pose /\ d.cta = FALSE /\ d.resumable = b.resumable
      /\ d.cancelling = b.cancelling /\ d.timers = b.timers \ {"prompt watchdog"}
      /\ d.status = [b.status EXCEPT !["accel"] = "succeeded"]
    BY <1>1, <1>2 DEF AppType, Statuses
<1>4. "accel" \in Ids /\ ~Is(b, "accel", {"failed"})
    BY <1>1 DEF Is
<1>5. d.status["accel"] = "succeeded" /\ \A a \in Ids : a # "accel" => d.status[a] = b.status[a]
    BY <1>1, <1>3, <1>4 DEF AppType
<1>6. /\ d.pose \in {b.pose, NoPose} /\ (d.cta => b.cta) /\ (d.resumable => b.resumable)
      /\ "prompt fallback" \in d.timers => "prompt fallback" \in b.timers
      /\ d.cancelling = b.cancelling /\ d \in AppType
    BY <1>3
<1>7. AsWas(b, d)
    BY <1>1, <1>4, <1>5, <1>6, EndedAsWas
<1> QED BY <1>1, <1>7, AsWasTransitive DEF b, d

\* The sentinels only end a calibration.
LEMMA SentinelAsWas ==
  ASSUME NEW c \in AppType, NEW ok \in BOOLEAN
  PROVE  AsWas(c, HandleSentinel(c, ok))
BY AsWasReflexive, CompleteAsWas, FailAccelAsWas DEF HandleSentinel, AcceptsSentinel, Is

\* Progress of a compass only moves timers.
LEMMA MagProgressAsWas ==
  ASSUME NEW c \in AppType
  PROVE  AsWas(c, HandleMagCalProgress(c))
<1> DEFINE d == HandleMagCalProgress(c)
<1>1. /\ d \in AppType /\ d.status = c.status /\ d.pose = c.pose /\ d.cta = c.cta
      /\ d.resumable = c.resumable /\ d.cancelling = c.cancelling
      /\ "prompt fallback" \in d.timers => "prompt fallback" \in c.timers
    BY DEF HandleMagCalProgress, AppType, Timers
<1> HIDE DEF d
<1> QED BY <1>1, ClearedAsWas DEF d

\* A report of a compass is collected, or ends its action.
LEMMA MagReportAsWas ==
  ASSUME NEW c \in AppType, NEW i \in Compasses, NEW ok \in BOOLEAN
  PROVE  AsWas(c, HandleMagCalReport(c, i, ok))
<1> DEFINE r == [c.reports EXCEPT ![i] = IF ok THEN "ok" ELSE "bad"]
           heard == [c EXCEPT !.timers = @ \ {"guidance"}, !.reports = r]
           all == [heard EXCEPT !.timers = @ \ {"report watchdog"},
                                !.reports = NoReports]
           more == [heard EXCEPT !.timers = @ \cup {"report watchdog"}]
           done == [all EXCEPT !.status["compass"] = "succeeded"]
<1>1. r \in [Compasses -> {"none", "ok", "bad"}]
    BY DEF AppType
<1> HIDE DEF r
<1>2. /\ heard \in AppType /\ heard.status = c.status /\ heard.pose = c.pose
      /\ heard.cta = c.cta /\ heard.resumable = c.resumable
      /\ heard.cancelling = c.cancelling /\ heard.timers = c.timers \ {"guidance"}
    BY <1>1 DEF AppType
<1> HIDE DEF heard
<1>3. /\ all \in AppType /\ all.status = c.status /\ all.pose = c.pose
      /\ all.cta = c.cta /\ all.resumable = c.resumable
      /\ all.cancelling = c.cancelling
      /\ "prompt fallback" \in all.timers => "prompt fallback" \in c.timers
    BY <1>2 DEF AppType, NoReports
<1>4. /\ more \in AppType /\ more.status = c.status /\ more.pose = c.pose
      /\ more.cta = c.cta /\ more.resumable = c.resumable
      /\ more.cancelling = c.cancelling
      /\ "prompt fallback" \in more.timers => "prompt fallback" \in c.timers
    BY <1>2 DEF AppType, Timers
<1>5. AsWas(c, all) /\ AsWas(c, more)
    BY <1>3, <1>4, ClearedAsWas
<1> HIDE DEF all, more
<1>6. ASSUME "compass" \in Ids PROVE AsWas(c, done)
    <2>1. /\ done \in AppType /\ done.pose = all.pose /\ done.timers = all.timers
          /\ done.cta = all.cta /\ done.resumable = all.resumable
          /\ done.cancelling = all.cancelling
          /\ done.status = [all.status EXCEPT !["compass"] = "succeeded"]
        BY <1>3 DEF AppType, Statuses
    <2>2. /\ done.status["compass"] = "succeeded"
          /\ \A b \in Ids : b # "compass" => done.status[b] = all.status[b]
        BY <1>3, <1>6, <2>1 DEF AppType
    <2>3. /\ done \in AppType /\ done.pose = all.pose /\ done.timers = all.timers
          /\ done.cta = all.cta /\ done.resumable = all.resumable
          /\ done.cancelling = all.cancelling
        BY <2>1
    <2> HIDE DEF done
    <2>4. AsWas(all, done)
        BY <1>3, <1>6, <2>2, <2>3, EndedAsWas
    <2> QED BY <1>5, <2>4, AsWasTransitive
<1>7. ASSUME "compass" \in Ids PROVE AsWas(c, FailAction(all, "compass"))
    <2>1. AsWas(all, FailAction(all, "compass"))
        BY <1>3, <1>7, FailActionAsWas
    <2> QED BY <1>5, <2>1, AsWasTransitive
<1> HIDE DEF done
<1> QED
    BY <1>5, <1>6, <1>7, AsWasReflexive
    DEF HandleMagCalReport, AcceptsReport, Is, r, heard, all, more, done

\* A text moves the action it matches: only the one for a posture has the
\* accelerometer run, only "compass calibration" the compass.
LEMMA MatchMoves ==
  ASSUME NEW c, NEW text
  PROVE  /\ MatchGuidedActionText(c, "accel", text) # "none" => IsActive(c, "accel")
         /\ MatchGuidedActionText(c, "accel", text) = "running" => text = "place vehicle"
         /\ MatchGuidedActionText(c, "compass", text) = "running"
              => text = "compass calibration"
BY DEF MatchGuidedActionText

\* A text shows no posture and opens no window; only "place vehicle" has the
\* accelerometer run, only "compass calibration" the compass.
LEMMA ProcessStatusTextAsWas ==
  ASSUME NEW c \in AppType, NEW text
  PROVE  /\ Calm(c, ProcessStatusText(c, text))
         /\ text # "place vehicle" => AccelAsWas(c, ProcessStatusText(c, text))
         /\ text # "compass calibration" => CompassAsWas(c, ProcessStatusText(c, text))
<1> DEFINE next == [a \in Ids |-> MatchGuidedActionText(c, a, text)]
           To(a, set) == a \in Ids /\ next[a] \in set
           ended == {"succeeded", "failed"}
           status == [a \in Ids |-> IF next[a] = "none" THEN c.status[a] ELSE next[a]]
           timers == (c.timers
             \ ((IF To("compass", Statuses) THEN {"guidance"} ELSE {})
                \cup (IF To("compass", ended) THEN {"report watchdog"} ELSE {})
                \cup (IF To("accel", ended) THEN {"prompt watchdog"} ELSE {})))
             \cup (IF To("compass", {"running"}) THEN {"report watchdog"} ELSE {})
             \cup (IF To("accel", {"running"}) THEN {"prompt watchdog"} ELSE {})
           moved == [c EXCEPT !.status = status,
                              !.texted = @ \/ To("compass", Statuses),
                              !.cta = @ /\ ~To("accel", ended),
                              !.timers = timers]
           texted == c.texted \/ To("compass", Statuses)
           cta == c.cta /\ ~To("accel", ended)
           d == ProcessStatusText(c, text)
<1>1. \A a \in Ids : next[a] \in {"none", "running", "succeeded", "failed"}
    BY MatchTyped
<1>2. d = IF To("accel", ended) THEN DropPose(moved) ELSE moved
    BY DEF ProcessStatusText, AppType
<1>3. /\ "accel" \in Ids /\ next["accel"] # "none" => IsActive(c, "accel")
      /\ "accel" \in Ids /\ next["accel"] = "running" => text = "place vehicle"
      /\ "compass" \in Ids /\ next["compass"] = "running" => text = "compass calibration"
    BY MatchMoves
<1> HIDE DEF next
<1>4. status \in [Ids -> Statuses]
    BY <1>1 DEF AppType, Statuses
<1>5. timers \in SUBSET Timers
    BY DEF AppType, Timers
<1>6. texted \in BOOLEAN /\ cta \in BOOLEAN /\ (cta => c.cta)
    OBVIOUS
<1>7. \A a \in Ids :
        /\ next[a] = "none" => status[a] = c.status[a]
        /\ next[a] # "none" => status[a] = next[a]
    OBVIOUS
<1>8. "prompt fallback" \in timers => "prompt fallback" \in c.timers
    OBVIOUS
<1> HIDE DEF status, timers, texted, cta, d
<1>9. /\ moved = [c EXCEPT !.status = status, !.texted = texted, !.cta = cta,
                           !.timers = timers]
      /\ moved \in AppType
      /\ moved.status = status /\ moved.timers = timers /\ moved.pose = c.pose
      /\ moved.cta = cta /\ moved.resumable = c.resumable
      /\ moved.cancelling = c.cancelling
    BY <1>4, <1>5, <1>6 DEF AppType, texted, cta
<1>10. /\ d.status = status /\ d.pose \in {c.pose, NoPose} /\ (d.cta => c.cta)
       /\ d.resumable = c.resumable /\ d.cancelling = c.cancelling
       /\ "prompt fallback" \in d.timers => "prompt fallback" \in c.timers
    <2> HIDE DEF moved
    <2>1. CASE To("accel", ended)
        BY <1>2, <1>6, <1>8, <1>9, <2>1, DropPoseAsWas
    <2>2. CASE ~To("accel", ended)
        BY <1>2, <1>6, <1>8, <1>9, <2>2
    <2> QED BY <2>1, <2>2
<1>11. Calm(c, d)
    <2>1. /\ Confirmable(d) => Confirmable(c)
          /\ d.pose # NoPose => c.pose # NoPose /\ d.pose.step = c.pose.step
        BY <1>10 DEF Confirmable, NoPose
    <2>2. Is(c, "accel", {"failed"}) => Is(d, "accel", {"failed"})
        BY <1>3, <1>7, <1>10 DEF Is, IsActive
    <2>3. Is(d, "accel", {"requested"}) => Is(c, "accel", {"requested"})
        BY <1>1, <1>7, <1>10 DEF Is
    <2> QED BY <1>10, <2>1, <2>2, <2>3 DEF Calm
<1>12. text # "place vehicle" => AccelAsWas(c, d)
    BY <1>3, <1>7, <1>10 DEF AccelAsWas, Is
<1>13. text # "compass calibration" => CompassAsWas(c, d)
    BY <1>3, <1>7, <1>10 DEF CompassAsWas, Collects, Is
<1> QED BY <1>11, <1>12, <1>13 DEF d

\* A restart ends what is active.
LEMMA VehicleRestartAsWas ==
  ASSUME NEW c \in AppType
  PROVE  AsWas(c, HandleVehicleRestart(c))
<1> DEFINE one(a) == IF ~IsActive(c, a) THEN c.status[a]
                     ELSE IF a = "reboot" THEN "succeeded" ELSE "failed"
           accel == IsActive(c, "accel")
           compass == IsActive(c, "compass")
           dropped == IF accel THEN [DropPose(c) EXCEPT !.resumable = FALSE] ELSE c
           status == [a \in Ids |-> one(a)]
           lost == (IF accel THEN WatchOf("accel") ELSE {})
                     \cup (IF compass THEN WatchOf("compass") ELSE {})
           reports == IF compass THEN NoReports ELSE dropped.reports
           cta == dropped.cta /\ ~accel
           d == HandleVehicleRestart(c)
<1>1. /\ \A a \in Ids : status[a] \notin {"requested", "running"} \/ status[a] = c.status[a]
      /\ \A a \in Ids : ~IsActive(c, a) => status[a] = c.status[a]
      /\ \A a \in Ids : status[a] \notin {"requested", "running"}
    BY DEF IsActive, Is
<1>2. /\ dropped \in AppType /\ dropped.pose \in {c.pose, NoPose}
      /\ (dropped.cta => c.cta) /\ (dropped.resumable => c.resumable)
      /\ dropped.cancelling = c.cancelling
      /\ "prompt fallback" \in dropped.timers => "prompt fallback" \in c.timers
    <2> DEFINE e == DropPose(c)
    <2>1. /\ e \in AppType /\ e.pose = NoPose /\ e.cta = c.cta /\ e.resumable = c.resumable
          /\ e.timers = c.timers \ {"prompt fallback"} /\ e.cancelling = c.cancelling
        BY DropPoseAsWas
    <2> HIDE DEF e
    <2>2. LET f == [e EXCEPT !.resumable = FALSE]
          IN /\ f \in AppType /\ f.pose = NoPose /\ f.cta = c.cta /\ f.resumable = FALSE
             /\ f.timers = c.timers \ {"prompt fallback"} /\ f.cancelling = c.cancelling
        BY <2>1 DEF AppType
    <2> QED BY <2>2 DEF e
<1>3. d = [dropped EXCEPT !.status = status, !.cta = cta, !.reports = reports,
                          !.timers = @ \ lost]
    BY DEF HandleVehicleRestart
<1> HIDE DEF status, lost, dropped, d, reports, cta
<1>4. /\ d.status = status /\ d.pose = dropped.pose /\ d.cta = cta
      /\ d.resumable = dropped.resumable /\ d.cancelling = dropped.cancelling
      /\ d.timers = dropped.timers \ lost
    BY <1>2, <1>3 DEF AppType
<1>5. cta => dropped.cta
    BY DEF cta
<1>6. Calm(c, d)
    <2>1. Is(c, "accel", {"failed"}) => Is(d, "accel", {"failed"})
        BY <1>1, <1>4 DEF Is, IsActive
    <2>2. ~Is(d, "accel", {"requested"})
        BY <1>1, <1>4 DEF Is
    <2>3. /\ Confirmable(d) => Confirmable(c)
          /\ d.pose # NoPose => c.pose # NoPose /\ d.pose.step = c.pose.step
        BY <1>2, <1>4, <1>5 DEF Confirmable, NoPose
    <2> QED BY <1>2, <1>4, <2>1, <2>2, <2>3 DEF Calm
<1>7. AccelAsWas(c, d) /\ CompassAsWas(c, d)
    BY <1>1, <1>4 DEF AccelAsWas, CompassAsWas, Collects, Is
<1> QED BY <1>6, <1>7 DEF AsWas, d

\* A disconnect ends everything, the late window with it.
LEMMA ResetAsWas ==
  ASSUME NEW c \in AppType
  PROVE  AsWas(c, Reset(c)) /\ ~Reset(c).resumable
<1> DEFINE d == Reset(c)
<1>1. /\ d.status = [a \in Ids |-> "idle"] /\ d.pose = NoPose /\ d.cta = FALSE
      /\ d.resumable = FALSE /\ d.timers = {}
    BY DEF Reset, AppType
<1> HIDE DEF d
<1>2. \A s \in {{"requested"}, {"running"}}, a \in Ids : ~Is(d, a, s)
    BY <1>1 DEF Is
<1>3. ~Is(d, "accel", {"requested"}) /\ ~Is(d, "accel", {"running"})
      /\ ~Is(d, "compass", {"running"})
    BY <1>1 DEF Is
<1> QED BY <1>1, <1>3 DEF AsWas, Calm, AccelAsWas, CompassAsWas, Collects, Confirmable, d

\* The answer to a cancel ends the compass calibration.
LEMMA AfterCancelAsWas ==
  ASSUME NEW c \in AppType, NEW k, "compass" \in Ids
  PROVE  AsWas(c, AfterCancel(c, k))
<1> DEFINE e == IF Accepted(k) THEN ToIdle(c, "compass") ELSE FailAction(c, "compass")
           d == [e EXCEPT !.cancelling = FALSE]
<1>1. AsWas(c, e) /\ e \in AppType /\ e.status["compass"] \in {"idle", "failed"}
    BY ToIdleAsWas, FailActionAsWas
<1>2. AfterCancel(c, k) = d
    BY DEF AfterCancel
<1> HIDE DEF e
<1>3. /\ d \in AppType /\ d.status = e.status /\ d.pose = e.pose /\ d.timers = e.timers
      /\ d.cta = e.cta /\ d.resumable = e.resumable
    BY <1>1 DEF AppType
<1>4. AsWas(e, d)
    BY <1>1, <1>3 DEF AsWas, Calm, AccelAsWas, CompassAsWas, Collects, Confirmable, Is
<1> QED BY <1>1, <1>2, <1>4, AsWasTransitive

(* A calibration that was marked as started shows no posture to confirm    *)
(* yet; one that was requested or failed becomes one that runs.            *)
Started(c, d) ==
  /\ Is(d, "accel", {"running"}) /\ CompassAsWas(c, d)
  /\ d.pose # NoPose /\ d.pose.step = 0 /\ ~Confirmable(d)
  /\ d.resumable => c.resumable /\ Is(c, "accel", {"requested"})

\* What marking a calibration as started does to the fields that count.
LEMMA MarkStarted ==
  ASSUME NEW c \in AppType, "accel" \in Ids
  PROVE  LET d == MarkAccelerometerCalibrationStarted(c)
         IN /\ d.status = [c.status EXCEPT !["accel"] = "running"]
            /\ d.pose.step = 0 /\ ~Confirmable(d) /\ d.pose # NoPose
            /\ d.resumable = c.resumable /\ d.cancelling = c.cancelling
            /\ Is(d, "accel", {"running"}) /\ CompassAsWas(c, d)
<1> DEFINE d == MarkAccelerometerCalibrationStarted(c)
<1>1. /\ d.status = [c.status EXCEPT !["accel"] = "running"]
      /\ d.pose = [step |-> 0, waiting |-> FALSE, prompted |-> FALSE] /\ d.cta = FALSE
      /\ d.resumable = c.resumable /\ d.cancelling = c.cancelling
    BY DEF MarkAccelerometerCalibrationStarted, AppType
<1> HIDE DEF d
<1>2. d.status["accel"] = "running" /\ ("compass" \in Ids => d.status["compass"] = c.status["compass"])
    BY <1>1 DEF AppType
<1>3. d.pose # NoPose /\ d.pose.step = 0 /\ ~Confirmable(d)
    BY <1>1, PosturesAssumption DEF NoPose, NoStep, Confirmable
<1>4. Is(d, "accel", {"running"}) /\ CompassAsWas(c, d)
    BY <1>1, <1>2 DEF CompassAsWas, Collects, Is
<1> QED BY <1>1, <1>3, <1>4 DEF d

\* What an acknowledgement does.
LEMMA AckEffect ==
  ASSUME NEW c \in AppType, NEW command
  PROVE  LET d == HandleCommandAck(c, command)
         IN \/ AsWas(c, d)
            \/ command = "compass" /\ Calm(c, d) /\ AccelAsWas(c, d)
            \/ /\ command = "preflight" /\ Started(c, d)
               /\ \/ Is(c, "accel", {"requested"})
                  \/ CanResume(c) /\ ~d.resumable
<1> DEFINE d == HandleCommandAck(c, command)
<1>1. CASE command = "compass" /\ Is(c, "compass", {"requested"})
    <2> DEFINE e == MarkCompassCalibrationStarted(c)
    <2>1. /\ e.status = [c.status EXCEPT !["compass"] = "running"] /\ e.pose = c.pose
          /\ e.cta = c.cta /\ e.resumable = c.resumable /\ e.timers = c.timers
        BY DEF MarkCompassCalibrationStarted, AppType
    <2>2. \A s : Is(e, "accel", s) <=> Is(c, "accel", s)
        BY <2>1 DEF Is, AppType
    <2> HIDE DEF e
    <2>3. Calm(c, e) /\ AccelAsWas(c, e)
        BY <2>1, <2>2 DEF Calm, AccelAsWas, Confirmable
    <2> QED BY <1>1, <2>3 DEF HandleCommandAck, e
<1>2. CASE command = "preflight" /\ Is(c, "accel", {"requested"}) /\ c.pose = NoPose
    <2>0. "accel" \in Ids
        BY <1>2 DEF Is
    <2>1. d = MarkAccelerometerCalibrationStarted(c)
        <3>1. command # "compass" /\ ~CanResume(c)
            BY <1>2 DEF CanResume, Is
        <3> QED BY <1>2, <3>1 DEF HandleCommandAck
    <2> HIDE DEF d
    <2>2. Started(c, d)
        BY <1>2, <2>0, <2>1, MarkStarted DEF Started
    <2> QED BY <1>2, <2>2 DEF d
<1>3. CASE command = "preflight" /\ CanResume(c) /\ ~(Is(c, "accel", {"requested"}) /\ c.pose = NoPose)
    <2> DEFINE e == [c EXCEPT !.resumable = FALSE]
    <2>1. "accel" \in Ids /\ d = MarkAccelerometerCalibrationStarted(e)
        BY <1>3 DEF HandleCommandAck, Is, CanResume
    <2>2. e \in AppType /\ e.resumable = FALSE /\ e.status = c.status /\ e.cancelling = c.cancelling
        BY DEF AppType
    <2> HIDE DEF d, e
    <2>3. /\ Is(d, "accel", {"running"}) /\ d.pose # NoPose /\ d.pose.step = 0
          /\ ~Confirmable(d) /\ d.resumable = FALSE /\ CompassAsWas(e, d)
        BY <2>1, <2>2, MarkStarted
    <2>4. CompassAsWas(c, d)
        BY <2>2, <2>3 DEF CompassAsWas, Collects, Is
    <2>5. Started(c, d)
        BY <2>3, <2>4 DEF Started
    <2> QED BY <1>3, <2>3, <2>5 DEF d
<1>4. CASE /\ ~(command = "compass" /\ Is(c, "compass", {"requested"}))
           /\ ~(command = "preflight" /\ Is(c, "accel", {"requested"}) /\ c.pose = NoPose)
           /\ ~(command = "preflight" /\ CanResume(c))
    <2>1. d = c
        BY <1>4 DEF HandleCommandAck
    <2> QED BY <2>1, AsWasReflexive
<1> HIDE DEF d
<1> QED BY <1>1, <1>2, <1>3, <1>4 DEF d

\* What the continuation of a start does.
LEMMA AfterStartEffect ==
  ASSUME NEW c \in AppType, NEW k \in CallType, k.id # "cancel"
  PROVE  LET d == AfterStart(c, k)
         IN \/ AsWas(c, d)
            \/ k.id = "compass" /\ InProgressIsEnough(k) /\ Calm(c, d) /\ AccelAsWas(c, d)
            \/ /\ k.id = "accel" /\ InProgressIsEnough(k)
               /\ Is(c, "accel", {"requested"}) /\ Started(c, d)
            \/ /\ k.id = "accel" /\ k.result = "timed out" /\ CompassAsWas(c, d)
               /\ Is(d, "accel", {"failed"}) /\ d.pose = NoPose
               /\ "prompt fallback" \notin d.timers
<1> DEFINE d == AfterStart(c, k)
<1>0. k.id \in Ids
    BY DEF CallType
<1>1. CASE k.id = "accel" /\ InProgressIsEnough(k)
    <2>1. CASE c.status["accel"] = "requested" /\ c.pose = NoPose
        <3>1. d = MarkAccelerometerCalibrationStarted(c)
            BY <1>1, <2>1 DEF AfterStart
        <3> HIDE DEF d
        <3>2. Is(c, "accel", {"requested"}) /\ Started(c, d)
            BY <1>0, <1>1, <2>1, <3>1, MarkStarted DEF Started, Is
        <3> QED BY <1>1, <3>2 DEF d
    <2>2. CASE ~(c.status["accel"] = "requested" /\ c.pose = NoPose)
        <3>1. d = c
            BY <1>1, <2>2 DEF AfterStart
        <3> QED BY <3>1, AsWasReflexive
    <2> QED BY <2>1, <2>2
<1>2. CASE k.id = "accel" /\ ~InProgressIsEnough(k)
    <2> DEFINE p == DropPose(c)
               b == (k.result = "timed out")
               e == [p EXCEPT !.resumable = b]
    <2>1. d = FailAction(e, "accel")
        BY <1>2 DEF AfterStart
    <2>2. /\ p \in AppType /\ p.pose = NoPose /\ AsWas(c, p)
          /\ p.timers = c.timers \ {"prompt fallback"} /\ p.status = c.status
          /\ p.cancelling = c.cancelling
        BY DropPoseAsWas
    <2>3. b \in BOOLEAN
        OBVIOUS
    <2> HIDE DEF p, b
    <2>4. /\ e \in AppType /\ e.pose = NoPose /\ e.status = c.status
          /\ e.timers = p.timers /\ e.cancelling = c.cancelling
          /\ e.resumable = b /\ e.cta = p.cta
        BY <2>2, <2>3 DEF AppType
    <2> HIDE DEF e, d
    <2>5. /\ d.status["accel"] = "failed" /\ d.pose = NoPose /\ AsWas(e, d)
          /\ "prompt fallback" \notin d.timers
        <3>1. "accel" \in Ids /\ "prompt fallback" \notin e.timers
            BY <1>0, <1>2, <2>2, <2>4
        <3> QED BY <2>1, <2>4, <3>1, FailActionAsWas
    <2>6. CASE b
        <3>1. CompassAsWas(e, d) /\ CompassAsWas(c, e)
            BY <2>4, <2>5 DEF AsWas, CompassAsWas, Collects, Is
        <3>2. CompassAsWas(c, d) /\ Is(d, "accel", {"failed"})
            BY <1>0, <1>2, <2>5, <3>1 DEF CompassAsWas, Is
        <3> QED BY <1>2, <2>5, <2>6, <3>2 DEF d, b
    <2>7. CASE ~b
        <3>1. AsWas(p, e)
            BY <2>2, <2>4, <2>7, ClearedAsWas
        <3>2. AsWas(c, d)
            BY <2>2, <2>5, <3>1, AsWasTransitive
        <3> QED BY <3>2 DEF d
    <2> QED BY <2>6, <2>7
<1>3. CASE k.id = "compass"
    <2> DEFINE e == [c EXCEPT !.status["compass"] = "running",
                              !.timers = @ \cup {"guidance"}]
    <2>1. /\ e.status = [c.status EXCEPT !["compass"] = "running"] /\ e.pose = c.pose
          /\ e.cta = c.cta /\ e.resumable = c.resumable
          /\ e.timers = c.timers \cup {"guidance"}
        BY DEF AppType
    <2>2. \A s : Is(e, "accel", s) <=> Is(c, "accel", s)
        BY <2>1 DEF Is, AppType
    <2> HIDE DEF e
    <2>3. Calm(c, e) /\ AccelAsWas(c, e)
        BY <2>1, <2>2 DEF Calm, AccelAsWas, Confirmable
    <2>4. d = IF InProgressIsEnough(k) THEN e ELSE FailAction(c, "compass")
        BY <1>3 DEF AfterStart, e
    <2>5. AsWas(c, FailAction(c, "compass"))
        BY <1>0, <1>3, FailActionAsWas
    <2> HIDE DEF d
    <2> QED BY <1>3, <2>3, <2>4, <2>5 DEF d
<1>4. CASE k.id \notin {"accel", "compass"}
    <2> DEFINE e == [c EXCEPT !.status[k.id] = "succeeded"]
    <2>1. /\ e \in AppType /\ e.pose = c.pose /\ e.timers = c.timers /\ e.cta = c.cta
          /\ e.resumable = c.resumable /\ e.cancelling = c.cancelling
          /\ e.status = [c.status EXCEPT ![k.id] = "succeeded"]
        BY <1>0 DEF AppType, Statuses
    <2>2. e.status[k.id] = "succeeded" /\ \A b \in Ids : b # k.id => e.status[b] = c.status[b]
        BY <1>0, <2>1 DEF AppType
    <2>3. /\ e \in AppType /\ e.pose = c.pose /\ e.timers = c.timers /\ e.cta = c.cta
          /\ e.resumable = c.resumable /\ e.cancelling = c.cancelling
        BY <2>1
    <2> HIDE DEF e
    <2>4. AsWas(c, e)
        <3> DEFINE a == k.id
        <3>1. /\ a \in Ids /\ a # "accel" /\ e.status[a] \in {"idle", "succeeded", "failed"}
              /\ \A b \in Ids : b # a => e.status[b] = c.status[b]
            BY <1>0, <1>4, <2>2
        <3> HIDE DEF a
        <3> QED BY <2>3, <3>1, EndedAsWas
    <2>5. AsWas(c, FailAction(c, k.id))
        BY <1>0, FailActionAsWas
    <2>6. d = e \/ d = FailAction(c, k.id)
        BY <1>4 DEF AfterStart, e
    <2> HIDE DEF d
    <2> QED BY <2>4, <2>5, <2>6 DEF d
<1> HIDE DEF d
<1> QED BY <1>1, <1>2, <1>3, <1>4 DEF d

\* What a prompt does: it shows the posture it names, or changes nothing
\* that a confirmation depends on.
LEMMA PromptEffect ==
  ASSUME NEW c \in AppType, NEW s \in Steps
  PROVE  LET d == HandlePrompt(c, s)
         IN \/ AsWas(c, d)
            \/ /\ Is(d, "accel", {"running"}) /\ CompassAsWas(c, d)
               /\ d.pose # NoPose /\ d.pose.step = s
               /\ "prompt fallback" \notin d.timers
               /\ d.resumable => c.resumable /\ Is(c, "accel", {"running"})
<1> DEFINE live == [c EXCEPT !.resumable = @ /\ ~CanResume(c),
                             !.timers = (@ \cup {"prompt watchdog"})
                                          \ {"prompt fallback"}]
           p == DropPose(live)
           posed == [p EXCEPT
                       !.pose = [step |-> s, waiting |-> FALSE, prompted |-> TRUE]]
           d == HandlePrompt(c, s)
           resumable == c.resumable /\ ~CanResume(c)
<1>1. /\ live \in AppType /\ live.status = c.status /\ live.pose = c.pose
      /\ live.cta = c.cta /\ live.cancelling = c.cancelling
      /\ live.resumable = resumable /\ "prompt fallback" \notin live.timers
    <2>1. resumable \in BOOLEAN
        OBVIOUS
    <2> QED BY <2>1 DEF AppType, Timers
<1>2. resumable => c.resumable /\ ~Is(c, "accel", {"failed"})
    BY DEF CanResume
<1> HIDE DEF live, resumable
<1>3. CASE ~(Is(c, "accel", {"running"}) \/ CanResume(c))
    <2>1. d = c
        BY <1>3 DEF HandlePrompt
    <2> QED BY <2>1, AsWasReflexive
<1>4. CASE (Is(c, "accel", {"running"}) \/ CanResume(c)) /\ SamePrompt(c, s)
    <2>1. d = live
        BY <1>4 DEF HandlePrompt, live
    <2>2. AsWas(c, live)
        BY <1>1, <1>2, ClearedAsWas
    <2> QED BY <2>1, <2>2
<1>5. CASE (Is(c, "accel", {"running"}) \/ CanResume(c)) /\ ~SamePrompt(c, s)
    <2>0. "accel" \in Ids
        BY <1>5 DEF Is, CanResume
    <2>1. d = ShowPosture(posed)
        BY <1>5 DEF HandlePrompt, live
    <2>2. /\ p \in AppType /\ p.status = c.status /\ p.cancelling = c.cancelling
          /\ p.resumable = resumable /\ "prompt fallback" \notin p.timers
        BY <1>1, DropPoseAsWas
    <2> HIDE DEF p
    <2>3. /\ posed.status = c.status /\ posed.cancelling = c.cancelling
          /\ posed.resumable = resumable /\ "prompt fallback" \notin posed.timers
          /\ posed.pose = [step |-> s, waiting |-> FALSE, prompted |-> TRUE]
          /\ posed \in AppType
        BY <2>2, PoseTypes DEF AppType
    <2> HIDE DEF posed, d
    <2>4. /\ d.status = [c.status EXCEPT !["accel"] = "running"]
          /\ d.cancelling = c.cancelling
          /\ d.resumable = resumable /\ "prompt fallback" \notin d.timers
          /\ d.pose = [step |-> s, waiting |-> FALSE, prompted |-> TRUE]
        BY <2>1, <2>3 DEF ShowPosture, AppType
    <2>5. /\ d.status["accel"] = "running"
          /\ "compass" \in Ids => d.status["compass"] = c.status["compass"]
        BY <2>0, <2>4 DEF AppType
    <2>6. Is(d, "accel", {"running"}) /\ CompassAsWas(c, d)
        BY <2>0, <2>4, <2>5 DEF CompassAsWas, Collects, Is
    <2>7. d.pose # NoPose /\ d.pose.step = s
        <3>1. \A w, q \in BOOLEAN : [step |-> s, waiting |-> w, prompted |-> q] # NoPose
            BY PoseTypes
        <3>2. [step |-> s, waiting |-> FALSE, prompted |-> TRUE] # NoPose
            BY <3>1
        <3>3. d.pose = [step |-> s, waiting |-> FALSE, prompted |-> TRUE]
            BY <2>4
        <3>4. d.pose.step = s
            BY <3>3
        <3> QED BY <3>2, <3>3, <3>4
    <2>8. d.resumable => c.resumable /\ Is(c, "accel", {"running"})
        BY <1>2, <1>5, <2>4 DEF CanResume
    <2> QED BY <2>4, <2>6, <2>7, <2>8 DEF d
<1> HIDE DEF d
<1> QED BY <1>3, <1>4, <1>5 DEF d

\* A request.
LEMMA RequestEffect ==
  ASSUME NEW c \in AppType, NEW a \in Ids
  PROVE  LET d == Request(c, a)
         IN /\ a # "accel" => Calm(c, d) /\ AccelAsWas(c, d)
            /\ CompassAsWas(c, d)
            /\ a = "accel" =>
                 /\ Is(d, "accel", {"requested"}) /\ ~d.cta /\ ~d.resumable
                 /\ d.pose = c.pose
                 /\ "prompt fallback" \in d.timers => "prompt fallback" \in c.timers
<1> DEFINE d == Request(c, a)
           cta == c.cta /\ a # "accel"
           resumable == c.resumable /\ a # "accel"
           texted == c.texted /\ a # "compass"
           reports == IF a = "compass" THEN NoReports ELSE c.reports
           timers == IF a = "compass" THEN c.timers \ WatchOf(a) ELSE c.timers
<1>1. d = [c EXCEPT !.status[a] = "requested", !.cta = cta, !.resumable = resumable,
                    !.texted = texted, !.reports = reports, !.timers = timers]
    BY DEF Request
<1>2. /\ cta => c.cta /\ a # "accel"
      /\ resumable => c.resumable /\ a # "accel"
      /\ "prompt fallback" \in timers => "prompt fallback" \in c.timers
    OBVIOUS
<1> HIDE DEF d, cta, resumable, texted, reports, timers
<1>3. /\ d.status = [c.status EXCEPT ![a] = "requested"] /\ d.cta = cta
      /\ d.resumable = resumable /\ d.timers = timers /\ d.pose = c.pose
      /\ d.cancelling = c.cancelling
    BY <1>1 DEF AppType
<1>4. d.status[a] = "requested" /\ \A b \in Ids : b # a => d.status[b] = c.status[b]
    BY <1>3 DEF AppType
<1>5. CompassAsWas(c, d)
    BY <1>3, <1>4 DEF CompassAsWas, Collects, Is
<1>6. a # "accel" => Calm(c, d) /\ AccelAsWas(c, d)
    BY <1>2, <1>3, <1>4 DEF Calm, AccelAsWas, Confirmable, Is
<1>7. a = "accel" => Is(d, "accel", {"requested"})
    BY <1>4 DEF Is
<1> QED BY <1>2, <1>3, <1>5, <1>6, <1>7 DEF d

-----------------------------------------------------------------------------
(* Verdicts and postures: three invariants that IInv carries.              *)

BothInPlay == {"accel", "level"} \subseteq Ids
Queued == {uplink[i] : i \in 1..Len(uplink)}
OnTheWay(id) == \E p \in Queued : p.id = id
ConfirmedLast == \A i \in 1..Len(uplink) : uplink[i].id = "confirm" => i = Len(uplink)
AccelHeld == uplink # <<>> /\ Head(uplink).beat /\ Head(uplink).id = "accel"
HasVerdict == acal.phase \in {"ok", "bad"}
CallsOpen == \A k \in calls : k.result \notin {"timed out", "in progress"}

(* The autopilot's verdict of an earlier run is only heard by a calibration *)
(* whose own command still blocks the autopilot: it is answered before the *)
(* verdict is repeated.  The ack of a level calibration breaks this, and   *)
(* takes a third run.                                                      *)
Begun == acal.phase # "off" \/ OnTheWay("accel") \/ AccelAwaited
Noted == \E k \in calls : k.id = "accel" /\ k.result \in {"noted", "accepted"}
Shared(n) == BothInPlay /\ runs >= n

Counted ==
  /\ Begun => "accel" \in Ids /\ runs >= 1
  /\ OnTheWay("level") => runs >= 1
  /\ OnTheWay("level") /\ Begun => runs >= 2
  /\ acal.old => runs >= 2
  /\ acal.old /\ OnTheWay("level") => runs >= 3
NotedInTime ==
  Noted /\ HasVerdict => AccelHeld \/ (Shared(2) /\ (acal.old => Shared(3)))
RunsInTime ==
  Is(app, "accel", {"running"}) /\ acal.old /\ HasVerdict => AccelHeld \/ Shared(3)
VerdictInv ==
  /\ Counted /\ NotedInTime /\ RunsInTime
  /\ hollow \subseteq {"accel"} /\ (hollow # {} => Shared(3))

(* A compass calibration that collects reports has started the calibrators *)
(* anew.                                                                   *)
FreshCompasses == \A i \in Compasses : ~mcal[i].old
ReportInv ==
  /\ Collects(app) => FreshCompasses
  /\ \A k \in calls : k.id = "compass" =>
       k.result # "noted" /\ (k.result = "accepted" => FreshCompasses)
  /\ \A i \in Compasses : mcal[i].phase = "running" => ~mcal[i].old

(* A posture that can be confirmed is the one the autopilot asks for.      *)
Resting == acal.phase \notin {"asking", "sampling"}
Ahead == acal.phase = "sampling" \/ (acal.phase = "asking" /\ acal.step # 0)
NowAhead == ~acal.old /\ Ahead
Excused == BothInPlay /\ faults >= 2
AccelOpen == \E k \in calls : k.id = "accel" /\ k.result \in Unsettled

UplinkSound ==
  /\ ConfirmedLast
  /\ OnTheWay("accel") => ~NowAhead
  /\ OnTheWay("accel") /\ Resting /\ app.pose # NoPose => app.pose.step = 0
  /\ \A p \in Queued : p.id = "confirm" =>
       /\ acal.phase = "asking" /\ ~acal.old => p.step = acal.step \/ Excused
       /\ OnTheWay("accel") /\ Resting => p.step = 0
ConfirmedOnce ==
  OnTheWay("confirm") =>
    /\ ~Is(app, "accel", {"requested"}) /\ ~Confirmable(app)
    /\ "prompt fallback" \notin app.timers /\ ~app.resumable
    /\ acal.phase # "sampling"
CardSound ==
  /\ acal.phase = "sampling" => ~Confirmable(app)
  /\ Confirmable(app) /\ acal.phase = "asking" /\ ~acal.old =>
       app.pose.step = acal.step \/ Excused
LateSound ==
  /\ Is(app, "accel", {"requested"}) => ~NowAhead
  /\ "prompt fallback" \in app.timers /\ NowAhead =>
       BothInPlay /\ faults >= 1 /\ (mute => faults >= 2)
  /\ app.resumable => Is(app, "accel", {"failed"}) /\ (NowAhead => faults >= 1)
  /\ AccelOpen /\ ~acal.old /\ ~Resting => OnTheWay("accel") \/ faults >= 1
PostureInv ==
  /\ UplinkSound /\ ConfirmedOnce /\ CardSound /\ LateSound
  /\ CallsOpen /\ (mute => faults >= 1) /\ (mistaken => Excused)

JInv == IInv /\ VerdictInv /\ ReportInv /\ PostureInv

\* Nothing has begun in a service that was just constructed.
LEMMA InitJInv == Init => JInv
<1> SUFFICES ASSUME Init PROVE JInv
    OBVIOUS
<1>1. IInv
    BY InitInv
<1>2. Queued = {} /\ calls = {}
    BY DEF Init, Queued
<1>3. app.status = [a \in Ids |-> "idle"] /\ app.pose = NoPose /\ app.timers = {}
      /\ app.resumable = FALSE
    BY DEF Init
<1>4. acal.phase = "off" /\ ~acal.old /\ ~mute /\ mistaken = FALSE /\ hollow = {}
      /\ runs \in Nat
    BY DEF Init
<1>5. \A s \in {"requested", "running", "failed"}, a \in Ids : ~Is(app, a, {s})
    BY <1>3 DEF Is
<1>6. VerdictInv
    BY <1>2, <1>4 DEF VerdictInv, Counted, NotedInTime, RunsInTime, Begun, Noted,
       OnTheWay, AccelAwaited, HasVerdict
<1>7. ReportInv
    <2>1. FreshCompasses
        BY DEF Init, FreshCompasses
    <2>2. \A i \in Compasses : mcal[i].phase # "running"
        BY DEF Init
    <2> QED BY <1>2, <2>1, <2>2 DEF ReportInv
<1>8. PostureInv
    <2>1. ConfirmedLast
        BY DEF Init, ConfirmedLast
    <2>2. ~Confirmable(app)
        BY <1>3 DEF Confirmable
    <2>3. UplinkSound /\ ConfirmedOnce /\ CardSound
        BY <1>2, <1>4, <2>1, <2>2 DEF UplinkSound, ConfirmedOnce, CardSound, OnTheWay
    <2>4. LateSound
        BY <1>2, <1>3, <1>4 DEF LateSound, NowAhead, Ahead, AccelOpen
    <2> QED BY <1>2, <1>4, <2>3, <2>4 DEF PostureInv, CallsOpen
<1> QED BY <1>1, <1>6, <1>7, <1>8 DEF JInv

\* Counters are numbers.
LEMMA Numbers ==
  ASSUME RestType
  PROVE  runs \in Nat /\ faults \in Nat
BY BoundsAssumption DEF RestType

(* What is on its way stays as it was, but for cancels and for what a      *)
(* fault takes away.                                                       *)
UplinkAsWas ==
  /\ \A id \in {"accel", "level", "confirm"} : OnTheWay(id)' => OnTheWay(id)
  /\ \A p \in Queued' : p.id = "confirm" => p \in Queued
  /\ ConfirmedLast'
  /\ AccelOpen' /\ OnTheWay("accel") => OnTheWay("accel")' \/ faults' >= 1

\* A step that begins nothing, frees no held command and has no calibration
\* run leaves the verdicts to the runs that reached them.
LEMMA VerdictFrame ==
  ASSUME VerdictInv, runs' = runs, hollow' = hollow,
         Begun' => Begun, OnTheWay("level")' => OnTheWay("level"),
         acal.old' => acal.old, HasVerdict' => HasVerdict, Noted' => Noted,
         HasVerdict' /\ AccelHeld => AccelHeld',
         AccelAsWas(app, app')
  PROVE  VerdictInv'
<1>1. \A n : Shared(n)' <=> Shared(n)
    BY DEF Shared, BothInPlay
<1>2. Counted'
    BY DEF VerdictInv, Counted
<1>3. NotedInTime'
    BY <1>1 DEF VerdictInv, NotedInTime
<1>4. RunsInTime'
    BY <1>1 DEF VerdictInv, RunsInTime, AccelAsWas
<1> QED BY <1>1, <1>2, <1>3, <1>4 DEF VerdictInv

\* A step that neither collects for the compass anew nor answers its call.
LEMMA ReportFrame ==
  ASSUME ReportInv, CompassAsWas(app, app'), mcal' = mcal,
         \A k \in calls' : k.id = "compass" =>
           /\ k.result # "noted"
           /\ k.result = "accepted" =>
                \E j \in calls : j.id = "compass" /\ j.result = "accepted"
  PROVE  ReportInv'
<1>1. FreshCompasses' <=> FreshCompasses
    BY DEF FreshCompasses
<1> QED BY <1>1 DEF ReportInv, CompassAsWas

\* A step that keeps the calibration calm and the queue as it was.
LEMMA PostureFrame ==
  ASSUME RestType, RestType', PostureInv, Calm(app, app'), acal' = acal,
         UplinkAsWas, mistaken' = mistaken, AccelOpen' => AccelOpen, CallsOpen',
         faults' \in {faults, faults + 1},
         mute' => mute \/ faults' = faults + 1
  PROVE  PostureInv'
<1>1. faults \in Nat /\ faults' \in Nat /\ faults' >= faults
    BY Numbers DEF RestType
<1>2. /\ Resting' <=> Resting
      /\ NowAhead' <=> NowAhead
      /\ BothInPlay' <=> BothInPlay
      /\ Excused => Excused'
    <2>1. (Resting' <=> Resting) /\ (NowAhead' <=> NowAhead) /\ (BothInPlay' <=> BothInPlay)
        BY DEF Resting, NowAhead, Ahead, BothInPlay
    <2>2. faults >= 2 => faults' >= 2
        BY <1>1
    <2> QED BY <2>1, <2>2 DEF Excused
<1>3. UplinkSound'
    <2>1. OnTheWay("accel")' => OnTheWay("accel") /\ ~NowAhead'
        BY <1>2 DEF PostureInv, UplinkSound, UplinkAsWas
    <2>2. OnTheWay("accel")' /\ Resting' /\ app'.pose # NoPose => app'.pose.step = 0
        BY <1>2, <2>1 DEF PostureInv, UplinkSound, Calm
    <2>3. ASSUME NEW p \in Queued', p.id = "confirm"
          PROVE  /\ acal'.phase = "asking" /\ ~acal'.old => p.step = acal'.step \/ Excused'
                 /\ OnTheWay("accel")' /\ Resting' => p.step = 0
        BY <1>2, <2>1, <2>3 DEF PostureInv, UplinkSound, UplinkAsWas
    <2> QED BY <2>1, <2>2, <2>3 DEF UplinkSound, UplinkAsWas
<1>4. ConfirmedOnce'
    BY DEF PostureInv, ConfirmedOnce, UplinkAsWas, Calm
<1>5. CardSound'
    <2>1. Confirmable(app') => Confirmable(app) /\ app'.pose.step = app.pose.step
        BY DEF Calm, Confirmable
    <2> QED BY <1>2, <2>1 DEF PostureInv, CardSound
<1>6. LateSound'
    <2>1. Is(app', "accel", {"requested"}) => ~NowAhead'
        BY <1>2 DEF PostureInv, LateSound, Calm
    <2>0. /\ faults >= 1 => faults' >= 1
          /\ faults >= 2 => faults' >= 2
          /\ faults >= 1 /\ faults' = faults + 1 => faults' >= 2
        BY <1>1
    <2>2. ASSUME "prompt fallback" \in app'.timers, NowAhead'
          PROVE  BothInPlay' /\ faults' >= 1 /\ (mute' => faults' >= 2)
        <3>1. "prompt fallback" \in app.timers /\ NowAhead
            BY <1>2, <2>2 DEF Calm
        <3>2. BothInPlay /\ faults >= 1 /\ (mute => faults >= 2)
            BY <3>1 DEF PostureInv, LateSound
        <3> QED BY <1>2, <2>0, <3>2
    <2>3. ASSUME app'.resumable
          PROVE  Is(app', "accel", {"failed"}) /\ (NowAhead' => faults' >= 1)
        <3>1. Is(app, "accel", {"failed"}) /\ (NowAhead => faults >= 1)
            BY <2>3 DEF Calm, PostureInv, LateSound
        <3> QED BY <1>2, <2>0, <2>3, <3>1 DEF Calm
    <2>4. ASSUME AccelOpen', ~acal'.old, ~Resting'
          PROVE  OnTheWay("accel")' \/ faults' >= 1
        <3>1. OnTheWay("accel") \/ faults >= 1
            BY <1>2, <2>4 DEF PostureInv, LateSound
        <3> QED BY <2>0, <2>4, <3>1 DEF UplinkAsWas
    <2> QED BY <2>1, <2>2, <2>3, <2>4 DEF LateSound
<1>7. (mute' => faults' >= 1) /\ (mistaken' => Excused')
    BY <1>1, <1>2 DEF PostureInv
<1> QED BY <1>3, <1>4, <1>5, <1>6, <1>7 DEF PostureInv

\* The queue as a set of packets.
LEMMA QueueGrows ==
  ASSUME RestType, NEW p \in PacketType, uplink' = Append(uplink, p)
  PROVE  /\ Queued' = Queued \cup {p}
         /\ AccelHeld => AccelHeld'
         /\ ~OnTheWay("confirm") => ConfirmedLast'
<1>1. uplink \in Seq(PacketType) /\ Len(uplink) \in Nat
    BY DEF RestType
<1>2. /\ Len(uplink') = Len(uplink) + 1
      /\ \A i \in 1..Len(uplink) : uplink'[i] = uplink[i]
      /\ uplink'[Len(uplink) + 1] = p
    BY <1>1
<1>3. Queued' = Queued \cup {p}
    BY <1>1, <1>2 DEF Queued
<1>4. AccelHeld => AccelHeld'
    <2> SUFFICES ASSUME AccelHeld PROVE AccelHeld'
        OBVIOUS
    <2>1. uplink # <<>> /\ Len(uplink) # 0
        BY <1>1 DEF AccelHeld
    <2>2. Head(uplink') = Head(uplink) /\ uplink' # <<>>
        BY <1>1, <1>2, <2>1
    <2> QED BY <2>2 DEF AccelHeld
<1>5. ~OnTheWay("confirm") => ConfirmedLast'
    BY <1>1, <1>2 DEF OnTheWay, Queued, ConfirmedLast
<1> QED BY <1>3, <1>4, <1>5

\* The autopilot takes the head; a confirmation is the last of the queue.
LEMMA QueueShrinks ==
  ASSUME RestType, uplink # <<>>, uplink' = Tail(uplink)
  PROVE  /\ Head(uplink) \in PacketType /\ Head(uplink) \in Queued
         /\ Queued' \subseteq Queued /\ Queued \subseteq Queued' \cup {Head(uplink)}
         /\ ConfirmedLast => ConfirmedLast'
         /\ ConfirmedLast /\ Head(uplink).id = "confirm" => Queued' = {}
<1>1. uplink \in Seq(PacketType) /\ Len(uplink) \in Nat /\ Len(uplink) # 0
    BY DEF RestType
<1>2. /\ Len(uplink') = Len(uplink) - 1 /\ Len(uplink') \in Nat
      /\ \A i \in 1..Len(uplink') : uplink'[i] = uplink[i + 1]
      /\ Head(uplink) = uplink[1]
    BY <1>1
<1>3. Head(uplink) \in PacketType /\ Head(uplink) \in Queued
    BY <1>1, <1>2 DEF Queued
<1>4. Queued' \subseteq Queued
    <2> SUFFICES ASSUME NEW i \in 1..Len(uplink') PROVE uplink'[i] \in Queued
        BY DEF Queued
    <2> QED BY <1>1, <1>2 DEF Queued
<1>5. Queued \subseteq Queued' \cup {Head(uplink)}
    <2> SUFFICES ASSUME NEW i \in 1..Len(uplink), i # 1 PROVE uplink[i] \in Queued'
        BY <1>2 DEF Queued
    <2>1. i - 1 \in 1..Len(uplink') /\ uplink'[i - 1] = uplink[i]
        BY <1>1, <1>2
    <2> QED BY <2>1 DEF Queued
<1>6. ConfirmedLast => ConfirmedLast'
    <2> SUFFICES ASSUME ConfirmedLast, NEW i \in 1..Len(uplink'), uplink'[i].id = "confirm"
                 PROVE  i = Len(uplink')
        BY DEF ConfirmedLast
    <2>1. i + 1 \in 1..Len(uplink) /\ uplink[i + 1] = uplink'[i]
        BY <1>1, <1>2
    <2>2. i + 1 = Len(uplink)
        BY <2>1 DEF ConfirmedLast
    <2>3. i \in Nat /\ Len(uplink) \in Nat /\ Len(uplink') = Len(uplink) - 1
        BY <1>1, <1>2
    <2> QED BY <2>2, <2>3
<1>7. ConfirmedLast /\ Head(uplink).id = "confirm" => Queued' = {}
    <2> SUFFICES ASSUME ConfirmedLast, Head(uplink).id = "confirm" PROVE Queued' = {}
        OBVIOUS
    <2>1. 1 \in 1..Len(uplink) /\ uplink[1].id = "confirm"
        BY <1>1, <1>2
    <2>2. Len(uplink) = 1
        BY <2>1 DEF ConfirmedLast
    <2>3. ASSUME NEW i \in 1..Len(uplink') PROVE FALSE
        <3>1. i \in Nat /\ i >= 1 /\ i <= Len(uplink) - 1
            BY <1>1, <1>2
        <3> QED BY <1>1, <2>2, <3>1
    <2> QED BY <2>3 DEF Queued
<1> QED BY <1>3, <1>4, <1>5, <1>6, <1>7

\* A queue that is emptied holds nothing.
LEMMA QueueEmpty ==
  ASSUME uplink' = <<>>
  PROVE  Queued' = {} /\ ConfirmedLast' /\ \A id : ~OnTheWay(id)'
BY DEF Queued, ConfirmedLast, OnTheWay

\* A queue that does not change.
LEMMA QueueStays ==
  ASSUME uplink' = uplink
  PROVE  /\ Queued' = Queued /\ (ConfirmedLast' <=> ConfirmedLast) /\ (AccelHeld' <=> AccelHeld)
         /\ \A id : OnTheWay(id)' <=> OnTheWay(id)
         /\ ConfirmedLast => UplinkAsWas
<1>1. Queued' = Queued /\ (ConfirmedLast' <=> ConfirmedLast) /\ (AccelHeld' <=> AccelHeld)
    BY DEF Queued, ConfirmedLast, AccelHeld
<1>2. \A id : OnTheWay(id)' <=> OnTheWay(id)
    BY <1>1 DEF OnTheWay
<1> QED BY <1>1, <1>2 DEF UplinkAsWas

\* A confirmation that could not be sent was the last of the queue.
LEMMA QueueFront ==
  ASSUME RestType, uplink # <<>>, uplink[Len(uplink)].id = "confirm",
         uplink' = SubSeq(uplink, 1, Len(uplink) - 1)
  PROVE  /\ Queued' \subseteq Queued
         /\ \A p \in Queued : p.id # "confirm" => p \in Queued'
         /\ ConfirmedLast => ConfirmedLast'
         /\ AccelHeld => AccelHeld'
<1>1. uplink \in Seq(PacketType) /\ Len(uplink) \in Nat /\ Len(uplink) # 0
    BY DEF RestType
<1>2. /\ Len(uplink') = Len(uplink) - 1 /\ Len(uplink') \in Nat
      /\ \A i \in 1..Len(uplink') : uplink'[i] = uplink[i]
      /\ uplink' \in Seq(PacketType)
    <2> DEFINE n == Len(uplink) - 1
    <2>1. n \in Int /\ 1 \in Int /\ n >= 0 /\ \A i \in 1..n : uplink[i] \in PacketType
        BY <1>1
    <2>2. uplink' = SubSeq(uplink, 1, n)
        OBVIOUS
    <2> HIDE DEF n
    <2>3. /\ Len(SubSeq(uplink, 1, n)) = IF 1 <= n THEN n - 1 + 1 ELSE 0
          /\ \A i \in 1..(n - 1 + 1) : SubSeq(uplink, 1, n)[i] = uplink[1 + i - 1]
          /\ SubSeq(uplink, 1, n) \in Seq(PacketType)
        BY <2>1, SubSeqProperties
    <2>4. Len(uplink') = n /\ n \in Nat
        BY <2>1, <2>2, <2>3
    <2>5. ASSUME NEW i \in 1..Len(uplink') PROVE uplink'[i] = uplink[i]
        <3>1. i \in 1..(n - 1 + 1) /\ 1 + i - 1 = i
            BY <2>1, <2>4
        <3> QED BY <2>2, <2>3, <3>1
    <2> QED BY <2>2, <2>3, <2>4, <2>5 DEF n
<1>3. Queued' \subseteq Queued
    <2> SUFFICES ASSUME NEW i \in 1..Len(uplink') PROVE uplink'[i] \in Queued
        BY DEF Queued
    <2>1. i \in 1..Len(uplink) /\ uplink'[i] = uplink[i]
        BY <1>1, <1>2
    <2> QED BY <2>1 DEF Queued
<1>4. \A p \in Queued : p.id # "confirm" => p \in Queued'
    <2> SUFFICES ASSUME NEW i \in 1..Len(uplink), uplink[i].id # "confirm"
                 PROVE  uplink[i] \in Queued'
        BY DEF Queued
    <2>1. i # Len(uplink)
        OBVIOUS
    <2>2. i \in 1..Len(uplink') /\ uplink'[i] = uplink[i]
        BY <1>1, <1>2, <2>1
    <2> QED BY <2>2 DEF Queued
<1>5. ConfirmedLast => ConfirmedLast'
    <2> SUFFICES ASSUME ConfirmedLast, NEW i \in 1..Len(uplink'), uplink'[i].id = "confirm"
                 PROVE  FALSE
        BY DEF ConfirmedLast
    <2>1. i \in 1..Len(uplink) /\ uplink'[i] = uplink[i]
        BY <1>1, <1>2
    <2>2. i = Len(uplink)
        BY <2>1 DEF ConfirmedLast
    <2>3. i \in Nat /\ i <= Len(uplink) - 1
        BY <1>1, <1>2
    <2> QED BY <1>1, <2>2, <2>3
<1>6. AccelHeld => AccelHeld'
    <2> SUFFICES ASSUME AccelHeld PROVE AccelHeld'
        OBVIOUS
    <2>1. Head(uplink) = uplink[1] /\ Len(uplink) # 1
        BY <1>1 DEF AccelHeld
    <2>2. Len(uplink') >= 1
        BY <1>1, <1>2, <2>1
    <2>3. \A q \in Seq(PacketType) : Len(q) >= 1 => q # <<>> /\ Head(q) = q[1]
        OBVIOUS
    <2>4. uplink' # <<>> /\ Head(uplink') = uplink'[1]
        BY <1>2, <2>2, <2>3
    <2>5. 1 \in 1..Len(uplink')
        BY <1>2, <2>2
    <2> QED BY <1>2, <2>1, <2>4, <2>5 DEF AccelHeld
<1> QED BY <1>3, <1>4, <1>5, <1>6

\* A held command stays where it is.
LEMMA QueueBeat ==
  ASSUME RestType, uplink # <<>>, Head(uplink).id # "confirm",
         uplink' = [uplink EXCEPT ![1].beat = TRUE]
  PROVE  /\ \A id : OnTheWay(id)' <=> OnTheWay(id)
         /\ \A p \in Queued' : p.id = "confirm" => p \in Queued
         /\ ConfirmedLast => ConfirmedLast'
         /\ AccelHeld' <=> Head(uplink).id = "accel"
<1>1. uplink \in Seq(PacketType) /\ Len(uplink) \in Nat /\ Len(uplink) # 0
    BY DEF RestType
<1>2. uplink[1] \in PacketType /\ Head(uplink) = uplink[1]
    BY <1>1
<1> DEFINE b == [uplink[1] EXCEPT !.beat = TRUE]
<1>3. b \in PacketType /\ b.id = uplink[1].id /\ b.beat = TRUE
    BY <1>2 DEF PacketType
<1>4. uplink' = [uplink EXCEPT ![1] = b]
    OBVIOUS
<1> HIDE DEF b
<1>5. /\ Len(uplink') = Len(uplink) /\ uplink'[1] = b
      /\ \A i \in 1..Len(uplink) : i # 1 => uplink'[i] = uplink[i]
      /\ uplink' \in Seq(PacketType)
    <2>1. 1 \in 1..Len(uplink)
        BY <1>1
    <2>2. /\ [uplink EXCEPT ![1] = b] \in Seq(PacketType)
          /\ Len([uplink EXCEPT ![1] = b]) = Len(uplink)
          /\ \A i \in 1..Len(uplink) :
               [uplink EXCEPT ![1] = b][i] = IF i = 1 THEN b ELSE uplink[i]
        BY <1>1, <1>3, <2>1, ExceptSeq
    <2> QED BY <1>4, <2>1, <2>2
<1>6. \A i \in 1..Len(uplink) : uplink'[i].id = uplink[i].id
    BY <1>3, <1>5
<1>7. ASSUME NEW id PROVE OnTheWay(id)' <=> OnTheWay(id)
    <2>1. OnTheWay(id) <=> \E i \in 1..Len(uplink) : uplink[i].id = id
        BY DEF OnTheWay, Queued
    <2>2. OnTheWay(id)' <=> \E i \in 1..Len(uplink') : uplink'[i].id = id
        BY DEF OnTheWay, Queued
    <2> QED BY <1>5, <1>6, <2>1, <2>2
<1>8. \A p \in Queued' : p.id = "confirm" => p \in Queued
    BY <1>2, <1>3, <1>5 DEF Queued
<1>9. ConfirmedLast => ConfirmedLast'
    BY <1>5, <1>6 DEF ConfirmedLast
<1>10. Head(uplink') = b /\ uplink' # <<>>
    BY <1>1, <1>5
<1>11. AccelHeld' <=> Head(uplink).id = "accel"
    BY <1>2, <1>3, <1>10 DEF AccelHeld
<1> QED BY <1>7, <1>8, <1>9, <1>11

(* Steps that only let time pass for a calibration.                        *)
JRest == VerdictInv /\ ReportInv /\ PostureInv

\* The step of a handler that leaves the calibrations as they were.
LEMMA QuietStep ==
  ASSUME JInv, RestType', AsWas(app, app'),
         UNCHANGED <<calls, acal, mcal, runs, hollow, mistaken>>,
         UplinkAsWas, AccelHeld => AccelHeld',
         faults' \in {faults, faults + 1}, mute' => mute \/ faults' = faults + 1
  PROVE  JRest'
<1>1. RestType /\ VerdictInv /\ ReportInv /\ PostureInv
    BY DEF JInv, IInv
<1>2. VerdictInv'
    <2>1. /\ Begun' => Begun
          /\ OnTheWay("level")' => OnTheWay("level")
          /\ Noted' => Noted
        BY DEF UplinkAsWas, Begun, AccelAwaited, Noted
    <2>2. HasVerdict' => HasVerdict
        BY DEF HasVerdict
    <2> QED BY <1>1, <2>1, <2>2, VerdictFrame DEF AsWas
<1>3. ReportInv'
    <2>1. \A k \in calls' : k.id = "compass" =>
           /\ k.result # "noted"
           /\ k.result = "accepted" =>
                \E j \in calls : j.id = "compass" /\ j.result = "accepted"
        BY <1>1 DEF ReportInv
    <2> QED BY <1>1, <2>1, ReportFrame DEF AsWas
<1>4. PostureInv'
    <2>1. (AccelOpen' => AccelOpen) /\ CallsOpen'
        BY <1>1 DEF AccelOpen, PostureInv, CallsOpen
    <2> QED BY <1>1, <2>1, PostureFrame DEF AsWas
<1> QED BY <1>2, <1>3, <1>4 DEF JRest

\* The same, when nothing moves on the way to the autopilot.
LEMMA AppStep ==
  ASSUME JInv, RestType', AsWas(app, app'),
         UNCHANGED <<calls, uplink, acal, mcal, mute, runs, hollow, mistaken>>,
         faults' \in {faults, faults + 1}
  PROVE  JRest'
<1>1. ConfirmedLast
    BY DEF JInv, PostureInv, UplinkSound
<1>2. UplinkAsWas /\ (AccelHeld => AccelHeld')
    BY <1>1, QueueStays
<1> QED BY <1>2, QuietStep

\* A fault is counted.
LEMMA FaultAdds ==
  ASSUME NEW kind, Fault(kind)
  PROVE  faults' \in {faults, faults + 1} /\ faults' = faults + 1
BY DEF Fault

\* A cancel is nobody's concern but the compass's.
LEMMA CancelOnTheWay ==
  ASSUME RestType, RestType', ConfirmedLast, ~OnTheWay("confirm"),
         NEW p \in PacketType, p.id \notin {"accel", "level", "confirm"},
         uplink' = Append(uplink, p)
  PROVE  UplinkAsWas /\ (AccelHeld => AccelHeld')
<1>1. Queued' = Queued \cup {p} /\ ConfirmedLast' /\ (AccelHeld => AccelHeld')
    BY QueueGrows
<1>2. \A id \in {"accel", "level", "confirm"} : OnTheWay(id)' <=> OnTheWay(id)
    BY <1>1 DEF OnTheWay
<1> QED BY <1>1, <1>2 DEF UplinkAsWas

\* Confirming speaks of the same packets.
LEMMA NotConfirming ==
  ASSUME ~Confirming
  PROVE  ~OnTheWay("confirm")
BY DEF Confirming, OnTheWay, Queued

\* Timers, but for the warm-up fallback.
LEMMA TimerStep ==
  ASSUME JInv, TimerFires, ~Confirming, ~PromptFallbackFires, RestType'
  PROVE  JRest'
<1>0. app \in AppType /\ RestType /\ ConfirmedLast /\ ~OnTheWay("confirm")
    BY NotConfirming DEF JInv, IInv, PostureInv, UplinkSound
<1>1. CASE PromptWatchdogFires
    <2>1. AsWas(app, app')
        BY <1>0, <1>1, FailAccelAsWas, DisarmAsWas DEF PromptWatchdogFires, Is
    <2> QED BY <1>1, <2>1, AppStep DEF PromptWatchdogFires, Armed, vehicleVars, historyVars
<1>2. CASE StepAdvanceFires
    <2> DEFINE mine == app.pose.step = app.advance /\ Is(app, "accel", {"running"})
               cta == app.cta /\ ~mine
               pose == IF mine /\ app.pose.step = Postures - 1
                         THEN [app.pose EXCEPT !.waiting = TRUE, !.prompted = FALSE]
                         ELSE app.pose
    <2>1. app' = [app EXCEPT !.advance = NoStep, !.cta = cta, !.pose = pose]
        BY <1>0, <1>2 DEF StepAdvanceFires, AppType
    <2>2. cta => app.cta
        OBVIOUS
    <2>3. /\ pose.step = app.pose.step /\ (pose.prompted => app.pose.prompted)
          /\ pose # NoPose => app.pose # NoPose
        <3>1. app.pose \in PoseType
            BY <1>0 DEF AppType
        <3>2. CASE pose = app.pose
            BY <3>2
        <3>3. CASE pose # app.pose
            <4>1. mine /\ app.pose.step = Postures - 1
                BY <3>3
            <4>2. pose.step = app.pose.step /\ pose.prompted = FALSE
                BY <3>1, <4>1 DEF PoseType
            <4>3. app.pose # NoPose
                BY <4>1, PosturesAssumption DEF NoPose, NoStep
            <4> QED BY <4>2, <4>3
        <3> QED BY <3>2, <3>3
    <2> HIDE DEF cta, pose, mine
    <2>4. /\ app'.status = app.status /\ app'.timers = app.timers /\ app'.pose = pose
          /\ app'.cta = cta /\ app'.resumable = app.resumable
          /\ app'.cancelling = app.cancelling
        BY <1>0, <2>1 DEF AppType
    <2>5. AsWas(app, app')
        BY <2>2, <2>3, <2>4
        DEF AsWas, Calm, AccelAsWas, CompassAsWas, Collects, Confirmable, Is
    <2> QED BY <1>2, <2>5, AppStep DEF StepAdvanceFires, vehicleVars, historyVars
<1>3. ASSUME GuidanceFires \/ ReportWatchdogFires PROVE JRest'
    <2> DEFINE e == [app EXCEPT !.reports = NoReports]
    <2>1. /\ e \in AppType /\ e.status = app.status /\ e.timers = app.timers
          /\ e.pose = app.pose /\ e.cta = app.cta /\ e.resumable = app.resumable
          /\ e.cancelling = app.cancelling
        BY <1>0 DEF AppType, NoReports
    <2>2. AsWas(app, e)
        BY <1>0, <2>1, ClearedAsWas
    <2> HIDE DEF e
    <2>3. "compass" \in Ids => /\ AsWas(app, FailAction(app, "compass"))
                               /\ AsWas(app, FailAction(e, "compass"))
        <3>1. "compass" \in Ids => /\ AsWas(app, FailAction(app, "compass"))
                                   /\ AsWas(e, FailAction(e, "compass"))
            BY <1>0, <2>1, FailActionAsWas
        <3> QED BY <2>2, <3>1, AsWasTransitive
    <2>4. AsWas(app, Disarm(app, "guidance")) /\ AsWas(app, Disarm(app, "report watchdog"))
        BY <1>0, DisarmAsWas
    <2>5. AsWas(app, app')
        BY <1>3, <2>3, <2>4
        DEF GuidanceFires, ReportWatchdogFires, Active, IsActive, Is, e
    <2>6. UplinkAsWas /\ (AccelHeld => AccelHeld')
        <3>1. uplink' = uplink \/ uplink' = Append(uplink, Packet("cancel", 0, NoStep))
            BY <1>3 DEF GuidanceFires, ReportWatchdogFires, CancelOnboard
        <3>2. Packet("cancel", 0, NoStep) \in PacketType /\ Packet("cancel", 0, NoStep).id = "cancel"
            BY PoseTypes, BoundsAssumption DEF Packet, PacketType
        <3>3. CASE uplink' = uplink
            BY <1>0, <3>3, QueueStays
        <3>4. CASE uplink' = Append(uplink, Packet("cancel", 0, NoStep))
            BY <1>0, <3>2, <3>4, CancelOnTheWay
        <3> QED BY <3>1, <3>3, <3>4
    <2>7. UNCHANGED <<calls, acal, mcal, mute, runs, faults, hollow, mistaken>>
        BY <1>3 DEF GuidanceFires, ReportWatchdogFires, Armed, vehicleVars, historyVars
    <2> QED BY <2>5, <2>6, <2>7, QuietStep
<1>4. CASE LateWindowCloses
    <2>1. /\ app' \in AppType /\ app'.status = app.status /\ app'.timers = app.timers
          /\ app'.pose = app.pose /\ app'.cta = app.cta /\ app'.resumable = FALSE
          /\ app'.cancelling = app.cancelling
        BY <1>0, <1>4 DEF LateWindowCloses, AppType
    <2>2. AsWas(app, app')
        BY <1>0, <2>1, ClearedAsWas
    <2> QED BY <1>4, <2>2, AppStep DEF LateWindowCloses, vehicleVars, historyVars
<1> QED BY <1>1, <1>2, <1>3, <1>4 DEF TimerFires

\* The fallback of the warm-up shows the first posture, to an autopilot that
\* asks for it, or that is mute after another fault.
LEMMA FallbackStep ==
  ASSUME JInv, PromptFallbackFires, ~Confirming, RestType'
  PROVE  JRest'
<1>0. /\ app \in AppType /\ RestType /\ ConfirmedLast /\ ~OnTheWay("confirm") /\ Sound(app)
      /\ VerdictInv /\ ReportInv /\ PostureInv
    BY NotConfirming DEF JInv, IInv, PostureInv, UplinkSound
<1> DEFINE d == Disarm(app, "prompt fallback")
<1>1. d \in AppType /\ AsWas(app, d)
    BY <1>0, DisarmAsWas
<1>2. UNCHANGED <<calls, uplink, acal, mcal, mute, runs, faults, hollow, mistaken>>
    BY DEF PromptFallbackFires, Armed, vehicleVars, historyVars
<1>3. CASE app' = d
    BY <1>1, <1>2, <1>3, AppStep
<1>4. CASE app' # d
    <2>1. app.pose.step = 0 /\ app' = ShowPosture(d) /\ WarmUpOver
          /\ "prompt fallback" \in app.timers
        BY <1>4 DEF PromptFallbackFires, Armed
    <2>2. app.pose # NoPose
        <3>1. NoPose.step # 0
            BY PosturesAssumption DEF NoPose, NoStep
        <3> QED BY <2>1, <3>1
    <2>3. Is(app, "accel", {"running"}) /\ "accel" \in Ids
        BY <1>0, <2>2 DEF Sound, Is
    <2>4. /\ d.status = app.status /\ d.pose = app.pose /\ d.resumable = app.resumable
          /\ d.cancelling = app.cancelling /\ d.timers = app.timers \ {"prompt fallback"}
        BY <1>0 DEF Disarm, AppType
    <2> HIDE DEF d
    <2>5. /\ app'.status = [app.status EXCEPT !["accel"] = "running"]
          /\ app'.pose = app.pose /\ app'.resumable = app.resumable
          /\ app'.cancelling = app.cancelling /\ "prompt fallback" \notin app'.timers
        BY <1>1, <2>1, <2>4 DEF ShowPosture, AppType
    <2>6. app'.status = app.status
        <3>1. app.status["accel"] = "running"
            BY <2>3 DEF Is
        <3>2. [app.status EXCEPT !["accel"] = "running"] = app.status
            BY <1>0, <2>3, <3>1 DEF AppType
        <3> QED BY <2>5, <3>2
    <2>7. AccelAsWas(app, app') /\ CompassAsWas(app, app')
        BY <2>5, <2>6 DEF AccelAsWas, CompassAsWas, Collects, Is
    <2>8. /\ Queued' = Queued /\ ConfirmedLast' /\ (AccelHeld' <=> AccelHeld)
          /\ \A id : OnTheWay(id)' <=> OnTheWay(id)
        BY <1>0, <1>2, QueueStays
    <2>9. VerdictInv'
        <3>1. /\ Begun' => Begun
              /\ OnTheWay("level")' => OnTheWay("level")
              /\ Noted' => Noted
              /\ HasVerdict' => HasVerdict
            BY <1>2, <2>8 DEF Begun, AccelAwaited, Noted, HasVerdict
        <3> QED BY <1>0, <1>2, <2>7, <2>8, <3>1, VerdictFrame
    <2>10. ReportInv'
        <3>1. \A k \in calls' : k.id = "compass" =>
               /\ k.result # "noted"
               /\ k.result = "accepted" =>
                    \E j \in calls : j.id = "compass" /\ j.result = "accepted"
            BY <1>0, <1>2 DEF ReportInv
        <3> QED BY <1>0, <1>2, <2>7, <3>1, ReportFrame
    <2>11. PostureInv'
        <3>1. /\ Resting' <=> Resting
              /\ NowAhead' <=> NowAhead
              /\ AccelOpen' <=> AccelOpen
              /\ CallsOpen' <=> CallsOpen
              /\ Excused' <=> Excused
            BY <1>2 DEF Resting, NowAhead, Ahead, AccelOpen, CallsOpen, Excused, BothInPlay
        <3>2. UplinkSound'
            BY <1>0, <1>2, <2>5, <2>8, <3>1 DEF PostureInv, UplinkSound
        <3>3. ConfirmedOnce'
            BY <1>0, <2>8 DEF ConfirmedOnce
        <3>4. CardSound'
            <4>1. acal.phase # "sampling" /\ (acal.phase = "asking" /\ ~mute => acal.step = 0)
                BY <2>1 DEF WarmUpOver
            <4>2. acal.phase = "asking" /\ ~acal.old => acal.step = 0 \/ Excused
                BY <1>0, <2>1, <4>1 DEF PostureInv, LateSound, NowAhead, Ahead, Excused
            <4> QED BY <1>2, <2>1, <2>5, <3>1, <4>1, <4>2 DEF CardSound
        <3>5. LateSound'
            <4>1. ~Is(app', "accel", {"requested"})
                BY <2>3, <2>6 DEF Is
            <4>2. ~app'.resumable
                BY <1>0, <2>3, <2>5 DEF PostureInv, LateSound, Is
            <4> QED BY <1>0, <1>2, <2>5, <2>8, <3>1, <4>1, <4>2 DEF PostureInv, LateSound
        <3> QED BY <1>0, <1>2, <3>1, <3>2, <3>3, <3>4, <3>5 DEF PostureInv
    <2> QED BY <2>9, <2>10, <2>11 DEF JRest
<1> QED BY <1>3, <1>4

\* What a start puts on its way.
LEMMA StartStep ==
  ASSUME JInv, RestType', NoMicrotask, ~Confirming, NEW a \in Ids, Start(a)
  PROVE  JRest'
<1>0. /\ app \in AppType /\ RestType /\ ConfirmedLast /\ ~OnTheWay("confirm") /\ Sound(app)
      /\ VerdictInv /\ ReportInv /\ PostureInv
    BY NotConfirming DEF JInv, IInv, PostureInv, UplinkSound
<1> DEFINE p == Packet(a, runs + 1, NoStep)
           k0 == [id |-> a, run |-> runs + 1, result |-> "pending"]
<1>1. /\ app' = Request(app, a) /\ runs' = runs + 1 /\ runs \in Nat /\ runs' \in Nat
      /\ calls' = calls \cup {k0} /\ uplink' = Append(uplink, p)
      /\ hollow' = hollow \ {a} /\ mistaken' = mistaken /\ mute' = mute /\ faults' = faults
    BY <1>0, Numbers DEF Start, SendAndWait
<1>2. a \in Ids /\ a # "confirm" /\ p.id = a /\ p \in PacketType
    <2>1. runs + 1 \in 0..MaxRuns
        BY <1>0, <1>1 DEF Start, RestType
    <2> QED BY <2>1, PoseTypes, IdsAssumption DEF Packet, PacketType
<1>3. k0.id = a /\ k0.result = "pending"
    OBVIOUS
<1> HIDE DEF p, k0
<1>4. Queued' = Queued \cup {p} /\ ConfirmedLast' /\ (AccelHeld => AccelHeld')
    BY <1>0, <1>1, <1>2, QueueGrows
<1>5. \A id : OnTheWay(id)' <=> OnTheWay(id) \/ id = a
    BY <1>2, <1>4 DEF OnTheWay
<1>6. /\ acal'.phase = acal.phase /\ acal'.step = acal.step
      /\ a # "accel" => acal'.old = acal.old
      /\ a = "accel" => acal'.old = (acal.old \/ acal.phase # "off")
    BY <1>0 DEF Start, Age, RestType
<1>7. /\ \A i \in Compasses : mcal'[i].phase = mcal[i].phase
      /\ a # "compass" => \A i \in Compasses : mcal'[i].old = mcal[i].old
      /\ \A i \in Compasses : mcal[i].phase = "running" => mcal'[i].old = mcal[i].old
    BY <1>0 DEF Start, Age, RestType
<1>8. /\ Noted' <=> Noted
      /\ AccelAwaited' <=> AccelAwaited \/ a = "accel"
      /\ AccelOpen' <=> AccelOpen \/ a = "accel"
      /\ CallsOpen' <=> CallsOpen
    BY <1>1, <1>3 DEF Noted, AccelAwaited, AccelOpen, CallsOpen, Unsettled
<1>9. ~Is(app, a, {"running"}) /\ CompassAsWas(app, app')
      /\ (a # "accel" => AccelAsWas(app, app') /\ Calm(app, app'))
    BY <1>0, <1>1, RequestEffect DEF Start, Active, IsActive, Is
<1>10. a = "accel" =>
         /\ Is(app', "accel", {"requested"}) /\ ~app'.cta /\ ~app'.resumable
         /\ app'.pose = app.pose /\ app.pose = NoPose
         /\ "prompt fallback" \in app'.timers => "prompt fallback" \in app.timers
    BY <1>0, <1>1, <1>9, RequestEffect DEF Sound
<1>11. /\ Resting' <=> Resting
       /\ Ahead' <=> Ahead
       /\ HasVerdict' <=> HasVerdict
       /\ Excused' <=> Excused
       /\ NowAhead' => NowAhead
       /\ a = "accel" => ~NowAhead' /\ (Resting \/ acal'.old)
    BY <1>1, <1>6 DEF Resting, Ahead, HasVerdict, Excused, BothInPlay, NowAhead
<1>12. BothInPlay' <=> BothInPlay
    BY DEF BothInPlay
<1>13. VerdictInv'
    <2>1. \A n \in Nat : Shared(n) => Shared(n)' /\ Shared(n + 1)'
        BY <1>1, <1>12 DEF Shared
    <2>2. Begun' => Begun \/ a = "accel"
        BY <1>5, <1>6, <1>8 DEF Begun
    <2>3. Begun => runs >= 1 /\ "accel" \in Ids
        BY <1>0 DEF VerdictInv, Counted
    <2>4. acal'.old => acal.old \/ (a = "accel" /\ Begun)
        BY <1>6 DEF Begun
    <2>5. Counted'
        <3>1. Begun' => "accel" \in Ids /\ runs' >= 1
            BY <1>1, <1>2, <2>2, <2>3
        <3>2. OnTheWay("level")' => runs' >= 1
            BY <1>1
        <3>3. ASSUME OnTheWay("level")', Begun' PROVE runs' >= 2
            <4>1. runs >= 1
                BY <1>0, <1>5, <2>2, <3>3, <2>3 DEF VerdictInv, Counted
            <4> QED BY <1>1, <4>1
        <3>4. ASSUME acal'.old PROVE runs' >= 2
            <4>1. runs >= 1
                BY <1>0, <1>1, <2>3, <2>4, <3>4 DEF VerdictInv, Counted
            <4> QED BY <1>1, <4>1
        <3>5. ASSUME acal'.old, OnTheWay("level")' PROVE runs' >= 3
            <4>1. runs >= 2
                <5>1. CASE a = "accel"
                    BY <1>0, <1>1, <1>5, <2>4, <3>5, <5>1 DEF VerdictInv, Counted
                <5>2. CASE a # "accel"
                    BY <1>0, <1>6, <3>5, <5>2 DEF VerdictInv, Counted
                <5> QED BY <5>1, <5>2
            <4> QED BY <1>1, <4>1
        <3> QED BY <3>1, <3>2, <3>3, <3>4, <3>5 DEF Counted
    <2>6. NotedInTime'
        <3> SUFFICES ASSUME Noted', HasVerdict'
                     PROVE  AccelHeld' \/ (Shared(2)' /\ (acal'.old => Shared(3)'))
            BY DEF NotedInTime
        <3>1. AccelHeld \/ Shared(2)
            BY <1>0, <1>8, <1>11 DEF VerdictInv, NotedInTime
        <3>2. Shared(2) => Shared(2)' /\ Shared(3)'
            BY <2>1
        <3> QED BY <1>4, <3>1, <3>2
    <2>7. RunsInTime'
        <3> SUFFICES ASSUME Is(app', "accel", {"running"}), acal'.old, HasVerdict'
                     PROVE  AccelHeld' \/ Shared(3)'
            BY DEF RunsInTime
        <3>1. a # "accel"
            BY <1>10 DEF Is
        <3>2. AccelHeld \/ Shared(3)
            BY <1>0, <1>6, <1>9, <1>11, <3>1 DEF VerdictInv, RunsInTime, AccelAsWas
        <3> QED BY <1>4, <2>1, <3>2
    <2>8. hollow' \subseteq hollow
        BY <1>1
    <2> QED BY <1>0, <2>1, <2>5, <2>6, <2>7, <2>8 DEF VerdictInv
<1>14. ReportInv'
    <2>1. \A k \in calls' : k.result # "accepted"
        BY <1>1, <1>3 DEF NoMicrotask, Unsettled
    <2>2. a # "compass" => (FreshCompasses' <=> FreshCompasses)
        BY <1>7 DEF FreshCompasses
    <2>3. a = "compass" => ~Collects(app')
        BY <1>0, <1>9 DEF CompassAsWas, Collects
    <2>4. Collects(app') => FreshCompasses'
        BY <1>0, <1>9, <2>2, <2>3 DEF ReportInv, CompassAsWas
    <2>5. \A k \in calls' : k.id = "compass" => k.result # "noted"
        BY <1>0, <1>1, <1>3 DEF ReportInv
    <2>6. \A i \in Compasses : mcal'[i].phase = "running" => ~mcal'[i].old
        BY <1>0, <1>7 DEF ReportInv
    <2> QED BY <2>1, <2>4, <2>5, <2>6 DEF ReportInv
<1>15. PostureInv'
    <2>1. UplinkSound'
        <3>1. OnTheWay("accel")' => ~NowAhead'
            BY <1>0, <1>5, <1>11 DEF PostureInv, UplinkSound
        <3>2. OnTheWay("accel")' /\ Resting' /\ app'.pose # NoPose => app'.pose.step = 0
            BY <1>0, <1>5, <1>9, <1>10, <1>11 DEF PostureInv, UplinkSound, Calm
        <3>3. \A q \in Queued' : q.id # "confirm"
            BY <1>0, <1>2, <1>4 DEF OnTheWay
        <3> QED BY <1>4, <3>1, <3>2, <3>3 DEF UplinkSound
    <2>2. ConfirmedOnce'
        BY <1>0, <1>2, <1>5 DEF ConfirmedOnce
    <2>3. /\ Confirmable(app') => Confirmable(app) /\ app'.pose.step = app.pose.step
        BY <1>9, <1>10 DEF Calm, Confirmable
    <2>4. CardSound'
        BY <1>0, <1>6, <1>9, <1>10, <1>11, <2>3 DEF PostureInv, CardSound, Confirmable
    <2>5. LateSound'
        <3>1. Is(app', "accel", {"requested"}) => ~NowAhead'
            BY <1>0, <1>9, <1>11 DEF PostureInv, LateSound, Calm
        <3>2. "prompt fallback" \in app'.timers /\ NowAhead' =>
                BothInPlay' /\ faults' >= 1 /\ (mute' => faults' >= 2)
            BY <1>0, <1>1, <1>9, <1>10, <1>11, <1>12 DEF PostureInv, LateSound, Calm
        <3>3. app'.resumable => Is(app', "accel", {"failed"}) /\ (NowAhead' => faults' >= 1)
            BY <1>0, <1>1, <1>9, <1>10, <1>11 DEF PostureInv, LateSound, Calm
        <3>4. AccelOpen' /\ ~acal'.old /\ ~Resting' => OnTheWay("accel")' \/ faults' >= 1
            BY <1>0, <1>1, <1>5, <1>6, <1>8, <1>11 DEF PostureInv, LateSound
        <3> QED BY <3>1, <3>2, <3>3, <3>4 DEF LateSound
    <2>6. (mute' => faults' >= 1) /\ (mistaken' => Excused') /\ CallsOpen'
        BY <1>0, <1>1, <1>8, <1>11 DEF PostureInv
    <2> QED BY <2>1, <2>2, <2>4, <2>5, <2>6 DEF PostureInv
<1> QED BY <1>13, <1>14, <1>15 DEF JRest

\* A confirmation is given for the posture that the card shows.
LEMMA AdvanceStep ==
  ASSUME JInv, RestType', ~Confirming, NEW auto \in BOOLEAN, Confirmable(app), Advance(auto)
  PROVE  JRest'
<1>0. /\ app \in AppType /\ RestType /\ ConfirmedLast /\ ~OnTheWay("confirm") /\ Sound(app)
      /\ VerdictInv /\ ReportInv /\ PostureInv
    BY NotConfirming DEF JInv, IInv, PostureInv, UplinkSound
<1> DEFINE p == Packet("confirm", 0, app.pose.step)
           e == [step |-> app.pose.step, waiting |-> FALSE, prompted |-> FALSE]
<1>1. Is(app, "accel", {"running"}) /\ "accel" \in Ids /\ app.pose # NoPose
    BY <1>0 DEF Sound, Is, Confirmable
<1>2. p \in PacketType /\ p.id = "confirm" /\ p.step = app.pose.step
    BY <1>0, BoundsAssumption DEF Packet, PacketType, AppType, PoseType
<1>3. /\ app'.status = [app.status EXCEPT !["accel"] = "running"] /\ app'.cta = FALSE
      /\ app'.pose = e /\ app'.resumable = app.resumable
      /\ app'.cancelling = app.cancelling
      /\ app'.timers = app.timers \ {"prompt fallback"}
    BY <1>0 DEF Advance, AppType
<1>4. app'.status = app.status
    <2>1. app.status["accel"] = "running"
        BY <1>1 DEF Is
    <2>2. [app.status EXCEPT !["accel"] = "running"] = app.status
        BY <1>0, <1>1, <2>1 DEF AppType
    <2> QED BY <1>3, <2>2
<1>5. uplink' = Append(uplink, p)
    BY DEF Advance
<1>6. UNCHANGED <<calls, acal, mcal, mute, runs, faults, hollow, mistaken>>
    BY DEF Advance, vehicleVars, historyVars
<1>7. e.step = app.pose.step /\ e.prompted = FALSE
    OBVIOUS
<1> HIDE DEF p, e
<1>8. ~Confirmable(app') /\ app'.pose.step = app.pose.step
    BY <1>3, <1>7 DEF Confirmable
<1>9. /\ AccelAsWas(app, app') /\ CompassAsWas(app, app')
      /\ ~Is(app', "accel", {"requested"}) /\ ~app'.resumable
      /\ "prompt fallback" \notin app'.timers
    BY <1>0, <1>1, <1>3, <1>4
    DEF AccelAsWas, CompassAsWas, Collects, Is, PostureInv, LateSound
<1>10. Queued' = Queued \cup {p} /\ ConfirmedLast' /\ (AccelHeld => AccelHeld')
    BY <1>0, <1>2, <1>5, QueueGrows
<1>11. \A id : id # "confirm" => (OnTheWay(id)' <=> OnTheWay(id))
    BY <1>2, <1>10 DEF OnTheWay
<1>12. VerdictInv'
    <2>1. /\ Begun' => Begun
          /\ OnTheWay("level")' => OnTheWay("level")
          /\ Noted' => Noted
          /\ HasVerdict' => HasVerdict
        BY <1>6, <1>11 DEF Begun, AccelAwaited, Noted, HasVerdict
    <2> QED BY <1>0, <1>6, <1>9, <1>10, <2>1, VerdictFrame
<1>13. ReportInv'
    <2>1. \A k \in calls' : k.id = "compass" =>
           /\ k.result # "noted"
           /\ k.result = "accepted" =>
                \E j \in calls : j.id = "compass" /\ j.result = "accepted"
        BY <1>0, <1>6 DEF ReportInv
    <2> QED BY <1>0, <1>6, <1>9, <2>1, ReportFrame
<1>14. PostureInv'
    <2>1. /\ Resting' <=> Resting
          /\ NowAhead' <=> NowAhead
          /\ AccelOpen' <=> AccelOpen
          /\ CallsOpen' <=> CallsOpen
          /\ Excused' <=> Excused
        BY <1>6 DEF Resting, NowAhead, Ahead, AccelOpen, CallsOpen, Excused, BothInPlay
    <2>2. UplinkSound'
        <3>1. OnTheWay("accel")' => ~NowAhead'
            BY <1>0, <1>11, <2>1 DEF PostureInv, UplinkSound
        <3>2. OnTheWay("accel")' /\ Resting' => app.pose.step = 0
            BY <1>0, <1>1, <1>11, <2>1 DEF PostureInv, UplinkSound
        <3>3. acal'.phase = "asking" /\ ~acal'.old => app.pose.step = acal'.step \/ Excused'
            BY <1>0, <1>6, <2>1 DEF PostureInv, CardSound
        <3>4. \A q \in Queued' : q.id = "confirm" => q.step = app.pose.step
            BY <1>0, <1>2, <1>10 DEF OnTheWay
        <3> QED BY <1>8, <1>10, <3>1, <3>2, <3>3, <3>4 DEF UplinkSound
    <2>3. ConfirmedOnce'
        <3>1. acal'.phase # "sampling"
            BY <1>0, <1>6 DEF PostureInv, CardSound
        <3> QED BY <1>8, <1>9, <3>1 DEF ConfirmedOnce
    <2>4. CardSound'
        BY <1>8 DEF CardSound
    <2>5. LateSound'
        BY <1>0, <1>6, <1>9, <1>11, <2>1 DEF PostureInv, LateSound
    <2> QED BY <1>0, <1>6, <2>1, <2>2, <2>3, <2>4, <2>5 DEF PostureInv
<1> QED BY <1>12, <1>13, <1>14 DEF JRest

\* What the operator does.
LEMMA OperatorStep ==
  ASSUME JInv, RestType', NoMicrotask, ~Confirming, Operator
  PROVE  JRest'
<1>0. /\ app \in AppType /\ RestType /\ ConfirmedLast /\ ~OnTheWay("confirm") /\ Sound(app)
      /\ VerdictInv /\ ReportInv /\ PostureInv
    BY NotConfirming DEF JInv, IInv, PostureInv, UplinkSound
<1>1. ASSUME NEW a \in Ids, Start(a) PROVE JRest'
    BY <1>1, StartStep
<1>2. CASE StartWithoutCompass
    <2>1. AsWas(app, app')
        BY <1>0, <1>2, FailActionAsWas DEF StartWithoutCompass
    <2> QED BY <1>2, <2>1, AppStep DEF StartWithoutCompass, vehicleVars, historyVars
<1>3. CASE Confirm
    BY <1>3, AdvanceStep DEF Confirm, Confirmable
<1>4. CASE HoldBegins \/ HoldEnds
    <2>1. /\ app'.status = app.status /\ app'.timers = app.timers
          /\ app'.pose = app.pose /\ app'.cta = app.cta
          /\ app'.resumable = app.resumable /\ app'.cancelling = app.cancelling
        BY <1>0, <1>4 DEF HoldBegins, HoldEnds, AppType
    <2>2. AsWas(app, app')
        BY <2>1 DEF AsWas, Calm, AccelAsWas, CompassAsWas, Collects, Confirmable, Is
    <2> QED BY <1>4, <2>2, AppStep DEF HoldBegins, HoldEnds, vehicleVars, historyVars
<1>5. CASE AutoConfirm
    BY <1>5, AdvanceStep DEF AutoConfirm, AutoConfirmable, Confirmable
<1>6. ASSUME NEW a \in Cancellable, Cancel(a) PROVE JRest'
    <2>0. a \in Ids
        BY IdsAssumption
    <2> DEFINE b == DropPose(app)
               e == [b EXCEPT !.resumable = FALSE,
                              !.timers = @ \ {"prompt watchdog", "prompt fallback"}]
    <2>1. b \in AppType /\ AsWas(app, b)
        BY <1>0, DropPoseAsWas
    <2> HIDE DEF b
    <2>2. /\ e \in AppType /\ e.pose = b.pose /\ e.cta = b.cta /\ e.resumable = FALSE
          /\ e.status = b.status /\ e.cancelling = b.cancelling
          /\ e.timers = b.timers \ {"prompt watchdog", "prompt fallback"}
        BY <2>1 DEF AppType
    <2> HIDE DEF e
    <2>3. AsWas(b, e)
        BY <2>1, <2>2, ClearedAsWas
    <2>4. AsWas(app, app')
        <3>1. CASE a = "accel"
            <4>1. AsWas(e, ToIdle(e, a)) /\ app' = ToIdle(e, a)
                BY <1>6, <2>0, <2>2, <3>1, ToIdleAsWas DEF Cancel, e, b
            <4> QED BY <2>1, <2>3, <4>1, AsWasTransitive
        <3>2. CASE a # "accel"
            BY <1>0, <1>6, <2>0, <3>2, ToIdleAsWas DEF Cancel
        <3> QED BY <3>1, <3>2
    <2> QED BY <1>6, <2>4, AppStep DEF Cancel, vehicleVars, historyVars
<1>7. CASE CancelCompass
    <2> DEFINE p == Packet("cancel", runs, NoStep)
               k0 == [id |-> "cancel", run |-> runs, result |-> "pending"]
    <2>1. p \in PacketType /\ p.id = "cancel"
        BY <1>0, PoseTypes DEF Packet, PacketType, RestType
    <2>2. calls' = calls \cup {k0} /\ uplink' = Append(uplink, p)
        BY <1>7 DEF CancelCompass, SendAndWait
    <2>3. k0.id = "cancel" /\ k0.result = "pending"
        OBVIOUS
    <2> HIDE DEF p, k0
    <2>4. UplinkAsWas /\ (AccelHeld => AccelHeld')
        BY <1>0, <2>1, <2>2, CancelOnTheWay
    <2>5. UNCHANGED <<acal, mcal, mute, runs, faults, hollow, mistaken>>
        BY <1>7 DEF CancelCompass, vehicleVars, historyVars
    <2>6. /\ app'.status = [app.status EXCEPT !["compass"] = "running"]
          /\ app'.pose = app.pose /\ app'.cta = app.cta /\ app'.cancelling = TRUE
          /\ app'.resumable = app.resumable
          /\ app'.timers = app.timers \ WatchOf("compass")
        BY <1>0, <1>7 DEF CancelCompass, AppType
    <2>7. "accel" \in Ids => app'.status["accel"] = app.status["accel"]
        BY <1>0, <2>6 DEF AppType
    <2>8. \A s : Is(app', "accel", s) <=> Is(app, "accel", s)
        BY <2>7 DEF Is
    <2>9. Calm(app, app') /\ AccelAsWas(app, app') /\ CompassAsWas(app, app')
        <3>1. Calm(app, app')
            BY <2>6, <2>8 DEF Calm, Confirmable
        <3>2. AccelAsWas(app, app')
            BY <2>8 DEF AccelAsWas
        <3> QED BY <2>6, <3>1, <3>2 DEF CompassAsWas, Collects
    <2>10. VerdictInv'
        <3>1. /\ Begun' => Begun
              /\ OnTheWay("level")' => OnTheWay("level")
              /\ Noted' => Noted
              /\ HasVerdict' => HasVerdict
            BY <2>2, <2>3, <2>4, <2>5 DEF UplinkAsWas, Begun, AccelAwaited, Noted, HasVerdict
        <3> QED BY <1>0, <2>4, <2>5, <2>9, <3>1, VerdictFrame
    <2>11. ReportInv'
        <3>1. \A k \in calls' : k.id = "compass" =>
               /\ k.result # "noted"
               /\ k.result = "accepted" =>
                    \E j \in calls : j.id = "compass" /\ j.result = "accepted"
            BY <1>0, <2>2, <2>3 DEF ReportInv
        <3> QED BY <1>0, <2>5, <2>9, <3>1, ReportFrame
    <2>12. PostureInv'
        <3>1. (AccelOpen' => AccelOpen) /\ CallsOpen'
            BY <1>0, <2>2, <2>3 DEF AccelOpen, PostureInv, CallsOpen
        <3> QED BY <1>0, <2>4, <2>5, <2>9, <3>1, PostureFrame
    <2> QED BY <2>10, <2>11, <2>12 DEF JRest
<1> QED BY <1>1, <1>2, <1>3, <1>4, <1>5, <1>6, <1>7 DEF Operator

\* A calibration that was just started has no confirmation on its way, and
\* none to give.
LEMMA PostureStarted ==
  ASSUME Started(app, app'), ConfirmedLast', ~OnTheWay("confirm")', ~app'.resumable,
         OnTheWay("accel")' => ~NowAhead',
         NowAhead' => BothInPlay' /\ faults' >= 1 /\ (mute' => faults' >= 2),
         AccelOpen' /\ ~acal'.old /\ ~Resting' => OnTheWay("accel")' \/ faults' >= 1,
         CallsOpen', mute' => faults' >= 1, mistaken' => Excused'
  PROVE  PostureInv'
<1>1. UplinkSound'
    BY DEF UplinkSound, Started, OnTheWay
<1>2. ConfirmedOnce' /\ CardSound'
    BY DEF ConfirmedOnce, CardSound, Started
<1>3. ~Is(app', "accel", {"requested"})
    BY DEF Started, Is
<1>4. LateSound'
    BY <1>3 DEF LateSound
<1> QED BY <1>1, <1>2, <1>4 DEF PostureInv

\* The continuation of a start or of a cancel.
LEMMA SettleStep ==
  ASSUME JInv, RestType', NEW k \in calls, NEW result \in Results, Settle(k, result),
         result = "accepted" => k.result = "accepted",
         result = "in progress" => k.result = "noted",
         result = "timed out" => k.result \in Unsettled /\ ~Confirming
  PROVE  JRest'
<1> DEFINE done == [k EXCEPT !.result = result]
<1>0. /\ app \in AppType /\ RestType /\ ConfirmedLast
      /\ VerdictInv /\ ReportInv /\ PostureInv /\ Anchors
    BY DEF JInv, IInv, PostureInv, UplinkSound
<1>1. k \in CallType /\ done \in CallType /\ done.id = k.id /\ done.result = result
    BY <1>0 DEF CallType, RestType
<1>2. /\ app' = IF k.id = "cancel" THEN AfterCancel(app, done) ELSE AfterStart(app, done)
      /\ calls' = calls \ {k}
      /\ UNCHANGED <<uplink, acal, mcal, mute, runs, faults, hollow, mistaken>>
    BY DEF Settle, vehicleVars, historyVars
<1> HIDE DEF done
<1>3. /\ UplinkAsWas /\ ConfirmedLast' /\ (AccelHeld' <=> AccelHeld)
      /\ \A id : OnTheWay(id)' <=> OnTheWay(id)
    BY <1>0, <1>2, QueueStays
<1>4. /\ Begun' => Begun
      /\ OnTheWay("level")' => OnTheWay("level")
      /\ Noted' => Noted
      /\ AccelOpen' => AccelOpen
      /\ CallsOpen'
    BY <1>0, <1>2, <1>3 DEF Begun, AccelAwaited, Noted, AccelOpen, CallsOpen, PostureInv
<1>5. /\ HasVerdict' <=> HasVerdict
      /\ Resting' <=> Resting
      /\ NowAhead' <=> NowAhead
      /\ Excused' <=> Excused
      /\ BothInPlay' <=> BothInPlay
      /\ FreshCompasses' <=> FreshCompasses
    BY <1>2 DEF HasVerdict, Resting, NowAhead, Ahead, Excused, BothInPlay, FreshCompasses
<1>6. \A j \in calls' : j.id = "compass" =>
           /\ j.result # "noted"
           /\ j.result = "accepted" =>
                \E i \in calls : i.id = "compass" /\ i.result = "accepted"
    BY <1>0, <1>2 DEF ReportInv
<1>7. AccelAsWas(app, app') => VerdictInv'
    BY <1>0, <1>2, <1>3, <1>4, <1>5, VerdictFrame
<1>8. CompassAsWas(app, app') => ReportInv'
    BY <1>0, <1>2, <1>6, ReportFrame
<1>9. Calm(app, app') => PostureInv'
    BY <1>0, <1>2, <1>3, <1>4, PostureFrame
<1>10. CASE AsWas(app, app')
    BY <1>7, <1>8, <1>9, <1>10 DEF AsWas, JRest
<1>11. CASE k.id = "cancel"
    <2>1. "compass" \in Ids
        BY <1>0, <1>11 DEF Anchors
    <2>2. AsWas(app, app')
        BY <1>0, <1>2, <1>11, <2>1, AfterCancelAsWas
    <2> QED BY <1>10, <2>2
<1>12. CASE k.id # "cancel" /\ ~AsWas(app, app')
    <2>1. app' = AfterStart(app, done)
        BY <1>2, <1>12
    <2>2. \/ /\ k.id = "compass" /\ InProgressIsEnough(done)
             /\ Calm(app, app') /\ AccelAsWas(app, app')
          \/ /\ k.id = "accel" /\ InProgressIsEnough(done)
             /\ Is(app, "accel", {"requested"}) /\ Started(app, app')
          \/ /\ k.id = "accel" /\ result = "timed out" /\ CompassAsWas(app, app')
             /\ Is(app', "accel", {"failed"}) /\ app'.pose = NoPose
             /\ "prompt fallback" \notin app'.timers
        BY <1>0, <1>1, <1>12, <2>1, AfterStartEffect
    <2>3. InProgressIsEnough(done) => k.result \in {"noted", "accepted"}
        BY <1>1 DEF InProgressIsEnough
    <2>4. CASE /\ k.id = "compass" /\ InProgressIsEnough(done)
               /\ Calm(app, app') /\ AccelAsWas(app, app')
        <3>1. FreshCompasses
            BY <1>0, <2>3, <2>4 DEF ReportInv
        <3>2. ReportInv'
            BY <1>0, <1>2, <1>5, <1>6, <3>1 DEF ReportInv
        <3> QED BY <1>7, <1>9, <2>4, <3>2 DEF JRest
    <2>5. CASE /\ k.id = "accel" /\ InProgressIsEnough(done)
               /\ Is(app, "accel", {"requested"}) /\ Started(app, app')
        <3>1. Noted
            BY <2>3, <2>5 DEF Noted
        <3>2. \A n : Shared(n)' <=> Shared(n)
            BY <1>2 DEF Shared, BothInPlay
        <3>3. VerdictInv'
            <4>1. Counted'
                BY <1>0, <1>2, <1>4 DEF VerdictInv, Counted
            <4>2. NotedInTime' /\ RunsInTime'
                BY <1>0, <1>2, <1>3, <1>4, <1>5, <3>1, <3>2
                DEF VerdictInv, NotedInTime, RunsInTime
            <4> QED BY <1>0, <1>2, <3>2, <4>1, <4>2 DEF VerdictInv
        <3>4. ~OnTheWay("confirm")' /\ ~NowAhead'
            BY <1>0, <1>3, <1>5, <2>5 DEF PostureInv, ConfirmedOnce, LateSound
        <3>5. ~app'.resumable
            BY <1>0, <2>5 DEF Started, PostureInv, LateSound, Is
        <3>6. AccelOpen' /\ ~acal'.old /\ ~Resting' => OnTheWay("accel")' \/ faults' >= 1
            BY <1>0, <1>2, <1>3, <1>4, <1>5 DEF PostureInv, LateSound
        <3>7. (mute' => faults' >= 1) /\ (mistaken' => Excused')
            BY <1>0, <1>2, <1>5 DEF PostureInv
        <3>8. PostureInv'
            BY <1>3, <1>4, <2>5, <3>4, <3>5, <3>6, <3>7, PostureStarted
        <3> QED BY <1>8, <2>5, <3>3, <3>8 DEF Started, JRest
    <2>6. CASE /\ k.id = "accel" /\ result = "timed out" /\ CompassAsWas(app, app')
               /\ Is(app', "accel", {"failed"}) /\ app'.pose = NoPose
               /\ "prompt fallback" \notin app'.timers
        <3>1. /\ ~Is(app', "accel", {"running"}) /\ ~Is(app', "accel", {"requested"})
              /\ ~Confirmable(app')
            BY <2>6 DEF Is, Confirmable
        <3>2. ~OnTheWay("confirm") /\ AccelOpen
            BY <2>6, NotConfirming DEF AccelOpen
        <3>3. UplinkSound'
            <4>1. OnTheWay("accel")' => ~NowAhead'
                BY <1>0, <1>3, <1>5 DEF PostureInv, UplinkSound
            <4>2. \A q \in Queued' : q.id # "confirm"
                BY <1>3, <3>2 DEF OnTheWay
            <4> QED BY <1>3, <2>6, <4>1, <4>2 DEF UplinkSound
        <3>4. ConfirmedOnce' /\ CardSound'
            BY <1>3, <3>1, <3>2 DEF ConfirmedOnce, CardSound
        <3>5. NowAhead' => faults' >= 1
            BY <1>0, <1>2, <1>5, <3>2
            DEF PostureInv, LateSound, UplinkSound, NowAhead, Ahead, Resting
        <3>6. LateSound'
            BY <1>0, <1>2, <1>3, <1>4, <1>5, <2>6, <3>1, <3>5 DEF PostureInv, LateSound
        <3>7. PostureInv'
            BY <1>0, <1>2, <1>4, <1>5, <3>3, <3>4, <3>6 DEF PostureInv
        <3> QED BY <1>7, <1>8, <2>6, <3>1, <3>7 DEF AccelAsWas, JRest
    <2> QED BY <2>2, <2>4, <2>5, <2>6
<1> QED BY <1>10, <1>11, <1>12

\* What the service awaits.
LEMMA AwaitedStep ==
  ASSUME JInv, RestType', Awaited \/ \E k \in calls : Continue(k)
  PROVE  JRest'
<1>0. /\ app \in AppType /\ RestType /\ ConfirmedLast /\ PostureInv /\ Anchors
    BY DEF JInv, IInv, PostureInv, UplinkSound
<1>1. ASSUME NEW k \in calls, Continue(k) PROVE JRest'
    <2>1. k.result \in Results /\ k.result \notin {"timed out", "in progress"}
        BY <1>0 DEF RestType, CallType, PostureInv, CallsOpen
    <2> QED BY <1>1, <2>1, SettleStep DEF Continue
<1>2. ASSUME NEW k \in calls, Expire(k) PROVE JRest'
    <2> DEFINE result == IF k.result = "noted" THEN "in progress" ELSE "timed out"
    <2>1. result \in Results /\ Settle(k, result) /\ k.result \in Unsettled /\ ~Confirming
        BY <1>2 DEF Results, Expire, Overdue
    <2>2. /\ result = "in progress" => k.result = "noted"
          /\ result # "accepted"
        OBVIOUS
    <2> HIDE DEF result
    <2> QED BY <2>1, <2>2, SettleStep
<1>3. ASSUME NEW x \in sends, Sent(x) PROVE JRest'
    <2>1. /\ app'.status = app.status /\ app'.timers = app.timers
          /\ app'.pose = app.pose /\ app'.cta = app.cta
          /\ app'.resumable = app.resumable /\ app'.cancelling = app.cancelling
        BY <1>0, <1>3 DEF Sent, AppType
    <2>2. AsWas(app, app')
        BY <2>1 DEF AsWas, Calm, AccelAsWas, CompassAsWas, Collects, Confirmable, Is
    <2> QED BY <1>3, <2>2, AppStep DEF Sent, vehicleVars, historyVars
<1>4. ASSUME NEW x \in sends, SendFails(x) PROVE JRest'
    <2>0. "accel" \in Ids
        BY <1>0 DEF Anchors
    <2>1. AsWas(app, app')
        BY <1>0, <1>4, <2>0, FailAccelAsWas DEF SendFails
    <2>2. /\ faults' \in {faults, faults + 1} /\ mute' = mute
          /\ UNCHANGED <<calls, acal, mcal, runs, hollow, mistaken>>
        BY <1>4, FaultAdds DEF SendFails, vehicleVars, historyVars
    <2>3. UplinkAsWas /\ (AccelHeld => AccelHeld')
        <3>1. CASE uplink # <<>> /\ uplink[Len(uplink)].id = "confirm"
            <4>1. uplink' = SubSeq(uplink, 1, Len(uplink) - 1)
                BY <1>4, <3>1 DEF SendFails
            <4>2. /\ Queued' \subseteq Queued
                  /\ \A p \in Queued : p.id # "confirm" => p \in Queued'
                  /\ ConfirmedLast' /\ (AccelHeld => AccelHeld')
                BY <1>0, <3>1, <4>1, QueueFront
            <4>3. OnTheWay("accel") => OnTheWay("accel")'
                BY <4>2 DEF OnTheWay
            <4>4. \A id : OnTheWay(id)' => OnTheWay(id)
                BY <4>2 DEF OnTheWay
            <4> QED BY <4>2, <4>3, <4>4 DEF UplinkAsWas
        <3>2. CASE ~(uplink # <<>> /\ uplink[Len(uplink)].id = "confirm")
            <4>1. uplink' = uplink
                BY <1>4, <3>2 DEF SendFails
            <4> QED BY <1>0, <4>1, QueueStays
        <3> QED BY <3>1, <3>2
    <2> QED BY <2>1, <2>2, <2>3, QuietStep
<1> QED BY <1>1, <1>2, <1>3, <1>4 DEF Awaited

\* An answer settles the calls of its command, and only those.
LEMMA AnswerEffect ==
  ASSUME calls \subseteq CallType, NEW command, NEW result, calls' = Answer(command, result),
         NEW j \in calls'
  PROVE  \E k \in calls :
           /\ j.id = k.id
           /\ \/ j = k /\ ~(Command(k.id) = command /\ k.result \in Unsettled)
              \/ Command(k.id) = command /\ k.result \in Unsettled /\ j.result = result
<1> DEFINE to(k) == IF Command(k.id) = command /\ k.result \in Unsettled
                      THEN [k EXCEPT !.result = result] ELSE k
<1>1. calls' = {to(k) : k \in calls}
    BY DEF Answer
<1>2. PICK k \in calls : j = to(k)
    BY <1>1
<1>3. k \in CallType
    OBVIOUS
<1>4. CASE Command(k.id) = command /\ k.result \in Unsettled
    <2>1. j = [k EXCEPT !.result = result]
        BY <1>2, <1>4
    <2>2. j.id = k.id /\ j.result = result
        BY <1>3, <2>1 DEF CallType
    <2> QED BY <1>4, <2>2
<1>5. CASE ~(Command(k.id) = command /\ k.result \in Unsettled)
    BY <1>2, <1>5
<1> QED BY <1>4, <1>5

\* A verdict and the command of a level calibration take as many runs.
LEMMA LevelAhead ==
  ASSUME RestType, VerdictInv, HasVerdict, OnTheWay("level"), "level" \in Ids
  PROVE  Shared(2) /\ (acal.old => Shared(3))
<1>1. Begun
    BY DEF Begun, HasVerdict
<1> QED BY <1>1 DEF VerdictInv, Counted, Shared, BothInPlay

\* The head of the queue.
LEMMA QueueHead ==
  ASSUME RestType, CommandAhead
  PROVE  /\ uplink # <<>> /\ Head(uplink) \in PacketType /\ Head(uplink) \in Queued
         /\ Head(uplink).id \in Ids \cup {"cancel"}
         /\ OnTheWay(Head(uplink).id)
<1>1. uplink \in Seq(PacketType) /\ uplink # <<>> /\ Head(uplink).id # "confirm"
    BY DEF RestType, CommandAhead
<1>2. Head(uplink) = uplink[1] /\ 1 \in 1..Len(uplink) /\ uplink[1] \in PacketType
    BY <1>1
<1>3. Head(uplink) \in Queued
    BY <1>2 DEF Queued
<1> QED BY <1>1, <1>2, <1>3 DEF OnTheWay, PacketType

\* The autopilot goes on: an answer in progress.
LEMMA BeatStep ==
  ASSUME JInv, RestType', Beat
  PROVE  JRest'
<1>0. /\ app \in AppType /\ RestType /\ ConfirmedLast
      /\ VerdictInv /\ ReportInv /\ PostureInv
    BY DEF JInv, IInv, PostureInv, UplinkSound
<1>1. /\ Command(Head(uplink).id) = "preflight" /\ CommandAhead
      /\ calls' = Answer("preflight", "noted") /\ uplink' = [uplink EXCEPT ![1].beat = TRUE]
      /\ UNCHANGED <<app, acal, mcal, mute, runs, faults, hollow, mistaken>>
    BY DEF Beat, vehicleVars, historyVars
<1>2. /\ \A id : OnTheWay(id)' <=> OnTheWay(id)
      /\ \A p \in Queued' : p.id = "confirm" => p \in Queued
      /\ ConfirmedLast' /\ (AccelHeld' <=> Head(uplink).id = "accel")
    BY <1>0, <1>1, QueueBeat DEF CommandAhead
<1>3. UplinkAsWas
    BY <1>2 DEF UplinkAsWas
<1>4. \A j \in calls' : \E k \in calls :
        /\ j.id = k.id
        /\ \/ j = k
           \/ Command(k.id) = "preflight" /\ k.result \in Unsettled /\ j.result = "noted"
    BY <1>0, <1>1, AnswerEffect DEF RestType
<1>5. Head(uplink).id \in Ids /\ Head(uplink).id \in {"accel", "level"}
      /\ OnTheWay(Head(uplink).id)
    BY <1>0, <1>1, QueueHead, IdsAssumption DEF Command
<1>6. AsWas(app, app')
    BY <1>1, AsWasReflexive
<1>7. VerdictInv'
    <2>1. /\ Begun' => Begun
          /\ HasVerdict' <=> HasVerdict
        BY <1>1, <1>2, <1>4 DEF Begun, AccelAwaited, HasVerdict
    <2>2. Counted'
        BY <1>0, <1>1, <1>2, <2>1 DEF VerdictInv, Counted
    <2>3. \A n : Shared(n)' <=> Shared(n)
        BY <1>1 DEF Shared, BothInPlay
    <2>4. HasVerdict => AccelHeld' \/ (Shared(2) /\ (acal.old => Shared(3)))
        <3>1. CASE Head(uplink).id = "accel"
            BY <1>2, <3>1
        <3>2. CASE Head(uplink).id = "level"
            BY <1>0, <1>5, <3>2, LevelAhead
        <3> QED BY <1>5, <3>1, <3>2
    <2>5. NotedInTime' /\ RunsInTime'
        BY <1>1, <2>1, <2>3, <2>4 DEF NotedInTime, RunsInTime
    <2> QED BY <1>0, <1>1, <2>2, <2>3, <2>5 DEF VerdictInv
<1>8. ReportInv'
    <2>1. \A j \in calls' : j.id = "compass" =>
           /\ j.result # "noted"
           /\ j.result = "accepted" =>
                \E k \in calls : k.id = "compass" /\ k.result = "accepted"
        BY <1>0, <1>4 DEF ReportInv, Command
    <2> QED BY <1>0, <1>1, <1>6, <2>1, ReportFrame DEF AsWas
<1>9. PostureInv'
    <2>1. AccelOpen' => AccelOpen
        BY <1>4 DEF AccelOpen
    <2>2. CallsOpen
        BY <1>0 DEF PostureInv
    <2>3. CallsOpen'
        BY <1>4, <2>2 DEF CallsOpen
    <2> QED BY <2>3, <1>0, <1>1, <1>3, <1>6, <2>1, PostureFrame DEF AsWas
<1> QED BY <1>7, <1>8, <1>9 DEF JRest

\* The confirmation is taken for the posture that was asked for.
LEMMA ConfirmationStep ==
  ASSUME JInv, RestType', TakeConfirmation
  PROVE  JRest'
<1>0. /\ app \in AppType /\ RestType /\ ConfirmedLast
      /\ VerdictInv /\ ReportInv /\ PostureInv
    BY DEF JInv, IInv, PostureInv, UplinkSound
<1>1. /\ uplink # <<>> /\ Head(uplink).id = "confirm" /\ uplink' = Tail(uplink)
      /\ UNCHANGED <<app, calls, mcal, mute, runs, faults, hollow>>
    BY DEF TakeConfirmation
<1>2. /\ Queued' = {} /\ Queued \subseteq {Head(uplink)} /\ Head(uplink) \in Queued
      /\ ConfirmedLast'
    BY <1>0, <1>1, QueueShrinks
<1>3. /\ \A id : ~OnTheWay(id)'
      /\ OnTheWay("confirm") /\ ~OnTheWay("accel") /\ ~OnTheWay("level")
      /\ ~AccelHeld
    BY <1>1, <1>2 DEF OnTheWay, AccelHeld
<1>4. AsWas(app, app')
    BY <1>1, AsWasReflexive
<1>5. \/ acal' = acal /\ mistaken' = mistaken
      \/ /\ acal.phase = "asking" /\ acal'.phase = "sampling" /\ acal'.old = acal.old
         /\ mistaken' => mistaken \/ (~acal.old /\ Head(uplink).step # acal.step)
    BY <1>0 DEF TakeConfirmation, RestType
<1>6. VerdictInv'
    <2>1. /\ Begun' => Begun
          /\ HasVerdict' => HasVerdict
          /\ Noted' => Noted
          /\ acal'.old => acal.old
        BY <1>1, <1>3, <1>5 DEF Begun, AccelAwaited, HasVerdict, Noted
    <2> QED BY <1>0, <1>1, <1>3, <1>4, <2>1, VerdictFrame DEF AsWas
<1>7. ReportInv'
    <2>1. \A j \in calls' : j.id = "compass" =>
           /\ j.result # "noted"
           /\ j.result = "accepted" =>
                \E k \in calls : k.id = "compass" /\ k.result = "accepted"
        BY <1>0, <1>1 DEF ReportInv
    <2> QED BY <1>0, <1>1, <1>4, <2>1, ReportFrame DEF AsWas
<1>8. PostureInv'
    <2>1. (AccelOpen' <=> AccelOpen) /\ CallsOpen' /\ (Excused' <=> Excused)
        BY <1>0, <1>1 DEF AccelOpen, CallsOpen, PostureInv, Excused, BothInPlay
    <2>2. CASE acal' = acal /\ mistaken' = mistaken
        <3>1. UplinkAsWas
            BY <1>2, <1>3 DEF UplinkAsWas
        <3> QED BY <1>0, <1>1, <1>4, <2>1, <2>2, <3>1, PostureFrame DEF AsWas
    <2>3. CASE /\ acal.phase = "asking" /\ acal'.phase = "sampling" /\ acal'.old = acal.old
               /\ mistaken' => mistaken \/ (~acal.old /\ Head(uplink).step # acal.step)
        <3>1. UplinkSound' /\ ConfirmedOnce'
            BY <1>2, <1>3 DEF UplinkSound, ConfirmedOnce
        <3>2. /\ ~Confirmable(app) /\ ~Is(app, "accel", {"requested"}) /\ ~app.resumable
              /\ "prompt fallback" \notin app.timers
            BY <1>0, <1>3 DEF PostureInv, ConfirmedOnce
        <3>3. CardSound'
            BY <1>1, <3>2 DEF CardSound
        <3>4. AccelOpen' /\ ~acal'.old => faults' >= 1
            BY <1>0, <1>1, <1>3, <2>1, <2>3 DEF PostureInv, LateSound, Resting
        <3>5. LateSound'
            BY <1>1, <3>2, <3>4 DEF LateSound
        <3>6. mistaken' => Excused'
            <4>1. ~acal.old => Head(uplink).step = acal.step \/ Excused
                BY <1>0, <1>1, <1>2, <2>3 DEF PostureInv, UplinkSound
            <4> QED BY <1>0, <2>1, <2>3, <4>1 DEF PostureInv
        <3> QED BY <1>0, <1>1, <2>1, <3>1, <3>3, <3>5, <3>6, <3>2, <1>3 DEF PostureInv
    <2> QED BY <1>5, <2>2, <2>3
<1> QED BY <1>6, <1>7, <1>8 DEF JRest

\* A command that is obeyed, refused, or whose answer is lost.
LEMMA CommandStep ==
  ASSUME JInv, RestType', NEW result \in {"accepted", "rejected"}, NEW heard \in BOOLEAN,
         HandleCommand(result, heard)
  PROVE  JRest'
<1> DEFINE id == Head(uplink).id
<1>0. /\ app \in AppType /\ RestType /\ ConfirmedLast
      /\ VerdictInv /\ ReportInv /\ PostureInv
    BY DEF JInv, IInv, PostureInv, UplinkSound
<1>1. /\ CommandAhead /\ (Blocked => result = "accepted")
      /\ calls' = IF heard THEN Answer(Command(id), result) ELSE calls
      /\ app' = IF heard /\ result = "accepted"
                  THEN HandleCommandAck(app, Command(id)) ELSE app
      /\ UNCHANGED <<mute, runs, hollow, mistaken>>
    BY DEF HandleCommand, historyVars
<1>2. /\ \/ uplink' = Tail(uplink)
         \/ result = "accepted" /\ id = "reboot" /\ uplink' = <<>>
      /\ result = "accepted" /\ id = "reboot" => acal'.phase = "off" /\ acal'.old = FALSE
      /\ result = "accepted" /\ id = "accel" /\ acal.phase \notin {"asking", "sampling"} =>
           acal'.phase = "asking" /\ acal'.step = 0 /\ acal'.old = FALSE
      /\ \/ result = "accepted" /\ id = "reboot"
         \/ result = "accepted" /\ id = "accel" /\ acal.phase \notin {"asking", "sampling"}
         \/ acal' = acal
      /\ ~(result = "accepted" /\ id = "reboot") => uplink' = Tail(uplink)
    <2>1. \/ result = "accepted" /\ Obey(id)
          \/ result # "accepted" /\ uplink' = Tail(uplink) /\ acal' = acal
        BY DEF HandleCommand
    <2> HIDE DEF id
    <2>2. CASE result = "accepted" /\ Obey(id)
        <3>1. uplink' = IF id = "reboot" THEN <<>> ELSE Tail(uplink)
            BY <2>2 DEF Obey
        <3>2. id = "reboot" => acal' = [phase |-> "off", step |-> 0, old |-> FALSE]
            BY <2>2 DEF Obey
        <3>3. id = "accel" /\ acal.phase \notin {"asking", "sampling"} =>
                acal' = [phase |-> "asking", step |-> 0, old |-> FALSE]
            BY <2>2 DEF Obey
        <3>4. id # "reboot" /\ ~(id = "accel" /\ acal.phase \notin {"asking", "sampling"}) =>
                acal' = acal
            BY <2>2 DEF Obey
        <3> QED BY <2>2, <3>1, <3>2, <3>3, <3>4
    <2>3. CASE result # "accepted" /\ uplink' = Tail(uplink) /\ acal' = acal
        BY <2>3
    <2> QED BY <2>1, <2>2, <2>3
<1>3. /\ faults \in Nat /\ faults' \in Nat
      /\ heard => ~mute /\ faults' = faults
      /\ ~heard => faults' >= 1
      /\ faults' \in {faults, faults + 1}
    <2>1. faults \in Nat /\ (mute => faults >= 1)
        BY <1>0, Numbers DEF PostureInv
    <2>2. faults' = faults \/ (~heard /\ faults' = faults + 1)
        BY DEF HandleCommand, Fault
    <2>3. heard => ~mute /\ faults' = faults
        BY DEF HandleCommand
    <2>4. ~heard => (mute /\ faults' = faults) \/ faults' = faults + 1
        BY DEF HandleCommand, Fault
    <2> QED BY <2>1, <2>2, <2>3, <2>4
<1>4. /\ uplink # <<>> /\ Head(uplink) \in Queued
      /\ id \in Ids \cup {"cancel"} /\ id # "confirm" /\ OnTheWay(id)
    BY <1>0, <1>1, QueueHead DEF CommandAhead
<1>5. /\ Queued' \subseteq Queued /\ ConfirmedLast'
      /\ \A i : OnTheWay(i)' => OnTheWay(i)
      /\ uplink' = Tail(uplink) => \A i : i # id /\ OnTheWay(i) => OnTheWay(i)'
    <2>1. CASE uplink' = Tail(uplink)
        <3>1. /\ Queued' \subseteq Queued /\ Queued \subseteq Queued' \cup {Head(uplink)}
              /\ ConfirmedLast'
            BY <1>0, <1>4, <2>1, QueueShrinks
        <3> QED BY <3>1 DEF OnTheWay
    <2>2. CASE uplink' = <<>> /\ uplink' # Tail(uplink)
        BY <2>2, QueueEmpty
    <2> QED BY <1>2, <2>1, <2>2
<1>6. AccelHeld => id = "accel" /\ result = "accepted"
    BY <1>1 DEF AccelHeld, Blocked
<1>7. \A j \in calls' : \E k \in calls :
        /\ j.id = k.id
        /\ \/ j = k /\ ~(heard /\ Command(k.id) = Command(id) /\ k.result \in Unsettled)
           \/ /\ heard /\ Command(k.id) = Command(id)
              /\ k.result \in Unsettled /\ j.result = result
    <2>1. CASE heard
        BY <1>0, <1>1, <2>1, AnswerEffect DEF RestType
    <2>2. CASE ~heard
        BY <1>1, <2>2
    <2> QED BY <2>1, <2>2
<1>8. \/ AsWas(app, app')
      \/ /\ heard /\ result = "accepted" /\ Command(id) = "compass"
         /\ Calm(app, app') /\ AccelAsWas(app, app')
      \/ /\ heard /\ result = "accepted" /\ Command(id) = "preflight" /\ Started(app, app')
         /\ \/ Is(app, "accel", {"requested"})
            \/ CanResume(app) /\ ~app'.resumable
    <2>1. CASE heard /\ result = "accepted"
        BY <1>0, <1>1, <2>1, AckEffect
    <2>2. CASE ~(heard /\ result = "accepted")
        BY <1>1, <2>2, AsWasReflexive
    <2> QED BY <2>1, <2>2
<1>9. /\ Command(id) = "compass" <=> id = "compass"
      /\ Command(id) = "preflight" <=> id \in {"accel", "level"}
      /\ \A k \in calls : k.id = "compass" => Command(k.id) = "compass"
      /\ \A k \in calls : k.id = "accel" => Command(k.id) = "preflight"
    BY <1>4, IdsAssumption DEF Command
<1>10. /\ (BothInPlay' <=> BothInPlay) /\ (Excused => Excused')
       /\ \A n : Shared(n)' <=> Shared(n)
    <2>1. (BothInPlay' <=> BothInPlay) /\ (faults >= 2 => faults' >= 2)
        BY <1>3 DEF BothInPlay
    <2> QED BY <1>1, <2>1 DEF Excused, Shared
<1> HIDE DEF id
<1>11. HasVerdict' => HasVerdict /\ acal' = acal /\ ~(id = "accel" /\ result = "accepted")
    BY <1>2 DEF HasVerdict
<1>12. VerdictInv'
    <2>1. Begun' => Begun
        BY <1>2, <1>4, <1>5, <1>7 DEF Begun, AccelAwaited
    <2>2. acal'.old => acal.old
        BY <1>2
    <2>3. Counted'
        BY <1>0, <1>1, <1>5, <2>1, <2>2 DEF VerdictInv, Counted
    <2>4. HasVerdict' /\ id = "level" => Shared(2) /\ (acal.old => Shared(3))
        BY <1>0, <1>4, <1>11, LevelAhead
    <2>5. HasVerdict' => ~AccelHeld
        BY <1>6, <1>11
    <2>6. NotedInTime'
        <3> SUFFICES ASSUME Noted', HasVerdict' PROVE Shared(2) /\ (acal.old => Shared(3))
            BY <1>10, <1>11 DEF NotedInTime
        <3>1. CASE Noted
            BY <1>0, <1>11, <2>5, <3>1 DEF VerdictInv, NotedInTime
        <3>2. CASE ~Noted
            <4>1. PICK j \in calls' : j.id = "accel" /\ j.result \in {"noted", "accepted"}
                BY DEF Noted
            <4>2. PICK k \in calls :
                    /\ j.id = k.id
                    /\ \/ j = k
                       \/ Command(k.id) = Command(id) /\ j.result = result
                BY <1>7
            <4>3. j # k
                BY <3>2, <4>1 DEF Noted
            <4>4. id \in {"accel", "level"} /\ result = "accepted"
                BY <1>9, <4>1, <4>2, <4>3
            <4> QED BY <1>11, <2>4, <4>4
        <3> QED BY <3>1, <3>2
    <2>7. RunsInTime'
        <3> SUFFICES ASSUME Is(app', "accel", {"running"}), acal'.old, HasVerdict'
                     PROVE  Shared(3)
            BY <1>10 DEF RunsInTime
        <3>1. CASE AccelAsWas(app, app')
            BY <1>0, <1>11, <2>5, <3>1 DEF VerdictInv, RunsInTime, AccelAsWas
        <3>2. CASE result = "accepted" /\ Command(id) = "preflight"
            BY <1>9, <1>11, <2>4, <3>2
        <3> QED BY <1>8, <3>1, <3>2 DEF AsWas
    <2> QED BY <1>0, <1>1, <1>10, <2>3, <2>6, <2>7 DEF VerdictInv
<1>13. ReportInv'
    <2>1. /\ FreshCompasses => FreshCompasses'
          /\ result = "accepted" /\ id = "compass" => FreshCompasses'
          /\ \A i \in Compasses : mcal'[i].phase = "running" => ~mcal'[i].old
        <3>1. result = "accepted" /\ id = "compass" =>
                mcal' = [i \in Compasses |-> [phase |-> "running", old |-> FALSE]]
            BY DEF HandleCommand, Obey, id
        <3>2. \/ mcal' = mcal
              \/ mcal' = [i \in Compasses |-> [phase |-> "off", old |-> FALSE]]
              \/ mcal' = [i \in Compasses |-> [phase |-> "running", old |-> FALSE]]
            BY DEF HandleCommand, Obey
        <3> QED BY <1>0, <3>1, <3>2 DEF FreshCompasses, ReportInv
    <2>2. Collects(app') => FreshCompasses'
        <3>1. CASE CompassAsWas(app, app')
            BY <1>0, <2>1, <3>1 DEF ReportInv, CompassAsWas
        <3>2. CASE result = "accepted" /\ id = "compass"
            BY <2>1, <3>2
        <3> QED BY <1>8, <1>9, <3>1, <3>2 DEF AsWas, Started
    <2>3. ASSUME NEW j \in calls', j.id = "compass"
          PROVE  j.result # "noted" /\ (j.result = "accepted" => FreshCompasses')
        <3>1. PICK k \in calls :
                /\ j.id = k.id
                /\ \/ j = k
                   \/ Command(k.id) = Command(id) /\ j.result = result
            BY <1>7
        <3>2. CASE j = k
            BY <1>0, <2>1, <2>3, <3>2 DEF ReportInv
        <3>3. CASE j # k
            BY <1>9, <2>1, <2>3, <3>1, <3>3
        <3> QED BY <3>2, <3>3
    <2> QED BY <2>1, <2>2, <2>3 DEF ReportInv
<1>14. /\ AccelOpen' => AccelOpen
       /\ AccelOpen' => ~heard \/ id \notin {"accel", "level"}
       /\ CallsOpen'
    <2>1. CallsOpen
        BY <1>0 DEF PostureInv
    <2>2. CallsOpen'
        BY <1>7, <2>1 DEF CallsOpen
    <2>3. ASSUME AccelOpen' PROVE AccelOpen /\ (~heard \/ id \notin {"accel", "level"})
        <3>1. PICK j \in calls' : j.id = "accel" /\ j.result \in Unsettled
            BY <2>3 DEF AccelOpen
        <3>2. PICK k \in calls :
                /\ j.id = k.id
                /\ \/ j = k /\ ~(heard /\ Command(k.id) = Command(id) /\ k.result \in Unsettled)
                   \/ k.result \in Unsettled /\ j.result = result
            BY <1>7
        <3>3. j = k
            BY <3>1, <3>2 DEF Unsettled
        <3> QED BY <1>9, <3>1, <3>2, <3>3 DEF AccelOpen, Unsettled
    <2> QED BY <2>2, <2>3
<1>15. AccelOpen' /\ OnTheWay("accel") /\ uplink' = Tail(uplink) =>
         OnTheWay("accel")' \/ faults' >= 1
    BY <1>3, <1>5, <1>14
<1>16. (mute' => faults' >= 1) /\ (mistaken' => Excused')
    BY <1>0, <1>1, <1>3, <1>10 DEF PostureInv
<1>17. PostureInv'
    <2>1. CASE result = "accepted" /\ id = "reboot"
        <3>1. AsWas(app, app')
            BY <1>8, <1>9, <2>1
        <3>2. acal'.phase = "off"
            BY <1>2, <2>1
        <3>3. ~NowAhead' /\ Resting'
            BY <3>2 DEF NowAhead, Ahead, Resting
        <3>4. UplinkSound' /\ ConfirmedOnce'
            <4>1. uplink' = <<>>
                BY <2>1 DEF HandleCommand, Obey, id
            <4>2. Queued' = {} /\ \A i : ~OnTheWay(i)'
                BY <4>1, QueueEmpty
            <4> QED BY <1>5, <4>2 DEF UplinkSound, ConfirmedOnce
        <3>5. CardSound'
            BY <3>2 DEF CardSound
        <3>6. LateSound'
            BY <1>0, <3>1, <3>3 DEF LateSound, PostureInv, AsWas, Calm
        <3> QED BY <1>14, <1>16, <3>4, <3>5, <3>6 DEF PostureInv
    <2>2. CASE result = "accepted" /\ id = "accel" /\ acal.phase \notin {"asking", "sampling"}
        <3>1. acal'.phase = "asking" /\ acal'.step = 0 /\ acal'.old = FALSE
            BY <1>2, <2>2
        <3>2. ~NowAhead' /\ ~Resting' /\ Resting /\ OnTheWay("accel")
            BY <1>4, <2>2, <3>1 DEF NowAhead, Ahead, Resting
        <3>3. AccelOpen' => faults' >= 1
            BY <1>3, <1>14, <2>2
        <3>4. CASE AsWas(app, app')
            <4>1. UplinkSound'
                <5>1. \A p \in Queued' : p.id = "confirm" => p.step = 0
                    BY <1>0, <1>5, <3>2 DEF PostureInv, UplinkSound
                <5> QED BY <1>5, <3>1, <3>2, <5>1 DEF UplinkSound
            <4>2. ConfirmedOnce'
                BY <1>0, <1>5, <3>1, <3>4 DEF PostureInv, ConfirmedOnce, AsWas, Calm
            <4>3. CardSound'
                <5>1. Confirmable(app') => app.pose # NoPose /\ app'.pose.step = app.pose.step
                    BY <3>4 DEF AsWas, Calm, Confirmable
                <5>2. app.pose # NoPose => app.pose.step = 0
                    BY <1>0, <3>2 DEF PostureInv, UplinkSound
                <5> QED BY <3>1, <5>1, <5>2 DEF CardSound
            <4>4. LateSound'
                BY <1>0, <3>2, <3>3, <3>4 DEF LateSound, PostureInv, AsWas, Calm
            <4> QED BY <1>14, <1>16, <4>1, <4>2, <4>3, <4>4 DEF PostureInv
        <3>5. CASE /\ Started(app, app')
                   /\ \/ Is(app, "accel", {"requested"})
                      \/ CanResume(app) /\ ~app'.resumable
            <4>1. ~OnTheWay("confirm")'
                BY <1>0, <1>5, <3>5 DEF PostureInv, ConfirmedOnce, CanResume
            <4>2. ~app'.resumable
                BY <1>0, <3>5 DEF Started, PostureInv, LateSound, Is
            <4> QED BY <1>5, <1>14, <1>16, <3>2, <3>3, <3>5, <4>1, <4>2, PostureStarted
        <3> QED BY <1>8, <1>9, <2>2, <3>4, <3>5
    <2>3. CASE /\ ~(result = "accepted" /\ id = "reboot")
               /\ ~(result = "accepted" /\ id = "accel" /\ acal.phase \notin {"asking", "sampling"})
        <3>1. acal' = acal /\ uplink' = Tail(uplink)
            BY <1>2, <2>3
        <3>2. (NowAhead' <=> NowAhead) /\ (Resting' <=> Resting)
            BY <3>1 DEF NowAhead, Ahead, Resting
        <3>3. CASE Calm(app, app')
            <4>1. UplinkAsWas
                BY <1>5, <1>15, <3>1 DEF UplinkAsWas
            <4> QED BY <1>0, <1>1, <1>3, <1>14, <3>1, <3>3, <4>1, PostureFrame
        <3>4. CASE /\ heard /\ result = "accepted" /\ Command(id) = "preflight"
                   /\ Started(app, app')
                   /\ \/ Is(app, "accel", {"requested"})
                      \/ CanResume(app) /\ ~app'.resumable
            <4>1. ~OnTheWay("confirm")'
                BY <1>0, <1>5, <3>4 DEF PostureInv, ConfirmedOnce, CanResume
            <4>2. ~app'.resumable
                BY <1>0, <3>4 DEF Started, PostureInv, LateSound, Is
            <4>3. OnTheWay("accel") => ~NowAhead
                BY <1>0 DEF PostureInv, UplinkSound
            <4>4. ~AccelOpen' /\ ~mute'
                BY <1>1, <1>3, <1>9, <1>14, <3>4
            <4>5. NowAhead => BothInPlay /\ faults >= 1
                <5> SUFFICES ASSUME NowAhead PROVE BothInPlay /\ faults >= 1
                    OBVIOUS
                <5>1. CanResume(app)
                    BY <1>0, <3>4 DEF PostureInv, LateSound
                <5>2. faults >= 1 /\ "accel" \in Ids
                    BY <1>0, <5>1 DEF PostureInv, LateSound, CanResume, Is
                <5>3. id = "level"
                    BY <1>4, <1>9, <3>4, <4>3
                <5> QED BY <1>4, <5>2, <5>3 DEF BothInPlay
            <4>6. NowAhead' => BothInPlay' /\ faults' >= 1
                BY <1>3, <1>10, <3>2, <3>4, <4>5
            <4> QED BY <1>5, <1>14, <1>16, <3>2, <3>4, <4>1, <4>2, <4>3, <4>4, <4>6,
                       PostureStarted
        <3> QED BY <1>8, <3>3, <3>4 DEF AsWas
    <2> QED BY <2>1, <2>2, <2>3
<1> QED BY <1>12, <1>13, <1>17 DEF JRest

\* A message that the service takes as before.
LEMMA DeliverStep ==
  ASSUME JInv, RestType', NEW next, Deliver(next, {}), AsWas(app, next),
         UNCHANGED <<acal, mcal>>, faults' \in {faults, faults + 1}
  PROVE  JRest'
<1>1. app' = next /\ UNCHANGED <<calls, uplink, mute, runs, mistaken>> /\ hollow' = hollow
    BY DEF Deliver
<1> QED BY <1>1, AppStep

\* The frames of a step that leaves the queue, the calls and the autopilot
\* alone.
LEMMA DeliverFrame ==
  ASSUME JInv, RestType',
         UNCHANGED <<calls, uplink, acal, mcal, mute, runs, hollow, mistaken>>,
         faults' \in {faults, faults + 1}
  PROVE  /\ AccelAsWas(app, app') \/ ~HasVerdict => VerdictInv'
         /\ CompassAsWas(app, app') \/ FreshCompasses => ReportInv'
         /\ Calm(app, app') => PostureInv'
<1>0. /\ RestType /\ ConfirmedLast /\ VerdictInv /\ ReportInv /\ PostureInv
    BY DEF JInv, IInv, PostureInv, UplinkSound
<1>1. /\ UplinkAsWas /\ (AccelHeld' <=> AccelHeld)
      /\ \A id : OnTheWay(id)' <=> OnTheWay(id)
    BY <1>0, QueueStays
<1>2. /\ Begun' => Begun
      /\ OnTheWay("level")' => OnTheWay("level")
      /\ HasVerdict' <=> HasVerdict
      /\ Noted' => Noted
    BY <1>1 DEF Begun, AccelAwaited, HasVerdict, Noted
<1>3. AccelAsWas(app, app') => VerdictInv'
    BY <1>0, <1>1, <1>2, VerdictFrame
<1>4. ~HasVerdict => VerdictInv'
    <2>1. \A n : Shared(n)' <=> Shared(n)
        BY DEF Shared, BothInPlay
    <2>2. Counted'
        BY <1>0, <1>2 DEF VerdictInv, Counted
    <2>3. ~HasVerdict => NotedInTime' /\ RunsInTime'
        BY <1>2 DEF NotedInTime, RunsInTime
    <2> QED BY <1>0, <2>1, <2>2, <2>3 DEF VerdictInv
<1>5. \A j \in calls' : j.id = "compass" =>
       /\ j.result # "noted"
       /\ j.result = "accepted" =>
            \E k \in calls : k.id = "compass" /\ k.result = "accepted"
    BY <1>0 DEF ReportInv
<1>6. CompassAsWas(app, app') => ReportInv'
    BY <1>0, <1>5, ReportFrame
<1>7. FreshCompasses => ReportInv'
    BY <1>0, <1>5 DEF ReportInv, FreshCompasses
<1>8. Calm(app, app') => PostureInv'
    <2>1. (AccelOpen' => AccelOpen) /\ CallsOpen'
        BY <1>0 DEF AccelOpen, CallsOpen, PostureInv
    <2> QED BY <1>0, <1>1, <2>1, PostureFrame
<1> QED BY <1>3, <1>4, <1>6, <1>7, <1>8

\* A prompt shows the posture the autopilot asks for.
LEMMA PromptStep ==
  ASSUME JInv, RestType', Prompt
  PROVE  JRest'
<1>0. /\ app \in AppType /\ RestType /\ ConfirmedLast /\ acal.step \in Steps
      /\ VerdictInv /\ ReportInv /\ PostureInv
    BY DEF JInv, IInv, PostureInv, UplinkSound, RestType
<1>1. /\ acal.phase = "asking" /\ ~Confirming /\ app' = HandlePrompt(app, acal.step)
      /\ UNCHANGED <<calls, uplink, acal, mcal, mute, runs, faults, hollow, mistaken>>
    BY DEF Prompt, Deliver
<1>2. CASE AsWas(app, app')
    BY <1>1, <1>2, AppStep
<1>3. CASE ~AsWas(app, app')
    <2>1. /\ Is(app', "accel", {"running"}) /\ CompassAsWas(app, app')
          /\ app'.pose # NoPose /\ app'.pose.step = acal.step
          /\ "prompt fallback" \notin app'.timers
          /\ app'.resumable => app.resumable /\ Is(app, "accel", {"running"})
        BY <1>0, <1>1, <1>3, PromptEffect
    <2>2. VerdictInv' /\ ReportInv'
        <3>1. ~HasVerdict
            BY <1>1 DEF HasVerdict
        <3> QED BY <1>1, <2>1, <3>1, DeliverFrame
    <2>3. /\ Queued' = Queued /\ ConfirmedLast'
          /\ \A id : OnTheWay(id)' <=> OnTheWay(id)
          /\ ~OnTheWay("confirm")
        BY <1>0, <1>1, QueueStays, NotConfirming
    <2>4. /\ Resting' <=> Resting
          /\ NowAhead' <=> NowAhead
          /\ AccelOpen' <=> AccelOpen
          /\ CallsOpen' <=> CallsOpen
          /\ Excused' <=> Excused
        BY <1>1 DEF Resting, NowAhead, Ahead, AccelOpen, CallsOpen, Excused, BothInPlay
    <2>5. UplinkSound'
        <3>1. ~Resting' /\ \A q \in Queued' : q.id # "confirm"
            BY <1>1, <2>3 DEF Resting, OnTheWay
        <3> QED BY <1>0, <2>3, <2>4, <3>1 DEF PostureInv, UplinkSound
    <2>6. ConfirmedOnce' /\ CardSound'
        BY <1>1, <2>1, <2>3 DEF ConfirmedOnce, CardSound
    <2>7. LateSound'
        <3>1. ~Is(app', "accel", {"requested"})
            BY <2>1 DEF Is
        <3>2. ~app'.resumable
            BY <1>0, <2>1 DEF PostureInv, LateSound, Is
        <3> QED BY <1>0, <1>1, <2>1, <2>3, <2>4, <3>1, <3>2 DEF PostureInv, LateSound
    <2> QED BY <1>0, <1>1, <2>2, <2>4, <2>5, <2>6, <2>7 DEF PostureInv, JRest
<1> QED BY <1>2, <1>3

\* A repeated verdict is taken by a calibration that runs: its own, unless a
\* level calibration answered for it in a third run.
LEMMA SentinelStep ==
  ASSUME JInv, RestType', Sentinel
  PROVE  JRest'
<1>0. /\ app \in AppType /\ RestType /\ ConfirmedLast
      /\ VerdictInv /\ ReportInv /\ PostureInv
    BY DEF JInv, IInv, PostureInv, UplinkSound
<1> DEFINE taken == IF AcceptsSentinel(app) /\ acal.old THEN {"accel"} ELSE {}
<1>1. /\ HasVerdict /\ ~Blocked /\ app' = HandleSentinel(app, acal.phase = "ok")
      /\ hollow' = hollow \cup taken
      /\ UNCHANGED <<calls, uplink, acal, mcal, mute, runs, faults, mistaken>>
    BY DEF Sentinel, Deliver, HasVerdict
<1>2. AsWas(app, app')
    BY <1>0, <1>1, SentinelAsWas
<1>3. CASE taken = {}
    BY <1>1, <1>2, <1>3, AppStep
<1>4. CASE taken # {}
    <2>1. Is(app, "accel", {"running"}) /\ acal.old /\ taken = {"accel"}
        BY <1>4 DEF AcceptsSentinel
    <2>2. ~AccelHeld
        BY <1>1 DEF AccelHeld, Blocked, CommandAhead
    <2>3. Shared(3)
        BY <1>0, <1>1, <2>1, <2>2 DEF VerdictInv, RunsInTime
    <2>4. \A n : Shared(n)' <=> Shared(n)
        BY <1>1 DEF Shared, BothInPlay
    <2>5. /\ UplinkAsWas /\ (AccelHeld' <=> AccelHeld)
          /\ \A id : OnTheWay(id)' <=> OnTheWay(id)
        BY <1>0, <1>1, QueueStays
    <2>6. VerdictInv'
        <3>1. /\ Begun' => Begun
              /\ HasVerdict' <=> HasVerdict
              /\ Noted' => Noted
            BY <1>1, <2>5 DEF Begun, AccelAwaited, HasVerdict, Noted
        <3>2. Counted'
            BY <1>0, <1>1, <2>5, <3>1 DEF VerdictInv, Counted
        <3>3. NotedInTime'
            BY <1>0, <1>1, <2>4, <2>5, <3>1 DEF VerdictInv, NotedInTime
        <3>4. RunsInTime' /\ Shared(3)'
            BY <2>3, <2>4 DEF RunsInTime
        <3>5. hollow' \subseteq {"accel"}
            BY <1>0, <1>1, <2>1 DEF VerdictInv
        <3> QED BY <3>2, <3>3, <3>4, <3>5 DEF VerdictInv
    <2>7. ReportInv'
        <3>1. \A j \in calls' : j.id = "compass" =>
               /\ j.result # "noted"
               /\ j.result = "accepted" =>
                    \E k \in calls : k.id = "compass" /\ k.result = "accepted"
            BY <1>0, <1>1 DEF ReportInv
        <3> QED BY <1>0, <1>1, <1>2, <3>1, ReportFrame DEF AsWas
    <2>8. PostureInv'
        <3>1. (AccelOpen' => AccelOpen) /\ CallsOpen'
            BY <1>0, <1>1 DEF AccelOpen, CallsOpen, PostureInv
        <3> QED BY <1>0, <1>1, <1>2, <2>5, <3>1, PostureFrame DEF AsWas
    <2> QED BY <2>6, <2>7, <2>8 DEF JRest
<1> QED BY <1>3, <1>4

\* A sample ends with the next prompt or with a verdict, when nothing is on
\* its way to the autopilot.
LEMMA SampleStep ==
  ASSUME JInv, RestType',
         (\E good \in BOOLEAN : SampleEnds(good)) \/ (\E ok, heard \in BOOLEAN : Verdict(ok, heard))
  PROVE  JRest'
<1>0. /\ app \in AppType /\ RestType /\ ConfirmedLast
      /\ VerdictInv /\ ReportInv /\ PostureInv
    BY DEF JInv, IInv, PostureInv, UplinkSound
<1>1. /\ acal.phase = "sampling" /\ calls = {} /\ \A i \in 1..Len(uplink) : uplink[i].id = "confirm"
      /\ UNCHANGED <<calls, uplink, mcal, mute, runs, faults, hollow, mistaken>>
    BY DEF SampleEnds, Verdict, Deliver, NoCommandUnderway, historyVars
<1>2. /\ ~OnTheWay("confirm") /\ Queued = {}
    <2>1. ~OnTheWay("confirm")
        BY <1>0, <1>1 DEF PostureInv, ConfirmedOnce
    <2> QED BY <1>1, <2>1 DEF OnTheWay, Queued
<1>3. /\ Queued' = {} /\ ConfirmedLast' /\ (AccelHeld' <=> AccelHeld)
      /\ \A id : ~OnTheWay(id) /\ ~OnTheWay(id)'
    BY <1>0, <1>1, <1>2, QueueStays DEF OnTheWay
<1>4. AsWas(app, app')
    <2>1. ASSUME NEW text \in {"calibration complete", "calibration failed"}
          PROVE  AsWas(app, ProcessStatusText(app, text))
        BY <1>0, ProcessStatusTextAsWas DEF AsWas
    <2>2. app' = app \/ \E ok \in BOOLEAN : app' = ProcessStatusText(app, VerdictText(ok))
        BY DEF SampleEnds, Verdict, Deliver
    <2> QED BY <2>1, <2>2, AsWasReflexive DEF VerdictText
<1>5. \/ acal'.phase = "asking" /\ acal'.old = acal.old
      \/ acal'.phase \in {"ok", "bad"} /\ acal'.old = FALSE
    BY <1>0 DEF SampleEnds, Verdict, RestType
<1>6. VerdictInv'
    <2>1. \A n : Shared(n)' <=> Shared(n)
        BY <1>1 DEF Shared, BothInPlay
    <2>2. Begun /\ (acal'.old => acal.old)
        BY <1>1, <1>5 DEF Begun
    <2>3. Counted'
        BY <1>0, <1>1, <1>3, <2>2 DEF VerdictInv, Counted
    <2>4. NotedInTime' /\ RunsInTime'
        BY <1>1, <1>5 DEF NotedInTime, RunsInTime, Noted, HasVerdict
    <2> QED BY <1>0, <1>1, <2>1, <2>3, <2>4 DEF VerdictInv
<1>7. ReportInv'
    <2>1. \A j \in calls' : j.id = "compass" =>
           /\ j.result # "noted"
           /\ j.result = "accepted" =>
                \E k \in calls : k.id = "compass" /\ k.result = "accepted"
        BY <1>1
    <2> QED BY <1>0, <1>1, <1>4, <2>1, ReportFrame DEF AsWas
<1>8. PostureInv'
    <2>1. ~AccelOpen' /\ CallsOpen' /\ (Excused' <=> Excused) /\ (BothInPlay' <=> BothInPlay)
        BY <1>1 DEF AccelOpen, CallsOpen, Excused, BothInPlay
    <2>2. NowAhead' => NowAhead
        BY <1>1, <1>5 DEF NowAhead, Ahead
    <2>3. UplinkSound' /\ ConfirmedOnce'
        BY <1>3 DEF UplinkSound, ConfirmedOnce
    <2>4. CardSound'
        <3>1. ~Confirmable(app')
            BY <1>0, <1>1, <1>4 DEF PostureInv, CardSound, AsWas, Calm
        <3> QED BY <3>1 DEF CardSound
    <2>5. LateSound'
        <3>1. Is(app', "accel", {"requested"}) => ~NowAhead'
            BY <1>0, <1>4, <2>2 DEF PostureInv, LateSound, AsWas, Calm
        <3>2. "prompt fallback" \in app'.timers /\ NowAhead' =>
                BothInPlay' /\ faults' >= 1 /\ (mute' => faults' >= 2)
            BY <1>0, <1>1, <1>4, <2>1, <2>2 DEF PostureInv, LateSound, AsWas, Calm
        <3>3. app'.resumable => Is(app', "accel", {"failed"}) /\ (NowAhead' => faults' >= 1)
            BY <1>0, <1>1, <1>4, <2>2 DEF PostureInv, LateSound, AsWas, Calm
        <3> QED BY <2>1, <3>1, <3>2, <3>3 DEF LateSound
    <2> QED BY <1>0, <1>1, <2>1, <2>3, <2>4, <2>5 DEF PostureInv
<1> QED BY <1>6, <1>7, <1>8 DEF JRest

\* What the autopilot does and sends.
LEMMA VehicleStep ==
  ASSUME JInv, RestType', Vehicle
  PROVE  JRest'
<1>0. /\ app \in AppType /\ RestType /\ ConfirmedLast
      /\ VerdictInv /\ ReportInv /\ PostureInv
    BY DEF JInv, IInv, PostureInv, UplinkSound
<1>1. CASE Beat \/ TakeConfirmation \/ Prompt \/ Sentinel
    BY <1>1, BeatStep, ConfirmationStep, PromptStep, SentinelStep
<1>2. ASSUME NEW r \in {"accepted", "rejected"}, NEW h \in BOOLEAN, HandleCommand(r, h)
      PROVE  JRest'
    BY <1>2, CommandStep
<1>3. CASE (\E good \in BOOLEAN : SampleEnds(good)) \/ (\E ok, h \in BOOLEAN : Verdict(ok, h))
    BY <1>3, SampleStep
<1>4. CASE PromptText
    <2>1. /\ app' = ProcessStatusText(app, "place vehicle") /\ ~HasVerdict
          /\ UNCHANGED <<calls, uplink, acal, mcal, mute, runs, faults, hollow, mistaken>>
        BY <1>4 DEF PromptText, Deliver, HasVerdict
    <2>2. Calm(app, app') /\ CompassAsWas(app, app')
        BY <1>0, <2>1, ProcessStatusTextAsWas
    <2> QED BY <2>1, <2>2, DeliverFrame DEF JRest
<1>5. CASE CompassText
    <2>1. /\ app' = ProcessStatusText(app, "compass calibration")
          /\ UNCHANGED <<calls, uplink, acal, mcal, mute, runs, hollow, mistaken>>
        BY <1>5 DEF CompassText, Deliver
    <2>2. Calm(app, app') /\ AccelAsWas(app, app')
        BY <1>0, <2>1, ProcessStatusTextAsWas
    <2>3. FreshCompasses
        BY <1>0, <1>5 DEF CompassText, ReportInv, FreshCompasses
    <2>4. faults' \in {faults, faults + 1}
        BY <1>5 DEF CompassText, Fault
    <2> QED BY <2>1, <2>2, <2>3, <2>4, DeliverFrame DEF JRest
<1>6. ASSUME NEW i \in Compasses, MagProgress(i) PROVE JRest'
    <2>1. AsWas(app, HandleMagCalProgress(app))
        BY <1>0, MagProgressAsWas
    <2> QED BY <1>6, <2>1, DeliverStep DEF MagProgress
<1>7. ASSUME NEW i \in Compasses, MagReport(i) PROVE JRest'
    <2>1. AsWas(app, HandleMagCalReport(app, i, mcal[i].phase = "ok"))
        BY <1>0, MagReportAsWas
    <2>2. ~(AcceptsReport(app) /\ mcal[i].old /\ ~app.cancelling)
        BY <1>0 DEF ReportInv, Collects, FreshCompasses, AcceptsReport
    <2>3. Deliver(HandleMagCalReport(app, i, mcal[i].phase = "ok"), {})
        BY <1>7, <2>2 DEF MagReport
    <2> QED BY <1>7, <2>1, <2>3, DeliverStep DEF MagReport
<1>8. ASSUME NEW i \in Compasses, NEW ok \in BOOLEAN, MagEnds(i, ok) PROVE JRest'
    <2>1. UNCHANGED <<app, calls, uplink, acal, mute, runs, faults, hollow, mistaken>>
        BY <1>8 DEF MagEnds, historyVars
    <2>2. \A j \in Compasses :
            /\ mcal'[j].old = mcal[j].old
            /\ mcal'[j].phase = "running" => mcal[j].phase = "running"
        <3>1. mcal' = [mcal EXCEPT ![i].phase = IF ok THEN "ok" ELSE "bad"]
            BY <1>8 DEF MagEnds
        <3>2. mcal \in [Compasses -> [phase: {"off", "running", "ok", "bad"}, old: BOOLEAN]]
            BY <1>0 DEF RestType
        <3> QED BY <3>1, <3>2
    <2>3. AsWas(app, app')
        BY <2>1, AsWasReflexive
    <2>4. /\ UplinkAsWas /\ (AccelHeld' <=> AccelHeld)
          /\ \A id : OnTheWay(id)' <=> OnTheWay(id)
        BY <1>0, <2>1, QueueStays
    <2>5. VerdictInv'
        <3>1. /\ Begun' => Begun
              /\ OnTheWay("level")' => OnTheWay("level")
              /\ HasVerdict' <=> HasVerdict
              /\ Noted' => Noted
            BY <2>1, <2>4 DEF Begun, AccelAwaited, HasVerdict, Noted
        <3> QED BY <1>0, <2>1, <2>3, <2>4, <3>1, VerdictFrame DEF AsWas
    <2>6. ReportInv'
        <3>1. FreshCompasses' <=> FreshCompasses
            BY <2>2 DEF FreshCompasses
        <3> QED BY <1>0, <2>1, <2>2, <3>1 DEF ReportInv
    <2>7. PostureInv'
        <3>1. (AccelOpen' => AccelOpen) /\ CallsOpen'
            BY <1>0, <2>1 DEF AccelOpen, CallsOpen, PostureInv
        <3> QED BY <1>0, <2>1, <2>3, <2>4, <3>1, PostureFrame DEF AsWas
    <2> QED BY <2>5, <2>6, <2>7 DEF JRest
<1> QED BY <1>1, <1>2, <1>3, <1>4, <1>5, <1>6, <1>7, <1>8 DEF Vehicle

\* Restarts, losses and a link that falls mute or drops.
LEMMA MishapStep ==
  ASSUME JInv, RestType', NoMicrotask, Mishap
  PROVE  JRest'
<1>0. /\ app \in AppType /\ RestType /\ ConfirmedLast
      /\ VerdictInv /\ ReportInv /\ PostureInv
    BY DEF JInv, IInv, PostureInv, UplinkSound
<1>1. AsWas(app, HandleVehicleRestart(app)) /\ AsWas(app, app)
    BY <1>0, VehicleRestartAsWas, AsWasReflexive
<1>2. CASE NoticeRestart \/ HeartbeatGap
    <2>1. /\ Deliver(HandleVehicleRestart(app), {}) /\ UNCHANGED <<acal, mcal>>
          /\ faults' \in {faults, faults + 1}
        BY <1>2 DEF NoticeRestart, HeartbeatGap, Fault
    <2> QED BY <1>1, <2>1, DeliverStep
<1>3. CASE Lose
    <2>1. /\ uplink # <<>> /\ uplink' = Tail(uplink) /\ ~Blocked /\ faults' = faults + 1
          /\ UNCHANGED <<app, calls, acal, mcal, mute, runs, hollow, mistaken>>
        BY <1>3 DEF Lose, Fault, vehicleVars, historyVars
    <2>2. ~AccelHeld
        BY <2>1 DEF AccelHeld, Blocked, CommandAhead
    <2>3. UplinkAsWas
        <3>1. Queued' \subseteq Queued /\ ConfirmedLast'
            BY <1>0, <2>1, QueueShrinks
        <3>2. \A id : OnTheWay(id)' => OnTheWay(id)
            BY <3>1 DEF OnTheWay
        <3>3. faults' >= 1
            BY <1>0, <2>1, Numbers
        <3> QED BY <3>1, <3>2, <3>3 DEF UplinkAsWas
    <2> QED BY <1>1, <2>1, <2>2, <2>3, QuietStep
<1>4. CASE Restart
    <2>1. /\ acal'.phase = "off" /\ acal'.old = FALSE
          /\ mcal' = [i \in Compasses |-> [phase |-> "off", old |-> FALSE]]
          /\ uplink' = <<>> /\ faults' = faults + 1
          /\ UNCHANGED <<app, calls, mute, runs, hollow, mistaken>>
        BY <1>4 DEF Restart, Fault, historyVars
    <2>2. Queued' = {} /\ ConfirmedLast' /\ \A id : ~OnTheWay(id)'
        BY <2>1, QueueEmpty
    <2>3. VerdictInv'
        <3>1. /\ Begun' => Begun
              /\ ~HasVerdict'
              /\ Noted' => Noted
            BY <2>1, <2>2 DEF Begun, AccelAwaited, HasVerdict, Noted
        <3>2. AccelAsWas(app, app')
            BY <1>1, <2>1 DEF AsWas
        <3> QED BY <1>0, <2>1, <2>2, <3>1, <3>2, VerdictFrame
    <2>4. ReportInv'
        <3>1. FreshCompasses' /\ \A i \in Compasses : mcal'[i].phase # "running"
            BY <2>1 DEF FreshCompasses
        <3> QED BY <1>0, <2>1, <3>1 DEF ReportInv
    <2>5. PostureInv'
        <3>1. faults \in Nat /\ faults' \in Nat /\ faults' >= 1
            BY <1>0, <2>1, Numbers
        <3>2. (BothInPlay' <=> BothInPlay) /\ (Excused => Excused')
            <4>1. (BothInPlay' <=> BothInPlay) /\ (faults >= 2 => faults' >= 2)
                BY <2>1, <3>1 DEF BothInPlay
            <4> QED BY <4>1 DEF Excused
        <3>3. Resting' /\ ~NowAhead' /\ CallsOpen'
            BY <1>0, <2>1 DEF Resting, NowAhead, Ahead, PostureInv, CallsOpen
        <3>4. UplinkSound' /\ ConfirmedOnce'
            BY <2>2 DEF UplinkSound, ConfirmedOnce
        <3>5. CardSound' /\ LateSound'
            BY <1>0, <2>1, <3>3 DEF CardSound, LateSound, PostureInv
        <3> QED BY <1>0, <2>1, <3>1, <3>2, <3>3, <3>4, <3>5 DEF PostureInv
    <2> QED BY <2>3, <2>4, <2>5 DEF JRest
<1>5. CASE FallMute
    <2>1. /\ faults' = faults + 1
          /\ UNCHANGED <<app, calls, uplink, acal, mcal, runs, hollow, mistaken>>
        BY <1>5 DEF FallMute, Fault, historyVars
    <2>2. UplinkAsWas /\ (AccelHeld => AccelHeld')
        BY <1>0, <2>1, QueueStays
    <2> QED BY <1>1, <2>1, <2>2, QuietStep
<1>6. CASE LinkDrops
    <2>1. /\ app' = Reset(app) /\ uplink' = <<>> /\ mute' = FALSE /\ faults' = faults + 1
          /\ UNCHANGED <<acal, mcal, runs, hollow, mistaken>>
        BY <1>6 DEF LinkDrops, Fault, historyVars
    <2>2. AsWas(app, app') /\ ~Is(app', "accel", {"running"})
        <3>1. Reset(app).status = [a \in Ids |-> "idle"]
            BY <1>0 DEF Reset, AppType
        <3>2. ~Is(app', "accel", {"running"})
            BY <2>1, <3>1 DEF Is
        <3> QED BY <1>0, <2>1, <3>2, ResetAsWas
    <2>3. \A j \in calls' : j.result = "closed" /\ \E k \in calls : j.id = k.id
        <3> SUFFICES ASSUME NEW j \in calls'
                     PROVE  j.result = "closed" /\ \E k \in calls : j.id = k.id
            OBVIOUS
        <3>1. PICK k \in calls :
                j = IF k.result \in Unsettled THEN [k EXCEPT !.result = "closed"] ELSE k
            BY <1>6 DEF LinkDrops
        <3>2. k \in CallType /\ k.result \in Unsettled
            BY <1>0 DEF RestType, NoMicrotask
        <3>3. j = [k EXCEPT !.result = "closed"]
            BY <3>1, <3>2
        <3>4. j.result = "closed" /\ j.id = k.id
            BY <3>2, <3>3 DEF CallType
        <3> QED BY <3>4
    <2>4. ~Noted' /\ ~AccelOpen' /\ CallsOpen' /\ (AccelAwaited' => AccelAwaited)
        BY <2>3 DEF Noted, AccelOpen, Unsettled, CallsOpen, AccelAwaited
    <2>5. Queued' = {} /\ ConfirmedLast' /\ \A id : ~OnTheWay(id)'
        BY <2>1, QueueEmpty
    <2>6. VerdictInv'
        <3>1. \A n : Shared(n)' <=> Shared(n)
            BY <2>1 DEF Shared, BothInPlay
        <3>2. Begun' => Begun
            BY <2>1, <2>4, <2>5 DEF Begun
        <3>3. Counted'
            BY <1>0, <2>1, <2>5, <3>2 DEF VerdictInv, Counted
        <3>4. NotedInTime' /\ RunsInTime'
            BY <2>2, <2>4 DEF NotedInTime, RunsInTime
        <3> QED BY <1>0, <2>1, <3>1, <3>3, <3>4 DEF VerdictInv
    <2>7. ReportInv'
        <3>1. \A j \in calls' : j.id = "compass" =>
               /\ j.result # "noted"
               /\ j.result = "accepted" =>
                    \E k \in calls : k.id = "compass" /\ k.result = "accepted"
            BY <2>3
        <3> QED BY <1>0, <2>1, <2>2, <3>1, ReportFrame DEF AsWas
    <2>8. PostureInv'
        <3>1. UplinkAsWas
            BY <2>4, <2>5 DEF UplinkAsWas
        <3> QED BY <1>0, <2>1, <2>2, <2>4, <3>1, PostureFrame DEF AsWas
    <2> QED BY <2>6, <2>7, <2>8 DEF JRest
<1>7. CASE CompassGone
    <2>1. /\ faults' = faults + 1
          /\ UNCHANGED <<calls, uplink, acal, mcal, mute, runs, hollow, mistaken>>
        BY <1>7 DEF CompassGone, Fault, vehicleVars, historyVars
    <2>2. AsWas(app, app')
        BY <1>0, <1>1, <1>7, FailActionAsWas DEF CompassGone, Active, IsActive, Is
    <2> QED BY <2>1, <2>2, AppStep
<1> QED BY <1>2, <1>3, <1>4, <1>5, <1>6, <1>7 DEF Mishap

\* Every step keeps the second invariant.
LEMMA NextJInv == JInv /\ [Next]_vars => JInv'
<1> SUFFICES ASSUME JInv, [Next]_vars PROVE JInv'
    OBVIOUS
<1>1. IInv' /\ RestType'
    BY NextInv DEF JInv, IInv
<1>2. JRest'
    <2>1. CASE NoMicrotask /\ (Awaited \/ Mishap)
        BY <1>1, <2>1, AwaitedStep, MishapStep
    <2>2. CASE NoMicrotask /\ ~Confirming /\ (Operator \/ TimerFires)
        BY <1>1, <2>2, OperatorStep, TimerStep, FallbackStep
    <2>3. CASE \E k \in calls : Continue(k)
        BY <1>1, <2>3, AwaitedStep
    <2>4. CASE Vehicle
        BY <1>1, <2>4, VehicleStep
    <2>5. CASE UNCHANGED vars
        <3>1. UNCHANGED <<app, calls, uplink, acal, mcal, mute, runs, faults, hollow, mistaken>>
            BY <2>5 DEF vars
        <3> QED BY <1>1, <3>1, AsWasReflexive, AppStep
    <2> QED BY <2>1, <2>2, <2>3, <2>4, <2>5 DEF Next
<1> QED BY <1>1, <1>2 DEF JInv, JRest

\* Every reachable state satisfies the second invariant.
LEMMA JInvariance == Spec => []JInv
BY InitJInv, NextJInv, PTL DEF Spec

\* Only the accelerometer's SUCCESS can be taken for another run's, and only
\* when a level calibration shares its command and it takes three runs: the
\* acknowledgement of PREFLIGHT_CALIBRATION says nothing of the routine.
THEOREM HollowNeedsThreeRuns ==
  Spec => [](hollow # {} => hollow = {"accel"} /\ BothInPlay /\ runs >= 3)
<1>1. JInv => (hollow # {} => hollow = {"accel"} /\ BothInPlay /\ runs >= 3)
    BY DEF JInv, VerdictInv, Shared
<1> QED BY <1>1, JInvariance, PTL

\* handleCommandLong and handleMagCalReport take no verdict of an earlier
\* run, for every number of faults, postures and compasses, unless the
\* accelerometer and the level calibration share three runs.
THEOREM OwnVerdictsAlways ==
  ASSUME ~BothInPlay \/ MaxRuns < 3
  PROVE  Spec => []NoHollowSuccess
<1>1. JInv => NoHollowSuccess
    <2> SUFFICES ASSUME JInv, hollow # {} PROVE FALSE
        BY DEF NoHollowSuccess
    <2>1. BothInPlay /\ runs >= 3
        BY DEF JInv, VerdictInv, Shared
    <2>2. runs \in 0..MaxRuns
        BY DEF JInv, IInv, RestType
    <2> QED BY <2>1, <2>2, BoundsAssumption
<1> QED BY <1>1, JInvariance, PTL

\* A confirmation taken for another posture needs the level calibration,
\* whose acknowledgement resumes the accelerometer's, and two faults.
THEOREM MistakeNeedsTwoFaults ==
  Spec => [](mistaken => BothInPlay /\ faults >= 2)
<1>1. JInv => (mistaken => BothInPlay /\ faults >= 2)
    BY DEF JInv, PostureInv, Excused
<1> QED BY <1>1, JInvariance, PTL

\* advanceAccelerometerCalibration confirms the posture the autopilot asks
\* for, for every number of runs, postures and compasses, unless the level
\* calibration is in play and two faults happen.
THEOREM PosturesMatchAlways ==
  ASSUME ~BothInPlay \/ MaxFaults < 2
  PROVE  Spec => []NoMistakenPosture
<1>1. JInv => NoMistakenPosture
    <2> SUFFICES ASSUME JInv, mistaken PROVE FALSE
        BY DEF NoMistakenPosture
    <2>1. BothInPlay /\ faults >= 2
        BY DEF JInv, PostureInv, Excused
    <2>2. faults \in 0..MaxFaults
        BY DEF JInv, IInv, RestType
    <2> QED BY <2>1, <2>2, BoundsAssumption
<1> QED BY <1>1, JInvariance, PTL
=============================================================================
