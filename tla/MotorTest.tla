------------------------------ MODULE MotorTest ------------------------------
(***************************************************************************)
(* MotorTestService (packages/ardupilot-core/src/                          *)
(* runtime-motor-test-service.ts) and the COMMAND_ACK waiters it rests on   *)
(* (runtime.ts sendCommand, waitForCommandAck, resolveCommandAckWaiters).   *)
(*                                                                         *)
(* run() spins one motor, a sweep of motors one after the other, or all of  *)
(* them at once, with one acknowledged DO_MOTOR_TEST per motor; stop()      *)
(* commands motors back to zero.  An ack names the command and no motor,    *)
(* and settles every waiter of that command.  run(), the rest of its sweep  *)
(* and stop() are concurrent asynchronous calls over one state.             *)
(*                                                                         *)
(* The flight controller is external, and does what the service's comments  *)
(* say of it: a command writes the motor it names and no other, and a motor *)
(* also stops at the end of its own window.  Frames are lost both ways; an  *)
(* ack that is not lost arrives within the ack timeout.  Motors are their   *)
(* test-order sequence numbers.  What the eligibility gate asks of arming,  *)
(* mapping, throttle and duration is left out: a request meets it.          *)
(***************************************************************************)
EXTENDS Integers, Sequences

CONSTANTS
    Run,        \* run() calls that may be in progress
    Stop,       \* stop() calls that may be in progress
    MotorCount, \* mapped motors
    Mode,       \* what the operator asks for: a subset of Modes
    MaxCalls,   \* bound: run() and stop() calls in a behaviour
    MaxEvents   \* bound: link events in a behaviour

Modes == {"single", "sweep", "simultaneous"}

ASSUME MotorAssumption ==
    /\ Run # {} /\ Run \cap Stop = {}
    /\ MotorCount \in Nat \ {0}
    /\ Mode \subseteq Modes
    /\ MaxCalls \in Nat /\ MaxEvents \in Nat

Caller == Run \cup Stop
Motor == 1..MotorCount   \* test-order sequence numbers

VARIABLES
    link,       \* connection.kind
    status,     \* state.status
    sequences,  \* activeSimultaneousSequences
    sweepToken,
    timer,      \* completionTimer is armed
    call,       \* per caller, the asynchronous call it has in progress
    ack,        \* per caller, its waiter in commandAckWaiters and how it settled
    up,         \* DO_MOTOR_TEST frames on their way (external)
    down,       \* COMMAND_ACK results on their way (external)
    spinning,   \* motors that turn (external)
    started,    \* history: the motors commanded to turn since the latest run() call
    stopped,    \* history: what the last stop() since that call reported; or how
                \* that call began, "overlapped" when another was in progress
    calls,      \* calls left
    events      \* events left

service == <<status, sequences, sweepToken, timer>>
wire    == <<up, down, spinning>>
history == <<started, stopped>>
vars    == <<link, service, call, ack, wire, history, calls, events>>

Command == [motor : Motor, on : BOOLEAN]

(***************************************************************************)
(* A call: the phase it is in, the motors it has still to command (the head *)
(* is the one it waits for), the sweepToken it holds, whether every abort   *)
(* was acknowledged, and (history) whether it is settled: no later call has *)
(* begun and, for a stop(), it found no command of its test outstanding.    *)
(***************************************************************************)
Call == [pc : {"idle", "waiting", "gap"}, phase : {"run", "sweep", "stop"}, mode : Modes,
         left : Seq(Motor), token : Nat, acknowledged : BOOLEAN, settled : BOOLEAN]

ServiceType ==
    /\ link \in {"up", "down"}
    /\ status \in {"idle", "requested", "running", "succeeded", "failed"}
    /\ sequences \in Seq(Motor) /\ sweepToken \in Nat /\ timer \in BOOLEAN

CallsType ==
    /\ call \in [Caller -> Call]
    /\ ack \in [Caller -> {"none", "pending", "accepted", "rejected"}]
    /\ calls \in 0..MaxCalls /\ events \in 0..MaxEvents

WireType ==
    /\ up \in Seq(Command) /\ down \in Seq({"accepted", "rejected"})
    /\ spinning \subseteq Motor

HistoryType ==
    /\ started \subseteq Motor
    /\ stopped \in {"no", "overlapped", "nothing", "unproven", "early", "proven"}

\* Every variable keeps its type.
TypeOK == ServiceType /\ CallsType /\ WireType /\ HistoryType

IdleCall == [pc |-> "idle", phase |-> "run", mode |-> "single", left |-> <<>>,
             token |-> 0, acknowledged |-> TRUE, settled |-> TRUE]

Init ==
    /\ link = "up"
    /\ status = "idle" /\ sequences = <<>> /\ sweepToken = 0 /\ timer = FALSE
    /\ call = [c \in Caller |-> IdleCall]
    /\ ack = [c \in Caller |-> "none"]
    /\ up = <<>> /\ down = <<>> /\ spinning = {}
    /\ started = {} /\ stopped = "no"
    /\ calls = MaxCalls /\ events = MaxEvents
------------------------------------------------------------------------------
(* sendCommand with waitForAck.                                            *)

\* Nothing has stopped the test since its run() call.
Unstopped == {"no", "overlapped", "nothing"}

\* A call begins: those in progress are settled no longer.
Begins(c, new) ==
    [d \in Caller |-> IF d = c THEN new
                      ELSE [call[d] EXCEPT !.settled = @ /\ call[d].pc = "idle"]]

\* The continuation of an await is due: nothing but frames runs before it.
Quiet == \A c \in Caller : ack[c] \in {"none", "pending"}

\* The frame leaves, is lost on the way, or cannot be sent at all; the waiter is
\* registered first, and cancelled in the last case.
SendCommand(c, motor, on) ==
    \/ /\ link = "up"
       /\ up' \in {Append(up, [motor |-> motor, on |-> on]), up}
       /\ ack' = [ack EXCEPT ![c] = "pending"]
    \/ /\ link = "down"
       /\ ack' = [ack EXCEPT ![c] = "rejected"]
       /\ UNCHANGED up

\* resolveCommandAckWaiters: every waiter of the command takes the ack.
SettleAll(result) == [c \in Caller |-> IF ack[c] = "pending" THEN result ELSE ack[c]]

CommandAck ==
    /\ link = "up" /\ down # <<>>
    /\ ack' = SettleAll(Head(down))
    /\ down' = Tail(down)
    /\ UNCHANGED <<link, service, call, up, spinning, history, calls, events>>

\* The ack timeout: nothing that could still answer is on the wire.
AckTimeout(c) ==
    /\ ack[c] = "pending" /\ Quiet
    /\ up = <<>> /\ down = <<>>
    /\ ack' = [ack EXCEPT ![c] = "rejected"]
    /\ UNCHANGED <<link, service, call, wire, history, calls, events>>
------------------------------------------------------------------------------
(* run() and continueSweep().                                              *)

HasActiveTest == status \in {"requested", "running"}

\* The views keep one run() in flight (busyAction, spinSendBusy); stop() and the
\* rest of a sweep do not hold the next one off.
Busy == \E r \in Run : call[r].pc = "waiting" /\ call[r].phase = "run"

\* run() up to its first send.  replace is the replaceRunningTest option.
StartRun(r, mode, motors, replace) ==
    /\ link = "up" /\ call[r].pc = "idle" /\ ~Busy /\ Quiet /\ calls > 0
    /\ ~HasActiveTest \/ replace
    /\ status' = "requested"
    /\ sequences' = IF mode = "single" THEN <<>> ELSE <<Head(motors)>>
    /\ sweepToken' = IF mode = "sweep" THEN sweepToken + 1 ELSE sweepToken
    /\ call' = Begins(r, [IdleCall EXCEPT
                  !.pc = "waiting", !.mode = mode, !.left = motors, !.token = sweepToken'])
    /\ SendCommand(r, Head(motors), TRUE)
    /\ started' = {Head(motors)}
    /\ stopped' = IF \A c \in Caller : call[c].pc = "idle" THEN "no" ELSE "overlapped"
    /\ calls' = calls - 1
    /\ UNCHANGED <<link, timer, down, spinning, events>>

Done(c) == [call EXCEPT ![c] = IdleCall]

\* The catch clause of run(), or of continueSweep().
TestFails(c) ==
    /\ status' = "failed" /\ timer' = FALSE
    /\ call' = Done(c)
    /\ ack' = [ack EXCEPT ![c] = "none"]
    /\ UNCHANGED <<sequences, up, started>>

\* The last command of run() is acknowledged: the window starts to count, and a
\* sweep waits for its next motor.
TestRuns(r) ==
    /\ status' = "running" /\ timer' = TRUE
    /\ call' = IF call[r].mode = "sweep" /\ Len(call[r].left) > 1
                 THEN [call EXCEPT ![r].pc = "gap", ![r].phase = "sweep", ![r].left = Tail(@)]
                 ELSE Done(r)
    /\ ack' = [ack EXCEPT ![r] = "none"]
    /\ UNCHANGED <<sequences, up, started>>

\* The next motor of a simultaneous run, recorded before it is commanded.
NextMotor(r) ==
    LET rest == Tail(call[r].left)
    IN  /\ call' = [call EXCEPT ![r].left = rest]
        /\ sequences' = Append(sequences, Head(rest))
        /\ SendCommand(r, Head(rest), TRUE)
        /\ started' = started \cup {Head(rest)}
        /\ UNCHANGED <<status, timer>>

RunContinues(r) ==
    /\ call[r].phase = "run" /\ ack[r] \in {"accepted", "rejected"}
    /\ CASE ack[r] = "rejected" -> TestFails(r)
         [] ack[r] = "accepted" /\ call[r].mode = "simultaneous" /\ Len(call[r].left) > 1 ->
                NextMotor(r)
         [] OTHER -> TestRuns(r)
    /\ UNCHANGED <<link, sweepToken, down, spinning, stopped, calls, events>>

\* Mutant: the sweep looks at the state alone, which a late ack may set again.
SweepGoesOnWhileRunning(r) == status = "running"

\* The sweep still owns the test.
SweepGoesOn(r) == call[r].token = sweepToken /\ status = "running"

\* The window of the motor the sweep commanded last is over, unless a later call
\* commands it too.
WindowOver(r) == call[r].settled => Head(call[r].left) - 1 \notin spinning /\ up = <<>>

\* The step timer of continueSweep.
SweepStep(r) ==
    /\ call[r].pc = "gap" /\ Quiet /\ WindowOver(r)
    /\ IF SweepGoesOn(r)
         THEN /\ call' = [call EXCEPT ![r].pc = "waiting"]
              /\ sequences' = <<Head(call[r].left)>>
              /\ SendCommand(r, Head(call[r].left), TRUE)
              /\ started' = started \cup {Head(call[r].left)}
         ELSE call' = Done(r) /\ UNCHANGED <<sequences, ack, up, started>>
    /\ UNCHANGED <<link, status, sweepToken, timer, down, spinning, stopped, calls,
                   events>>

SweepContinues(r) ==
    /\ call[r].phase = "sweep" /\ ack[r] \in {"accepted", "rejected"}
    /\ IF ack[r] = "rejected" /\ call[r].token = sweepToken
         THEN TestFails(r)
         ELSE /\ call' = IF call[r].token = sweepToken /\ Len(call[r].left) > 1
                           THEN [call EXCEPT ![r].pc = "gap", ![r].left = Tail(@)]
                           ELSE Done(r)
              /\ ack' = [ack EXCEPT ![r] = "none"]
              /\ UNCHANGED <<status, sequences, timer, up, started>>
    /\ UNCHANGED <<link, sweepToken, down, spinning, stopped, calls, events>>

\* Mutant: the completion timer leaves the test running.
StillRunning == status

\* The window has elapsed, and the buffer after it.  A motor that was commanded
\* late may still turn.
AfterWindow == IF status = "running" THEN "succeeded" ELSE status

WindowElapses ==
    /\ timer /\ Quiet
    /\ status' = AfterWindow
    /\ timer' = FALSE
    /\ UNCHANGED <<link, sequences, sweepToken, call, ack, wire, history, calls, events>>
------------------------------------------------------------------------------
(* stop() and reset().                                                     *)

\* Mutant: one abort, for the first motor.
AbortFirst == <<1>>

\* The motors stop() commands to zero.
AbortSequences == IF sequences = <<>> THEN <<1>> ELSE sequences

\* No command of the test is outstanding, nobody has stopped it before, and no
\* other call was in progress as it began.
Settled == stopped = "no" /\ (\A c \in Caller : ack[c] = "none") /\ up = <<>> /\ down = <<>>

StartStop(s) ==
    /\ call[s].pc = "idle" /\ Quiet /\ calls > 0
    /\ HasActiveTest
    /\ timer' = FALSE
    /\ sweepToken' = sweepToken + 1
    /\ call' = Begins(s, [IdleCall EXCEPT
                  !.pc = "waiting", !.phase = "stop", !.left = AbortSequences,
                  !.settled = Settled])
    /\ SendCommand(s, Head(AbortSequences), FALSE)
    /\ stopped' = "unproven"
    /\ calls' = calls - 1
    /\ UNCHANGED <<link, status, sequences, down, spinning, started, events>>

\* Nothing runs: stop() sends nothing and calls the stop acknowledged.
StopFindsNothing(s) ==
    /\ call[s].pc = "idle" /\ Quiet /\ calls > 0
    /\ ~HasActiveTest
    /\ stopped' = "nothing"
    /\ calls' = calls - 1
    /\ UNCHANGED <<link, service, call, ack, wire, started, events>>

\* What stop() reports: every abort was acknowledged, or not.  It says nothing of
\* a run() that began meanwhile.
Reported(s, acknowledged) ==
    CASE stopped \in Unstopped -> stopped
      [] stopped \notin Unstopped /\ ~acknowledged -> "unproven"
      [] OTHER -> IF call[s].settled THEN "proven" ELSE "early"

StopContinues(s) ==
    /\ call[s].phase = "stop" /\ ack[s] \in {"accepted", "rejected"}
    /\ LET acknowledged == call[s].acknowledged /\ ack[s] = "accepted"
           rest == Tail(call[s].left)
       IN  IF rest # <<>>
             THEN /\ call' = [call EXCEPT ![s].left = rest, ![s].acknowledged = acknowledged]
                  /\ SendCommand(s, Head(rest), FALSE)
                  /\ UNCHANGED <<status, sequences, stopped>>
             ELSE /\ call' = Done(s)
                  /\ ack' = [ack EXCEPT ![s] = "none"]
                  /\ sequences' = <<>> /\ status' = "failed"
                  /\ stopped' = Reported(s, acknowledged)
                  /\ UNCHANGED up
    /\ UNCHANGED <<link, sweepToken, timer, down, spinning, started, calls,
                   events>>

\* The transport closes: waiters are rejected, and the service is reset.
LinkDrop ==
    /\ link = "up" /\ Quiet /\ events > 0
    /\ events' = events - 1
    /\ link' = "down"
    /\ ack' = SettleAll("rejected")
    /\ status' = "idle" /\ timer' = FALSE /\ sequences' = <<>>
    /\ sweepToken' = sweepToken + 1
    /\ up' = <<>> /\ down' = <<>>
    /\ stopped' = "unproven"
    /\ UNCHANGED <<call, spinning, started, calls>>

Reconnect ==
    /\ link = "down" /\ Quiet
    /\ link' = "up"
    /\ UNCHANGED <<service, call, ack, wire, history, calls, events>>
------------------------------------------------------------------------------
(* The flight controller and the wire (external).                          *)

\* The board obeys and answers, or refuses to spin a motor; the answer may be lost.
Receive ==
    /\ up # <<>>
    /\ up' = Tail(up)
    /\ \/ /\ spinning' = IF Head(up).on THEN spinning \cup {Head(up).motor}
                                        ELSE spinning \ {Head(up).motor}
          /\ down' \in {Append(down, "accepted"), down}
       \/ /\ Head(up).on
          /\ down' \in {Append(down, "rejected"), down}
          /\ UNCHANGED spinning
    /\ UNCHANGED <<link, service, call, ack, history, calls, events>>

MotorTimesOut(m) ==
    /\ m \in spinning
    /\ spinning' = spinning \ {m}
    /\ UNCHANGED <<link, service, call, ack, up, down, history, calls, events>>

\* The motors a mode commands, in order.
MotorsOf(mode) ==
    LET all == [i \in Motor |-> i]
    IN  IF mode = "single" THEN {<<m>> : m \in Motor} ELSE {all}

Next ==
    \/ \E r \in Run :
          \/ \E mode \in Mode, replace \in BOOLEAN : \E motors \in MotorsOf(mode) :
                StartRun(r, mode, motors, replace)
          \/ RunContinues(r) \/ SweepStep(r) \/ SweepContinues(r)
    \/ \E s \in Stop : StartStop(s) \/ StopFindsNothing(s) \/ StopContinues(s)
    \/ \E c \in Caller : AckTimeout(c)
    \/ \E m \in Motor : MotorTimesOut(m)
    \/ CommandAck \/ WindowElapses \/ LinkDrop \/ Reconnect \/ Receive

Spec == Init /\ [][Next]_vars

(***************************************************************************)
(* Fairness.  Timers fire, continuations run (a call awaits one thing at a  *)
(* time), frames arrive or are lost (a loss happens as the frame is sent),  *)
(* and a motor's window ends.                                               *)
(***************************************************************************)
Fairness ==
    /\ \A r \in Run :
          WF_vars(RunContinues(r) \/ SweepStep(r) \/ SweepContinues(r) \/ AckTimeout(r))
    /\ \A s \in Stop : WF_vars(StopContinues(s) \/ AckTimeout(s))
    /\ \A m \in Motor : WF_vars(MotorTimesOut(m))
    /\ WF_vars(CommandAck) /\ WF_vars(WindowElapses) /\ WF_vars(Receive)

FairSpec == Spec /\ Fairness
------------------------------------------------------------------------------
(* Properties.                                                             *)

\* A test of one motor other than the first: it records no sequence, and its
\* stop() aborts motor 1.
OtherMotorAlone == \E m \in Motor \ {1} : started = {m}

\* A first stop() of a test that overlapped no other call, with no command
\* outstanding as it began and no call begun before it ended, leaves no motor of
\* the test turning when it reports every abort acknowledged, whatever was lost;
\* unless a single motor was tested (stop, "stopping it has to stop every motor
\* individually").
ProvenStopStops == stopped = "proven" => spinning \cap started = {} \/ OtherMotorAlone

\* Once a stop() has begun to abort a test, a sweep starts no further motor
\* (stop, "Ends an in-order sweep before its next motor fires").
StopEndsSweep ==
    [][\A r \in Run : call[r].pc = "gap" /\ call'[r].pc = "waiting" =>
          stopped \in Unstopped]_vars

\* Every test ends: hasActiveTest(), which holds the parameter write gate shut,
\* does not stay true.
TestEnds == HasActiveTest ~> ~HasActiveTest
==============================================================================
