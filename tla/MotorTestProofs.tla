--------------------------- MODULE MotorTestProofs ---------------------------
(***************************************************************************)
(* Type correctness of MotorTest, that a stop() ends a sweep, and that an  *)
(* acknowledged stop() of a settled test leaves no motor turning, for any  *)
(* number of motors and of concurrent run() and stop() calls.              *)
(*                                                                         *)
(* Types need BusyInv: a call that waits has a motor it waits for.  The    *)
(* sweep needs TokenInv: no call holds a token from the future, and once a *)
(* stop() or a reset has bumped sweepToken every token held is out of date.*)
(*                                                                         *)
(* The stop needs to know what was going on when it began.  OneCall: a test*)
(* that overlapped no other call is the only one in progress.  Recorded: each*)
(* motor it commanded is on record or still.  StopInv: a settled stop is the*)
(* only call that waits, so that the acks it takes are its own, and every  *)
(* motor that may turn is one it has still to abort.                       *)
(***************************************************************************)
EXTENDS MotorTest, TLAPS

BusyInv ==
    \A c \in Caller : /\ call[c].left = <<>> => call[c].pc = "idle"
                      /\ ack[c] # "none" => call[c].pc = "waiting"

TypeInv == TypeOK /\ BusyInv

TokenInv ==
    \A c \in Caller :
        /\ call[c].token <= sweepToken
        /\ stopped \notin Unstopped => call[c].token < sweepToken

\* A call that is not in progress is typed, commands no motor and holds token 0.
LEMMA IdleCallType == IdleCall \in Call /\ IdleCall.left = <<>> /\ IdleCall.token = 0
    /\ IdleCall.pc = "idle"
BY DEF IdleCall, Call, Modes

\* A non-empty sequence has a head and a tail, and a tail that is not empty too
\* when it has two elements.
LEMMA HeadTail ==
    ASSUME NEW S, NEW q \in Seq(S), q # <<>>
    PROVE  /\ Head(q) \in S /\ Tail(q) \in Seq(S)
           /\ Len(q) > 1 => Tail(q) # <<>>
<1>1. Head(q) \in S /\ Tail(q) \in Seq(S) /\ Len(Tail(q)) = Len(q) - 1
    OBVIOUS
<1>2. Len(q) > 1 => Len(Tail(q)) # 0
    BY <1>1
<1>3. Len(<<>>) = 0
    OBVIOUS
<1>4. ASSUME Len(q) > 1, Tail(q) = <<>> PROVE FALSE
  <2>1. Len(Tail(q)) = Len(<<>>)
    BY <1>4, Zenon
  <2> QED BY <1>2, <1>3, <1>4, <2>1
<1> QED BY <1>1, <1>4

\* A service that has just been constructed is typed.
LEMMA InitType == Init => TypeInv
<1> SUFFICES ASSUME Init PROVE TypeInv
    OBVIOUS
<1>0. <<>> \in Seq(Motor) /\ <<>> \in Seq(Command) /\ <<>> \in Seq({"accepted", "rejected"})
    OBVIOUS
<1>1. ServiceType /\ WireType
    BY <1>0 DEF Init, ServiceType, WireType
<1>2. CallsType
    BY IdleCallType, MotorAssumption DEF Init, CallsType
<1>3. HistoryType
    BY MotorAssumption DEF Init, HistoryType
<1>4. BusyInv
    BY IdleCallType DEF Init, BusyInv
<1> QED BY <1>1, <1>2, <1>3, <1>4 DEF TypeInv, TypeOK

\* sendCommand leaves a typed waiter and a typed frame.
LEMMA SendCommandType ==
    ASSUME TypeOK, NEW c \in Caller, NEW m \in Motor, NEW on \in BOOLEAN,
           SendCommand(c, m, on)
    PROVE  /\ up' \in Seq(Command)
           /\ ack' \in [Caller -> {"none", "pending", "accepted", "rejected"}]
           /\ \A d \in Caller : d # c => ack'[d] = ack[d]
<1>1. [motor |-> m, on |-> on] \in Command
    BY DEF Command
<1>2. up \in Seq(Command) /\ ack \in [Caller -> {"none", "pending", "accepted", "rejected"}]
    BY DEF TypeOK, WireType, CallsType
<1>3. Append(up, [motor |-> m, on |-> on]) \in Seq(Command)
    BY <1>1, <1>2
<1>4. up' \in {Append(up, [motor |-> m, on |-> on]), up}
    BY DEF SendCommand
<1>5. up' \in Seq(Command)
    BY <1>2, <1>3, <1>4
<1>6. \E v \in {"pending", "rejected"} : ack' = [ack EXCEPT ![c] = v]
    BY DEF SendCommand
<1> QED BY <1>2, <1>5, <1>6

\* Every mode commands at least one motor.
LEMMA MotorsType ==
    ASSUME NEW mode, NEW motors \in MotorsOf(mode)
    PROVE  motors \in Seq(Motor) /\ motors # <<>>
<1>1. MotorCount \in Nat \ {0}
    BY MotorAssumption
<1>2. CASE mode = "single"
  <2>1. PICK m \in Motor : motors = <<m>>
    BY <1>2 DEF MotorsOf
  <2> QED BY <2>1
<1>3. CASE mode # "single"
    BY <1>1, <1>3 DEF MotorsOf, Motor
<1> QED BY <1>2, <1>3

\* stop() always commands at least one motor to zero.
LEMMA AbortType ==
    ASSUME TypeOK PROVE AbortSequences \in Seq(Motor) /\ AbortSequences # <<>>
<1>1. 1 \in Motor
    BY MotorAssumption DEF Motor
<1>2. <<1>> \in Seq(Motor) /\ <<1>> # <<>>
    BY <1>1
<1> QED BY <1>2 DEF AbortSequences, TypeOK, ServiceType

\* A call that begins changes nothing of the others but whether they are settled.
LEMMA BeginsType ==
    ASSUME call \in [Caller -> Call], NEW c \in Caller, NEW new \in Call, call' = Begins(c, new)
    PROVE  /\ call' \in [Caller -> Call]
           /\ call'[c] = new
           /\ \A d \in Caller : d # c =>
                 /\ call'[d].pc = call[d].pc /\ call'[d].left = call[d].left
                 /\ call'[d].token = call[d].token /\ call'[d].phase = call[d].phase
                 /\ call'[d].mode = call[d].mode
                 /\ call'[d].settled => call[d].pc = "idle"
<1>1. \A d \in Caller : call[d] \in Call
    OBVIOUS
<1>2. ASSUME NEW d \in Caller, d # c
      PROVE  /\ call'[d] \in Call
             /\ call'[d].pc = call[d].pc /\ call'[d].left = call[d].left
             /\ call'[d].token = call[d].token /\ call'[d].phase = call[d].phase
             /\ call'[d].mode = call[d].mode
             /\ call'[d].settled => call[d].pc = "idle"
  <2>1. call'[d] = [call[d] EXCEPT !.settled = @ /\ call[d].pc = "idle"]
    BY <1>2 DEF Begins
  <2>2. call[d] \in Call
    BY <1>1
  <2>3. (call[d].settled /\ call[d].pc = "idle") \in BOOLEAN
    OBVIOUS
  <2> QED BY <2>1, <2>2, <2>3 DEF Call
<1>3. call'[c] = new
    BY DEF Begins
<1> QED BY <1>2, <1>3 DEF Begins

\* run() up to its first DO_MOTOR_TEST.
LEMMA StartRunType ==
    ASSUME TypeInv, NEW r \in Run, NEW mode \in Mode, NEW replace \in BOOLEAN,
           NEW motors \in MotorsOf(mode), StartRun(r, mode, motors, replace)
    PROVE  TypeInv'
<1> DEFINE new == [IdleCall EXCEPT !.pc = "waiting", !.mode = mode, !.left = motors,
                                   !.token = sweepToken']
<1>1. motors \in Seq(Motor) /\ motors # <<>> /\ Head(motors) \in Motor
    BY MotorsType, HeadTail
<1>2. r \in Caller /\ sweepToken' \in Nat
    BY DEF Caller, StartRun, TypeInv, TypeOK, ServiceType
<1>3. SendCommand(r, Head(motors), TRUE)
    BY DEF StartRun
<1>4. new \in Call /\ new.left = motors /\ new.pc = "waiting"
    BY <1>1, <1>2, MotorAssumption DEF IdleCall, Call
<1>5. /\ call' \in [Caller -> Call] /\ call'[r] = new
      /\ \A d \in Caller : d # r => call'[d].pc = call[d].pc /\ call'[d].left = call[d].left
  <2>1. call' = Begins(r, new)
    BY DEF StartRun
  <2> QED BY <1>2, <1>4, <2>1, BeginsType DEF TypeInv, TypeOK, CallsType
<1>6. up' \in Seq(Command) /\ ack' \in [Caller -> {"none", "pending", "accepted", "rejected"}]
        /\ \A d \in Caller : d # r => ack'[d] = ack[d]
    BY <1>1, <1>2, <1>3, SendCommandType DEF TypeInv
<1>7. ServiceType'
    BY <1>1, <1>2 DEF StartRun, ServiceType, TypeInv, TypeOK
<1>8. CallsType'
  <2>1. calls' \in 0..MaxCalls /\ events' \in 0..MaxEvents
    BY MotorAssumption DEF CallsType, TypeInv, TypeOK, StartRun
  <2> QED BY <1>5, <1>6, <2>1 DEF CallsType
<1>9. WireType' /\ HistoryType'
    BY <1>1, <1>6 DEF StartRun, WireType, HistoryType, TypeInv, TypeOK
<1>10. BusyInv'
  <2>1. call'[r].left # <<>> /\ call'[r].pc = "waiting"
    BY <1>1, <1>4, <1>5
  <2> HIDE DEF new
  <2> QED BY <1>5, <1>6, <2>1 DEF BusyInv, TypeInv
<1> QED BY <1>7, <1>8, <1>9, <1>10 DEF TypeInv, TypeOK

\* run() after an ack: the next motor, the window, or the catch clause.
LEMMA RunContinuesType ==
    ASSUME TypeInv, NEW r \in Run, RunContinues(r) PROVE TypeInv'
<1>1. r \in Caller /\ call[r] \in Call /\ call[r].left \in Seq(Motor) /\ call[r].left # <<>>
    BY DEF Caller, RunContinues, TypeInv, TypeOK, CallsType, BusyInv, Call
<1>2. CASE TestFails(r)
  <2>1. ServiceType' /\ WireType' /\ HistoryType'
    BY <1>2 DEF RunContinues, TestFails, ServiceType, WireType, HistoryType, TypeInv, TypeOK
  <2>2. CallsType' /\ BusyInv'
    BY <1>1, <1>2, IdleCallType DEF RunContinues, TestFails, Done, CallsType, BusyInv, TypeInv, TypeOK
  <2> QED BY <2>1, <2>2 DEF TypeInv, TypeOK
<1>3. CASE TestRuns(r)
  <2>1. ServiceType' /\ WireType' /\ HistoryType'
    BY <1>3 DEF RunContinues, TestRuns, ServiceType, WireType, HistoryType, TypeInv, TypeOK
  <2>2. CASE call' = Done(r)
    BY <1>1, <1>3, <2>1, <2>2, IdleCallType
       DEF RunContinues, TestRuns, Done, CallsType, BusyInv, TypeInv, TypeOK
  <2>3. CASE /\ Len(call[r].left) > 1
             /\ call' = [call EXCEPT ![r].pc = "gap", ![r].phase = "sweep", ![r].left = Tail(@)]
    <3>1. Tail(call[r].left) \in Seq(Motor) /\ Tail(call[r].left) # <<>>
      BY <1>1, <2>3, HeadTail
    <3>2. call'[r] \in Call /\ call'[r].left = Tail(call[r].left)
      BY <1>1, <2>3, <3>1 DEF Call, TypeInv, TypeOK, CallsType
    <3>3. CallsType' /\ BusyInv'
      BY <1>1, <1>3, <2>3, <3>1, <3>2
         DEF RunContinues, TestRuns, CallsType, BusyInv, TypeInv, TypeOK
    <3> QED BY <2>1, <3>3 DEF TypeInv, TypeOK
  <2> QED BY <1>3, <2>2, <2>3 DEF TestRuns
<1>4. CASE Len(call[r].left) > 1 /\ NextMotor(r)
  <2> DEFINE rest == Tail(call[r].left)
  <2>1. rest \in Seq(Motor) /\ rest # <<>> /\ Head(rest) \in Motor
    BY <1>1, <1>4, HeadTail
  <2>2. SendCommand(r, Head(rest), TRUE) /\ call' = [call EXCEPT ![r].left = rest]
    BY <1>4 DEF NextMotor
  <2>3. up' \in Seq(Command) /\ ack' \in [Caller -> {"none", "pending", "accepted", "rejected"}]
          /\ \A d \in Caller : d # r => ack'[d] = ack[d]
    BY <1>1, <2>1, <2>2, SendCommandType DEF TypeInv
  <2>4. ServiceType' /\ WireType' /\ HistoryType'
    BY <1>4, <2>1, <2>3 DEF RunContinues, NextMotor, ServiceType, WireType, HistoryType, TypeInv, TypeOK
  <2>5. call'[r] \in Call /\ call'[r].left = rest /\ call'[r].pc = "waiting"
    BY <1>1, <2>1, <2>2 DEF Call, RunContinues, BusyInv, TypeInv, TypeOK, CallsType
  <2>6. CallsType' /\ BusyInv'
    BY <1>1, <2>1, <2>2, <2>3, <2>5 DEF RunContinues, CallsType, BusyInv, TypeInv, TypeOK
  <2> QED BY <2>4, <2>6 DEF TypeInv, TypeOK
<1> QED BY <1>2, <1>3, <1>4 DEF RunContinues

\* The step timer of continueSweep.
LEMMA SweepStepType ==
    ASSUME TypeInv, NEW r \in Run, SweepStep(r) PROVE TypeInv'
<1>1. r \in Caller /\ call[r] \in Call /\ call[r].left \in Seq(Motor) /\ call[r].left # <<>>
        /\ Head(call[r].left) \in Motor
    BY HeadTail DEF Caller, SweepStep, TypeInv, TypeOK, CallsType, BusyInv, Call
<1>2. CASE SweepGoesOn(r)
  <2>1. SendCommand(r, Head(call[r].left), TRUE) /\ call' = [call EXCEPT ![r].pc = "waiting"]
    BY <1>2 DEF SweepStep
  <2>2. up' \in Seq(Command) /\ ack' \in [Caller -> {"none", "pending", "accepted", "rejected"}]
          /\ \A d \in Caller : d # r => ack'[d] = ack[d]
    BY <1>1, <2>1, SendCommandType DEF TypeInv
  <2>3. call'[r] \in Call /\ call'[r].left = call[r].left /\ call'[r].pc = "waiting"
    BY <1>1, <2>1 DEF Call, TypeInv, TypeOK, CallsType
  <2>4. ServiceType' /\ WireType' /\ HistoryType'
    <3>0. <<Head(call[r].left)>> \in Seq(Motor)
      BY <1>1
    <3>1. sequences' \in Seq(Motor)
      BY <1>2, <3>0 DEF SweepStep
    <3>2. started' \subseteq Motor
      BY <1>1, <1>2 DEF SweepStep, TypeInv, TypeOK, HistoryType
    <3> QED BY <2>2, <3>1, <3>2 DEF SweepStep, ServiceType, WireType, HistoryType, TypeInv, TypeOK
  <2>5. CallsType' /\ BusyInv'
    BY <1>1, <2>1, <2>2, <2>3 DEF SweepStep, CallsType, BusyInv, TypeInv, TypeOK
  <2> QED BY <2>4, <2>5 DEF TypeInv, TypeOK
<1>3. CASE ~SweepGoesOn(r)
  <2>0. ack[r] = "none"
    BY <1>1 DEF SweepStep, TypeInv, BusyInv
  <2>1. ServiceType' /\ WireType' /\ HistoryType'
    BY <1>3 DEF SweepStep, ServiceType, WireType, HistoryType, TypeInv, TypeOK
  <2>2. CallsType'
    BY <1>1, <1>3, IdleCallType DEF SweepStep, Done, CallsType, TypeInv, TypeOK
  <2>3. BusyInv'
    BY <1>1, <1>3, <2>0, IdleCallType DEF SweepStep, Done, CallsType, BusyInv, TypeInv, TypeOK
  <2> QED BY <2>1, <2>2, <2>3 DEF TypeInv, TypeOK
<1> QED BY <1>2, <1>3

\* continueSweep after an ack.
LEMMA SweepContinuesType ==
    ASSUME TypeInv, NEW r \in Run, SweepContinues(r) PROVE TypeInv'
<1>1. r \in Caller /\ call[r] \in Call /\ call[r].left \in Seq(Motor) /\ call[r].left # <<>>
    BY DEF Caller, SweepContinues, TypeInv, TypeOK, CallsType, BusyInv, Call
<1>2. ServiceType' /\ WireType' /\ HistoryType'
    BY DEF SweepContinues, TestFails, ServiceType, WireType, HistoryType, TypeInv, TypeOK
<1>3. ack' = [ack EXCEPT ![r] = "none"] /\ UNCHANGED <<calls, events>>
    BY DEF SweepContinues, TestFails
<1>4. CASE call' = Done(r)
  <2>1. CallsType' /\ BusyInv'
    BY <1>1, <1>3, <1>4, IdleCallType DEF Done, CallsType, BusyInv, TypeInv, TypeOK
  <2> QED BY <1>2, <2>1 DEF TypeInv, TypeOK
<1>5. CASE /\ Len(call[r].left) > 1
           /\ call' = [call EXCEPT ![r].pc = "gap", ![r].left = Tail(@)]
  <2>1. Tail(call[r].left) \in Seq(Motor) /\ Tail(call[r].left) # <<>>
    BY <1>1, <1>5, HeadTail
  <2>2. call'[r] \in Call /\ call'[r].left = Tail(call[r].left)
    BY <1>1, <1>5, <2>1 DEF Call, TypeInv, TypeOK, CallsType
  <2>3. CallsType' /\ BusyInv'
    BY <1>1, <1>3, <1>5, <2>1, <2>2 DEF CallsType, BusyInv, TypeInv, TypeOK
  <2> QED BY <1>2, <2>3 DEF TypeInv, TypeOK
<1> QED BY <1>4, <1>5 DEF SweepContinues, TestFails

\* stop() up to its first abort.
LEMMA StartStopType ==
    ASSUME TypeInv, NEW s \in Stop, StartStop(s) PROVE TypeInv'
<1> DEFINE new == [IdleCall EXCEPT !.pc = "waiting", !.phase = "stop",
                                   !.left = AbortSequences, !.settled = Settled]
<1>1. AbortSequences \in Seq(Motor) /\ AbortSequences # <<>> /\ Head(AbortSequences) \in Motor
    BY AbortType, HeadTail DEF TypeInv
<1>2. s \in Caller /\ sweepToken' \in Nat
    BY DEF Caller, StartStop, TypeInv, TypeOK, ServiceType
<1>3. SendCommand(s, Head(AbortSequences), FALSE) /\ call' = Begins(s, new)
    BY DEF StartStop
<1>4. Settled \in BOOLEAN
    BY DEF Settled
<1>5. new \in Call /\ new.left = AbortSequences /\ new.pc = "waiting"
    BY <1>1, <1>4 DEF IdleCall, Call, Modes
<1>6. up' \in Seq(Command) /\ ack' \in [Caller -> {"none", "pending", "accepted", "rejected"}]
        /\ \A d \in Caller : d # s => ack'[d] = ack[d]
    BY <1>1, <1>2, <1>3, SendCommandType DEF TypeInv
<1>10. /\ call' \in [Caller -> Call] /\ call'[s] = new
       /\ \A d \in Caller : d # s => call'[d].pc = call[d].pc /\ call'[d].left = call[d].left
    BY <1>2, <1>3, <1>5, BeginsType DEF TypeInv, TypeOK, CallsType
<1>7. ServiceType' /\ WireType' /\ HistoryType'
    BY <1>2, <1>6 DEF StartStop, ServiceType, WireType, HistoryType, TypeInv, TypeOK
<1>8. CallsType'
  <2>1. calls' \in 0..MaxCalls /\ events' \in 0..MaxEvents
    BY MotorAssumption DEF CallsType, TypeInv, TypeOK, StartStop
  <2> QED BY <1>6, <1>10, <2>1 DEF CallsType
<1>9. BusyInv'
  <2>1. call'[s].left # <<>> /\ call'[s].pc = "waiting"
    BY <1>1, <1>5, <1>10
  <2> HIDE DEF new
  <2> QED BY <1>6, <1>10, <2>1 DEF BusyInv, TypeInv
<1> QED BY <1>7, <1>8, <1>9 DEF TypeInv, TypeOK

\* stop() after an ack: the next abort, or its report.
LEMMA StopContinuesType ==
    ASSUME TypeInv, NEW s \in Stop, StopContinues(s) PROVE TypeInv'
<1> DEFINE rest == Tail(call[s].left)
           acknowledged == call[s].acknowledged /\ ack[s] = "accepted"
<1>1. s \in Caller /\ call[s] \in Call /\ rest \in Seq(Motor)
    BY HeadTail DEF Caller, StopContinues, TypeInv, TypeOK, CallsType, BusyInv, Call
<1>2. acknowledged \in BOOLEAN /\ call[s].pc = "waiting"
    BY <1>1 DEF StopContinues, TypeInv, BusyInv
<1>3. CASE rest # <<>>
  <2>1. Head(rest) \in Motor
    BY <1>1, <1>3, HeadTail
  <2>2. /\ call' = [call EXCEPT ![s].left = rest, ![s].acknowledged = acknowledged]
        /\ SendCommand(s, Head(rest), FALSE)
    BY <1>3 DEF StopContinues
  <2>3. up' \in Seq(Command) /\ ack' \in [Caller -> {"none", "pending", "accepted", "rejected"}]
          /\ \A d \in Caller : d # s => ack'[d] = ack[d]
    BY <1>1, <2>1, <2>2, SendCommandType DEF TypeInv
  <2>4. call'[s] \in Call /\ call'[s].left = rest /\ call'[s].pc = "waiting"
    BY <1>1, <1>2, <2>2 DEF Call, TypeInv, TypeOK, CallsType
  <2>5. ServiceType' /\ WireType' /\ HistoryType'
    BY <1>3, <2>3 DEF StopContinues, ServiceType, WireType, HistoryType, TypeInv, TypeOK
  <2>6. CallsType' /\ BusyInv'
    BY <1>1, <1>3, <2>2, <2>3, <2>4 DEF StopContinues, CallsType, BusyInv, TypeInv, TypeOK
  <2> QED BY <2>5, <2>6 DEF TypeInv, TypeOK
<1>4. CASE rest = <<>>
  <2>1. call' = Done(s) /\ ack' = [ack EXCEPT ![s] = "none"]
    BY <1>4 DEF StopContinues
  <2>2. stopped' \in {"no", "overlapped", "nothing", "unproven", "early", "proven"}
    BY <1>4 DEF StopContinues, Reported, Unstopped
  <2>3. <<>> \in Seq(Motor)
    OBVIOUS
  <2>4. ServiceType' /\ WireType' /\ HistoryType'
    BY <1>4, <2>2, <2>3 DEF StopContinues, ServiceType, WireType, HistoryType, TypeInv, TypeOK
  <2>5. CallsType' /\ BusyInv'
    BY <1>1, <2>1, IdleCallType DEF StopContinues, Done, CallsType, BusyInv, TypeInv, TypeOK
  <2> QED BY <2>4, <2>5 DEF TypeInv, TypeOK
<1> QED BY <1>3, <1>4

\* The steps that leave the calls alone, and only settle acks or move frames.
LEMMA OtherStepsType ==
    ASSUME TypeInv,
           \/ \E c \in Caller : AckTimeout(c)
           \/ \E m \in Motor : MotorTimesOut(m)
           \/ \E s \in Stop : StopFindsNothing(s)
           \/ CommandAck \/ WindowElapses \/ LinkDrop \/ Reconnect \/ Receive
           \/ UNCHANGED vars
    PROVE  TypeInv'
<1>0. <<>> \in Seq(Motor) /\ <<>> \in Seq(Command) /\ <<>> \in Seq({"accepted", "rejected"})
    OBVIOUS
<1>1. ASSUME NEW c \in Caller, AckTimeout(c) PROVE TypeInv'
    BY <1>1 DEF AckTimeout, TypeInv, TypeOK, BusyInv, ServiceType, CallsType, WireType,
                HistoryType, service, wire, history
<1>2. ASSUME NEW m \in Motor, MotorTimesOut(m) PROVE TypeInv'
    BY <1>2 DEF MotorTimesOut, TypeInv, TypeOK, BusyInv, ServiceType, CallsType, WireType,
                HistoryType, service, history
<1>3. ASSUME NEW s \in Stop, StopFindsNothing(s) PROVE TypeInv'
    BY <1>3, MotorAssumption DEF StopFindsNothing, TypeInv, TypeOK, BusyInv, ServiceType,
                CallsType, WireType, HistoryType, service, wire
<1>4. CASE CommandAck
  <2>1. Head(down) \in {"accepted", "rejected"} /\ Tail(down) \in Seq({"accepted", "rejected"})
    BY <1>4, HeadTail DEF CommandAck, TypeInv, TypeOK, WireType
  <2>2. CallsType' /\ BusyInv'
    BY <1>4, <2>1 DEF CommandAck, SettleAll, CallsType, BusyInv, TypeInv, TypeOK
  <2>3. ServiceType' /\ WireType' /\ HistoryType'
    BY <1>4, <2>1 DEF CommandAck, ServiceType, WireType, HistoryType, TypeInv, TypeOK,
                      service, history
  <2> QED BY <2>2, <2>3 DEF TypeInv, TypeOK
<1>5. CASE WindowElapses
    BY <1>5 DEF WindowElapses, AfterWindow, TypeInv, TypeOK, BusyInv, ServiceType, CallsType,
                WireType, HistoryType, wire, history
<1>6. CASE LinkDrop
  <2>1. CallsType' /\ BusyInv'
    BY <1>6, MotorAssumption DEF LinkDrop, SettleAll, CallsType, BusyInv, TypeInv, TypeOK
  <2>2. ServiceType'
    <3>1. sweepToken' \in Nat
      BY <1>6 DEF LinkDrop, ServiceType, TypeInv, TypeOK
    <3>2. sequences' \in Seq(Motor)
      BY <1>0, <1>6 DEF LinkDrop
    <3> QED BY <1>6, <3>1, <3>2 DEF LinkDrop, ServiceType
  <2>3. WireType'
    BY <1>0, <1>6 DEF LinkDrop, WireType, TypeInv, TypeOK
  <2>4. HistoryType'
    BY <1>6 DEF LinkDrop, HistoryType, TypeInv, TypeOK
  <2> QED BY <2>1, <2>2, <2>3, <2>4 DEF TypeInv, TypeOK
<1>7. CASE Reconnect
    BY <1>7 DEF Reconnect, TypeInv, TypeOK, BusyInv, ServiceType, CallsType, WireType,
                HistoryType, service, wire, history
<1>8. CASE Receive
  <2>0. Head(up) \in Command /\ Tail(up) \in Seq(Command)
    BY <1>8, HeadTail DEF Receive, TypeInv, TypeOK, WireType
  <2>1. Tail(up) \in Seq(Command) /\ Head(up).motor \in Motor
    BY <2>0 DEF Command
  <2>2. /\ Append(down, "accepted") \in Seq({"accepted", "rejected"})
        /\ Append(down, "rejected") \in Seq({"accepted", "rejected"})
        /\ down \in Seq({"accepted", "rejected"})
    BY DEF TypeInv, TypeOK, WireType
  <2>3. down' \in {Append(down, "accepted"), Append(down, "rejected"), down}
    BY <1>8 DEF Receive
  <2>4. spinning' \subseteq Motor
    BY <1>8, <2>1 DEF Receive, TypeInv, TypeOK, WireType
  <2>5. WireType'
    BY <1>8, <2>1, <2>2, <2>3, <2>4 DEF Receive, WireType
  <2> QED BY <1>8, <2>5 DEF Receive, TypeInv, TypeOK, BusyInv, ServiceType, CallsType,
                            HistoryType, service, history
<1>9. CASE UNCHANGED vars
    BY <1>9 DEF vars, TypeInv, TypeOK, BusyInv, ServiceType, CallsType, WireType,
                HistoryType, service, wire, history
<1> QED BY <1>1, <1>2, <1>3, <1>4, <1>5, <1>6, <1>7, <1>8, <1>9

\* Every step of the service, its callers, the wire and the board keeps the types.
LEMMA StepType == TypeInv /\ [Next]_vars => TypeInv'
BY StartRunType, RunContinuesType, SweepStepType, SweepContinuesType, StartStopType,
   StopContinuesType, OtherStepsType DEF Next

\* Every variable of the motor-test service and of its callers keeps its type,
\* whatever the calls, acks and link events interleave.
THEOREM TypeCorrect == Spec => []TypeOK
<1>1. TypeInv => TypeOK
    BY DEF TypeInv
<1> QED BY <1>1, InitType, StepType, PTL DEF Spec
------------------------------------------------------------------------------
(* The sweep.                                                              *)

\* sweepToken never goes back, and a call either keeps the token it holds, drops
\* it for 0, or takes the current one as a run() begins.
LEMMA TokenMoves ==
    ASSUME TypeInv, [Next]_vars
    PROVE  /\ sweepToken \in Nat /\ sweepToken' \in Nat /\ sweepToken <= sweepToken'
           /\ \A c \in Caller :
                 \/ call'[c].token \in {call[c].token, 0}
                 \/ call'[c].token = sweepToken' /\ stopped' \in Unstopped
<1> USE DEF TypeInv, TypeOK, ServiceType, CallsType
<1>1. ASSUME NEW r \in Run, NEW mode \in Mode, NEW replace \in BOOLEAN,
             NEW motors \in MotorsOf(mode), StartRun(r, mode, motors, replace)
      PROVE  /\ sweepToken' \in {sweepToken, sweepToken + 1}
             /\ \A c \in Caller : \/ call'[c].token = call[c].token
                                  \/ call'[c].token = sweepToken' /\ stopped' \in Unstopped
  <2> DEFINE new == [IdleCall EXCEPT !.pc = "waiting", !.mode = mode, !.left = motors,
                                     !.token = sweepToken']
  <2>1. sweepToken' \in {sweepToken, sweepToken + 1} /\ stopped' \in Unstopped
    BY <1>1 DEF StartRun, Unstopped
  <2>2. new.token = sweepToken'
    BY DEF IdleCall
  <2>3. call' = Begins(r, new)
    BY <1>1 DEF StartRun
  <2>4. ASSUME NEW c \in Caller, c # r PROVE call'[c].token = call[c].token
    BY <2>3, <2>4 DEF Begins, Call
  <2>5. r \in Caller => call'[r] = new
    BY <2>3 DEF Begins
  <2> QED BY <2>1, <2>2, <2>4, <2>5
<1>2. ASSUME NEW r \in Run, RunContinues(r) \/ SweepStep(r) \/ SweepContinues(r)
      PROVE  /\ sweepToken' = sweepToken
             /\ \A c \in Caller : call'[c].token \in {call[c].token, 0}
  <2>1. ASSUME NEW c \in Caller, call' = Done(r) PROVE call'[c].token \in {call[c].token, 0}
    BY <2>1 DEF Done, IdleCall
  <2>2. \/ call' = Done(r)
        \/ call' = [call EXCEPT ![r].pc = "gap", ![r].phase = "sweep", ![r].left = Tail(@)]
        \/ call' = [call EXCEPT ![r].left = Tail(call[r].left)]
        \/ call' = [call EXCEPT ![r].pc = "waiting"]
        \/ call' = [call EXCEPT ![r].pc = "gap", ![r].left = Tail(@)]
    BY <1>2 DEF RunContinues, SweepStep, SweepContinues, TestFails, TestRuns, NextMotor
  <2>3. r \in Caller /\ call \in [Caller -> Call]
    BY DEF Caller
  <2>4. ASSUME NEW c \in Caller PROVE call'[c].token \in {call[c].token, 0}
    <3>1. CASE c # r
      BY <2>2, <2>3, <3>1 DEF Done
    <3>2. CASE c = r /\ call' # Done(r)
      <4>1. call[r] \in Call
        BY <2>3
      <4> QED BY <2>2, <2>3, <3>2, <4>1 DEF Call
    <3> QED BY <2>1, <3>1, <3>2
  <2>5. sweepToken' = sweepToken
    BY <1>2 DEF RunContinues, SweepStep, SweepContinues
  <2> QED BY <2>4, <2>5
<1>3. ASSUME NEW s \in Stop, StartStop(s) \/ StopContinues(s)
      PROVE  /\ sweepToken' \in {sweepToken, sweepToken + 1}
             /\ \A c \in Caller : call'[c].token \in {call[c].token, 0}
  <2>1. CASE StartStop(s)
    <3> DEFINE new == [IdleCall EXCEPT !.pc = "waiting", !.phase = "stop",
                                       !.left = AbortSequences, !.settled = Settled]
    <3>1. call' = Begins(s, new) /\ sweepToken' = sweepToken + 1
      BY <2>1 DEF StartStop
    <3>2. new.token = 0
      BY DEF IdleCall
    <3>3. ASSUME NEW c \in Caller, c # s PROVE call'[c].token = call[c].token
      BY <3>1, <3>3 DEF Begins, Call
    <3>4. s \in Caller => call'[s] = new
      BY <3>1 DEF Begins
    <3> QED BY <3>1, <3>2, <3>3, <3>4
  <2>2. ASSUME NEW c \in Caller, StopContinues(s) PROVE call'[c].token \in {call[c].token, 0}
    <3>1. CASE Tail(call[s].left) # <<>>
      <4>1. call' = [call EXCEPT ![s].left = Tail(call[s].left),
                                 ![s].acknowledged = call[s].acknowledged /\ ack[s] = "accepted"]
        BY <2>2, <3>1 DEF StopContinues
      <4> QED BY <4>1 DEF Call
    <3>2. CASE Tail(call[s].left) = <<>>
      <4>1. call' = Done(s)
        BY <2>2, <3>2 DEF StopContinues
      <4> QED BY <4>1 DEF Done, IdleCall
    <3> QED BY <3>1, <3>2
  <2>3. CASE StopContinues(s)
    BY <2>2, <2>3 DEF StopContinues
  <2> QED BY <1>3, <2>1, <2>3
<1>4. ASSUME \/ \E s \in Stop : StopFindsNothing(s)
             \/ \E c \in Caller : AckTimeout(c)
             \/ \E m \in Motor : MotorTimesOut(m)
             \/ CommandAck \/ WindowElapses \/ LinkDrop \/ Reconnect \/ Receive
             \/ UNCHANGED vars
      PROVE  call' = call /\ sweepToken' \in {sweepToken, sweepToken + 1}
    BY <1>4 DEF StopFindsNothing, AckTimeout, MotorTimesOut, CommandAck, WindowElapses,
                LinkDrop, Reconnect, Receive, vars, service
<1> QED BY <1>1, <1>2, <1>3, <1>4 DEF Next

\* Whatever begins a stop or resets the service bumps sweepToken in the same step.
LEMMA StopBumps ==
    ASSUME TypeInv, [Next]_vars,
           stopped' \notin Unstopped, stopped \in Unstopped
    PROVE  sweepToken' = sweepToken + 1
<1>1. ASSUME NEW r \in Run PROVE
        /\ \A mode \in Mode, replace \in BOOLEAN : \A motors \in MotorsOf(mode) :
              StartRun(r, mode, motors, replace) => stopped' \in Unstopped
        /\ RunContinues(r) \/ SweepStep(r) \/ SweepContinues(r) => stopped' = stopped
    BY DEF StartRun, RunContinues, SweepStep, SweepContinues, Unstopped
<1>2. ASSUME NEW s \in Stop PROVE
        /\ StartStop(s) => sweepToken' = sweepToken + 1
        /\ StopFindsNothing(s) => stopped' \in Unstopped
        /\ StopContinues(s) => stopped' = stopped
    BY DEF StartStop, StopFindsNothing, StopContinues, Reported, Unstopped
<1>3. LinkDrop => sweepToken' = sweepToken + 1
    BY DEF LinkDrop
<1>4. ASSUME \/ \E c \in Caller : AckTimeout(c)
             \/ \E m \in Motor : MotorTimesOut(m)
             \/ CommandAck \/ WindowElapses \/ Reconnect \/ Receive \/ UNCHANGED vars
      PROVE  stopped' = stopped
    BY <1>4 DEF AckTimeout, MotorTimesOut, CommandAck, WindowElapses, Reconnect, Receive,
                vars, history
<1> QED BY <1>1, <1>2, <1>3, <1>4 DEF Next

\* No call holds a token of the future, and after a stop() every token held is out
\* of date.
LEMMA StepToken == TypeInv /\ TokenInv /\ [Next]_vars => TokenInv'
<1> SUFFICES ASSUME TypeInv, TokenInv, [Next]_vars, NEW c \in Caller
             PROVE  /\ call'[c].token <= sweepToken'
                    /\ stopped' \notin Unstopped => call'[c].token < sweepToken'
    BY DEF TokenInv, Unstopped
<1>1. call[c].token \in Nat /\ call[c].token <= sweepToken
        /\ (stopped \notin Unstopped => call[c].token < sweepToken)
    BY DEF TypeInv, TypeOK, CallsType, Call, TokenInv
<1>2. /\ sweepToken \in Nat /\ sweepToken' \in Nat /\ sweepToken <= sweepToken'
      /\ \/ call'[c].token \in {call[c].token, 0}
         \/ call'[c].token = sweepToken' /\ stopped' \in Unstopped
    BY TokenMoves
<1>3. stopped' \notin Unstopped /\ stopped \in Unstopped
        => sweepToken' = sweepToken + 1
    BY StopBumps
<1> QED BY <1>1, <1>2, <1>3

\* A sweep commands its next motor only while the token it holds is current, so
\* never once a stop() has begun or the service was reset: "Ends an in-order sweep
\* before its next motor fires" (stop), for any number of motors and calls.
THEOREM StopEndsSweepAlways == Spec => StopEndsSweep
<1>1. Init => TokenInv
    BY IdleCallType DEF Init, TokenInv, Unstopped
<1>2. ASSUME TypeInv, TokenInv, [Next]_vars, NEW r \in Run,
             call[r].pc = "gap", call'[r].pc = "waiting"
      PROVE  stopped \in Unstopped
  <2>1. r \in Caller /\ ack[r] = "none" /\ call \in [Caller -> Call]
    BY <1>2 DEF Caller, TypeInv, BusyInv, TypeOK, CallsType
  <2>2. ASSUME NEW q \in Run PROVE
          /\ \A mode \in Mode, replace \in BOOLEAN : \A motors \in MotorsOf(mode) :
                StartRun(q, mode, motors, replace) => call'[r].pc = call[r].pc
          /\ RunContinues(q) \/ SweepContinues(q) => call'[r] = call[r]
          /\ SweepStep(q) => SweepGoesOn(r) \/ call'[r].pc # "waiting"
    <3>0. q \in Caller
      BY DEF Caller
    <3>1. ASSUME NEW mode \in Mode, NEW replace \in BOOLEAN, NEW motors \in MotorsOf(mode),
                 StartRun(q, mode, motors, replace)
          PROVE  call'[r].pc = call[r].pc
      <4>1. q # r /\ \E new : call' = Begins(q, new)
        BY <1>2, <3>1 DEF StartRun
      <4> QED BY <2>1, <4>1 DEF Begins, Call
    <3>2. ASSUME RunContinues(q) PROVE call'[r] = call[r]
      BY <1>2, <2>1, <3>0, <3>2 DEF RunContinues, TestFails, TestRuns, NextMotor, Done
    <3>3. ASSUME SweepContinues(q) PROVE call'[r] = call[r]
      BY <1>2, <2>1, <3>0, <3>3 DEF SweepContinues, TestFails, Done
    <3>4. ASSUME SweepStep(q), q # r PROVE call'[r] = call[r]
      BY <2>1, <3>0, <3>4 DEF SweepStep, Done
    <3>5. ASSUME SweepStep(r), ~SweepGoesOn(r) PROVE call'[r].pc # "waiting"
      BY <2>1, <3>5 DEF SweepStep, Done, IdleCall
    <3> QED BY <1>2, <3>1, <3>2, <3>3, <3>4, <3>5
  <2>3. ASSUME NEW s \in Stop PROVE
          StartStop(s) \/ StopFindsNothing(s) \/ StopContinues(s) => call'[r].pc = call[r].pc
    <3>1. CASE StartStop(s)
      <4>1. s # r /\ \E new : call' = Begins(s, new)
        BY <3>1, MotorAssumption DEF StartStop
      <4> QED BY <2>1, <4>1 DEF Begins, Call
    <3>2. CASE StopFindsNothing(s) \/ StopContinues(s)
      BY <1>2, <2>1, <3>2, MotorAssumption DEF StopFindsNothing, StopContinues, Done, Caller
    <3> QED BY <3>1, <3>2
  <2>4. ASSUME \/ \E c \in Caller : AckTimeout(c)
               \/ \E m \in Motor : MotorTimesOut(m)
               \/ CommandAck \/ WindowElapses \/ LinkDrop \/ Reconnect \/ Receive
               \/ UNCHANGED vars
        PROVE  call'[r] = call[r]
    BY <2>4 DEF AckTimeout, MotorTimesOut, CommandAck, WindowElapses, LinkDrop, Reconnect,
                Receive, vars
  <2>5. SweepGoesOn(r)
    BY <1>2, <2>2, <2>3, <2>4 DEF Next
  <2>6. call[r].token = sweepToken /\ sweepToken \in Nat
    BY <1>2, <2>5 DEF SweepGoesOn, TypeInv, TypeOK, ServiceType
  <2>7. stopped \notin Unstopped => call[r].token < sweepToken
    BY <1>2, <2>1 DEF TokenInv
  <2> QED BY <2>6, <2>7
<1>3. TypeInv /\ TokenInv /\ [Next]_vars =>
        [\A r \in Run : call[r].pc = "gap" /\ call'[r].pc = "waiting" =>
             stopped \in Unstopped]_vars
    BY <1>2
<1> QED BY <1>1, <1>3, InitType, StepType, StepToken, PTL DEF Spec, StopEndsSweep
------------------------------------------------------------------------------
(* The abort.                                                              *)

\* A call is between its first send and its return.
InProgress(c) == call[c].pc # "idle"

\* The motors of a queue follow one another.
Ordered(q) == \A i \in 1..Len(q) : q[i] = Head(q) + (i - 1)

\* What a call in progress looks like: a waiter while it waits, the phases of its
\* kind, and for a run() the motors in order.
CallShape ==
    /\ \A c \in Caller : call[c].pc = "waiting" => ack[c] # "none"
    /\ \A s \in Stop : call[s].pc # "gap" /\ (InProgress(s) => call[s].phase = "stop")
    /\ \A r \in Run : /\ call[r].phase # "stop"
                      /\ call[r].pc = "gap" => call[r].phase = "sweep"
                      /\ call[r].phase = "sweep" => call[r].mode = "sweep"
                      /\ Ordered(call[r].left)

\* The queue of frames q holds one that turns motor m on.
TurnsOn(m, q) == \E i \in 1..Len(q) : q[i].on /\ q[i].motor = m

\* Motor m does not turn, and nothing on the wire will make it turn.
Still(m) == m \notin spinning /\ ~TurnsOn(m, up)

Among(m, q) == \E i \in 1..Len(q) : q[i] = m

\* Until it is stopped, a test that overlapped no call is the only call in progress,
\* and the service's sequences are those of the motors it is at.
OneCall ==
    stopped = "no" =>
        /\ \A c, d \in Caller : InProgress(c) /\ InProgress(d) => c = d
        /\ \A s \in Stop : ~InProgress(s)
        /\ \A r \in Run : InProgress(r) =>
              /\ call[r].settled
              /\ call[r].mode # "single" => sequences # <<>>
              /\ call[r].mode = "sweep" =>
                    sequences = <<IF call[r].pc = "gap" THEN Head(call[r].left) - 1
                                                        ELSE Head(call[r].left)>>

\* Such a test has recorded every motor it commanded that may turn, or commanded
\* one motor and recorded none.
Recorded ==
    stopped = "no" => \/ \A m \in started : Among(m, sequences) \/ Still(m)
                      \/ sequences = <<>> /\ \E m \in Motor : started = {m}

\* What a settled stop() knows while every abort has been acknowledged: the frame
\* on the wire is its own, the ack it takes is for the motor it waits for, and the
\* motors that may still turn are those it has not aborted.
Aborts(s) ==
    /\ \/ up = <<>>
       \/ up = <<[motor |-> Head(call[s].left), on |-> FALSE]>> /\ down = <<>>
    /\ down \in {<<>>, <<"accepted">>}
    /\ ack[s] = "accepted" => up = <<>> /\ down = <<>>
    /\ ack[s] = "accepted" \/ down # <<>> => Head(call[s].left) \notin spinning
    /\ (\A m \in started \cap spinning : Among(m, call[s].left)) \/ OtherMotorAlone

\* A settled stop() is the only call that waits, and no sweep will go on beside it.
Undisturbed(s) ==
    /\ \A c \in Caller : c # s => ack[c] = "none"
    /\ \A r \in Run : call[r].token < sweepToken
    /\ \A t \in Stop : InProgress(t) => t = s
    /\ call[s].acknowledged /\ ack[s] # "rejected" => Aborts(s)

StopInv ==
    /\ \A s \in Stop : InProgress(s) /\ call[s].settled => Undisturbed(s)
    /\ stopped = "proven" => /\ \A c \in Caller : ack[c] = "none"
                             /\ up = <<>>
                             /\ spinning \cap started = {} \/ OtherMotorAlone

\* A motor of a queue is its head or one of its tail; a queue grows at its end.
LEMMA AmongQueue ==
    ASSUME NEW S, NEW q \in Seq(S), NEW x \in S, NEW m
    PROVE  /\ q # <<>> /\ Among(m, q) => m = Head(q) \/ Among(m, Tail(q))
           /\ Among(m, Append(q, x)) <=> Among(m, q) \/ m = x
<1>1. ASSUME q # <<>>, NEW i \in 1..Len(q), q[i] = m, m # Head(q) PROVE Among(m, Tail(q))
  <2>1. i # 1 /\ Len(Tail(q)) = Len(q) - 1
    BY <1>1
  <2>2. i - 1 \in 1..Len(Tail(q)) /\ Tail(q)[i - 1] = q[i]
    BY <1>1, <2>1
  <2> QED BY <1>1, <2>2 DEF Among
<1>2. Len(Append(q, x)) = Len(q) + 1 /\ Append(q, x)[Len(q) + 1] = x
        /\ \A i \in 1..Len(q) : Append(q, x)[i] = q[i]
    OBVIOUS
<1>3. Among(m, Append(q, x)) <=> Among(m, q) \/ m = x
  <2>1. Len(q) \in Nat
    OBVIOUS
  <2> QED BY <1>2, <2>1 DEF Among
<1> QED BY <1>1, <1>3 DEF Among

\* The same for the frames that turn a motor on.
LEMMA TurnsOnQueue ==
    ASSUME NEW q \in Seq(Command), NEW f \in Command, NEW m
    PROVE  /\ ~TurnsOn(m, <<>>)
           /\ q # <<>> /\ TurnsOn(m, Tail(q)) => TurnsOn(m, q)
           /\ q # <<>> /\ Head(q).on /\ Head(q).motor = m => TurnsOn(m, q)
           /\ TurnsOn(m, Append(q, f)) => TurnsOn(m, q) \/ (f.on /\ f.motor = m)
<1>1. ASSUME q # <<>>, NEW i \in 1..Len(Tail(q)), Tail(q)[i].on, Tail(q)[i].motor = m
      PROVE  TurnsOn(m, q)
  <2>1. i + 1 \in 1..Len(q) /\ Tail(q)[i] = q[i + 1]
    BY <1>1
  <2> QED BY <1>1, <2>1 DEF TurnsOn
<1>2. ASSUME q # <<>>, Head(q).on, Head(q).motor = m PROVE TurnsOn(m, q)
  <2>1. 1 \in 1..Len(q) /\ Head(q) = q[1]
    BY <1>2
  <2> QED BY <1>2, <2>1 DEF TurnsOn
<1>3. Len(Append(q, f)) = Len(q) + 1 /\ Append(q, f)[Len(q) + 1] = f
        /\ \A i \in 1..Len(q) : Append(q, f)[i] = q[i]
    OBVIOUS
<1>4. TurnsOn(m, Append(q, f)) => TurnsOn(m, q) \/ (f.on /\ f.motor = m)
  <2>1. Len(q) \in Nat
    OBVIOUS
  <2> QED BY <1>3, <2>1 DEF TurnsOn
<1> QED BY <1>1, <1>2, <1>4 DEF TurnsOn

\* The rest of an ordered queue is ordered, and its head comes next.
LEMMA OrderedTail ==
    ASSUME NEW q \in Seq(Motor), Ordered(q), Len(q) > 1
    PROVE  Ordered(Tail(q)) /\ Head(Tail(q)) = Head(q) + 1
<1>1. Motor \subseteq Int
    BY MotorAssumption DEF Motor
<1>2. Len(Tail(q)) = Len(q) - 1 /\ \A i \in 1..Len(q) - 1 : Tail(q)[i] = q[i + 1]
    OBVIOUS
<1>3. Head(Tail(q)) = Tail(q)[1]
    BY <1>2
<1>4. \A i \in 1..Len(q) - 1 : Tail(q)[i] = Head(q) + i
    BY <1>2 DEF Ordered
<1>5. Head(q) \in Int
  <2>1. q # <<>>
    OBVIOUS
  <2> QED BY <1>1, <2>1, HeadTail
<1>6. Head(Tail(q)) = Head(q) + 1
    BY <1>3, <1>4
<1> QED BY <1>2, <1>4, <1>5, <1>6 DEF Ordered

\* Every mode commands its motors in order.
LEMMA MotorsOrdered ==
    ASSUME NEW mode, NEW motors \in MotorsOf(mode) PROVE Ordered(motors)
<1>1. MotorCount \in Nat \ {0}
    BY MotorAssumption
<1>2. CASE mode = "single"
  <2>1. PICK m \in Motor : motors = <<m>>
    BY <1>2 DEF MotorsOf
  <2> QED BY <1>1, <2>1 DEF Ordered, Motor
<1>3. CASE mode # "single"
  <2>1. motors = [i \in 1..MotorCount |-> i]
    BY <1>3 DEF MotorsOf, Motor
  <2>2. Len(motors) = MotorCount /\ Head(motors) = motors[1]
    BY <1>1, <2>1
  <2>3. Head(motors) = 1 /\ \A i \in 1..MotorCount : motors[i] = i
    BY <1>1, <2>1, <2>2
  <2> QED BY <1>1, <2>2, <2>3 DEF Ordered
<1> QED BY <1>2, <1>3
\* sendCommand registers a waiter, or settles it at once; the frame is sent or lost.
LEMMA Sends ==
    ASSUME TypeOK, NEW c \in Caller, NEW m \in Motor, NEW on \in BOOLEAN,
           SendCommand(c, m, on)
    PROVE  /\ ack'[c] \in {"pending", "rejected"}
           /\ \A d \in Caller : d # c => ack'[d] = ack[d]
           /\ up' \in {Append(up, [motor |-> m, on |-> on]), up}
BY DEF SendCommand, TypeOK, CallsType

\* The call returns.
Returns(c) == call'[c] = IdleCall /\ ack'[c] = "none" /\ UNCHANGED <<up, started>>

\* The sweep waits for its next motor.
Pauses(r) ==
    /\ call[r].mode = "sweep" /\ call[r].pc = "waiting" /\ Len(call[r].left) > 1
    /\ call'[r].pc = "gap" /\ call'[r].phase = "sweep" /\ call'[r].mode = "sweep"
    /\ call'[r].left = Tail(call[r].left)
    /\ call'[r].token = call[r].token /\ call'[r].settled = call[r].settled
    /\ ack'[r] = "none"
    /\ UNCHANGED <<sequences, up, started>>

\* The call commands its next motor.
Commands(r) ==
    /\ call'[r].pc = "waiting" /\ call'[r].phase = call[r].phase
    /\ call'[r].mode = call[r].mode
    /\ call'[r].token = call[r].token /\ call'[r].settled = call[r].settled
    /\ SendCommand(r, Head(call'[r].left), TRUE)
    /\ started' = started \cup {Head(call'[r].left)}
    /\ \/ /\ call[r].phase = "run" /\ call[r].mode = "simultaneous"
          /\ ack[r] = "accepted"
          /\ Len(call[r].left) > 1 /\ call'[r].left = Tail(call[r].left)
          /\ sequences' = Append(sequences, Head(call'[r].left))
       \/ /\ call[r].pc = "gap" /\ call'[r].left = call[r].left
          /\ SweepGoesOn(r) /\ WindowOver(r)
          /\ sequences' = <<Head(call'[r].left)>>

\* What a continuation of run() or continueSweep() does.
LEMMA RunStep ==
    ASSUME TypeInv, CallShape, NEW r \in Run,
           RunContinues(r) \/ SweepStep(r) \/ SweepContinues(r)
    PROVE  /\ \A c \in Caller : c # r => call'[c] = call[c] /\ ack'[c] = ack[c]
           /\ (Returns(r) /\ sequences' = sequences) \/ Pauses(r) \/ Commands(r)
           /\ UNCHANGED <<spinning, down, stopped, sweepToken>>
           /\ InProgress(r)
           /\ ack[r] # "none" \/ call[r].pc = "gap"
<1>0. /\ r \in Caller /\ call \in [Caller -> Call] /\ call[r] \in Call
      /\ ack \in [Caller -> {"none", "pending", "accepted", "rejected"}]
      /\ TypeOK
    BY DEF Caller, TypeInv, TypeOK, CallsType
<1>1. /\ call[r].phase # "stop" /\ (call[r].phase = "sweep" => call[r].mode = "sweep")
      /\ (call[r].pc = "gap" => call[r].phase = "sweep")
      /\ (ack[r] # "none" => call[r].pc = "waiting")
    BY <1>0 DEF CallShape, TypeInv, BusyInv
<1>2. UNCHANGED <<spinning, down, stopped, sweepToken>>
    BY DEF RunContinues, SweepStep, SweepContinues
<1>3. InProgress(r) /\ (ack[r] # "none" \/ call[r].pc = "gap")
    BY <1>1 DEF RunContinues, SweepStep, SweepContinues, InProgress
<1>4. ASSUME call' = Done(r), ack' = [ack EXCEPT ![r] = "none"], UNCHANGED <<sequences, up, started>>
      PROVE  /\ \A c \in Caller : c # r => call'[c] = call[c] /\ ack'[c] = ack[c]
             /\ Returns(r) /\ sequences' = sequences
    BY <1>0, <1>4 DEF Done, Returns
<1>5. ASSUME ack' = [ack EXCEPT ![r] = "none"], UNCHANGED <<sequences, up, started>>,
             call[r].mode = "sweep", ack[r] # "none", Len(call[r].left) > 1,
             \/ call' = [call EXCEPT ![r].pc = "gap", ![r].phase = "sweep", ![r].left = Tail(@)]
             \/ /\ call[r].phase = "sweep"
                /\ call' = [call EXCEPT ![r].pc = "gap", ![r].left = Tail(@)]
      PROVE  (\A c \in Caller : c # r => call'[c] = call[c] /\ ack'[c] = ack[c]) /\ Pauses(r)
  <2>1. \A c \in Caller : c # r => call'[c] = call[c] /\ ack'[c] = ack[c]
    BY <1>0, <1>5
  <2>2. call[r].pc = "waiting" /\ ack'[r] = "none"
    BY <1>0, <1>1, <1>5
  <2>3. /\ call'[r].pc = "gap" /\ call'[r].phase = "sweep" /\ call'[r].mode = "sweep"
        /\ call'[r].left = Tail(call[r].left)
        /\ call'[r].token = call[r].token /\ call'[r].settled = call[r].settled
    BY <1>0, <1>5 DEF Call
  <2> QED BY <1>5, <2>1, <2>2, <2>3 DEF Pauses
<1>6. CASE RunContinues(r)
  <2>1. CASE TestFails(r)
    BY <1>2, <1>3, <1>4, <2>1 DEF TestFails
  <2>2. CASE /\ call[r].mode = "simultaneous" /\ Len(call[r].left) > 1
             /\ ack[r] = "accepted" /\ NextMotor(r)
    <3> DEFINE rest == Tail(call[r].left)
    <3>1. rest \in Seq(Motor) /\ rest # <<>> /\ Head(rest) \in Motor
      BY <1>0, <2>2, HeadTail DEF Call, TypeInv, BusyInv
    <3>2. call' = [call EXCEPT ![r].left = rest] /\ SendCommand(r, Head(rest), TRUE)
      BY <2>2 DEF NextMotor
    <3>3. \A c \in Caller : c # r => call'[c] = call[c] /\ ack'[c] = ack[c]
      BY <1>0, <3>1, <3>2, Sends
    <3>4. call'[r] = [call[r] EXCEPT !.left = rest]
      BY <1>0, <3>2
    <3>5. /\ call'[r].left = rest /\ call'[r].pc = call[r].pc /\ call'[r].phase = call[r].phase
          /\ call'[r].mode = call[r].mode /\ call'[r].token = call[r].token
          /\ call'[r].settled = call[r].settled
      BY <1>0, <3>4 DEF Call
    <3>6. /\ started' = started \cup {Head(rest)} /\ sequences' = Append(sequences, Head(rest))
          /\ call[r].phase = "run" /\ call[r].pc = "waiting"
      BY <1>1, <1>6, <2>2 DEF NextMotor, RunContinues
    <3>7. Commands(r)
      BY <2>2, <3>2, <3>5, <3>6 DEF Commands
    <3> QED BY <1>2, <1>3, <3>3, <3>7
  <2>3. CASE TestRuns(r)
    <3>1. CASE call' = Done(r)
      BY <1>2, <1>3, <1>4, <2>3, <3>1 DEF TestRuns
    <3>2. CASE call' # Done(r)
      BY <1>2, <1>3, <1>5, <1>6, <2>3, <3>2 DEF TestRuns, RunContinues
    <3> QED BY <3>1, <3>2
  <2> QED BY <1>6, <2>1, <2>2, <2>3 DEF RunContinues
<1>7. CASE SweepContinues(r)
  <2>1. CASE TestFails(r)
    BY <1>2, <1>3, <1>4, <2>1 DEF TestFails
  <2>2. CASE ~TestFails(r)
    <3>1. ack' = [ack EXCEPT ![r] = "none"] /\ UNCHANGED <<sequences, up, started>>
      BY <1>7, <2>2 DEF SweepContinues
    <3>2. call[r].phase = "sweep" /\ ack[r] # "none"
      BY <1>7 DEF SweepContinues
    <3>3. \/ call' = Done(r)
          \/ /\ Len(call[r].left) > 1
             /\ call' = [call EXCEPT ![r].pc = "gap", ![r].left = Tail(@)]
      BY <1>7, <2>2 DEF SweepContinues
    <3>4. CASE call' = Done(r)
      BY <1>2, <1>3, <1>4, <3>1, <3>4
    <3>5. CASE call' # Done(r)
      BY <1>1, <1>2, <1>3, <1>5, <3>1, <3>2, <3>3, <3>5
    <3> QED BY <3>4, <3>5
  <2> QED BY <2>1, <2>2
<1>8. CASE SweepStep(r)
  <2>1. CASE SweepGoesOn(r)
    <3>1. /\ call' = [call EXCEPT ![r].pc = "waiting"] /\ sequences' = <<Head(call[r].left)>>
          /\ SendCommand(r, Head(call[r].left), TRUE)
          /\ started' = started \cup {Head(call[r].left)}
          /\ call[r].pc = "gap" /\ WindowOver(r)
      BY <1>8, <2>1 DEF SweepStep
    <3>2. Head(call[r].left) \in Motor
      BY <1>0, <3>1, HeadTail DEF Call, TypeInv, BusyInv
    <3>3. \A c \in Caller : c # r => call'[c] = call[c] /\ ack'[c] = ack[c]
      BY <1>0, <3>1, <3>2, Sends
    <3>4. /\ call'[r].left = call[r].left /\ call'[r].pc = "waiting"
          /\ call'[r].phase = call[r].phase
          /\ call'[r].mode = call[r].mode /\ call'[r].token = call[r].token
          /\ call'[r].settled = call[r].settled
      BY <1>0, <3>1 DEF Call
    <3>5. Commands(r)
      BY <2>1, <3>1, <3>4 DEF Commands
    <3> QED BY <1>2, <1>3, <3>3, <3>5
  <2>2. CASE ~SweepGoesOn(r)
    <3>1. call' = Done(r) /\ UNCHANGED <<sequences, ack, up, started>> /\ call[r].pc = "gap"
      BY <1>8, <2>2 DEF SweepStep
    <3>2. ack[r] = "none"
      BY <1>1, <3>1
    <3> QED BY <1>0, <1>2, <1>3, <3>1, <3>2 DEF Done, Returns
  <2> QED BY <2>1, <2>2
<1> QED BY <1>6, <1>7, <1>8
\* What the continuation of stop() does: the next abort, or its report.
LEMMA StopStep ==
    ASSUME TypeInv, CallShape, NEW s \in Stop, StopContinues(s)
    PROVE  /\ \A c \in Caller : c # s => call'[c] = call[c] /\ ack'[c] = ack[c]
           /\ UNCHANGED <<spinning, down, sweepToken, started>>
           /\ call[s].pc = "waiting" /\ ack[s] \in {"accepted", "rejected"}
           /\ call[s].left \in Seq(Motor) /\ call[s].left # <<>>
           /\ \/ /\ Tail(call[s].left) = <<>> /\ Returns(s)
                 /\ stopped' = Reported(s, call[s].acknowledged /\ ack[s] = "accepted")
              \/ /\ Tail(call[s].left) # <<>>
                 /\ call'[s].left = Tail(call[s].left) /\ call'[s].pc = "waiting"
                 /\ call'[s].phase = "stop"
                 /\ call'[s].settled = call[s].settled /\ call'[s].token = call[s].token
                 /\ call'[s].acknowledged = (call[s].acknowledged /\ ack[s] = "accepted")
                 /\ SendCommand(s, Head(call'[s].left), FALSE) /\ stopped' = stopped
<1> DEFINE rest == Tail(call[s].left)
           acknowledged == call[s].acknowledged /\ ack[s] = "accepted"
<1>0. /\ s \in Caller /\ call \in [Caller -> Call] /\ call[s] \in Call
      /\ ack \in [Caller -> {"none", "pending", "accepted", "rejected"}]
      /\ TypeOK
    BY DEF Caller, TypeInv, TypeOK, CallsType
<1>1. call[s].pc = "waiting" /\ ack[s] \in {"accepted", "rejected"}
    BY <1>0 DEF StopContinues, TypeInv, BusyInv
<1>2. call[s].left \in Seq(Motor) /\ call[s].left # <<>> /\ rest \in Seq(Motor)
    BY <1>0, <1>1, HeadTail DEF Call, TypeInv, BusyInv
<1>3. UNCHANGED <<spinning, down, sweepToken, started>> /\ call[s].phase = "stop"
    BY DEF StopContinues
<1>4. CASE rest = <<>>
  <2>1. call' = Done(s) /\ ack' = [ack EXCEPT ![s] = "none"] /\ up' = up
          /\ stopped' = Reported(s, acknowledged)
    BY <1>4 DEF StopContinues
  <2>2. (\A c \in Caller : c # s => call'[c] = call[c] /\ ack'[c] = ack[c]) /\ Returns(s)
    BY <1>0, <1>3, <2>1 DEF Done, Returns
  <2> QED BY <1>1, <1>2, <1>3, <1>4, <2>1, <2>2
<1>5. CASE rest # <<>>
  <2>1. /\ call' = [call EXCEPT ![s].left = rest, ![s].acknowledged = acknowledged]
        /\ SendCommand(s, Head(rest), FALSE) /\ stopped' = stopped
    BY <1>5 DEF StopContinues
  <2>2. Head(rest) \in Motor
    BY <1>2, <1>5, HeadTail
  <2>3. \A c \in Caller : c # s => call'[c] = call[c] /\ ack'[c] = ack[c]
    BY <1>0, <2>1, <2>2, Sends
  <2>4. call'[s] = [call[s] EXCEPT !.left = rest, !.acknowledged = acknowledged]
    BY <1>0, <2>1
  <2>5. /\ call'[s].left = rest /\ call'[s].acknowledged = acknowledged
        /\ call'[s].pc = call[s].pc /\ call'[s].phase = call[s].phase
        /\ call'[s].settled = call[s].settled /\ call'[s].token = call[s].token
    BY <1>0, <2>4 DEF Call
  <2> QED BY <1>1, <1>2, <1>3, <1>5, <2>1, <2>3, <2>5
<1> QED BY <1>4, <1>5

\* run() has taken its first step.
RunBegan(r, mode, motors) ==
    /\ call[r].pc = "idle" /\ call'[r].pc = "waiting" /\ call'[r].phase = "run"
    /\ call'[r].mode = mode /\ call'[r].left = motors /\ call'[r].settled
    /\ motors \in Seq(Motor) /\ motors # <<>>
    /\ SendCommand(r, Head(motors), TRUE)
    /\ \A c \in Caller : c # r => /\ ack'[c] = ack[c]
                                  /\ call'[c].pc = call[c].pc
                                  /\ call'[c].left = call[c].left
                                  /\ call'[c].phase = call[c].phase
                                  /\ call'[c].mode = call[c].mode
                                  /\ call'[c].settled => call[c].pc = "idle"
    /\ sequences' = IF mode = "single" THEN <<>> ELSE <<Head(motors)>>
    /\ started' = {Head(motors)}
    /\ stopped' = IF \A c \in Caller : call[c].pc = "idle" THEN "no" ELSE "overlapped"

\* What run() does up to its first send.
LEMMA RunBegins ==
    ASSUME TypeInv, CallShape, NEW r \in Run, NEW mode \in Mode, NEW replace \in BOOLEAN,
           NEW motors \in MotorsOf(mode), StartRun(r, mode, motors, replace)
    PROVE  RunBegan(r, mode, motors)
<1> DEFINE new == [IdleCall EXCEPT !.pc = "waiting", !.mode = mode, !.left = motors,
                                   !.token = sweepToken']
<1>1. motors \in Seq(Motor) /\ motors # <<>> /\ Head(motors) \in Motor
    BY MotorsType, HeadTail
<1>2. r \in Caller /\ sweepToken' \in Nat /\ TypeOK
    BY DEF Caller, StartRun, TypeInv, TypeOK, ServiceType
<1>3. /\ new \in Call /\ new.pc = "waiting" /\ new.phase = "run" /\ new.mode = mode
      /\ new.left = motors /\ new.settled
    BY <1>1, <1>2, MotorAssumption DEF IdleCall, Call
<1>4. call' = Begins(r, new) /\ SendCommand(r, Head(motors), TRUE) /\ call[r].pc = "idle"
    BY DEF StartRun
<1>5. /\ call'[r] = new
      /\ \A c \in Caller : c # r => /\ call'[c].pc = call[c].pc
                                    /\ call'[c].left = call[c].left
                                    /\ call'[c].phase = call[c].phase
                                    /\ call'[c].mode = call[c].mode
                                    /\ call'[c].settled => call[c].pc = "idle"
    BY <1>2, <1>3, <1>4, BeginsType DEF TypeOK, CallsType
<1>6. \A c \in Caller : c # r => ack'[c] = ack[c]
    BY <1>1, <1>2, <1>4, Sends
<1> HIDE DEF new
<1> QED BY <1>1, <1>3, <1>4, <1>5, <1>6 DEF StartRun, RunBegan

\* stop() has taken its first step.
StopBegan(s) ==
    /\ call[s].pc = "idle" /\ call'[s].pc = "waiting" /\ call'[s].phase = "stop"
    /\ call'[s].left = AbortSequences /\ call'[s].settled = Settled
    /\ call'[s].token = 0
    /\ AbortSequences \in Seq(Motor) /\ AbortSequences # <<>>
    /\ SendCommand(s, Head(AbortSequences), FALSE)
    /\ \A c \in Caller : c # s => /\ ack'[c] = ack[c]
                                  /\ call'[c].pc = call[c].pc
                                  /\ call'[c].left = call[c].left
                                  /\ call'[c].phase = call[c].phase
                                  /\ call'[c].mode = call[c].mode
                                  /\ call'[c].token = call[c].token
                                  /\ call'[c].settled => call[c].pc = "idle"
    /\ sweepToken' = sweepToken + 1 /\ stopped' = "unproven"
    /\ UNCHANGED <<down, spinning, started>>

\* What stop() does up to its first abort.
LEMMA StopBegins ==
    ASSUME TypeInv, CallShape, NEW s \in Stop, StartStop(s)
    PROVE  StopBegan(s)
<1> DEFINE new == [IdleCall EXCEPT !.pc = "waiting", !.phase = "stop",
                                   !.left = AbortSequences, !.settled = Settled]
<1>1. AbortSequences \in Seq(Motor) /\ AbortSequences # <<>> /\ Head(AbortSequences) \in Motor
    BY AbortType, HeadTail DEF TypeInv
<1>2. s \in Caller /\ TypeOK /\ Settled \in BOOLEAN
    BY DEF Caller, TypeInv, Settled
<1>3. /\ new \in Call /\ new.pc = "waiting" /\ new.phase = "stop"
      /\ new.left = AbortSequences /\ new.settled = Settled /\ new.token = 0
    BY <1>1, <1>2 DEF IdleCall, Call, Modes
<1>4. call' = Begins(s, new) /\ SendCommand(s, Head(AbortSequences), FALSE) /\ call[s].pc = "idle"
    BY DEF StartStop
<1>5. /\ call'[s] = new
      /\ \A c \in Caller : c # s => /\ call'[c].pc = call[c].pc
                                    /\ call'[c].left = call[c].left
                                    /\ call'[c].phase = call[c].phase
                                    /\ call'[c].mode = call[c].mode
                                    /\ call'[c].token = call[c].token
                                    /\ call'[c].settled => call[c].pc = "idle"
    BY <1>2, <1>3, <1>4, BeginsType DEF TypeOK, CallsType
<1>6. \A c \in Caller : c # s => ack'[c] = ack[c]
    BY <1>1, <1>2, <1>4, Sends
<1> HIDE DEF new
<1> QED BY <1>1, <1>3, <1>4, <1>5, <1>6 DEF StartStop, StopBegan

\* The steps in which no call begins or goes on.
Elsewhere ==
    \/ \E c \in Caller : AckTimeout(c)
    \/ \E m \in Motor : MotorTimesOut(m)
    \/ \E s \in Stop : StopFindsNothing(s)
    \/ CommandAck \/ WindowElapses \/ LinkDrop \/ Reconnect \/ Receive
    \/ UNCHANGED vars

\* They leave the calls and the tokens they hold alone, settle no ack that was not
\* waited for, turn no motor on but by a frame, and let stop() report no proof.
LEMMA ElsewhereStep ==
    ASSUME TypeInv, Elsewhere
    PROVE  /\ call' = call /\ started' = started
           /\ \A c \in Caller : ack'[c] = "none" <=> ack[c] = "none"
           /\ sweepToken' \in {sweepToken, sweepToken + 1}
           /\ \/ stopped' = stopped /\ sequences' = sequences
              \/ stopped' \in {"nothing", "unproven"}
           /\ \/ up' = up /\ spinning' \subseteq spinning
              \/ up' = <<>> /\ spinning' = spinning
              \/ Receive
<1>1. ASSUME NEW c \in Caller, AckTimeout(c) PROVE ack' = [ack EXCEPT ![c] = "rejected"] /\ ack[c] = "pending"
    BY <1>1 DEF AckTimeout
<1>2. ASSUME CommandAck \/ LinkDrop, NEW c \in Caller PROVE ack'[c] = "none" <=> ack[c] = "none"
  <2>1. CASE LinkDrop
    BY <2>1 DEF LinkDrop, SettleAll
  <2>2. CASE CommandAck
    <3>1. Head(down) \in {"accepted", "rejected"}
      BY <2>2, HeadTail DEF CommandAck, TypeInv, TypeOK, WireType
    <3> QED BY <2>2, <3>1 DEF CommandAck, SettleAll
  <2> QED BY <1>2, <2>1, <2>2
<1>3. ack \in [Caller -> {"none", "pending", "accepted", "rejected"}]
    BY DEF TypeInv, TypeOK, CallsType
<1>4. ASSUME NEW c \in Caller PROVE ack'[c] = "none" <=> ack[c] = "none"
    BY <1>1, <1>2, <1>3 DEF Elsewhere, MotorTimesOut, StopFindsNothing, WindowElapses, Reconnect,
                            Receive, vars
<1>5. call' = call /\ started' = started /\ sweepToken' \in {sweepToken, sweepToken + 1}
    BY DEF Elsewhere, AckTimeout, MotorTimesOut, StopFindsNothing, CommandAck, WindowElapses,
           LinkDrop, Reconnect, Receive, vars, service, history
<1>6. \/ stopped' = stopped /\ sequences' = sequences
      \/ stopped' \in {"nothing", "unproven"}
    BY DEF Elsewhere, AckTimeout, MotorTimesOut, StopFindsNothing, CommandAck, WindowElapses,
           LinkDrop, Reconnect, Receive, vars, service, history
<1>7. \/ up' = up /\ spinning' \subseteq spinning
      \/ up' = <<>> /\ spinning' = spinning
      \/ Receive
    BY DEF Elsewhere, AckTimeout, MotorTimesOut, StopFindsNothing, CommandAck, WindowElapses,
           LinkDrop, Reconnect, vars, wire
<1> QED BY <1>4, <1>5, <1>6, <1>7

\* Every step is one of a call, or none of any call.
LEMMA NextSplit ==
    ASSUME [Next]_vars
    PROVE  \/ \E r \in Run, mode \in Mode, replace \in BOOLEAN : \E motors \in MotorsOf(mode) :
                 StartRun(r, mode, motors, replace)
           \/ \E r \in Run : RunContinues(r) \/ SweepStep(r) \/ SweepContinues(r)
           \/ \E s \in Stop : StartStop(s) \/ StopContinues(s)
           \/ Elsewhere
BY DEF Next, Elsewhere

\* Every step keeps the shape of the calls.
LEMMA StepShape == ASSUME TypeInv, CallShape, [Next]_vars PROVE CallShape'
<1>0. \A s \in Stop : s \in Caller /\ s \notin Run
    BY MotorAssumption DEF Caller
<1>1. \A r \in Run : r \in Caller
    BY DEF Caller
<1>2. IdleCall.pc = "idle" /\ IdleCall.phase = "run" /\ IdleCall.mode = "single"
        /\ Ordered(IdleCall.left)
    BY DEF IdleCall, Ordered
<1>3. ASSUME NEW r \in Run, NEW mode \in Mode, NEW replace \in BOOLEAN,
             NEW motors \in MotorsOf(mode), StartRun(r, mode, motors, replace)
      PROVE  CallShape'
  <2>0. RunBegan(r, mode, motors)
    BY <1>3, RunBegins
  <2>1. Head(motors) \in Motor /\ SendCommand(r, Head(motors), TRUE)
    BY <2>0, HeadTail DEF RunBegan
  <2>2. ack'[r] # "none"
    BY <1>1, <2>1, Sends DEF TypeInv
  <2>3. Ordered(motors)
    BY MotorsOrdered
  <2> QED BY <1>0, <1>1, <2>0, <2>2, <2>3 DEF CallShape, InProgress, RunBegan
<1>4. ASSUME NEW r \in Run, RunContinues(r) \/ SweepStep(r) \/ SweepContinues(r)
      PROVE  CallShape'
  <2>1. /\ \A c \in Caller : c # r => call'[c] = call[c] /\ ack'[c] = ack[c]
        /\ Returns(r) \/ Pauses(r) \/ Commands(r)
    BY <1>4, RunStep
  <2>2. call[r] \in Call /\ call[r].left \in Seq(Motor)
    BY <1>1 DEF TypeInv, TypeOK, CallsType, Call
  <2>3. \A c \in Caller : c # r => (call'[c].pc = "waiting" => ack'[c] # "none")
    BY <2>1 DEF CallShape
  <2>4. \A s \in Stop : call'[s].pc # "gap" /\ (InProgress(s)' => call'[s].phase = "stop")
    BY <1>0, <2>1 DEF CallShape, InProgress
  <2>5. ASSUME NEW q \in Run, q # r
        PROVE  /\ call'[q].phase # "stop"
               /\ call'[q].pc = "gap" => call'[q].phase = "sweep"
               /\ call'[q].phase = "sweep" => call'[q].mode = "sweep"
               /\ Ordered(call'[q].left)
    BY <1>1, <2>1, <2>5 DEF CallShape
  <2>6. /\ call'[r].pc = "waiting" => ack'[r] # "none"
        /\ call'[r].phase # "stop"
        /\ call'[r].pc = "gap" => call'[r].phase = "sweep"
        /\ call'[r].phase = "sweep" => call'[r].mode = "sweep"
        /\ Ordered(call'[r].left)
    <3>1. CASE Returns(r)
      BY <1>2, <3>1 DEF Returns
    <3>2. CASE Pauses(r)
      BY <2>2, <3>2, OrderedTail DEF Pauses, CallShape
    <3>3. CASE Commands(r)
      <4>1. /\ call'[r].left \in Seq(Motor) /\ call'[r].left # <<>> /\ Ordered(call'[r].left)
        <5>1. call[r].left # <<>> /\ Ordered(call[r].left)
          BY <1>1, <1>4, RunStep DEF CallShape, TypeInv, BusyInv, InProgress
        <5>2. CASE Len(call[r].left) > 1 /\ call'[r].left = Tail(call[r].left)
          BY <2>2, <5>1, <5>2, OrderedTail, HeadTail
        <5>3. CASE call'[r].left = call[r].left
          BY <2>2, <5>1, <5>3
        <5> QED BY <3>3, <5>2, <5>3 DEF Commands
      <4>2. ack'[r] # "none"
        BY <1>1, <3>3, <4>1, HeadTail, Sends DEF Commands, TypeInv
      <4> QED BY <3>3, <4>1, <4>2 DEF Commands, CallShape
    <3> QED BY <2>1, <3>1, <3>2, <3>3
  <2> QED BY <2>3, <2>4, <2>5, <2>6 DEF CallShape
<1>5. ASSUME NEW s \in Stop, StartStop(s) PROVE CallShape'
  <2>0. StopBegan(s)
    BY <1>5, StopBegins
  <2>1. Head(AbortSequences) \in Motor /\ SendCommand(s, Head(AbortSequences), FALSE)
    BY <2>0, HeadTail DEF StopBegan
  <2>2. ack'[s] # "none"
    BY <1>0, <2>1, Sends DEF TypeInv
  <2> QED BY <1>0, <1>1, <2>0, <2>2 DEF CallShape, InProgress, StopBegan
<1>6. ASSUME NEW s \in Stop, StopContinues(s) PROVE CallShape'
  <2>1. \A c \in Caller : c # s => call'[c] = call[c] /\ ack'[c] = ack[c]
    BY <1>6, StopStep
  <2>2. /\ call'[s].pc = "waiting" => ack'[s] # "none"
        /\ call'[s].pc # "gap" /\ (InProgress(s)' => call'[s].phase = "stop")
    <3>1. CASE Returns(s)
      BY <1>2, <3>1 DEF Returns, InProgress
    <3>2. CASE /\ Tail(call[s].left) # <<>> /\ call'[s].left = Tail(call[s].left)
               /\ call'[s].pc = "waiting" /\ call'[s].phase = "stop"
               /\ SendCommand(s, Head(call'[s].left), FALSE)
      <4>1. Head(call'[s].left) \in Motor
        BY <1>6, <3>2, StopStep, HeadTail
      <4> QED BY <1>0, <3>2, <4>1, Sends DEF InProgress, TypeInv
    <3> QED BY <1>6, <3>1, <3>2, StopStep
  <2> QED BY <1>0, <1>1, <2>1, <2>2 DEF CallShape, InProgress
<1>7. CASE Elsewhere
    BY <1>7, ElsewhereStep DEF CallShape, InProgress
<1> QED BY <1>3, <1>4, <1>5, <1>6, <1>7, NextSplit
\* Every step keeps an unstopped test the only call in progress.
LEMMA StepOneCall ==
    ASSUME TypeInv, CallShape, OneCall, [Next]_vars PROVE OneCall'
<1>0. /\ \A s \in Stop : s \in Caller /\ s \notin Run
      /\ \A r \in Run : r \in Caller
    BY MotorAssumption DEF Caller
<1> SUFFICES ASSUME stopped' = "no"
             PROVE  /\ \A c, d \in Caller : InProgress(c)' /\ InProgress(d)' => c = d
                    /\ \A s \in Stop : ~InProgress(s)'
                    /\ \A r \in Run : InProgress(r)' =>
                          /\ call'[r].settled
                          /\ call'[r].mode # "single" => sequences' # <<>>
                          /\ call'[r].mode = "sweep" =>
                               sequences' = <<IF call'[r].pc = "gap" THEN Head(call'[r].left) - 1
                                                                     ELSE Head(call'[r].left)>>
    BY DEF OneCall
<1>1. ASSUME NEW r \in Run, NEW mode \in Mode, NEW replace \in BOOLEAN,
             NEW motors \in MotorsOf(mode), StartRun(r, mode, motors, replace)
      PROVE  OneCall'
  <2>0. RunBegan(r, mode, motors)
    BY <1>1, RunBegins
  <2>1. \A c \in Caller : call[c].pc = "idle"
    BY <2>0 DEF RunBegan
  <2>2. \A c \in Caller : InProgress(c)' => c = r
    BY <2>0, <2>1 DEF RunBegan, InProgress
  <2>3. /\ call'[r].settled /\ call'[r].pc = "waiting"
        /\ call'[r].mode # "single" => sequences' = <<Head(call'[r].left)>>
    BY <2>0 DEF RunBegan
  <2> QED BY <1>0, <2>2, <2>3 DEF OneCall, InProgress
<1>2. ASSUME NEW r \in Run, RunContinues(r) \/ SweepStep(r) \/ SweepContinues(r)
      PROVE  OneCall'
  <2>1. /\ \A c \in Caller : c # r => call'[c] = call[c]
        /\ Returns(r) \/ Pauses(r) \/ Commands(r)
        /\ stopped = "no" /\ InProgress(r)
    BY <1>2, RunStep
  <2>2. /\ call[r].settled
        /\ call[r].mode # "single" => sequences # <<>>
        /\ call[r].mode = "sweep" =>
              sequences = <<IF call[r].pc = "gap" THEN Head(call[r].left) - 1
                                                  ELSE Head(call[r].left)>>
        /\ \A c \in Caller : InProgress(c) => c = r
    BY <1>0, <2>1 DEF OneCall
  <2>3. \A c \in Caller : InProgress(c)' => c = r
    BY <2>1, <2>2 DEF InProgress
  <2>4. call[r] \in Call /\ call[r].left \in Seq(Motor) /\ sequences \in Seq(Motor)
    BY <1>0 DEF TypeInv, TypeOK, CallsType, ServiceType, Call
  <2>5. CASE Returns(r)
    BY <1>0, <2>3, <2>5 DEF Returns, OneCall, InProgress, IdleCall
  <2>6. CASE Pauses(r)
    <3>1. Head(Tail(call[r].left)) = Head(call[r].left) + 1
      BY <1>0, <2>4, <2>6, OrderedTail DEF Pauses, CallShape
    <3>2. Head(call[r].left) \in Int
      BY <2>4, <2>6, MotorAssumption DEF Pauses, Motor
    <3>3. sequences' = <<Head(call'[r].left) - 1>>
      BY <2>2, <2>6, <3>1, <3>2 DEF Pauses
    <3> QED BY <1>0, <2>2, <2>3, <2>6, <3>3 DEF Pauses, OneCall, InProgress
  <2>7. CASE Commands(r)
    <3>1. Append(sequences, Head(call'[r].left)) # <<>>
      BY <2>4
    <3>2. /\ call'[r].settled /\ call'[r].pc = "waiting" /\ call'[r].mode = call[r].mode
          /\ \/ /\ sequences' = Append(sequences, Head(call'[r].left))
                /\ call[r].mode = "simultaneous"
             \/ sequences' = <<Head(call'[r].left)>>
      BY <2>2, <2>7 DEF Commands
    <3>3. /\ sequences' # <<>>
          /\ call[r].mode = "sweep" => sequences' = <<Head(call'[r].left)>>
      <4>1. <<Head(call'[r].left)>> # <<>>
        OBVIOUS
      <4>2. CASE sequences' = <<Head(call'[r].left)>>
        BY <4>1, <4>2
      <4>3. CASE /\ sequences' = Append(sequences, Head(call'[r].left))
                 /\ call[r].mode = "simultaneous"
        BY <3>1, <4>3
      <4> QED BY <3>2, <4>2, <4>3
    <3> QED BY <1>0, <2>3, <3>2, <3>3 DEF OneCall, InProgress
  <2> QED BY <2>1, <2>5, <2>6, <2>7
<1>3. ASSUME NEW s \in Stop, StartStop(s) \/ StopContinues(s) PROVE FALSE
  <2>1. ~StartStop(s)
    BY StopBegins DEF StopBegan
  <2>2. CASE StopContinues(s)
    <3>1. InProgress(s) /\ stopped \in Unstopped
      BY <2>2, StopStep DEF Reported, Unstopped, InProgress
    <3>2. stopped = "no"
      BY <2>2, <3>1, StopStep DEF Reported
    <3> QED BY <3>1, <3>2 DEF OneCall
  <2> QED BY <1>3, <2>1, <2>2
<1>4. CASE Elsewhere
  <2>1. call' = call /\ stopped = "no" /\ sequences' = sequences
    BY <1>4, ElsewhereStep
  <2> QED BY <2>1 DEF OneCall, InProgress
<1> QED BY <1>1, <1>2, <1>3, <1>4, NextSplit DEF OneCall

\* A frame or a sendCommand turns on only the motor it names.
LEMMA StillKept ==
    ASSUME TypeInv, NEW m
    PROVE  /\ \A c \in Caller, k \in Motor, on \in BOOLEAN :
                 /\ Still(m) /\ SendCommand(c, k, on) /\ spinning' = spinning
                 /\ ~on \/ k # m
                 => Still(m)'
           /\ Still(m) /\ Receive => Still(m)'
           /\ Still(m) /\ up' = up /\ spinning' \subseteq spinning => Still(m)'
           /\ up' = <<>> /\ m \notin spinning' => Still(m)'
<1>0. up \in Seq(Command) /\ spinning \subseteq Motor
    BY DEF TypeInv, TypeOK, WireType
<1>1. ASSUME Still(m), NEW c \in Caller, NEW k \in Motor, NEW on \in BOOLEAN,
             SendCommand(c, k, on), spinning' = spinning, ~on \/ k # m
      PROVE  Still(m)'
  <2> DEFINE f == [motor |-> k, on |-> on]
  <2>1. f \in Command /\ f.on = on /\ f.motor = k
    BY DEF Command
  <2>2. up' \in {Append(up, f), up}
    BY <1>1, Sends DEF TypeInv
  <2>3. ~TurnsOn(m, Append(up, f))
    <3> HIDE DEF f
    <3> QED BY <1>0, <1>1, <2>1, TurnsOnQueue DEF Still
  <2>4. ~TurnsOn(m, up')
    BY <1>1, <2>2, <2>3 DEF Still
  <2> QED BY <1>1, <2>4 DEF Still, TurnsOn
<1>2. ASSUME Still(m), Receive PROVE Still(m)'
  <2>1. up # <<>> /\ up' = Tail(up) /\ Head(up) \in Command
    BY <1>0, <1>2, HeadTail DEF Receive
  <2>2. ~TurnsOn(m, up') /\ ~(Head(up).on /\ Head(up).motor = m)
    BY <1>0, <1>2, <2>1, TurnsOnQueue DEF Still
  <2>3. m \notin spinning'
    BY <1>2, <2>2 DEF Receive, Still
  <2> QED BY <2>2, <2>3 DEF Still, TurnsOn
<1>3. ASSUME Still(m), up' = up, spinning' \subseteq spinning PROVE Still(m)'
    BY <1>3 DEF Still, TurnsOn
<1>4. ASSUME up' = <<>>, m \notin spinning' PROVE Still(m)'
    BY <1>4 DEF Still, TurnsOn
<1> QED BY <1>1, <1>2, <1>3, <1>4

\* Every step keeps the motors of an unstopped test recorded.
LEMMA StepRecorded ==
    ASSUME TypeInv, CallShape, OneCall, Recorded, [Next]_vars PROVE Recorded'
<1>0. /\ \A s \in Stop : s \in Caller /\ s \notin Run
      /\ \A r \in Run : r \in Caller
    BY MotorAssumption DEF Caller
<1> SUFFICES ASSUME stopped' = "no"
             PROVE  \/ \A m \in started' : Among(m, sequences') \/ Still(m)'
                    \/ sequences' = <<>> /\ \E m \in Motor : started' = {m}
    BY DEF Recorded, Among
<1>1. ASSUME NEW r \in Run, NEW mode \in Mode, NEW replace \in BOOLEAN,
             NEW motors \in MotorsOf(mode), StartRun(r, mode, motors, replace)
      PROVE  \/ \A m \in started' : Among(m, sequences')
             \/ sequences' = <<>> /\ \E m \in Motor : started' = {m}
  <2>1. /\ sequences' = IF mode = "single" THEN <<>> ELSE <<Head(motors)>>
        /\ started' = {Head(motors)} /\ Head(motors) \in Motor
    <3>1. RunBegan(r, mode, motors)
      BY <1>1, RunBegins
    <3> QED BY <3>1, HeadTail DEF RunBegan
  <2>2. Among(Head(motors), <<Head(motors)>>)
    BY DEF Among
  <2> QED BY <2>1, <2>2
<1>2. ASSUME NEW r \in Run, RunContinues(r) \/ SweepStep(r) \/ SweepContinues(r)
      PROVE  \/ \A m \in started' : Among(m, sequences') \/ Still(m)'
             \/ sequences' = <<>> /\ \E m \in Motor : started' = {m}
  <2>1. /\ (Returns(r) /\ sequences' = sequences) \/ Pauses(r) \/ Commands(r)
        /\ stopped = "no" /\ InProgress(r) /\ spinning' = spinning
    BY <1>2, RunStep
  <2>2. CASE (Returns(r) /\ sequences' = sequences) \/ Pauses(r)
    <3>1. UNCHANGED <<up, spinning, started, sequences>>
      BY <2>1, <2>2 DEF Returns, Pauses
    <3>2. \A m : Still(m) => Still(m)'
      BY <3>1, StillKept
    <3> QED BY <2>1, <3>1, <3>2 DEF Recorded
  <2>3. CASE Commands(r)
    <3> DEFINE k == Head(call'[r].left)
    <3>1. /\ call[r] \in Call /\ call[r].left \in Seq(Motor) /\ call[r].left # <<>>
          /\ sequences \in Seq(Motor)
      BY <1>0, <2>1 DEF TypeInv, TypeOK, CallsType, ServiceType, Call, BusyInv, InProgress
    <3>2. k \in Motor
      BY <2>3, <3>1, HeadTail DEF Commands
    <3>3. SendCommand(r, k, TRUE) /\ started' = started \cup {k}
      BY <2>3 DEF Commands
    <3>4. ASSUME NEW m, m # k, Still(m) PROVE Still(m)'
      BY <1>0, <2>1, <3>2, <3>3, <3>4, StillKept
    <3>5. CASE /\ call[r].mode = "simultaneous" /\ sequences' = Append(sequences, k)
      <4>1. sequences # <<>>
        BY <2>1, <3>5 DEF OneCall
      <4>2. \A m \in started : Among(m, sequences) \/ Still(m)
        BY <2>1, <4>1 DEF Recorded
      <4>3. \A m : Among(m, sequences') <=> Among(m, sequences) \/ m = k
        BY <3>1, <3>2, <3>5, AmongQueue
      <4> QED BY <3>3, <3>4, <4>2, <4>3
    <3>6. CASE /\ call[r].pc = "gap" /\ call'[r].left = call[r].left
               /\ WindowOver(r) /\ sequences' = <<k>>
      <4>1. call[r].mode = "sweep" /\ call[r].settled
        BY <2>1, <3>6 DEF CallShape, OneCall
      <4>2. sequences = <<k - 1>>
        BY <2>1, <3>6, <4>1 DEF OneCall
      <4>3. k - 1 \notin spinning /\ up = <<>>
        BY <3>6, <4>1 DEF WindowOver
      <4>4. \A m : Among(m, sequences) => m = k - 1
        BY <4>2 DEF Among
      <4>5. Still(k - 1)
        BY <4>3 DEF Still, TurnsOn
      <4>6. sequences # <<>>
        BY <4>2
      <4>7. \A m \in started : Still(m)
        BY <2>1, <4>4, <4>5, <4>6 DEF Recorded
      <4>8. Among(k, sequences')
        BY <3>6 DEF Among
      <4> QED BY <3>3, <3>4, <4>7, <4>8
    <3> QED BY <2>3, <3>5, <3>6 DEF Commands
  <2> QED BY <2>1, <2>2, <2>3
<1>3. ASSUME NEW s \in Stop, StartStop(s) \/ StopContinues(s) PROVE FALSE
  <2>1. ~StartStop(s)
    BY StopBegins DEF StopBegan
  <2>2. CASE StopContinues(s)
    <3>1. InProgress(s)
      BY <2>2, StopStep DEF InProgress
    <3>2. stopped = "no"
      BY <2>2, StopStep DEF Reported
    <3> QED BY <3>1, <3>2 DEF OneCall
  <2> QED BY <1>3, <2>1, <2>2
<1>4. CASE Elsewhere
  <2>1. stopped = "no" /\ sequences' = sequences /\ started' = started
    BY <1>4, ElsewhereStep
  <2>2. ASSUME NEW m, Still(m) PROVE Still(m)'
    BY <1>4, <2>2, ElsewhereStep, StillKept DEF Still
  <2> QED BY <2>1, <2>2 DEF Recorded
<1> QED BY <1>1, <1>2, <1>3, <1>4, NextSplit
\* A stop() that begins settled knows what it has to abort.
LEMMA SettledStop ==
    ASSUME TypeInv, CallShape, TokenInv, OneCall, Recorded, NEW s \in Stop, StartStop(s), Settled
    PROVE  Undisturbed(s)'
<1> DEFINE f == [motor |-> Head(AbortSequences), on |-> FALSE]
<1>0. s \in Caller /\ (\A r \in Run : r \in Caller /\ r # s) /\ TypeOK
    BY MotorAssumption DEF Caller, TypeInv
<1>1. stopped = "no" /\ (\A c \in Caller : ack[c] = "none") /\ up = <<>> /\ down = <<>>
    BY DEF Settled
<1>2. /\ AbortSequences \in Seq(Motor) /\ AbortSequences # <<>> /\ Head(AbortSequences) \in Motor
      /\ SendCommand(s, Head(AbortSequences), FALSE)
      /\ call'[s].left = AbortSequences
      /\ UNCHANGED <<down, spinning, started>>
    BY StopBegins, HeadTail DEF StopBegan
<1>3. /\ ack'[s] \in {"pending", "rejected"} /\ up' \in {Append(up, f), up}
      /\ \A c \in Caller : c # s => ack'[c] = ack[c]
    BY <1>0, <1>2, Sends
<1>4. up' = <<>> \/ up' = <<f>>
    BY <1>1, <1>3
<1>5. \A r \in Run : call'[r].token < sweepToken'
  <2>1. ASSUME NEW r \in Run PROVE call'[r].token < sweepToken'
    <3>1. call'[r].token = call[r].token /\ sweepToken' = sweepToken + 1
      BY <1>0, StopBegins DEF StopBegan
    <3>2. call[r].token <= sweepToken /\ call[r].token \in Nat /\ sweepToken \in Nat
      BY <1>0 DEF TokenInv, TypeOK, CallsType, ServiceType, Call
    <3> QED BY <3>1, <3>2
  <2> QED BY <2>1
<1>6. \A t \in Stop : InProgress(t)' => t = s
  <2>1. \A t \in Stop : t # s => call'[t].pc = call[t].pc
    BY StopBegins DEF Caller, StopBegan
  <2> QED BY <1>1, <2>1 DEF OneCall, InProgress
<1>7. (\A m \in started \cap spinning : Among(m, AbortSequences)) \/ OtherMotorAlone
  <2>1. CASE \A m \in started : Among(m, sequences) \/ Still(m)
    <3>1. \A m \in started \cap spinning : Among(m, sequences)
      BY <2>1 DEF Still
    <3>2. \A m : Among(m, sequences) => sequences # <<>>
      BY DEF Among
    <3> QED BY <3>1, <3>2 DEF AbortSequences
  <2>2. CASE sequences = <<>> /\ \E m \in Motor : started = {m}
    <3>1. PICK m \in Motor : started = {m}
      BY <2>2
    <3>2. Among(1, AbortSequences)
      BY <2>2 DEF Among, AbortSequences
    <3>3. CASE m = 1
      BY <3>1, <3>2, <3>3
    <3>4. CASE m # 1
      BY <3>1, <3>4 DEF OtherMotorAlone
    <3> QED BY <3>3, <3>4
  <2> QED BY <1>1, <2>1, <2>2 DEF Recorded
<1>8. Aborts(s)'
  <2>1. (\A m \in started' \cap spinning' : Among(m, call'[s].left)) \/ OtherMotorAlone'
    BY <1>2, <1>7 DEF OtherMotorAlone
  <2>2. up' = <<>> \/ up' = <<[motor |-> Head(call'[s].left), on |-> FALSE]>>
    BY <1>2, <1>4
  <2>3. down' = <<>> /\ ack'[s] # "accepted"
    BY <1>1, <1>2, <1>3
  <2> QED BY <2>1, <2>2, <2>3 DEF Aborts, Among
<1> QED BY <1>1, <1>3, <1>5, <1>6, <1>8 DEF Undisturbed

\* What runs beside a settled stop() takes nothing from what it knows.
LEMMA AbortsElsewhere ==
    ASSUME TypeInv, CallShape, NEW s \in Stop, InProgress(s), Undisturbed(s), Elsewhere,
           call[s].acknowledged, ack'[s] # "rejected"
    PROVE  Aborts(s)'
<1>0. /\ s \in Caller /\ TypeOK /\ ack \in [Caller -> {"none", "pending", "accepted", "rejected"}]
      /\ up \in Seq(Command) /\ down \in Seq({"accepted", "rejected"})
    BY DEF Caller, TypeInv, TypeOK, CallsType, WireType
<1>1. call[s].pc = "waiting" /\ ack[s] # "none"
  <2>1. call[s] \in Call
    BY <1>0 DEF TypeOK, CallsType
  <2> QED BY <1>0, <2>1 DEF CallShape, InProgress, Call
<1>2. call' = call /\ started' = started
    BY ElsewhereStep
<1>3. OtherMotorAlone' <=> OtherMotorAlone
    BY <1>2 DEF OtherMotorAlone
<1>4. ASSUME ack[s] # "rejected" PROVE Aborts(s)
    BY <1>4 DEF Undisturbed
<1>5. ASSUME NEW c \in Caller, AckTimeout(c) PROVE FALSE
  <2>1. c = s
    BY <1>5 DEF AckTimeout, Undisturbed
  <2> QED BY <1>0, <1>5, <2>1 DEF AckTimeout
<1>6. ASSUME NEW m \in Motor, MotorTimesOut(m) PROVE Aborts(s)'
  <2>1. UNCHANGED <<up, down, ack>> /\ spinning' \subseteq spinning
    BY <1>6 DEF MotorTimesOut
  <2> QED BY <1>2, <1>3, <1>4, <2>1 DEF Aborts, Among
<1>7. ASSUME UNCHANGED <<up, down, ack, spinning>> PROVE Aborts(s)'
    BY <1>2, <1>3, <1>4, <1>7 DEF Aborts, Among
<1>8. CASE CommandAck
  <2>1. down = <<"accepted">> /\ up = <<>> /\ ack[s] # "accepted" /\ Aborts(s)
    <3>1. CASE ack[s] = "rejected"
      BY <1>0, <1>8, <3>1 DEF CommandAck, SettleAll
    <3>2. CASE ack[s] # "rejected"
      BY <1>4, <1>8, <3>2 DEF CommandAck, Aborts
    <3> QED BY <3>1, <3>2
  <2>2. down' = <<>> /\ up' = up /\ spinning' = spinning
    BY <1>8, <2>1 DEF CommandAck
  <2> QED BY <1>2, <1>3, <2>1, <2>2 DEF Aborts, Among
<1>9. CASE LinkDrop
    BY <1>0, <1>1, <1>9 DEF LinkDrop, Quiet, SettleAll
<1>10. CASE Receive
  <2>1. ack' = ack /\ up # <<>> /\ Aborts(s)
    BY <1>4, <1>10 DEF Receive
  <2>2. /\ up = <<[motor |-> Head(call[s].left), on |-> FALSE]>> /\ down = <<>>
        /\ ack[s] # "accepted"
    BY <2>1 DEF Aborts
  <2>3. Head(up).motor = Head(call[s].left) /\ ~Head(up).on /\ Tail(up) = <<>>
    BY <2>2
  <2>4. /\ up' = <<>> /\ spinning' = spinning \ {Head(call[s].left)}
        /\ down' \in {Append(down, "accepted"), down}
    BY <1>10, <2>3 DEF Receive
  <2>5. down' \in {<<>>, <<"accepted">>}
    BY <2>2, <2>4
  <2> QED BY <1>2, <1>3, <2>1, <2>2, <2>4, <2>5 DEF Aborts, Among
<1> QED BY <1>5, <1>6, <1>7, <1>8, <1>9, <1>10
        DEF Elsewhere, StopFindsNothing, WindowElapses, Reconnect, vars, wire

\* Every step keeps what a settled stop() knows.
LEMMA StepUndisturbed ==
    ASSUME TypeInv, CallShape, TokenInv, OneCall, Recorded, StopInv, [Next]_vars,
           NEW s \in Stop, InProgress(s)', call'[s].settled
    PROVE  Undisturbed(s)'
<1>0. s \in Caller /\ (\A r \in Run : r \in Caller /\ r # s) /\ TypeOK
    BY MotorAssumption DEF Caller, TypeInv
<1>1. ASSUME InProgress(s), call[s].settled PROVE Undisturbed(s)
    BY <1>1 DEF StopInv
<1>2. ASSUME NEW r \in Run, NEW mode \in Mode, NEW replace \in BOOLEAN,
             NEW motors \in MotorsOf(mode), StartRun(r, mode, motors, replace)
      PROVE  FALSE
    BY <1>0, <1>2, RunBegins DEF InProgress, RunBegan
<1>3. ASSUME NEW r \in Run, RunContinues(r) \/ SweepStep(r) \/ SweepContinues(r)
      PROVE  Undisturbed(s)'
  <2>1. /\ \A c \in Caller : c # r => call'[c] = call[c] /\ ack'[c] = ack[c]
        /\ Returns(r) \/ Pauses(r) \/ Commands(r)
        /\ UNCHANGED <<spinning, down, sweepToken>>
        /\ ack[r] # "none" \/ call[r].pc = "gap"
    BY <1>3, RunStep
  <2>2. Undisturbed(s)
    BY <1>0, <1>1, <2>1 DEF InProgress
  <2>3. ack[r] = "none" /\ call[r].pc = "gap" /\ call[r].token < sweepToken
          /\ call[r].token \in Nat /\ sweepToken \in Nat
    BY <1>0, <2>1, <2>2 DEF Undisturbed, TypeOK, CallsType, ServiceType, Call
  <2>4. Returns(r)
    <3>1. ~Pauses(r)
      BY <2>3 DEF Pauses
    <3>2. call[r].token # sweepToken /\ ack[r] # "accepted"
      BY <2>3
    <3>3. ~Commands(r)
      BY <3>2 DEF Commands, SweepGoesOn
    <3> QED BY <2>1, <3>1, <3>3
  <2>5. call'[r].token < sweepToken'
    BY <2>1, <2>3, <2>4 DEF Returns, IdleCall
  <2>6. UNCHANGED <<up, started>> /\ ack'[r] = "none"
    BY <2>4 DEF Returns
  <2>7. \A t \in Stop : t \in Caller /\ t # r
    BY MotorAssumption DEF Caller
  <2>8. call'[s] = call[s] /\ ack'[s] = ack[s]
    BY <1>0, <2>1
  <2>9. call[s].acknowledged /\ ack[s] # "rejected" => Aborts(s)'
    BY <2>1, <2>2, <2>6, <2>8 DEF Undisturbed, Aborts, Among, OtherMotorAlone
  <2>10. \A t \in Stop : InProgress(t)' => t = s
    BY <2>1, <2>2, <2>7 DEF Undisturbed, InProgress
  <2>11. \A q \in Run : call'[q].token < sweepToken'
    BY <1>0, <2>1, <2>2, <2>5 DEF Undisturbed
  <2>12. \A c \in Caller : c # s => ack'[c] = "none"
    BY <2>1, <2>2, <2>6 DEF Undisturbed
  <2> QED BY <2>8, <2>9, <2>10, <2>11, <2>12 DEF Undisturbed
<1>4. ASSUME NEW t \in Stop, StartStop(t) PROVE Undisturbed(s)'
  <2>1. CASE t # s
    BY <1>0, <1>4, <2>1, StopBegins DEF InProgress, StopBegan
  <2>2. CASE t = s
    BY <1>4, <2>2, StopBegins, SettledStop DEF StopBegan
  <2> QED BY <2>1, <2>2
<1>5. ASSUME NEW t \in Stop, StopContinues(t) PROVE Undisturbed(s)'
  <2>1. /\ \A c \in Caller : c # t => call'[c] = call[c] /\ ack'[c] = ack[c]
        /\ InProgress(t)
    BY <1>5, StopStep DEF InProgress
  <2>2. CASE t # s
    <3>1. Undisturbed(s)
      BY <1>0, <1>1, <2>1, <2>2 DEF InProgress
    <3> QED BY <2>1, <2>2, <3>1 DEF Undisturbed
  <2>3. CASE t = s
    <3>1. ~Returns(s)
      BY DEF Returns, IdleCall, InProgress
    <3>2. /\ Tail(call[s].left) # <<>> /\ call'[s].left = Tail(call[s].left)
          /\ call'[s].settled = call[s].settled
          /\ call'[s].acknowledged = (call[s].acknowledged /\ ack[s] = "accepted")
          /\ SendCommand(s, Head(call'[s].left), FALSE)
          /\ UNCHANGED <<spinning, down, sweepToken, started>>
          /\ call[s].left \in Seq(Motor) /\ call[s].left # <<>>
      BY <1>5, <2>3, <3>1, StopStep
    <3>3. Undisturbed(s)
      BY <1>1, <2>1, <2>3, <3>2
    <3>4. Head(call'[s].left) \in Motor
      BY <3>2, HeadTail
    <3>5. ack'[s] \in {"pending", "rejected"}
            /\ up' \in {Append(up, [motor |-> Head(call'[s].left), on |-> FALSE]), up}
      BY <1>0, <3>2, <3>4, Sends
    <3>6. ASSUME call'[s].acknowledged PROVE Aborts(s)'
      <4>1. ack[s] = "accepted" /\ Aborts(s)
        BY <3>2, <3>3, <3>6 DEF Undisturbed
      <4>2. up = <<>> /\ down = <<>> /\ Head(call[s].left) \notin spinning
        BY <4>1 DEF Aborts
      <4>3. up' = <<>> \/ up' = <<[motor |-> Head(call'[s].left), on |-> FALSE]>>
        BY <3>5, <4>2
      <4>4. \A m \in started \cap spinning : Among(m, call[s].left) => Among(m, call'[s].left)
        BY <3>2, <3>4, <4>2, AmongQueue
      <4>5. (\A m \in started' \cap spinning' : Among(m, call'[s].left)) \/ OtherMotorAlone'
        BY <3>2, <4>1, <4>4 DEF Aborts, OtherMotorAlone
      <4>6. down' = <<>> /\ ack'[s] # "accepted"
        BY <3>2, <3>5, <4>2
      <4> QED BY <4>3, <4>5, <4>6 DEF Aborts, Among
    <3>7. \A c \in Caller : c # s => ack'[c] = "none"
      BY <2>1, <2>3, <3>3 DEF Undisturbed
    <3>8. \A r \in Run : call'[r].token < sweepToken'
      BY <1>0, <2>1, <2>3, <3>2, <3>3 DEF Undisturbed
    <3>9. \A q \in Stop : InProgress(q)' => q = s
      <4>1. \A q \in Stop : q \in Caller
        BY DEF Caller
      <4> QED BY <2>1, <2>3, <3>3, <4>1 DEF Undisturbed, InProgress
    <3> QED BY <3>6, <3>7, <3>8, <3>9 DEF Undisturbed
  <2> QED BY <2>2, <2>3
<1>6. CASE Elsewhere
  <2>1. /\ call' = call
        /\ \A c \in Caller : ack'[c] = "none" <=> ack[c] = "none"
        /\ sweepToken' \in {sweepToken, sweepToken + 1}
    BY <1>6, ElsewhereStep
  <2>2. Undisturbed(s) /\ InProgress(s)
    BY <1>1, <2>1 DEF InProgress
  <2>3. \A r \in Run : call'[r].token < sweepToken'
    <3>1. \A r \in Run : call[r].token \in Nat /\ call[r].token < sweepToken
      BY <1>0, <2>2 DEF Undisturbed, TypeOK, CallsType, Call
    <3>2. sweepToken \in Nat
      BY <1>0 DEF TypeOK, ServiceType
    <3> QED BY <2>1, <3>1, <3>2
  <2>4. call'[s].acknowledged /\ ack'[s] # "rejected" => Aborts(s)'
    BY <1>6, <2>1, <2>2, AbortsElsewhere
  <2> QED BY <2>1, <2>2, <2>3, <2>4 DEF Undisturbed, InProgress
<1> QED BY <1>2, <1>3, <1>4, <1>5, <1>6, NextSplit

\* Every step keeps what a stop() that reported a proof vouched for.
LEMMA StepProven ==
    ASSUME TypeInv, CallShape, TokenInv, OneCall, Recorded, StopInv, [Next]_vars,
           stopped' = "proven"
    PROVE  /\ \A c \in Caller : ack'[c] = "none"
           /\ up' = <<>>
           /\ spinning' \cap started' = {} \/ OtherMotorAlone'
<1>0. /\ \A s \in Stop : s \in Caller
      /\ \A r \in Run : r \in Caller
      /\ TypeOK
    BY DEF Caller, TypeInv
<1>1. ASSUME stopped = "proven"
      PROVE  /\ \A c \in Caller : ack[c] = "none"
             /\ up = <<>>
             /\ spinning \cap started = {} \/ OtherMotorAlone
    BY <1>1 DEF StopInv
<1>2. ASSUME NEW r \in Run, NEW mode \in Mode, NEW replace \in BOOLEAN,
             NEW motors \in MotorsOf(mode), StartRun(r, mode, motors, replace)
      PROVE  FALSE
    BY <1>2, RunBegins DEF RunBegan
<1>3. ASSUME NEW r \in Run, RunContinues(r) \/ SweepStep(r) \/ SweepContinues(r)
      PROVE  /\ \A c \in Caller : ack'[c] = "none"
             /\ up' = <<>>
             /\ spinning' \cap started' = {} \/ OtherMotorAlone'
  <2>1. /\ \A c \in Caller : c # r => ack'[c] = ack[c]
        /\ Returns(r) \/ Pauses(r) \/ Commands(r)
        /\ UNCHANGED <<spinning, stopped>>
        /\ ack[r] # "none" \/ call[r].pc = "gap"
    BY <1>3, RunStep
  <2>2. /\ ack[r] = "none" /\ call[r].pc = "gap" /\ call[r].token < sweepToken
        /\ call[r].token \in Nat /\ sweepToken \in Nat
    BY <1>0, <1>1, <2>1 DEF TokenInv, Unstopped, TypeOK, CallsType, ServiceType, Call
  <2>3. Returns(r)
    <3>1. ~Pauses(r)
      BY <2>2 DEF Pauses
    <3>2. call[r].token # sweepToken /\ ack[r] # "accepted"
      BY <2>2
    <3>3. ~Commands(r)
      BY <3>2 DEF Commands, SweepGoesOn
    <3> QED BY <2>1, <3>1, <3>3
  <2> QED BY <1>1, <2>1, <2>3 DEF Returns, OtherMotorAlone
<1>4. ASSUME NEW s \in Stop, StartStop(s) PROVE FALSE
    BY <1>4, StopBegins DEF StopBegan
<1>5. ASSUME NEW s \in Stop, StopContinues(s)
      PROVE  /\ \A c \in Caller : ack'[c] = "none"
             /\ up' = <<>>
             /\ spinning' \cap started' = {} \/ OtherMotorAlone'
  <2>1. /\ \A c \in Caller : c # s => ack'[c] = ack[c]
        /\ UNCHANGED <<spinning, started>>
        /\ InProgress(s) /\ ack[s] # "none"
        /\ call[s].left \in Seq(Motor) /\ call[s].left # <<>>
    BY <1>5, StopStep DEF InProgress
  <2>2. stopped # "proven"
    BY <1>0, <1>1, <2>1
  <2>3. /\ Tail(call[s].left) = <<>> /\ Returns(s)
        /\ stopped' = Reported(s, call[s].acknowledged /\ ack[s] = "accepted")
    BY <1>5, <2>2, StopStep
  <2>4. call[s].acknowledged /\ ack[s] = "accepted" /\ call[s].settled
    BY <2>2, <2>3 DEF Reported
  <2>5. Undisturbed(s) /\ Aborts(s)
    BY <2>1, <2>4 DEF StopInv, Undisturbed
  <2>6. up = <<>> /\ Head(call[s].left) \notin spinning
    BY <2>4, <2>5 DEF Aborts
  <2>7. Head(call[s].left) \in Motor
    BY <2>1, HeadTail
  <2>8. \A m : Among(m, call[s].left) => m = Head(call[s].left)
    <3>1. \A m : ~Among(m, <<>>)
      BY DEF Among
    <3>2. ASSUME NEW m, Among(m, call[s].left), m # Head(call[s].left) PROVE FALSE
      <4>1. Among(m, Tail(call[s].left))
        BY <2>1, <2>7, <3>2, AmongQueue
      <4> QED BY <2>3, <3>1, <4>1
    <3> QED BY <3>2
  <2>9. spinning \cap started = {} \/ OtherMotorAlone
    BY <2>5, <2>6, <2>8 DEF Aborts
  <2> QED BY <2>1, <2>3, <2>5, <2>6, <2>9 DEF Returns, Undisturbed, OtherMotorAlone
<1>6. CASE Elsewhere
  <2>1. /\ started' = started /\ stopped = "proven"
        /\ \A c \in Caller : ack'[c] = "none" <=> ack[c] = "none"
        /\ \/ up' = up /\ spinning' \subseteq spinning
           \/ up' = <<>> /\ spinning' = spinning
           \/ Receive
    BY <1>6, ElsewhereStep
  <2>2. ~Receive
    BY <1>1, <2>1 DEF Receive
  <2> QED BY <1>1, <2>1, <2>2 DEF OtherMotorAlone
<1> QED BY <1>2, <1>3, <1>4, <1>5, <1>6, NextSplit

\* A stop() that reports every abort acknowledged, of a test it had to itself, leaves
\* no motor of the test turning: "stopping it has to stop every motor individually"
\* (stop), for any number of motors and calls and whatever frame is lost, since the
\* service has recorded every motor it commanded and takes no ack but its own.
THEOREM ProvenStopStopsAlways == Spec => []ProvenStopStops
<1> DEFINE Inv == TypeInv /\ CallShape /\ TokenInv /\ OneCall /\ Recorded /\ StopInv
<1>1. Init => Inv
  <2> SUFFICES ASSUME Init PROVE Inv
    OBVIOUS
  <2>1. \A c \in Caller : call[c] = IdleCall /\ ack[c] = "none"
    BY DEF Init
  <2>2. IdleCall.pc = "idle" /\ IdleCall.phase = "run" /\ IdleCall.mode = "single"
          /\ IdleCall.token = 0 /\ Ordered(IdleCall.left)
    BY DEF IdleCall, Ordered
  <2>3. (\A s \in Stop : s \in Caller) /\ (\A r \in Run : r \in Caller)
    BY DEF Caller
  <2>4. TypeInv
    BY InitType
  <2>5. CallShape
    BY <2>1, <2>2, <2>3 DEF CallShape, InProgress
  <2>6. TokenInv
    BY <2>1, <2>2 DEF TokenInv, Init, Unstopped
  <2>7. OneCall /\ Recorded
    BY <2>1, <2>2, <2>3 DEF OneCall, Recorded, InProgress, Init
  <2>8. StopInv
    BY <2>1, <2>2, <2>3 DEF StopInv, InProgress, Init
  <2> QED BY <2>4, <2>5, <2>6, <2>7, <2>8
<1>2. Inv /\ [Next]_vars => Inv'
  <2> SUFFICES ASSUME Inv, [Next]_vars PROVE Inv'
    OBVIOUS
  <2>1. TypeInv' /\ TokenInv'
    BY StepType, StepToken
  <2>2. CallShape' /\ OneCall' /\ Recorded'
    BY StepShape, StepOneCall, StepRecorded
  <2>3. StopInv'
    BY StepUndisturbed, StepProven DEF StopInv, InProgress
  <2> QED BY <2>1, <2>2, <2>3
<1>3. Inv => ProvenStopStops
    BY DEF StopInv, ProvenStopStops
<1> HIDE DEF Inv
<1> QED BY <1>1, <1>2, <1>3, PTL DEF Spec
==============================================================================
