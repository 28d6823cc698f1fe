-------------------------- MODULE ParamWriteProofs ---------------------------
(***************************************************************************)
(* Invariants of the verified writes, for every table, batch, board and      *)
(* bound.  The first part is about the types, the second about the waiters   *)
(* and the flag of a batch, the third about the board.                      *)
(*                                                                         *)
(* TypeOK is not inductive: a rollback reads the write at a position of      *)
(* applied, and a call in flight the head of its list.  Placed says that     *)
(* they are there, and where a call is in its lists.                         *)
(*                                                                         *)
(* NoOrphanWaiter holds for any number of callers.  It is not inductive: a  *)
(* verification that has settled goes on to the next write, so its waiter   *)
(* must be gone by then.  WaiterInv adds that a waiter and a verdict never   *)
(* stand together.                                                          *)
(*                                                                         *)
(* CalibrationExcludesBatch holds for one caller (OneWriter): the flag that *)
(* a calibration looks at is one Boolean for all batches.  FlagInv ties it   *)
(* to the call in progress.                                                 *)
(***************************************************************************)
EXTENDS ParamWrite, SequenceTheorems, WellFoundedInduction, TLAPS

InFlight(c) == c.pc \in {"sending", "verifying"}

\* Where a call is in its lists: it has the write it is at; the positions it
\* still rolls back, and those it has, are those of writes with a value to go back
\* to, latest first; and its outcome is that of the phase it ended in.
Placed(c) ==
    /\ InFlight(c) /\ c.phase = "forward" => c.todo # <<>>
    /\ InFlight(c) /\ c.phase = "rollback" => c.undo # {}
    /\ c.undo \subseteq RollbackSource(c) /\ c.restored \subseteq RollbackSource(c)
    /\ c.undo \cap c.restored = {}
    /\ \A k \in c.undo, j \in RollbackSource(c) \ c.undo : k < j
    /\ c.phase = "forward" => c.undo = {} /\ c.restored = {}
    /\ c.phase = "forward" /\ c.pc # "done" => c.failed = None
    /\ c.outcome # "none" => c.pc = "done"
    /\ c.outcome \in {"ok", "noPrevious", "notAttempted"} => c.phase = "forward"
    /\ c.outcome = "rolledBack" => c.phase = "rollback" /\ c.restored = RollbackSource(c)

\* Of finitely many positions one is the latest.
LEMMA LatestIsLatest ==
    ASSUME NEW n \in Nat, NEW S, S \subseteq 1..n, S # {}
    PROVE  Latest(S) \in S /\ \A j \in S : j <= Latest(S)
<1> DEFINE T == {m \in Nat : n - m \in S}
<1>1. \A k \in S : k \in Nat /\ n - k \in Nat /\ n - (n - k) = k
    OBVIOUS
<1>2. T \subseteq Nat /\ T # {}
    BY <1>1
<1>3. PICK x \in T : \A y \in T : ~(<<y, x>> \in OpToRel(<, Nat))
    BY <1>2, NatLessThanWellFounded, WFMin
<1>4. \A y \in T : ~(y < x)
    BY <1>2, <1>3 DEF OpToRel
<1>5. PICK k \in S : k = n - x
    OBVIOUS
<1>6. \A j \in S : j <= k
    BY <1>1, <1>4, <1>5
<1> QED BY <1>6 DEF Latest

------------------------------------------------------------------------------
(* What a step makes of a call keeps its type and its place.                *)

(* What the steps of a call make of it. *)
Finished(c, outcome) == [c EXCEPT !.pc = "done", !.outcome = outcome, !.todo = <<>>, !.undo = {}]
Refused(c, outcome) == [c EXCEPT !.pc = "done", !.outcome = outcome, !.todo = <<>>, !.undo = {},
                                 !.failed = Current(c).id]
RollingBack(c) == [c EXCEPT !.pc = "next", !.phase = "rollback", !.undo = RollbackSource(c),
                            !.failed = Current(c).id]
Dropped(c) == [c EXCEPT !.pc = "next", !.undo = @ \ {Latest(@)}]
Skipped(c) == [c EXCEPT !.todo = Tail(@)]
CarriedOn(c) == [c EXCEPT !.pc = "next", !.todo = Tail(@),
                          !.unconfirmed = @ \cup {Current(c).id}]
Sending(c, known) == [c EXCEPT !.pc = "sending", !.known = known]
Verifying(c) == [c EXCEPT !.pc = "verifying"]
Recorded(c) == [c EXCEPT !.pc = "next", !.todo = Tail(@),
                         !.applied = Append(@, [id |-> Current(c).id, value |-> Current(c).value,
                                                previous |-> c.known])]
Restored(c) == [c EXCEPT !.pc = "next", !.restored = @ \cup {Latest(c.undo)},
                             !.undo = @ \ {Latest(c.undo)}]

TypedCall(c) == c \in Call /\ Placed(c)

\* A position to go back to is that of a write with a value to go back to.
LEMMA SourceIsTyped ==
    ASSUME NEW c \in Call
    PROVE  /\ Len(c.applied) \in Nat /\ RollbackSource(c) \subseteq 1..Len(c.applied)
           /\ \A k \in RollbackSource(c) :
                 c.applied[k].id \in ParamId /\ c.applied[k].previous \in Value
<1>1. c.applied \in Seq(Applied)
    BY DEF Call
<1>2. Len(c.applied) \in Nat /\ DOMAIN c.applied = 1..Len(c.applied)
    BY <1>1, LenProperties
<1>3. \A k \in DOMAIN c.applied : c.applied[k] \in Applied
    BY <1>1, <1>2, ElementOfSeq
<1>4. \A a \in Applied : a.id \in ParamId /\ a.previous \in Value \cup {None}
    BY DEF Applied
<1> QED BY <1>2, <1>3, <1>4 DEF RollbackSource

\* The same verified writes have the same positions to go back to.
LEMMA SameSource ==
    ASSUME NEW c, NEW d, d.applied = c.applied
    PROVE  RollbackSource(d) = RollbackSource(c)
BY DEF RollbackSource

\* The latest position to roll back.
LEMMA LatestUndo ==
    ASSUME NEW c, TypedCall(c), c.undo # {}
    PROVE  Latest(c.undo) \in c.undo /\ \A j \in c.undo : j <= Latest(c.undo)
<1>1. Len(c.applied) \in Nat /\ c.undo \subseteq 1..Len(c.applied)
    BY SourceIsTyped DEF TypedCall, Placed
<1> QED BY <1>1, LatestIsLatest

\* The write a call is at is one.
LEMMA CurrentIsWrite ==
    ASSUME NEW c, TypedCall(c),
           c.phase = "forward" => c.todo # <<>>, c.phase = "rollback" => c.undo # {}
    PROVE  Current(c) \in Write
<1>1. CASE c.phase = "forward"
    BY <1>1 DEF TypedCall, Call, Current
<1>2. CASE c.phase = "rollback"
    <2>1. Latest(c.undo) \in RollbackSource(c)
        BY <1>2, LatestUndo DEF TypedCall, Placed
    <2> QED BY <1>2, <2>1, SourceIsTyped DEF TypedCall, Current, Write
<1> QED BY <1>1, <1>2 DEF TypedCall, Call

\* A call has a write to make.
AtWrite(c) ==
    /\ c.phase = "forward" => c.todo # <<>>
    /\ c.phase = "rollback" => c.undo # {}

\* A call in flight has a write it is at.
LEMMA InFlightAtWrite ==
    ASSUME NEW c, TypedCall(c), InFlight(c)
    PROVE  AtWrite(c) /\ Current(c) \in Write
BY CurrentIsWrite DEF TypedCall, Placed, AtWrite

\* A call starts at the head of its list.
LEMMA CallStarts ==
    ASSUME NEW kind \in {"batch", "single"}, NEW writes \in Seq(Write)
    PROVE  TypedCall([IdleCall EXCEPT !.pc = "next", !.kind = kind, !.todo = writes])
<1> DEFINE d == [IdleCall EXCEPT !.pc = "next", !.kind = kind, !.todo = writes]
<1>1. <<>> \in Seq(Applied)
    BY EmptySeq
<1>2. d \in Call /\ d.pc = "next" /\ d.undo = {} /\ d.restored = {} /\ d.phase = "forward"
      /\ d.failed = None /\ d.outcome = "none"
    BY <1>1 DEF IdleCall, Call, Outcome
<1> HIDE DEF d
<1>3. Placed(d)
    BY <1>2 DEF Placed, InFlight
<1> QED BY <1>2, <1>3 DEF TypedCall, d

\* The outcomes each phase may end in.
EndsIn(c, outcome) ==
    \/ outcome = "ok" /\ c.phase = "forward"
    \/ outcome = "rolledBack" /\ c.phase = "rollback" /\ c.restored = RollbackSource(c)
    \/ outcome = "partial"

\* The end of the loop, forward or back.
LEMMA CallFinishes ==
    ASSUME NEW c, TypedCall(c), NEW outcome, EndsIn(c, outcome)
    PROVE  TypedCall(Finished(c, outcome))
<1> DEFINE d == Finished(c, outcome)
<1>0. <<>> \in Seq(Write) /\ outcome \in Outcome
    BY EmptySeq DEF EndsIn, Outcome
<1>1. d \in Call /\ d.pc = "done" /\ d.phase = c.phase /\ d.applied = c.applied
      /\ d.undo = {} /\ d.restored = c.restored /\ d.outcome = outcome
    BY <1>0 DEF TypedCall, Call, Finished
<1>2. RollbackSource(d) = RollbackSource(c)
    BY <1>1, SameSource
<1> HIDE DEF d
<1>3. Placed(d)
    BY <1>1, <1>2 DEF TypedCall, Placed, InFlight, EndsIn
<1> QED BY <1>1, <1>3 DEF TypedCall, d

\* The end of a call that failed and has nothing to roll back, or cannot.
LEMMA CallIsRefused ==
    ASSUME NEW c, TypedCall(c), AtWrite(c), c.phase = "forward",
           NEW outcome \in {"refused", "noPrevious", "notAttempted"}
    PROVE  TypedCall(Refused(c, outcome))
<1> DEFINE d == Refused(c, outcome)
<1>0. <<>> \in Seq(Write) /\ outcome \in Outcome /\ Current(c).id \in ParamId
    BY EmptySeq, CurrentIsWrite DEF Outcome, AtWrite, Write
<1>1. d \in Call /\ d.pc = "done" /\ d.phase = c.phase /\ d.applied = c.applied
      /\ d.undo = {} /\ d.restored = c.restored /\ d.outcome = outcome
    BY <1>0 DEF TypedCall, Call, Refused
<1>2. RollbackSource(d) = RollbackSource(c)
    BY <1>1, SameSource
<1> HIDE DEF d
<1>3. Placed(d)
    BY <1>1, <1>2 DEF TypedCall, Placed, InFlight
<1> QED BY <1>1, <1>3 DEF TypedCall, d

\* The turn into the rollback: every position with a value is still to go.
LEMMA CallRollsBack ==
    ASSUME NEW c, TypedCall(c), AtWrite(c), c.phase = "forward", c.pc # "done"
    PROVE  TypedCall(RollingBack(c))
<1> DEFINE d == RollingBack(c)
<1>1. RollbackSource(c) \in SUBSET Nat /\ Current(c).id \in ParamId
    BY SourceIsTyped, CurrentIsWrite DEF TypedCall, AtWrite, Write
<1>2. d \in Call /\ d.pc = "next" /\ d.applied = c.applied /\ d.phase = "rollback"
      /\ d.undo = RollbackSource(c) /\ d.restored = c.restored /\ d.outcome = c.outcome
    BY <1>1 DEF TypedCall, Call, RollingBack
<1>3. RollbackSource(d) = RollbackSource(c)
    BY <1>2, SameSource
<1> HIDE DEF d
<1>4. Placed(d)
    BY <1>2, <1>3 DEF TypedCall, Placed, InFlight
<1> QED BY <1>2, <1>4 DEF TypedCall, d

\* A rollback write given up: its position is in neither list.
LEMMA CallDrops ==
    ASSUME NEW c, TypedCall(c), c.undo # {}, c.pc # "done"
    PROVE  TypedCall(Dropped(c))
<1> DEFINE k == Latest(c.undo)
           d == Dropped(c)
<1>1. k \in c.undo /\ \A j \in c.undo : j <= k
    BY LatestUndo
<1>0. d = [c EXCEPT !.pc = "next", !.undo = @ \ {k}]
    BY DEF Dropped
<1> HIDE DEF k, d
<1>2. d \in Call /\ d.pc = "next" /\ d.undo = c.undo \ {k} /\ d.restored = c.restored
      /\ d.phase = c.phase /\ d.outcome = c.outcome
    BY <1>0 DEF TypedCall, Call
<1>3. RollbackSource(d) = RollbackSource(c)
    BY <1>0, SameSource DEF TypedCall, Call
<1>4. \A j \in d.undo, i \in RollbackSource(d) \ d.undo : j < i
    BY <1>1, <1>2, <1>3, SourceIsTyped DEF TypedCall, Placed
<1>5. Placed(d)
    BY <1>2, <1>3, <1>4 DEF TypedCall, Placed, InFlight
<1> QED BY <1>2, <1>5 DEF TypedCall, d

\* A request the table already shows is skipped.
LEMMA CallGoesOn ==
    ASSUME NEW c, TypedCall(c), c.pc = "next", c.todo # <<>>
    PROVE  TypedCall(Skipped(c))
<1> DEFINE d == Skipped(c)
<1>0. Tail(c.todo) \in Seq(Write)
    BY HeadTailProperties DEF TypedCall, Call
<1>1. d \in Call /\ d.pc = "next" /\ d.phase = c.phase /\ d.applied = c.applied
      /\ d.undo = c.undo /\ d.restored = c.restored /\ d.failed = c.failed
      /\ d.outcome = c.outcome
    BY <1>0 DEF TypedCall, Call, Skipped
<1>2. RollbackSource(d) = RollbackSource(c)
    BY <1>1, SameSource
<1> HIDE DEF d
<1>3. Placed(d)
    BY <1>1, <1>2 DEF TypedCall, Placed, InFlight
<1> QED BY <1>1, <1>3 DEF TypedCall, d

\* An unverified write is left behind.
LEMMA CallCarriesOn ==
    ASSUME NEW c, TypedCall(c), InFlight(c), c.phase = "forward"
    PROVE  TypedCall(CarriedOn(c))
<1> DEFINE d == CarriedOn(c)
<1>0. Tail(c.todo) \in Seq(Write) /\ Current(c).id \in ParamId
    BY HeadTailProperties, InFlightAtWrite DEF TypedCall, Call, AtWrite, Write
<1>1. d \in Call /\ d.pc = "next" /\ d.phase = c.phase /\ d.applied = c.applied
      /\ d.undo = c.undo /\ d.restored = c.restored /\ d.failed = c.failed
      /\ d.outcome = c.outcome
    BY <1>0 DEF TypedCall, Call, CarriedOn
<1>2. RollbackSource(d) = RollbackSource(c)
    BY <1>1, SameSource
<1> HIDE DEF d
<1>3. Placed(d)
    BY <1>1, <1>2 DEF TypedCall, Placed, InFlight
<1> QED BY <1>1, <1>3 DEF TypedCall, d

\* A write begins.
LEMMA CallSends ==
    ASSUME NEW c, TypedCall(c), NEW known \in Value \cup {None}, AtWrite(c), c.pc = "next"
    PROVE  TypedCall(Sending(c, known))
<1> DEFINE d == Sending(c, known)
<1>1. d \in Call /\ d.pc = "sending" /\ d.phase = c.phase /\ d.applied = c.applied
      /\ d.undo = c.undo /\ d.restored = c.restored /\ d.todo = c.todo
      /\ d.failed = c.failed /\ d.outcome = c.outcome
    BY DEF TypedCall, Call, Sending
<1>2. RollbackSource(d) = RollbackSource(c)
    BY <1>1, SameSource
<1> HIDE DEF d
<1>3. Placed(d)
    BY <1>1, <1>2 DEF TypedCall, Placed, InFlight, AtWrite
<1> QED BY <1>1, <1>3 DEF TypedCall, d

\* Its send resolves.
LEMMA CallVerifies ==
    ASSUME NEW c, TypedCall(c), c.pc = "sending"
    PROVE  TypedCall(Verifying(c))
<1> DEFINE d == Verifying(c)
<1>1. d \in Call /\ d.pc = "verifying" /\ d.phase = c.phase /\ d.applied = c.applied
      /\ d.undo = c.undo /\ d.restored = c.restored /\ d.todo = c.todo
      /\ d.failed = c.failed /\ d.outcome = c.outcome
    BY DEF TypedCall, Call, Verifying
<1>2. RollbackSource(d) = RollbackSource(c)
    BY <1>1, SameSource
<1> HIDE DEF d
<1>3. Placed(d)
    BY <1>1, <1>2 DEF TypedCall, Placed, InFlight
<1> QED BY <1>1, <1>3 DEF TypedCall, d

\* A verified write is recorded in the place after the last.
LEMMA CallRecords ==
    ASSUME NEW c, TypedCall(c), InFlight(c), c.phase = "forward"
    PROVE  TypedCall(Recorded(c))
<1> DEFINE done == [id |-> Current(c).id, value |-> Current(c).value, previous |-> c.known]
           d == Recorded(c)
           n == Len(c.applied)
<1>1. c.todo # <<>> /\ c.applied \in Seq(Applied) /\ n \in Nat /\ done \in Applied
    <2>1. c.todo # <<>> /\ c.applied \in Seq(Applied) /\ c.known \in Value \cup {None}
        BY InFlightAtWrite DEF TypedCall, Call, AtWrite
    <2>2. Current(c).id \in ParamId /\ Current(c).value \in Value
        BY InFlightAtWrite DEF Write
    <2> QED BY <2>1, <2>2, LenProperties DEF Applied
<1>0. d = [c EXCEPT !.pc = "next", !.todo = Tail(@), !.applied = Append(@, done)]
    BY DEF Recorded
<1> HIDE DEF d, done
<1>2. d \in Call /\ d.pc = "next" /\ d.applied = Append(c.applied, done)
      /\ d.undo = c.undo /\ d.restored = c.restored /\ d.phase = c.phase
      /\ d.failed = c.failed /\ d.outcome = c.outcome
    <2>1. Append(c.applied, done) \in Seq(Applied) /\ Tail(c.todo) \in Seq(Write)
        BY <1>1, AppendProperties, HeadTailProperties DEF TypedCall, Call
    <2> QED BY <1>0, <2>1 DEF TypedCall, Call
<1>3. Placed(d)
    BY <1>2 DEF TypedCall, Placed, InFlight
<1> QED BY <1>2, <1>3 DEF TypedCall, d

\* A restored position leaves the list; those before it are the earlier ones.
LEMMA CallRestores ==
    ASSUME NEW c, TypedCall(c), InFlight(c), c.phase = "rollback"
    PROVE  TypedCall(Restored(c))
<1> DEFINE k == Latest(c.undo)
           d == Restored(c)
<1>1. k \in c.undo /\ \A j \in c.undo : j <= k
    BY LatestUndo, InFlightAtWrite DEF AtWrite
<1>0. d = [c EXCEPT !.pc = "next", !.restored = @ \cup {k}, !.undo = @ \ {k}]
    BY DEF Restored
<1> HIDE DEF k, d
<1>2. d \in Call /\ d.pc = "next" /\ d.undo = c.undo \ {k} /\ d.restored = c.restored \cup {k}
      /\ d.phase = c.phase /\ d.outcome = c.outcome
    BY <1>0, <1>1, SourceIsTyped DEF TypedCall, Call, Placed
<1>3. RollbackSource(d) = RollbackSource(c)
    BY <1>0, SameSource DEF TypedCall, Call
<1>4. \A j \in d.undo, i \in RollbackSource(d) \ d.undo : j < i
    BY <1>1, <1>2, <1>3, SourceIsTyped DEF TypedCall, Placed
<1>5. c.outcome = "none"
    BY DEF InFlight, TypedCall, Placed
<1>6. Placed(d)
    BY <1>1, <1>2, <1>3, <1>4, <1>5 DEF TypedCall, Placed, InFlight
<1> QED BY <1>2, <1>6 DEF TypedCall, d

------------------------------------------------------------------------------
(* The steps of a writer.                                                   *)

CallsPlaced == \A w \in Writer : Placed(call[w])
TypeInv == TypeOK /\ CallsPlaced

\* The invariant, of one call.
LEMMA Typed == ASSUME TypeInv, NEW w \in Writer PROVE TypedCall(call[w])
BY DEF TypeInv, TypeOK, CallsPlaced, TypedCall

\* The name on the wire is a parameter name.
LEMMA NameIsParam == ASSUME NEW id \in ParamId PROVE OnWire(id) \in ParamId
BY ParamAssumption DEF OnWire

(* What a failed write makes of its call. *)
FailsTo(c, d) ==
    \/ /\ c.phase = "forward"
       /\ \/ \E outcome \in {"refused", "noPrevious", "notAttempted"} : d = Refused(c, outcome)
          \/ GateOpen /\ d = RollingBack(c)
    \/ c.phase = "rollback" /\ d = Dropped(c)

\* One call changes.
Steps(w, d) == call' = [call EXCEPT ![w] = d]

\* The catch clause ends the call, turns it into its rollback or drops a rollback write.
LEMMA FailedForms ==
    ASSUME TypeInv, NEW w \in Writer, Failed(w)
    PROVE  /\ batchActive' \in BOOLEAN
           /\ \E d : Steps(w, d) /\ FailsTo(call[w], d)
<1>1. batchActive \in BOOLEAN /\ call \in [Writer -> Call]
      /\ call[w].phase \in {"forward", "rollback"}
    BY DEF TypeInv, TypeOK, Call
<1>2. CASE call[w].phase = "forward"
    <2> DEFINE id == Current(call[w]).id
               c == [call[w] EXCEPT !.failed = id]
    <2>1. Fail(w)
        BY <1>2 DEF Failed
    <2>2. RollbackSource(c) = RollbackSource(call[w])
        BY <1>1, SameSource DEF Call
    <2>3. \/ \E outcome \in {"refused", "noPrevious", "notAttempted"} : Finish(w, c, outcome)
          \/ /\ GateOpen
             /\ call' = [call EXCEPT ![w] =
                   [c EXCEPT !.pc = "next", !.phase = "rollback", !.undo = RollbackSource(c)]]
             /\ UNCHANGED batchActive
        BY <2>1 DEF Fail
    <2> HIDE DEF id
    <2>4. ASSUME NEW outcome \in {"refused", "noPrevious", "notAttempted"}, Finish(w, c, outcome)
          PROVE  batchActive' \in BOOLEAN /\ Steps(w, Refused(call[w], outcome))
        BY <1>1, <2>4 DEF Finish, Refused, Steps, Call, id
    <2>5. ASSUME call' = [call EXCEPT ![w] =
                    [c EXCEPT !.pc = "next", !.phase = "rollback", !.undo = RollbackSource(c)]]
          PROVE  Steps(w, RollingBack(call[w]))
        BY <1>1, <2>2, <2>5 DEF RollingBack, Steps, Call, id
    <2>6. CASE \E outcome \in {"refused", "noPrevious", "notAttempted"} : Finish(w, c, outcome)
        BY <1>2, <2>4, <2>6 DEF FailsTo
    <2> QED BY <1>1, <1>2, <2>3, <2>5, <2>6 DEF FailsTo
<1>3. CASE call[w].phase = "rollback"
    <2>1. DropUndo(w)
        BY <1>3 DEF Failed
    <2>2. Steps(w, Dropped(call[w]))
        BY <1>1, <2>1 DEF DropUndo, Dropped, Steps
    <2> QED BY <1>1, <1>3, <2>1, <2>2 DEF DropUndo, FailsTo
<1> QED BY <1>1, <1>2, <1>3

\* Whichever it is, the call stays typed.
LEMMA FailedTyped ==
    ASSUME NEW c, TypedCall(c), AtWrite(c), c.pc # "done", NEW d, FailsTo(c, d)
    PROVE  TypedCall(d)
BY CallIsRefused, CallRollsBack, CallDrops DEF FailsTo, AtWrite

(* What the head of the loop makes of a call. *)
LEMMA ContinueForms ==
    ASSUME TypeInv, NEW w \in Writer, Continue(w)
    PROVE  LET c == call[w]
           IN  /\ batchActive' \in BOOLEAN
               /\ \/ /\ UNCHANGED <<waiter, verdict>>
                     /\ c.undo = {}
                     /\ \E outcome : EndsIn(c, outcome) /\ Steps(w, Finished(c, outcome))
                  \/ /\ UNCHANGED <<waiter, verdict>> /\ AtWrite(c) /\ c.phase = "forward"
                     /\ Steps(w, Skipped(c))
                  \/ /\ GateOpen /\ AtWrite(c) /\ UNCHANGED batchActive
                     /\ Steps(w, Sending(c, parameters[Current(c).id]))
                     /\ waiter' = [waiter EXCEPT ![w] = [id |-> OnWire(Current(c).id),
                                                         value |-> Current(c).value]]
                     /\ verdict' = [verdict EXCEPT ![w] = "none"]
                  \/ /\ UNCHANGED <<waiter, verdict>> /\ AtWrite(c)
                     /\ \E d : Steps(w, d) /\ FailsTo(c, d)
<1> DEFINE c == call[w]
<1>1. batchActive \in BOOLEAN /\ call \in [Writer -> Call] /\ c.phase \in {"forward", "rollback"}
    BY DEF TypeInv, TypeOK, Call
<1>0. c.phase = "forward" => c.undo = {}
    BY DEF TypeInv, CallsPlaced, Placed
<1>2. CASE c.phase = "forward" /\ c.todo = <<>>
    <2>1. Finish(w, c, "ok") /\ UNCHANGED <<waiter, verdict>>
        BY <1>2 DEF Continue
    <2>2. Steps(w, Finished(c, "ok")) /\ batchActive' \in BOOLEAN
        BY <1>1, <2>1 DEF Finish, Finished, Steps
    <2>3. EndsIn(c, "ok")
        BY <1>2 DEF EndsIn
    <2> QED BY <1>0, <1>2, <2>1, <2>2, <2>3
<1>3. CASE c.phase = "rollback" /\ c.undo = {}
    <2> DEFINE o == IF c.restored = RollbackSource(c) THEN "rolledBack" ELSE "partial"
    <2>1. Finish(w, c, o) /\ UNCHANGED <<waiter, verdict>>
        BY <1>3 DEF Continue
    <2>3. EndsIn(c, o)
        BY <1>3 DEF EndsIn
    <2> HIDE DEF o
    <2>2. Steps(w, Finished(c, o)) /\ batchActive' \in BOOLEAN
        BY <1>1, <2>1 DEF Finish, Finished, Steps
    <2> QED BY <1>3, <2>1, <2>2, <2>3
<1>4. CASE c.phase = "forward" /\ c.todo # <<>> /\ c.kind = "batch"
           /\ parameters[Current(c).id] = Current(c).value
    <2>1. call' = [call EXCEPT ![w].todo = Tail(@)] /\ UNCHANGED <<batchActive, waiter, verdict>>
        BY <1>4 DEF Continue
    <2>2. Steps(w, Skipped(c))
        BY <1>1, <2>1 DEF Skipped, Steps
    <2> QED BY <1>1, <1>4, <2>1, <2>2 DEF AtWrite
<1>5. CASE /\ AtWrite(c)
           /\ ~(c.phase = "forward" /\ c.kind = "batch"
                 /\ parameters[Current(c).id] = Current(c).value)
    <2>1. IF GateOpen THEN BeginWrite(w) ELSE Failed(w) /\ UNCHANGED <<waiter, verdict>>
        BY <1>1, <1>5 DEF Continue, AtWrite
    <2>2. CASE GateOpen
        <3>1. BeginWrite(w)
            BY <2>1, <2>2
        <3> DEFINE known == parameters[Current(c).id]
        <3>2. call' = [call EXCEPT ![w].pc = "sending", ![w].known = known]
            BY <3>1 DEF BeginWrite
        <3> HIDE DEF known
        <3>3. Steps(w, Sending(c, known))
            BY <1>1, <3>2 DEF Sending, Steps
        <3> QED BY <1>1, <1>5, <2>2, <3>1, <3>3 DEF BeginWrite, known
    <2>3. CASE ~GateOpen
        BY <1>5, <2>1, <2>3, FailedForms
    <2> QED BY <2>2, <2>3
<1> QED BY <1>1, <1>2, <1>3, <1>4, <1>5 DEF AtWrite

(* What the end of a verification makes of a call. *)
LEMMA ConfirmForms ==
    ASSUME TypeInv, NEW w \in Writer, Confirm(w)
    PROVE  LET c == call[w]
           IN  \/ c.phase = "forward" /\ Steps(w, Recorded(c))
               \/ c.phase = "rollback" /\ Steps(w, Restored(c))
BY DEF Confirm, Recorded, Restored, Steps, TypeInv, TypeOK, Call

\* An unverified write is left behind, or fails.
LEMMA UnverifiedForms ==
    ASSUME TypeInv, NEW w \in Writer, Unverified(w)
    PROVE  LET c == call[w]
           IN  /\ batchActive' \in BOOLEAN
               /\ \/ c.phase = "forward" /\ GateOpen /\ Steps(w, CarriedOn(c))
                  \/ \E d : Steps(w, d) /\ FailsTo(c, d)
<1> DEFINE id == Current(call[w]).id
<1>1. batchActive \in BOOLEAN /\ call \in [Writer -> Call]
    BY DEF TypeInv, TypeOK
<1>2. CASE CarriesOn(call[w])
    <2>1. /\ call' = [call EXCEPT ![w].pc = "next", ![w].todo = Tail(@),
                            ![w].unconfirmed = @ \cup {id}]
          /\ UNCHANGED batchActive
        BY <1>2 DEF Unverified
    <2> HIDE DEF id
    <2>2. call' = [call EXCEPT ![w] = [call[w] EXCEPT !.pc = "next", !.todo = Tail(@),
                                                      !.unconfirmed = @ \cup {id}]]
        BY <1>1, <2>1
    <2> QED BY <1>1, <1>2, <2>1, <2>2 DEF CarriesOn, CarriedOn, Steps, id
<1>3. CASE ~CarriesOn(call[w])
    BY <1>3, FailedForms DEF Unverified
<1> QED BY <1>2, <1>3

\* A step of one call keeps the others as they are.
LEMMA StepsTyped ==
    ASSUME TypeInv, NEW w \in Writer, NEW d, TypedCall(d), Steps(w, d)
    PROVE  call' \in [Writer -> Call] /\ CallsPlaced'
BY DEF TypeInv, TypeOK, CallsPlaced, TypedCall, Steps

------------------------------------------------------------------------------
(* The types and the places of the calls.                                   *)

\* The first state is typed.
LEMMA InitTyped == Init => TypeInv
<1> SUFFICES ASSUME Init PROVE TypeInv
    OBVIOUS
<1>1. IdleCall \in Call /\ Placed(IdleCall)
    <2>1. <<>> \in Seq(Write) /\ <<>> \in Seq(Applied)
        BY EmptySeq
    <2> QED BY <2>1 DEF IdleCall, Call, Outcome, Placed, InFlight, RollbackSource
<1>2. <<>> \in Seq(Write)
    BY EmptySeq
<1>3. parameters \in Table
    BY ParamAssumption DEF Init, ShownStore, Table
<1>4. call \in [Writer -> Call] /\ CallsPlaced
    BY <1>1 DEF Init, CallsPlaced
<1>5. /\ waiter \in [Writer -> Write \cup {None}]
      /\ verdict \in [Writer -> {"none", "confirmed", "rejected"}]
    BY DEF Init
<1>6. store \in [Answered -> Value] /\ calls \in 0..MaxCalls /\ events \in 0..MaxEvents
    BY ParamAssumption, BoundAssumption DEF Init
<1> QED BY <1>2, <1>3, <1>4, <1>5, <1>6 DEF Init, TypeInv, TypeOK

\* Start keeps the types.
LEMMA StartTyped ==
    ASSUME TypeInv, NEW w \in Writer, NEW kind \in {"batch", "single"},
           NEW writes \in Seq(Write), Start(w, kind, writes), batchActive' \in BOOLEAN
    PROVE  TypeInv'
<1> DEFINE d == [IdleCall EXCEPT !.pc = "next", !.kind = kind, !.todo = writes]
<1>1. TypedCall(d) /\ Steps(w, d)
    BY CallStarts DEF Start, Steps
<1> HIDE DEF d
<1>2. call' \in [Writer -> Call] /\ CallsPlaced'
    BY <1>1, StepsTyped
<1>3. calls' \in 0..MaxCalls
    BY BoundAssumption DEF Start, Startable, TypeInv, TypeOK
<1> QED BY <1>2, <1>3 DEF TypeInv, TypeOK, Start, gate, wire

\* The loop head keeps the types.
LEMMA ContinueTyped ==
    ASSUME TypeInv, NEW w \in Writer, Continue(w)
    PROVE  TypeInv'
<1> DEFINE c == call[w]
<1>1. TypedCall(c) /\ c.pc = "next"
    BY Typed DEF Continue
<1>2. batchActive' \in BOOLEAN
    BY ContinueForms
<1>3. /\ call' \in [Writer -> Call] /\ CallsPlaced'
      /\ waiter' \in [Writer -> Write \cup {None}]
      /\ verdict' \in [Writer -> {"none", "confirmed", "rejected"}]
    <2>1. CASE /\ UNCHANGED <<waiter, verdict>>
               /\ \E outcome : EndsIn(c, outcome) /\ Steps(w, Finished(c, outcome))
        BY <1>1, <2>1, CallFinishes, StepsTyped DEF TypeInv, TypeOK
    <2>2. CASE UNCHANGED <<waiter, verdict>> /\ AtWrite(c) /\ c.phase = "forward"
                  /\ Steps(w, Skipped(c))
        BY <1>1, <2>2, CallGoesOn, StepsTyped DEF TypeInv, TypeOK, AtWrite
    <2>3. CASE /\ AtWrite(c) /\ Steps(w, Sending(c, parameters[Current(c).id]))
               /\ waiter' = [waiter EXCEPT ![w] = [id |-> OnWire(Current(c).id),
                                                   value |-> Current(c).value]]
               /\ verdict' = [verdict EXCEPT ![w] = "none"]
        <3>1. Current(c).id \in ParamId /\ Current(c).value \in Value
            BY <1>1, <2>3, CurrentIsWrite DEF AtWrite, Write
        <3>2. parameters[Current(c).id] \in Value \cup {None}
            BY <3>1 DEF TypeInv, TypeOK, Table
        <3>3. TypedCall(Sending(c, parameters[Current(c).id]))
            BY <1>1, <2>3, <3>2, CallSends
        <3>4. [id |-> OnWire(Current(c).id), value |-> Current(c).value] \in Write
            BY <3>1, NameIsParam DEF Write
        <3> QED BY <2>3, <3>3, <3>4, StepsTyped DEF TypeInv, TypeOK
    <2>4. CASE UNCHANGED <<waiter, verdict>> /\ AtWrite(c) /\ \E d : Steps(w, d) /\ FailsTo(c, d)
        BY <1>1, <2>4, FailedTyped, StepsTyped DEF TypeInv, TypeOK
    <2> QED BY <2>1, <2>2, <2>3, <2>4, ContinueForms
<1> QED BY <1>2, <1>3 DEF TypeInv, TypeOK, Continue, gate, wire

\* A send that resolves keeps the types.
LEMMA SentTyped ==
    ASSUME TypeInv, NEW w \in Writer, SendReaches(w) \/ SendIsLost(w)
    PROVE  TypeInv'
<1> DEFINE c == call[w]
<1>1. Sent(w)
    BY DEF SendReaches, SendIsLost
<1>2. TypedCall(c) /\ c.pc = "sending"
    BY <1>1, Typed DEF Sent
<1>3. call' = [call EXCEPT ![w].pc = "verifying"]
    BY <1>1 DEF Sent
<1>4. Steps(w, Verifying(c))
    BY <1>3 DEF Steps, Verifying, TypeInv, TypeOK
<1>5. call' \in [Writer -> Call] /\ CallsPlaced'
    BY <1>2, <1>4, CallVerifies, StepsTyped
<1>6. Frame(w) \in Write
    <2>1. Current(c).id \in ParamId /\ Current(c).value \in Value
        BY <1>2, InFlightAtWrite DEF InFlight, Write
    <2> QED BY <2>1, NameIsParam DEF Frame, Write
<1>7. up \in Seq(Write)
    BY DEF TypeInv, TypeOK
<1>8. Append(up, Frame(w)) \in Seq(Write)
    BY <1>6, <1>7, AppendProperties
<1>9. up' \in Seq(Write)
    BY <1>7, <1>8 DEF SendReaches, SendIsLost
<1> QED BY <1>1, <1>5, <1>9 DEF Sent, TypeInv, TypeOK, gate

\* A send that rejects keeps the types.
LEMMA FailureTyped ==
    ASSUME TypeInv, NEW w \in Writer, SendFails(w)
    PROVE  TypeInv'
<1> DEFINE c == call[w]
<1>1. TypedCall(c) /\ c.pc = "sending" /\ Failed(w)
    BY Typed DEF SendFails
<1>2. AtWrite(c)
    BY <1>1, InFlightAtWrite DEF InFlight
<1>3. batchActive' \in BOOLEAN /\ call' \in [Writer -> Call] /\ CallsPlaced'
    BY <1>1, <1>2, FailedForms, FailedTyped, StepsTyped
<1>4. events' \in 0..MaxEvents
    BY BoundAssumption DEF SendFails, Spend, TypeInv, TypeOK
<1> QED BY <1>3, <1>4 DEF SendFails, Cancelled, TypeInv, TypeOK, gate, wire

\* The end of a verification keeps the types.
LEMMA VerifiedTyped ==
    ASSUME TypeInv, NEW w \in Writer, Confirm(w) \/ Unverified(w)
    PROVE  TypeInv'
<1> DEFINE c == call[w]
<1>1. TypedCall(c) /\ c.pc = "verifying" /\ InFlight(c)
    BY Typed DEF Confirm, Unverified, InFlight
<1>2. AtWrite(c)
    BY <1>1, InFlightAtWrite
<1>3. batchActive' \in BOOLEAN /\ call' \in [Writer -> Call] /\ CallsPlaced'
    <2>1. CASE Confirm(w)
        BY <1>1, <2>1, ConfirmForms, CallRecords, CallRestores, StepsTyped
           DEF Confirm, TypeInv, TypeOK
    <2>2. CASE Unverified(w)
        <3>1. CASE c.phase = "forward" /\ Steps(w, CarriedOn(c))
            BY <1>1, <2>2, <3>1, UnverifiedForms, CallCarriesOn, StepsTyped
        <3>2. CASE \E d : Steps(w, d) /\ FailsTo(c, d)
            BY <1>1, <1>2, <2>2, <3>2, UnverifiedForms, FailedTyped, StepsTyped
        <3> QED BY <2>2, <3>1, <3>2, UnverifiedForms
    <2> QED BY <2>1, <2>2
<1> QED BY <1>3 DEF Confirm, Unverified, TypeInv, TypeOK, gate, wire

\* Waiters that settle are still waiters or none.
LEMMA SettleTyped ==
    ASSUME TypeInv, NEW ws, NEW v \in {"none", "confirmed", "rejected"}, Settle(ws, v)
    PROVE  /\ waiter' \in [Writer -> Write \cup {None}]
           /\ verdict' \in [Writer -> {"none", "confirmed", "rejected"}]
BY DEF Settle, TypeInv, TypeOK

\* The steps that settle waiters keep the types.
LEMMA WaitersTyped ==
    ASSUME TypeInv,
           (\E w \in Writer : VerifyTimeout(w)) \/ Deliver \/ LinkDrop \/ SyncCompletes
    PROVE  TypeInv'
<1> USE DEF TypeInv, TypeOK, CallsPlaced, gate, wire
<1>1. CASE \E w \in Writer : VerifyTimeout(w)
    <2>1. PICK w \in Writer : VerifyTimeout(w)
        BY <1>1
    <2>2. waiter' \in [Writer -> Write \cup {None}]
          /\ verdict' \in [Writer -> {"none", "confirmed", "rejected"}]
        BY <2>1, SettleTyped DEF VerifyTimeout
    <2> QED BY <2>1, <2>2 DEF VerifyTimeout
<1>2. CASE Deliver
    <2>1. Head(down) \in Write /\ Tail(down) \in Seq(Write)
        BY <1>2, HeadTailProperties DEF Deliver
    <2>2. parameters' \in Table
        BY <1>2, <2>1 DEF Deliver, Shown, Write, Table
    <2>3. waiter' \in [Writer -> Write \cup {None}]
          /\ verdict' \in [Writer -> {"none", "confirmed", "rejected"}]
        BY <1>2, SettleTyped DEF Deliver
    <2> QED BY <1>2, <2>1, <2>2, <2>3 DEF Deliver
<1>3. CASE LinkDrop
    <2>1. waiter' \in [Writer -> Write \cup {None}]
          /\ verdict' \in [Writer -> {"none", "confirmed", "rejected"}]
        BY <1>3, SettleTyped DEF LinkDrop, RejectAll
    <2>2. <<>> \in Seq(Write) /\ events' \in 0..MaxEvents
        BY <1>3, EmptySeq, BoundAssumption DEF LinkDrop, Spend
    <2> QED BY <1>3, <2>1, <2>2 DEF LinkDrop
<1>4. CASE SyncCompletes
    <2>1. waiter' \in [Writer -> Write \cup {None}]
          /\ verdict' \in [Writer -> {"none", "confirmed", "rejected"}]
        BY <1>4, SettleTyped DEF SyncCompletes
    <2>2. parameters' \in Table
        BY <1>4, ParamAssumption DEF SyncCompletes, ShownStore, Table
    <2> QED BY <1>4, <2>1, <2>2 DEF SyncCompletes
<1> QED BY <1>1, <1>2, <1>3, <1>4

\* The steps that move the gate keep the types.
LEMMA GateTyped ==
    ASSUME TypeInv,
           Reconnect \/ Resync \/ Arm \/ StartCalibration \/ StartMotorTest \/ EndAction
    PROVE  TypeInv'
<1> USE DEF TypeInv, TypeOK, CallsPlaced, gate, wire
<1>1. events' \in 0..MaxEvents
    BY BoundAssumption DEF Reconnect, Resync, Arm, StartCalibration, StartMotorTest, EndAction, Spend
<1>2. parameters' \in Table
    BY DEF Reconnect, Resync, Arm, StartCalibration, StartMotorTest, EndAction, Table
<1> QED BY <1>1, <1>2 DEF Reconnect, Resync, Arm, StartCalibration, StartMotorTest, EndAction

\* The board and the wire keep the types.
LEMMA WireTyped ==
    ASSUME TypeInv, Receive \/ EchoIsLost
    PROVE  TypeInv'
<1> USE DEF TypeInv, TypeOK, CallsPlaced, gate
<1>1. CASE EchoIsLost
    <2>1. Tail(down) \in Seq(Write)
        BY <1>1, HeadTailProperties DEF EchoIsLost
    <2> QED BY <1>1, <2>1 DEF EchoIsLost
<1>2. CASE Receive
    <2> DEFINE f == Head(up)
               settled == [id |-> f.id, value |-> Settles[f.id][f.value]]
    <2>1. f \in Write /\ Tail(up) \in Seq(Write)
        BY <1>2, HeadTailProperties DEF Receive
    <2>2. f.id \in Answered => settled \in Write
        BY <2>1, ParamAssumption DEF Write
    <2>3. store' \in [Answered -> Value]
        BY <1>2, <2>1, <2>2 DEF Receive, Write
    <2>4. down' \in Seq(Write)
        <3>1. f.id \in Answered => Append(down, settled) \in Seq(Write)
            BY <2>2, AppendProperties
        <3> QED BY <1>2, <3>1 DEF Receive
    <2> QED BY <1>2, <2>1, <2>3, <2>4 DEF Receive
<1> QED BY <1>1, <1>2

\* Every step keeps the types of the variables and the places of the calls.
LEMMA NextTyped == TypeInv /\ [Next]_vars => TypeInv'
<1> SUFFICES ASSUME TypeInv, [Next]_vars PROVE TypeInv'
    OBVIOUS
<1>1. ASSUME NEW w \in Writer, NEW b \in Batch, StartBatch(w, b) PROVE TypeInv'
    BY <1>1, StartTyped, ParamAssumption DEF StartBatch
<1>2. ASSUME NEW w \in Writer, NEW s \in Single, StartSingle(w, s) PROVE TypeInv'
    <2>1. <<s>> \in Seq(Write)
        BY ParamAssumption
    <2> QED BY <1>2, <2>1, StartTyped DEF StartSingle, TypeInv, TypeOK
<1>3. ASSUME NEW w \in Writer, Continue(w) PROVE TypeInv'
    BY <1>3, ContinueTyped
<1>4. ASSUME NEW w \in Writer, SendReaches(w) \/ SendIsLost(w) PROVE TypeInv'
    BY <1>4, SentTyped
<1>5. ASSUME NEW w \in Writer, SendFails(w) PROVE TypeInv'
    BY <1>5, FailureTyped
<1>6. ASSUME NEW w \in Writer, Confirm(w) \/ Unverified(w) PROVE TypeInv'
    BY <1>6, VerifiedTyped
<1>7. CASE (\E w \in Writer : VerifyTimeout(w)) \/ Deliver \/ LinkDrop \/ SyncCompletes
    BY <1>7, WaitersTyped
<1>8. CASE Reconnect \/ Resync \/ Arm \/ StartCalibration \/ StartMotorTest \/ EndAction
    BY <1>8, GateTyped
<1>9. CASE Receive \/ EchoIsLost
    BY <1>9, WireTyped
<1>10. CASE UNCHANGED vars
    BY <1>10 DEF vars, gate, wire, TypeInv, TypeOK, CallsPlaced
<1> QED BY <1>1, <1>2, <1>3, <1>4, <1>5, <1>6, <1>7, <1>8, <1>9, <1>10 DEF Next

\* The session never leaves its types, and no step reads a list where it has
\* nothing: whatever is refused, lost, cut off or rolled back, a call at a write
\* has that write (the loops of setParameters and rollbackAppliedWrites).
THEOREM TypeCorrect == Spec => []TypeOK
<1>1. TypeInv => TypeOK
    BY DEF TypeInv
<1> QED BY <1>1, InitTyped, NextTyped, PTL DEF Spec

------------------------------------------------------------------------------
(* The waiters and the flag.  What the sequences of a call hold plays no part, so
   Shape says only that a call has its fields. *)

Fields == {"pc", "kind", "phase", "todo", "applied", "unconfirmed", "undo", "restored",
           "failed", "known", "outcome"}

IsCall(c) == DOMAIN c = Fields

Shape ==
    /\ call = [w \in Writer |-> call[w]]
    /\ waiter = [w \in Writer |-> waiter[w]]
    /\ verdict = [w \in Writer |-> verdict[w]]
    /\ \A w \in Writer : IsCall(call[w])

WaiterInv ==
    \A w \in Writer : waiter[w] # None =>
        call[w].pc \in {"sending", "verifying"} /\ verdict[w] = "none"

InProgress(c) == c.pc \in {"next", "sending", "verifying"}

\* One caller at a time applies batches and lone writes.
OneWriter == \A v, w \in Writer : v = w

FlagInv ==
    OneWriter => \A w \in Writer : call[w].kind = "batch" /\ InProgress(call[w]) => batchActive

WriteInv == Shape /\ WaiterInv /\ FlagInv /\ (OneWriter => CalibrationExcludesBatch)

------------------------------------------------------------------------------
(* The pieces a call is made of.                                            *)

\* What a step makes of a call: its fields stay, its kind stays, and where it
\* is changes as named.
Becomes(w, pc) ==
    /\ call' = [v \in Writer |-> call'[v]]
    /\ \A v \in Writer : IsCall(call'[v])
    /\ \A v \in Writer : v # w => call'[v] = call[v]
    /\ call'[w].kind = call[w].kind
    /\ call'[w].pc = pc

\* The end of a call clears the flag of a batch, and of a batch only.
Ends(w) ==
    /\ Becomes(w, "done")
    /\ batchActive' = IF call[w].kind = "batch" THEN FALSE ELSE batchActive

\* The finally clause ends the call.
LEMMA FinishEnds ==
    ASSUME Shape, NEW w \in Writer, NEW c, IsCall(c), c.kind = call[w].kind,
           NEW outcome, Finish(w, c, outcome)
    PROVE  Ends(w)
BY DEF Shape, IsCall, Fields, Finish, Ends, Becomes

\* A failed write ends the call or sends it into its rollback.
LEMMA FailedMoves ==
    ASSUME Shape, NEW w \in Writer, Failed(w)
    PROVE  Ends(w) \/ (Becomes(w, "next") /\ UNCHANGED batchActive)
<1> DEFINE c == [call[w] EXCEPT !.failed = Current(call[w]).id]
<1>1. IsCall(c) /\ c.kind = call[w].kind
    BY DEF Shape, IsCall, Fields
<1>2. CASE call[w].phase # "forward"
    <2>1. DropUndo(w)
        BY <1>2 DEF Failed
    <2> QED BY <2>1 DEF Shape, IsCall, Fields, DropUndo, Becomes
<1>3. CASE call[w].phase = "forward"
    <2>1. Fail(w)
        BY <1>3 DEF Failed
    <2>2. \/ \E outcome \in Outcome : Finish(w, c, outcome)
          \/ /\ call' = [call EXCEPT ![w] =
                  [c EXCEPT !.pc = "next", !.phase = "rollback", !.undo = RollbackSource(c)]]
             /\ UNCHANGED batchActive
        BY <2>1 DEF Fail, Outcome
    <2>3. ASSUME NEW outcome, Finish(w, c, outcome) PROVE Ends(w)
        BY <2>3, <1>1, FinishEnds
    <2>4. ASSUME call' = [call EXCEPT ![w] =
                   [c EXCEPT !.pc = "next", !.phase = "rollback", !.undo = RollbackSource(c)]]
          PROVE  Becomes(w, "next")
        <3> HIDE DEF c
        <3> QED BY <1>1, <2>4 DEF Shape, IsCall, Fields, Becomes
    <2> QED BY <2>2, <2>3, <2>4
<1> QED BY <1>2, <1>3

------------------------------------------------------------------------------
(* Steps that several actions share.                                        *)

\* Nothing that belongs to another writer changes.
OthersStay(w) ==
    \A v \in Writer : v # w => waiter'[v] = waiter[v] /\ verdict'[v] = verdict[v]

\* A write that is over, in whatever way, leaves no waiter: the call goes on or
\* ends, and the flag goes with the last.
LEMMA OverKeeps ==
    ASSUME WriteInv, NEW w \in Writer, InProgress(call[w]),
           Ends(w) \/ (Becomes(w, "next") /\ UNCHANGED batchActive),
           busy' = busy,
           waiter' = [v \in Writer |-> waiter'[v]], verdict' = [v \in Writer |-> verdict'[v]],
           OthersStay(w), waiter'[w] = None
    PROVE  WriteInv'
<1> USE DEF WriteInv, InProgress, Ends, Becomes, OthersStay
<1>1. Shape'
    BY DEF Shape
<1>2. WaiterInv'
    BY DEF WaiterInv
<1>3. FlagInv'
    <2> SUFFICES ASSUME OneWriter, NEW v \in Writer,
                        call'[v].kind = "batch", call'[v].pc \in {"next", "sending", "verifying"}
                 PROVE  batchActive'
        BY DEF FlagInv, OneWriter
    <2>1. v = w /\ call'[w].pc # "done"
        BY DEF OneWriter
    <2>2. UNCHANGED batchActive /\ call[w].kind = "batch"
        BY <2>1
    <2>3. batchActive
        BY <2>2 DEF FlagInv
    <2> QED BY <2>2, <2>3
<1>4. OneWriter => CalibrationExcludesBatch'
    BY DEF CalibrationExcludesBatch
<1> QED BY <1>1, <1>2, <1>3, <1>4 DEF OneWriter

\* Waiters that settle leave the set.
LEMMA SettleKeeps ==
    ASSUME WriteInv, NEW ws, NEW v, Settle(ws, v), UNCHANGED <<call, batchActive>>,
           busy' \in {busy, "none"}
    PROVE  WriteInv'
<1> USE DEF WriteInv
<1>1. Shape'
    BY DEF Shape, Settle
<1>2. WaiterInv'
    BY DEF Shape, WaiterInv, Settle
<1>3. FlagInv'
    BY DEF FlagInv, OneWriter, InProgress
<1>4. OneWriter => CalibrationExcludesBatch'
    BY DEF CalibrationExcludesBatch
<1> QED BY <1>1, <1>2, <1>3, <1>4 DEF OneWriter

\* Steps that touch no call and no waiter, and start no calibration.
LEMMA ElsewhereKeeps ==
    ASSUME WriteInv, UNCHANGED <<call, waiter, verdict, batchActive>>,
           busy' = "calibration" => busy = "calibration"
    PROVE  WriteInv'
BY DEF WriteInv, Shape, WaiterInv, FlagInv, OneWriter, InProgress, CalibrationExcludesBatch

------------------------------------------------------------------------------
(* The actions.                                                             *)

\* A call starts with its first write ahead of it.
LEMMA StartKeeps ==
    ASSUME WriteInv, NEW w \in Writer, NEW kind, NEW writes, Start(w, kind, writes),
           \/ kind = "batch" /\ batchActive' = TRUE
           \/ kind = "single" /\ UNCHANGED batchActive
    PROVE  WriteInv'
<1> USE DEF WriteInv, Start, Startable, gate
<1>1. Shape' /\ call'[w].pc = "next" /\ call'[w].kind = kind
             /\ \A v \in Writer : v # w => call'[v] = call[v]
    BY DEF Shape, IsCall, Fields, IdleCall
<1>2. WaiterInv'
    BY <1>1 DEF WaiterInv
<1>3. FlagInv'
    BY <1>1 DEF FlagInv, OneWriter, InProgress
<1>4. OneWriter => CalibrationExcludesBatch'
    BY <1>1 DEF CalibrationExcludesBatch
<1> QED BY <1>1, <1>2, <1>3, <1>4 DEF OneWriter

\* The waiter is registered before the frame leaves, and only past the gate.
LEMMA BeginWriteKeeps ==
    ASSUME WriteInv, NEW w \in Writer, call[w].pc = "next", GateOpen, BeginWrite(w),
           UNCHANGED gate
    PROVE  WriteInv'
<1> USE DEF WriteInv, BeginWrite, GateOpen, gate
<1>1. Becomes(w, "sending")
    BY DEF Shape, IsCall, Fields, Becomes
<1>2. Shape'
    BY <1>1 DEF Shape, Becomes
<1>3. WaiterInv'
    BY <1>1 DEF Shape, WaiterInv, Becomes
<1>4. FlagInv'
    BY <1>1 DEF FlagInv, OneWriter, InProgress, Becomes
<1>5. CalibrationExcludesBatch'
    BY DEF CalibrationExcludesBatch
<1> QED BY <1>2, <1>3, <1>4, <1>5 DEF OneWriter

\* The loop head ends the call, skips a request, writes or fails.
LEMMA ContinueKeeps ==
    ASSUME WriteInv, NEW w \in Writer, Continue(w)
    PROVE  WriteInv'
<1> DEFINE c == call[w]
           Stays == UNCHANGED <<waiter, verdict>>
<1>1. call[w].pc = "next" /\ UNCHANGED gate /\ InProgress(call[w])
    BY DEF Continue, InProgress
<1>2. waiter[w] = None
    BY <1>1 DEF WriteInv, WaiterInv
<1>3. \/ (\E outcome \in Outcome : Finish(w, c, outcome)) /\ Stays
      \/ call' = [call EXCEPT ![w].todo = Tail(@)] /\ UNCHANGED batchActive /\ Stays
      \/ GateOpen /\ BeginWrite(w)
      \/ Failed(w) /\ Stays
    BY DEF Continue, Outcome
<1>4. ASSUME Stays, Ends(w) \/ (Becomes(w, "next") /\ UNCHANGED batchActive)
      PROVE  WriteInv'
    BY <1>1, <1>2, <1>4, OverKeeps DEF WriteInv, Shape, OthersStay, gate
<1>5. ASSUME NEW outcome, Finish(w, c, outcome), Stays PROVE WriteInv'
    BY <1>4, <1>5, FinishEnds DEF WriteInv, Shape
<1>6. CASE call' = [call EXCEPT ![w].todo = Tail(@)] /\ UNCHANGED batchActive /\ Stays
    <2>1. Becomes(w, "next")
        BY <1>1, <1>6 DEF WriteInv, Shape, IsCall, Fields, Becomes
    <2> QED BY <2>1, <1>4, <1>6
<1>7. CASE GateOpen /\ BeginWrite(w)
    BY <1>1, <1>7, BeginWriteKeeps
<1>8. CASE Failed(w) /\ Stays
    BY <1>4, <1>8, FailedMoves DEF WriteInv
<1> QED BY <1>3, <1>5, <1>6, <1>7, <1>8

\* A send that resolves leaves the waiter in place; one that rejects cancels it.
LEMMA SendKeeps ==
    ASSUME WriteInv, NEW w \in Writer,
           SendReaches(w) \/ SendIsLost(w) \/ SendFails(w)
    PROVE  WriteInv'
<1>1. CASE SendReaches(w) \/ SendIsLost(w)
    <2>1. Sent(w)
        BY <1>1 DEF SendReaches, SendIsLost
    <2>2. Becomes(w, "verifying") /\ call[w].pc = "sending"
        BY <2>1 DEF Sent, WriteInv, Shape, IsCall, Fields, Becomes
    <2>3. UNCHANGED <<gate, batchActive, waiter, verdict>>
        BY <2>1 DEF Sent
    <2>4. Shape' /\ WaiterInv'
        BY <2>2, <2>3 DEF WriteInv, Shape, WaiterInv, Becomes
    <2>5. FlagInv' /\ (OneWriter => CalibrationExcludesBatch')
        BY <2>2, <2>3 DEF WriteInv, FlagInv, OneWriter, InProgress, CalibrationExcludesBatch,
                          Becomes, gate
    <2> QED BY <2>4, <2>5 DEF WriteInv, OneWriter
<1>2. CASE SendFails(w)
    <2>1. InProgress(call[w]) /\ busy' = busy /\ Failed(w) /\ UNCHANGED verdict
        BY <1>2 DEF SendFails, InProgress, gate
    <2>2. waiter' = [waiter EXCEPT ![w] = None]
        BY <1>2 DEF SendFails, Cancelled
    <2>3. Ends(w) \/ (Becomes(w, "next") /\ UNCHANGED batchActive)
        BY <2>1, FailedMoves DEF WriteInv
    <2>4. /\ waiter' = [v \in Writer |-> waiter'[v]]
          /\ verdict' = [v \in Writer |-> verdict'[v]]
          /\ OthersStay(w) /\ waiter'[w] = None
        BY <2>1, <2>2 DEF WriteInv, Shape, OthersStay
    <2> QED BY <2>1, <2>3, <2>4, OverKeeps
<1> QED BY <1>1, <1>2

\* A verification that has settled has no waiter any more.
LEMMA VerifiedKeeps ==
    ASSUME WriteInv, NEW w \in Writer, Confirm(w) \/ Unverified(w)
    PROVE  WriteInv'
<1>1. /\ call[w].pc = "verifying" /\ verdict[w] # "none"
      /\ UNCHANGED <<gate, waiter>> /\ verdict' = [verdict EXCEPT ![w] = "none"]
    BY DEF Confirm, Unverified
<1>2. waiter[w] = None /\ InProgress(call[w])
    BY <1>1 DEF WriteInv, WaiterInv, InProgress
<1>3. Ends(w) \/ (Becomes(w, "next") /\ UNCHANGED batchActive)
    <2>1. CASE Confirm(w)
        BY <2>1 DEF Confirm, WriteInv, Shape, IsCall, Fields, Becomes
    <2>2. CASE Unverified(w) /\ CarriesOn(call[w])
        <3> DEFINE id == Current(call[w]).id
        <3>1. /\ call' = [call EXCEPT ![w].pc = "next", ![w].todo = Tail(@),
                            ![w].unconfirmed = @ \cup {id}]
              /\ UNCHANGED batchActive
            BY <2>2 DEF Unverified
        <3> HIDE DEF id
        <3> QED BY <3>1 DEF WriteInv, Shape, IsCall, Fields, Becomes
    <2>3. CASE Unverified(w) /\ ~CarriesOn(call[w])
        BY <2>3, FailedMoves DEF Unverified, WriteInv
    <2> QED BY <2>1, <2>2, <2>3
<1> QED BY <1>1, <1>2, <1>3, OverKeeps DEF WriteInv, Shape, OthersStay, gate

\* The steps of the readback waiters.
LEMMA WaitersKeep ==
    ASSUME WriteInv,
           \/ \E w \in Writer : VerifyTimeout(w)
           \/ Deliver \/ LinkDrop \/ SyncCompletes
    PROVE  WriteInv'
BY SettleKeeps DEF VerifyTimeout, Deliver, LinkDrop, RejectAll, SyncCompletes, gate

\* A calibration starts only where no batch is in progress.
LEMMA CalibrationKeeps ==
    ASSUME WriteInv, StartCalibration
    PROVE  WriteInv'
<1>1. UNCHANGED <<call, waiter, verdict, batchActive>> /\ ~batchActive
    BY DEF StartCalibration, CalibrationBlocked
<1>2. OneWriter => CalibrationExcludesBatch'
    BY <1>1 DEF WriteInv, FlagInv, InProgress, CalibrationExcludesBatch
<1> QED BY <1>1, <1>2 DEF WriteInv, Shape, WaiterInv, FlagInv, OneWriter, InProgress

\* The steps that touch no call.
LEMMA OthersKeep ==
    ASSUME WriteInv,
           Reconnect \/ Resync \/ Arm \/ StartMotorTest \/ EndAction \/ Receive \/ EchoIsLost
    PROVE  WriteInv'
BY ElsewhereKeeps DEF Reconnect, Resync, Arm, StartMotorTest, EndAction, Receive, EchoIsLost,
                      gate, wire

------------------------------------------------------------------------------
\* A session that was just synced has no call and no waiter.
LEMMA InitInv == Init => WriteInv
BY DEF Init, IdleCall, WriteInv, Shape, IsCall, Fields, WaiterInv, FlagInv, InProgress,
       CalibrationExcludesBatch

\* Every step keeps the invariant.
LEMMA NextInv == WriteInv /\ [Next]_vars => WriteInv'
<1> SUFFICES ASSUME WriteInv, [Next]_vars PROVE WriteInv'
    OBVIOUS
<1>1. ASSUME NEW w \in Writer, NEW b \in Batch, StartBatch(w, b) PROVE WriteInv'
    BY <1>1, StartKeeps DEF StartBatch
<1>2. ASSUME NEW w \in Writer, NEW s \in Single, StartSingle(w, s) PROVE WriteInv'
    BY <1>2, StartKeeps DEF StartSingle
<1>3. ASSUME NEW w \in Writer, Continue(w) PROVE WriteInv'
    BY <1>3, ContinueKeeps
<1>4. ASSUME NEW w \in Writer, SendReaches(w) \/ SendIsLost(w) \/ SendFails(w)
      PROVE  WriteInv'
    BY <1>4, SendKeeps
<1>5. ASSUME NEW w \in Writer, Confirm(w) \/ Unverified(w) PROVE WriteInv'
    BY <1>5, VerifiedKeeps
<1>6. ASSUME NEW w \in Writer, VerifyTimeout(w) PROVE WriteInv'
    BY <1>6, WaitersKeep
<1>7. CASE Deliver \/ LinkDrop \/ SyncCompletes
    BY <1>7, WaitersKeep
<1>8. CASE StartCalibration
    BY <1>8, CalibrationKeeps
<1>9. CASE Reconnect \/ Resync \/ Arm \/ StartMotorTest \/ EndAction \/ Receive \/ EchoIsLost
    BY <1>9, OthersKeep
<1>10. CASE UNCHANGED vars
    BY <1>10, ElsewhereKeeps DEF vars, gate
<1> QED BY <1>1, <1>2, <1>3, <1>4, <1>5, <1>6, <1>7, <1>8, <1>9, <1>10 DEF Next

\* Every reachable state has the invariant.
LEMMA Invariance == Spec => []WriteInv
BY InitInv, NextInv, PTL DEF Spec

\* No readback waiter outlives its write, for any number of concurrent callers and
\* however their writes are confirmed, rejected, cut off or refused
\* (waitForParameterValue, and the catch of setParameter that cancels it).
THEOREM NoOrphanWaiterAlways == Spec => []NoOrphanWaiter
<1>1. WriteInv => NoOrphanWaiter
    BY DEF WriteInv, WaiterInv, NoOrphanWaiter
<1> QED BY <1>1, Invariance, PTL

\* With one caller no calibration runs beside a write of a batch or of its rollback
\* (guidedActionBlockReason and parameterWriteBlockReason exclude each other).
THEOREM CalibrationExcludesOneWriter ==
    ASSUME OneWriter PROVE Spec => []CalibrationExcludesBatch
<1>1. WriteInv => CalibrationExcludesBatch
    BY OneWriter DEF WriteInv
<1> QED BY <1>1, Invariance, PTL
-----------------------------------------------------------------------------
(***************************************************************************)
(* What a finished batch says of the board is true: VerifiedWritesStand and  *)
(* RollbackRestores, for one caller (OneWriter), echoes that do not outlive  *)
(* the verification they were sent for (~LateEchoes), and a board that makes *)
(* nothing more of a value it has settled on (StableBoard).  The first two   *)
(* cannot be dropped: see the README.  Without the third, a download that    *)
(* completes may confirm a write whose frame has yet to arrive, and the      *)
(* frame then changes the value again.                                      *)
(*                                                                         *)
(* The argument.  Only one frame on the wire may change the board, that of   *)
(* the write in progress: every other is tame, it says what the board holds  *)
(* (Before).  Once that frame has arrived, the echoes tell the old value or, *)
(* the last of them, the new one, and one that equals the value asked for    *)
(* means that the board holds it (After).  A drop of the link leaves the     *)
(* frame behind, when nothing is claimed of its name (Exempt): its write has *)
(* failed, so that the name is doubtful or the rollback spoiled, or is the   *)
(* only one.  Claim says what a call promises on its way: going forward, of  *)
(* the last verified write of each name, and rolling back, of the first of   *)
(* each name restored so far, which is the latest one it has got to.         *)
(*                                                                         *)
(* The last part is WritesAreRouted.                                        *)
(***************************************************************************)

\* The board makes nothing more of a value it has settled on.
StableBoard ==
    \A p \in Answered :
        /\ Settles[p][FirstStore[p]] = FirstStore[p]
        /\ \A v \in Value : Settles[p][Settles[p][v]] = Settles[p][v]

Name(c) == OnWire(Current(c).id)
Target(c) == [id |-> Name(c), value |-> Current(c).value]
Waiting(c, vd) == c.pc = "verifying" /\ vd = "none"

\* A frame that says of its name what the board holds: to receive it changes
\* nothing, and to be told it confirms nothing false.
Tame(st, f) == f.id \in Answered => f.value = st[f.id]
AllTame(st, u, dn) ==
    (\A i \in DOMAIN u : Tame(st, u[i])) /\ (\A k \in DOMAIN dn : Tame(st, dn[k]))

\* The frame f of the write in progress is the last on its way, or is lost.
Before(st, u, dn, f) ==
    /\ \A i \in DOMAIN u : Tame(st, u[i]) \/ (i = Len(u) /\ u[i] = f)
    /\ \A k \in DOMAIN dn : Tame(st, dn[k])

\* The board has processed it: the echoes of its name tell what the board held
\* before, s, and the last of all what it holds now.
After(st, u, dn, f) ==
    /\ u = <<>> /\ f.id \in Answered /\ st[f.id] = Settles[f.id][f.value]
    /\ \A k \in DOMAIN dn : dn[k].id # f.id => Tame(st, dn[k])
    /\ \E s \in Value : Settles[f.id][s] = s /\
         \A k \in DOMAIN dn : dn[k].id = f.id =>
            dn[k].value = IF k = Len(dn) THEN st[f.id] ELSE s

\* A rollback write was given up.
Spoiled(c) == c.phase = "rollback" /\ c.restored \cup c.undo # RollbackSource(c)

\* The names a call makes no claim about, so that a frame of the old link may
\* still change them.
Exempt(c, vd, id) ==
    IF InFlight(c) THEN vd # "confirmed" /\ id = Name(c)
    ELSE c.applied = <<>> \/ id \in Doubtful(c) \/ Spoiled(c)

Waits(lk, c, vd, wt) ==
    /\ wt # None => InFlight(c) /\ vd = "none" /\ lk = "up"
    /\ InFlight(c) /\ vd = "none" => wt = Target(c)
    /\ c.pc = "sending" /\ vd = "rejected" => lk = "down"

Wired(lk, st, u, dn, c, vd) ==
    /\ \A k \in DOMAIN dn : dn[k].id \in Answered
    /\ lk = "down" =>
         dn = <<>> /\ \A i \in DOMAIN u : Tame(st, u[i]) \/ Exempt(c, vd, u[i].id)
    /\ lk = "up" =>
         IF Waiting(c, vd) THEN Before(st, u, dn, Target(c)) \/ After(st, u, dn, Target(c))
         ELSE AllTame(st, u, dn)

\* A confirmed write is what the board holds.
Vouches(st, c, vd) ==
    InFlight(c) /\ vd = "confirmed" =>
        Name(c) \in Answered /\ st[Name(c)] = Current(c).value

\* The name has this value, unless a write of it is in progress.
Stands(st, c, id, v) == id \in Answered /\ ((InFlight(c) /\ Name(c) = id) \/ st[id] = v)

\* What is claimed going forward, of the last verified write of each name, and
\* rolling back, of the first one restored.
Claim(st, c) ==
    /\ c.phase = "forward" =>
         \A i \in LastOfEach(c) : Stands(st, c, OnWire(c.applied[i].id), c.applied[i].value)
    /\ c.phase = "rollback" /\ ~Spoiled(c) =>
         \A k \in c.restored : OnWire(c.applied[k].id) \notin Doubtful(c) /\
           (\A j \in c.restored : Alike(c, k, j) => k <= j) =>
            Stands(st, c, OnWire(c.applied[k].id), c.applied[k].previous)

Settled(st) == \A p \in Answered : Settles[p][st[p]] = st[p]

BoardInv(w) ==
    /\ Waits(link, call[w], verdict[w], waiter[w])
    /\ Wired(link, store, up, down, call[w], verdict[w])
    /\ Vouches(store, call[w], verdict[w])
    /\ Claim(store, call[w])

WholeInv == TypeInv /\ Settled(store) /\ \A w \in Writer : BoardInv(w)

------------------------------------------------------------------------------
(* What the steps of a call make of its claims.                             *)

SameCore(c, d) ==
    /\ d.phase = c.phase /\ d.applied = c.applied /\ d.unconfirmed = c.unconfirmed
    /\ d.undo = c.undo /\ d.restored = c.restored /\ d.failed = c.failed

\* A claim reads the lists of a call, and whether a write of the name is going on.
LEMMA CoreClaims ==
    ASSUME NEW c, NEW d, SameCore(c, d)
    PROVE  /\ LastOfEach(d) = LastOfEach(c) /\ Doubtful(d) = Doubtful(c)
           /\ RollbackSource(d) = RollbackSource(c) /\ Spoiled(d) = Spoiled(c)
           /\ \A i, j : Alike(d, i, j) = Alike(c, i, j)
<1>1. Doubtful(d) = Doubtful(c) /\ Vouched(d) = Vouched(c)
    BY DEF SameCore, Doubtful, Vouched
<1>2. \A i, j : Alike(d, i, j) = Alike(c, i, j)
    BY DEF SameCore, Alike
<1>3. LastOfEach(d) = LastOfEach(c)
    BY <1>1, <1>2 DEF SameCore, LastOfEach
<1>4. RollbackSource(d) = RollbackSource(c) /\ Spoiled(d) = Spoiled(c)
    BY DEF SameCore, RollbackSource, Spoiled
<1> QED BY <1>1, <1>2, <1>3, <1>4

\* A step that keeps the lists, and any write in progress, keeps the claims.
LEMMA ClaimKeeps ==
    ASSUME NEW st, NEW c, NEW d, SameCore(c, d), Claim(st, c),
           InFlight(c) => InFlight(d) /\ Name(d) = Name(c)
    PROVE  Claim(st, d)
<1>1. \A id, v : Stands(st, c, id, v) => Stands(st, d, id, v)
    BY DEF Stands
<1> QED BY <1>1, CoreClaims DEF Claim, SameCore

\* Once a name is doubtful nothing is claimed of it.
LEMMA DoubtClaims ==
    ASSUME NEW st, NEW c, NEW d, Claim(st, c), c.phase = "forward", d.phase = "forward",
           d.applied = c.applied, Doubtful(c) \subseteq Doubtful(d), Name(c) \in Doubtful(d)
    PROVE  Claim(st, d)
<1> SUFFICES ASSUME NEW i \in LastOfEach(d)
             PROVE  Stands(st, d, OnWire(d.applied[i].id), d.applied[i].value)
    BY DEF Claim
<1>1. i \in LastOfEach(c) /\ OnWire(c.applied[i].id) \notin Doubtful(d)
    BY DEF LastOfEach, Vouched, Alike
<1>2. Stands(st, c, OnWire(c.applied[i].id), c.applied[i].value)
    BY <1>1 DEF Claim
<1> QED BY <1>1, <1>2 DEF Stands

\* The name of a write that failed is doubtful.
LEMMA RefusedDoubts ==
    ASSUME NEW c, TypedCall(c), AtWrite(c), c.phase = "forward", c.pc # "done",
           NEW d, d.applied = c.applied, d.unconfirmed = c.unconfirmed,
           d.failed = Current(c).id
    PROVE  Doubtful(c) \subseteq Doubtful(d) /\ Name(c) \in Doubtful(d)
<1>1. Current(c).id \in ParamId /\ Current(c).id # None
    BY CurrentIsWrite, ParamAssumption DEF AtWrite, Write
<1>2. c.failed = None
    BY DEF TypedCall, Placed
<1> QED BY <1>1, <1>2 DEF Doubtful, Name

\* So is that of one that could not be verified.
LEMMA CarriedDoubts ==
    ASSUME NEW c, NEW d, d.unconfirmed = c.unconfirmed \cup {Current(c).id}, d.failed = c.failed
    PROVE  Doubtful(c) \subseteq Doubtful(d) /\ Name(c) \in Doubtful(d)
BY DEF Doubtful, Name

\* What FailsTo does to the fields that count.
LEMMA RefusedFields ==
    ASSUME NEW c \in Call, NEW outcome
    PROVE  LET d == Refused(c, outcome)
           IN  /\ d.phase = c.phase /\ d.applied = c.applied /\ d.unconfirmed = c.unconfirmed
               /\ d.failed = Current(c).id /\ d.pc = "done"
BY DEF Refused, Call

\* The same of the step into the rollback.
LEMMA RollingBackFields ==
    ASSUME NEW c \in Call
    PROVE  LET d == RollingBack(c)
           IN  /\ d.phase = "rollback" /\ d.applied = c.applied /\ d.unconfirmed = c.unconfirmed
               /\ d.failed = Current(c).id /\ d.pc = "next" /\ d.restored = c.restored
BY DEF RollingBack, Call

\* A rollback write that is given up spoils the rollback.
LEMMA DroppedSpoils ==
    ASSUME NEW c, TypedCall(c), c.undo # {}, c.phase = "rollback"
    PROVE  Spoiled(Dropped(c)) /\ Dropped(c).pc = "next"
<1> DEFINE k == Latest(c.undo)
           d == Dropped(c)
<1>1. k \in c.undo
    BY LatestUndo
<1>0. d = [c EXCEPT !.pc = "next", !.undo = @ \ {k}]
    BY DEF Dropped
<1> HIDE DEF k, d
<1>2. d.undo = c.undo \ {k} /\ d.restored = c.restored /\ d.phase = c.phase
      /\ d.applied = c.applied /\ d.pc = "next"
    BY <1>0 DEF TypedCall, Call
<1>3. RollbackSource(d) = RollbackSource(c) /\ k \in RollbackSource(c) /\ k \notin c.restored
    BY <1>1, <1>2, SameSource DEF TypedCall, Placed
<1>4. Spoiled(d) /\ d.pc = "next"
    BY <1>2, <1>3 DEF Spoiled
<1> QED BY <1>4 DEF d

\* A write that fails leaves the claims true: nothing is claimed of its name.
LEMMA ClaimFails ==
    ASSUME NEW st, NEW c, TypedCall(c), AtWrite(c), c.pc # "done", Claim(st, c),
           NEW d, FailsTo(c, d)
    PROVE  Claim(st, d) /\ ~InFlight(d)
<1>1. ASSUME c.phase = "forward", NEW outcome, d = Refused(c, outcome)
      PROVE  Claim(st, d) /\ ~InFlight(d)
    BY <1>1, RefusedFields, RefusedDoubts, DoubtClaims DEF TypedCall, InFlight
<1>2. ASSUME c.phase = "forward", d = RollingBack(c)
      PROVE  Claim(st, d) /\ ~InFlight(d)
    <2>1. d.phase = "rollback" /\ d.restored = {} /\ d.pc = "next"
        BY <1>2, RollingBackFields DEF TypedCall, Placed
    <2> QED BY <2>1 DEF Claim, InFlight
<1>3. ASSUME c.phase = "rollback", d = Dropped(c)
      PROVE  Claim(st, d) /\ ~InFlight(d)
    <2>1. Spoiled(d) /\ d.pc = "next"
        BY <1>3, DroppedSpoils DEF AtWrite
    <2> QED BY <2>1 DEF Claim, Spoiled, InFlight
<1> QED BY <1>1, <1>2, <1>3 DEF FailsTo

\* So does one that is left unverified.
LEMMA ClaimCarriesOn ==
    ASSUME NEW st, NEW c, TypedCall(c), c.phase = "forward", Claim(st, c)
    PROVE  Claim(st, CarriedOn(c)) /\ ~InFlight(CarriedOn(c))
<1> DEFINE d == CarriedOn(c)
<1>1. /\ d.phase = c.phase /\ d.applied = c.applied /\ d.failed = c.failed /\ d.pc = "next"
      /\ d.unconfirmed = c.unconfirmed \cup {Current(c).id}
    BY DEF CarriedOn, TypedCall, Call
<1> HIDE DEF d
<1>2. Claim(st, d) /\ ~InFlight(d)
    BY <1>1, CarriedDoubts, DoubtClaims DEF InFlight
<1> QED BY <1>2 DEF d

\* A confirmed write is the last of its name, and the board holds it.
LEMMA ClaimRecords ==
    ASSUME NEW st, NEW c, TypedCall(c), InFlight(c), c.phase = "forward", Claim(st, c),
           Name(c) \in Answered, st[Name(c)] = Current(c).value
    PROVE  Claim(st, Recorded(c)) /\ ~InFlight(Recorded(c))
<1> DEFINE done == [id |-> Current(c).id, value |-> Current(c).value, previous |-> c.known]
           d == Recorded(c)
           n == Len(c.applied)
<1>0. d = [c EXCEPT !.pc = "next", !.todo = Tail(@), !.applied = Append(@, done)]
    BY DEF Recorded
<1>1. c.applied \in Seq(Applied) /\ n \in Nat /\ DOMAIN c.applied = 1..n
    BY LenProperties DEF TypedCall, Call
<1>2. done.id = Current(c).id /\ done.value = Current(c).value
    OBVIOUS
<1>2a. OnWire(done.id) = Name(c)
    BY <1>2 DEF Name
<1> HIDE DEF d, done
<1>3. d.applied = Append(c.applied, done) /\ d.phase = c.phase /\ d.pc = "next"
      /\ d.unconfirmed = c.unconfirmed /\ d.failed = c.failed
    BY <1>0 DEF TypedCall, Call
<1>4. /\ DOMAIN d.applied = 1..(n + 1) /\ d.applied[n + 1] = done
      /\ \A k \in 1..n : d.applied[k] = c.applied[k]
    BY <1>1, <1>3
<1>5. Doubtful(d) = Doubtful(c)
    BY <1>3 DEF Doubtful
<1> HIDE DEF n
<1>6. ASSUME NEW i \in LastOfEach(d)
      PROVE  Stands(st, d, OnWire(d.applied[i].id), d.applied[i].value)
    <2>1. i \in 1..(n + 1)
        BY <1>4 DEF LastOfEach, Vouched
    <2>2. CASE i = n + 1
        BY <1>2, <1>2a, <1>4, <2>2 DEF Stands
    <2>3. CASE i # n + 1
        <3>1. i \in 1..n /\ n + 1 \in DOMAIN d.applied /\ ~(n + 1 <= i)
            BY <1>1, <1>4, <2>1, <2>3
        <3>2. ~Alike(d, i, n + 1)
            BY <3>1 DEF LastOfEach
        <3>3. OnWire(c.applied[i].id) # Name(c)
            BY <1>2a, <1>4, <3>1, <3>2 DEF Alike
        <3>4. i \in LastOfEach(c)
            BY <1>1, <1>4, <1>5, <3>1 DEF LastOfEach, Vouched, Alike
        <3>5. Stands(st, c, OnWire(c.applied[i].id), c.applied[i].value)
            BY <3>4 DEF Claim
        <3> QED BY <1>4, <3>1, <3>3, <3>5 DEF Stands
    <2> QED BY <2>2, <2>3
<1>7. Claim(st, d) /\ ~InFlight(d)
    BY <1>3, <1>6 DEF Claim, InFlight
<1> QED BY <1>7 DEF d

\* A restored write is earlier than all restored before it.
LEMMA ClaimRestores ==
    ASSUME NEW st, NEW c, TypedCall(c), InFlight(c), c.phase = "rollback", Claim(st, c),
           Name(c) \in Answered, st[Name(c)] = Current(c).value
    PROVE  Claim(st, Restored(c)) /\ ~InFlight(Restored(c))
<1> DEFINE k == Latest(c.undo)
           d == Restored(c)
<1>1. k \in c.undo /\ \A j \in c.undo : j <= k
    BY LatestUndo, InFlightAtWrite DEF AtWrite
<1>0. d = [c EXCEPT !.pc = "next", !.restored = @ \cup {k}, !.undo = @ \ {k}]
    BY DEF Restored
<1>2. Name(c) = OnWire(c.applied[k].id) /\ Current(c).value = c.applied[k].previous
    BY DEF Name, Current
<1> HIDE DEF k, d
<1>3. d.undo = c.undo \ {k} /\ d.restored = c.restored \cup {k} /\ d.phase = c.phase
      /\ d.applied = c.applied /\ d.pc = "next" /\ d.unconfirmed = c.unconfirmed
      /\ d.failed = c.failed
    BY <1>0 DEF TypedCall, Call
<1>4. RollbackSource(d) = RollbackSource(c) /\ Doubtful(d) = Doubtful(c)
    BY <1>3, SameSource DEF Doubtful
<1>5. Spoiled(d) = Spoiled(c)
    BY <1>1, <1>3, <1>4 DEF Spoiled
<1>6. ASSUME ~Spoiled(d), NEW i \in d.restored, OnWire(d.applied[i].id) \notin Doubtful(d),
             \A j \in d.restored : Alike(d, i, j) => i <= j
      PROVE  Stands(st, d, OnWire(d.applied[i].id), d.applied[i].previous)
    <2>1. CASE i = k
        BY <1>2, <1>3, <2>1 DEF Stands
    <2>2. CASE i # k
        <3>1. i \in c.restored /\ k < i
            BY <1>1, <1>3, <2>2 DEF TypedCall, Placed
        <3>2. k \in Nat /\ i \in Nat
            BY <1>1, <3>1, SourceIsTyped DEF TypedCall, Placed
        <3>3. ~Alike(d, i, k)
            BY <1>3, <1>6, <3>1, <3>2
        <3>4. OnWire(c.applied[i].id) # Name(c)
            BY <1>2, <1>3, <3>3 DEF Alike
        <3>5. \A j \in c.restored : Alike(c, i, j) => i <= j
            BY <1>3, <1>6 DEF Alike
        <3>6. Stands(st, c, OnWire(c.applied[i].id), c.applied[i].previous)
            BY <1>3, <1>4, <1>5, <1>6, <3>1, <3>5 DEF Claim
        <3> QED BY <1>3, <3>4, <3>6 DEF Stands
    <2> QED BY <2>1, <2>2
<1>7. Claim(st, d) /\ ~InFlight(d)
    BY <1>3, <1>6 DEF Claim, InFlight
<1> QED BY <1>7 DEF d

\* A frame may change what nothing is claimed of.
LEMMA ClaimStore ==
    ASSUME NEW st, NEW st2, NEW c, TypedCall(c), Claim(st, c), NEW x, NEW vd, Exempt(c, vd, x),
           \A p \in Answered : p # x => st2[p] = st[p]
    PROVE  Claim(st2, c)
<1>1. CASE InFlight(c)
    <2>1. \A id, v : Stands(st, c, id, v) => Stands(st2, c, id, v)
        BY <1>1 DEF Stands, Exempt
    <2> QED BY <2>1 DEF Claim
<1>2. CASE ~InFlight(c) /\ c.applied = <<>>
    <2>1. LastOfEach(c) = {} /\ c.restored = {}
        BY <1>2 DEF LastOfEach, Vouched, TypedCall, Placed, RollbackSource
    <2> QED BY <2>1 DEF Claim
<1>3. CASE ~InFlight(c) /\ x \in Doubtful(c)
    <2>1. \A id, v : id # x /\ Stands(st, c, id, v) => Stands(st2, c, id, v)
        BY DEF Stands
    <2>2. \A i \in LastOfEach(c) : OnWire(c.applied[i].id) # x
        BY <1>3 DEF LastOfEach, Vouched
    <2> QED BY <1>3, <2>1, <2>2 DEF Claim
<1>4. CASE Spoiled(c)
    BY <1>4 DEF Claim, Spoiled
<1> QED BY <1>1, <1>2, <1>3, <1>4 DEF Exempt

------------------------------------------------------------------------------
(* The steps of the writer.                                                 *)

\* What may change at a name goes on to be so when its write fails.
LEMMA ExemptFails ==
    ASSUME NEW c, TypedCall(c), AtWrite(c), c.pc # "done", NEW d, FailsTo(c, d),
           NEW vd, NEW vd2, NEW id, Exempt(c, vd, id)
    PROVE  Exempt(d, vd2, id)
<1>0. c \in Call
    BY DEF TypedCall
<1>1. ASSUME c.phase = "forward", d.applied = c.applied, d.unconfirmed = c.unconfirmed,
             d.failed = Current(c).id, ~InFlight(d)
      PROVE  Exempt(d, vd2, id)
    BY <1>1, RefusedDoubts DEF Exempt, Spoiled
<1>2. ASSUME c.phase = "forward", NEW outcome, d = Refused(c, outcome)
      PROVE  Exempt(d, vd2, id)
    BY <1>0, <1>1, <1>2, RefusedFields DEF InFlight
<1>3. ASSUME c.phase = "forward", d = RollingBack(c)
      PROVE  Exempt(d, vd2, id)
    BY <1>0, <1>1, <1>3, RollingBackFields DEF InFlight
<1>4. ASSUME c.phase = "rollback", d = Dropped(c)
      PROVE  Exempt(d, vd2, id)
    BY <1>4, DroppedSpoils DEF Exempt, InFlight, AtWrite
<1> QED BY <1>2, <1>3, <1>4 DEF FailsTo

\* A call that has no write going on waits for nothing.
LEMMA OverKeepsBoard ==
    ASSUME NEW lk, NEW st, NEW u, NEW dn, NEW c, NEW vd, NEW d, NEW vd2,
           Wired(lk, st, u, dn, c, vd), ~Waiting(c, vd), ~InFlight(d),
           \A id : lk = "down" /\ Exempt(c, vd, id) => Exempt(d, vd2, id)
    PROVE  /\ Waits(lk, d, vd2, None) /\ Wired(lk, st, u, dn, d, vd2) /\ Vouches(st, d, vd2)
<1>1. ~Waiting(d, vd2)
    BY DEF Waiting, InFlight
<1>2. d.pc # "sending"
    BY DEF InFlight
<1> QED BY <1>1, <1>2 DEF Waits, Wired, Vouches

\* The state after a step of the only writer.
LEMMA StepsKeep ==
    ASSUME WholeInv, OneWriter, TypeInv', NEW w \in Writer, NEW d, Steps(w, d),
           UNCHANGED store,
           Waits(link', d, verdict'[w], waiter'[w]),
           Wired(link', store, up', down', d, verdict'[w]),
           Vouches(store, d, verdict'[w]), Claim(store, d)
    PROVE  WholeInv'
<1>1. call'[w] = d
    BY DEF WholeInv, TypeInv, TypeOK, Steps
<1>2. Settled(store')
    BY DEF WholeInv
<1>3. BoardInv(w)'
    BY <1>1 DEF BoardInv
<1>4. \A v \in Writer : BoardInv(v)'
    BY <1>3 DEF OneWriter
<1> QED BY <1>2, <1>4 DEF WholeInv

\* A write that is over leaves the wire as it is.
LEMMA OverKeepsWhole ==
    ASSUME WholeInv, OneWriter, TypeInv', NEW w \in Writer, NEW d, Steps(w, d),
           UNCHANGED <<link, store, up, down>>, waiter'[w] = None,
           ~Waiting(call[w], verdict[w]), ~InFlight(d), Claim(store, d),
           \A id : link = "down" /\ Exempt(call[w], verdict[w], id) => Exempt(d, verdict'[w], id)
    PROVE  WholeInv'
<1>1. Wired(link, store, up, down, call[w], verdict[w])
    BY DEF WholeInv, BoardInv
<1>2. /\ Waits(link, d, verdict'[w], None) /\ Wired(link, store, up, down, d, verdict'[w])
      /\ Vouches(store, d, verdict'[w])
    BY <1>1, OverKeepsBoard
<1> QED BY <1>2, StepsKeep

\* A call with no write in progress has no waiter.
LEMMA NotInFlight ==
    ASSUME WholeInv, NEW w \in Writer, ~InFlight(call[w])
    PROVE  waiter[w] = None /\ ~Waiting(call[w], verdict[w])
BY DEF WholeInv, BoardInv, Waits, Waiting, InFlight

\* A call that starts claims nothing.
LEMMA StartKeepsBoard ==
    ASSUME WholeInv, OneWriter, TypeInv', NEW w \in Writer, NEW kind, NEW writes,
           Start(w, kind, writes)
    PROVE  WholeInv'
<1> DEFINE d == [IdleCall EXCEPT !.pc = "next", !.kind = kind, !.todo = writes]
<1>1. Steps(w, d)
    BY DEF Start, Steps
<1>2. d.pc = "next" /\ d.applied = <<>> /\ d.phase = "forward" /\ DOMAIN d.applied = {}
    BY DEF IdleCall
<1> HIDE DEF d
<1>3. ~InFlight(d) /\ Claim(store, d) /\ \A vd, id : Exempt(d, vd, id)
    BY <1>2 DEF InFlight, Claim, LastOfEach, Vouched, Exempt
<1>4. ~InFlight(call[w]) /\ UNCHANGED <<link, store, up, down, waiter>>
    BY DEF Start, Startable, InFlight, gate, wire
<1>5. waiter[w] = None /\ ~Waiting(call[w], verdict[w])
    BY <1>4, NotInFlight
<1> QED BY <1>1, <1>3, <1>4, <1>5, OverKeepsWhole

\* The loop head sends only on a live link, when every frame is tame.
LEMMA ContinueKeepsBoard ==
    ASSUME WholeInv, OneWriter, TypeInv', NEW w \in Writer, Continue(w)
    PROVE  WholeInv'
<1> DEFINE c == call[w]
<1>0. TypeInv /\ TypedCall(c) /\ Claim(store, c)
    BY Typed DEF WholeInv, BoardInv
<1>1. c.pc = "next" /\ ~InFlight(c) /\ UNCHANGED <<link, store, up, down>>
    BY DEF Continue, InFlight, gate, wire
<1>2. waiter[w] = None /\ ~Waiting(c, verdict[w])
    BY <1>1, NotInFlight
<1>3. ASSUME UNCHANGED <<waiter, verdict>>, c.undo = {},
             NEW outcome, Steps(w, Finished(c, outcome))
      PROVE  WholeInv'
    <2> DEFINE d == Finished(c, outcome)
    <2>1. SameCore(c, d) /\ d.pc = "done"
        BY <1>0, <1>3 DEF SameCore, Finished, TypedCall, Call
    <2> HIDE DEF d
    <2>2. ~InFlight(d) /\ Claim(store, d)
        BY <1>0, <1>1, <2>1, ClaimKeeps DEF InFlight
    <2>3. \A id : Exempt(c, verdict[w], id) => Exempt(d, verdict'[w], id)
        BY <1>1, <2>1, <2>2, CoreClaims DEF Exempt, SameCore
    <2>4. Steps(w, d)
        BY <1>3 DEF d
    <2> QED BY <1>1, <1>2, <1>3, <2>2, <2>3, <2>4, OverKeepsWhole
<1>4. ASSUME UNCHANGED <<waiter, verdict>>, Steps(w, Skipped(c))
      PROVE  WholeInv'
    <2> DEFINE d == Skipped(c)
    <2>1. SameCore(c, d) /\ d.pc = "next"
        BY <1>0, <1>1 DEF SameCore, Skipped, TypedCall, Call
    <2> HIDE DEF d
    <2>2. ~InFlight(d) /\ Claim(store, d)
        BY <1>0, <1>1, <2>1, ClaimKeeps DEF InFlight
    <2>3. \A id : Exempt(c, verdict[w], id) => Exempt(d, verdict'[w], id)
        BY <1>1, <2>1, <2>2, CoreClaims DEF Exempt, SameCore
    <2>4. Steps(w, d)
        BY <1>4 DEF d
    <2> QED BY <1>1, <1>2, <1>4, <2>2, <2>3, <2>4, OverKeepsWhole
<1>5. ASSUME GateOpen, NEW known, Steps(w, Sending(c, known)),
             waiter' = [waiter EXCEPT ![w] = [id |-> OnWire(Current(c).id),
                                              value |-> Current(c).value]],
             verdict' = [verdict EXCEPT ![w] = "none"]
      PROVE  WholeInv'
    <2> DEFINE d == Sending(c, known)
    <2>1. SameCore(c, d) /\ d.pc = "sending" /\ d.todo = c.todo
        BY <1>0 DEF SameCore, Sending, TypedCall, Call
    <2> HIDE DEF d
    <2>2. Target(d) = Target(c) /\ Claim(store, d)
        BY <1>0, <1>1, <2>1, ClaimKeeps DEF Target, Name, Current, SameCore
    <2>3. verdict'[w] = "none" /\ waiter'[w] = Target(c) /\ link = "up"
        BY <1>0, <1>5 DEF TypeInv, TypeOK, Target, Name, GateOpen
    <2>4. Wired(link, store, up, down, d, "none")
        BY <1>2, <2>1, <2>3 DEF WholeInv, BoardInv, Wired, Waiting
    <2>5. Waits(link, d, "none", Target(c)) /\ Vouches(store, d, "none")
        BY <2>1, <2>2, <2>3 DEF Waits, Vouches, InFlight
    <2>6. Steps(w, d)
        BY <1>5 DEF d
    <2> QED BY <1>1, <2>2, <2>3, <2>4, <2>5, <2>6, StepsKeep
<1>6. ASSUME UNCHANGED <<waiter, verdict>>, AtWrite(c), NEW d, Steps(w, d), FailsTo(c, d)
      PROVE  WholeInv'
    <2>1. Claim(store, d) /\ ~InFlight(d)
        BY <1>0, <1>1, <1>6, ClaimFails
    <2>2. \A id : Exempt(c, verdict[w], id) => Exempt(d, verdict'[w], id)
        BY <1>0, <1>1, <1>6, ExemptFails
    <2> QED BY <1>1, <1>2, <1>6, <2>1, <2>2, OverKeepsWhole
<1> QED BY <1>0, <1>3, <1>4, <1>5, <1>6, ContinueForms

\* A frame that leaves is the last on its way, and the only one that may change
\* anything; one that does not leaves the board as it is.
LEMMA SentKeepsBoard ==
    ASSUME WholeInv, OneWriter, TypeInv', NEW w \in Writer, SendReaches(w) \/ SendIsLost(w)
    PROVE  WholeInv'
<1> DEFINE c == call[w]
           d == Verifying(c)
           f == Target(c)
<1>0. TypeInv /\ TypedCall(c) /\ BoardInv(w)
    BY Typed DEF WholeInv
<1>1. /\ c.pc = "sending" /\ call' = [call EXCEPT ![w].pc = "verifying"]
      /\ UNCHANGED <<link, store, down, waiter, verdict>>
      /\ (link = "up" /\ up' = Append(up, f)) \/ up' = up
    BY DEF SendReaches, SendIsLost, Sent, gate, Frame, Target, Name
<1>2. Steps(w, d)
    BY <1>0, <1>1 DEF Steps, Verifying, TypeInv, TypeOK
<1>3. SameCore(c, d) /\ d.pc = "verifying" /\ d.todo = c.todo
    BY <1>0 DEF SameCore, Verifying, TypedCall, Call
<1> HIDE DEF d
<1>4. Target(d) = f /\ Name(d) = Name(c) /\ Current(d) = Current(c)
    BY <1>3 DEF Target, Name, Current, SameCore
<1>5. Claim(store, d)
    BY <1>0, <1>1, <1>3, <1>4, ClaimKeeps DEF InFlight, BoardInv
<1>6. Waits(link, d, verdict[w], waiter[w]) /\ Vouches(store, d, verdict[w])
    BY <1>0, <1>1, <1>3, <1>4 DEF BoardInv, Waits, Vouches, InFlight
<1>7. /\ \A k \in DOMAIN down : down[k].id \in Answered
      /\ link = "down" => down = <<>> /\ \A i \in DOMAIN up : Tame(store, up[i])
                                            \/ Exempt(c, verdict[w], up[i].id)
      /\ link = "up" => AllTame(store, up, down)
    BY <1>0, <1>1 DEF BoardInv, Wired, Waiting
<1>8. \A id : Exempt(c, verdict[w], id) => Exempt(d, verdict[w], id)
    BY <1>1, <1>3, <1>4 DEF Exempt, InFlight
<1>9. CASE up' = up
    <2>1. AllTame(store, up, down) => Before(store, up, down, f)
        BY DEF AllTame, Before
    <2>2. Wired(link, store, up, down, d, verdict[w])
        BY <1>4, <1>7, <1>8, <2>1 DEF Wired
    <2> QED BY <1>1, <1>2, <1>5, <1>6, <1>9, <2>2, StepsKeep
<1>10. CASE link = "up" /\ up' = Append(up, f)
    <2>0. up \in Seq(Write) /\ verdict[w] \in {"none", "confirmed", "rejected"}
        BY <1>0 DEF TypeInv, TypeOK
    <2> HIDE DEF f
    <2>1. /\ Len(up) \in Nat /\ DOMAIN up = 1..Len(up)
          /\ DOMAIN up' = 1..(Len(up) + 1) /\ Len(up') = Len(up) + 1
          /\ up'[Len(up) + 1] = f /\ \A i \in 1..Len(up) : up'[i] = up[i]
        BY <1>10, <2>0
    <2>2. \A i \in DOMAIN up' : Tame(store, up'[i]) \/ (i = Len(up') /\ up'[i] = f)
        <3> SUFFICES ASSUME NEW i \in DOMAIN up'
                     PROVE  Tame(store, up'[i]) \/ (i = Len(up') /\ up'[i] = f)
            OBVIOUS
        <3>1. i \in 1..Len(up) \/ i = Len(up) + 1
            BY <2>1
        <3> QED BY <1>7, <1>10, <2>1, <3>1 DEF AllTame
    <2>3. Before(store, up', down, f)
        BY <1>7, <1>10, <2>2 DEF Before, AllTame
    <2>4. verdict[w] # "none" => Tame(store, f)
        <3>1. verdict[w] # "rejected"
            BY <1>0, <1>1, <1>10 DEF BoardInv, Waits
        <3>2. verdict[w] = "confirmed" => Name(c) \in Answered /\ store[Name(c)] = Current(c).value
            BY <1>0, <1>1 DEF BoardInv, Vouches, InFlight
        <3> QED BY <2>0, <3>1, <3>2 DEF Tame, f, Target
    <2>5. verdict[w] # "none" => AllTame(store, up', down)
        BY <1>7, <1>10, <2>2, <2>4 DEF AllTame
    <2>6. Wired(link, store, up', down, d, verdict[w])
        BY <1>3, <1>4, <1>7, <1>10, <2>3, <2>5 DEF Wired, Waiting
    <2> QED BY <1>1, <1>2, <1>5, <1>6, <2>6, StepsKeep
<1> QED BY <1>1, <1>9, <1>10

\* A send that rejects has put no frame on the wire.
LEMMA FailureKeepsBoard ==
    ASSUME WholeInv, OneWriter, TypeInv', NEW w \in Writer, SendFails(w)
    PROVE  WholeInv'
<1> DEFINE c == call[w]
<1>0. TypeInv /\ TypedCall(c) /\ BoardInv(w)
    BY Typed DEF WholeInv
<1>1. /\ c.pc = "sending" /\ Failed(w) /\ UNCHANGED <<link, store, up, down, verdict>>
      /\ waiter'[w] = None
    BY <1>0 DEF SendFails, Cancelled, gate, wire, TypeInv, TypeOK
<1>2. AtWrite(c) /\ ~Waiting(c, verdict[w])
    BY <1>0, <1>1, InFlightAtWrite DEF InFlight, Waiting
<1>3. PICK d : Steps(w, d) /\ FailsTo(c, d)
    BY <1>0, <1>1, FailedForms
<1>4. Claim(store, d) /\ ~InFlight(d)
    BY <1>0, <1>1, <1>2, <1>3, ClaimFails DEF BoardInv
<1>5. \A id : Exempt(c, verdict[w], id) => Exempt(d, verdict'[w], id)
    BY <1>0, <1>1, <1>2, <1>3, ExemptFails
<1> QED BY <1>1, <1>2, <1>3, <1>4, <1>5, OverKeepsWhole

\* A confirmed write is recorded as the board has it; another becomes doubtful.
LEMMA VerifiedKeepsBoard ==
    ASSUME WholeInv, OneWriter, TypeInv', NEW w \in Writer, Confirm(w) \/ Unverified(w)
    PROVE  WholeInv'
<1> DEFINE c == call[w]
<1>0. TypeInv /\ TypedCall(c) /\ BoardInv(w)
    BY Typed DEF WholeInv
<1>1. /\ c.pc = "verifying" /\ UNCHANGED <<link, store, up, down, waiter>>
      /\ verdict[w] # "none"
    BY DEF Confirm, Unverified, gate, wire
<1>2. InFlight(c) /\ AtWrite(c) /\ ~Waiting(c, verdict[w]) /\ waiter[w] = None
    BY <1>0, <1>1, InFlightAtWrite DEF InFlight, Waiting, BoardInv, Waits
<1>3. CASE Confirm(w)
    <2>1. Name(c) \in Answered /\ store[Name(c)] = Current(c).value
        BY <1>0, <1>2, <1>3 DEF Confirm, BoardInv, Vouches
    <2>2. \A id : ~Exempt(c, verdict[w], id)
        BY <1>2, <1>3 DEF Confirm, Exempt
    <2>3. ASSUME c.phase = "forward", Steps(w, Recorded(c)) PROVE WholeInv'
        <3>1. Claim(store, Recorded(c)) /\ ~InFlight(Recorded(c))
            BY <1>0, <1>2, <2>1, <2>3, ClaimRecords DEF BoardInv
        <3> QED BY <1>1, <1>2, <2>2, <2>3, <3>1, OverKeepsWhole
    <2>4. ASSUME c.phase = "rollback", Steps(w, Restored(c)) PROVE WholeInv'
        <3>1. Claim(store, Restored(c)) /\ ~InFlight(Restored(c))
            BY <1>0, <1>2, <2>1, <2>4, ClaimRestores DEF BoardInv
        <3> QED BY <1>1, <1>2, <2>2, <2>4, <3>1, OverKeepsWhole
    <2> QED BY <1>0, <1>3, <2>3, <2>4, ConfirmForms
<1>4. CASE Unverified(w)
    <2>1. ASSUME c.phase = "forward", GateOpen, Steps(w, CarriedOn(c)) PROVE WholeInv'
        <3>1. Claim(store, CarriedOn(c)) /\ ~InFlight(CarriedOn(c)) /\ link = "up"
            BY <1>0, <2>1, ClaimCarriesOn DEF BoardInv, GateOpen
        <3> QED BY <1>1, <1>2, <2>1, <3>1, OverKeepsWhole
    <2>2. ASSUME NEW d, Steps(w, d), FailsTo(c, d) PROVE WholeInv'
        <3>1. Claim(store, d) /\ ~InFlight(d)
            BY <1>0, <1>1, <1>2, <2>2, ClaimFails DEF BoardInv
        <3>2. \A id : Exempt(c, verdict[w], id) => Exempt(d, verdict'[w], id)
            BY <1>0, <1>1, <1>2, <2>2, ExemptFails
        <3> QED BY <1>1, <1>2, <2>2, <3>1, <3>2, OverKeepsWhole
    <2> QED BY <1>0, <1>4, <2>1, <2>2, UnverifiedForms
<1> QED BY <1>3, <1>4

------------------------------------------------------------------------------
(* The steps of the waiters, the link, the wire and the board.              *)

\* A step that touches no call.
LEMMA AroundKeeps ==
    ASSUME WholeInv, TypeInv', UNCHANGED call, Settled(store'),
           \A w \in Writer :
              /\ Waits(link', call[w], verdict'[w], waiter'[w])
              /\ Wired(link', store', up', down', call[w], verdict'[w])
              /\ Vouches(store', call[w], verdict'[w])
              /\ Claim(store', call[w])
    PROVE  WholeInv'
BY DEF WholeInv, BoardInv

\* A step of the gate, or none.
LEMMA OutsideKeepsBoard ==
    ASSUME WholeInv, TypeInv', UNCHANGED <<link, wire, call, waiter, verdict>>
    PROVE  WholeInv'
<1>1. \A w \in Writer :
          /\ Waits(link, call[w], verdict[w], waiter[w])
          /\ Wired(link, store, up, down, call[w], verdict[w])
          /\ Vouches(store, call[w], verdict[w])
          /\ Claim(store, call[w])
    BY DEF WholeInv, BoardInv
<1> QED BY <1>1, AroundKeeps DEF WholeInv, wire

\* The frames left once the first has gone.
LEMMA TailFrames ==
    ASSUME NEW s \in Seq(Write), s # <<>>
    PROVE  /\ Len(s) \in Nat /\ Tail(s) \in Seq(Write) /\ 1 \in DOMAIN s /\ Head(s) = s[1]
           /\ \A k \in DOMAIN Tail(s) :
                 k \in Nat /\ k + 1 \in DOMAIN s /\ Tail(s)[k] = s[k + 1]
                 /\ (k = Len(Tail(s)) <=> k + 1 = Len(s))
           /\ 1 = Len(s) => Tail(s) = <<>>
OBVIOUS

\* An echo that goes, delivered or not.
LEMMA EchoGoes ==
    ASSUME NEW st, NEW u, NEW dn \in Seq(Write), dn # <<>>, NEW f,
           \A k \in DOMAIN dn : dn[k].id \in Answered
    PROVE  /\ \A k \in DOMAIN Tail(dn) : Tail(dn)[k].id \in Answered
           /\ AllTame(st, u, dn) => AllTame(st, u, Tail(dn))
           /\ Before(st, u, dn, f) => Before(st, u, Tail(dn), f)
           /\ After(st, u, dn, f) => After(st, u, Tail(dn), f)
<1>1. \A k \in DOMAIN Tail(dn) :
          k + 1 \in DOMAIN dn /\ Tail(dn)[k] = dn[k + 1]
          /\ (k = Len(Tail(dn)) <=> k + 1 = Len(dn))
    BY TailFrames
<1>2. After(st, u, dn, f) => After(st, u, Tail(dn), f)
    <2> SUFFICES ASSUME After(st, u, dn, f) PROVE After(st, u, Tail(dn), f)
        OBVIOUS
    <2>1. PICK s \in Value : Settles[f.id][s] = s /\
             \A k \in DOMAIN dn : dn[k].id = f.id =>
                dn[k].value = IF k = Len(dn) THEN st[f.id] ELSE s
        BY DEF After
    <2>2. \A k \in DOMAIN Tail(dn) : Tail(dn)[k].id = f.id =>
                Tail(dn)[k].value = IF k = Len(Tail(dn)) THEN st[f.id] ELSE s
        BY <1>1, <2>1
    <2>3. \A k \in DOMAIN Tail(dn) : Tail(dn)[k].id # f.id => Tame(st, Tail(dn)[k])
        BY <1>1 DEF After
    <2> QED BY <2>1, <2>2, <2>3 DEF After
<1> QED BY <1>1, <1>2 DEF AllTame, Before

\* Once the echo of the write in progress has come, nothing on the wire can
\* change what the board holds, or tell anything else.
LEMMA ConfirmedTames ==
    ASSUME NEW st, NEW u, NEW dn \in Seq(Write), dn # <<>>, NEW f, Head(dn) = f,
           \A k \in DOMAIN dn : dn[k].id \in Answered,
           Before(st, u, dn, f) \/ After(st, u, dn, f)
    PROVE  AllTame(st, u, Tail(dn)) /\ f.id \in Answered /\ st[f.id] = f.value
<1>1. /\ 1 \in DOMAIN dn /\ dn[1] = f /\ f.id \in Answered
      /\ \A k \in DOMAIN Tail(dn) :
            k \in Nat /\ k + 1 \in DOMAIN dn /\ Tail(dn)[k] = dn[k + 1]
            /\ (k = Len(Tail(dn)) <=> k + 1 = Len(dn))
      /\ 1 = Len(dn) => Tail(dn) = <<>>
    BY TailFrames
<1>2. CASE Before(st, u, dn, f)
    <2>1. Tame(st, f) /\ st[f.id] = f.value
        BY <1>1, <1>2 DEF Before, Tame
    <2> QED BY <1>1, <1>2, <2>1 DEF Before, AllTame
<1>3. CASE After(st, u, dn, f)
    <2>1. PICK s \in Value : Settles[f.id][s] = s /\
             \A k \in DOMAIN dn : dn[k].id = f.id =>
                dn[k].value = IF k = Len(dn) THEN st[f.id] ELSE s
        BY <1>3 DEF After
    <2>2. u = <<>> /\ st[f.id] = Settles[f.id][f.value]
        BY <1>3 DEF After
    <2>3. CASE 1 = Len(dn)
        BY <1>1, <2>1, <2>2, <2>3 DEF AllTame
    <2>4. CASE 1 # Len(dn)
        <3>1. f.value = s /\ st[f.id] = s
            BY <1>1, <2>1, <2>2, <2>4
        <3>2. \A k \in DOMAIN Tail(dn) : Tame(st, Tail(dn)[k])
            <4> SUFFICES ASSUME NEW k \in DOMAIN Tail(dn) PROVE Tame(st, Tail(dn)[k])
                OBVIOUS
            <4>1. CASE Tail(dn)[k].id # f.id
                BY <1>1, <1>3, <4>1 DEF After
            <4>2. CASE Tail(dn)[k].id = f.id
                <5>1. dn[k + 1].value = st[f.id]
                    BY <1>1, <2>1, <3>1, <4>2
                <5> QED BY <1>1, <4>2, <5>1 DEF Tame
            <4> QED BY <4>1, <4>2
        <3> QED BY <1>1, <2>2, <3>1, <3>2 DEF AllTame
    <2> QED BY <2>3, <2>4
<1> QED BY <1>2, <1>3

\* A lost echo tells nobody anything.
LEMMA EchoIsLostKeepsBoard ==
    ASSUME WholeInv, TypeInv', EchoIsLost
    PROVE  WholeInv'
<1>1. /\ down \in Seq(Write) /\ down # <<>> /\ down' = Tail(down)
      /\ UNCHANGED <<link, store, up, call, waiter, verdict>>
    BY DEF EchoIsLost, WholeInv, TypeInv, TypeOK, gate
<1>2. ASSUME NEW w \in Writer
      PROVE  /\ Waits(link, call[w], verdict[w], waiter[w])
             /\ Wired(link, store, up, Tail(down), call[w], verdict[w])
             /\ Vouches(store, call[w], verdict[w])
             /\ Claim(store, call[w])
    <2>1. BoardInv(w)
        BY DEF WholeInv
    <2>2. Wired(link, store, up, Tail(down), call[w], verdict[w])
        <3>1. Wired(link, store, up, down, call[w], verdict[w])
            BY <2>1 DEF BoardInv
        <3>2. \A k \in DOMAIN down : down[k].id \in Answered
            BY <3>1 DEF Wired
        <3>3. link # "down"
            BY <1>1, <3>1 DEF Wired
        <3> QED BY <1>1, <3>1, <3>2, <3>3, EchoGoes DEF Wired
    <2> QED BY <2>1, <2>2 DEF BoardInv
<1> QED BY <1>1, <1>2, AroundKeeps DEF WholeInv

\* An echo confirms the write that waits for it, and no other.
LEMMA DeliverKeepsBoard ==
    ASSUME WholeInv, TypeInv', Deliver
    PROVE  WholeInv'
<1> DEFINE f == Head(down)
<1>1. /\ down \in Seq(Write) /\ down # <<>> /\ down' = Tail(down) /\ link = "up"
      /\ UNCHANGED <<link, store, up, call>>
      /\ waiter' = [w \in Writer |-> IF waiter[w] = f THEN None ELSE waiter[w]]
      /\ verdict' = [w \in Writer |-> IF waiter[w] = f THEN "confirmed" ELSE verdict[w]]
    BY DEF Deliver, Settle, Matching, WholeInv, TypeInv, TypeOK, gate
<1> HIDE DEF f
<1>2. ASSUME NEW w \in Writer
      PROVE  /\ Waits(link, call[w], verdict'[w], waiter'[w])
             /\ Wired(link, store, up, Tail(down), call[w], verdict'[w])
             /\ Vouches(store, call[w], verdict'[w])
             /\ Claim(store, call[w])
    <2> DEFINE c == call[w]
               vd == verdict[w]
    <2>1. /\ Waits(link, c, vd, waiter[w]) /\ Wired(link, store, up, down, c, vd)
          /\ Vouches(store, c, vd) /\ Claim(store, c)
        BY DEF WholeInv, BoardInv
    <2> HIDE DEF c, vd
    <2>2. \A k \in DOMAIN down : down[k].id \in Answered
        BY <2>1 DEF Wired
    <2>3. CASE waiter[w] # f
        <3>1. waiter'[w] = waiter[w] /\ verdict'[w] = vd
            BY <1>1, <2>3 DEF vd
        <3>2. Wired(link, store, up, Tail(down), c, vd)
            BY <1>1, <2>1, <2>2, EchoGoes DEF Wired
        <3> QED BY <2>1, <3>1, <3>2 DEF c
    <2>4. CASE waiter[w] = f
        <3>1. waiter'[w] = None /\ verdict'[w] = "confirmed"
            BY <1>1, <2>4
        <3>2. f \in Write /\ f # None
            <4>1. f \in Write
                BY <1>1, HeadTailProperties DEF f
            <4> QED BY <4>1, ParamAssumption
        <3>3. InFlight(c) /\ vd = "none" /\ f = Target(c)
            BY <2>1, <2>4, <3>2 DEF Waits
        <3>4. AllTame(store, up, Tail(down)) /\ f.id \in Answered /\ store[f.id] = f.value
            <4>1. CASE Waiting(c, vd)
                <5>1. Before(store, up, down, f) \/ After(store, up, down, f)
                    BY <1>1, <2>1, <3>3, <4>1 DEF Wired
                <5> QED BY <1>1, <2>2, <5>1, ConfirmedTames DEF f
            <4>2. CASE ~Waiting(c, vd)
                <5>1. AllTame(store, up, down)
                    BY <1>1, <2>1, <4>2 DEF Wired
                <5>2. f.id \in Answered /\ Tame(store, f)
                    BY <1>1, <2>2, <5>1, TailFrames DEF AllTame, f
                <5> QED BY <1>1, <2>2, <5>1, <5>2, EchoGoes DEF Tame
            <4> QED BY <4>1, <4>2
        <3>5. Vouches(store, c, "confirmed")
            BY <3>3, <3>4 DEF Vouches, Target
        <3>6. Wired(link, store, up, Tail(down), c, "confirmed")
            BY <1>1, <2>2, <3>4, EchoGoes DEF Wired, Waiting
        <3>7. Waits(link, c, "confirmed", None)
            BY DEF Waits
        <3> QED BY <2>1, <3>1, <3>5, <3>6, <3>7 DEF c
    <2> QED BY <2>3, <2>4
<1> QED BY <1>1, <1>2, AroundKeeps DEF WholeInv

\* The timer of a write whose frames are gone.
LEMMA TimeoutKeepsBoard ==
    ASSUME WholeInv, ~LateEchoes, TypeInv', NEW v \in Writer, VerifyTimeout(v)
    PROVE  WholeInv'
<1>1. /\ call[v].pc = "verifying" /\ up = <<>> /\ down = <<>> /\ waiter[v] # None
      /\ UNCHANGED <<link, store, up, down, call>>
      /\ waiter' = [w \in Writer |-> IF w = v THEN None ELSE waiter[w]]
      /\ verdict' = [w \in Writer |-> IF w = v THEN "rejected" ELSE verdict[w]]
    BY DEF VerifyTimeout, Settle, gate, wire
<1>2. ASSUME NEW w \in Writer
      PROVE  /\ Waits(link, call[w], verdict'[w], waiter'[w])
             /\ Wired(link, store, up, down, call[w], verdict'[w])
             /\ Vouches(store, call[w], verdict'[w])
             /\ Claim(store, call[w])
    <2>1. BoardInv(w)
        BY DEF WholeInv
    <2>2. CASE w # v
        BY <1>1, <2>1, <2>2 DEF BoardInv
    <2>3. CASE w = v
        <3>1. waiter'[w] = None /\ verdict'[w] = "rejected"
            BY <1>1, <2>3
        <3>2. AllTame(store, up, down)
            BY <1>1 DEF AllTame
        <3>3. Wired(link, store, up, down, call[w], "rejected")
            BY <1>1, <3>2 DEF Wired, Waiting
        <3>4. Waits(link, call[w], "rejected", None) /\ Vouches(store, call[w], "rejected")
            BY <1>1, <2>3 DEF Waits, Vouches
        <3> QED BY <2>1, <3>1, <3>3, <3>4 DEF BoardInv
    <2> QED BY <2>2, <2>3
<1> QED BY <1>1, <1>2, AroundKeeps DEF WholeInv

\* With the link go the echoes; the frame of the write in progress may still
\* arrive, and its name is not claimed from then on.
LEMMA LinkDropKeepsBoard ==
    ASSUME WholeInv, TypeInv', LinkDrop
    PROVE  WholeInv'
<1>1. /\ link = "up" /\ link' = "down" /\ down' = <<>> /\ UNCHANGED <<store, up, call>>
      /\ waiter' = [w \in Writer |-> IF waiter[w] # None THEN None ELSE waiter[w]]
      /\ verdict' = [w \in Writer |-> IF waiter[w] # None THEN "rejected" ELSE verdict[w]]
    BY DEF LinkDrop, RejectAll, Settle
<1>2. ASSUME NEW w \in Writer
      PROVE  /\ Waits("down", call[w], verdict'[w], waiter'[w])
             /\ Wired("down", store, up, <<>>, call[w], verdict'[w])
             /\ Vouches(store, call[w], verdict'[w])
             /\ Claim(store, call[w])
    <2> DEFINE c == call[w]
               vd == verdict[w]
    <2>1. /\ Waits(link, c, vd, waiter[w]) /\ Wired(link, store, up, down, c, vd)
          /\ Vouches(store, c, vd) /\ Claim(store, c)
        BY DEF WholeInv, BoardInv
    <2> HIDE DEF c, vd
    <2>2. waiter'[w] = None
        BY <1>1
    <2>3. (verdict'[w] = vd /\ waiter[w] = None) \/ verdict'[w] = "rejected"
        BY <1>1 DEF vd
    <2>4. Waits("down", c, verdict'[w], None)
        BY <2>1, <2>3, ParamAssumption DEF Waits, Target
    <2>5. Vouches(store, c, verdict'[w])
        BY <2>1, <2>3 DEF Vouches
    <2>6. Wired("down", store, up, <<>>, c, verdict'[w])
        <3>1. CASE Waiting(c, vd)
            <4>1. verdict'[w] # "confirmed"
                BY <2>3, <3>1 DEF Waiting
            <4>2. Before(store, up, down, Target(c)) \/ up = <<>>
                BY <1>1, <2>1, <3>1 DEF Wired, After
            <4>3. \A i \in DOMAIN up : Tame(store, up[i]) \/ up[i].id = Name(c)
                BY <4>2 DEF Before, Target
            <4> QED BY <3>1, <4>1, <4>3 DEF Wired, Waiting, Exempt, InFlight
        <3>2. CASE ~Waiting(c, vd)
            BY <1>1, <2>1, <3>2 DEF Wired, AllTame
        <3> QED BY <3>1, <3>2
    <2> QED BY <2>1, <2>2, <2>4, <2>5, <2>6 DEF c
<1> QED BY <1>1, <1>2, AroundKeeps DEF WholeInv

\* A link returns with nothing on the wire.
LEMMA ReconnectKeepsBoard ==
    ASSUME WholeInv, TypeInv', Reconnect
    PROVE  WholeInv'
<1>1. /\ link = "down" /\ link' = "up" /\ up = <<>>
      /\ \A w \in Writer : call[w].pc # "sending"
      /\ UNCHANGED <<store, up, down, call, waiter, verdict>>
    BY DEF Reconnect, wire
<1>2. ASSUME NEW w \in Writer
      PROVE  /\ Waits("up", call[w], verdict[w], waiter[w])
             /\ Wired("up", store, up, down, call[w], verdict[w])
             /\ Vouches(store, call[w], verdict[w])
             /\ Claim(store, call[w])
    <2>1. BoardInv(w)
        BY DEF WholeInv
    <2>2. Waits("up", call[w], verdict[w], waiter[w])
        BY <1>1, <2>1 DEF BoardInv, Waits
    <2>3. down = <<>>
        BY <1>1, <2>1 DEF BoardInv, Wired
    <2>4. ~Waiting(call[w], verdict[w])
        <3>1. waiter[w] = None
            BY <1>1, <2>1 DEF BoardInv, Waits
        <3>2. InFlight(call[w]) /\ verdict[w] = "none" => None = Target(call[w])
            BY <2>1, <3>1 DEF BoardInv, Waits
        <3>3. InFlight(call[w]) => Target(call[w]) \in Write
            <4>1. TypedCall(call[w])
                BY Typed DEF WholeInv
            <4>2. InFlight(call[w]) => Current(call[w]).id \in ParamId
                                       /\ Current(call[w]).value \in Value
                BY <4>1, InFlightAtWrite DEF Write
            <4> QED BY <4>2, NameIsParam DEF Target, Name, Write
        <3> QED BY <3>2, <3>3, ParamAssumption DEF Waiting, InFlight
    <2>5. AllTame(store, up, down)
        BY <1>1, <2>3 DEF AllTame
    <2>6. Wired("up", store, up, down, call[w], verdict[w])
        BY <2>3, <2>4, <2>5 DEF Wired
    <2> QED BY <2>1, <2>2, <2>6 DEF BoardInv
<1> QED BY <1>1, <1>2, AroundKeeps DEF WholeInv

\* A download confirms what the table lists: a write that it confirms before its
\* frame has arrived changes nothing by arriving.
LEMMA SyncKeepsBoard ==
    ASSUME WholeInv, TypeInv', SyncCompletes
    PROVE  WholeInv'
<1> DEFINE ws == UNION {Matching([id |-> p, value |-> store[p]]) : p \in Streamed}
<1>1. /\ link = "up" /\ down = <<>> /\ UNCHANGED <<link, store, up, down, call>>
      /\ waiter' = [w \in Writer |-> IF w \in ws THEN None ELSE waiter[w]]
      /\ verdict' = [w \in Writer |-> IF w \in ws THEN "confirmed" ELSE verdict[w]]
    BY DEF SyncCompletes, Settle, wire
<1>2. \A w \in ws : \E p \in Streamed : waiter[w] = [id |-> p, value |-> store[p]]
    BY DEF Matching
<1> HIDE DEF ws
<1>3. ASSUME NEW w \in Writer
      PROVE  /\ Waits(link, call[w], verdict'[w], waiter'[w])
             /\ Wired(link, store, up, down, call[w], verdict'[w])
             /\ Vouches(store, call[w], verdict'[w])
             /\ Claim(store, call[w])
    <2> DEFINE c == call[w]
               vd == verdict[w]
               f == Target(c)
    <2>1. /\ Waits(link, c, vd, waiter[w]) /\ Wired(link, store, up, down, c, vd)
          /\ Vouches(store, c, vd) /\ Claim(store, c)
        BY DEF WholeInv, BoardInv
    <2>2. CASE w \notin ws
        <3>1. waiter'[w] = waiter[w] /\ verdict'[w] = verdict[w]
            BY <1>1, <2>2
        <3> QED BY <2>1, <3>1
    <2>3. CASE w \in ws
        <3>1. waiter'[w] = None /\ verdict'[w] = "confirmed"
            BY <1>1, <2>3
        <3>2. PICK p \in Streamed : waiter[w] = [id |-> p, value |-> store[p]]
            BY <1>2, <2>3
        <3> HIDE DEF c, vd, f
        <3>3. [id |-> p, value |-> store[p]] \in Write /\ p \in Answered
            BY ParamAssumption DEF WholeInv, TypeInv, TypeOK, Write
        <3>4. InFlight(c) /\ vd = "none" /\ f = [id |-> p, value |-> store[p]]
            BY <2>1, <3>2, <3>3, ParamAssumption DEF Waits, f
        <3>5. Name(c) = p /\ Current(c).value = store[p] /\ Tame(store, f)
            BY <3>4 DEF f, Target, Tame
        <3>6. AllTame(store, up, down)
            <4>1. CASE Waiting(c, vd)
                <5>1. Before(store, up, down, f) \/ After(store, up, down, f)
                    BY <1>1, <2>1, <4>1 DEF Wired, f
                <5> QED BY <1>1, <3>5, <5>1 DEF Before, After, AllTame
            <4>2. CASE ~Waiting(c, vd)
                BY <1>1, <2>1, <4>2 DEF Wired
            <4> QED BY <4>1, <4>2
        <3>7. Wired(link, store, up, down, c, "confirmed")
            BY <1>1, <3>6 DEF Wired, Waiting
        <3>8. Waits(link, c, "confirmed", None) /\ Vouches(store, c, "confirmed")
            BY <3>3, <3>5 DEF Waits, Vouches
        <3> QED BY <2>1, <3>1, <3>7, <3>8 DEF c
    <2> QED BY <2>2, <2>3
<1> QED BY <1>1, <1>3, AroundKeeps DEF WholeInv

\* A tame frame changes nothing, and its echo is tame.
LEMMA TameReceived ==
    ASSUME WholeInv, StableBoard, Receive, Tame(store, Head(up))
    PROVE  /\ store' = store
           /\ down' = down \/ \E g \in Write :
                 down' = Append(down, g) /\ Tame(store, g) /\ g.id \in Answered /\ link = "up"
<1> DEFINE f == Head(up)
           g == [id |-> f.id, value |-> Settles[f.id][f.value]]
<1>1. f \in Write /\ store \in [Answered -> Value]
    BY HeadTailProperties DEF Receive, WholeInv, TypeInv, TypeOK
<1>2. CASE f.id \in Answered
    <2>1. f.value = store[f.id] /\ g.value = store[f.id]
        BY <1>2 DEF Tame, WholeInv, Settled
    <2>2. store' = [store EXCEPT ![f.id] = g.value]
        BY <1>2 DEF Receive
    <2>3. store' = store
        BY <1>1, <1>2, <2>1, <2>2
    <2>4. g \in Write /\ Tame(store, g) /\ g.id \in Answered
        BY <1>1, <1>2, <2>1 DEF Write, Tame
    <2>5. down' = IF link = "up" THEN Append(down, g) ELSE down
        BY <1>2 DEF Receive
    <2> QED BY <2>3, <2>4, <2>5
<1>3. CASE f.id \notin Answered
    BY <1>3 DEF Receive
<1> QED BY <1>2, <1>3

\* The frames on their way once the first has arrived and its echo has left.
LEMMA EchoAppends ==
    ASSUME NEW dn \in Seq(Write), NEW g \in Write
    PROVE  /\ Len(dn) \in Nat /\ Len(Append(dn, g)) = Len(dn) + 1
           /\ \A k \in DOMAIN Append(dn, g) :
                 (k \in DOMAIN dn /\ k # Len(dn) + 1 /\ Append(dn, g)[k] = dn[k])
                 \/ (k = Len(dn) + 1 /\ Append(dn, g)[k] = g)
OBVIOUS

\* So the claims stay, and the frame of a write in progress is still the last.
LEMMA TameReceiveKeeps ==
    ASSUME WholeInv, StableBoard, TypeInv', Receive, Tame(store, Head(up))
    PROVE  WholeInv'
<1>1. /\ up \in Seq(Write) /\ up # <<>> /\ up' = Tail(up) /\ down \in Seq(Write)
      /\ UNCHANGED <<link, call, waiter, verdict>>
    BY DEF Receive, WholeInv, TypeInv, TypeOK, gate
<1>2. store' = store
    BY TameReceived
<1>3. down' = down \/ \E g \in Write :
         down' = Append(down, g) /\ Tame(store, g) /\ g.id \in Answered /\ link = "up"
    BY TameReceived
<1>4. /\ (\A k \in DOMAIN down : Tame(store, down[k])) =>
            \A k \in DOMAIN down' : Tame(store, down'[k])
      /\ (\A k \in DOMAIN down : down[k].id \in Answered) =>
            \A k \in DOMAIN down' : down'[k].id \in Answered
      /\ link # "up" => down' = down
    BY <1>1, <1>3, EchoAppends
<1>5. ASSUME NEW w \in Writer
      PROVE  /\ Waits(link, call[w], verdict[w], waiter[w])
             /\ Wired(link, store, Tail(up), down', call[w], verdict[w])
             /\ Vouches(store, call[w], verdict[w])
             /\ Claim(store, call[w])
    <2> DEFINE c == call[w]
               vd == verdict[w]
    <2>1. /\ Waits(link, c, vd, waiter[w]) /\ Wired(link, store, up, down, c, vd)
          /\ Vouches(store, c, vd) /\ Claim(store, c)
        BY DEF WholeInv, BoardInv
    <2> HIDE DEF c, vd
    <2>2. \A k \in DOMAIN down' : down'[k].id \in Answered
        BY <1>4, <2>1 DEF Wired
    <2>3. link = "down" => down' = <<>> /\ \A i \in DOMAIN Tail(up) :
                Tame(store, Tail(up)[i]) \/ Exempt(c, vd, Tail(up)[i].id)
        BY <1>1, <1>4, <2>1, TailFrames DEF Wired
    <2>4. ASSUME link = "up", Waiting(c, vd)
          PROVE  Before(store, Tail(up), down', Target(c))
        <3>1. Before(store, up, down, Target(c))
            BY <1>1, <2>1, <2>4 DEF Wired, After
        <3> QED BY <1>1, <1>4, <3>1, TailFrames DEF Before
    <2>5. ASSUME link = "up", ~Waiting(c, vd)
          PROVE  AllTame(store, Tail(up), down')
        <3>1. AllTame(store, up, down)
            BY <2>1, <2>5 DEF Wired
        <3> QED BY <1>1, <1>4, <3>1, TailFrames DEF AllTame
    <2>6. Wired(link, store, Tail(up), down', c, vd)
        BY <2>2, <2>3, <2>4, <2>5 DEF Wired
    <2> QED BY <2>1, <2>6 DEF c, vd
<1> QED BY <1>1, <1>2, <1>5, AroundKeeps DEF WholeInv

\* Another frame is that of the write in progress, or of a name nothing is
\* claimed of.
LEMMA WildReceiveKeeps ==
    ASSUME WholeInv, StableBoard, TypeInv', Receive, ~Tame(store, Head(up))
    PROVE  WholeInv'
<1> DEFINE f == Head(up)
           g == [id |-> f.id, value |-> Settles[f.id][f.value]]
<1>1. /\ up \in Seq(Write) /\ up # <<>> /\ up' = Tail(up) /\ down \in Seq(Write)
      /\ UNCHANGED <<link, call, waiter, verdict>> /\ store \in [Answered -> Value]
    BY DEF Receive, WholeInv, TypeInv, TypeOK, gate
<1>2. f \in Write /\ f = up[1] /\ 1 \in DOMAIN up /\ f.id \in Answered /\ f.value # store[f.id]
    BY <1>1, HeadTailProperties, TailFrames DEF Tame
<1>3. /\ store' = [store EXCEPT ![f.id] = g.value]
      /\ down' = IF link = "up" THEN Append(down, g) ELSE down
    BY <1>2 DEF Receive
<1>4. f.value \in Value /\ g \in Write /\ g.id = f.id /\ g.value = Settles[f.id][f.value]
    <2>1. f.value \in Value /\ f.id \in ParamId
        BY <1>2 DEF Write
    <2>2. Settles[f.id][f.value] \in Value
        BY <1>2, <2>1, ParamAssumption
    <2> QED BY <2>1, <2>2 DEF Write
<1> HIDE DEF f, g
<1>5. store'[f.id] = g.value /\ \A p \in Answered : p # f.id => store'[p] = store[p]
    BY <1>1, <1>2, <1>3
<1>6. Settled(store')
    <2> SUFFICES ASSUME NEW p \in Answered PROVE Settles[p][store'[p]] = store'[p]
        BY DEF Settled
    <2>1. CASE p = f.id
        BY <1>2, <1>4, <1>5, <2>1 DEF StableBoard
    <2>2. CASE p # f.id
        BY <1>5, <2>2 DEF WholeInv, Settled
    <2> QED BY <2>1, <2>2
<1>7. ASSUME NEW w \in Writer
      PROVE  /\ Waits(link, call[w], verdict[w], waiter[w])
             /\ Wired(link, store', Tail(up), down', call[w], verdict[w])
             /\ Vouches(store', call[w], verdict[w])
             /\ Claim(store', call[w])
    <2> DEFINE c == call[w]
               vd == verdict[w]
    <2>1. /\ Waits(link, c, vd, waiter[w]) /\ Wired(link, store, up, down, c, vd)
          /\ Vouches(store, c, vd) /\ Claim(store, c) /\ TypedCall(c)
        BY Typed DEF WholeInv, BoardInv
    <2> HIDE DEF c, vd
    <2>2. ASSUME Exempt(c, vd, f.id)
          PROVE  Claim(store', c) /\ Vouches(store', c, vd)
        <3>1. Claim(store', c)
            BY <1>5, <2>1, <2>2, ClaimStore
        <3>2. ~(InFlight(c) /\ vd = "confirmed")
            BY <2>2 DEF Exempt
        <3> QED BY <3>1, <3>2 DEF Vouches
    <2>3. CASE link = "up"
        <3>1. Waiting(c, vd)
            BY <1>2, <2>1, <2>3 DEF Wired, AllTame, Tame
        <3>2. Before(store, up, down, Target(c))
            BY <1>1, <2>1, <2>3, <3>1 DEF Wired, After
        <3>3. 1 = Len(up) /\ f = Target(c)
            BY <1>2, <3>2 DEF Before, Tame
        <3>4. Tail(up) = <<>> /\ Name(c) = f.id
            BY <1>1, <3>3, TailFrames DEF Target
        <3>5. Exempt(c, vd, f.id)
            BY <3>1, <3>4 DEF Waiting, Exempt, InFlight
        <3>6. down' = Append(down, g)
            BY <1>3, <2>3
        <3>7. \A k \in DOMAIN down' : down'[k].id \in Answered
            BY <1>1, <1>2, <1>4, <2>1, <3>6, EchoAppends DEF Wired
        <3>8. After(store', Tail(up), down', f)
            <4>1. store'[f.id] = Settles[f.id][f.value]
                BY <1>4, <1>5
            <4>2. \A k \in DOMAIN down' : down'[k].id # f.id => Tame(store', down'[k])
                BY <1>1, <1>4, <1>5, <3>2, <3>6, EchoAppends DEF Before, Tame
            <4>3. store[f.id] \in Value /\ Settles[f.id][store[f.id]] = store[f.id]
                BY <1>1, <1>2 DEF WholeInv, Settled
            <4>4. \A k \in DOMAIN down' : down'[k].id = f.id =>
                    down'[k].value = IF k = Len(down') THEN store'[f.id] ELSE store[f.id]
                BY <1>1, <1>2, <1>4, <1>5, <3>2, <3>6, EchoAppends DEF Before, Tame
            <4> QED BY <1>2, <3>4, <4>1, <4>2, <4>3, <4>4 DEF After
        <3>9. Wired(link, store', Tail(up), down', c, vd)
            BY <2>3, <3>1, <3>3, <3>7, <3>8 DEF Wired
        <3> QED BY <2>1, <2>2, <3>5, <3>9 DEF c, vd
    <2>4. CASE link = "down"
        <3>1. down = <<>> /\ down' = <<>>
            BY <1>3, <2>1, <2>4 DEF Wired
        <3>2. Exempt(c, vd, f.id)
            BY <1>2, <2>1, <2>4 DEF Wired, Tame
        <3>3. \A i \in DOMAIN up : Tame(store', up[i]) \/ Exempt(c, vd, up[i].id)
            BY <1>5, <2>1, <2>4, <3>2 DEF Wired, Tame
        <3>4. \A i \in DOMAIN Tail(up) :
                 Tame(store', Tail(up)[i]) \/ Exempt(c, vd, Tail(up)[i].id)
            BY <1>1, <3>3, TailFrames
        <3>5. Wired(link, store', Tail(up), down', c, vd)
            BY <2>4, <3>1, <3>4 DEF Wired
        <3> QED BY <2>1, <2>2, <3>2, <3>5 DEF c, vd
    <2> QED BY <2>3, <2>4 DEF WholeInv, TypeInv, TypeOK
<1> QED BY <1>1, <1>6, <1>7, AroundKeeps

------------------------------------------------------------------------------
(* The theorems.                                                            *)

\* A session starts with a board that has settled, and nothing on the wire.
LEMMA InitWhole == ASSUME StableBoard, Init PROVE WholeInv
<1>1. TypeInv
    BY InitTyped
<1>2. Settled(store)
    BY DEF Init, StableBoard, Settled
<1>3. ASSUME NEW w \in Writer PROVE BoardInv(w)
    <2>1. call[w] = IdleCall /\ waiter[w] = None /\ verdict[w] = "none" /\ link = "up"
          /\ up = <<>> /\ down = <<>>
        BY DEF Init
    <2>2. /\ ~InFlight(IdleCall) /\ ~Waiting(IdleCall, "none") /\ IdleCall.pc # "sending"
          /\ DOMAIN IdleCall.applied = {} /\ IdleCall.phase = "forward"
        BY DEF IdleCall, InFlight, Waiting
    <2>3. Claim(store, IdleCall)
        BY <2>2 DEF Claim, LastOfEach, Vouched
    <2> QED BY <2>1, <2>2, <2>3 DEF BoardInv, Waits, Wired, AllTame, Vouches
<1> QED BY <1>1, <1>2, <1>3 DEF WholeInv

\* Every step keeps it, with one caller and no echo that outlives its verification.
LEMMA NextWhole ==
    ASSUME OneWriter, ~LateEchoes, StableBoard, WholeInv, [Next]_vars
    PROVE  WholeInv'
<1>0. TypeInv'
    BY NextTyped DEF WholeInv
<1>1. ASSUME NEW w \in Writer, NEW b \in Batch, StartBatch(w, b) PROVE WholeInv'
    BY <1>0, <1>1, StartKeepsBoard DEF StartBatch
<1>2. ASSUME NEW w \in Writer, NEW s \in Single, StartSingle(w, s) PROVE WholeInv'
    BY <1>0, <1>2, StartKeepsBoard DEF StartSingle
<1>3. ASSUME NEW w \in Writer, Continue(w) PROVE WholeInv'
    BY <1>0, <1>3, ContinueKeepsBoard
<1>4. ASSUME NEW w \in Writer, SendReaches(w) \/ SendIsLost(w) PROVE WholeInv'
    BY <1>0, <1>4, SentKeepsBoard
<1>5. ASSUME NEW w \in Writer, SendFails(w) PROVE WholeInv'
    BY <1>0, <1>5, FailureKeepsBoard
<1>6. ASSUME NEW w \in Writer, Confirm(w) \/ Unverified(w) PROVE WholeInv'
    BY <1>0, <1>6, VerifiedKeepsBoard
<1>7. ASSUME NEW w \in Writer, VerifyTimeout(w) PROVE WholeInv'
    BY <1>0, <1>7, TimeoutKeepsBoard
<1>8. CASE Deliver
    BY <1>0, <1>8, DeliverKeepsBoard
<1>9. CASE LinkDrop
    BY <1>0, <1>9, LinkDropKeepsBoard
<1>10. CASE Reconnect
    BY <1>0, <1>10, ReconnectKeepsBoard
<1>11. CASE SyncCompletes
    BY <1>0, <1>11, SyncKeepsBoard
<1>12. CASE Resync \/ Arm \/ StartCalibration \/ StartMotorTest \/ EndAction
    BY <1>0, <1>12, OutsideKeepsBoard
       DEF Resync, Arm, StartCalibration, StartMotorTest, EndAction
<1>13. CASE Receive
    BY <1>0, <1>13, TameReceiveKeeps, WildReceiveKeeps
<1>14. CASE EchoIsLost
    BY <1>0, <1>14, EchoIsLostKeepsBoard
<1>15. CASE UNCHANGED vars
    BY <1>0, <1>15, OutsideKeepsBoard DEF vars, gate
<1> QED BY <1>1, <1>2, <1>3, <1>4, <1>5, <1>6, <1>7, <1>8, <1>9, <1>10, <1>11, <1>12, <1>13,
           <1>14, <1>15 DEF Next

\* Every reachable state has the invariant.
LEMMA WholeInvariance ==
    ASSUME OneWriter, ~LateEchoes, StableBoard PROVE Spec => []WholeInv
<1>1. Init => WholeInv
    BY InitWhole
<1>2. WholeInv /\ [Next]_vars => WholeInv'
    BY NextWhole
<1> QED BY <1>1, <1>2, PTL DEF Spec

\* What a call that is over claims.
LEMMA WholeInvStands ==
    ASSUME WholeInv PROVE VerifiedWritesStand /\ RollbackRestores
<1>1. ASSUME NEW w \in Writer, call[w].outcome \in {"ok", "noPrevious", "notAttempted"},
             NEW i \in LastOfEach(call[w])
      PROVE  store[OnWire(call[w].applied[i].id)] = call[w].applied[i].value
    <2>1. TypedCall(call[w]) /\ Claim(store, call[w])
        BY Typed DEF WholeInv, BoardInv
    <2>2. call[w].phase = "forward" /\ ~InFlight(call[w])
        BY <1>1, <2>1 DEF TypedCall, Placed, InFlight
    <2> QED BY <1>1, <2>1, <2>2 DEF Claim, Stands
<1>2. ASSUME NEW w \in Writer, call[w].outcome = "rolledBack",
             NEW i \in FirstOfEach(call[w]), call[w].applied[i].previous # None
      PROVE  store[OnWire(call[w].applied[i].id)] = call[w].applied[i].previous
    <2> DEFINE c == call[w]
    <2>1. TypedCall(c) /\ Claim(store, c)
        BY Typed DEF WholeInv, BoardInv
    <2>2. c.phase = "rollback" /\ ~InFlight(c) /\ c.restored = RollbackSource(c)
          /\ c.undo \subseteq RollbackSource(c)
        BY <1>2, <2>1 DEF TypedCall, Placed, InFlight
    <2> HIDE DEF c
    <2>3. ~Spoiled(c)
        BY <2>2 DEF Spoiled
    <2>4. i \in c.restored /\ OnWire(c.applied[i].id) \notin Doubtful(c)
          /\ \A j \in c.restored : Alike(c, i, j) => i <= j
        BY <1>2, <2>2 DEF FirstOfEach, Vouched, RollbackSource, c
    <2>5. Stands(store, c, OnWire(c.applied[i].id), c.applied[i].previous)
        BY <2>1, <2>2, <2>3, <2>4 DEF Claim
    <2> QED BY <2>2, <2>5 DEF Stands, c
<1> QED BY <1>1, <1>2 DEF VerifiedWritesStand, RollbackRestores

\* What setParameters reports as verified, when it completes, cannot go on or has
\* nothing to roll back to, is on the board: whatever was lost, clamped, renamed or cut
\* off on the way, a download replaced or an earlier batch left on the wire ("They
\* remain on the vehicle exactly as written").
THEOREM VerifiedWritesStandAlways ==
    ASSUME OneWriter, ~LateEchoes, StableBoard PROVE Spec => []VerifiedWritesStand
<1>1. WholeInv => VerifiedWritesStand
    BY WholeInvStands
<1> QED BY <1>1, WholeInvariance, PTL

\* A batch that reports it rolled everything back has every name it wrote at the value
\* its first write replaced, also where it wrote a name twice or under both spellings
\* (rollbackAppliedWrites, which undoes the latest first).
THEOREM RollbackRestoresAlways ==
    ASSUME OneWriter, ~LateEchoes, StableBoard PROVE Spec => []RollbackRestores
<1>1. WholeInv => RollbackRestores
    BY WholeInvStands
<1> QED BY <1>1, WholeInvariance, PTL

------------------------------------------------------------------------------
(* The names the frames go out under. *)

\* The board answers every name an operator writes, or its table lists the name's
\* modern spelling.
Asked(id) == (\E s \in Single : s.id = id) \/ (\E b \in Batch : \E i \in DOMAIN b : b[i].id = id)
NamesAreKnown ==
    \A id \in ParamId : Asked(id) => id \in Answered \/ (Modern[id] # None /\ Modern[id] \in Streamed)

\* What a call has to write, and to write back, has a name the board answers.
Routed(c) ==
    /\ \A i \in DOMAIN c.todo : OnWire(c.todo[i].id) \in Answered
    /\ \A k \in DOMAIN c.applied : OnWire(c.applied[k].id) \in Answered

RouteInv == TypeInv /\ WritesAreRouted /\ \A w \in Writer : Routed(call[w])

\* A name that is asked for goes out under one the board answers (setParameter).
LEMMA AskedIsRouted ==
    ASSUME NamesAreKnown, NEW id \in ParamId, Asked(id) PROVE OnWire(id) \in Answered
BY ParamAssumption DEF NamesAreKnown, OnWire

\* So does the write a call is at, forward or back.
LEMMA CurrentIsRouted ==
    ASSUME NEW c, TypedCall(c), AtWrite(c), Routed(c) PROVE OnWire(Current(c).id) \in Answered
<1>1. CASE c.phase = "forward"
    <2>1. c.todo \in Seq(Write) /\ c.todo # <<>>
        BY <1>1 DEF TypedCall, Call, AtWrite
    <2>2. 1 \in DOMAIN c.todo /\ Current(c) = c.todo[1]
        BY <1>1, <2>1, TailFrames DEF Current
    <2> QED BY <2>2 DEF Routed
<1>2. CASE c.phase = "rollback"
    <2> DEFINE k == Latest(c.undo)
    <2>1. k \in DOMAIN c.applied
        BY <1>2, LatestUndo DEF AtWrite, TypedCall, Placed, RollbackSource
    <2>2. Current(c).id = c.applied[k].id
        BY <1>2 DEF Current
    <2> QED BY <2>1, <2>2 DEF Routed
<1> QED BY <1>1, <1>2 DEF TypedCall, Call

\* A list that loses its head, or all of it, and a call that keeps its record.
LEMMA ShorterIsRouted ==
    ASSUME NEW c, TypedCall(c), Routed(c), NEW d, d.applied = c.applied,
           d.todo = c.todo \/ d.todo = <<>> \/ (c.todo # <<>> /\ d.todo = Tail(c.todo))
    PROVE  Routed(d)
<1>1. c.todo \in Seq(Write)
    BY DEF TypedCall, Call
<1>2. \A i \in DOMAIN d.todo : OnWire(d.todo[i].id) \in Answered
    <2>1. CASE d.todo = c.todo \/ d.todo = <<>>
        BY <2>1 DEF Routed
    <2>2. CASE c.todo # <<>> /\ d.todo = Tail(c.todo)
        <3>1. \A i \in DOMAIN d.todo : i + 1 \in DOMAIN c.todo /\ d.todo[i] = c.todo[i + 1]
            BY <1>1, <2>2, TailFrames
        <3> QED BY <3>1 DEF Routed
    <2> QED BY <2>1, <2>2
<1> QED BY <1>2 DEF Routed

\* A failed write adds nothing to write.
LEMMA FailureIsRouted ==
    ASSUME NEW c, TypedCall(c), Routed(c), NEW d, FailsTo(c, d) PROVE Routed(d)
<1>1. d.applied = c.applied /\ (d.todo = c.todo \/ d.todo = <<>>)
    BY DEF FailsTo, Refused, RollingBack, Dropped, TypedCall, Call
<1> QED BY <1>1, ShorterIsRouted

\* What is recorded, to be written back later, was asked for.
LEMMA RecordIsRouted ==
    ASSUME NEW c, TypedCall(c), InFlight(c), c.phase = "forward", Routed(c)
    PROVE  Routed(Recorded(c))
<1> DEFINE done == [id |-> Current(c).id, value |-> Current(c).value, previous |-> c.known]
           d == Recorded(c)
<1>1. c.todo \in Seq(Write) /\ c.todo # <<>> /\ c.applied \in Seq(Applied)
      /\ OnWire(done.id) \in Answered
    BY InFlightAtWrite, CurrentIsRouted DEF TypedCall, Call, AtWrite
<1>0. d = [c EXCEPT !.pc = "next", !.todo = Tail(@), !.applied = Append(@, done)]
    BY DEF Recorded
<1> HIDE DEF d, done
<1>2. d.todo = Tail(c.todo) /\ d.applied = Append(c.applied, done)
    BY <1>0 DEF TypedCall, Call
<1>3. \A i \in DOMAIN d.todo : OnWire(d.todo[i].id) \in Answered
    BY <1>1, <1>2, TailFrames DEF Routed
<1>4. \A k \in DOMAIN d.applied : (k \in DOMAIN c.applied /\ d.applied[k] = c.applied[k])
                                  \/ d.applied[k] = done
    BY <1>1, <1>2
<1>5. Routed(d)
    BY <1>1, <1>3, <1>4 DEF Routed
<1> QED BY <1>5 DEF d

\* A step of one call that leaves the frames as they are.
LEMMA RouteSteps ==
    ASSUME RouteInv, TypeInv', NEW w \in Writer, NEW d, Steps(w, d), Routed(d), UNCHANGED up
    PROVE  RouteInv'
BY DEF RouteInv, TypeInv, TypeOK, Steps, WritesAreRouted

\* A call starts with what the operator asked for.
LEMMA StartRoutes ==
    ASSUME RouteInv, TypeInv', NEW w \in Writer, NEW kind, NEW writes,
           \A i \in DOMAIN writes : OnWire(writes[i].id) \in Answered, Start(w, kind, writes)
    PROVE  RouteInv'
<1> DEFINE d == [IdleCall EXCEPT !.pc = "next", !.kind = kind, !.todo = writes]
<1>1. Steps(w, d) /\ UNCHANGED up
    BY DEF Start, Steps, wire
<1>2. d.todo = writes /\ d.applied = <<>>
    BY DEF IdleCall
<1> HIDE DEF d
<1>3. Routed(d)
    BY <1>2 DEF Routed
<1> QED BY <1>1, <1>3, RouteSteps

\* The loop head drops writes and adds none.
LEMMA ContinueRoutes ==
    ASSUME RouteInv, TypeInv', NEW w \in Writer, Continue(w)
    PROVE  RouteInv'
<1> DEFINE c == call[w]
<1>1. TypeInv /\ TypedCall(c) /\ Routed(c) /\ UNCHANGED up
    BY Typed DEF RouteInv, Continue, wire
<1>2. ASSUME NEW outcome, Steps(w, Finished(c, outcome)) PROVE RouteInv'
    <2>1. Finished(c, outcome).todo = <<>> /\ Finished(c, outcome).applied = c.applied
        BY <1>1 DEF Finished, TypedCall, Call
    <2> QED BY <1>1, <1>2, <2>1, ShorterIsRouted, RouteSteps
<1>3. ASSUME AtWrite(c), c.phase = "forward", Steps(w, Skipped(c)) PROVE RouteInv'
    <2>1. Skipped(c).todo = Tail(c.todo) /\ Skipped(c).applied = c.applied
        BY <1>1 DEF Skipped, TypedCall, Call
    <2> QED BY <1>1, <1>3, <2>1, ShorterIsRouted, RouteSteps DEF AtWrite
<1>4. ASSUME NEW known, Steps(w, Sending(c, known)) PROVE RouteInv'
    <2>1. Sending(c, known).todo = c.todo /\ Sending(c, known).applied = c.applied
        BY <1>1 DEF Sending, TypedCall, Call
    <2> QED BY <1>1, <1>4, <2>1, ShorterIsRouted, RouteSteps
<1>5. ASSUME NEW d, Steps(w, d), FailsTo(c, d) PROVE RouteInv'
    BY <1>1, <1>5, FailureIsRouted, RouteSteps
<1> QED BY <1>1, <1>2, <1>3, <1>4, <1>5, ContinueForms

\* The frame that leaves has the name of the write the call is at.
LEMMA SendRoutes ==
    ASSUME RouteInv, TypeInv', NEW w \in Writer,
           SendReaches(w) \/ SendIsLost(w) \/ SendFails(w)
    PROVE  RouteInv'
<1> DEFINE c == call[w]
<1>1. TypeInv /\ TypedCall(c) /\ Routed(c) /\ AtWrite(c) /\ c.pc = "sending"
    BY Typed, InFlightAtWrite
       DEF RouteInv, SendReaches, SendIsLost, SendFails, Sent, InFlight
<1>2. CASE SendFails(w)
    <2>1. Failed(w) /\ UNCHANGED up
        BY <1>2 DEF SendFails, wire
    <2> QED BY <1>1, <2>1, FailedForms, FailureIsRouted, RouteSteps
<1>3. CASE SendReaches(w) \/ SendIsLost(w)
    <2> DEFINE d == Verifying(c)
               f == Frame(w)
    <2>1. call' = [call EXCEPT ![w].pc = "verifying"] /\ (up' = up \/ up' = Append(up, f))
        BY <1>3 DEF SendReaches, SendIsLost, Sent
    <2>2. Steps(w, d)
        BY <1>1, <2>1 DEF Steps, Verifying, TypeInv, TypeOK
    <2>3. d.todo = c.todo /\ d.applied = c.applied
        BY <1>1 DEF Verifying, TypedCall, Call
    <2>4. f.id \in Answered
        BY <1>1, CurrentIsRouted DEF Frame
    <2> HIDE DEF d, f
    <2>5. Routed(d)
        BY <1>1, <2>3, ShorterIsRouted
    <2>6. WritesAreRouted'
        <3>1. up \in Seq(Write) /\ \A i \in DOMAIN up : up[i].id \in Answered
            BY <1>1 DEF TypeInv, TypeOK, RouteInv, WritesAreRouted
        <3>2. \A i \in DOMAIN Append(up, f) : (i \in DOMAIN up /\ Append(up, f)[i] = up[i])
                                              \/ Append(up, f)[i] = f
            BY <3>1
        <3> QED BY <2>1, <2>4, <3>1, <3>2 DEF WritesAreRouted
    <2> QED BY <1>1, <2>2, <2>5, <2>6 DEF RouteInv, TypeInv, TypeOK, Steps
<1> QED BY <1>2, <1>3

\* The end of a verification drops a write or records it.
LEMMA VerifiedRoutes ==
    ASSUME RouteInv, TypeInv', NEW w \in Writer, Confirm(w) \/ Unverified(w)
    PROVE  RouteInv'
<1> DEFINE c == call[w]
<1>1. TypeInv /\ TypedCall(c) /\ Routed(c) /\ InFlight(c) /\ AtWrite(c) /\ UNCHANGED up
    BY Typed, InFlightAtWrite DEF RouteInv, Confirm, Unverified, InFlight, wire
<1>2. ASSUME c.phase = "forward", Steps(w, Recorded(c)) PROVE RouteInv'
    BY <1>1, <1>2, RecordIsRouted, RouteSteps
<1>3. ASSUME Steps(w, Restored(c)) PROVE RouteInv'
    <2>1. Restored(c).todo = c.todo /\ Restored(c).applied = c.applied
        BY <1>1 DEF Restored, TypedCall, Call
    <2> QED BY <1>1, <1>3, <2>1, ShorterIsRouted, RouteSteps
<1>4. ASSUME c.phase = "forward", Steps(w, CarriedOn(c)) PROVE RouteInv'
    <2>1. CarriedOn(c).todo = Tail(c.todo) /\ CarriedOn(c).applied = c.applied
        BY <1>1 DEF CarriedOn, TypedCall, Call
    <2> QED BY <1>1, <1>4, <2>1, ShorterIsRouted, RouteSteps DEF AtWrite
<1>5. ASSUME NEW d, Steps(w, d), FailsTo(c, d) PROVE RouteInv'
    BY <1>1, <1>5, FailureIsRouted, RouteSteps
<1> QED BY <1>1, <1>2, <1>3, <1>4, <1>5, ConfirmForms, UnverifiedForms

\* Every step keeps the names routed.
LEMMA NextRoutes ==
    ASSUME NamesAreKnown, RouteInv, [Next]_vars
    PROVE  RouteInv'
<1>0. TypeInv /\ TypeInv'
    BY NextTyped DEF RouteInv
<1>1. ASSUME NEW w \in Writer, NEW b \in Batch, StartBatch(w, b) PROVE RouteInv'
    <2>1. \A i \in DOMAIN b : b[i].id \in ParamId /\ Asked(b[i].id)
        <3>1. b \in Seq(Write)
            BY ParamAssumption
        <3>2. \A i \in DOMAIN b : b[i] \in Write
            BY <3>1
        <3> QED BY <3>2 DEF Write, Asked
    <2>2. \A i \in DOMAIN b : OnWire(b[i].id) \in Answered
        BY <2>1, AskedIsRouted
    <2> QED BY <1>0, <1>1, <2>2, StartRoutes DEF StartBatch
<1>2. ASSUME NEW w \in Writer, NEW s \in Single, StartSingle(w, s) PROVE RouteInv'
    <2>1. s.id \in ParamId /\ Asked(s.id)
        BY ParamAssumption DEF Write, Asked
    <2>2. \A i \in DOMAIN <<s>> : <<s>>[i] = s
        OBVIOUS
    <2>3. \A i \in DOMAIN <<s>> : OnWire(<<s>>[i].id) \in Answered
        BY <2>1, <2>2, AskedIsRouted
    <2> QED BY <1>0, <1>2, <2>3, StartRoutes DEF StartSingle
<1>3. ASSUME NEW w \in Writer, Continue(w) PROVE RouteInv'
    BY <1>0, <1>3, ContinueRoutes
<1>4. ASSUME NEW w \in Writer, SendReaches(w) \/ SendIsLost(w) \/ SendFails(w) PROVE RouteInv'
    BY <1>0, <1>4, SendRoutes
<1>5. ASSUME NEW w \in Writer, Confirm(w) \/ Unverified(w) PROVE RouteInv'
    BY <1>0, <1>5, VerifiedRoutes
<1>6. ASSUME UNCHANGED <<call, up>> PROVE RouteInv'
    BY <1>0, <1>6 DEF RouteInv, WritesAreRouted
<1>7. ASSUME NEW w \in Writer, VerifyTimeout(w) PROVE RouteInv'
    BY <1>6, <1>7 DEF VerifyTimeout, wire
<1>8. CASE Deliver \/ LinkDrop \/ Reconnect \/ Resync \/ SyncCompletes \/ Arm
           \/ StartCalibration \/ StartMotorTest \/ EndAction \/ EchoIsLost
    BY <1>6, <1>8 DEF Deliver, LinkDrop, Reconnect, Resync, SyncCompletes, Arm,
       StartCalibration, StartMotorTest, EndAction, EchoIsLost, wire
<1>9. CASE Receive
    <2>1. up \in Seq(Write) /\ up # <<>> /\ up' = Tail(up) /\ UNCHANGED call
        BY <1>0, <1>9 DEF Receive, TypeInv, TypeOK
    <2>2. WritesAreRouted'
        BY <2>1, TailFrames DEF RouteInv, WritesAreRouted
    <2> QED BY <1>0, <2>1, <2>2 DEF RouteInv
<1>10. CASE UNCHANGED vars
    BY <1>6, <1>10 DEF vars, wire
<1> QED BY <1>1, <1>2, <1>3, <1>4, <1>5, <1>7, <1>8, <1>9, <1>10 DEF Next

\* Every PARAM_SET goes out under a name the board answers, also those of a rollback,
\* where the operator writes only names that the board answers under one spelling or
\* the other (setParameter, "would misroute the write").
THEOREM WritesAreRoutedAlways ==
    ASSUME NamesAreKnown PROVE Spec => []WritesAreRouted
<1>1. Init => RouteInv
    <2> SUFFICES ASSUME Init PROVE RouteInv
        OBVIOUS
    <2>1. TypeInv
        BY InitTyped
    <2> QED BY <2>1 DEF RouteInv, WritesAreRouted, Routed, Init, IdleCall
<1>2. RouteInv /\ [Next]_vars => RouteInv'
    BY NextRoutes
<1>3. RouteInv => WritesAreRouted
    BY DEF RouteInv
<1> QED BY <1>1, <1>2, <1>3, PTL DEF Spec
==============================================================================
