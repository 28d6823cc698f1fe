----------------------------- MODULE ParamWrite ------------------------------
(***************************************************************************)
(* Verified parameter writes of ArduPilotConfiguratorRuntime               *)
(* (packages/ardupilot-core/src/runtime.ts): setParameter, which sends a    *)
(* PARAM_SET and waits for the PARAM_VALUE that echoes it, the batch        *)
(* setParameters with its rollback, the write gate they consult, and the    *)
(* readback waiters (runtime-parameter-waiters.ts).                         *)
(*                                                                         *)
(* The flight controller is external: it answers a PARAM_SET of a name it   *)
(* knows with the value it settled on, which need not be the one asked for  *)
(* (clamped, or owned by the firmware).  PARAM_SET has no ack, and frames    *)
(* are lost in both directions.  Parameter values are an abstract set:      *)
(* equality stands for equality within the tolerance.  The download of the  *)
(* table (module ParamSync) is one step here, SyncCompletes.                *)
(*                                                                         *)
(* What runs between two awaits is one step, Quiet or not: while the         *)
(* continuation of an await is due, only frames of the same chunk run.      *)
(***************************************************************************)
EXTENDS Integers, Sequences

CONSTANTS
    Writer,       \* concurrent callers of setParameter and setParameters
    ParamId,      \* parameter names
    Mirror,       \* [ParamId -> ParamId \cup {None}]: the other name of a renamed parameter
    Modern,       \* LEGACY_PARAM_ALIASES: the modern name of a legacy one, or None
    Answered,     \* the names this board answers a PARAM_SET of
    Streamed,     \* those its table lists (realParameterIdsReceived once complete)
    Value,
    FirstStore,   \* [Answered -> Value]: what the board holds at the start
    Settles,      \* [Answered -> [Value -> Value]]: what the board makes of a write
    Batch,        \* the batches an operator may apply: sequences of Write
    Single,       \* the lone writes a view may issue: Writes
    None,
    LateEchoes,   \* an echo may outlive the verification it was sent for
    MaxCalls,     \* bound: calls in a behaviour
    MaxEvents     \* bound: link, arming, operator and send-failure events

Write == [id : ParamId, value : Value]

ASSUME ParamAssumption ==
    /\ Mirror \in [ParamId -> ParamId \cup {None}]
    /\ Modern \in [ParamId -> ParamId \cup {None}]
    /\ Streamed \subseteq Answered /\ Answered \subseteq ParamId
    /\ FirstStore \in [Answered -> Value]
    /\ Settles \in [Answered -> [Value -> Value]]
    /\ Batch \subseteq Seq(Write) /\ Single \subseteq Write
    /\ None \notin ParamId /\ None \notin Value /\ None \notin Write

ASSUME BoundAssumption ==
    LateEchoes \in BOOLEAN /\ MaxCalls \in Nat /\ MaxEvents \in Nat

VARIABLES
    link,         \* connection.kind is 'connected' and the vehicle is identified
    synced,       \* parameterSync.status is 'complete'
    armed,        \* vehicle.armed, as the last heartbeat has it
    busy,         \* the calibration or motor test in progress, or "none"
    parameters,   \* the table, mirrors included; None where absent
    store,        \* what the board holds (external)
    up,           \* PARAM_SET frames on their way (external)
    down,         \* PARAM_VALUE frames on their way (external)
    batchActive,  \* parameterBatchWriteActive
    call,         \* per writer, the call in progress or its result
    waiter,       \* per writer, its entry in parameterValueWaiters, or None
    verdict,      \* per writer, how its waiter settled
    calls,        \* calls left
    events        \* events left

gate  == <<link, synced, armed, busy>>
wire  == <<store, up, down>>
vars  == <<gate, parameters, wire, batchActive, call, waiter, verdict, calls, events>>

(***************************************************************************)
(* A call: where it is, the writes left, the verified ones with the value   *)
(* each replaced, the unverifiable ones, the places in applied that are     *)
(* still to be rolled back and that have been, the name a failure happened  *)
(* on, and the value its current write replaces.                            *)
(***************************************************************************)
Applied == [id : ParamId, value : Value, previous : Value \cup {None}]
Table   == [ParamId -> Value \cup {None}]
Outcome == {"none", "ok", "refused", "noPrevious", "notAttempted", "rolledBack", "partial"}

Call == [pc : {"idle", "next", "sending", "verifying", "done"},
         kind : {"batch", "single"}, phase : {"forward", "rollback"},
         todo : Seq(Write), applied : Seq(Applied),
         unconfirmed : SUBSET ParamId, undo : SUBSET Nat, restored : SUBSET Nat,
         failed : ParamId \cup {None}, known : Value \cup {None}, outcome : Outcome]

\* Every variable keeps its type.
TypeOK ==
    /\ link \in {"up", "down"} /\ synced \in BOOLEAN /\ armed \in BOOLEAN
    /\ busy \in {"none", "calibration", "motor-test"}
    /\ parameters \in Table
    /\ store \in [Answered -> Value]
    /\ up \in Seq(Write) /\ down \in Seq(Write)
    /\ batchActive \in BOOLEAN
    /\ call \in [Writer -> Call]
    /\ waiter \in [Writer -> Write \cup {None}]
    /\ verdict \in [Writer -> {"none", "confirmed", "rejected"}]
    /\ calls \in 0..MaxCalls /\ events \in 0..MaxEvents
------------------------------------------------------------------------------
(* Helpers.                                                                *)

\* Mutant: the mirror passes for a name the board streams.
OnWireByTable(id) ==
    IF Modern[id] # None /\ parameters[Modern[id]] # None THEN Modern[id] ELSE id

\* A legacy name goes out under the modern one where the board streams that.
OnWire(id) == IF Modern[id] # None /\ Modern[id] \in Streamed THEN Modern[id] ELSE id

\* parameters.set under the reported name and under its mirror.
Shown(ps, f) ==
    [p \in ParamId |-> IF p = f.id \/ p = Mirror[f.id] THEN f.value ELSE ps[p]]

\* The table a whole download leaves.
ShownStore ==
    [p \in ParamId |-> IF p \in Streamed THEN store[p]
                       ELSE IF Mirror[p] \in Streamed THEN store[Mirror[p]] ELSE None]

\* parameterWriteBlockReason() is undefined.
GateOpen == link = "up" /\ synced /\ ~armed /\ busy = "none"

\* Mutant: a value that was never known is written back too.
UndoAll(c) == DOMAIN c.applied

\* rollbackSourceWrites: the applied writes that have a value to go back to.
RollbackSource(c) == {k \in DOMAIN c.applied : c.applied[k].previous # None}

\* Mutant: the applied writes are undone in the order they were made.
Earliest(S) == CHOOSE k \in S : \A j \in S : k <= j

\* They are undone latest first.
Latest(S) == CHOOSE k \in S : \A j \in S : j <= k

\* The write a call is at.
Current(c) ==
    IF c.phase = "forward" THEN Head(c.todo)
    ELSE [id |-> c.applied[Latest(c.undo)].id, value |-> c.applied[Latest(c.undo)].previous]

Due(w) == call[w].pc = "next" \/ (call[w].pc = "verifying" /\ verdict[w] # "none")
Quiet == \A w \in Writer : ~Due(w)

Spend == events > 0 /\ events' = events - 1

IdleCall == [pc |-> "idle", kind |-> "batch", phase |-> "forward", todo |-> <<>>,
             applied |-> <<>>, unconfirmed |-> {}, undo |-> {}, restored |-> {},
             failed |-> None, known |-> None, outcome |-> "none"]

Init ==
    /\ link = "up" /\ synced = TRUE /\ armed = FALSE /\ busy = "none"
    /\ store = FirstStore
    /\ parameters = ShownStore
    /\ up = <<>> /\ down = <<>>
    /\ batchActive = FALSE
    /\ call = [w \in Writer |-> IdleCall]
    /\ waiter = [w \in Writer |-> None]
    /\ verdict = [w \in Writer |-> "none"]
    /\ calls = MaxCalls /\ events = MaxEvents
------------------------------------------------------------------------------
(* setParameters and setParameter.                                         *)

Startable(w) == call[w].pc \in {"idle", "done"} /\ Quiet /\ calls > 0

Start(w, kind, writes) ==
    /\ Startable(w)
    /\ calls' = calls - 1
    /\ call' = [call EXCEPT ![w] = [IdleCall EXCEPT
                  !.pc = "next", !.kind = kind, !.todo = writes]]
    /\ UNCHANGED <<gate, parameters, wire, waiter, verdict, events>>

StartBatch(w, batch) == Start(w, "batch", batch) /\ batchActive' = TRUE

StartSingle(w, write) == Start(w, "single", <<write>>) /\ UNCHANGED batchActive

\* The finally clause of setParameters, or the return of setParameter.
Finish(w, c, outcome) ==
    /\ call' = [call EXCEPT ![w] = [c EXCEPT !.pc = "done", !.outcome = outcome,
                                             !.todo = <<>>, !.undo = {}]]
    /\ batchActive' = IF c.kind = "batch" THEN FALSE ELSE batchActive

\* The catch clause: what a failed write makes of the rest of the call.
Fail(w) ==
    LET c == [call[w] EXCEPT !.failed = Current(call[w]).id]
        source == RollbackSource(c)
    IN  CASE c.kind = "single" \/ c.applied = <<>> -> Finish(w, c, "refused")
          [] c.applied # <<>> /\ source = {}       -> Finish(w, c, "noPrevious")
          [] source # {} /\ ~GateOpen              -> Finish(w, c, "notAttempted")
          [] OTHER -> /\ call' = [call EXCEPT ![w] =
                            [c EXCEPT !.pc = "next", !.phase = "rollback", !.undo = source]]
                      /\ UNCHANGED batchActive

\* A rollback write that fails is logged, and the next one tried.
DropUndo(w) ==
    /\ call' = [call EXCEPT ![w].pc = "next", ![w].undo = @ \ {Latest(@)}]
    /\ UNCHANGED batchActive

Failed(w) == IF call[w].phase = "forward" THEN Fail(w) ELSE DropUndo(w)

\* setParameter up to its send: the waiter is registered before the frame leaves.
BeginWrite(w) ==
    LET target == Current(call[w])
    IN  /\ call' = [call EXCEPT ![w].pc = "sending", ![w].known = parameters[target.id]]
        /\ waiter' = [waiter EXCEPT ![w] = [id |-> OnWire(target.id), value |-> target.value]]
        /\ verdict' = [verdict EXCEPT ![w] = "none"]
        /\ UNCHANGED batchActive

\* The loop head: skip what the table already shows, refuse, or write.
Continue(w) ==
    /\ call[w].pc = "next"
    /\ LET c == call[w]
           ended == IF c.phase = "forward" THEN c.todo = <<>> ELSE c.undo = {}
       IN  CASE ended /\ c.phase = "forward" ->
                    Finish(w, c, "ok") /\ UNCHANGED <<waiter, verdict>>
             [] ended /\ c.phase = "rollback" ->
                    /\ Finish(w, c, IF c.restored = RollbackSource(c)
                                      THEN "rolledBack" ELSE "partial")
                    /\ UNCHANGED <<waiter, verdict>>
             [] ~ended /\ c.phase = "forward" /\ c.kind = "batch"
                    /\ parameters[Current(c).id] = Current(c).value ->
                    /\ call' = [call EXCEPT ![w].todo = Tail(@)]
                    /\ UNCHANGED <<batchActive, waiter, verdict>>
             [] OTHER -> IF GateOpen THEN BeginWrite(w)
                                     ELSE Failed(w) /\ UNCHANGED <<waiter, verdict>>
    /\ UNCHANGED <<gate, parameters, wire, calls, events>>

\* The awaited session.send resolves.
Sent(w) ==
    /\ call[w].pc = "sending" /\ Quiet
    /\ call' = [call EXCEPT ![w].pc = "verifying"]
    /\ UNCHANGED <<gate, parameters, store, down, batchActive, waiter, verdict, calls, events>>

Frame(w) == [id |-> OnWire(Current(call[w]).id), value |-> Current(call[w]).value]

SendReaches(w) == link = "up" /\ Sent(w) /\ up' = Append(up, Frame(w))
SendIsLost(w)  == Sent(w) /\ UNCHANGED up

\* Mutant: a write that could not be sent leaves its waiter behind.
KeptWaiter(w) == waiter

Cancelled(w) == [waiter EXCEPT ![w] = None]

\* It rejects: the waiter is cancelled and the write has failed.  A write on a
\* dead link always does, sooner or later; one on a live link may.
SendFails(w) ==
    /\ call[w].pc = "sending" /\ Quiet
    /\ IF link = "up" THEN Spend ELSE UNCHANGED events
    /\ waiter' = Cancelled(w)
    /\ Failed(w)
    /\ UNCHANGED <<gate, parameters, wire, verdict, calls>>

\* The echo came: the write is recorded with the value it replaced.
Confirm(w) ==
    /\ call[w].pc = "verifying" /\ verdict[w] = "confirmed"
    /\ LET c == call[w]
           done == [id |-> Current(c).id, value |-> Current(c).value, previous |-> c.known]
       IN  call' = [call EXCEPT ![w] =
             IF c.phase = "forward"
               THEN [c EXCEPT !.pc = "next", !.applied = Append(@, done), !.todo = Tail(@)]
               ELSE [c EXCEPT !.pc = "next", !.restored = @ \cup {Latest(c.undo)},
                                !.undo = @ \ {Latest(c.undo)}]]
    /\ verdict' = [verdict EXCEPT ![w] = "none"]
    /\ UNCHANGED <<gate, parameters, wire, batchActive, waiter, calls, events>>

\* A sent but unverifiable write is left as written, as long as writes still go.
CarriesOn(c) == c.kind = "batch" /\ c.phase = "forward" /\ GateOpen

\* The verification was rejected: ParameterVerifyTimeoutError.
Unverified(w) ==
    /\ call[w].pc = "verifying" /\ verdict[w] = "rejected"
    /\ IF CarriesOn(call[w])
         THEN /\ call' = [call EXCEPT ![w].pc = "next", ![w].todo = Tail(@),
                            ![w].unconfirmed = @ \cup {Current(call[w]).id}]
              /\ UNCHANGED batchActive
         ELSE Failed(w)
    /\ verdict' = [verdict EXCEPT ![w] = "none"]
    /\ UNCHANGED <<gate, parameters, wire, waiter, calls, events>>
------------------------------------------------------------------------------
(* The readback waiters.                                                   *)

\* Mutant: any echo of the name confirms the write.
MatchingByName(f) == {w \in Writer : waiter[w] # None /\ waiter[w].id = f.id}

\* Waiters of this name and value are resolved and leave the set.
Matching(f) == {w \in Writer : waiter[w] = f}

Settle(ws, v) ==
    /\ waiter'  = [w \in Writer |-> IF w \in ws THEN None ELSE waiter[w]]
    /\ verdict' = [w \in Writer |-> IF w \in ws THEN v ELSE verdict[w]]

\* Mutant: the waiters are dropped with the link, and nobody is told.
ForgetAll == Settle({w \in Writer : waiter[w] # None}, "none")

RejectAll == Settle({w \in Writer : waiter[w] # None}, "rejected")

\* A PARAM_VALUE arrives (processParamValue, as far as writes are concerned).
Deliver ==
    /\ link = "up" /\ down # <<>>
    /\ parameters' = Shown(parameters, Head(down))
    /\ Settle(Matching(Head(down)), "confirmed")
    /\ down' = Tail(down)
    /\ UNCHANGED <<gate, store, up, batchActive, call, calls, events>>

\* The verification timer of a waiter fires.
VerifyTimeout(w) ==
    /\ waiter[w] # None /\ Quiet
    /\ LateEchoes \/ (call[w].pc = "verifying" /\ up = <<>> /\ down = <<>>)
    /\ Settle({w}, "rejected")
    /\ UNCHANGED <<gate, parameters, wire, batchActive, call, calls, events>>
------------------------------------------------------------------------------
(* What moves the gate.                                                    *)

\* Transport 'disconnected' or 'error': waiters rejected, live state reset.
LinkDrop ==
    /\ link = "up" /\ Quiet /\ Spend
    /\ link' = "down" /\ synced' = FALSE /\ armed' = FALSE /\ busy' = "none"
    /\ RejectAll
    /\ down' = <<>>
    /\ UNCHANGED <<parameters, store, up, batchActive, call, calls>>

\* The link returns; the sends and frames of the old one are gone with it.
Reconnect ==
    /\ link = "down" /\ Quiet /\ up = <<>>
    /\ \A w \in Writer : call[w].pc # "sending"
    /\ link' = "up"
    /\ UNCHANGED <<synced, armed, busy, parameters, wire, batchActive, call, waiter, verdict,
                   calls, events>>

\* requestParameterList({ fresh: true }), which no write in progress holds off.
Resync ==
    /\ link = "up" /\ synced /\ Quiet /\ Spend
    /\ synced' = FALSE
    /\ parameters' = [p \in ParamId |-> None]
    /\ UNCHANGED <<link, armed, busy, wire, batchActive, call, waiter, verdict, calls>>

\* The download completes (module ParamSync): every value passes the waiters.
SyncCompletes ==
    /\ link = "up" /\ ~synced /\ Quiet /\ down = <<>>
    /\ synced' = TRUE
    /\ parameters' = ShownStore
    /\ Settle(UNION {Matching([id |-> p, value |-> store[p]]) : p \in Streamed}, "confirmed")
    /\ UNCHANGED <<link, armed, busy, wire, batchActive, call, calls, events>>

Arm ==
    /\ link = "up" /\ Quiet /\ Spend
    /\ armed' = ~armed
    /\ UNCHANGED <<link, synced, busy, parameters, wire, batchActive, call, waiter, verdict,
                   calls>>

\* Mutant: a calibration does not look for a write in progress.
NeverBlocked == FALSE

\* guidedActionBlockReason: 'Finish the parameter write in progress first.'
CalibrationBlocked == batchActive

StartCalibration ==
    /\ link = "up" /\ synced /\ busy = "none" /\ ~CalibrationBlocked
    /\ Quiet /\ Spend
    /\ busy' = "calibration"
    /\ UNCHANGED <<link, synced, armed, parameters, wire, batchActive, call, waiter, verdict,
                   calls>>

\* evaluateMotorTestEligibility, which a batch in progress does not refuse.
StartMotorTest ==
    /\ GateOpen
    /\ Quiet /\ Spend
    /\ busy' = "motor-test"
    /\ UNCHANGED <<link, synced, armed, parameters, wire, batchActive, call, waiter, verdict,
                   calls>>

EndAction ==
    /\ busy # "none" /\ Quiet
    /\ busy' = "none"
    /\ UNCHANGED <<link, synced, armed, parameters, wire, batchActive, call, waiter, verdict,
                   calls, events>>
------------------------------------------------------------------------------
(* The flight controller and the wire (external).                          *)

Receive ==
    /\ up # <<>>
    /\ up' = Tail(up)
    /\ LET f == Head(up)
           settled == [id |-> f.id, value |-> Settles[f.id][f.value]]
       IN  IF f.id \in Answered
             THEN /\ store' = [store EXCEPT ![f.id] = settled.value]
                  /\ down' = IF link = "up" THEN Append(down, settled) ELSE down
             ELSE UNCHANGED <<store, down>>
    /\ UNCHANGED <<gate, parameters, batchActive, call, waiter, verdict, calls, events>>

EchoIsLost ==
    /\ down # <<>>
    /\ down' = Tail(down)
    /\ UNCHANGED <<gate, parameters, store, up, batchActive, call, waiter, verdict, calls,
                   events>>

Next ==
    \/ \E w \in Writer :
          \/ \E b \in Batch : StartBatch(w, b)
          \/ \E s \in Single : StartSingle(w, s)
          \/ Continue(w) \/ SendReaches(w) \/ SendIsLost(w) \/ SendFails(w)
          \/ Confirm(w) \/ Unverified(w) \/ VerifyTimeout(w)
    \/ Deliver \/ LinkDrop \/ Reconnect \/ Resync \/ SyncCompletes \/ Arm
    \/ StartCalibration \/ StartMotorTest \/ EndAction
    \/ Receive \/ EchoIsLost

Spec == Init /\ [][Next]_vars

(***************************************************************************)
(* Fairness.  Continuations and timers run, an awaited send settles one way  *)
(* or another, and a frame on the wire arrives or is lost.                  *)
(***************************************************************************)
Fairness ==
    /\ \A w \in Writer : /\ WF_vars(Continue(w)) /\ WF_vars(Confirm(w)) /\ WF_vars(Unverified(w))
                         /\ WF_vars(SendReaches(w) \/ SendIsLost(w) \/ SendFails(w))
                         /\ WF_vars(VerifyTimeout(w))
    /\ WF_vars(Receive) /\ WF_vars(Deliver \/ EchoIsLost)

FairSpec == Spec /\ Fairness
------------------------------------------------------------------------------
(* Properties.                                                             *)

\* Names whose state a finished call does not vouch for.
Doubtful(c) == {OnWire(id) : id \in c.unconfirmed \cup ({c.failed} \ {None})}

\* The places of the first and of the last verified write of each name.
Alike(c, i, j) == OnWire(c.applied[i].id) = OnWire(c.applied[j].id)
Vouched(c) == {i \in DOMAIN c.applied : OnWire(c.applied[i].id) \notin Doubtful(c)}
FirstOfEach(c) == {i \in Vouched(c) : \A j \in DOMAIN c.applied : Alike(c, i, j) => i <= j}
LastOfEach(c) == {i \in Vouched(c) : \A j \in DOMAIN c.applied : Alike(c, i, j) => j <= i}

\* What a call reports as verified, and did not roll back, is what the board
\* holds ("They remain on the vehicle exactly as written", setParameters).
VerifiedWritesStand ==
    \A w \in Writer : call[w].outcome \in {"ok", "noPrevious", "notAttempted"} =>
        \A i \in LastOfEach(call[w]) :
            store[OnWire(call[w].applied[i].id)] = call[w].applied[i].value

\* A batch that reports it rolled everything back leaves every name it wrote at
\* the value its first write of that name replaced, also where it wrote a name
\* twice or under both spellings ("Rolled back", setParameters).
RollbackRestores ==
    \A w \in Writer : call[w].outcome = "rolledBack" =>
        \A i \in FirstOfEach(call[w]) : call[w].applied[i].previous # None =>
            store[OnWire(call[w].applied[i].id)] = call[w].applied[i].previous

\* No calibration runs while a batch is being applied or rolled back: they
\* would share one write gate (runGuidedAction, "Mutual exclusion lives here").
CalibrationExcludesBatch ==
    busy = "calibration" =>
        \A w \in Writer : call[w].kind = "batch" => call[w].pc \notin {"sending", "verifying"}

\* A readback waiter belongs to a write that is still waiting: none leaks.
NoOrphanWaiter ==
    \A w \in Writer : waiter[w] # None => call[w].pc \in {"sending", "verifying"}

\* A PARAM_SET goes out under a name the board answers to, whichever of its
\* names the caller used (setParameter, "would misroute the write").
WritesAreRouted == \A i \in DOMAIN up : up[i].id \in Answered

\* Every call comes to an end, whatever is lost, refused or cut off.
CallsEnd ==
    \A w \in Writer : call[w].pc \notin {"idle", "done"} ~> call[w].pc \in {"idle", "done"}
==============================================================================
