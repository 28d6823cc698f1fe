------------------------------- MODULE CanNode -------------------------------
(***************************************************************************)
(* CanBusService (runtime-can-bus-service.ts) and one DroneCAN node behind *)
(* the MAVLink tunnel: the walk over the node's parameters, writes and     *)
(* Apply & Save with their retries, the SAVE watchdog, the change of the   *)
(* node's ID, and the lifecycle start/stop/reset.  Nodes are independent,  *)
(* so one stands for all.                                                  *)
(*                                                                         *)
(* A message is a reassembled transfer: a lost frame loses its transfer.   *)
(* The tunnel keeps the order and may lose anything, also what does not    *)
(* fit in it.  Lost messages, refused SAVEs and timers that fire while the *)
(* answer is under way are faults, of which there are few.                 *)
(*                                                                         *)
(* The node is external: it answers requests in order, keeps writes in     *)
(* RAM, and SAVE copies RAM to flash.                                      *)
(* Parameter values are 0 and 1; of the node ID parameter, 0 is the ID the *)
(* node has and 1 another one.                                             *)
(***************************************************************************)
EXTENDS Integers, Sequences, FiniteSets, SequencesExt

CONSTANTS
  Names,         \* the node's parameters, by index
  IdParam,       \* CAN_NODE
  Batches,       \* what Apply & Save is called with: sequences of writes
  Ops,           \* the calls the operator makes
  MaxWalkTries,  \* MAX_GET_SET_RETRIES
  MaxWriteTries, \* MAX_WRITE_RETRIES
  MaxSaveTries,  \* MAX_SAVE_RETRIES
  MaxOps,        \* bound: calls
  MaxEvents,     \* bound: calls and faults together
  MaxStarts,     \* bound: calls of start()
  MaxWire        \* bound: messages under way in each direction

Param == Range(Names)
Write == [name : Param, value : {0, 1}]

ASSUME NamesAssumption ==
  Names \in Seq(Param) /\ IdParam \in Param /\ \A i, j \in DOMAIN Names : Names[i] = Names[j] => i = j
ASSUME BatchAssumption ==
  Batches \subseteq {b \in Seq(Write) : \A i, j \in DOMAIN b : b[i].name = b[j].name => i = j}
ASSUME TriesAssumption ==
  MaxWalkTries \in Nat /\ MaxWriteTries \in Nat \ {0} /\ MaxSaveTries \in Nat \ {0}
ASSUME WireAssumption == MaxWire \in Nat

VARIABLES
  status,       \* status of the service
  calls,        \* start() and stop() that wait for their send
  known,        \* nodes has the node
  walk,         \* [status, next, tries, held]: paramFetch and the names in parameters
  pending,      \* pendingWrites of the node: value and tries by name
  saveAfter,    \* saveAfterWrites has the node
  refetchAfter, \* refetchAfterSave has the node
  restartAfter, \* restartAfterSave: the new ID, or NoId
  saving,       \* saveAttempts: 0 when no SAVE is pending and no watchdog armed
  loops,        \* applyAndSave calls that have writes left to send
  dropping,     \* restartNode of an ID change is being awaited
  up, down,     \* requests and answers under way
  node,         \* [here, ram, flash]
  job,          \* the last call of applyAndSave
  cleanWalk,    \* no answer to an earlier walk was due when this one began
  used          \* calls, starts and faults so far

queues == <<pending, saveAfter, refetchAfter, restartAfter, saving>>
vars == <<status, calls, known, walk, queues, loops, dropping, up, down, node, job, cleanWalk, used>>

NoId == 2
NoWrites == [n \in {} |-> 0]
NoWalk == [status |-> "idle", next |-> 0, tries |-> 0, held |-> {}]
NoJob == [writes |-> {}, alone |-> FALSE, saved |-> FALSE]

Init ==
  /\ status = "idle" /\ calls = [start |-> 0, stop |-> 0]
  /\ known = FALSE /\ walk = NoWalk
  /\ pending = NoWrites /\ saveAfter = FALSE /\ refetchAfter = FALSE
  /\ restartAfter = NoId /\ saving = 0
  /\ loops = <<>> /\ dropping = FALSE /\ up = <<>> /\ down = <<>>
  /\ node = [here |-> TRUE, ram |-> [n \in Param |-> 0], flash |-> [n \in Param |-> 0]]
  /\ job = NoJob /\ cleanWalk = FALSE
  /\ used = [ops |-> 0, starts |-> 0, faults |-> 0]

------------------------------------------------------------------------------
(* The tunnel.                                                              *)

Fitting(q, ms) == SubSeq(q \o ms, 1, IF Len(q \o ms) < MaxWire THEN Len(q \o ms) ELSE MaxWire)

\* sendServiceCall: nothing leaves unless the bus is forwarded.
Sends(ms) == up' = IF status = "active" THEN Fitting(up, ms) ELSE up

ReadOf(i) == [kind |-> "read", index |-> i]
WriteOf(n, v) == [kind |-> "write", name |-> n, value |-> v]
Save == [kind |-> "save"]
Restart == [kind |-> "restart"]

Fault == used.ops + used.faults < MaxEvents /\ used' = [used EXCEPT !.faults = @ + 1]

\* A timer fires: in silence, or while something is under way.
Fires == IF up = <<>> /\ down = <<>> THEN UNCHANGED used ELSE Fault

Reading == (\E i \in DOMAIN up : up[i].kind = "read") \/ (\E i \in DOMAIN down : down[i].kind = "end")

------------------------------------------------------------------------------
(* Pieces of the handlers.                                                  *)

\* fetchAllParameters, and the first sighting of a node: the walk starts over.
\* handleNodeStatus leaves what parameters already holds.
WalkBegins(held) ==
  /\ walk' = [status |-> "fetching", next |-> 0, tries |-> 0, held |-> held]
  /\ cleanWalk' = ~Reading

\* Mutant: a write is registered when its turn to be sent comes.
PutFirst(ws, b) == [n \in DOMAIN ws \cup {b[1].name} |->
                      IF n = b[1].name THEN [value |-> b[1].value, tries |-> 1] ELSE ws[n]]

\* pendingWrites.set, for every write of a batch before the first is sent.
PutAll(ws, b) ==
  [n \in DOMAIN ws \cup {w.name : w \in Range(b)} |->
     IF \E w \in Range(b) : w.name = n
     THEN [value |-> (CHOOSE w \in Range(b) : w.name = n).value, tries |-> 1]
     ELSE ws[n]]

\* What is left of the pending writes without the names in ns.
Without(ws, ns) == [n \in DOMAIN ws \ ns |-> ws[n]]

\* Mutant: a repeated answer moves the walk on.
AnyName(n) == TRUE

\* A name that the walk has not shown yet.
Fresh(n) == n \notin walk.held

\* A call of the operator.
Calls(op) ==
  /\ op \in Ops /\ used.ops < MaxOps /\ used.ops + used.faults < MaxEvents
  /\ used' = [used EXCEPT !.ops = @ + 1]

\* Nothing else of the node is under way when Apply & Save is called, and the
\* walk is over and has shown what it writes.
Alone(b) ==
  /\ status = "active" /\ calls = [start |-> 0, stop |-> 0] /\ ~dropping
  /\ walk.status \in {"complete", "stopped"} /\ DOMAIN pending = {} /\ saving = 0 /\ loops = <<>>
  /\ up = <<>> /\ down = <<>>
  /\ \A i \in DOMAIN b : b[i].name \in walk.held

\* applyAndSave: every write is registered before the first is sent.
ApplyAndSave(b) ==
  /\ refetchAfter' = TRUE
  /\ job' = [writes |-> Range(b), alone |-> Alone(b), saved |-> FALSE]
  /\ IF b = <<>>
     THEN /\ saving' = 1 /\ Sends(<<Save>>)
          /\ UNCHANGED <<saveAfter, pending, loops>>
     ELSE /\ saveAfter' = TRUE /\ pending' = PutAll(pending, b)
          /\ Sends(<<WriteOf(Head(b).name, Head(b).value)>>)
          /\ loops' = IF Len(b) > 1 THEN Append(loops, Tail(b)) ELSE loops
          /\ UNCHANGED saving

------------------------------------------------------------------------------
(* Calls of the operator.  A call for a node that is not there reports an   *)
(* error; saveParameters also forgets a SAVE that is pending.               *)

CallApply(b) ==
  /\ Calls("apply") /\ known /\ ApplyAndSave(b)
  /\ UNCHANGED <<status, calls, known, walk, restartAfter, dropping, down, node, cleanWalk>>

CallWrite(w) ==
  /\ Calls("write") /\ known
  /\ pending' = PutAll(pending, <<w>>) /\ Sends(<<WriteOf(w.name, w.value)>>) /\ job' = NoJob
  /\ UNCHANGED <<status, calls, known, walk, saveAfter, refetchAfter, restartAfter, saving,
                 loops, dropping, down, node, cleanWalk>>

CallSave ==
  /\ Calls("save") /\ job' = NoJob
  /\ IF known THEN saving' = 1 /\ Sends(<<Save>>) ELSE saving' = 0 /\ UNCHANGED up
  /\ UNCHANGED <<status, calls, known, walk, pending, saveAfter, refetchAfter, restartAfter,
                 loops, dropping, down, node, cleanWalk>>

CallChangeNodeId(v) ==
  /\ Calls("changeNodeId") /\ known /\ IdParam \in walk.held
  /\ restartAfter' = v
  /\ ApplyAndSave(<<[name |-> IdParam, value |-> v]>>)
  /\ UNCHANGED <<status, calls, known, walk, dropping, down, node, cleanWalk>>

CallRestart ==
  /\ Calls("restart") /\ known /\ Sends(<<Restart>>) /\ job' = NoJob
  /\ UNCHANGED <<status, calls, known, walk, queues, loops, dropping, down, node, cleanWalk>>

CallFetchAll ==
  /\ Calls("fetchAll") /\ known
  /\ WalkBegins({}) /\ Sends(<<ReadOf(0)>>) /\ job' = NoJob
  /\ UNCHANGED <<status, calls, known, queues, loops, dropping, down, node>>

\* applyAndSave goes on with its next write.
SendNext(i) ==
  /\ Sends(<<WriteOf(Head(loops[i]).name, Head(loops[i]).value)>>)
  /\ loops' = IF Len(loops[i]) > 1 THEN [loops EXCEPT ![i] = Tail(@)] ELSE RemoveAt(loops, i)
  /\ UNCHANGED <<status, calls, known, walk, queues, dropping, down, node, job, cleanWalk, used>>

\* The restart of an ID change has been sent: the old entry goes.
DropEntry ==
  /\ dropping /\ dropping' = FALSE /\ known' = FALSE /\ walk' = NoWalk /\ cleanWalk' = FALSE
  /\ UNCHANGED <<status, calls, queues, loops, up, down, node, job, used>>

------------------------------------------------------------------------------
(* Lifecycle.  stop() and reset() leave restartAfterSave alone, start()     *)
(* clears the nodes only.                                                   *)

CallStart ==
  /\ status # "active" /\ used.starts < MaxStarts
  /\ status' = "requesting" /\ calls' = [calls EXCEPT !.start = @ + 1]
  /\ used' = [used EXCEPT !.starts = @ + 1]
  /\ UNCHANGED <<known, walk, queues, loops, dropping, up, down, node, job, cleanWalk>>

StartSent ==
  /\ calls.start > 0 /\ calls' = [calls EXCEPT !.start = @ - 1]
  /\ status' = "active" /\ known' = FALSE /\ walk' = NoWalk /\ cleanWalk' = FALSE /\ job' = NoJob
  /\ UNCHANGED <<queues, loops, dropping, up, down, node, used>>

StartFails ==
  /\ calls.start > 0 /\ calls' = [calls EXCEPT !.start = @ - 1] /\ status' = "idle"
  /\ UNCHANGED <<known, walk, queues, loops, dropping, up, down, node, job, cleanWalk, used>>

CallStop ==
  /\ Calls("stop") /\ status # "idle"
  /\ status' = "stopping" /\ calls' = [calls EXCEPT !.stop = @ + 1]
  /\ UNCHANGED <<known, walk, queues, loops, dropping, up, down, node, job, cleanWalk>>

Clears ==
  /\ status' = "idle" /\ known' = FALSE /\ walk' = NoWalk /\ cleanWalk' = FALSE /\ job' = NoJob
  /\ pending' = NoWrites /\ saveAfter' = FALSE /\ refetchAfter' = FALSE /\ saving' = 0
  /\ UNCHANGED <<restartAfter, loops, dropping, up, down, node>>

StopSent == calls.stop > 0 /\ calls' = [calls EXCEPT !.stop = @ - 1] /\ Clears /\ UNCHANGED used

Reset == Calls("reset") /\ status # "idle" /\ Clears /\ UNCHANGED calls

------------------------------------------------------------------------------
(* Timers.                                                                  *)

\* tick: the writes in due have waited long enough, and so has the walk if
\* walkDue.  A write out of tries takes the SAVE and the re-fetch with it.
Tick(due, walkDue) ==
  LET spent == {n \in due : pending[n].tries >= MaxWriteTries}
      tries == walk.tries + 1
      asks == walkDue /\ tries <= MaxWalkTries
  IN /\ status = "active" /\ Fires
     /\ due # {} \/ walkDue
     /\ walkDue => walk.status = "fetching"
     /\ pending' = [n \in DOMAIN pending \ spent |->
                      [pending[n] EXCEPT !.tries = IF n \in due THEN @ + 1 ELSE @]]
     /\ saveAfter' = (saveAfter /\ spent = {})
     /\ refetchAfter' = (refetchAfter /\ spent = {})
     /\ walk' = IF ~walkDue THEN walk
                ELSE IF asks THEN [walk EXCEPT !.tries = tries]
                ELSE [walk EXCEPT !.status = "stopped", !.tries = 0]
     /\ \E again \in SetToSeqs(due \ spent) :
          Sends([k \in DOMAIN again |-> WriteOf(again[k], pending[again[k]].value)]
                \o IF asks THEN <<ReadOf(walk.next)>> ELSE <<>>)
     /\ UNCHANGED <<status, calls, known, restartAfter, saving, loops, dropping, down, node,
                    job, cleanWalk>>

\* Mutant: a SAVE that is sent again is not watched any more.
WatchedOnce ==
  /\ saving = 1 /\ Fires
  /\ IF status = "active" THEN saving' = 2 /\ Sends(<<Save>>) ELSE saving' = 0 /\ UNCHANGED up
  /\ UNCHANGED <<status, calls, known, walk, pending, saveAfter, refetchAfter, restartAfter,
                 loops, dropping, down, node, job, cleanWalk>>

\* The watchdog of a SAVE: again, or give up.
SaveAckTimeout ==
  /\ saving > 0 /\ Fires
  /\ IF saving < MaxSaveTries /\ status = "active"
     THEN saving' = saving + 1 /\ Sends(<<Save>>)
     ELSE saving' = 0 /\ UNCHANGED up
  /\ UNCHANGED <<status, calls, known, walk, pending, saveAfter, refetchAfter, restartAfter,
                 loops, dropping, down, node, job, cleanWalk>>

------------------------------------------------------------------------------
(* What the node sends.                                                     *)

\* handleNodeStatus: a first sighting begins the walk.
NodeStatus ==
  /\ status = "active" /\ node.here
  /\ ~known \/ walk.status = "idle"
  /\ known' = TRUE
  /\ WalkBegins(walk.held) /\ Sends(<<ReadOf(0)>>)
  /\ UNCHANGED <<status, calls, queues, loops, dropping, down, node, job, used>>

\* handleGetSetResponse with a name: any answer that names a parameter counts as
\* the echo of its write, and a name that is new moves the walk on.
OnParam(n) ==
  LET left == Without(pending, {n})
      saves == saveAfter /\ DOMAIN left = {}
  IN /\ known' = TRUE /\ pending' = left
     /\ saveAfter' = (saveAfter /\ ~saves)
     /\ saving' = IF saves THEN 1 ELSE saving
     /\ walk' = IF Fresh(n) THEN [walk EXCEPT !.held = @ \cup {n}, !.next = @ + 1, !.tries = 0]
                ELSE walk
     /\ Sends((IF saves THEN <<Save>> ELSE <<>>)
              \o IF Fresh(n) THEN <<ReadOf(walk.next + 1)>> ELSE <<>>)
     /\ UNCHANGED <<refetchAfter, restartAfter, dropping, job, cleanWalk>>

\* The empty name that ends the list.  An error of the walk stays.
OnEnd ==
  /\ known' = TRUE
  /\ walk' = [walk EXCEPT !.status = IF @ = "stopped" THEN @ ELSE "complete"]
  /\ UNCHANGED <<queues, dropping, up, job, cleanWalk>>

\* handleExecuteOpcodeResponse: the ID change restarts the node, Apply & Save
\* walks it again.
OnSaved(ok) ==
  IF saving = 0 THEN UNCHANGED <<known, walk, queues, dropping, up, job, cleanWalk>>
  ELSE /\ saving' = 0 /\ restartAfter' = NoId /\ refetchAfter' = FALSE
       /\ job' = [job EXCEPT !.saved = ok]
       /\ IF restartAfter # NoId /\ ok
          THEN /\ IF known THEN Sends(<<Restart>>) ELSE UNCHANGED up
               /\ dropping' = (dropping \/ restartAfter # 0)
               /\ UNCHANGED <<walk, cleanWalk>>
          ELSE /\ IF refetchAfter /\ ok /\ known
                  THEN WalkBegins({}) /\ Sends(<<ReadOf(0)>>)
                  ELSE UNCHANGED <<walk, cleanWalk, up>>
               /\ UNCHANGED dropping
       /\ UNCHANGED <<known, pending, saveAfter>>

\* processCanFrame: what comes while the bus is not forwarded is dropped.
Receive ==
  /\ down # <<>> /\ down' = Tail(down)
  /\ IF status # "active" THEN UNCHANGED <<known, walk, queues, dropping, up, job, cleanWalk>>
     ELSE LET m == Head(down)
          IN \/ m.kind = "param" /\ OnParam(m.name)
             \/ m.kind = "end" /\ OnEnd
             \/ m.kind = "saved" /\ OnSaved(m.ok)
  /\ UNCHANGED <<status, calls, loops, node, used>>

------------------------------------------------------------------------------
(* External: the node and the tunnel.                                       *)

Answers(m) == down' = Fitting(down, <<m>>)

NodeServes ==
  /\ up # <<>> /\ up' = Tail(up)
  /\ LET m == Head(up)
     IN \/ ~node.here /\ UNCHANGED <<node, down, used>>
        \/ /\ node.here /\ m.kind = "read" /\ UNCHANGED <<node, used>>
           /\ Answers(IF m.index < Len(Names) THEN [kind |-> "param", name |-> Names[m.index + 1]]
                                              ELSE [kind |-> "end"])
        \/ /\ node.here /\ m.kind = "write" /\ UNCHANGED used
           /\ node' = [node EXCEPT !.ram[m.name] = m.value]
           /\ Answers([kind |-> "param", name |-> m.name])
        \/ /\ node.here /\ m.kind = "save" /\ UNCHANGED used
           /\ node' = [node EXCEPT !.flash = node.ram]
           /\ Answers([kind |-> "saved", ok |-> TRUE])
        \/ /\ node.here /\ m.kind = "save" /\ Fault
           /\ Answers([kind |-> "saved", ok |-> FALSE]) /\ UNCHANGED node
        \/ /\ node.here /\ m.kind = "restart" /\ UNCHANGED <<down, used>>
           /\ node' = [node EXCEPT !.here = (node.flash[IdParam] = 0), !.ram = node.flash]
  /\ UNCHANGED <<status, calls, known, walk, queues, loops, dropping, job, cleanWalk>>

Lose ==
  /\ Fault
  /\ \/ up # <<>> /\ up' = Tail(up) /\ UNCHANGED down
     \/ down # <<>> /\ down' = Tail(down) /\ UNCHANGED up
  /\ UNCHANGED <<status, calls, known, walk, queues, loops, dropping, node, job, cleanWalk>>

------------------------------------------------------------------------------
Operator ==
  \/ \E b \in Batches : CallApply(b)
  \/ \E b \in Batches : Len(b) = 1 /\ CallWrite(b[1])
  \/ \E v \in {0, 1} : CallChangeNodeId(v)
  \/ CallSave \/ CallRestart \/ CallFetchAll

Runs ==
  \/ \E i \in DOMAIN loops : SendNext(i)
  \/ DropEntry
  \/ CallStart \/ StartSent \/ StartFails \/ CallStop
  \/ \E due \in SUBSET DOMAIN pending, walkDue \in BOOLEAN : Tick(due, walkDue)
  \/ SaveAckTimeout
  \/ NodeStatus \/ Receive \/ NodeServes \/ Lose

Clearing == StopSent \/ Reset

Proceeds ==
  \/ Tick(DOMAIN pending, walk.status = "fetching") \/ SaveAckTimeout
  \/ StartSent \/ StartFails \/ StopSent
  \/ NodeServes \/ Receive \/ Lose

------------------------------------------------------------------------------
(* Properties.                                                              *)

\* An Apply & Save that nothing else disturbs is reported as saved only when the
\* node's flash holds every value of it, whatever was lost, repeated or given up
\* (applyAndSave, "so flash captures the new values, not stale ones").
SavedBatchInFlash ==
  job.alone /\ job.saved => \A w \in job.writes : node.flash[w.name] = w.value

\* A walk that ends without an error has shown every parameter of the node,
\* unless an answer to an earlier walk was still due when it began
\* (handleGetSetResponse, "can't skip an index").
CompleteWalkIsWhole == walk.status = "complete" /\ cleanWalk => walk.held = Param

\* A SAVE that waits for writes has writes to wait for: no Apply & Save is left
\* with its writes acknowledged and no SAVE to come.
SaveAwaitsWrites == saveAfter => DOMAIN pending # {}

\* A walk, a write or a SAVE is in progress.
InProgress == walk.status = "fetching" \/ DOMAIN pending # {} \/ saveAfter \/ saving > 0
==============================================================================
