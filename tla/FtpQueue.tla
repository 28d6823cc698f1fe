------------------------------ MODULE FtpQueue ------------------------------
(***************************************************************************)
(* The queue of MavftpService (runtime-mavftp-service.ts): every public    *)
(* operation goes through withExclusiveSession, which chains a promise,    *)
(* its link, to the link of the call before it.                            *)
(*                                                                         *)
(* A link goes through three stages.  It is "chained" until the link       *)
(* before it resolves; then its own promise is created and it is "held",   *)
(* until release() resolves it.  release() runs in the finally of the      *)
(* operation, which a caller that gave up in awaitPredecessor never        *)
(* enters.                                                                 *)
(*                                                                         *)
(* Silence is measured from lastTransferActivityAtMs, which send() stamps  *)
(* and sendBurstReadRequest does not.                                      *)
(***************************************************************************)
EXTENDS Naturals

CONSTANT MaxCalls     \* bound: operations asked for in one behaviour

ASSUME MaxCallsAssumption == MaxCalls \in Nat \ {0}

VARIABLES
  phase,          \* how far the promise of each call has come
  transferQueue,  \* the link each call put on transferQueue
  kind,           \* "plain": requests that wait for a reply; "burst": a stream
  activity,       \* lastTransferActivityAtMs: "never", "recent", or "silent" for
                  \* at least queueStallTimeoutMs
  wedged          \* calls whose session.send never settles

queueVars == <<phase, transferQueue, kind, activity, wedged>>

Calls == 1..MaxCalls
Phases == {"unasked", "waiting", "running", "done", "refused"}
Links == {"none", "chained", "held", "resolved"}
CallKinds == {"plain", "burst"}

TypeOK ==
  /\ phase \in [Calls -> Phases]
  /\ transferQueue \in [Calls -> Links]
  /\ kind \in [Calls -> CallKinds]
  /\ activity \in {"never", "recent", "silent"}
  /\ wedged \subseteq Calls

QueueInit ==
  /\ phase = [c \in Calls |-> "unasked"]
  /\ transferQueue = [c \in Calls |-> "none"]
  /\ kind \in [Calls -> CallKinds]
  /\ activity = "never"
  /\ wedged = {}

(* The promise the call found in transferQueue has resolved; the first     *)
(* call finds Promise.resolve().                                           *)
PredecessorResolved(c) == c > 1 => transferQueue[c - 1] = "resolved"

IsLatest(c) ==
  /\ phase[c] = "unasked"
  /\ \A d \in Calls : d < c => phase[d] # "unasked"

-----------------------------------------------------------------------------
(* withExclusiveSession up to its first await. *)
Ask(c) ==
  /\ IsLatest(c)
  /\ phase' = [phase EXCEPT ![c] = "waiting"]
  /\ transferQueue' = [transferQueue EXCEPT ![c] = "chained"]
  /\ UNCHANGED <<kind, activity, wedged>>

(* The callback of predecessor.then: the promise behind the link exists,   *)
(* and release resolves it.                                                *)
Hold(c) ==
  /\ transferQueue[c] = "chained"
  /\ PredecessorResolved(c)
  /\ transferQueue' = [transferQueue EXCEPT ![c] = "held"]
  /\ UNCHANGED <<phase, kind, activity, wedged>>

(* awaitPredecessor returns, and the operation starts. *)
Enter(c) ==
  /\ phase[c] = "waiting"
  /\ PredecessorResolved(c)
  /\ transferQueue[c] = "held"
  /\ phase' = [phase EXCEPT ![c] = "running"]
  /\ UNCHANGED <<transferQueue, kind, activity, wedged>>

(* Silence is counted from the last stamp, and not before the first. *)
NeverStalled == FALSE
Stalled == activity = "silent"

(* Nothing releases the link of a caller that gives up. *)
ReleasedByWaiter(c) == [transferQueue EXCEPT ![c] = "resolved"]
LinkAfterGiveUp(c) == transferQueue

(* The timer of awaitPredecessor finds that nothing was sent for           *)
(* queueStallTimeoutMs.  Promise callbacks run before timers, so the       *)
(* predecessor has not resolved.                                           *)
GiveUp(c) ==
  /\ phase[c] = "waiting"
  /\ ~PredecessorResolved(c)
  /\ Stalled
  /\ phase' = [phase EXCEPT ![c] = "refused"]
  /\ transferQueue' = LinkAfterGiveUp(c)
  /\ UNCHANGED <<kind, activity, wedged>>

(* The operation settles, in success, in failure or because cancelAll      *)
(* rejected what it waits for, and release() runs in its finally.          *)
Return(c) ==
  /\ phase[c] = "running"
  /\ c \notin wedged
  /\ phase' = [phase EXCEPT ![c] = "done"]
  /\ transferQueue' = [transferQueue EXCEPT ![c] = "resolved"]
  /\ UNCHANGED <<kind, activity, wedged>>

(* The operation sends a request through send(), which stamps; a burst     *)
(* does so for its open and its close only, so that its stream may last    *)
(* for any time after a stamp.                                             *)
Send(c) ==
  /\ phase[c] = "running"
  /\ c \notin wedged
  /\ activity' = "recent"
  /\ UNCHANGED <<phase, transferQueue, kind, wedged>>

(* The transport write of send() stalls.  A link drop rejects the waiter   *)
(* of the request, but the operation still awaits the write.               *)
Wedge(c) ==
  /\ phase[c] = "running"
  /\ c \notin wedged
  /\ wedged' = wedged \cup {c}
  /\ activity' = "recent"
  /\ UNCHANGED <<phase, transferQueue, kind>>

(* queueStallTimeoutMs go by without a stamp: the holder is wedged, or it  *)
(* streams a burst, or nobody holds the session.  A request of a plain     *)
(* operation times out, and is followed by another, long before.           *)
FallSilent ==
  /\ activity = "recent"
  /\ \A c \in Calls : phase[c] = "running" => c \in wedged \/ kind[c] = "burst"
  /\ activity' = "silent"
  /\ UNCHANGED <<phase, transferQueue, kind, wedged>>

QueueNext ==
  \/ \E c \in Calls : \/ Ask(c) \/ Hold(c) \/ Enter(c) \/ GiveUp(c)
                        \/ Return(c) \/ Send(c) \/ Wedge(c)
  \/ FallSilent

QueueSpec == QueueInit /\ [][QueueNext]_queueVars

(* Promise callbacks run, timers fire and the clock advances.  Every       *)
(* request and every burst is bounded by a timer of its own, so an         *)
(* operation whose writes settle returns.                                  *)
Fairness ==
  /\ WF_queueVars(FallSilent)
  /\ \A c \in Calls : WF_queueVars(Hold(c) \/ Enter(c) \/ GiveUp(c) \/ Return(c))

FairQueueSpec == QueueSpec /\ Fairness

-----------------------------------------------------------------------------
(* The queue implements the exclusive session: no operation starts while   *)
(* another holds session 0, whatever gave up before it                     *)
(* (withExclusiveSession, "Strictly one at a time").                       *)
Exclusive == INSTANCE ExclusiveSession WITH state <- phase
OneConversation == Exclusive!Spec

(* A waiter is never left hanging: it enters, or the silence of what it    *)
(* waits for makes it give up, also behind a transport write that never    *)
(* settles and behind callers that gave up themselves (awaitPredecessor,   *)
(* "but not forever").                                                     *)
EveryWaiterLeaves == \A c \in Calls : phase[c] = "waiting" ~> phase[c] # "waiting"

(* "The queue link resolves only from the finally below, so it can never   *)
(* reject and never needs a rejection handler to stay unbroken": when      *)
(* calls wait, one of them can enter or some operation holds the session.  *)
ChainUnbroken ==
  (\E c \in Calls : phase[c] = "waiting") =>
    \E d \in Calls : \/ phase[d] = "running"
                     \/ phase[d] = "waiting" /\ PredecessorResolved(d)
=============================================================================
