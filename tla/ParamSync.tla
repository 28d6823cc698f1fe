------------------------------ MODULE ParamSync ------------------------------
(***************************************************************************)
(* The parameter download of ArduPilotConfiguratorRuntime                  *)
(* (packages/ardupilot-core/src/runtime.ts): the link, the vehicle that     *)
(* identifies itself by heartbeat, the table that PARAM_VALUE frames fill,   *)
(* the stall-retry timer with its by-index gap-fill, and the table that is  *)
(* retained when a link drops and resumed when it returns.                  *)
(*                                                                         *)
(* The flight controller is external.  It runs an image: a parameter table  *)
(* (a sequence of names, position k+1 holding index k) and the identity its *)
(* heartbeat carries.  Frames may be lost in both directions; those of one  *)
(* image may overtake each other, but a link delivers what an image sent    *)
(* before what its successor sends.  The value of a parameter is abstracted *)
(* to the image it was read from, which is what the properties tell apart.  *)
(*                                                                         *)
(* Time is abstracted: a timer may fire whenever it is armed.  What runs    *)
(* between two awaits is one step; each awaited send is a step of its own.  *)
(***************************************************************************)
EXTENDS Integers, Sequences, FiniteSets, Functions

CONSTANTS
    ParamId,       \* parameter names
    Alias,         \* [ParamId -> ParamId \cup {None}]: the other name of a renamed parameter
    Image,         \* firmware images a board may run
    TableOf,       \* [Image -> Seq(ParamId)]: the table an image reports
    KeyOf,         \* [Image -> Key]: staleLinkKey of its heartbeat
    LineOf,        \* [Image -> ...]: images of one board and build share a line
    Grows,         \* pairs of images: a booting board that registers more parameters
    Reboots,       \* pairs of images: a reboot that the link survives
    Swaps,         \* pairs of images: what a link that was down may find instead
    None,
    MaxGapFill,    \* MAX_PARAMETER_GAP_FILL_PER_PASS
    MinMissing,    \* MIN_MISSING_FOR_FRACTION_RESTREAM
    MaxEvents      \* bound: link, board and operator events in a behaviour

Key == {KeyOf[img] : img \in Image}
NoIndex == 65535
WholeTable == -1

ASSUME ImageAssumption ==
    /\ IsFiniteSet(ParamId)
    /\ Alias \in [ParamId -> ParamId \cup {None}]
    /\ \A img \in Image :
          /\ IsInjective(TableOf[img])
          /\ TableOf[img] \in Seq(ParamId)
          /\ Len(TableOf[img]) \in 1..(NoIndex - 1)
    /\ Grows \in SUBSET (Image \X Image)
    /\ \A g \in Grows : /\ Range(TableOf[g[1]]) \subseteq Range(TableOf[g[2]])
                        /\ Len(TableOf[g[1]]) < Len(TableOf[g[2]])
    /\ Reboots \in SUBSET (Image \X Image)
    /\ Swaps \in SUBSET (Image \X Image)
    /\ \A g \in Grows \cup Reboots : KeyOf[g[1]] = KeyOf[g[2]]

ASSUME NoneAssumption ==
    None \notin Image /\ None \notin Key /\ None \notin ParamId /\ None \notin Nat

ASSUME BoundAssumption ==
    MaxGapFill \in Nat \ {0} /\ MinMissing \in Nat /\ MaxEvents \in Nat

VARIABLES
    link,                 \* connection.kind: "up" is connected, "down" every other kind
    fc,                   \* the image at the other end of the wire (external)
    air,                  \* PARAM_VALUE frames the board has queued or sent (external)
    vehicle,              \* this.vehicle: the identity heard, or None
    parameters,           \* the table, alias mirrors included; None where absent
    realIds,              \* realParameterIdsReceived
    indices,              \* receivedParameterIndices
    total,                \* totalParameters
    tableGrew,            \* parameterTableGrewDuringSync
    status,               \* parameterSync.status
    resumedTotal,         \* parameterSyncResumedTotal
    staleLink,            \* staleLink, or None
    retryTimer,           \* parameterSyncRetryTimer is armed
    lastRetryDownloaded,  \* parameterSyncLastRetryDownloaded
    gapFillActive,        \* parameterSyncGapFillActive
    action,               \* status of the 'request-parameters' guided action
    request,              \* the requestParameterList() call in progress
    sends,                \* what each caller has still to send: indices, or WholeTable
    doneImage,            \* history: the image whose frame last completed the table
    events                \* events left

wire    == <<link, fc, air>>
table   == <<parameters, realIds, indices, total, tableGrew>>
sync    == <<status, resumedTotal, retryTimer, lastRetryDownloaded, gapFillActive>>
calls   == <<action, request, sends>>
vars    == <<wire, vehicle, table, sync, staleLink, calls, doneImage, events>>

Frame  == [img : Image, id : ParamId, idx : Nat]
Syncing == {"requesting", "streaming"}
Request == [pc : {"none", "waiting", "resolved", "sending"}, fresh : BOOLEAN]
Idle    == [pc |-> "none", fresh |-> FALSE]

StaleLink == [key : Key, downloaded : Nat, total : Nat, expired : BOOLEAN]

WireType ==
    /\ link \in {"up", "down"}
    /\ fc \in Image
    /\ air \subseteq Frame
    /\ vehicle \in Key \cup {None}

TableType ==
    /\ parameters \in [ParamId -> Image \cup {None}]
    /\ realIds \subseteq ParamId
    /\ indices \subseteq Nat
    /\ total \in Nat
    /\ tableGrew \in BOOLEAN

SyncType ==
    /\ status \in {"idle", "awaiting-vehicle", "complete"} \cup Syncing
    /\ resumedTotal \in Nat \cup {None}
    /\ staleLink \in StaleLink \cup {None}
    /\ retryTimer \in BOOLEAN
    /\ lastRetryDownloaded \in Nat
    /\ gapFillActive \in BOOLEAN

CallsType ==
    /\ action \in {"idle", "requested", "running", "succeeded", "failed"}
    /\ request \in Request
    /\ sends \in [{"request", "retry"} -> SUBSET Int]
    /\ doneImage \in Image \cup {None}
    /\ events \in 0..MaxEvents

\* Every variable keeps its type.
TypeOK == WireType /\ TableType /\ SyncType /\ CallsType
------------------------------------------------------------------------------
(* Helpers.                                                                *)

NoParameters == [id \in ParamId |-> None]
Stored(ps) == {id \in ParamId : ps[id] # None}
Count(img) == Len(TableOf[img])

\* The frames with which the board answers a request for these slots.
Frames(img, slots) ==
    {[img |-> img, id |-> TableOf[img][k + 1], idx |-> k] :
        k \in IF WholeTable \in slots THEN 0..(Count(img) - 1)
                                      ELSE slots \cap (0..(Count(img) - 1))}

\* parameters.set under the reported name and under its alias.
Mirrored(ps, id, img) ==
    [p \in ParamId |-> IF p = id \/ p = Alias[id] THEN img ELSE ps[p]]

MissingIndices(seen, n) == {k \in 0..(n - 1) : k \notin seen}

\* Mutant: mirrors count as downloaded.
DownloadedWithMirrors(real, ps) == Cardinality(Stored(ps))

\* The completion gate counts the names the board streamed, never the mirrors.
Downloaded(real, ps) == Cardinality(real)

\* Mutant: a resumed download is never settled.
NeverRefuted(count) == FALSE

\* The first PARAM_VALUE of a resumed download settles whether it still fits.
ResumeRefuted(count) == resumedTotal # None /\ resumedTotal # count

CanResumeStaleLink(key) ==
    /\ staleLink # None
    /\ staleLink.key = key
    /\ staleLink.total > 0
    /\ staleLink.downloaded < staleLink.total
    /\ ~staleLink.expired

\* Mutant: the heartbeat does not look at the retained table.
NeverAlien(key) == FALSE

\* Retained values belong to another board than the one that has identified itself.
Alien(key) == staleLink # None /\ staleLink.key # key

GapTooLargeToFill(missing) ==
    \/ tableGrew
    \/ Cardinality(missing) > MaxGapFill
    \/ /\ total > 0
       /\ Cardinality(missing) >= MinMissing
       /\ 5 * Cardinality(missing) > total

ClearTable ==
    /\ parameters' = NoParameters
    /\ realIds' = {}
    /\ indices' = {}
    /\ total' = 0
    /\ tableGrew' = FALSE

\* markStaleLink: the marker outlives the resets of a link that never identified.
MarkedStaleLink ==
    IF vehicle = None \/ Stored(parameters) = {}
      THEN staleLink
      ELSE [key |-> vehicle, downloaded |-> Cardinality(realIds),
            total |-> total, expired |-> FALSE]

\* The scalars resetLiveState() clears; the table itself is retained.
ResetLiveState ==
    /\ vehicle' = None
    /\ lastRetryDownloaded' = 0
    /\ gapFillActive' = FALSE
    /\ resumedTotal' = None
    /\ retryTimer' = FALSE
    /\ tableGrew' = FALSE

\* Mutant: the stall timer is armed whatever the download does.
AlwaysScheduled == TRUE

\* scheduleParameterSyncRetry arms the stall timer only for a download in progress.
Scheduled == status \in Syncing

\* Mutant: the retry counts mirrors, as if they were downloaded.
MootWithMirrors ==
    \/ vehicle = None
    \/ status \notin Syncing
    \/ (Cardinality(Stored(parameters)) >= total /\ total > 0)

\* The early return of retryParameterSync.
RetryIsMoot ==
    \/ vehicle = None
    \/ status \notin Syncing
    \/ (Downloaded(realIds, parameters) >= total /\ total > 0)

\* Mutant: an incomplete table reopens a finished download.
NeverSticky(isComplete, refuted) == FALSE

\* A passive PARAM_VALUE does not reopen a finished download.
Sticky(isComplete, refuted) == ~isComplete /\ ~refuted /\ status = "complete"

\* Mutant: a passive PARAM_VALUE reports a download again.
ActionAlwaysFollows(isComplete, sticky) == IF isComplete THEN "succeeded" ELSE "running"

\* What processParamValue leaves in the 'request-parameters' guided action.
ActionAfter(isComplete, sticky) ==
    IF sticky THEN action ELSE IF isComplete THEN "succeeded" ELSE "running"

Spend == events > 0 /\ events' = events - 1

\* A microtask is due: nothing but the frames of the current chunk runs before it.
Quiet == request.pc # "resolved"
------------------------------------------------------------------------------
Init ==
    /\ link = "down"
    /\ fc \in Image
    /\ air = {}
    /\ vehicle = None
    /\ parameters = NoParameters
    /\ realIds = {}
    /\ indices = {}
    /\ total = 0
    /\ tableGrew = FALSE
    /\ status = "idle"
    /\ resumedTotal = None
    /\ staleLink = None
    /\ retryTimer = FALSE
    /\ lastRetryDownloaded = 0
    /\ gapFillActive = FALSE
    /\ action = "idle"
    /\ request = Idle
    /\ sends = [o \in {"request", "retry"} |-> {}]
    /\ doneImage = None
    /\ events = MaxEvents

(***************************************************************************)
(* connect() and then requestParameterList(), the pair every caller issues  *)
(* (App.tsx, serial-reconnect.ts): the second starts before the new link    *)
(* delivers a frame, and waits for a heartbeat.  The sends of the previous  *)
(* link have settled with it.                                               *)
(***************************************************************************)
Connect(fresh) ==
    /\ link = "down" /\ request.pc = "none" /\ sends["retry"] = {}
    /\ link' = "up"
    /\ ResetLiveState
    /\ staleLink' = MarkedStaleLink
    /\ status' = "awaiting-vehicle"
    /\ action' = "requested"
    /\ request' = [pc |-> "waiting", fresh |-> fresh]
    /\ UNCHANGED <<fc, air, parameters, realIds, indices, total, sends, doneImage, events>>

\* A transport status of 'disconnected' or 'error', or disconnect(): every
\* waiter is rejected and the live state is reset, guided actions included.
DropLink(keepTable) ==
    /\ link' = "down"
    /\ ResetLiveState
    /\ IF keepTable THEN /\ staleLink' = MarkedStaleLink
                         /\ UNCHANGED <<parameters, realIds, indices, total>>
                    ELSE staleLink' = None /\ ClearTable
    /\ status' = "idle"
    /\ request' = IF request.pc = "waiting" THEN Idle ELSE request
    /\ UNCHANGED <<fc, air, sends, doneImage>>

\* The rejected call reports its failure after the reset.
FailedIfWaiting == IF request.pc = "waiting" THEN "failed" ELSE "idle"

LinkDrop ==
    /\ link = "up" /\ Quiet /\ Spend
    /\ DropLink(TRUE)
    /\ action' = FailedIfWaiting

\* The operator's disconnect: disconnect() and then discardRetainedParameters().
Disconnect ==
    /\ link = "up" /\ Quiet /\ Spend
    /\ DropLink(FALSE)
    /\ action' = FailedIfWaiting

\* waitForVehicle times out: the call fails, and its caller, which finds no
\* vehicle, closes the link before the next frame is read.
VehicleTimeout ==
    /\ link = "up" /\ request.pc = "waiting"
    /\ DropLink(TRUE)
    /\ action' = "idle"
    /\ UNCHANGED events

\* The retained table passes PARAMETER_CARRY_OVER_TTL_MS.
StaleLinkExpires ==
    /\ Quiet
    /\ staleLink # None /\ ~staleLink.expired
    /\ staleLink' = [staleLink EXCEPT !.expired = TRUE]
    /\ UNCHANGED <<wire, vehicle, table, sync, calls, doneImage, events>>

(***************************************************************************)
(* processHeartbeat.                                                       *)
(***************************************************************************)
Heartbeat ==
    /\ link = "up"
    /\ vehicle' = KeyOf[fc]
    /\ IF Alien(KeyOf[fc])
         THEN staleLink' = None /\ ClearTable
         ELSE UNCHANGED <<staleLink, table>>
    /\ status' = IF status = "awaiting-vehicle" THEN "idle" ELSE status
    /\ request' = IF request.pc = "waiting" THEN [request EXCEPT !.pc = "resolved"]
                                            ELSE request
    /\ retryTimer' = (retryTimer \/ Scheduled)
    /\ UNCHANGED <<wire, resumedTotal, lastRetryDownloaded, gapFillActive,
                   action, sends, doneImage, events>>

(***************************************************************************)
(* requestParameterList on an identified vehicle: a re-sync.                *)
(***************************************************************************)
RequestParameterList(fresh) ==
    /\ link = "up" /\ vehicle # None /\ request.pc = "none"
    /\ Spend
    /\ action' = "requested"
    /\ request' = [pc |-> "resolved", fresh |-> fresh]
    /\ UNCHANGED <<wire, vehicle, table, sync, staleLink, sends, doneImage>>

\* requestParameterList once waitForVehicle has resolved, up to its first send.
BeginDownload ==
    /\ request.pc = "resolved"
    /\ LET resuming == ~request.fresh /\ CanResumeStaleLink(vehicle)
           missing  == MissingIndices(indices, total)
           todo     == IF resuming /\ Cardinality(missing) <= MaxGapFill
                         THEN missing ELSE {WholeTable}
       IN  /\ IF resuming THEN UNCHANGED table ELSE ClearTable
           /\ lastRetryDownloaded' = IF resuming THEN staleLink.downloaded ELSE 0
           /\ resumedTotal' = IF resuming THEN staleLink.total ELSE None
           /\ gapFillActive' = (todo # {WholeTable})
           /\ sends' = [sends EXCEPT !["request"] = todo]
           /\ request' = IF todo = {} THEN Idle ELSE [request EXCEPT !.pc = "sending"]
           /\ retryTimer' = (todo = {})
    /\ staleLink' = None
    /\ status' = "requesting"
    /\ action' = "running"
    /\ UNCHANGED <<wire, vehicle, doneImage, events>>

(***************************************************************************)
(* One awaited session.send of requestMissingParameters or of               *)
(* requestParameterTable, on behalf of caller o.                            *)
(***************************************************************************)
NextSlot(o) == CHOOSE k \in sends[o] : \A j \in sends[o] : k <= j

\* After its last send a caller re-arms the stall timer.
Sent(o) ==
    LET rest == sends[o] \ {NextSlot(o)}
    IN  /\ sends' = [sends EXCEPT ![o] = rest]
        /\ request' = IF o = "request" /\ rest = {} THEN Idle ELSE request
        /\ retryTimer' = IF rest = {} THEN Scheduled ELSE retryTimer
        /\ UNCHANGED action

\* A by-index read names this.vehicle anew for every frame.
Sendable(o) ==
    /\ sends[o] # {} /\ Quiet /\ link = "up"
    /\ NextSlot(o) = WholeTable \/ vehicle # None

SendReaches(o) ==
    /\ Sendable(o)
    /\ air' = air \cup Frames(fc, {NextSlot(o)})
    /\ Sent(o)
    /\ UNCHANGED <<link, fc, vehicle, table, status, resumedTotal, lastRetryDownloaded,
                   gapFillActive, staleLink, doneImage, events>>

SendIsLost(o) ==
    /\ Sendable(o)
    /\ Sent(o)
    /\ UNCHANGED <<wire, vehicle, table, status, resumedTotal, lastRetryDownloaded,
                   gapFillActive, staleLink, doneImage, events>>

\* The send rejects, or this.vehicle is gone: the call fails, a retry re-arms.
SendFails(o) ==
    /\ sends[o] # {} /\ Quiet
    /\ link = "down" \/ (NextSlot(o) # WholeTable /\ vehicle = None)
    /\ sends' = [sends EXCEPT ![o] = {}]
    /\ IF o = "request"
         THEN request' = Idle /\ action' = "failed" /\ UNCHANGED retryTimer
         ELSE retryTimer' = Scheduled /\ UNCHANGED <<request, action>>
    /\ UNCHANGED <<wire, vehicle, table, status, resumedTotal, lastRetryDownloaded,
                   gapFillActive, staleLink, doneImage, events>>

(***************************************************************************)
(* retryParameterSync, when the stall timer fires, up to its first send.    *)
(* Bound: the previous pass has finished its sends.                         *)
(***************************************************************************)
RetryParameterSync ==
    /\ retryTimer /\ Quiet /\ sends["retry"] = {}
    /\ LET downloaded   == Downloaded(realIds, parameters)
           madeProgress == downloaded > lastRetryDownloaded
           missing      == MissingIndices(indices, total)
           canGapFill   == /\ total > 0 /\ downloaded > 0 /\ missing # {}
                           /\ ~(gapFillActive /\ ~madeProgress)
                           /\ ~GapTooLargeToFill(missing)
       IN  /\ lastRetryDownloaded' = downloaded
           /\ IF RetryIsMoot
                THEN UNCHANGED <<gapFillActive, sends, action>>
                ELSE /\ gapFillActive' = canGapFill
                     /\ sends' = [sends EXCEPT !["retry"] =
                                    IF canGapFill THEN missing ELSE {WholeTable}]
                     /\ action' = "running"
    /\ retryTimer' = FALSE
    /\ UNCHANGED <<wire, vehicle, table, status, resumedTotal, staleLink, request,
                   doneImage, events>>

(***************************************************************************)
(* processParamValue, reconcileResumedParameterTable included.              *)
(***************************************************************************)
\* The wire holds frames of one growing board, so the older image is the smaller.
InOrder(m) == \A n \in air : Count(m.img) <= Count(n.img)

ParamValue(m) ==
    /\ link = "up" /\ m \in air /\ InOrder(m)
    /\ LET count    == Count(m.img)
           refuted  == ResumeRefuted(count)
           ids      == (IF refuted THEN {} ELSE realIds) \cup {m.id}
           values   == Mirrored(IF refuted THEN NoParameters ELSE parameters, m.id, m.img)
           before   == IF refuted THEN 0 ELSE total
           grew     == before > 0 /\ count > before
           covered  == IF refuted \/ grew THEN {} ELSE indices
           isComplete == count > 0 /\ Downloaded(ids, values) >= count
           sticky   == Sticky(isComplete, refuted)
       IN  /\ realIds' = ids
           /\ parameters' = values
           /\ total' = count
           /\ indices' = covered \cup (IF m.idx < count THEN {m.idx} ELSE {})
           /\ tableGrew' = (grew \/ (tableGrew /\ ~refuted))
           /\ status' = IF isComplete \/ sticky THEN "complete" ELSE "streaming"
           /\ retryTimer' = IF sticky THEN retryTimer ELSE ~isComplete
           /\ lastRetryDownloaded' = IF refuted THEN 0 ELSE lastRetryDownloaded
           /\ gapFillActive' = (gapFillActive /\ ~refuted)
           /\ action' = ActionAfter(isComplete, sticky)
           /\ doneImage' = IF isComplete THEN m.img ELSE doneImage
           \* A refuted resume asks for the whole table again, and may not be heard.
           /\ \/ air' = air \ {m}
              \/ /\ refuted /\ vehicle # None
                 /\ air' = (air \ {m}) \cup Frames(fc, {WholeTable})
    /\ resumedTotal' = None
    /\ UNCHANGED <<link, fc, vehicle, staleLink, request, sends, events>>

------------------------------------------------------------------------------
(* The flight controller and the wire (external).                          *)

FrameIsLost(m) ==
    /\ m \in air
    /\ air' = air \ {m}
    /\ UNCHANGED <<link, fc, vehicle, table, sync, staleLink, calls, doneImage, events>>

\* A value the board reports unasked, by name: a write echo of any station.
Echo(id) ==
    /\ id \in Range(TableOf[fc])
    /\ Spend
    /\ air' = air \cup {[img |-> fc, id |-> id, idx |-> NoIndex]}
    /\ UNCHANGED <<link, fc, vehicle, table, sync, staleLink, calls, doneImage>>

\* A booting board registers more of its table.
Grow(img) ==
    /\ <<fc, img>> \in Grows
    /\ fc' = img
    /\ UNCHANGED <<link, air, vehicle, table, sync, staleLink, calls, doneImage, events>>

\* The board restarts, or another is plugged in, while the link is down.
SwapImage(img) ==
    /\ link = "down" /\ <<fc, img>> \in Swaps /\ Spend
    /\ fc' = img
    /\ air' = {}
    /\ UNCHANGED <<link, vehicle, table, sync, staleLink, calls, doneImage>>

\* The board restarts behind a link that does not notice (UDP, a radio).
Reboot(img) ==
    /\ link = "up" /\ Quiet /\ <<fc, img>> \in Reboots /\ Spend
    /\ fc' = img
    /\ air' = {}
    /\ UNCHANGED <<link, vehicle, table, sync, staleLink, calls, doneImage>>

Next ==
    \/ \E fresh \in BOOLEAN : Connect(fresh) \/ RequestParameterList(fresh)
    \/ LinkDrop \/ Disconnect \/ VehicleTimeout \/ StaleLinkExpires
    \/ Heartbeat \/ BeginDownload \/ RetryParameterSync
    \/ \E o \in {"request", "retry"} : SendReaches(o) \/ SendIsLost(o) \/ SendFails(o)
    \/ \E m \in air : ParamValue(m) \/ FrameIsLost(m)
    \/ \E id \in ParamId : Echo(id)
    \/ \E img \in Image : Grow(img) \/ SwapImage(img) \/ Reboot(img)

Spec == Init /\ [][Next]_vars

(***************************************************************************)
(* Fairness.  Heartbeats repeat at 1 Hz, timers and microtasks run, an      *)
(* awaited send settles, and a link that stays up is not deaf: a request    *)
(* sent again and again is heard, a frame sent again and again arrives.     *)
(* What a previous image sent leaves the wire.                              *)
(***************************************************************************)
Fairness ==
    /\ WF_vars(Heartbeat) /\ WF_vars(BeginDownload) /\ WF_vars(RetryParameterSync)
    /\ \A o \in {"request", "retry"} :
          /\ SF_vars(SendReaches(o)) /\ WF_vars(SendFails(o))
    /\ WF_vars(\E m \in air : m.img # fc /\ (ParamValue(m) \/ FrameIsLost(m)))
    /\ \A img \in Image : \A k \in 0..(Count(img) - 1) :
          SF_vars(ParamValue([img |-> img, id |-> TableOf[img][k + 1], idx |-> k]))

FairSpec == Spec /\ Fairness
------------------------------------------------------------------------------
(* Properties.                                                             *)

\* parameterWriteBlockReason() as far as this component decides it, in a state
\* where code of the application can run.
WritesOpen ==
    /\ link = "up" /\ vehicle # None /\ status = "complete"
    /\ action \notin {"requested", "running"}
    /\ Quiet

\* Retained values never linger beside the heartbeat of another board
\* (runtime.ts processHeartbeat, "Retained values from a different board").
RetainedMatchesVehicle ==
    vehicle # None /\ staleLink # None => staleLink.key = vehicle

\* When writes open, every name of the table that completed the download has
\* really been streamed: no mirror, resumed count or late frame stood in for it.
WritesSeeWholeTable ==
    WritesOpen => /\ doneImage # None
                  /\ Range(TableOf[doneImage]) \subseteq realIds

\* When writes open, every value on show comes from the build that completed
\* the download, never from a blend of two.
NoBlendedTable ==
    WritesOpen => \A id \in Stored(parameters) : LineOf[parameters[id]] = LineOf[doneImage]

\* The stall timer is armed only for a download in progress.
RetryTimerHasSync == retryTimer => status \in Syncing

\* A finished download does not leave its guided action active, which would
\* hold the write gate shut for the rest of the session.
NoActiveActionAfterSync ==
    status = "complete" /\ request.pc = "none" => action \notin {"requested", "running"}

\* Once complete, a download stays complete until the link goes or a new one is
\* requested: no echo and no grown count reopens it under a batch of writes
\* (runtime.ts processParamValue, "must NOT revert status to 'streaming'").
CompletionSticks ==
    [][status = "complete" /\ status' # "complete" =>
          link' = "down" \/ request.pc = "resolved"]_vars

\* A download on a link that stays up ends up holding as many names as the
\* board announced.
TableEventuallyHeld ==
    status \in Syncing ~> \/ status \notin Syncing
                          \/ total > 0 /\ Cardinality(realIds) >= total
==============================================================================
