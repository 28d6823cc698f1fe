--------------------------- MODULE ParamSyncProofs ---------------------------
(***************************************************************************)
(* Theorems about ParamSync that hold for every set of parameters and images,*)
(* every alias map and every bound: type correctness, the three control    *)
(* invariants of the download and the stickiness of its completion.        *)
(*                                                                         *)
(* Types are inductive as they stand.  So is RetryTimerHasSync, and        *)
(* RetainedMatchesVehicle beside the types.  NoActiveActionAfterSync is not:*)
(* it needs ControlInv, which also says what a dropped link and a resumed  *)
(* download leave behind.  The last two parts are about a board that grows *)
(* and about builds that follow one another.                               *)
(***************************************************************************)
EXTENDS ParamSync, FiniteSetTheorems, TLAPS

\* No call in progress is a legal request.
LEMMA IdleType == Idle \in Request
BY DEF Idle, Request

\* A runtime that has just been constructed is typed.
LEMMA InitType == Init => TypeOK
<1> SUFFICES ASSUME Init PROVE TypeOK
    OBVIOUS
<1>1. WireType
    BY DEF Init, WireType
<1>2. TableType
    BY DEF Init, TableType, NoParameters
<1>3. SyncType
    BY DEF Init, SyncType, Syncing
<1>4. CallsType
    BY BoundAssumption, IdleType DEF Init, CallsType
<1> QED BY <1>1, <1>2, <1>3, <1>4 DEF TypeOK

\* The number of names streamed (realParameterIdsReceived.size) is a number.
LEMMA DownloadedType ==
    ASSUME TypeOK PROVE Cardinality(realIds) \in Nat
<1>1. IsFiniteSet(realIds)
    BY ImageAssumption, FS_Subset DEF TypeOK, TableType
<1> QED BY <1>1, FS_CardinalityType

\* markStaleLink leaves a well-formed marker, or none.
LEMMA MarkedType ==
    ASSUME TypeOK PROVE MarkedStaleLink \in StaleLink \cup {None}
BY DownloadedType DEF TypeOK, WireType, TableType, SyncType, MarkedStaleLink, StaleLink

\* parameters.clear() and its companions leave a typed table.
LEMMA ClearedType ==
    ASSUME ClearTable PROVE TableType'
BY DEF ClearTable, TableType, NoParameters

\* An event spent leaves the budget in its range.
LEMMA SpendType ==
    ASSUME TypeOK, Spend PROVE events' \in 0..MaxEvents
BY BoundAssumption DEF TypeOK, CallsType, Spend

\* connect() and the call that follows it.
LEMMA ConnectType ==
    ASSUME TypeOK, NEW fresh \in BOOLEAN, Connect(fresh) PROVE TypeOK'
<1>1. WireType'
    BY DEF TypeOK, WireType, Connect, ResetLiveState
<1>2. TableType'
    BY DEF TypeOK, TableType, Connect, ResetLiveState
<1>3. SyncType'
    BY MarkedType DEF TypeOK, SyncType, Connect, ResetLiveState
<1>4. CallsType'
    BY DEF TypeOK, CallsType, Connect, Request
<1> QED BY <1>1, <1>2, <1>3, <1>4 DEF TypeOK

\* A dropped link, with the table retained or discarded.
LEMMA DropLinkType ==
    ASSUME TypeOK, NEW keep \in BOOLEAN, DropLink(keep)
    PROVE  WireType' /\ TableType' /\ SyncType'
<1>1. WireType'
    BY DEF TypeOK, WireType, DropLink, ResetLiveState
<1>2. TableType'
  <2>1. CASE keep
    BY <2>1 DEF TypeOK, TableType, DropLink, ResetLiveState
  <2>2. CASE ~keep
    BY <2>2, ClearedType DEF DropLink
  <2> QED BY <2>1, <2>2
<1>3. SyncType'
    BY MarkedType DEF TypeOK, SyncType, DropLink, ResetLiveState
<1> QED BY <1>1, <1>2, <1>3

\* The three ways a link ends: a transport status, disconnect(), and a
\* waitForVehicle that times out.
LEMMA LinkDropType ==
    ASSUME TypeOK, LinkDrop \/ Disconnect \/ VehicleTimeout PROVE TypeOK'
<1>1. WireType' /\ TableType' /\ SyncType'
    BY DropLinkType DEF LinkDrop, Disconnect, VehicleTimeout
<1>2. events' \in 0..MaxEvents
    BY SpendType DEF LinkDrop, Disconnect, VehicleTimeout, TypeOK, CallsType
<1>3. \E keep \in BOOLEAN : DropLink(keep)
    BY DEF LinkDrop, Disconnect, VehicleTimeout
<1>4. action' \in {"idle", "failed"}
    BY DEF LinkDrop, Disconnect, VehicleTimeout, FailedIfWaiting
<1>5. request' \in {Idle, request} /\ UNCHANGED <<sends, doneImage>>
    BY <1>3 DEF DropLink
<1>6. CallsType'
    BY <1>2, <1>4, <1>5, IdleType DEF TypeOK, CallsType
<1> QED BY <1>1, <1>6 DEF TypeOK

\* A retained table that passes its time to live.
LEMMA StaleLinkExpiresType ==
    ASSUME TypeOK, StaleLinkExpires PROVE TypeOK'
<1>1. staleLink' \in StaleLink
    BY DEF TypeOK, SyncType, StaleLinkExpires, StaleLink
<1>2. WireType' /\ TableType' /\ CallsType'
    BY DEF TypeOK, WireType, TableType, CallsType, StaleLinkExpires, wire, table, calls
<1>3. SyncType'
    BY <1>1 DEF TypeOK, SyncType, StaleLinkExpires, sync
<1> QED BY <1>2, <1>3 DEF TypeOK

\* processHeartbeat, which may discard the table of another board.
LEMMA HeartbeatType ==
    ASSUME TypeOK, Heartbeat PROVE TypeOK'
<1>1. WireType'
    BY DEF TypeOK, WireType, Heartbeat, wire, Key
<1>2. TableType'
    BY ClearedType DEF TypeOK, TableType, Heartbeat, table
<1>3. SyncType'
    BY DEF TypeOK, SyncType, Heartbeat, Scheduled
<1>4. CallsType'
    BY DEF TypeOK, CallsType, Heartbeat, Request
<1> QED BY <1>1, <1>2, <1>3, <1>4 DEF TypeOK

\* A re-sync on an identified vehicle.
LEMMA RequestParameterListType ==
    ASSUME TypeOK, NEW fresh \in BOOLEAN, RequestParameterList(fresh) PROVE TypeOK'
<1>1. WireType' /\ TableType' /\ SyncType'
    BY DEF TypeOK, WireType, TableType, SyncType, RequestParameterList, wire, table, sync
<1>2. CallsType'
    BY SpendType DEF TypeOK, CallsType, RequestParameterList, Request
<1> QED BY <1>1, <1>2 DEF TypeOK

\* requestParameterList after waitForVehicle: a fresh or a resumed download.
LEMMA BeginDownloadType ==
    ASSUME TypeOK, BeginDownload PROVE TypeOK'
<1>1. WireType'
    BY DEF TypeOK, WireType, BeginDownload, wire
<1>2. TableType'
    BY ClearedType DEF TypeOK, TableType, BeginDownload, table
<1>3. SyncType'
    BY DEF TypeOK, SyncType, BeginDownload, Syncing, StaleLink, CanResumeStaleLink
<1>4. MissingIndices(indices, total) \in SUBSET Int /\ {WholeTable} \in SUBSET Int
    BY DEF MissingIndices, TypeOK, TableType, WholeTable
<1>5. request' \in Request
    BY IdleType DEF TypeOK, CallsType, BeginDownload, Request
<1>6. CallsType'
    BY <1>4, <1>5 DEF TypeOK, CallsType, BeginDownload
<1> QED BY <1>1, <1>2, <1>3, <1>6 DEF TypeOK

\* What a board answers are frames of its image.
LEMMA FramesType ==
    ASSUME NEW img \in Image, NEW slots PROVE Frames(img, slots) \subseteq Frame
<1>1. TableOf[img] \in Seq(ParamId) /\ Count(img) = Len(TableOf[img])
    BY ImageAssumption DEF Count
<1>2. ASSUME NEW k \in 0..(Count(img) - 1)
      PROVE  [img |-> img, id |-> TableOf[img][k + 1], idx |-> k] \in Frame
    BY <1>1 DEF Frame
<1> QED BY <1>2 DEF Frames

\* One awaited send of a request or of a retry: heard, lost or rejected.
LEMMA SendType ==
    ASSUME TypeOK, NEW o \in {"request", "retry"},
           SendReaches(o) \/ SendIsLost(o) \/ SendFails(o)
    PROVE  TypeOK'
<1>1. WireType'
    BY FramesType DEF TypeOK, WireType, SendReaches, SendIsLost, SendFails, wire
<1>2. TableType'
    BY DEF TypeOK, TableType, SendReaches, SendIsLost, SendFails, table
<1>3. retryTimer' \in BOOLEAN
  <2>1. retryTimer' = Scheduled \/ retryTimer' = retryTimer
    BY DEF SendReaches, SendIsLost, SendFails, Sent
  <2>2. Scheduled \in BOOLEAN
    BY DEF Scheduled
  <2> QED BY <2>1, <2>2 DEF TypeOK, SyncType
<1>4. SyncType'
    BY <1>3 DEF TypeOK, SyncType, SendReaches, SendIsLost, SendFails
<1>5. action' \in {action, "failed"} /\ request' \in {Idle, request}
    BY DEF SendReaches, SendIsLost, SendFails, Sent
<1>6. \E rest \in SUBSET Int : sends' = [sends EXCEPT ![o] = rest]
  <2>1. CASE SendReaches(o) \/ SendIsLost(o)
    BY <2>1 DEF TypeOK, CallsType, SendReaches, SendIsLost, Sent
  <2>2. CASE SendFails(o)
    BY <2>2 DEF SendFails
  <2> QED BY <2>1, <2>2
<1>7. CallsType'
  <2>1. sends' \in [{"request", "retry"} -> SUBSET Int]
    BY <1>6 DEF TypeOK, CallsType
  <2>2. UNCHANGED <<doneImage, events>>
    BY DEF SendReaches, SendIsLost, SendFails
  <2> QED BY <2>1, <2>2, <1>5, IdleType DEF TypeOK, CallsType
<1> QED BY <1>1, <1>2, <1>4, <1>7 DEF TypeOK

\* retryParameterSync: a gap-fill, a re-stream or nothing.
LEMMA RetryParameterSyncType ==
    ASSUME TypeOK, RetryParameterSync PROVE TypeOK'
<1>1. WireType' /\ TableType'
    BY DEF TypeOK, WireType, TableType, RetryParameterSync, wire, table
<1>2. SyncType'
    BY DownloadedType DEF TypeOK, SyncType, RetryParameterSync, Downloaded
<1>3. MissingIndices(indices, total) \in SUBSET Int /\ {WholeTable} \in SUBSET Int
    BY DEF MissingIndices, TypeOK, TableType, WholeTable
<1>4. CallsType'
    BY <1>3 DEF TypeOK, CallsType, RetryParameterSync
<1> QED BY <1>1, <1>2, <1>4 DEF TypeOK

\* processParamValue, with the settling of a resumed download.
LEMMA ParamValueType ==
    ASSUME TypeOK, NEW m \in air, ParamValue(m) PROVE TypeOK'
<1>1. m \in Frame /\ Count(m.img) \in Nat
    BY ImageAssumption DEF TypeOK, WireType, Frame, Count
<1>2. WireType'
    BY FramesType DEF TypeOK, WireType, ParamValue
<1>3. TableType'
    BY <1>1 DEF TypeOK, TableType, ParamValue, Mirrored, NoParameters, Frame
<1>4. SyncType'
    BY DEF TypeOK, SyncType, ParamValue, Syncing
<1>5. CallsType'
    BY <1>1 DEF TypeOK, CallsType, ParamValue, ActionAfter, Frame
<1> QED BY <1>2, <1>3, <1>4, <1>5 DEF TypeOK

\* Steps of the board and of the wire.
LEMMA BoardType ==
    ASSUME TypeOK,
           \/ \E m \in air : FrameIsLost(m)
           \/ \E id \in ParamId : Echo(id)
           \/ \E img \in Image : Grow(img) \/ SwapImage(img) \/ Reboot(img)
    PROVE  TypeOK'
<1>1. TableType' /\ SyncType'
    BY DEF TypeOK, TableType, SyncType, FrameIsLost, Echo, Grow, SwapImage, Reboot, table, sync
<1>2. CallsType'
    BY SpendType DEF TypeOK, CallsType, FrameIsLost, Echo, Grow, SwapImage, Reboot, calls
<1>3. ASSUME NEW id \in ParamId PROVE [img |-> fc, id |-> id, idx |-> NoIndex] \in Frame
    BY DEF TypeOK, WireType, Frame, NoIndex
<1>4. air' \subseteq Frame
  <2>1. CASE \E id \in ParamId : Echo(id)
    BY <2>1, <1>3 DEF TypeOK, WireType, Echo
  <2>2. CASE ~ \E id \in ParamId : Echo(id)
    BY <2>2 DEF TypeOK, WireType, FrameIsLost, Grow, SwapImage, Reboot
  <2> QED BY <2>1, <2>2
<1>5. WireType'
    BY <1>4 DEF TypeOK, WireType, FrameIsLost, Echo, Grow, SwapImage, Reboot
<1> QED BY <1>1, <1>2, <1>5 DEF TypeOK

\* Every step of the runtime, the wire and the board keeps the types.
LEMMA StepType == TypeOK /\ [Next]_vars => TypeOK'
<1> SUFFICES ASSUME TypeOK, [Next]_vars PROVE TypeOK'
    OBVIOUS
<1>1. CASE \E fresh \in BOOLEAN : Connect(fresh) \/ RequestParameterList(fresh)
    BY <1>1, ConnectType, RequestParameterListType
<1>2. CASE LinkDrop \/ Disconnect \/ VehicleTimeout
    BY <1>2, LinkDropType
<1>3. CASE StaleLinkExpires \/ Heartbeat \/ BeginDownload \/ RetryParameterSync
    BY <1>3, StaleLinkExpiresType, HeartbeatType, BeginDownloadType, RetryParameterSyncType
<1>4. CASE \E o \in {"request", "retry"} : SendReaches(o) \/ SendIsLost(o) \/ SendFails(o)
    BY <1>4, SendType
<1>5. CASE \E m \in air : ParamValue(m)
    BY <1>5, ParamValueType
<1>6. CASE \/ \E m \in air : FrameIsLost(m)
           \/ \E id \in ParamId : Echo(id)
           \/ \E img \in Image : Grow(img) \/ SwapImage(img) \/ Reboot(img)
    BY <1>6, BoardType
<1>7. CASE UNCHANGED vars
    BY <1>7 DEF vars, wire, table, sync, calls, TypeOK, WireType, TableType, SyncType,
                CallsType
<1> QED BY <1>1, <1>2, <1>3, <1>4, <1>5, <1>6, <1>7 DEF Next

\* Every variable keeps its type, whatever the wire loses or reorders and however
\* links drop and boards restart.
THEOREM TypeCorrect == Spec => []TypeOK
BY InitType, StepType, PTL DEF Spec
------------------------------------------------------------------------------
\* The values retained from a dropped link are never kept beside the heartbeat of
\* another board: processHeartbeat discards them in the step that hears it.
THEOREM RetainedMatchesVehicleAlways == Spec => []RetainedMatchesVehicle
<1>1. Init => RetainedMatchesVehicle
    BY DEF Init, RetainedMatchesVehicle
<1>2. TypeOK /\ RetainedMatchesVehicle /\ [Next]_vars => RetainedMatchesVehicle'
  <2> SUFFICES ASSUME TypeOK, RetainedMatchesVehicle, [Next]_vars
               PROVE  RetainedMatchesVehicle'
      OBVIOUS
  <2>1. CASE \/ \E fresh \in BOOLEAN : Connect(fresh)
             \/ LinkDrop \/ Disconnect \/ VehicleTimeout
      BY <2>1 DEF Connect, LinkDrop, Disconnect, VehicleTimeout, DropLink,
                  ResetLiveState, RetainedMatchesVehicle
  <2>2. CASE StaleLinkExpires
    <3>1. staleLink # None /\ staleLink'.key = staleLink.key /\ UNCHANGED vehicle
        BY <2>2 DEF StaleLinkExpires, TypeOK, SyncType, StaleLink
    <3> QED BY <3>1 DEF RetainedMatchesVehicle
  <2>3. CASE Heartbeat
      BY <2>3 DEF Heartbeat, Alien, RetainedMatchesVehicle
  <2>4. CASE BeginDownload
      BY <2>4 DEF BeginDownload, RetainedMatchesVehicle
  <2>5. CASE UNCHANGED <<vehicle, staleLink>>
      BY <2>5 DEF RetainedMatchesVehicle
  <2>6. CASE \/ \E fresh \in BOOLEAN : RequestParameterList(fresh)
             \/ RetryParameterSync
             \/ \E o \in {"request", "retry"} : SendReaches(o) \/ SendIsLost(o) \/ SendFails(o)
             \/ \E m \in air : ParamValue(m) \/ FrameIsLost(m)
             \/ \E id \in ParamId : Echo(id)
             \/ \E img \in Image : Grow(img) \/ SwapImage(img) \/ Reboot(img)
    <3>1. UNCHANGED <<vehicle, staleLink>>
        BY <2>6 DEF RequestParameterList, RetryParameterSync, SendReaches, SendIsLost,
                    SendFails, ParamValue, FrameIsLost, Echo, Grow, SwapImage, Reboot
    <3> QED BY <3>1, <2>5
  <2>7. CASE UNCHANGED vars
      BY <2>7, <2>5 DEF vars
  <2> QED BY <2>1, <2>2, <2>3, <2>4, <2>6, <2>7 DEF Next
<1> QED BY <1>1, <1>2, TypeCorrect, PTL DEF Spec
------------------------------------------------------------------------------
\* The stall timer runs only for a download in progress: every handler that ends
\* one (processParamValue, resetLiveState) clears it in the same step, and
\* scheduleParameterSyncRetry arms it for no other.
THEOREM RetryTimerHasSyncAlways == Spec => []RetryTimerHasSync
<1>1. Init => RetryTimerHasSync
    BY DEF Init, RetryTimerHasSync
<1>2. RetryTimerHasSync /\ [Next]_vars => RetryTimerHasSync'
  <2> SUFFICES ASSUME RetryTimerHasSync, [Next]_vars PROVE RetryTimerHasSync'
      OBVIOUS
  <2>1. CASE \/ \E fresh \in BOOLEAN : Connect(fresh)
             \/ LinkDrop \/ Disconnect \/ VehicleTimeout
      BY <2>1 DEF Connect, LinkDrop, Disconnect, VehicleTimeout, DropLink,
                  ResetLiveState, RetryTimerHasSync
  <2>2. CASE Heartbeat
      BY <2>2 DEF Heartbeat, Scheduled, RetryTimerHasSync, Syncing
  <2>3. CASE BeginDownload
      BY <2>3 DEF BeginDownload, RetryTimerHasSync, Syncing
  <2>4. CASE RetryParameterSync
      BY <2>4 DEF RetryParameterSync, RetryTimerHasSync
  <2>5. CASE \E o \in {"request", "retry"} : SendReaches(o) \/ SendIsLost(o) \/ SendFails(o)
    <3>1. UNCHANGED status /\ (retryTimer' => Scheduled \/ retryTimer)
        BY <2>5 DEF SendReaches, SendIsLost, SendFails, Sent
    <3> QED BY <3>1 DEF RetryTimerHasSync, Scheduled
  <2>6. CASE \E m \in air : ParamValue(m)
      BY <2>6 DEF ParamValue, Sticky, RetryTimerHasSync, Syncing
  <2>7. CASE UNCHANGED <<status, retryTimer>>
      BY <2>7 DEF RetryTimerHasSync
  <2>8. CASE \/ \E fresh \in BOOLEAN : RequestParameterList(fresh)
             \/ StaleLinkExpires
             \/ \E m \in air : FrameIsLost(m)
             \/ \E id \in ParamId : Echo(id)
             \/ \E img \in Image : Grow(img) \/ SwapImage(img) \/ Reboot(img)
    <3>1. UNCHANGED <<status, retryTimer>>
        BY <2>8 DEF RequestParameterList, StaleLinkExpires, FrameIsLost, Echo, Grow,
                    SwapImage, Reboot, sync
    <3> QED BY <3>1, <2>7
  <2>9. CASE UNCHANGED vars
      BY <2>9, <2>7 DEF vars, sync
  <2> QED BY <2>1, <2>2, <2>3, <2>4, <2>5, <2>6, <2>8, <2>9 DEF Next
<1> QED BY <1>1, <1>2, PTL DEF Spec
------------------------------------------------------------------------------
\* A resumed download is settled before anything completes it; a completed one
\* belongs to a live link, and only a request not yet begun reports it active.
ControlInv ==
    /\ resumedTotal # None => status = "requesting"
    /\ link = "down" => status # "complete"
    /\ status = "complete" /\ request.pc \notin {"waiting", "resolved"}
          => action \notin {"requested", "running"}
    /\ sends["request"] # {} => request.pc = "sending"

\* The control invariant holds before the first connect().
LEMMA InitControl == Init => ControlInv
BY DEF Init, ControlInv

\* Every step keeps the control invariant, one case per handler.
LEMMA StepControl == TypeOK /\ ControlInv /\ [Next]_vars => ControlInv'
<1> SUFFICES ASSUME TypeOK, ControlInv, [Next]_vars PROVE ControlInv'
    OBVIOUS
<1>1. CASE \E fresh \in BOOLEAN : Connect(fresh)
    BY <1>1 DEF Connect, ResetLiveState, ControlInv
<1>2. CASE LinkDrop \/ Disconnect \/ VehicleTimeout
    BY <1>2 DEF LinkDrop, Disconnect, VehicleTimeout, DropLink, ResetLiveState, ControlInv
<1>3. CASE Heartbeat
  <2>1. UNCHANGED <<link, resumedTotal, action>> /\ status' \in {"idle", status}
      BY <1>3 DEF Heartbeat, wire
  <2>2. status' = status \/ status = "awaiting-vehicle"
      BY <1>3 DEF Heartbeat
  <2>3. request'.pc \in {request.pc, "resolved"}
      BY <1>3 DEF Heartbeat, TypeOK, CallsType, Request
  <2>4. request'.pc = request.pc \/ request'.pc = "resolved"
      BY <2>3
  <2>5. request.pc = "waiting" => request'.pc = "resolved"
      BY <1>3 DEF Heartbeat, TypeOK, CallsType, Request
  <2> QED BY <2>1, <2>2, <2>4, <2>5, <1>3 DEF Heartbeat, ControlInv
<1>4. CASE \E fresh \in BOOLEAN : RequestParameterList(fresh)
    BY <1>4 DEF RequestParameterList, wire, sync, ControlInv
<1>5. CASE BeginDownload
  <2>1. status' = "requesting" /\ link' = link
      BY <1>5 DEF BeginDownload, wire
  <2>2. sends'["request"] # {} => request'.pc = "sending"
      BY <1>5 DEF BeginDownload, TypeOK, CallsType, Request
  <2> QED BY <2>1, <2>2 DEF ControlInv
<1>6. CASE RetryParameterSync
  <2>1. sends'["request"] = sends["request"]
      BY <1>6 DEF RetryParameterSync, TypeOK, CallsType
  <2> QED BY <1>6, <2>1 DEF RetryParameterSync, RetryIsMoot, Syncing, wire, ControlInv
<1>7. CASE \E o \in {"request", "retry"} : SendReaches(o) \/ SendIsLost(o) \/ SendFails(o)
  <2>1. PICK o \in {"request", "retry"} : SendReaches(o) \/ SendIsLost(o) \/ SendFails(o)
      BY <1>7
  <2>2. UNCHANGED <<link, status, resumedTotal>>
      BY <2>1 DEF SendReaches, SendIsLost, SendFails, wire
  <2>3. request' = request \/ (request' = Idle /\ sends["request"] # {})
      BY <2>1 DEF SendReaches, SendIsLost, SendFails, Sent, Sendable
  <2>4. action' = action \/ action' = "failed"
      BY <2>1 DEF SendReaches, SendIsLost, SendFails, Sent
  <2>5. sends'["request"] # {} => sends["request"] # {} /\ request' = request
    <3>1. CASE o = "request"
        BY <2>1, <3>1 DEF SendReaches, SendIsLost, SendFails, Sent, TypeOK, CallsType
    <3>2. CASE o = "retry"
        BY <2>1, <3>2 DEF SendReaches, SendIsLost, SendFails, Sent, TypeOK, CallsType
    <3> QED BY <3>1, <3>2
  <2> QED BY <2>2, <2>3, <2>4, <2>5 DEF ControlInv
<1>8. CASE \E m \in air : ParamValue(m)
    BY <1>8 DEF ParamValue, Sticky, ActionAfter, ControlInv
<1>9. CASE UNCHANGED <<link, resumedTotal, status, request, action, sends>>
    BY <1>9 DEF ControlInv
<1>10. CASE \/ StaleLinkExpires
            \/ \E m \in air : FrameIsLost(m)
            \/ \E id \in ParamId : Echo(id)
            \/ \E img \in Image : Grow(img) \/ SwapImage(img) \/ Reboot(img)
  <2>1. UNCHANGED <<link, resumedTotal, status, request, action, sends>>
      BY <1>10 DEF StaleLinkExpires, FrameIsLost, Echo, Grow, SwapImage, Reboot,
                   wire, sync, calls
  <2> QED BY <2>1, <1>9
<1>11. CASE UNCHANGED vars
    BY <1>11, <1>9 DEF vars, wire, sync, calls
<1> QED BY <1>1, <1>2, <1>3, <1>4, <1>5, <1>6, <1>7, <1>8, <1>10, <1>11 DEF Next

\* The control invariant of the download: a resume is settled before anything
\* completes, a completed download has a live link, and reports itself active only
\* while a new request has not begun.
THEOREM ControlAlways == Spec => []ControlInv
BY InitControl, StepControl, TypeCorrect, PTL DEF Spec

\* A finished download never leaves 'request-parameters' active, which would hold
\* parameterWriteBlockReason() shut for the rest of the session.
THEOREM NoActiveActionAfterSyncAlways == Spec => []NoActiveActionAfterSync
<1>1. ControlInv => NoActiveActionAfterSync
    BY DEF ControlInv, NoActiveActionAfterSync
<1> QED BY <1>1, ControlAlways, PTL

\* A complete download is reopened by the loss of the link or by a new request, and
\* by no PARAM_VALUE, of whatever count or index (processParamValue).
THEOREM CompletionSticksAlways == Spec => CompletionSticks
<1>1. TypeOK /\ ControlInv /\ [Next]_vars =>
        [status = "complete" /\ status' # "complete" =>
            link' = "down" \/ request.pc = "resolved"]_vars
  <2> SUFFICES ASSUME TypeOK, ControlInv, Next, status = "complete", status' # "complete"
               PROVE  link' = "down" \/ request.pc = "resolved"
      OBVIOUS
  <2>1. CASE \/ LinkDrop \/ Disconnect \/ VehicleTimeout
      BY <2>1 DEF LinkDrop, Disconnect, VehicleTimeout, DropLink
  <2>2. CASE BeginDownload
      BY <2>2 DEF BeginDownload
  <2>3. CASE \E fresh \in BOOLEAN : Connect(fresh)
      BY <2>3 DEF Connect, ControlInv
  <2>4. CASE \E m \in air : ParamValue(m)
      BY <2>4 DEF ParamValue, Sticky, ResumeRefuted, ControlInv
  <2>5. CASE \/ \E fresh \in BOOLEAN : RequestParameterList(fresh)
             \/ StaleLinkExpires \/ Heartbeat \/ RetryParameterSync
             \/ \E o \in {"request", "retry"} : SendReaches(o) \/ SendIsLost(o) \/ SendFails(o)
             \/ \E m \in air : FrameIsLost(m)
             \/ \E id \in ParamId : Echo(id)
             \/ \E img \in Image : Grow(img) \/ SwapImage(img) \/ Reboot(img)
      BY <2>5 DEF RequestParameterList, StaleLinkExpires, Heartbeat, RetryParameterSync,
                  SendReaches, SendIsLost, SendFails, FrameIsLost, Echo, Grow, SwapImage,
                  Reboot, sync
  <2> QED BY <2>1, <2>2, <2>3, <2>4, <2>5 DEF Next
<1> QED BY <1>1, TypeCorrect, ControlAlways, PTL DEF Spec, CompletionSticks

------------------------------------------------------------------------------
(***************************************************************************)
(* The completion gate is right for a board that only ever registers more   *)
(* parameters, whatever the wire loses, reorders, repeats or resumes: when  *)
(* writes open, every name of the announced table has been streamed.        *)
(*                                                                         *)
(* The argument.  The gate compares two numbers, the names streamed and the *)
(* count in the frame at hand.  That is enough only because every name held *)
(* is a name of the table that frame speaks of (NamesInv): then as many as  *)
(* announced is all of them.  Frames of an older, smaller table may still   *)
(* be in flight when the board has grown, which is why NamesInv speaks of   *)
(* every frame in the air and rests on their order (AirInv).                *)
(***************************************************************************)

Names(img) == Range(TableOf[img])

\* The link survives no restart to another image, and finds no other board.
GrowthOnly == \A p \in Swaps \cup Reboots : p[1] = p[2]

\* Frames name what their image holds, and the images in the air are stages of
\* the growth that ends in the one running now.
AirInv ==
    /\ \A n \in air : /\ n.id \in Names(n.img)
                      /\ Count(n.img) <= Count(fc)
                      /\ Names(n.img) \subseteq Names(fc)
    /\ \A m, n \in air : Count(m.img) <= Count(n.img) => Names(m.img) \subseteq Names(n.img)

\* Every name held is one of each table that a frame in the air may speak of.
NamesInv ==
    /\ realIds \subseteq Names(fc)
    /\ \A n \in air : realIds \subseteq Names(n.img)

\* Only one board is ever heard.
KeyInv ==
    /\ vehicle \in {None, KeyOf[fc]}
    /\ staleLink # None => staleLink.key = KeyOf[fc]

\* A complete download holds the whole table that completed it.
DoneInv == status = "complete" => doneImage \in Image /\ Names(doneImage) \subseteq realIds

GrowthInv == AirInv /\ NamesInv /\ KeyInv /\ DoneInv

\* A table that repeats no name has as many names as it announces.
LEMMA NamesCardinality ==
    ASSUME NEW img \in Image
    PROVE  IsFiniteSet(Names(img)) /\ Cardinality(Names(img)) = Count(img)
<1>1. TableOf[img] \in Seq(ParamId) /\ Count(img) = Len(TableOf[img]) /\ Count(img) \in Nat
    BY ImageAssumption DEF Count
<1>2. DOMAIN TableOf[img] = 1..Count(img)
    BY <1>1
<1>3. \A i, j \in 1..Count(img) : TableOf[img][i] = TableOf[img][j] => i = j
    BY <1>2, ImageAssumption DEF IsInjective
<1>4. Names(img) = {TableOf[img][i] : i \in 1..Count(img)}
    BY <1>2 DEF Names, Range
<1>5. [i \in 1..Count(img) |-> TableOf[img][i]] \in Bijection(1..Count(img), Names(img))
    BY <1>3, <1>4 DEF Bijection, Injection, Surjection, IsInjective
<1>6. ExistsBijection(1..Count(img), Names(img))
    BY <1>5 DEF ExistsBijection
<1> QED BY <1>1, <1>6, FS_CountingElements, FS_NatBijection

\* Nothing is held and nothing is in the air before the first connect().
LEMMA InitGrowth == Init => GrowthInv
BY DEF Init, GrowthInv, AirInv, NamesInv, KeyInv, DoneInv

\* Requests add only frames of the running image.
LEMMA FramesOf ==
    ASSUME NEW img \in Image, NEW slots, NEW m \in Frames(img, slots)
    PROVE  m.img = img /\ m.id \in Names(img)
<1>1. TableOf[img] \in Seq(ParamId) /\ Count(img) = Len(TableOf[img])
    BY ImageAssumption DEF Count
<1>2. PICK k \in 0..(Count(img) - 1) : m = [img |-> img, id |-> TableOf[img][k + 1], idx |-> k]
    BY DEF Frames
<1>3. k + 1 \in DOMAIN TableOf[img]
    BY <1>1
<1> QED BY <1>2, <1>3 DEF Names, Range

\* Announced counts are numbers, so frames can be ordered by them.
LEMMA CountOrder == \A img \in Image : Count(img) \in Nat
BY ImageAssumption DEF Count

\* The air may lose frames and gain frames of the running image.
LEMMA AirGrowth ==
    ASSUME TypeOK, AirInv, NamesInv, fc' = fc, realIds' \subseteq Names(fc),
           \A n \in air' : \/ n \in air /\ realIds' \subseteq Names(n.img)
                           \/ n.img = fc /\ n.id \in Names(fc)
    PROVE  AirInv' /\ NamesInv'
<1>1. \A n \in air' : n.id \in Names(n.img) /\ Count(n.img) <= Count(fc)
                                            /\ Names(n.img) \subseteq Names(fc)
    BY CountOrder DEF AirInv, TypeOK, WireType
<1>2. ASSUME NEW m \in air', NEW n \in air', Count(m.img) <= Count(n.img)
      PROVE  Names(m.img) \subseteq Names(n.img)
  <2>1. CASE n.img = fc
      BY <2>1, <1>1
  <2>2. CASE m \in air /\ n \in air
      BY <2>2, <1>2 DEF AirInv
  <2>3. CASE m.img = fc /\ n \in air
    <3>1. Count(n.img) = Count(fc) /\ n.img \in Image
        BY <2>3, <1>1, <1>2, CountOrder DEF TypeOK, WireType, Frame
    <3>2. Names(n.img) = Names(fc)
        BY <3>1, <1>1, NamesCardinality, FS_Subset DEF TypeOK, WireType
    <3> QED BY <3>2, <2>3
  <2> QED BY <2>1, <2>2, <2>3
<1>3. \A n \in air' : realIds' \subseteq Names(n.img)
    OBVIOUS
<1> QED BY <1>1, <1>2, <1>3 DEF AirInv, NamesInv, Names, Count

\* Steps of the runtime that add no name and no foreign frame.
LEMMA QuietAir ==
    ASSUME TypeOK, AirInv, NamesInv, fc' = fc, realIds' \subseteq realIds,
           \A n \in air' : n \in air \/ (n.img = fc /\ n.id \in Names(fc))
    PROVE  AirInv' /\ NamesInv'
BY AirGrowth DEF NamesInv

\* A link that comes or goes adds no name and no frame; what it retains is of the
\* only board there is.
LEMMA LinkGrowth ==
    ASSUME TypeOK, GrowthInv,
           \/ \E fresh \in BOOLEAN : Connect(fresh)
           \/ LinkDrop \/ Disconnect \/ VehicleTimeout
    PROVE  GrowthInv'
<1>1. UNCHANGED <<fc, air>> /\ realIds' \subseteq realIds /\ status' # "complete"
    BY DEF Connect, LinkDrop, Disconnect, VehicleTimeout, DropLink, ClearTable
<1>2. vehicle' = None /\ (staleLink' = None \/ staleLink' = MarkedStaleLink)
    BY DEF Connect, LinkDrop, Disconnect, VehicleTimeout, DropLink, ResetLiveState
<1>3. MarkedStaleLink # None => MarkedStaleLink.key = KeyOf[fc]
    BY DEF MarkedStaleLink, GrowthInv, KeyInv
<1>4. AirInv' /\ NamesInv'
    BY <1>1, QuietAir DEF GrowthInv
<1>5. KeyInv' /\ DoneInv'
    BY <1>1, <1>2, <1>3 DEF KeyInv, DoneInv
<1> QED BY <1>4, <1>5 DEF GrowthInv

\* The heartbeat of the only board discards nothing.
LEMMA HeartbeatGrowth ==
    ASSUME TypeOK, GrowthInv, Heartbeat PROVE GrowthInv'
<1>1. ~Alien(KeyOf[fc])
    BY DEF Alien, GrowthInv, KeyInv
<1>2. UNCHANGED <<fc, air, realIds, staleLink, doneImage>> /\ vehicle' = KeyOf[fc]
    BY <1>1 DEF Heartbeat, wire, table
<1>3. status' = "complete" => status = "complete"
    BY DEF Heartbeat
<1>4. AirInv' /\ NamesInv'
    BY <1>2, QuietAir DEF GrowthInv
<1> QED BY <1>2, <1>3, <1>4 DEF GrowthInv, KeyInv, DoneInv

\* A download, fresh or resumed, starts from names of the same board.
LEMMA BeginGrowth ==
    ASSUME TypeOK, GrowthInv, BeginDownload PROVE GrowthInv'
<1>1. UNCHANGED <<fc, air, vehicle>> /\ realIds' \subseteq realIds
    BY DEF BeginDownload, wire, table, ClearTable
<1>2. status' = "requesting" /\ staleLink' = None
    BY DEF BeginDownload
<1>3. AirInv' /\ NamesInv'
    BY <1>1, QuietAir DEF GrowthInv
<1> QED BY <1>1, <1>2, <1>3 DEF GrowthInv, KeyInv, DoneInv

\* Steps that leave the table, its completion and the identities alone.
LEMMA OtherGrowth ==
    ASSUME TypeOK, GrowthInv,
           \/ \E fresh \in BOOLEAN : RequestParameterList(fresh)
           \/ StaleLinkExpires \/ RetryParameterSync
           \/ \E o \in {"request", "retry"} : SendReaches(o) \/ SendIsLost(o) \/ SendFails(o)
           \/ \E m \in air : FrameIsLost(m)
           \/ \E id \in ParamId : Echo(id)
    PROVE  GrowthInv'
<1>1. UNCHANGED <<fc, vehicle, realIds, status, doneImage>>
    BY DEF RequestParameterList, StaleLinkExpires, RetryParameterSync, SendReaches, SendIsLost,
           SendFails, FrameIsLost, Echo, wire, table, sync
<1>2. staleLink' # None => staleLink # None /\ staleLink'.key = staleLink.key
  <2>1. CASE StaleLinkExpires
      BY <2>1 DEF StaleLinkExpires, TypeOK, SyncType, StaleLink
  <2>2. CASE ~StaleLinkExpires
      BY <2>2 DEF RequestParameterList, RetryParameterSync, SendReaches, SendIsLost,
                  SendFails, FrameIsLost, Echo
  <2> QED BY <2>1, <2>2
<1>3. \A n \in air' : n \in air \/ (n.img = fc /\ n.id \in Names(fc))
  <2>1. CASE \E o \in {"request", "retry"} : SendReaches(o)
      BY <2>1, FramesOf DEF SendReaches, TypeOK, WireType
  <2>2. CASE \E id \in ParamId : Echo(id)
      BY <2>2 DEF Echo, Names
  <2>3. CASE air' \subseteq air
      BY <2>3
  <2> QED BY <2>1, <2>2, <2>3 DEF RequestParameterList, StaleLinkExpires, RetryParameterSync,
             SendIsLost, SendFails, FrameIsLost, wire
<1>4. AirInv' /\ NamesInv'
    BY <1>1, <1>3, QuietAir DEF GrowthInv
<1> QED BY <1>1, <1>2, <1>4 DEF GrowthInv, KeyInv, DoneInv

\* As many names of a table as it announces are all of them.
LEMMA CountedIsWhole ==
    ASSUME NEW img \in Image, NEW ids \in SUBSET Names(img), Cardinality(ids) >= Count(img)
    PROVE  ids = Names(img)
BY NamesCardinality, FS_Subset, FS_CardinalityType, CountOrder

\* The step that counts: a PARAM_VALUE adds a name of its own table, and completes
\* the download only when the names held are all the names of that table.
LEMMA ParamValueGrowth ==
    ASSUME TypeOK, GrowthInv, NEW m \in air, ParamValue(m) PROVE GrowthInv'
<1>1. m.img \in Image /\ UNCHANGED <<fc, vehicle, staleLink>>
    BY DEF ParamValue, TypeOK, WireType, Frame
<1>2. m.id \in Names(m.img) /\ realIds \subseteq Names(m.img)
    BY DEF GrowthInv, AirInv, NamesInv
<1>3. realIds' \subseteq realIds \cup {m.id}
    BY DEF ParamValue
<1>4. realIds' \subseteq Names(m.img) /\ Names(m.img) \subseteq Names(fc)
    BY <1>2, <1>3 DEF GrowthInv, AirInv
<1>5. \A n \in air : realIds' \subseteq Names(n.img)
    BY <1>4 DEF ParamValue, InOrder, GrowthInv, AirInv
<1>6. \A n \in air' : n \in air \/ (n.img = fc /\ n.id \in Names(fc))
    BY FramesOf DEF ParamValue, TypeOK, WireType
<1>7. AirInv' /\ NamesInv'
    BY <1>1, <1>4, <1>5, <1>6, AirGrowth DEF GrowthInv
<1>8. KeyInv'
    BY <1>1 DEF GrowthInv, KeyInv
<1>9. DoneInv'
  <2> SUFFICES ASSUME status' = "complete"
               PROVE  doneImage' \in Image /\ Names(doneImage') \subseteq realIds'
      BY DEF DoneInv, Names
  <2>1. CASE Cardinality(realIds') >= Count(m.img)
    <3>1. doneImage' = m.img
        BY <2>1, CountOrder, <1>1, ImageAssumption DEF ParamValue, Downloaded, Count
    <3>2. realIds' = Names(m.img)
        BY <2>1, <1>1, <1>4, CountedIsWhole
    <3> QED BY <3>1, <3>2, <1>1
  <2>2. CASE ~(Cardinality(realIds') >= Count(m.img))
    <3>1. status = "complete" /\ doneImage' = doneImage /\ realIds \subseteq realIds'
        BY <2>2 DEF ParamValue, Downloaded, Sticky
    <3> QED BY <3>1 DEF GrowthInv, DoneInv
  <2> QED BY <2>1, <2>2
<1> QED BY <1>7, <1>8, <1>9 DEF GrowthInv

\* A board that registers more parameters keeps every name it had.
LEMMA BoardGrowth ==
    ASSUME GrowthOnly, TypeOK, GrowthInv, NEW img \in Image,
           Grow(img) \/ SwapImage(img) \/ Reboot(img)
    PROVE  GrowthInv'
<1>1. UNCHANGED <<vehicle, staleLink, realIds, status, doneImage>>
    BY DEF Grow, SwapImage, Reboot, table, sync
<1>2. CASE Grow(img)
  <2>1. /\ fc' = img /\ air' = air /\ KeyOf[img] = KeyOf[fc]
        /\ Names(fc) \subseteq Names(img) /\ Count(fc) < Count(img)
    <3>1. PICK g \in Grows : g[1] = fc /\ g[2] = img
        BY <1>2 DEF Grow
    <3>2. KeyOf[g[1]] = KeyOf[g[2]]
        BY <3>1, ImageAssumption
    <3>3. /\ Range(TableOf[g[1]]) \subseteq Range(TableOf[g[2]])
          /\ Len(TableOf[g[1]]) < Len(TableOf[g[2]])
        BY <3>1, ImageAssumption
    <3> QED BY <1>2, <3>1, <3>2, <3>3 DEF Grow, Names, Count
  <2>2. \A n \in air : Count(n.img) <= Count(img) /\ Names(n.img) \subseteq Names(img)
      BY <2>1, CountOrder DEF GrowthInv, AirInv, TypeOK, WireType, Frame
  <2> QED BY <1>1, <2>1, <2>2 DEF GrowthInv, AirInv, NamesInv, KeyInv, DoneInv, Names, Count
<1>3. CASE SwapImage(img) \/ Reboot(img)
  <2>1. fc' = fc /\ air' = {}
      BY <1>3 DEF SwapImage, Reboot, GrowthOnly
  <2> QED BY <1>1, <2>1 DEF GrowthInv, AirInv, NamesInv, KeyInv, DoneInv
<1> QED BY <1>2, <1>3

\* When writes open on a board that only grows, every name of the table it
\* announced has been streamed: the count comparison of processParamValue
\* (`downloaded >= total`) is a sound completion gate for such a board.
THEOREM WritesSeeWholeTableWhileGrowing ==
    ASSUME GrowthOnly PROVE Spec => []WritesSeeWholeTable
<1>1. TypeOK /\ GrowthInv /\ [Next]_vars => GrowthInv'
  <2> SUFFICES ASSUME TypeOK, GrowthInv, [Next]_vars PROVE GrowthInv'
      OBVIOUS
  <2>1. CASE UNCHANGED vars
      BY <2>1 DEF vars, wire, table, sync, GrowthInv, AirInv, NamesInv, KeyInv, DoneInv
  <2> QED BY <2>1, LinkGrowth, HeartbeatGrowth, BeginGrowth, OtherGrowth, ParamValueGrowth,
             BoardGrowth DEF Next
<1>2. GrowthInv => WritesSeeWholeTable
    BY NoneAssumption DEF GrowthInv, DoneInv, WritesSeeWholeTable, WritesOpen, Names
<1> QED BY InitGrowth, <1>1, <1>2, TypeCorrect, PTL DEF Spec
------------------------------------------------------------------------------
(***************************************************************************)
(* A table is never a blend of two builds, as long as no PARAM_VALUE comes  *)
(* before the fate of a retained table is decided.  The runtime tells two   *)
(* builds apart only by the identity of the heartbeat and by the announced  *)
(* count, so builds must differ there (BuildsApart); and a frame that comes *)
(* between connect() and the begin of the request (EarlyValue) puts its own *)
(* count beside the retained values, which the next resume then trusts.     *)
(*                                                                         *)
(* The argument.  What is retained, or resumed and not yet settled, is all  *)
(* of one build for this kind of board and stands beside that build's count *)
(* (Carries).  A first frame with another count refutes it; one with the    *)
(* same count is of the same build.                                        *)
(***************************************************************************)

\* Builds whose tables can be told apart: a board keeps its build while it grows or
\* restarts, a build is of one kind of board, and two builds for one kind have
\* tables of different lengths.
BuildsApart ==
    /\ \A g \in Grows \cup Reboots : LineOf[g[1]] = LineOf[g[2]]
    /\ \A i, j \in Image : /\ LineOf[i] = LineOf[j] => KeyOf[i] = KeyOf[j]
                           /\ KeyOf[i] = KeyOf[j] /\ Count(i) = Count(j) => LineOf[i] = LineOf[j]

\* A PARAM_VALUE that comes before the fate of a retained table is decided.
EarlyValue == staleLink # None /\ \E m \in air : ParamValue(m)

\* A request has begun on this link.
Begun == link = "up" /\ vehicle # None /\ request.pc # "resolved"

OfLine(line) == \A id \in Stored(parameters) : LineOf[parameters[id]] = line

\* The table is all of one build for this kind of board, beside a count of that build.
Carries(key) == \E img \in Image :
    KeyOf[img] = key /\ Count(img) = total /\ OfLine(LineOf[img])

\* A link begins with a call that waits for a heartbeat, and one that is down has none.
LinkInv ==
    /\ link = "down" => vehicle = None /\ request.pc \notin {"waiting", "resolved"}
    /\ link = "up" => (vehicle = None <=> request.pc = "waiting") /\ vehicle \in {None, KeyOf[fc]}

\* What a request that has begun has in the table.
TableOfLine ==
    /\ staleLink = None
    /\ resumedTotal # None => resumedTotal = total /\ Carries(vehicle)
    /\ resumedTotal = None => /\ OfLine(LineOf[fc])
                              /\ Stored(parameters) # {} => Carries(vehicle)
    /\ status = "complete" => doneImage \in Image /\ LineOf[doneImage] = LineOf[fc]

LineInv ==
    /\ \A m \in air : LineOf[m.img] = LineOf[fc]
    /\ staleLink # None => total = staleLink.total /\ Carries(staleLink.key)
    /\ Begun => TableOfLine

\* The identity of an image is no None.
LEMMA KeyType == \A img \in Image : KeyOf[img] \in Key /\ KeyOf[img] # None
BY NoneAssumption DEF Key

\* Every step keeps the link and its first call in step.
LEMMA StepLink == TypeOK /\ ControlInv /\ LinkInv /\ [Next]_vars => LinkInv'
<1> SUFFICES ASSUME TypeOK, ControlInv, LinkInv, [Next]_vars PROVE LinkInv'
    OBVIOUS
<1> USE KeyType DEF LinkInv
<1>1. CASE \E fresh \in BOOLEAN : Connect(fresh)
    BY <1>1 DEF Connect, ResetLiveState
<1>2. CASE LinkDrop \/ Disconnect \/ VehicleTimeout
  <2>1. link' = "down" /\ vehicle' = None
      BY <1>2 DEF LinkDrop, Disconnect, VehicleTimeout, DropLink, ResetLiveState
  <2>2. request' = IF request.pc = "waiting" THEN Idle ELSE request
      BY <1>2 DEF LinkDrop, Disconnect, VehicleTimeout, DropLink
  <2>3. request.pc # "resolved"
      BY <1>2 DEF LinkDrop, Disconnect, VehicleTimeout, Quiet
  <2> QED BY <2>1, <2>2, <2>3 DEF Idle
<1>3. CASE Heartbeat
  <2>1. UNCHANGED <<link, fc>> /\ link = "up" /\ vehicle' = KeyOf[fc] /\ fc \in Image
      BY <1>3 DEF Heartbeat, wire, TypeOK, WireType
  <2>2. request'.pc # "waiting"
      BY <1>3 DEF Heartbeat, TypeOK, CallsType, Request
  <2> QED BY <2>1, <2>2
<1>4. CASE \E fresh \in BOOLEAN : RequestParameterList(fresh)
    BY <1>4 DEF RequestParameterList, wire
<1>5. CASE BeginDownload
  <2>1. UNCHANGED <<link, fc, vehicle>> /\ request'.pc \in {"none", "sending"}
      BY <1>5 DEF BeginDownload, wire, Idle, TypeOK, CallsType, Request
  <2> QED BY <2>1, <1>5 DEF BeginDownload
<1>6. CASE \E o \in {"request", "retry"} : SendReaches(o) \/ SendIsLost(o) \/ SendFails(o)
  <2>1. UNCHANGED <<link, fc, vehicle>>
      BY <1>6 DEF SendReaches, SendIsLost, SendFails, wire
  <2>2. request' = request \/ (request' = Idle /\ sends["request"] # {})
      BY <1>6 DEF SendReaches, SendIsLost, SendFails, Sent, Sendable
  <2> QED BY <2>1, <2>2 DEF Idle, ControlInv
<1>7. CASE \/ StaleLinkExpires \/ RetryParameterSync
           \/ \E m \in air : ParamValue(m) \/ FrameIsLost(m)
           \/ \E id \in ParamId : Echo(id)
           \/ \E img \in Image : SwapImage(img)
           \/ UNCHANGED vars
  <2>1. UNCHANGED <<link, vehicle, request>>
      BY <1>7 DEF StaleLinkExpires, RetryParameterSync, ParamValue, FrameIsLost, Echo,
                  SwapImage, wire, calls, vars
  <2>2. link = "up" => fc' = fc
      BY <1>7 DEF StaleLinkExpires, RetryParameterSync, ParamValue, FrameIsLost, Echo,
                  SwapImage, wire, vars
  <2> QED BY <2>1, <2>2
<1>8. CASE \E img \in Image : Grow(img) \/ Reboot(img)
  <2>1. PICK img \in Image : Grow(img) \/ Reboot(img)
      BY <1>8
  <2>2. UNCHANGED <<link, vehicle, request>> /\ fc' = img
      BY <2>1 DEF Grow, Reboot, calls
  <2>3. PICK g \in Grows \cup Reboots : g[1] = fc /\ g[2] = img
      BY <2>1 DEF Grow, Reboot
  <2>4. KeyOf[fc] = KeyOf[img]
      BY <2>3, ImageAssumption
  <2> QED BY <2>2, <2>4
<1> QED BY <1>1, <1>2, <1>3, <1>4, <1>5, <1>6, <1>7, <1>8 DEF Next

\* What the table carries depends on its values and its total alone.
LEMMA CarriesKept ==
    ASSUME UNCHANGED <<parameters, total>>
    PROVE  /\ \A key : Carries(key)' <=> Carries(key)
           /\ \A line : OfLine(line)' <=> OfLine(line)
           /\ Stored(parameters)' = Stored(parameters)
BY DEF Carries, OfLine, Stored, Count

\* A link that comes or goes: markStaleLink marks what the download had.
LEMMA LinkLine ==
    ASSUME TypeOK, LinkInv, LineInv,
           \/ \E fresh \in BOOLEAN : Connect(fresh)
           \/ LinkDrop \/ Disconnect \/ VehicleTimeout
    PROVE  LineInv'
<1>1. UNCHANGED <<fc, air>> /\ ~Begun'
    BY DEF Connect, LinkDrop, Disconnect, VehicleTimeout, DropLink, ResetLiveState, Begun
<1>2. CASE Disconnect
    BY <1>1, <1>2 DEF Disconnect, DropLink, LineInv
<1>3. CASE ~Disconnect
  <2>1. staleLink' = MarkedStaleLink /\ UNCHANGED <<parameters, total>>
      BY <1>3 DEF Connect, LinkDrop, VehicleTimeout, DropLink
  <2>2. CASE staleLink' = staleLink
      BY <1>1, <2>1, <2>2, CarriesKept DEF LineInv
  <2>3. CASE staleLink' # staleLink
    <3>1. vehicle # None /\ Stored(parameters) # {}
        BY <2>1, <2>3 DEF MarkedStaleLink
    <3>2. staleLink'.key = vehicle /\ staleLink'.total = total
        BY <2>1, <3>1 DEF MarkedStaleLink
    <3>3. Begun
        BY <1>3, <3>1 DEF Connect, LinkDrop, VehicleTimeout, LinkInv, Begun, Quiet
    <3>4. Carries(vehicle)
        BY <3>1, <3>3 DEF LineInv, TableOfLine
    <3> QED BY <1>1, <2>1, <3>2, <3>4, CarriesKept DEF LineInv
  <2> QED BY <2>2, <2>3
<1> QED BY <1>2, <1>3

\* The heartbeat of a begun request discards nothing; an earlier one may.
LEMMA HeartbeatLine ==
    ASSUME TypeOK, LinkInv, LineInv, Heartbeat PROVE LineInv'
<1>1. UNCHANGED <<fc, air, link, resumedTotal, doneImage>> /\ link = "up" /\ vehicle' = KeyOf[fc]
    BY DEF Heartbeat, wire
<1>2. status' = "complete" => status = "complete"
    BY DEF Heartbeat
<1>3. \/ staleLink' = None
      \/ UNCHANGED <<staleLink, parameters, total>>
    BY DEF Heartbeat, table
<1>4. ASSUME Begun' PROVE Begun /\ vehicle' = vehicle /\ UNCHANGED <<staleLink, parameters, total>>
  <2>1. request.pc # "waiting"
      BY <1>4 DEF Heartbeat, Begun, TypeOK, CallsType, Request
  <2>2. request' = request /\ vehicle # None /\ vehicle' = vehicle
      BY <1>1, <2>1 DEF Heartbeat, LinkInv
  <2>3. Begun
      BY <1>1, <1>4, <2>2 DEF Begun
  <2>4. ~Alien(KeyOf[fc])
      BY <2>3 DEF LineInv, TableOfLine, Alien
  <2> QED BY <2>2, <2>3, <2>4 DEF Heartbeat, table
<1>5. staleLink' # None => total' = staleLink'.total /\ Carries(staleLink.key)'
    BY <1>3, CarriesKept DEF LineInv
<1>6. Begun' => TableOfLine'
    BY <1>1, <1>2, <1>4, CarriesKept DEF LineInv, TableOfLine
<1>7. staleLink' # None => staleLink' = staleLink
    BY <1>3
<1> QED BY <1>1, <1>5, <1>6, <1>7, CarriesKept DEF LineInv

\* A download begins with nothing, or with the retained table, whose board this is.
LEMMA BeginLine ==
    ASSUME TypeOK, LinkInv, LineInv, BeginDownload PROVE LineInv'
<1>1. UNCHANGED <<fc, air, link, vehicle>> /\ staleLink' = None /\ status' = "requesting"
    BY DEF BeginDownload, wire
<1>2. CASE ~request.fresh /\ CanResumeStaleLink(vehicle)
  <2>1. UNCHANGED <<parameters, total>> /\ resumedTotal' = staleLink.total
      BY <1>2 DEF BeginDownload, table
  <2>2. staleLink # None /\ staleLink.key = vehicle
      BY <1>2 DEF CanResumeStaleLink
  <2>3. staleLink.total \in Nat
      BY <2>2 DEF TypeOK, SyncType, StaleLink
  <2>4. resumedTotal' # None /\ resumedTotal' = total /\ Carries(vehicle)
      BY <2>1, <2>2, <2>3, NoneAssumption DEF LineInv
  <2> QED BY <1>1, <2>1, <2>4, CarriesKept DEF LineInv, TableOfLine
<1>3. CASE ~(~request.fresh /\ CanResumeStaleLink(vehicle))
  <2>1. parameters' = NoParameters /\ resumedTotal' = None
      BY <1>3 DEF BeginDownload, ClearTable
  <2>2. Stored(parameters') = {}
      BY <2>1 DEF Stored, NoParameters
  <2>3. Stored(parameters)' = {} /\ OfLine(LineOf[fc])'
      BY <2>2 DEF Stored, OfLine
  <2> QED BY <1>1, <2>1, <2>3 DEF LineInv, TableOfLine
<1> QED BY <1>2, <1>3

\* Steps that leave the table and the fate of the retained one alone.
LEMMA OtherLine ==
    ASSUME TypeOK, LinkInv, LineInv,
           \/ \E fresh \in BOOLEAN : RequestParameterList(fresh)
           \/ StaleLinkExpires \/ RetryParameterSync
           \/ \E o \in {"request", "retry"} : SendReaches(o) \/ SendIsLost(o) \/ SendFails(o)
           \/ \E m \in air : FrameIsLost(m)
           \/ \E id \in ParamId : Echo(id)
           \/ UNCHANGED vars
    PROVE  LineInv'
<1>1. UNCHANGED <<fc, link, vehicle, parameters, total, status, resumedTotal, doneImage>>
    BY DEF RequestParameterList, StaleLinkExpires, RetryParameterSync, SendReaches, SendIsLost,
           SendFails, FrameIsLost, Echo, wire, table, sync, vars
<1>2. \/ UNCHANGED staleLink
      \/ /\ staleLink # None
         /\ staleLink'.key = staleLink.key /\ staleLink'.total = staleLink.total
  <2>1. CASE StaleLinkExpires
      BY <2>1 DEF StaleLinkExpires, TypeOK, SyncType, StaleLink
  <2>2. CASE ~StaleLinkExpires
      BY <2>2 DEF RequestParameterList, RetryParameterSync, SendReaches, SendIsLost,
                  SendFails, FrameIsLost, Echo, vars
  <2> QED BY <2>1, <2>2
<1>3. \A n \in air' : LineOf[n.img] = LineOf[fc]
  <2>1. CASE \E o \in {"request", "retry"} : SendReaches(o)
      BY <2>1, FramesOf DEF SendReaches, LineInv, TypeOK, WireType
  <2>2. CASE \E id \in ParamId : Echo(id)
      BY <2>2 DEF Echo, LineInv
  <2>3. CASE air' \subseteq air
      BY <2>3 DEF LineInv
  <2> QED BY <2>1, <2>2, <2>3 DEF RequestParameterList, StaleLinkExpires, RetryParameterSync,
             SendIsLost, SendFails, FrameIsLost, wire, vars
<1>4. Begun' => Begun
  <2>1. Begun' => request'.pc # "resolved" /\ request.pc # "resolved"
    <3>1. CASE \E o \in {"request", "retry"} : SendReaches(o) \/ SendIsLost(o) \/ SendFails(o)
        BY <3>1 DEF SendReaches, SendIsLost, SendFails, Sendable, Quiet, Begun
    <3>2. CASE \E fresh \in BOOLEAN : RequestParameterList(fresh)
        BY <3>2 DEF RequestParameterList, Begun
    <3>3. CASE UNCHANGED request
        BY <3>3 DEF Begun
    <3> QED BY <3>1, <3>2, <3>3 DEF StaleLinkExpires, RetryParameterSync, FrameIsLost, Echo,
               calls, vars
  <2> QED BY <1>1, <2>1 DEF Begun
<1>5. Begun => staleLink = None
    BY DEF LineInv, TableOfLine
<1>6. Begun' => TableOfLine'
    BY <1>1, <1>2, <1>4, <1>5, CarriesKept DEF LineInv, TableOfLine
<1>7. (staleLink # None => total = staleLink.total /\ Carries(staleLink.key))'
    BY <1>1, <1>2 DEF LineInv, Carries, OfLine, Stored, Count
<1> QED BY <1>1, <1>3, <1>6, <1>7 DEF LineInv

\* A first frame with another count clears a resumed table; with the same count it
\* is of the same build. Either way the frame joins values of its own build.
LEMMA ParamValueLine ==
    ASSUME BuildsApart, TypeOK, ControlInv, LinkInv, LineInv,
           NEW m \in air, ParamValue(m), staleLink = None
    PROVE  LineInv'
<1>1. UNCHANGED <<fc, link, vehicle, staleLink, request>> /\ resumedTotal' = None
    BY DEF ParamValue
<1>2. m.img \in Image /\ m.id \in ParamId /\ fc \in Image /\ LineOf[m.img] = LineOf[fc]
    BY DEF TypeOK, WireType, Frame, LineInv
<1>3. KeyOf[m.img] = KeyOf[fc]
    BY <1>2 DEF BuildsApart
<1>4. \A n \in air' : LineOf[n.img] = LineOf[fc]
    BY <1>2, FramesOf DEF ParamValue, LineInv
<1>5. ASSUME Begun' PROVE TableOfLine'
  <2>1. Begun /\ vehicle = KeyOf[m.img]
      BY <1>1, <1>3, <1>5 DEF Begun, LinkInv
  <2>2. total' = Count(m.img)
      BY DEF ParamValue
  <2>3. ~ResumeRefuted(Count(m.img)) => OfLine(LineOf[fc])
    <3>1. CASE resumedTotal = None
        BY <2>1, <3>1 DEF LineInv, TableOfLine
    <3>2. CASE resumedTotal # None /\ resumedTotal = Count(m.img)
      <4>1. PICK img \in Image : KeyOf[img] = vehicle /\ Count(img) = total /\ OfLine(LineOf[img])
          BY <2>1, <3>2 DEF LineInv, TableOfLine, Carries
      <4>2. total = Count(m.img)
          BY <2>1, <3>2 DEF LineInv, TableOfLine
      <4>3. LineOf[img] = LineOf[m.img]
          BY <1>2, <2>1, <4>1, <4>2 DEF BuildsApart
      <4> QED BY <1>2, <4>1, <4>3
    <3> QED BY <3>1, <3>2 DEF ResumeRefuted
  <2>4. OfLine(LineOf[fc])'
    <3> SUFFICES ASSUME NEW id \in ParamId, parameters'[id] # None
                 PROVE  LineOf[parameters'[id]] = LineOf[fc]
        BY <1>1 DEF OfLine, Stored
    <3>1. parameters' = Mirrored(IF ResumeRefuted(Count(m.img)) THEN NoParameters
                                                               ELSE parameters, m.id, m.img)
        BY DEF ParamValue
    <3>2. \/ parameters'[id] = m.img
          \/ ~ResumeRefuted(Count(m.img)) /\ parameters'[id] = parameters[id]
        BY <3>1 DEF Mirrored, NoParameters
    <3> QED BY <1>2, <2>3, <3>2 DEF OfLine, Stored
  <2>5. Carries(vehicle)'
      BY <1>1, <1>2, <2>1, <2>2, <2>4 DEF Carries, Count
  <2>6. status' = "complete" => doneImage' \in Image /\ LineOf[doneImage'] = LineOf[fc]
    <3>1. doneImage' = m.img \/ (doneImage' = doneImage /\ (status' = "complete" => status = "complete"))
        BY DEF ParamValue, Sticky
    <3> QED BY <1>2, <2>1, <3>1 DEF LineInv, TableOfLine
  <2> QED BY <1>1, <2>1, <2>4, <2>5, <2>6 DEF TableOfLine, LineInv
<1> QED BY <1>1, <1>4, <1>5 DEF LineInv

\* A board keeps its build while it grows or restarts behind a link; what a link
\* that was down finds instead has not been heard.
LEMMA BoardLine ==
    ASSUME BuildsApart, TypeOK, LinkInv, LineInv, NEW img \in Image,
           Grow(img) \/ SwapImage(img) \/ Reboot(img)
    PROVE  LineInv'
<1>1. /\ UNCHANGED <<link, vehicle, request, staleLink, resumedTotal, status, doneImage>>
      /\ UNCHANGED <<parameters, total>>
    BY DEF Grow, SwapImage, Reboot, table, sync, calls
<1>2. CASE SwapImage(img)
  <2>1. air' = {} /\ ~Begun'
      BY <1>2 DEF SwapImage, Begun
  <2> QED BY <1>1, <2>1, CarriesKept DEF LineInv
<1>3. CASE Grow(img) \/ Reboot(img)
  <2>1. air' \subseteq air /\ fc' = img
      BY <1>3 DEF Grow, Reboot
  <2>2. PICK g \in Grows \cup Reboots : g[1] = fc /\ g[2] = img
      BY <1>3 DEF Grow, Reboot
  <2>3. LineOf[fc] = LineOf[img]
      BY <2>2 DEF BuildsApart
  <2>4. Begun' => Begun
      BY <1>1 DEF Begun
  <2> QED BY <1>1, <2>1, <2>3, <2>4, CarriesKept DEF LineInv, TableOfLine
<1> QED BY <1>2, <1>3

\* When writes open, the values on show are all of the build that completed the
\* download (reconcileResumedParameterTable, "a blend of two firmwares"), for builds
\* that can be told apart, as long as no value comes early.
THEOREM NoBlendedTableUnlessEarly ==
    ASSUME BuildsApart
    PROVE  Spec /\ [][~EarlyValue]_vars => []NoBlendedTable
<1>1. Init => LinkInv /\ LineInv
    BY DEF Init, Idle, LinkInv, LineInv, Begun
<1>2. TypeOK /\ ControlInv /\ LinkInv /\ LineInv /\ [Next]_vars /\ [~EarlyValue]_vars
        => LinkInv' /\ LineInv'
  <2> SUFFICES ASSUME TypeOK, ControlInv, LinkInv, LineInv, [Next]_vars, [~EarlyValue]_vars
               PROVE  LinkInv' /\ LineInv'
      OBVIOUS
  <2>1. CASE UNCHANGED vars
      BY <2>1, StepLink, OtherLine
  <2>2. CASE \E m \in air : ParamValue(m)
      BY <2>1, <2>2, StepLink, ParamValueLine DEF EarlyValue
  <2> QED BY <2>1, <2>2, StepLink, LinkLine, HeartbeatLine, BeginLine, OtherLine, BoardLine DEF Next
<1>3. ControlInv /\ LineInv => NoBlendedTable
  <2> SUFFICES ASSUME ControlInv, LineInv, WritesOpen, NEW id \in Stored(parameters)
               PROVE  LineOf[parameters[id]] = LineOf[doneImage]
      BY DEF NoBlendedTable
  <2>1. Begun /\ resumedTotal = None /\ status = "complete"
      BY DEF WritesOpen, Begun, Quiet, ControlInv
  <2> QED BY <2>1 DEF LineInv, TableOfLine, OfLine
<1> QED BY <1>1, <1>2, <1>3, TypeCorrect, ControlAlways, PTL DEF Spec
==============================================================================
