----------------------------- MODULE LogDownload -----------------------------
(***************************************************************************)
(* LogDownloadService (packages/ardupilot-core/src/                        *)
(* runtime-log-download-service.ts): listing the onboard logs and           *)
(* downloading one over the LOG_* messages, which carry no request number   *)
(* and no acks.  One operation is in flight at a time; what arrives is      *)
(* matched with it by message type and log id alone.                        *)
(*                                                                         *)
(* The board is external, and does what the service's comments say of it:   *)
(* it streams a log in chunks of Chunk bytes from the offset asked for, a    *)
(* shorter chunk being the last, and ignores a request for data while it    *)
(* considers a transfer active, which a listing makes it do until it hears  *)
(* a LOG_REQUEST_END.  Messages are lost both ways, and may be overtaken on *)
(* the way to the service.  A byte is abstracted to the log it belongs to.  *)
(* The inactivity timer fires when nothing that concerns the operation is   *)
(* under way.                                                              *)
(***************************************************************************)
EXTENDS Integers, Sequences, FiniteSets

CONSTANTS
    Log,         \* log ids
    SizeOf,      \* [Log -> Nat]: bytes of each log
    Reported,    \* the sizes LOG_ENTRY may report for a log
    Chunk,       \* LOG_DATA_CHUNK
    MaxRetries,  \* MAX_STALL_RETRIES
    MaxBytes,    \* MAX_LOG_DOWNLOAD_BYTES
    None,
    MaxCalls,    \* bound: operations in a behaviour
    MaxLosses,   \* bound: messages lost or overtaken in a behaviour
    MaxEvents    \* bound: link drops and rejected sends in a behaviour

ASSUME LogAssumption ==
    /\ IsFiniteSet(Log) /\ None \notin Log
    /\ SizeOf \in [Log -> Nat]
    /\ Reported \subseteq 0..MaxBytes
    /\ Chunk \in Nat \ {0} /\ MaxRetries \in Nat /\ MaxBytes \in Nat
    /\ MaxCalls \in Nat /\ MaxLosses \in Nat /\ MaxEvents \in Nat

Offset == 0..(MaxBytes - 1)

VARIABLES
    vehicle,   \* getVehicle() is defined: the link is up and identified
    active,    \* the operation in flight, or None
    ended,     \* history: the last operation that ended, or None
    result,    \* history: how it ended
    up,        \* LOG_REQUEST_* on their way
    down,      \* LOG_ENTRY and LOG_DATA on their way
    logs,      \* the logs on the board (external)
    held,      \* the board considers a listing active (external)
    listing,   \* logs whose LOG_ENTRY it has still to send (external)
    stream,    \* the log and offset it streams next, or None (external)
    losses,    \* history: messages lost or overtaken
    calls,     \* operations left
    events     \* events left

board  == <<logs, held, listing, stream>>
bounds == <<losses, calls, events>>
vars   == <<vehicle, active, ended, result, up, down, board, bounds>>

Request == {r \in [type : {"list", "end", "data"}, id : Log \cup {None}, ofs : Nat] :
              r.type = "data" => r.id \in Log}

\* A LOG_ENTRY carries the number of logs; a LOG_DATA what it holds of a log.
Entry == [type : {"entry"}, id : Log \cup {None}, ofs : {0}, count : Nat]
Data  == {f \in [type : {"data"}, id : Log, ofs : Nat, count : 0..Chunk] :
             f.count < Chunk => f.ofs + f.count >= SizeOf[f.id]}
Frame == Entry \cup Data

\* An operation: for a listing the entries seen; for a download the buffer and
\* received, the end of what it holds without a gap.  ignored is history: a retry that
\* held data met a board that considered another transfer active.
Operation ==
    {op \in [kind : {"list", "data"}, id : Log \cup {None}, total : 0..MaxBytes,
             received : Nat, retries : Nat, entries : SUBSET Log,
             buffer : [Offset -> Log \cup {None}], timer : BOOLEAN, ignored : BOOLEAN] :
        op.kind = "data" => op.id \in Log}

ASSUME NoneAssumption == None \notin Operation /\ None \notin [id : Log, ofs : Nat]

ServiceType ==
    /\ vehicle \in BOOLEAN
    /\ active \in Operation \cup {None}
    /\ ended \in Operation \cup {None}
    /\ result \in {"none", "resolved", "cancelled", "stalled"}

WireType ==
    /\ up \in Seq(Request) /\ down \in Seq(Frame)
    /\ logs \subseteq Log /\ held \in BOOLEAN /\ listing \subseteq Log
    /\ stream \in [id : Log, ofs : Nat] \cup {None}

BoundsType == losses \in 0..MaxLosses /\ calls \in 0..MaxCalls /\ events \in 0..MaxEvents

\* Every variable keeps its type, every chunk on the wire the board's promise.
TypeOK == ServiceType /\ WireType /\ BoundsType

Least(a, b)    == IF a < b THEN a ELSE b
Greatest(a, b) == IF a < b THEN b ELSE a

Blank == [kind |-> "list", id |-> None, total |-> 0, received |-> 0, retries |-> 0,
          entries |-> {}, buffer |-> [o \in Offset |-> None], timer |-> TRUE,
          ignored |-> FALSE]

Init ==
    /\ vehicle = TRUE
    /\ active = None /\ ended = None /\ result = "none"
    /\ up = <<>> /\ down = <<>>
    /\ logs \in SUBSET Log /\ held = FALSE /\ listing = {} /\ stream = None
    /\ losses = 0 /\ calls = MaxCalls /\ events = MaxEvents
------------------------------------------------------------------------------
(* listLogs and downloadLog.                                               *)

RequestEnd         == [type |-> "end", id |-> None, ofs |-> 0]
RequestList        == [type |-> "list", id |-> None, ofs |-> 0]
RequestData(id, o) == [type |-> "data", id |-> id, ofs |-> o]

\* requireIdle.
Idle == active = None /\ vehicle /\ calls > 0

ListLogs ==
    /\ Idle
    /\ active' = Blank
    /\ up' = Append(up, RequestList)
    /\ calls' = calls - 1
    /\ UNCHANGED <<vehicle, ended, result, down, board, losses, events>>

DownloadLog(id, size) ==
    /\ Idle /\ id \in logs
    /\ LET op == [Blank EXCEPT !.kind = "data", !.id = id, !.total = size]
       IN  IF size = 0
             THEN /\ ended' = op /\ result' = "resolved"
                  /\ up' = Append(up, RequestEnd)
                  /\ UNCHANGED active
             ELSE /\ active' = op
                  /\ up' = Append(up, RequestData(id, 0))
                  /\ UNCHANGED <<ended, result>>
    /\ calls' = calls - 1
    /\ UNCHANGED <<vehicle, down, board, losses, events>>

\* finishList, finishData and failActive: the operation is cleared, the board told.
End(op, how) ==
    /\ active' = None /\ ended' = op /\ result' = how
    /\ up' = Append(up, RequestEnd)
------------------------------------------------------------------------------
(* handleLogEntry and handleLogData.                                       *)

\* Mutant: the list is taken for complete one entry early.
ListDoneEarly(entries, n) == Cardinality(entries) + 1 >= n

ListDone(entries, n) == Cardinality(entries) >= n

\* An entry is added to the list, unless it says that there are no logs.
Listed(op, f) == IF f.count = 0 THEN op ELSE [op EXCEPT !.entries = @ \cup {f.id}]

\* Mutant: received is a high-water mark.
HighWater(op, f) == f.ofs < op.total

\* The chunk starts at or before the end of what is held without a gap.
Contiguous(op, f) == f.ofs <= op.received /\ f.ofs < op.total

\* The bytes of the chunk that the buffer takes.
Writable(op, f) ==
    IF f.ofs < op.total THEN Least(f.count, op.total - f.ofs) ELSE 0

Stored(op, f) ==
    [op EXCEPT
       !.buffer = [o \in Offset |-> IF f.ofs <= o /\ o < f.ofs + Writable(op, f)
                                      THEN f.id ELSE op.buffer[o]],
       !.received = IF Contiguous(op, f) THEN Greatest(@, f.ofs + Writable(op, f)) ELSE @]

\* The whole of the announced size, or a last chunk that leaves no gap behind it.
DataDone(op, f) == op.received >= op.total \/ (f.count < Chunk /\ Contiguous(op, f))

\* What arrives is matched with the operation by its type and log id.
IsOurs(f) ==
    /\ active # None
    /\ \/ active.kind = "list" /\ f.type = "entry"
       \/ active.kind = "data" /\ f.type = "data" /\ f.id = active.id

Deliver ==
    /\ vehicle /\ down # <<>>
    /\ down' = Tail(down)
    /\ LET f == Head(down)
       IN  IF ~IsOurs(f)
             THEN UNCHANGED <<active, ended, result, up>>
             ELSE LET op == IF f.type = "entry" THEN Listed(active, f) ELSE Stored(active, f)
                      done == IF f.type = "entry" THEN ListDone(op.entries, f.count)
                                                  ELSE DataDone(op, f)
                  IN  IF done THEN End(op, "resolved")
                              ELSE active' = op /\ UNCHANGED <<ended, result, up>>
    /\ UNCHANGED <<vehicle, board, bounds>>
------------------------------------------------------------------------------
(* onTimeout and cancelAll.                                                *)

CanRetry(op) == op.kind = "data" /\ op.retries < MaxRetries /\ op.received < op.total

\* Mutant: a download that has nothing yet asks again, and ends nothing first.
DataOnly(op) == <<RequestData(op.id, op.received)>>

\* A download that has nothing yet ends whatever the board holds active first.
Again(op) ==
    IF op.received = 0 THEN <<RequestEnd, RequestData(op.id, 0)>>
                       ELSE <<RequestData(op.id, op.received)>>

\* Mutant: the timer is not armed again.
Unarmed(op) == [op EXCEPT !.retries = @ + 1, !.timer = FALSE]

Retried(op) == [op EXCEPT !.retries = @ + 1, !.timer = TRUE]

\* Nothing that could still bump the timer is under way.
Silent ==
    /\ up = <<>>
    /\ \A i \in DOMAIN down : ~IsOurs(down[i])
    /\ active.kind = "list" => listing = {}
    /\ stream # None => active.kind = "list" \/ stream.id # active.id

\* The board considers a transfer active, and ignores a request for data.
Deaf == held \/ stream # None

Timeout ==
    /\ active # None /\ active.timer /\ Silent
    /\ IF CanRetry(active)
         THEN /\ active' = [Retried(active) EXCEPT
                              !.ignored = @ \/ (active.received > 0 /\ Deaf)]
              /\ up' = up \o Again(active)
              /\ UNCHANGED <<ended, result>>
         ELSE End(active, "stalled")
    /\ UNCHANGED <<vehicle, down, board, bounds>>

\* The transport closes: cancelAll, and the end request is lost with the link.
LinkDrop ==
    /\ vehicle /\ events > 0 /\ losses < MaxLosses
    /\ events' = events - 1
    /\ vehicle' = FALSE
    /\ IF active = None THEN UNCHANGED <<ended, result>>
                        ELSE ended' = active /\ result' = "cancelled"
    /\ active' = None /\ up' = <<>> /\ down' = <<>>
    /\ losses' = losses + 1
    /\ UNCHANGED <<board, calls>>

Reconnect ==
    /\ ~vehicle
    /\ vehicle' = TRUE
    /\ UNCHANGED <<active, ended, result, up, down, board, bounds>>

\* A send rejects: failActive, whichever operation is in flight by then.
SendRejects ==
    /\ vehicle /\ events > 0 /\ losses < MaxLosses
    /\ up # <<>> /\ Head(up).type # "end"
    /\ events' = events - 1 /\ losses' = losses + 1
    /\ IF active = None
         THEN up' = Tail(up) /\ UNCHANGED <<active, ended, result>>
         ELSE /\ active' = None /\ ended' = active /\ result' = "cancelled"
              /\ up' = Append(Tail(up), RequestEnd)
    /\ UNCHANGED <<vehicle, down, board, calls>>
------------------------------------------------------------------------------
(* The board and the wire (external).                                      *)

Receive ==
    /\ up # <<>>
    /\ up' = Tail(up)
    /\ LET r == Head(up)
       IN  CASE r.type = "list" ->
                  /\ held' = TRUE /\ listing' = logs
                  /\ down' = IF logs # {} THEN down
                             ELSE Append(down, [type |-> "entry", id |-> None, ofs |-> 0,
                                                count |-> 0])
                  /\ UNCHANGED stream
             [] r.type = "end" ->
                  held' = FALSE /\ listing' = {} /\ stream' = None /\ UNCHANGED down
             [] r.type = "data" ->
                  /\ stream' = IF Deaf THEN stream
                                       ELSE [id |-> r.id, ofs |-> r.ofs]
                  /\ UNCHANGED <<held, listing, down>>
    /\ UNCHANGED <<vehicle, active, ended, result, logs, bounds>>

SendEntry(id) ==
    /\ id \in listing
    /\ listing' = listing \ {id}
    /\ down' = IF vehicle THEN Append(down, [type |-> "entry", id |-> id, ofs |-> 0,
                                             count |-> Cardinality(logs)])
                          ELSE down
    /\ UNCHANGED <<vehicle, active, ended, result, up, logs, held, stream, bounds>>

SendData ==
    /\ stream # None
    /\ LET left == SizeOf[stream.id] - stream.ofs
           n == IF left < 0 THEN 0 ELSE Least(Chunk, left)
       IN  /\ down' = IF vehicle THEN Append(down, [type |-> "data", id |-> stream.id,
                                                    ofs |-> stream.ofs, count |-> n])
                                 ELSE down
           /\ stream' = IF n < Chunk THEN None ELSE [stream EXCEPT !.ofs = @ + Chunk]
    /\ UNCHANGED <<vehicle, active, ended, result, up, logs, held, listing, bounds>>

Lose ==
    /\ losses < MaxLosses
    /\ losses' = losses + 1
    /\ \/ up # <<>> /\ up' = Tail(up) /\ UNCHANGED down
       \/ down # <<>> /\ down' = Tail(down) /\ UNCHANGED up
    /\ UNCHANGED <<vehicle, active, ended, result, board, calls, events>>

Overtake ==
    /\ losses < MaxLosses /\ Len(down) > 1
    /\ losses' = losses + 1
    /\ down' = <<Head(Tail(down)), Head(down)>> \o Tail(Tail(down))
    /\ UNCHANGED <<vehicle, active, ended, result, up, board, calls, events>>

Next ==
    \/ ListLogs
    \/ \E id \in Log, size \in Reported : DownloadLog(id, size)
    \/ Deliver \/ Timeout \/ LinkDrop \/ Reconnect \/ SendRejects
    \/ Receive \/ SendData \/ Lose \/ Overtake
    \/ \E id \in Log : SendEntry(id)

Spec == Init /\ [][Next]_vars

\* Fairness.  The timer fires, the board works through what it was asked for, and
\* a message arrives or is lost.
Fairness ==
    /\ WF_vars(Deliver) /\ WF_vars(Timeout) /\ WF_vars(Receive) /\ WF_vars(SendData)
    /\ \A id \in Log : WF_vars(SendEntry(id))

FairSpec == Spec /\ Fairness
------------------------------------------------------------------------------
(* Properties.                                                             *)

\* A download that resolves holds every byte of the log up to the size asked for:
\* no lost, late or foreign chunk leaves a gap ("silently resolve a zero-filled,
\* corrupt log as a SUCCESSFUL download", handleLogData).
DownloadIsWhole ==
    result = "resolved" /\ ended.kind = "data" =>
        \A o \in Offset : o < ended.total /\ o < SizeOf[ended.id] => ended.buffer[o] = ended.id

\* A listing that resolves names every log of the board, and no other.
ListIsWhole == result = "resolved" /\ ended.kind = "list" => ended.entries = logs

\* A download that gives up has met more messages lost or overtaken than it has
\* retries: a lost LOG_REQUEST_END, which leaves the board deaf to requests, costs
\* one retry like any other loss (onTimeout, "Each 0% retry therefore sends LOG_REQUEST_END first").
\* The exception is a retry that holds a start of the log, which does not send it.
FewLossesAreSurvived ==
    result = "stalled" /\ ended.kind = "data" => losses > MaxRetries \/ ended.ignored

\* Every operation ends, so none shuts the service to all later ones (requireIdle,
\* "A log operation is already in progress").
OperationEnds == active # None ~> active = None
==============================================================================
