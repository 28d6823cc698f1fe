--------------------------- MODULE LogDownloadProofs --------------------------
(***************************************************************************)
(* What LogDownload resolves is whole, for logs of any number and size, any  *)
(* chunk size and retry budget, and a wire that loses and reorders messages. *)
(*                                                                         *)
(* Two facts carry the argument.  The wire tells the truth (Wire): an entry  *)
(* names a log of the board and its number of logs, and a short chunk ends   *)
(* its log, which is part of the type of a chunk.  The operation in flight    *)
(* holds the bytes of its own log up to received, and entries of logs that    *)
(* exist (Progress).  DownloadIsWhole and ListIsWhole are inductive with      *)
(* them.  The last part proves that few losses are survived, from where the  *)
(* bytes a download misses are.                                             *)
(***************************************************************************)
EXTENDS LogDownload, FiniteSetTheorems, TLAPS

\* The entries this board can send.
TrueEntry ==
    {f \in Entry : \/ f.id \in logs /\ f.count = Cardinality(logs)
                   \/ logs = {} /\ f.count = 0}

Wire == down \in Seq(TrueEntry \cup Data) /\ listing \subseteq logs

Progress ==
    active # None =>
        /\ active.entries \subseteq logs
        /\ active.kind = "data" =>
              \A o \in Offset : o < active.received => active.buffer[o] = active.id

Whole == DownloadIsWhole /\ ListIsWhole

Inv == TypeOK /\ Wire /\ Progress /\ Whole

\* A non-empty sequence has a head and a tail, which is not empty when it holds two.
LEMMA HeadTail ==
    ASSUME NEW S, NEW q \in Seq(S), q # <<>>
    PROVE  /\ Head(q) \in S /\ Tail(q) \in Seq(S)
           /\ Len(q) > 1 => Tail(q) # <<>>
<1>1. Head(q) \in S /\ Tail(q) \in Seq(S) /\ Len(Tail(q)) = Len(q) - 1 /\ Len(q) \in Nat
    OBVIOUS
<1>2. Len(<<>>) = 0
    OBVIOUS
<1>3. ASSUME Len(q) > 1, Tail(q) = <<>> PROVE FALSE
  <2>1. Len(Tail(q)) = Len(<<>>)
    BY <1>3, Zenon
  <2> QED BY <1>1, <1>2, <1>3, <2>1
<1> QED BY <1>1, <1>3

\* A blank operation is typed and holds nothing.
LEMMA BlankType ==
    Blank \in Operation /\ Blank.kind = "list" /\ Blank.entries = {} /\ Blank.received = 0
<1>1. [o \in Offset |-> None] \in [Offset -> Log \cup {None}]
    OBVIOUS
<1> QED BY <1>1, LogAssumption DEF Blank, Operation

\* The requests the service sends are typed.
LEMMA RequestType ==
    /\ RequestEnd \in Request /\ RequestList \in Request
    /\ \A id \in Log, o \in Nat : RequestData(id, o) \in Request
BY DEF Request, RequestEnd, RequestList, RequestData

\* A service that has just been constructed holds nothing.
LEMMA InitInv == Init => Inv
<1> SUFFICES ASSUME Init PROVE Inv
    OBVIOUS
<1>1. <<>> \in Seq(Request) /\ <<>> \in Seq(Frame) /\ <<>> \in Seq(TrueEntry \cup Data)
    OBVIOUS
<1>2. TypeOK
  <2>1. ServiceType /\ BoundsType
    BY LogAssumption DEF Init, ServiceType, BoundsType
  <2>2. WireType
    BY <1>1 DEF Init, WireType
  <2> QED BY <2>1, <2>2 DEF TypeOK
<1>3. Wire /\ Progress /\ Whole
    BY <1>1 DEF Init, Wire, Progress, Whole, DownloadIsWhole, ListIsWhole
<1> QED BY <1>2, <1>3 DEF Inv

\* A step that starts or refuses an operation: listLogs and downloadLog.
LEMMA CallInv ==
    ASSUME Inv, ListLogs \/ \E id \in Log, size \in Reported : DownloadLog(id, size)
    PROVE  Inv'
<1> USE DEF Inv, TypeOK
<1>1. UNCHANGED <<vehicle, down, logs, held, listing, stream, losses, events>> /\ calls' = calls - 1
        /\ calls > 0
    BY DEF ListLogs, DownloadLog, Idle, board
<1>2. BoundsType'
    BY <1>1, LogAssumption DEF BoundsType
<1>3. Wire'
    BY <1>1 DEF Wire, TrueEntry
<1>4. CASE ListLogs
  <2>1. up' \in Seq(Request) /\ active' = Blank /\ UNCHANGED <<ended, result>>
    BY <1>4, RequestType DEF ListLogs, WireType
  <2> QED BY <1>1, <1>2, <1>3, <2>1, BlankType
             DEF ServiceType, WireType, Progress, Whole, DownloadIsWhole, ListIsWhole
<1>5. CASE \E id \in Log, size \in Reported : DownloadLog(id, size)
  <2>1. PICK id \in Log, size \in Reported : DownloadLog(id, size)
    BY <1>5
  <2> DEFINE op == [Blank EXCEPT !.kind = "data", !.id = id, !.total = size]
  <2>2. size \in 0..MaxBytes
    BY LogAssumption
  <2>3. op \in Operation /\ op.kind = "data" /\ op.received = 0 /\ op.entries = {} /\ op.total = size
    BY <2>2, BlankType DEF Operation
  <2>4. CASE size = 0
    <3>0. ended' = op /\ result' = "resolved" /\ UNCHANGED active /\ up' = Append(up, RequestEnd)
      BY <2>1, <2>4 DEF DownloadLog
    <3>1. up' \in Seq(Request)
      BY <3>0, RequestType DEF WireType
    <3>2. Whole'
      BY <2>3, <2>4, <3>0 DEF Whole, DownloadIsWhole, ListIsWhole, Offset
    <3> QED BY <1>1, <1>2, <1>3, <2>3, <3>0, <3>1, <3>2 DEF ServiceType, WireType, Progress
  <2>5. CASE size # 0
    <3>0. active' = op /\ UNCHANGED <<ended, result>> /\ up' = Append(up, RequestData(id, 0))
      BY <2>1, <2>5 DEF DownloadLog
    <3>1. up' \in Seq(Request)
      BY <3>0, RequestType DEF WireType
    <3>2. Progress'
      BY <2>3, <3>0 DEF Progress, Offset
    <3> QED BY <1>1, <1>2, <1>3, <2>3, <3>0, <3>1, <3>2
               DEF ServiceType, WireType, Whole, DownloadIsWhole, ListIsWhole
  <2> QED BY <2>4, <2>5
<1> QED BY <1>4, <1>5

\* A chunk of the log at hand leaves the operation typed, and its bytes in place up
\* to received: the bytes it adds to the frontier are its own.
LEMMA StoredIsProgress ==
    ASSUME NEW op \in Operation, op.kind = "data", NEW f \in Data, f.id = op.id,
           \A o \in Offset : o < op.received => op.buffer[o] = op.id
    PROVE  LET new == Stored(op, f)
           IN  /\ new \in Operation /\ new.kind = "data" /\ new.id = op.id
               /\ new.total = op.total /\ new.entries = op.entries
               /\ \A o \in Offset : o < new.received => new.buffer[o] = op.id
               /\ DataDone(new, f) => new.received >= Least(op.total, SizeOf[op.id])
<1> DEFINE w == Writable(op, f)
           new == Stored(op, f)
           buffer == [o \in Offset |-> IF f.ofs <= o /\ o < f.ofs + w THEN f.id ELSE op.buffer[o]]
           received == IF Contiguous(op, f) THEN Greatest(op.received, f.ofs + w) ELSE op.received
<1>1. /\ f.ofs \in Nat /\ f.count \in 0..Chunk /\ f.id \in Log
      /\ f.count < Chunk => f.ofs + f.count >= SizeOf[f.id]
    BY DEF Data
<1>2. op.total \in 0..MaxBytes /\ op.received \in Nat /\ op.buffer \in [Offset -> Log \cup {None}]
    BY DEF Operation
<1>3. w \in Nat /\ (f.ofs < op.total => w = Least(f.count, op.total - f.ofs))
    BY <1>1, <1>2, LogAssumption DEF Writable, Least
<1>4. received \in Nat /\ received >= op.received
        /\ (Contiguous(op, f) => received >= f.ofs + w)
    BY <1>1, <1>2, <1>3 DEF Greatest
<1>5. buffer \in [Offset -> Log \cup {None}]
    BY <1>1, <1>2
<1>6. new = [op EXCEPT !.buffer = buffer, !.received = received]
    BY DEF Stored
<1>7. /\ new \in Operation /\ new.kind = "data" /\ new.id = op.id /\ new.total = op.total
      /\ new.entries = op.entries /\ new.buffer = buffer /\ new.received = received
    BY <1>4, <1>5, <1>6 DEF Operation
<1>8. ASSUME NEW o \in Offset, o < received PROVE buffer[o] = op.id
  <2>1. o \in Nat
    BY LogAssumption DEF Offset
  <2>2. CASE o < op.received
    BY <2>2
  <2>3. CASE ~(o < op.received)
    <3>1. Contiguous(op, f) /\ o < f.ofs + w /\ f.ofs <= o
      BY <1>1, <1>2, <1>3, <1>8, <2>1, <2>3 DEF Greatest, Contiguous
    <3> QED BY <3>1
  <2> QED BY <2>2, <2>3
<1>9. ASSUME DataDone(new, f) PROVE received >= Least(op.total, SizeOf[op.id])
  <2>1. SizeOf[op.id] \in Nat
    BY <1>1, LogAssumption
  <2>2. CASE received >= op.total
    BY <1>2, <1>4, <2>1, <2>2 DEF Least
  <2>3. CASE f.count < Chunk /\ f.ofs <= received /\ f.ofs < op.total
    <3>1. Contiguous(op, f)
      BY <1>1, <1>2, <1>3, <2>3 DEF Contiguous
    <3>2. received >= f.ofs + Least(f.count, op.total - f.ofs)
      BY <1>3, <1>4, <2>3, <3>1
    <3>3. f.ofs + f.count >= SizeOf[op.id]
      BY <1>1, <2>3
    <3> QED BY <1>1, <1>2, <1>4, <2>1, <3>2, <3>3, LogAssumption DEF Least
  <2> QED BY <1>7, <1>9, <2>2, <2>3 DEF DataDone, Contiguous
<1> QED BY <1>7, <1>8, <1>9

\* As many entries as the board has logs, all of them logs of the board, are all.
LEMMA CountedIsWhole ==
    ASSUME TypeOK, NEW S \in SUBSET logs, Cardinality(S) >= Cardinality(logs)
    PROVE  S = logs
<1>1. IsFiniteSet(logs)
    BY FS_Subset, LogAssumption DEF TypeOK, WireType
<1>2. Cardinality(S) <= Cardinality(logs) /\ (Cardinality(S) = Cardinality(logs) => S = logs)
    BY <1>1, FS_Subset
<1>3. Cardinality(S) \in Nat /\ Cardinality(logs) \in Nat
    BY <1>1, FS_Subset, FS_CardinalityType
<1> QED BY <1>2, <1>3

\* handleLogEntry and handleLogData: what is ignored, what is kept, what completes.
LEMMA DeliverInv ==
    ASSUME Inv, Deliver PROVE Inv'
<1> USE DEF Inv, TypeOK
<1> DEFINE f == Head(down)
<1>1. /\ UNCHANGED <<vehicle, logs, held, listing, stream, losses, calls, events>>
      /\ down' = Tail(down) /\ down # <<>>
    BY DEF Deliver, board, bounds
<1>2. f \in TrueEntry \cup Data /\ Tail(down) \in Seq(TrueEntry \cup Data)
    BY <1>1, HeadTail DEF Wire
<1>3. Tail(down) \in Seq(Frame)
    BY <1>1, HeadTail DEF WireType
<1>4. Wire' /\ BoundsType'
    BY <1>1, <1>2 DEF Wire, TrueEntry, BoundsType
<1>5. CASE UNCHANGED <<active, ended, result, up>>
    BY <1>1, <1>3, <1>4, <1>5 DEF ServiceType, WireType, Progress, Whole, DownloadIsWhole,
                                  ListIsWhole
<1>6. ASSUME NEW op \in Operation, End(op, "resolved"),
             /\ op.kind = "data" =>
                   \A o \in Offset : o < op.total /\ o < SizeOf[op.id] => op.buffer[o] = op.id
             /\ op.kind = "list" => op.entries = logs
      PROVE  Inv'
  <2>1. active' = None /\ ended' = op /\ result' = "resolved" /\ up' = Append(up, RequestEnd)
    BY <1>6 DEF End
  <2>2. up' \in Seq(Request)
    BY <2>1, RequestType DEF WireType
  <2>3. Whole' /\ Progress'
    BY <1>1, <1>6, <2>1 DEF Whole, DownloadIsWhole, ListIsWhole, Progress
  <2> QED BY <1>1, <1>3, <1>4, <1>6, <2>1, <2>2, <2>3 DEF ServiceType, WireType
<1>7. ASSUME NEW op \in Operation, active' = op, UNCHANGED <<ended, result, up>>,
             op.entries \subseteq logs,
             op.kind = "data" => \A o \in Offset : o < op.received => op.buffer[o] = op.id
      PROVE  Inv'
  <2>1. Whole' /\ Progress'
    BY <1>1, <1>7 DEF Whole, DownloadIsWhole, ListIsWhole, Progress
  <2> QED BY <1>1, <1>3, <1>4, <1>7, <2>1 DEF ServiceType, WireType
<1>8. CASE IsOurs(f) /\ f.type = "entry"
  <2> DEFINE op == Listed(active, f)
  <2>1. f \in TrueEntry /\ active \in Operation /\ active.kind = "list"
    BY <1>2, <1>8 DEF Data, IsOurs, ServiceType
  <2>2. op \in Operation /\ op.kind = "list" /\ op.entries \subseteq logs
    <3>1. CASE f.count = 0
      BY <2>1, <3>1, <1>8 DEF Listed, Progress, IsOurs
    <3>2. CASE f.count # 0
      <4>1. f.id \in logs /\ logs \subseteq Log
        BY <2>1, <3>2 DEF TrueEntry, WireType
      <4>2. active.entries \subseteq logs
        BY <1>8 DEF Progress, IsOurs
      <4>3. op = [active EXCEPT !.entries = @ \cup {f.id}]
        BY <3>2 DEF Listed
      <4> QED BY <2>1, <4>1, <4>2, <4>3 DEF Operation
    <3> QED BY <3>1, <3>2
  <2>3. ASSUME ListDone(op.entries, f.count) PROVE op.entries = logs
    <3>1. CASE logs = {}
      BY <2>2, <3>1
    <3>2. CASE logs # {}
      <4>1. f.count = Cardinality(logs)
        BY <2>1, <3>2 DEF TrueEntry
      <4> QED BY <2>2, <2>3, <4>1, CountedIsWhole DEF ListDone
    <3> QED BY <3>1, <3>2
  <2>4. \/ ListDone(op.entries, f.count) /\ End(op, "resolved")
        \/ active' = op /\ UNCHANGED <<ended, result, up>>
    BY <1>8 DEF Deliver
  <2> QED BY <1>6, <1>7, <2>2, <2>3, <2>4
<1>9. CASE IsOurs(f) /\ f.type = "data"
  <2> DEFINE op == Stored(active, f)
  <2>1. f \in Data /\ active \in Operation /\ active.kind = "data" /\ f.id = active.id
    BY <1>2, <1>9 DEF TrueEntry, Entry, IsOurs, ServiceType
  <2>2. \A o \in Offset : o < active.received => active.buffer[o] = active.id
    BY <1>9, <2>1 DEF Progress, IsOurs
  <2>3. /\ op \in Operation /\ op.kind = "data" /\ op.id = active.id
        /\ op.total = active.total /\ op.entries = active.entries
        /\ \A o \in Offset : o < op.received => op.buffer[o] = op.id
        /\ DataDone(op, f) => op.received >= Least(active.total, SizeOf[active.id])
    BY <2>1, <2>2, StoredIsProgress
  <2>4. op.entries \subseteq logs
    BY <1>9, <2>3 DEF Progress, IsOurs
  <2>5. ASSUME DataDone(op, f), NEW o \in Offset, o < op.total, o < SizeOf[op.id]
        PROVE  op.buffer[o] = op.id
    <3>1. op.received \in Nat /\ active.total \in Nat /\ SizeOf[active.id] \in Nat /\ o \in Nat
      BY <2>1, <2>3, LogAssumption DEF Operation, Data, Offset
    <3>2. o < op.received
      BY <2>3, <2>5, <3>1 DEF Least
    <3> QED BY <2>3, <3>2
  <2>6. \/ DataDone(op, f) /\ End(op, "resolved")
        \/ active' = op /\ UNCHANGED <<ended, result, up>>
    BY <1>9 DEF Deliver
  <2>7. CASE DataDone(op, f) /\ End(op, "resolved")
    BY <1>6, <2>3, <2>5, <2>7
  <2>8. CASE active' = op /\ UNCHANGED <<ended, result, up>>
    BY <1>7, <2>3, <2>4, <2>8
  <2> QED BY <2>6, <2>7, <2>8
<1>10. ~IsOurs(f) => UNCHANGED <<active, ended, result, up>>
    BY DEF Deliver
<1>11. IsOurs(f) => f.type = "entry" \/ f.type = "data"
    BY DEF IsOurs
<1> QED BY <1>5, <1>8, <1>9, <1>10, <1>11

\* onTimeout: a retry keeps what the operation holds, a failure resolves nothing.
LEMMA TimeoutInv ==
    ASSUME Inv, Timeout PROVE Inv'
<1> USE DEF Inv, TypeOK
<1>1. /\ UNCHANGED <<vehicle, down, logs, held, listing, stream, losses, calls, events>>
      /\ active \in Operation /\ active # None
    BY DEF Timeout, ServiceType, board, bounds
<1>2. Wire' /\ BoundsType'
    BY <1>1 DEF Wire, TrueEntry, BoundsType
<1>3. CASE CanRetry(active)
  <2> DEFINE ignored == active.ignored \/ (active.received > 0 /\ Deaf)
  <2>1. /\ active' = [Retried(active) EXCEPT !.ignored = ignored]
        /\ up' = up \o Again(active) /\ UNCHANGED <<ended, result>>
    <3>1. Retried(active).ignored = active.ignored
      BY <1>1 DEF Retried, Operation
    <3> QED BY <1>3, <3>1 DEF Timeout
  <2>2. Again(active) \in Seq(Request)
    <3>1. active.id \in Log /\ active.received \in Nat
      BY <1>1, <1>3 DEF CanRetry, Operation
    <3>2. RequestEnd \in Request /\ RequestData(active.id, 0) \in Request
            /\ RequestData(active.id, active.received) \in Request
      BY <3>1, RequestType
    <3> QED BY <3>2 DEF Again
  <2>3. up' \in Seq(Request)
    BY <2>1, <2>2 DEF WireType
  <2>4. /\ active' \in Operation /\ active'.kind = active.kind /\ active'.id = active.id
        /\ active'.received = active.received /\ active'.buffer = active.buffer
        /\ active'.entries = active.entries
    <3>1. active.retries + 1 \in Nat
      BY <1>1 DEF Operation
    <3>2. active' = [active EXCEPT !.retries = active.retries + 1, !.timer = TRUE,
                                   !.ignored = ignored]
      BY <1>1, <2>1 DEF Retried, Operation
    <3>3. ignored \in BOOLEAN
      BY <1>1 DEF Operation
    <3> HIDE DEF ignored
    <3> QED BY <1>1, <3>1, <3>2, <3>3 DEF Operation
  <2>5. Progress' /\ Whole'
    BY <1>1, <2>1, <2>4 DEF Progress, Whole, DownloadIsWhole, ListIsWhole
  <2> QED BY <1>1, <1>2, <2>1, <2>3, <2>4, <2>5 DEF ServiceType, WireType
<1>4. CASE ~CanRetry(active)
  <2>1. active' = None /\ ended' = active /\ result' = "stalled" /\ up' = Append(up, RequestEnd)
    BY <1>4 DEF Timeout, End
  <2>2. up' \in Seq(Request)
    BY <2>1, RequestType DEF WireType
  <2>3. Progress' /\ Whole'
    BY <2>1 DEF Progress, Whole, DownloadIsWhole, ListIsWhole
  <2> QED BY <1>1, <1>2, <2>1, <2>2, <2>3 DEF ServiceType, WireType
<1> QED BY <1>3, <1>4

\* The link: cancelAll, a rejected send, and the steps that touch neither the
\* operation nor its result.
LEMMA LinkInv ==
    ASSUME Inv, LinkDrop \/ Reconnect \/ SendRejects PROVE Inv'
<1> USE DEF Inv, TypeOK
<1>1. <<>> \in Seq(Request) /\ <<>> \in Seq(Frame) /\ <<>> \in Seq(TrueEntry \cup Data)
    OBVIOUS
<1>2. UNCHANGED <<logs, held, listing, stream, calls>> /\ (down' = <<>> \/ down' = down)
    BY DEF LinkDrop, Reconnect, SendRejects, board, bounds
<1>3. Wire'
  <2>1. down' \in Seq(TrueEntry \cup Data)
    BY <1>1, <1>2 DEF Wire
  <2> QED BY <1>2, <2>1 DEF Wire, TrueEntry
<1>4. BoundsType'
    BY <1>2, LogAssumption DEF BoundsType, LinkDrop, Reconnect, SendRejects, bounds
<1>5. up' \in Seq(Request)
  <2>1. CASE LinkDrop
    BY <1>1, <2>1 DEF LinkDrop
  <2>2. CASE Reconnect
    BY <2>2 DEF Reconnect, WireType
  <2>3. CASE SendRejects
    <3>1. Tail(up) \in Seq(Request)
      BY <2>3, HeadTail DEF SendRejects, WireType
    <3>2. Append(Tail(up), RequestEnd) \in Seq(Request)
      BY <3>1, RequestType
    <3> QED BY <2>3, <3>1, <3>2 DEF SendRejects
  <2> QED BY <2>1, <2>2, <2>3
<1>6. WireType'
  <2>1. down' \in Seq(Frame)
    BY <1>1, <1>2 DEF WireType
  <2> QED BY <1>2, <1>5, <2>1 DEF WireType
<1>7. ServiceType' /\ Progress' /\ Whole'
  <2>1. vehicle' \in BOOLEAN
    BY DEF LinkDrop, Reconnect, SendRejects, ServiceType
  <2>2. \/ UNCHANGED <<active, ended, result>>
        \/ active' = None /\ UNCHANGED <<ended, result>>
        \/ active' = None /\ active # None /\ ended' = active /\ result' = "cancelled"
    BY DEF LinkDrop, Reconnect, SendRejects
  <2> QED BY <1>2, <2>1, <2>2 DEF ServiceType, Progress, Whole, DownloadIsWhole, ListIsWhole
<1> QED BY <1>3, <1>4, <1>6, <1>7

\* The board answers with true entries, and with chunks that end where the log does.
LEMMA BoardInv ==
    ASSUME Inv, Receive \/ SendData \/ Lose \/ Overtake \/ \E id \in Log : SendEntry(id)
    PROVE  Inv'
<1> USE DEF Inv, TypeOK
<1> DEFINE Sound == TrueEntry \cup Data
<1>1. UNCHANGED <<vehicle, active, ended, result, logs, calls, events>>
    BY DEF Receive, SendData, Lose, Overtake, SendEntry, board, bounds
<1>2. BoundsType'
  <2>1. losses' = losses \/ (losses < MaxLosses /\ losses' = losses + 1)
    BY DEF Receive, SendData, Lose, Overtake, SendEntry, bounds
  <2> QED BY <1>1, <2>1, LogAssumption DEF BoundsType
<1>3. ServiceType' /\ Progress' /\ Whole'
    BY <1>1 DEF ServiceType, Progress, Whole, DownloadIsWhole, ListIsWhole
<1>4. TrueEntry' = TrueEntry /\ Sound \subseteq Frame
    BY <1>1 DEF TrueEntry, Frame
<1>5. /\ up' \in Seq(Request) /\ down' \in Seq(Sound) /\ listing' \subseteq logs
      /\ held' \in BOOLEAN /\ stream' \in [id : Log, ofs : Nat] \cup {None}
  <2>0. down \in Seq(Sound) /\ up \in Seq(Request) /\ listing \subseteq logs
          /\ held \in BOOLEAN /\ stream \in [id : Log, ofs : Nat] \cup {None}
    BY DEF Wire, WireType
  <2>1. CASE Receive
    <3>1. Head(up) \in Request /\ up' \in Seq(Request)
      BY <2>0, <2>1, HeadTail DEF Receive
    <3>2. Head(up).ofs \in Nat /\ (Head(up).type = "data" => Head(up).id \in Log)
            /\ Head(up).type \in {"list", "end", "data"}
      BY <3>1 DEF Request
    <3>3. held' \in BOOLEAN /\ listing' \subseteq logs
            /\ stream' \in [id : Log, ofs : Nat] \cup {None}
      <4>1. CASE Head(up).type = "list"
        BY <2>0, <2>1, <4>1 DEF Receive
      <4>2. CASE Head(up).type = "end"
        BY <2>0, <2>1, <4>2 DEF Receive
      <4>3. CASE Head(up).type = "data"
        <5>1. [id |-> Head(up).id, ofs |-> Head(up).ofs] \in [id : Log, ofs : Nat]
          BY <3>2, <4>3
        <5> QED BY <2>0, <2>1, <4>3, <5>1 DEF Receive
      <4> QED BY <3>2, <4>1, <4>2, <4>3
    <3>4. CASE Head(up).type = "list" /\ logs = {}
      <4>1. [type |-> "entry", id |-> None, ofs |-> 0, count |-> 0] \in TrueEntry
        BY <3>4 DEF TrueEntry, Entry
      <4>2. down' = Append(down, [type |-> "entry", id |-> None, ofs |-> 0, count |-> 0])
        BY <2>1, <3>4 DEF Receive
      <4> QED BY <2>0, <3>1, <3>3, <4>1, <4>2
    <3>5. CASE ~(Head(up).type = "list" /\ logs = {})
      <4>1. down' = down
        BY <2>1, <3>2, <3>5 DEF Receive
      <4> QED BY <2>0, <3>1, <3>3, <4>1
    <3> QED BY <3>4, <3>5
  <2>2. CASE SendData
    <3> DEFINE left == SizeOf[stream.id] - stream.ofs
               n == IF left < 0 THEN 0 ELSE Least(Chunk, left)
               chunk == [type |-> "data", id |-> stream.id, ofs |-> stream.ofs, count |-> n]
    <3>1. stream.id \in Log /\ stream.ofs \in Nat /\ SizeOf[stream.id] \in Nat
      BY <2>0, <2>2, LogAssumption DEF SendData
    <3>2. n \in 0..Chunk /\ (n < Chunk => stream.ofs + n >= SizeOf[stream.id])
      BY <3>1, LogAssumption DEF Least
    <3>3. chunk \in Data
      BY <3>1, <3>2 DEF Data
    <3>4. down' = Append(down, chunk) \/ down' = down
      BY <2>2 DEF SendData
    <3>5. stream' \in [id : Log, ofs : Nat] \cup {None}
      <4>1. stream.ofs + Chunk \in Nat /\ stream \in [id : Log, ofs : Nat]
        BY <2>0, <2>2, <3>1, LogAssumption DEF SendData
      <4>2. [stream EXCEPT !.ofs = stream.ofs + Chunk] \in [id : Log, ofs : Nat]
        BY <4>1
      <4> QED BY <2>2, <4>2 DEF SendData
    <3>6. UNCHANGED <<up, held, listing>>
      BY <2>2 DEF SendData
    <3> QED BY <2>0, <3>3, <3>4, <3>5, <3>6
  <2>3. CASE Lose
    BY <2>0, <2>3, HeadTail DEF Lose, board
  <2>4. CASE Overtake
    <3>0. Len(down) > 1 /\ down # <<>>
      BY <2>4 DEF Overtake
    <3>1. Tail(down) \in Seq(Sound) /\ Tail(down) # <<>> /\ Head(down) \in Sound
      BY <2>0, <3>0, HeadTail
    <3>2. Head(Tail(down)) \in Sound /\ Tail(Tail(down)) \in Seq(Sound)
      BY <3>1, HeadTail
    <3>3. <<Head(Tail(down)), Head(down)>> \in Seq(Sound)
      BY <3>1, <3>2
    <3>4. down' \in Seq(Sound)
      BY <2>4, <3>2, <3>3 DEF Overtake
    <3> QED BY <2>0, <2>4, <3>4 DEF Overtake, board
  <2>5. CASE \E id \in Log : SendEntry(id)
    <3>1. PICK id \in Log : SendEntry(id)
      BY <2>5
    <3>2. id \in logs /\ Cardinality(logs) \in Nat
      BY <2>0, <3>1, FS_Subset, FS_CardinalityType, LogAssumption DEF SendEntry, WireType
    <3>3. [type |-> "entry", id |-> id, ofs |-> 0, count |-> Cardinality(logs)] \in TrueEntry
      BY <3>2 DEF TrueEntry, Entry
    <3> QED BY <2>0, <3>1, <3>3 DEF SendEntry
  <2> QED BY <2>1, <2>2, <2>3, <2>4, <2>5
<1>6. down' \in Seq(Frame)
    BY <1>4, <1>5
<1> QED BY <1>1, <1>2, <1>3, <1>4, <1>5, <1>6 DEF WireType, Wire

\* Every step of the service, the wire and the board keeps the invariant.
LEMMA StepInv == Inv /\ [Next]_vars => Inv'
<1>1. ASSUME Inv, UNCHANGED vars PROVE Inv'
    BY <1>1 DEF vars, board, bounds, Inv, TypeOK, ServiceType, WireType, BoundsType, Wire,
                TrueEntry, Progress, Whole, DownloadIsWhole, ListIsWhole
<1> QED BY <1>1, CallInv, DeliverInv, TimeoutInv, LinkInv, BoardInv DEF Next

\* Every variable keeps its type, and every chunk on the wire the board's promise.
THEOREM TypeCorrect == Spec => []TypeOK
<1>1. Inv => TypeOK
    BY DEF Inv
<1> QED BY <1>1, InitInv, StepInv, PTL DEF Spec

\* A download that resolves holds every byte of its log up to the size asked for,
\* whatever was lost, repeated or overtaken (handleLogData).
THEOREM DownloadIsWholeAlways == Spec => []DownloadIsWhole
<1>1. Inv => DownloadIsWhole
    BY DEF Inv, Whole
<1> QED BY <1>1, InitInv, StepInv, PTL DEF Spec

\* A listing that resolves names exactly the logs of the board (handleLogEntry).
THEOREM ListIsWholeAlways == Spec => []ListIsWhole
<1>1. Inv => ListIsWhole
    BY DEF Inv, Whole
<1> QED BY <1>1, InitInv, StepInv, PTL DEF Spec
------------------------------------------------------------------------------
(***************************************************************************)
(* Few losses do not fail a download.  The argument charges every retry to  *)
(* a message lost or overtaken: a download has met as many as it has asked  *)
(* again, and one more unless what it misses is on its way (Charged).  It is *)
(* on its way as a request that a board free of transfers will hear (Asked)  *)
(* or as a run of chunks that continues what the operation holds (Served).   *)
(* The timer fires when neither is the case, so that a loss is left for the *)
(* retry.  A retry that holds nothing yet sends LOG_REQUEST_END first and    *)
(* needs no free board; one that holds data does, and is noted otherwise     *)
(* (ignored).                                                              *)
(***************************************************************************)

\* Once the board has handled what is on its way to it, it takes no transfer for active.
Freed == IF up = <<>> THEN ~Deaf ELSE up[Len(up)].type = "end"

\* The request for what is missing is on its way to a board that will heed it.
Asked ==
    /\ up # <<>>
    /\ LET r == up[Len(up)] IN r.type = "data" /\ r.id = active.id /\ r.ofs <= active.received
    /\ IF Len(up) = 1 THEN ~Deaf ELSE up[Len(up) - 1].type = "end"

\* From position k on, the messages to the service are chunks of the log one after
\* the other, the first of which continues what the operation holds; the board
\* streams the next one, or has sent the last.
Chunks(k) ==
    /\ \A i \in k..Len(down) :
          /\ down[i].type = "data" /\ down[i].id = active.id
          /\ i < Len(down) => down[i].count = Chunk /\ down[i + 1].ofs = down[i].ofs + Chunk
    /\ k <= Len(down) => down[k].ofs <= active.received
    /\ IF stream = None
         THEN k <= Len(down) /\ down[Len(down)].count < Chunk
         ELSE /\ stream.id = active.id
              /\ IF k <= Len(down)
                   THEN down[Len(down)].count = Chunk /\ stream.ofs = down[Len(down)].ofs + Chunk
                   ELSE stream.ofs <= active.received

Served == up = <<>> /\ ~held /\ \E k \in 1..(Len(down) + 1) : Chunks(k)

\* A download has met a loss for every retry, and one more unless it is on its way.
Charged ==
    active # None /\ active.kind = "data" =>
        /\ active.received < active.total
        /\ \/ active.ignored
           \/ losses > active.retries
           \/ losses = active.retries /\ (Asked \/ Served)

Survives ==
    /\ listing # {} => held
    /\ active # None => vehicle
    /\ active = None /\ losses = 0 => Freed
    /\ Charged
    /\ FewLossesAreSurvived

\* A sequence that is not empty has a first element, and its tail holds the others.
LEMMA TailAt ==
    ASSUME NEW S, NEW q \in Seq(S), q # <<>>
    PROVE  /\ Len(q) \in Nat \ {0} /\ Head(q) = q[1]
           /\ Tail(q) \in Seq(S) /\ Len(Tail(q)) = Len(q) - 1
           /\ \A i \in 1..(Len(q) - 1) : Tail(q)[i] = q[i + 1]
OBVIOUS

\* What Append leaves in place and what it adds.
LEMMA AppendAt ==
    ASSUME NEW S, NEW q \in Seq(S), NEW e \in S
    PROVE  /\ Len(q) \in Nat /\ Len(Append(q, e)) = Len(q) + 1
           /\ Append(q, e) # <<>> /\ Append(q, e)[Len(q) + 1] = e
           /\ \A i \in 1..Len(q) : Append(q, e)[i] = q[i]
OBVIOUS

\* Only the empty sequence is of length 0.
LEMMA EmptyLen == ASSUME NEW S, NEW q \in Seq(S) PROVE Len(q) \in Nat /\ (q = <<>> <=> Len(q) = 0)
OBVIOUS

\* Nothing has been asked for, and no board takes a transfer for active.
LEMMA InitSurvives == Init => Survives
BY DEF Init, Survives, Charged, Freed, Deaf, FewLossesAreSurvived

\* After a LOG_REQUEST_END the board is free.
LEMMA EndFrees ==
    ASSUME TypeOK, up' = Append(up, RequestEnd) PROVE Freed'
<1>1. up' # <<>> /\ up'[Len(up')] = RequestEnd
    BY AppendAt, RequestType DEF TypeOK, WireType
<1> QED BY <1>1 DEF Freed, RequestEnd

\* A message lost or overtaken is a loss to spare.
LEMMA LossSurvives ==
    ASSUME Inv, Survives, Lose \/ Overtake \/ SendRejects \/ LinkDrop PROVE Survives'
<1>1. losses' = losses + 1 /\ losses \in Nat /\ UNCHANGED <<listing, held>>
    BY DEF Lose, Overtake, SendRejects, LinkDrop, board, Inv, TypeOK, BoundsType
<1>2. active' = None \/ (active' = active /\ active # None /\ vehicle' = vehicle)
    BY DEF Lose, Overtake, SendRejects, LinkDrop, board
<1>3. \/ UNCHANGED <<result, ended>>
      \/ result' = "cancelled"
    BY DEF Lose, Overtake, SendRejects, LinkDrop, board
<1>4. Charged'
  <2> SUFFICES ASSUME active' # None, active'.kind = "data" PROVE Charged'
      BY DEF Charged
  <2>1. active' = active /\ active.retries \in Nat
      BY <1>2 DEF Inv, TypeOK, ServiceType, Operation
  <2> QED BY <1>1, <2>1 DEF Survives, Charged
<1>5. FewLossesAreSurvived'
    BY <1>1, <1>3, LogAssumption DEF Survives, FewLossesAreSurvived
<1> QED BY <1>1, <1>2, <1>4, <1>5 DEF Survives

\* listLogs and downloadLog: a download's first request follows the end of the
\* operation before it, or meets a free board.
LEMMA CallSurvives ==
    ASSUME Inv, Survives, ListLogs \/ \E id \in Log, size \in Reported : DownloadLog(id, size)
    PROVE  Survives'
<1>0. losses \in Nat /\ up \in Seq(Request)
    BY DEF Inv, TypeOK, BoundsType, WireType
<1>1. /\ active = None /\ vehicle /\ UNCHANGED <<vehicle, down, held, listing, stream, losses>>
  <2>1. CASE ListLogs
      BY <2>1 DEF ListLogs, Idle, board
  <2>2. CASE \E id \in Log, size \in Reported : DownloadLog(id, size)
      BY <2>2, Zenon DEF DownloadLog, Idle, board
  <2> QED BY <2>1, <2>2
<1>2. CASE ListLogs
  <2>1. active' = Blank /\ UNCHANGED <<ended, result>>
      BY <1>2 DEF ListLogs
  <2>2. active' # None /\ active'.kind = "list"
      BY <2>1, BlankType, NoneAssumption
  <2> QED BY <1>1, <2>1, <2>2 DEF Survives, Charged, FewLossesAreSurvived
<1>3. CASE \E id \in Log, size \in Reported : DownloadLog(id, size)
  <2>0. PICK id \in Log, size \in Reported : DownloadLog(id, size)
      BY <1>3
  <2> DEFINE op == [Blank EXCEPT !.kind = "data", !.id = id, !.total = size]
  <2>1. /\ size \in 0..MaxBytes /\ op \in Operation /\ op.kind = "data" /\ op.id = id
        /\ op.total = size /\ op.received = 0 /\ op.retries = 0
      BY LogAssumption, BlankType DEF Operation, Blank
  <2>2. CASE size = 0
    <3>1. /\ ended' = op /\ result' = "resolved" /\ UNCHANGED active
          /\ up' = Append(up, RequestEnd)
        BY <2>0, <2>2, Zenon DEF DownloadLog
    <3>2. Freed'
        BY <3>1, EndFrees DEF Inv
    <3> QED BY <1>1, <3>1, <3>2 DEF Survives, Charged, FewLossesAreSurvived
  <2>3. CASE size # 0
    <3>1. active' = op /\ UNCHANGED <<ended, result>> /\ up' = Append(up, RequestData(id, 0))
        BY <2>0, <2>3, Zenon DEF DownloadLog
    <3>2. RequestData(id, 0) \in Request
        BY RequestType
    <3>3. /\ up' # <<>> /\ Len(up) \in Nat /\ Len(up') = Len(up) + 1
          /\ up'[Len(up')] = RequestData(id, 0)
          /\ \A i \in 1..Len(up) : up'[i] = up[i]
        BY <1>0, <3>1, <3>2, AppendAt
    <3>4. losses = 0 => Asked'
      <4> SUFFICES ASSUME losses = 0 PROVE Asked'
          OBVIOUS
      <4>1. Freed
          BY <1>1 DEF Survives
      <4>2. IF Len(up') = 1 THEN ~Deaf' ELSE up'[Len(up') - 1].type = "end"
          BY <1>0, <1>1, <3>3, <4>1, EmptyLen DEF Freed, Deaf
      <4> QED BY <2>1, <3>1, <3>3, <4>2 DEF Asked, RequestData
    <3>5. Charged'
        BY <1>0, <1>1, <2>1, <2>3, <3>1, <3>4 DEF Charged
    <3>6. active' # None
        BY <2>1, <3>1, NoneAssumption
    <3> QED BY <1>1, <3>1, <3>5, <3>6 DEF Survives, FewLossesAreSurvived
  <2> QED BY <2>2, <2>3
<1> QED BY <1>2, <1>3

\* onTimeout: nothing is on its way, so a loss is left for the retry, whose request
\* a free board will hear.
LEMMA TimeoutSurvives ==
    ASSUME Inv, Survives, Timeout PROVE Survives'
<1>0. /\ losses \in Nat /\ down \in Seq(Frame) /\ active \in Operation
      /\ active # None
    BY DEF Inv, TypeOK, BoundsType, WireType, ServiceType, Timeout
<1>1. /\ UNCHANGED <<vehicle, down, held, listing, stream, losses>>
      /\ vehicle
    BY <1>0 DEF Timeout, board, bounds, Survives
<1>2. active.retries \in Nat /\ active.received \in Nat /\ active.ignored \in BOOLEAN
    BY <1>0 DEF Operation
<1>3. ASSUME active.kind = "data", ~active.ignored
      PROVE  losses > active.retries /\ active.received < active.total
  <2>1. up = <<>> /\ ~Asked
      BY DEF Timeout, Silent, Asked
  <2>2. ~Served
    <3> SUFFICES ASSUME NEW k \in 1..(Len(down) + 1), Chunks(k) PROVE FALSE
        BY DEF Served
    <3>1. stream = None
        BY <1>3 DEF Timeout, Silent, Chunks
    <3>2. Len(down) \in Nat /\ k <= Len(down)
        BY <1>0, <3>1, EmptyLen DEF Chunks
    <3>3. IsOurs(down[Len(down)]) /\ Len(down) \in DOMAIN down
        BY <1>0, <1>3, <3>1, <3>2 DEF Chunks, IsOurs
    <3> QED BY <3>3 DEF Timeout, Silent
  <2> QED BY <1>0, <1>2, <1>3, <2>1, <2>2 DEF Survives, Charged
<1>4. CASE CanRetry(active)
  <2> DEFINE ignored == active.ignored \/ (active.received > 0 /\ Deaf)
  <2>1. /\ active' = [Retried(active) EXCEPT !.ignored = ignored]
        /\ up' = up \o Again(active) /\ UNCHANGED <<ended, result>> /\ up = <<>>
    <3>1. Retried(active).ignored = active.ignored
        BY <1>0 DEF Retried, Operation
    <3> QED BY <1>4, <3>1 DEF Timeout, Silent
  <2>2. /\ active'.kind = "data" /\ active'.id = active.id /\ active'.received = active.received
        /\ active'.total = active.total /\ active'.retries = active.retries + 1
        /\ active'.ignored = ignored
      BY <1>0, <1>4, <2>1 DEF Retried, Operation, CanRetry
  <2>3. up' = Again(active)
    <3>1. Again(active) \in Seq(Request)
      <4>1. active.id \in Log
          BY <1>0, <1>4 DEF CanRetry, Operation
      <4> QED BY <1>2, <4>1, RequestType DEF Again
    <3> QED BY <2>1, <3>1
  <2>4. ~ignored => Asked'
    <3>1. CASE active.received = 0
      <4>1. up' = <<RequestEnd, RequestData(active.id, 0)>>
          BY <2>3, <3>1 DEF Again
      <4>2. up' # <<>> /\ Len(up') = 2 /\ up'[1] = RequestEnd /\ up'[2] = RequestData(active.id, 0)
          BY <4>1
      <4> QED BY <1>2, <2>2, <4>2 DEF Asked, RequestEnd, RequestData
    <3>2. CASE active.received # 0
      <4>1. up' = <<RequestData(active.id, active.received)>>
          BY <2>3, <3>2 DEF Again
      <4>2. up' # <<>> /\ Len(up') = 1 /\ up'[1] = RequestData(active.id, active.received)
          BY <4>1
      <4>3. ~ignored => ~Deaf'
          BY <1>1, <1>2, <3>2 DEF Deaf
      <4> QED BY <1>2, <2>2, <4>2, <4>3 DEF Asked, RequestData
    <3> QED BY <3>1, <3>2
  <2>5. Charged'
    <3>1. active.received < active.total /\ (~ignored => losses > active.retries)
        BY <1>3, <1>4 DEF CanRetry
    <3>2. ~ignored => losses > active'.retries \/ losses = active'.retries
        BY <1>0, <1>2, <2>2, <3>1
    <3> HIDE DEF ignored
    <3> QED BY <1>1, <2>2, <2>4, <3>1, <3>2 DEF Charged
  <2>6. active' # None
    <3>1. active' = [active EXCEPT !.retries = active.retries + 1, !.timer = TRUE,
                                   !.ignored = ignored]
        BY <1>0, <2>1 DEF Retried, Operation
    <3>2. ignored \in BOOLEAN /\ active.retries + 1 \in Nat
        BY <1>2
    <3> HIDE DEF ignored
    <3>3. active' \in Operation
        BY <1>0, <3>1, <3>2 DEF Operation
    <3> QED BY <3>3, NoneAssumption
  <2> QED BY <1>1, <2>1, <2>5, <2>6 DEF Survives, FewLossesAreSurvived
<1>5. CASE ~CanRetry(active)
  <2>1. active' = None /\ ended' = active /\ result' = "stalled" /\ up' = Append(up, RequestEnd)
      BY <1>5 DEF Timeout, End
  <2>2. Freed'
      BY <2>1, EndFrees DEF Inv
  <2>3. active.kind = "data" /\ ~active.ignored => losses > MaxRetries
      BY <1>0, <1>2, <1>3, <1>5, LogAssumption DEF CanRetry
  <2> QED BY <1>1, <2>1, <2>2, <2>3 DEF Survives, Charged, FewLossesAreSurvived
<1> QED BY <1>4, <1>5

\* What a chunk of the log at hand adds: one that continues what is held and does not
\* complete it is a full one, and is held from then on.
LEMMA StoredCharge ==
    ASSUME NEW op \in Operation, op.kind = "data", op.received < op.total,
           NEW f \in Data, f.id = op.id
    PROVE  LET new == Stored(op, f)
           IN  /\ new.kind = "data" /\ new.id = op.id /\ new.total = op.total
               /\ new.retries = op.retries /\ new.ignored = op.ignored
               /\ new.received \in Nat /\ new.received >= op.received
               /\ ~DataDone(new, f) =>
                     /\ new.received < new.total
                     /\ f.ofs <= op.received => f.count = Chunk /\ new.received >= f.ofs + Chunk
<1> DEFINE w == Writable(op, f)
           new == Stored(op, f)
           buffer == [o \in Offset |-> IF f.ofs <= o /\ o < f.ofs + w THEN f.id ELSE op.buffer[o]]
           received == IF Contiguous(op, f) THEN Greatest(op.received, f.ofs + w) ELSE op.received
<1>1. f.ofs \in Nat /\ f.count \in 0..Chunk /\ Chunk \in Nat
    BY LogAssumption DEF Data
<1>2. op.total \in Nat /\ op.received \in Nat
    BY LogAssumption DEF Operation
<1>3. w \in Nat /\ (f.ofs < op.total => w = Least(f.count, op.total - f.ofs))
    BY <1>1, <1>2 DEF Writable, Least
<1>4. received \in Nat /\ received >= op.received
        /\ (Contiguous(op, f) => received >= f.ofs + w)
    BY <1>1, <1>2, <1>3 DEF Greatest
<1>5. new = [op EXCEPT !.buffer = buffer, !.received = received]
    BY DEF Stored
<1>6. /\ new.kind = "data" /\ new.id = op.id /\ new.total = op.total
      /\ new.retries = op.retries /\ new.ignored = op.ignored /\ new.received = received
    BY <1>5 DEF Operation
<1>7. ASSUME ~DataDone(new, f)
      PROVE  /\ received < op.total
             /\ f.ofs <= op.received => f.count = Chunk /\ received >= f.ofs + Chunk
  <2>1. received < op.total
      BY <1>2, <1>4, <1>6, <1>7 DEF DataDone
  <2>2. ASSUME f.ofs <= op.received PROVE f.count = Chunk /\ received >= f.ofs + Chunk
    <3>1. Contiguous(op, f) /\ Contiguous(new, f)
        BY <1>1, <1>2, <1>4, <1>6, <2>2 DEF Contiguous
    <3>2. f.count = Chunk
        BY <1>1, <1>7, <3>1 DEF DataDone
    <3> HIDE DEF received
    <3> QED BY <1>1, <1>2, <1>3, <1>4, <2>1, <2>2, <3>1, <3>2 DEF Least
  <2> QED BY <2>1, <2>2
<1> QED BY <1>4, <1>6, <1>7

\* A run of chunks goes on when a message is taken from before it, or its first chunk.
LEMMA ChunksTail ==
    ASSUME down \in Seq(Frame), down # <<>>, down' = Tail(down), UNCHANGED stream,
           stream \in [id : Log, ofs : Nat] \cup {None}, active'.id = active.id, active.received \in Nat, active'.received \in Nat,
           active'.received >= active.received, NEW k \in 1..(Len(down) + 1), Chunks(k),
           k = 1 => down[1].count = Chunk /\ active'.received >= down[1].ofs + Chunk
    PROVE  \E j \in 1..(Len(down') + 1) : Chunks(j)'
<1>1. /\ Len(down) \in Nat \ {0} /\ Len(down') = Len(down) - 1
      /\ \A i \in 1..(Len(down) - 1) : down'[i] = down[i + 1]
    BY TailAt
<1>2. \A i \in 1..Len(down) : down[i].ofs \in Nat
  <2> SUFFICES ASSUME NEW i \in 1..Len(down) PROVE down[i].ofs \in Nat
      OBVIOUS
  <2>1. down[i] \in Frame
      OBVIOUS
  <2> QED BY <2>1 DEF Frame, Entry, Data
<1>3. stream # None => k <= Len(down) \/ stream.ofs <= active.received
    BY <1>1 DEF Chunks
<1>4. CASE k > 1
  <2>1. k - 1 \in 1..(Len(down') + 1) /\ Len(down') \in Nat
      BY <1>1, <1>4
  <2>2. \A i \in (k - 1)..Len(down') :
          /\ down'[i].type = "data" /\ down'[i].id = active'.id
          /\ i < Len(down') => down'[i].count = Chunk /\ down'[i + 1].ofs = down'[i].ofs + Chunk
    <3> SUFFICES ASSUME NEW i \in (k - 1)..Len(down')
                 PROVE  /\ down'[i].type = "data" /\ down'[i].id = active'.id
                        /\ i < Len(down') => /\ down'[i].count = Chunk
                                             /\ down'[i + 1].ofs = down'[i].ofs + Chunk
        OBVIOUS
    <3>1. i + 1 \in k..Len(down) /\ down'[i] = down[i + 1]
        BY <1>1, <1>4
    <3>2. i < Len(down') => i + 1 < Len(down) /\ down'[i + 1] = down[(i + 1) + 1]
        BY <1>1, <1>4
    <3> QED BY <3>1, <3>2 DEF Chunks
  <2>3. k - 1 <= Len(down') => /\ down'[k - 1] = down[k] /\ k <= Len(down)
                               /\ down'[Len(down')] = down[Len(down)]
      BY <1>1, <1>4
  <2>4. k - 1 <= Len(down') => down'[k - 1].ofs <= active'.received
      BY <1>1, <1>2, <1>4, <2>3 DEF Chunks
  <2>5. k <= Len(down) => k - 1 <= Len(down')
      BY <1>1
  <2>6. Chunks(k - 1)'
    <3>1. CASE stream = None
        BY <2>2, <2>3, <2>4, <2>5, <3>1 DEF Chunks
    <3>2. CASE stream # None /\ k <= Len(down)
        BY <2>2, <2>3, <2>4, <2>5, <3>2 DEF Chunks
    <3>3. CASE stream # None /\ ~(k <= Len(down))
      <4>1. stream.ofs <= active.received /\ stream.id = active.id /\ stream.ofs \in Nat
          BY <3>3 DEF Chunks
      <4> QED BY <1>1, <2>2, <2>4, <3>3, <4>1 DEF Chunks
    <3> QED BY <3>1, <3>2, <3>3
  <2> QED BY <2>1, <2>6
<1>5. CASE k = 1
  <2>1. 1 \in 1..(Len(down') + 1) /\ Len(down') \in Nat
      BY <1>1
  <2>2. \A i \in 1..Len(down') :
          /\ down'[i].type = "data" /\ down'[i].id = active'.id
          /\ i < Len(down') => down'[i].count = Chunk /\ down'[i + 1].ofs = down'[i].ofs + Chunk
    <3> SUFFICES ASSUME NEW i \in 1..Len(down')
                 PROVE  /\ down'[i].type = "data" /\ down'[i].id = active'.id
                        /\ i < Len(down') => /\ down'[i].count = Chunk
                                             /\ down'[i + 1].ofs = down'[i].ofs + Chunk
        OBVIOUS
    <3>1. i + 1 \in k..Len(down) /\ down'[i] = down[i + 1]
        BY <1>1, <1>5
    <3>2. i < Len(down') => i + 1 < Len(down) /\ down'[i + 1] = down[(i + 1) + 1]
        BY <1>1
    <3> QED BY <3>1, <3>2 DEF Chunks
  <2>3. CASE Len(down) = 1
    <3>1. stream # None /\ stream.id = active.id /\ stream.ofs = down[1].ofs + Chunk
      <4>1. down[1].count = Chunk /\ k <= Len(down) /\ Chunk \in Nat
          BY <1>5, <2>3, LogAssumption
      <4> QED BY <1>5, <2>3, <4>1 DEF Chunks
    <3> QED BY <1>1, <1>5, <2>1, <2>2, <2>3, <3>1 DEF Chunks
  <2>4. CASE Len(down) # 1
    <3>1. /\ 1 <= Len(down') /\ down'[1] = down[2] /\ down'[Len(down')] = down[Len(down)]
          /\ 1 < Len(down) /\ k <= Len(down) /\ 1 \in k..Len(down)
        BY <1>1, <1>5, <2>4
    <3>2. down[2].ofs = down[1].ofs + Chunk
        BY <1>5, <3>1 DEF Chunks
    <3>3. down'[1].ofs <= active'.received
        BY <1>5, <3>1, <3>2
    <3> QED BY <1>1, <1>5, <2>1, <2>2, <3>1, <3>3 DEF Chunks
  <2> QED BY <2>3, <2>4
<1> QED BY <1>4, <1>5

\* handleLogEntry and handleLogData: a message that is no chunk of the run leaves it
\* where it is, and its first chunk moves the frontier to the next one.
LEMMA DeliverSurvives ==
    ASSUME Inv, Survives, Deliver PROVE Survives'
<1> DEFINE f == Head(down)
<1>0. /\ down \in Seq(Frame) /\ down # <<>> /\ losses \in Nat /\ up \in Seq(Request)
      /\ stream \in [id : Log, ofs : Nat] \cup {None} /\ vehicle
      /\ active \in Operation \cup {None}
    BY DEF Inv, TypeOK, WireType, BoundsType, ServiceType, Deliver
<1>1. /\ UNCHANGED <<vehicle, held, listing, stream, losses>> /\ down' = Tail(down)
    BY DEF Deliver, board, bounds
<1>2. f = down[1] /\ f \in Frame /\ Len(down) \in Nat \ {0}
    BY <1>0, TailAt
<1>3. ASSUME NEW op, End(op, "resolved") PROVE Survives'
  <2>1. active' = None /\ result' = "resolved" /\ up' = Append(up, RequestEnd)
      BY <1>3 DEF End
  <2>2. Freed'
      BY <2>1, EndFrees DEF Inv
  <2> QED BY <1>1, <2>1, <2>2 DEF Survives, Charged, FewLossesAreSurvived
<1>4. ASSUME UNCHANGED <<ended, result, up>>, active # None, active' # None, active'.kind = active.kind,
             active.kind = "data" =>
                /\ active'.id = active.id /\ active'.total = active.total
                /\ active'.retries = active.retries /\ active'.ignored = active.ignored
                /\ active'.received \in Nat /\ active'.received >= active.received
                /\ active'.received < active'.total
                /\ IsOurs(f) /\ f.ofs <= active.received =>
                      f.count = Chunk /\ active'.received >= f.ofs + Chunk
      PROVE  Survives'
  <2>1. CASE active.kind # "data"
      BY <1>0, <1>1, <1>4, <2>1 DEF Survives, Charged, FewLossesAreSurvived
  <2>2. CASE active.kind = "data"
    <3>1. active \in Operation /\ active.received \in Nat
        BY <1>0, <1>4 DEF Operation
    <3>2. Asked => Asked'
      <4>1. up # <<>> => up[Len(up)] \in Request
          BY <1>0, EmptyLen
      <4>2. up # <<>> /\ up[Len(up)].ofs <= active.received => up[Len(up)].ofs <= active'.received
          BY <1>4, <2>2, <3>1, <4>1 DEF Request
      <4> QED BY <1>1, <1>4, <2>2, <4>2 DEF Asked, Deaf
    <3>3. Served => Served'
      <4> SUFFICES ASSUME NEW k \in 1..(Len(down) + 1), Chunks(k), up = <<>>, ~held
                   PROVE  Served'
          BY DEF Served
      <4>1. k = 1 => IsOurs(f) /\ f.ofs <= active.received
        <5> SUFFICES ASSUME k = 1 PROVE IsOurs(f) /\ f.ofs <= active.received
            OBVIOUS
        <5>1. k <= Len(down) /\ k \in k..Len(down)
            BY <1>2
        <5> QED BY <1>2, <1>4, <2>2, <5>1 DEF Chunks, IsOurs
      <4>2. \E j \in 1..(Len(down') + 1) : Chunks(j)'
          BY <1>0, <1>1, <1>2, <1>4, <2>2, <3>1, <4>1, ChunksTail
      <4> QED BY <1>1, <1>4, <4>2 DEF Served
    <3>4. Charged'
        BY <1>1, <1>4, <2>2, <3>2, <3>3 DEF Survives, Charged
    <3> QED BY <1>0, <1>1, <1>4, <3>4 DEF Survives, FewLossesAreSurvived
  <2> QED BY <2>1, <2>2
<1>5. CASE ~IsOurs(f)
  <2>1. UNCHANGED <<active, ended, result, up>>
      BY <1>5 DEF Deliver
  <2>2. CASE active = None
      BY <1>1, <2>1, <2>2 DEF Survives, Charged, Freed, Deaf, FewLossesAreSurvived
  <2>3. CASE active # None
    <3>1. active.received \in Nat /\ (active.kind = "data" => active.received < active.total)
        BY <1>0, <2>3 DEF Operation, Survives, Charged
    <3> QED BY <1>4, <1>5, <2>1, <2>3, <3>1
  <2> QED BY <2>2, <2>3
<1>6. CASE IsOurs(f) /\ active.kind = "list"
  <2> DEFINE op == Listed(active, f)
  <2>1. f.type = "entry" /\ active # None
      BY <1>6 DEF IsOurs
  <2>2. \/ End(op, "resolved")
        \/ active' = op /\ UNCHANGED <<ended, result, up>>
      BY <1>6, <2>1 DEF Deliver
  <2>3. op.kind = "list"
      BY <1>0, <1>6, <2>1 DEF Listed, Operation
  <2>4. CASE active' = op /\ UNCHANGED <<ended, result, up>>
    <3>1. active \in Operation
        BY <1>0, <2>1
    <3>2. f.count # 0 => f.id \in Log
      <4>1. f \in TrueEntry
          BY <1>0, <2>1, HeadTail DEF Inv, Wire, Data
      <4> QED BY <4>1 DEF TrueEntry, Inv, TypeOK, WireType
    <3>3. op \in Operation
        BY <3>1, <3>2, <1>6 DEF Listed, Operation
    <3>4. op # None
        BY <3>3, NoneAssumption
    <3> QED BY <1>4, <1>6, <2>1, <2>3, <2>4, <3>4
  <2> QED BY <1>3, <2>2, <2>4
<1>7. CASE IsOurs(f) /\ active.kind = "data"
  <2> DEFINE op == Stored(active, f)
  <2>1. f \in Data /\ f.type = "data" /\ f.id = active.id /\ active # None /\ active \in Operation
      BY <1>0, <1>2, <1>7, NoneAssumption DEF IsOurs, Frame, Entry
  <2>2. \/ DataDone(op, f) /\ End(op, "resolved")
        \/ ~DataDone(op, f) /\ active' = op /\ UNCHANGED <<ended, result, up>>
      BY <1>7, <2>1 DEF Deliver
  <2>3. active.received < active.total
      BY <1>7, <2>1 DEF Survives, Charged
  <2>4. /\ op.kind = "data" /\ op.id = active.id /\ op.total = active.total
        /\ op.retries = active.retries /\ op.ignored = active.ignored
        /\ op.received \in Nat /\ op.received >= active.received
        /\ ~DataDone(op, f) =>
              /\ op.received < op.total
              /\ f.ofs <= active.received => f.count = Chunk /\ op.received >= f.ofs + Chunk
      BY <1>7, <2>1, <2>3, StoredCharge
  <2>5. CASE ~DataDone(op, f) /\ active' = op /\ UNCHANGED <<ended, result, up>>
    <3>1. active' # None
      <4>1. \A o \in Offset : o < active.received => active.buffer[o] = active.id
          BY <1>7, <2>1 DEF Inv, Progress
      <4>2. op \in Operation
          BY <1>7, <2>1, <4>1, StoredIsProgress
      <4> QED BY <2>5, <4>2, NoneAssumption
    <3> HIDE DEF op
    <3> QED BY <1>4, <1>7, <2>1, <2>4, <2>5, <3>1
  <2> QED BY <1>3, <2>2, <2>5
<1>8. IsOurs(f) => active.kind = "list" \/ active.kind = "data"
    BY DEF IsOurs
<1> QED BY <1>5, <1>6, <1>7, <1>8

\* The steps of the board: a request that reaches a free board starts the run, and the
\* board goes on with it until its last chunk.
LEMMA BoardSurvives ==
    ASSUME Inv, Survives, Reconnect \/ Receive \/ SendData \/ \E id \in Log : SendEntry(id)
    PROVE  Survives'
<1>0. /\ down \in Seq(Frame) /\ up \in Seq(Request) /\ losses \in Nat
      /\ stream \in [id : Log, ofs : Nat] \cup {None} /\ held \in BOOLEAN
      /\ active \in Operation \cup {None}
    BY DEF Inv, TypeOK, WireType, BoundsType, ServiceType
<1>1. /\ UNCHANGED <<active, ended, result, losses>>
      /\ vehicle' = vehicle \/ vehicle'
    BY DEF Reconnect, Receive, SendData, SendEntry, bounds
<1>2. ASSUME listing' # {} => held', active = None /\ losses = 0 => Freed',
             active # None /\ active.kind = "data" =>
                (Asked => Asked' \/ Served') /\ (Served => Asked' \/ Served')
      PROVE  Survives'
  <2>1. Charged'
      BY <1>1, <1>2 DEF Survives, Charged
  <2> QED BY <1>1, <1>2, <2>1 DEF Survives, FewLossesAreSurvived
<1>3. CASE Reconnect
  <2>1. UNCHANGED <<up, down, held, listing, stream, active>>
      BY <1>3 DEF Reconnect, board
  <2>2. (Asked <=> Asked') /\ (Served <=> Served') /\ (Freed <=> Freed')
      BY <2>1 DEF Asked, Served, Chunks, Freed, Deaf
  <2> QED BY <1>2, <2>1, <2>2 DEF Survives
<1>4. CASE \E id \in Log : SendEntry(id)
  <2>1. UNCHANGED <<up, held, stream>> /\ listing # {} /\ listing' \subseteq listing
      BY <1>4 DEF SendEntry
  <2>2. held /\ ~Served
      BY <2>1 DEF Survives, Served
  <2>3. (Asked => Asked') /\ (Freed <=> Freed')
      BY <1>1, <2>1 DEF Asked, Freed, Deaf
  <2> QED BY <1>2, <2>1, <2>2, <2>3 DEF Survives
<1>5. CASE Receive
  <2>1. up # <<>> /\ up' = Tail(up) /\ UNCHANGED active
      BY <1>5 DEF Receive
  <2>2. /\ Len(up) \in Nat \ {0} /\ Head(up) = up[1] /\ up' \in Seq(Request)
        /\ Len(up') = Len(up) - 1 /\ \A i \in 1..(Len(up) - 1) : up'[i] = up[i + 1]
      BY <1>0, <2>1, TailAt
  <2>3. up' = <<>> <=> Len(up') = 0
      BY <2>2, EmptyLen
  <2>4. Head(up) \in Request
      BY <1>0, <2>1, HeadTail
  <2>5. Head(up).type = "end" => ~held' /\ listing' = {} /\ stream' = None
      BY <1>5 DEF Receive
  <2>6. Head(up).type = "list" => held'
      BY <1>5 DEF Receive
  <2>7. Head(up).type = "data" => /\ UNCHANGED <<held, listing, down>>
                                  /\ stream' = IF Deaf THEN stream
                                               ELSE [id |-> Head(up).id, ofs |-> Head(up).ofs]
      BY <1>5 DEF Receive
  <2>8. listing' # {} => held'
      BY <2>4, <2>5, <2>6, <2>7 DEF Survives, Request
  <2>9. ASSUME Freed PROVE Freed'
    <3>1. up[Len(up)].type = "end"
        BY <2>1, <2>9 DEF Freed
    <3>2. CASE Len(up) = 1
        BY <2>2, <2>3, <2>5, <3>1, <3>2 DEF Freed, Deaf
    <3>3. CASE Len(up) # 1
      <4>1. up' # <<>> /\ up'[Len(up')] = up[Len(up)]
          BY <2>2, <2>3, <3>3
      <4> QED BY <3>1, <4>1 DEF Freed
    <3> QED BY <3>2, <3>3
  <2>10. ASSUME Asked PROVE Asked' \/ Served'
    <3>1. CASE Len(up) = 1
      <4>1. ~Deaf /\ Head(up).type = "data" /\ Head(up).id = active.id /\ Head(up).ofs <= active.received
          BY <2>2, <2>10, <3>1 DEF Asked
      <4>2. up' = <<>> /\ ~held' /\ down' = down /\ stream' = [id |-> active.id, ofs |-> Head(up).ofs]
          BY <2>2, <2>3, <2>7, <3>1, <4>1 DEF Deaf
      <4>3. /\ Head(up).ofs \in Nat /\ active.id \in Log /\ stream' # None
            /\ stream'.id = active.id /\ stream'.ofs = Head(up).ofs
        <5>1. Head(up).ofs \in Nat /\ active.id \in Log
            BY <2>4, <4>1 DEF Request
        <5> QED BY <4>2, <5>1, NoneAssumption
      <4>4. Len(down) \in Nat
          BY <1>0, EmptyLen
      <4>5. Chunks(Len(down) + 1)'
          BY <2>1, <4>1, <4>2, <4>3, <4>4 DEF Chunks
      <4> QED BY <4>2, <4>4, <4>5 DEF Served
    <3>2. CASE Len(up) = 2
      <4>1. Head(up).type = "end" /\ up' # <<>> /\ Len(up') = 1 /\ up'[1] = up[2]
          BY <2>2, <2>3, <2>10, <3>2 DEF Asked
      <4> QED BY <2>1, <2>5, <2>10, <3>2, <4>1 DEF Asked, Deaf
    <3>3. CASE Len(up) > 2
      <4>1. /\ up' # <<>> /\ Len(up') # 1 /\ up'[Len(up')] = up[Len(up)]
            /\ up'[Len(up') - 1] = up[Len(up) - 1] /\ Len(up) # 1
        <5>1. /\ Len(up) - 1 \in 1..(Len(up) - 1) /\ Len(up) - 2 \in 1..(Len(up) - 1)
              /\ (Len(up) - 1) + 1 = Len(up) /\ (Len(up) - 2) + 1 = Len(up) - 1
              /\ Len(up') = Len(up) - 1 /\ Len(up') - 1 = Len(up) - 2
            BY <2>2, <3>3
        <5> QED BY <2>2, <2>3, <3>3, <5>1
      <4> QED BY <2>1, <2>10, <4>1 DEF Asked
    <3> QED BY <2>2, <3>1, <3>2, <3>3
  <2> QED BY <1>2, <2>1, <2>8, <2>9, <2>10 DEF Survives, Served
<1>6. CASE SendData
  <2> DEFINE left == SizeOf[stream.id] - stream.ofs
             n == IF left < 0 THEN 0 ELSE Least(Chunk, left)
             chunk == [type |-> "data", id |-> stream.id, ofs |-> stream.ofs, count |-> n]
  <2>1. stream # None /\ UNCHANGED <<up, held, listing, active>>
      BY <1>6 DEF SendData
  <2>2. stream.id \in Log /\ stream.ofs \in Nat /\ SizeOf[stream.id] \in Nat /\ Chunk \in Nat \ {0}
      BY <1>0, <2>1, LogAssumption
  <2>3. n \in 0..Chunk /\ (n < Chunk => stream.ofs + n >= SizeOf[stream.id])
      BY <2>2 DEF Least
  <2>4. chunk \in Frame
      BY <2>2, <2>3 DEF Frame, Data
  <2>5. /\ down' = IF vehicle THEN Append(down, chunk) ELSE down
        /\ stream' = IF n < Chunk THEN None ELSE [stream EXCEPT !.ofs = @ + Chunk]
      BY <1>6 DEF SendData
  <2>6. ~Freed \/ up # <<>>
      BY <2>1 DEF Freed, Deaf
  <2>7. Freed => Freed'
      BY <2>1, <2>6 DEF Freed
  <2>8. Asked => Asked'
      BY <2>1 DEF Asked, Deaf
  <2>9. ASSUME active # None, Served PROVE Served'
    <3>1. PICK k \in 1..(Len(down) + 1) : Chunks(k)
        BY <2>9 DEF Served
    <3> HIDE DEF chunk
    <3>2. /\ Len(down) \in Nat /\ Len(down') = Len(down) + 1 /\ down'[Len(down) + 1] = chunk
          /\ \A i \in 1..Len(down) : down'[i] = down[i]
      <4>1. down' = Append(down, chunk)
          BY <2>5, <2>9 DEF Survives
      <4> QED BY <1>0, <2>4, <4>1, AppendAt
    <3>3. /\ chunk.type = "data" /\ chunk.id = active.id /\ chunk.ofs = stream.ofs
          /\ chunk.count = n
        BY <2>1, <3>1 DEF Chunks, chunk
    <3> HIDE DEF n
    <3>4. \A i \in k..Len(down') :
            /\ down'[i].type = "data" /\ down'[i].id = active'.id
            /\ i < Len(down') => down'[i].count = Chunk /\ down'[i + 1].ofs = down'[i].ofs + Chunk
      <4> SUFFICES ASSUME NEW i \in k..Len(down')
                   PROVE  /\ down'[i].type = "data" /\ down'[i].id = active'.id
                          /\ i < Len(down') => /\ down'[i].count = Chunk
                                               /\ down'[i + 1].ofs = down'[i].ofs + Chunk
          OBVIOUS
      <4>1. CASE i = Len(down')
          BY <2>1, <3>2, <3>3, <4>1
      <4>2. CASE i < Len(down)
        <5>1. i \in k..Len(down) /\ down'[i] = down[i] /\ down'[i + 1] = down[i + 1]
            BY <3>2, <4>2
        <5> QED BY <2>1, <4>2, <5>1, <3>1 DEF Chunks
      <4>3. CASE i = Len(down)
        <5>1. i \in k..Len(down) /\ down'[i] = down[i] /\ down'[i + 1] = chunk /\ k <= Len(down)
            BY <3>2, <4>3
        <5> QED BY <2>1, <3>1, <3>3, <4>3, <5>1 DEF Chunks
      <4> QED BY <3>2, <4>1, <4>2, <4>3
    <3>5. k <= Len(down') /\ down'[k].ofs <= active'.received
      <4>1. CASE k <= Len(down)
          BY <2>1, <3>1, <3>2, <4>1 DEF Chunks
      <4>2. CASE k = Len(down) + 1
          BY <2>1, <3>1, <3>2, <3>3, <4>2 DEF Chunks
      <4> QED BY <3>2, <4>1, <4>2
    <3>6. down'[Len(down')] = chunk
        BY <3>2
    <3>7. n \in 0..Chunk
        BY <2>3
    <3>8. CASE n < Chunk
      <4>1. stream' = None
          BY <2>5, <3>8
      <4>2. Chunks(k)'
          BY <2>1, <3>3, <3>4, <3>5, <3>6, <3>8, <4>1 DEF Chunks
      <4> QED BY <2>1, <2>9, <3>2, <4>2 DEF Served
    <3>9. CASE ~(n < Chunk)
      <4>1. /\ stream' # None /\ stream'.id = stream.id /\ stream'.ofs = stream.ofs + Chunk
        <5>1. stream' = [stream EXCEPT !.ofs = stream.ofs + Chunk]
            BY <2>5, <3>9
        <5>2. stream' \in [id : Log, ofs : Nat]
            BY <1>0, <2>1, <2>2, <5>1
        <5> QED BY <1>0, <2>1, <2>2, <5>1, <5>2, NoneAssumption
      <4>2. stream.id = active.id
          BY <2>1, <3>1 DEF Chunks
      <4>3. n = Chunk
          BY <2>2, <3>7, <3>9
      <4>4. Chunks(k)'
          BY <2>1, <3>3, <3>4, <3>5, <3>6, <4>1, <4>2, <4>3 DEF Chunks
      <4> QED BY <2>1, <2>9, <3>2, <4>4 DEF Served
    <3> QED BY <3>8, <3>9
  <2> QED BY <1>1, <1>2, <2>1, <2>7, <2>8, <2>9 DEF Survives
<1> QED BY <1>3, <1>4, <1>5, <1>6

\* A download that gives up has met more losses than it has retries, unless a retry of
\* it held data and met a board that considered another transfer active: for logs of any
\* number and size, any retry budget, and links that drop, lose and reorder (onTimeout).
THEOREM FewLossesAreSurvivedAlways == Spec => []FewLossesAreSurvived
<1>1. Inv /\ Survives /\ [Next]_vars => Survives'
  <2>1. ASSUME Survives, UNCHANGED vars PROVE Survives'
      BY <2>1 DEF vars, board, bounds, Survives, Charged, Asked, Served, Chunks, Freed, Deaf,
                  FewLossesAreSurvived
  <2> QED BY <2>1, LossSurvives, CallSurvives, TimeoutSurvives, DeliverSurvives, BoardSurvives
          DEF Next
<1>2. Survives => FewLossesAreSurvived
    BY DEF Survives
<1> QED BY <1>1, <1>2, InitInv, InitSurvives, StepInv, PTL DEF Spec
==============================================================================
