---------------------------- MODULE FtpTransfer -----------------------------
(***************************************************************************)
(* The operations of MavftpService (runtime-mavftp-service.ts) against the *)
(* vehicle's FTP server: reads by READ_FILE, bursts by BURST_READ_FILE,    *)
(* uploads, listings and deletions.  FtpQueue has them one at a time, so   *)
(* there is one operation and one request that waits for its reply.        *)
(*                                                                         *)
(* Files are sequences of chunks <<file, index>>.  Messages keep their     *)
(* order on the link and may be lost.  The session number is left out: it  *)
(* is 0 in every message.  The server is external: it answers request n    *)
(* with n + 1, counts one more for every packet it streams, repeats its    *)
(* last reply to a request whose number plus one is the number it stands   *)
(* at, and opens one file at a time.                                       *)
(***************************************************************************)
EXTENDS Integers, Sequences

CONSTANTS
  Files,         \* remote paths
  Length,        \* chunks of each file
  Declared,      \* the size each OPEN declares: exact, too large, or 0 (@SYS)
  Kinds,         \* the public operations that are called
  UploadLength,  \* chunks an upload writes
  PrefixLimit,   \* chunks that readRemoteFilePrefix is asked for
  MaxSize,       \* MAX_MAVFTP_FILE_BYTES, in chunks
  BurstLength,   \* packets the server streams for one BURST_READ_FILE
  SeqMod,        \* 2^16 in the code: sequence numbers wrap here
  MaxRetries,    \* MAX_MAVFTP_BURST_RETRIES
  MaxOps,        \* bound: operations
  Faults,        \* what may go wrong, see FaultKinds
  MaxFaults      \* bound: faults

(* A message lost, before or after a link drop; a reply that comes after   *)
(* its timeout; an AbortSignal, on a silent link or amid the packets of    *)
(* the burst; a link drop.                                                 *)
FaultKinds == {"loss", "loss after drop", "late reply", "abort", "abort in stream", "drop"}

ASSUME FaultsAssumption == Faults \subseteq FaultKinds
ASSUME BurstAssumption == BurstLength \in Nat \ {0} /\ UploadLength \in Nat \ {0}
ASSUME SizesAssumption ==
  /\ Length \in [Files -> Nat] /\ Declared \in [Files -> Nat]
  /\ PrefixLimit \in Nat /\ MaxSize \in Nat /\ MaxRetries \in Nat
ASSUME KindsAssumption == Kinds \subseteq {"burst", "read", "prefix", "upload", "list", "delete"}
ASSUME SeqModAssumption == SeqMod \in Nat /\ SeqMod > 3

VARIABLES
  pc,        \* the request the operation is at, "streaming", or "idle"
  op,        \* the locals of the operation
  burst,     \* activeBurst, or NoBurst
  wait,      \* the reply number the request waits for, or NoWait
  seq,       \* sequence: the number of the next request
  cleared,   \* staleSessionsCleared
  link,      \* getVehicle() has a vehicle
  to, from,  \* messages under way
  server,    \* [fd, seq, last, stream]
  disk,      \* what the server stores under each path
  result,    \* how the last operation ended
  lostTail,  \* a packet with the end of a file was lost in this operation
  ops,       \* operations so far
  faults     \* faults so far

client == <<pc, op, burst, wait, seq, cleared>>
vehicle == <<server, disk>>
vars == <<client, link, to, from, vehicle, result, lostTail, ops, faults>>

NoWait == -1
NoFile == [file |-> "none", mode |-> "none", got |-> {}]
NoStream == [off |-> 0, left |-> 0]
NoBurst == [received |-> 0, high |-> 0, retries |-> 0, buf |-> <<>>]
NoOp == [kind |-> "none", file |-> "none", size |-> 0, bytes |-> <<>>,
         off |-> 0, ok |-> TRUE]
Blank == <<"none", 0>>

Chunk(f, i) == <<f, i>>
Content(f) == [i \in 1..Length[f] |-> Chunk(f, i - 1)]

Reply(n, code, req, off, data, last) ==
  [seq |-> n, code |-> code, req |-> req, off |-> off, data |-> data, last |-> last]

Init ==
  /\ pc = "idle" /\ op = NoOp /\ burst = NoBurst
  /\ wait = NoWait /\ seq = 0 /\ cleared = FALSE
  /\ link = "up" /\ to = <<>> /\ from = <<>>
  /\ server = [fd |-> NoFile, seq |-> 0, stream |-> NoStream,
               last |-> Reply(0, "ACK", "RESET", 0, <<>>, FALSE)]
  /\ disk = [f \in Files |-> "old"]
  /\ result = [kind |-> "none", file |-> "none", ok |-> FALSE, bytes |-> <<>>]
  /\ lostTail = FALSE /\ ops = 0 /\ faults = <<>>

Fault(kind) ==
  /\ kind \in Faults /\ Len(faults) < MaxFaults
  /\ faults' = Append(faults, kind)

Dropped == \E i \in DOMAIN faults : faults[i] = "drop"

-----------------------------------------------------------------------------
(* Sequence numbers. *)
NextSeq(n) == (n + 1) % SeqMod

(* adoptServerSequence: a signed comparison of 16-bit numbers. *)
Adopted(n) == IF (n - seq) % SeqMod < SeqMod \div 2 THEN n ELSE seq

-----------------------------------------------------------------------------
(* The steps of an operation, by the request they are at.                  *)
Reads == {"burst", "read", "prefix"}
SessionKinds == Reads \cup {"upload"}

FirstRequest(k) ==
  CASE k \in Reads -> "opening"
    [] k = "upload" -> "creating"
    [] k = "list" -> "listing"
    [] k = "delete" -> "deleting"

(* The operation is over: its promise settles. *)
Settles(o, ok, bytes) ==
  /\ pc' = "idle" /\ op' = NoOp /\ burst' = NoBurst
  /\ result' = [kind |-> o.kind, file |-> o.file, ok |-> ok, bytes |-> bytes]

Continues(step, o) ==
  pc' = step /\ op' = o /\ UNCHANGED <<burst, result>>

(* A public operation is called.  clearStaleSessionsOnce precedes the ones *)
(* that allocate a session.                                                *)
Start(k, f) ==
  /\ pc = "idle" /\ link = "up" /\ ops < MaxOps
  /\ op' = [NoOp EXCEPT !.kind = k, !.file = f]
  /\ pc' = IF k \in SessionKinds /\ ~cleared THEN "clearing" ELSE FirstRequest(k)
  /\ cleared' = (cleared \/ k \in SessionKinds)
  /\ ops' = ops + 1
  /\ lostTail' = FALSE
  /\ result' = [kind |-> "none", file |-> "none", ok |-> FALSE, bytes |-> <<>>]
  /\ UNCHANGED <<burst, wait, seq, link, to, from, vehicle, faults>>

RequestOf ==
  CASE pc \in {"clearing", "resetting"} -> "RESET"
    [] pc \in {"opening", "reopening"} -> "OPEN"
    [] pc = "reading" -> "READ"
    [] pc \in {"closing", "rereading", "committing"} -> "TERMINATE"
    [] pc \in {"creating", "recreating"} -> "CREATE"
    [] pc = "writing" -> "WRITE"
    [] pc = "listing" -> "LIST"
    [] pc = "deleting" -> "REMOVE"

AwaitsReply == pc \notin {"idle", "bursting", "streaming"}

(* send() up to its await: the waiter stands before the request is out. *)
SendRequest ==
  /\ AwaitsReply /\ wait = NoWait /\ link = "up"
  /\ to' = Append(to, [seq |-> seq, req |-> RequestOf, off |-> op.off, file |-> op.file])
  /\ seq' = NextSeq(seq)
  /\ wait' = NextSeq(seq)
  /\ UNCHANGED <<pc, op, burst, cleared, link, from, vehicle, result, lostTail, ops, faults>>

-----------------------------------------------------------------------------
(* What follows the answer to a request, by the step it was sent from.     *)
(* "FAILED" is a timeout, a link drop, or no vehicle to send to.           *)
Failed == Reply(0, "FAILED", "none", 0, <<>>, FALSE)

(* The declared size is read from the data of the reply, whatever reply    *)
(* that is: the bytes of a file make any size.                             *)
DeclaredIn(r) ==
  IF r.req = "OPEN" THEN {Declared[op.file]}
  ELSE IF r.data = <<>> THEN {0} ELSE 0..BurstLength

(* The loop of readRemoteFileUnlocked: the caller's limit outranks the     *)
(* declared size, and a file of declared size 0 is read up to the EOF.     *)
HasMore(o) ==
  IF o.kind = "prefix" THEN o.off < PrefixLimit ELSE o.size = 0 \/ o.off < o.size

ReadOn(o) ==
  \/ ~HasMore(o) /\ Continues("closing", o)
  \/ HasMore(o) /\ o.off < MaxSize /\ Continues("reading", o)
  \/ HasMore(o) /\ o.off >= MaxSize /\ Continues("closing", [o EXCEPT !.ok = FALSE, !.bytes = <<>>])

(* A burst of a file without a size closes it and reads it again. *)
AfterOpen(o) ==
  \/ o.kind = "burst" /\ o.size \in 1..MaxSize /\ Continues("bursting", o)
  \/ o.kind = "burst" /\ o.size > MaxSize /\ Continues("closing", [o EXCEPT !.ok = FALSE])
  \/ o.kind = "burst" /\ o.size = 0 /\ Continues("rereading", [o EXCEPT !.kind = "read"])
  \/ o.kind # "burst" /\ ReadOn(o)

(* openFileForRead: one retry through RESET_SESSIONS on a bare Fail. *)
NeverRetried(r) == FALSE
RetriesOpen(r) == r.code = "FAIL" /\ pc = "opening"

AfterOpening(r) ==
  \/ r.code = "ACK" /\ \E n \in DeclaredIn(r) : AfterOpen([op EXCEPT !.size = n])
  \/ r.code # "ACK" /\ RetriesOpen(r) /\ Continues("resetting", op)
  \/ r.code # "ACK" /\ ~RetriesOpen(r) /\ Settles(op, FALSE, <<>>)

(* An EOF, or an ACK without data, is the end of a file or directory. *)
EndsLoop(r) == r.code = "EOF" \/ (r.code = "ACK" /\ r.data = <<>>)

AfterReading(r) ==
  \/ /\ r.code = "ACK" /\ r.data # <<>>
     /\ ReadOn([op EXCEPT !.bytes = @ \o r.data, !.off = @ + 1])
  \/ EndsLoop(r) /\ Continues("closing", op)
  \/ r.code \notin {"ACK", "EOF"} /\ Continues("closing", [op EXCEPT !.ok = FALSE, !.bytes = <<>>])

(* A path that exists is deleted first, unless overwrite is off. *)
AfterCreating(r) ==
  \/ r.code = "ACK" /\ Continues("writing", op)
  \/ r.code = "EXISTS" /\ pc = "creating" /\ Continues("deleting", op)
  \/ r.code # "ACK" /\ Settles(op, FALSE, <<>>)

AfterDeleting(r) ==
  \/ r.code = "ACK" /\ op.kind = "upload" /\ Continues("recreating", op)
  \/ r.code = "ACK" /\ op.kind = "delete" /\ Settles(op, TRUE, <<>>)
  \/ r.code # "ACK" /\ Settles(op, FALSE, <<>>)

AfterWriting(r) ==
  \/ /\ r.code = "ACK"
     /\ Continues(IF op.off + 1 < UploadLength THEN "writing" ELSE "committing",
                  [op EXCEPT !.off = @ + 1])
  \/ r.code # "ACK" /\ Continues("committing", [op EXCEPT !.ok = FALSE])

(* The close is part of the upload: its failure is the upload's. *)
CommitIgnored(r) == op.ok
Committed(r) == op.ok /\ r.code = "ACK"

AfterListing(r) ==
  \/ /\ r.code = "ACK" /\ r.data # <<>>
     /\ Continues("listing", [op EXCEPT !.bytes = @ \o r.data, !.off = @ + 1])
  \/ EndsLoop(r) /\ Settles(op, TRUE, op.bytes)
  \/ r.code \notin {"ACK", "EOF"} /\ Settles(op, FALSE, <<>>)

After(r) ==
  \/ pc = "clearing" /\ Continues(FirstRequest(op.kind), op)
  \/ pc = "resetting" /\ Continues("reopening", op)
  \/ pc \in {"opening", "reopening"} /\ AfterOpening(r)
  \/ pc = "rereading" /\ Continues("opening", op)
  \/ pc = "reading" /\ AfterReading(r)
  \/ pc = "closing" /\ Settles(op, op.ok, op.bytes)
  \/ pc \in {"creating", "recreating"} /\ AfterCreating(r)
  \/ pc = "deleting" /\ AfterDeleting(r)
  \/ pc = "writing" /\ AfterWriting(r)
  \/ pc = "committing" /\ Settles(op, Committed(r), <<>>)
  \/ pc = "listing" /\ AfterListing(r)

(* handleFileTransferProtocol: a reply that the burst does not take. *)
ForBurst(m) == pc = "streaming" /\ m.req = "BURST"

ReceiveReply ==
  /\ from # <<>> /\ ~ForBurst(Head(from))
  /\ from' = Tail(from)
  /\ seq' = Adopted(Head(from).seq)
  /\ \/ wait = Head(from).seq /\ wait' = NoWait /\ After(Head(from))
     \/ wait # Head(from).seq /\ UNCHANGED <<pc, op, burst, wait, result>>
  /\ UNCHANGED <<cleared, link, to, vehicle, lostTail, ops, faults>>

(* Nothing is under way that could still answer. *)
Quiet == to = <<>> /\ from = <<>> /\ server.stream = NoStream

RequestTimeout ==
  /\ wait # NoWait
  /\ \/ Quiet /\ UNCHANGED faults
     \/ ~Quiet /\ Fault("late reply")
  /\ wait' = NoWait
  /\ After(Failed)
  /\ UNCHANGED <<seq, cleared, link, to, from, vehicle, lostTail, ops>>

(* send() finds no vehicle. *)
NoVehicle ==
  /\ AwaitsReply /\ link = "down" /\ wait = NoWait
  /\ After(Failed)
  /\ UNCHANGED <<wait, seq, cleared, link, to, from, vehicle, lostTail, ops, faults>>

-----------------------------------------------------------------------------
(* The burst. *)
Prefix(b) == SubSeq(b.buf, 1, b.received)

(* finishBurst and failBurst; terminateSession follows in both. *)
EndsBurst(b, ok) ==
  /\ pc' = "closing" /\ burst' = NoBurst
  /\ op' = [op EXCEPT !.ok = ok, !.bytes = Prefix(b)]
  /\ UNCHANGED result

(* sendBurstReadRequest, with the number n that is next. *)
Requests(n, off) ==
  /\ to' = Append(to, [seq |-> n, req |-> "BURST", off |-> off, file |-> op.file])
  /\ seq' = NextSeq(n)

StreamsOn(b) == pc' = "streaming" /\ burst' = b /\ UNCHANGED <<op, result>>

StartBurst ==
  /\ pc = "bursting"
  /\ LET b == [NoBurst EXCEPT !.buf = [i \in 1..op.size |-> Blank]]
     IN \/ link = "up" /\ StreamsOn(b) /\ Requests(seq, 0)
        \/ link = "down" /\ EndsBurst(b, FALSE) /\ UNCHANGED <<to, seq>>
  /\ UNCHANGED <<wait, cleared, link, from, vehicle, lostTail, ops, faults>>

Larger(a, b) == IF a > b THEN a ELSE b

(* A data packet lands at its own offset; the frontier moves only over     *)
(* what is contiguous.                                                     *)
FrontierIsHighWater(m) == Larger(burst.received, m.off + 1)
Frontier(m) ==
  IF m.off <= burst.received THEN Larger(burst.received, m.off + 1) ELSE burst.received

Landed(m) ==
  IF m.off < op.size
  THEN [received |-> Frontier(m),
        high |-> Larger(burst.high, m.off + 1),
        retries |-> IF Frontier(m) > burst.received THEN 0 ELSE burst.retries,
        buf |-> [burst.buf EXCEPT ![m.off + 1] = m.data[1]]]
  ELSE burst

(* An EOF ends the file when no hole is left below what was seen. *)
EofAlwaysEnds == TRUE
EofEnds == burst.received >= burst.high

(* handleBurstPacket. *)
ReceivePacket ==
  /\ from # <<>> /\ ForBurst(Head(from))
  /\ from' = Tail(from)
  /\ LET m == Head(from)
         n == Adopted(m.seq)
         b == Landed(m)
         retried == [burst EXCEPT !.retries = @ + 1]
     IN \/ /\ m.code = "EOF" /\ EofEnds
           /\ EndsBurst(burst, TRUE) /\ seq' = n /\ UNCHANGED to
        \/ /\ m.code = "EOF" /\ ~EofEnds /\ burst.retries < MaxRetries
           /\ StreamsOn(retried) /\ Requests(n, burst.received)
        \/ /\ \/ m.code = "EOF" /\ ~EofEnds /\ burst.retries >= MaxRetries
              \/ m.code \notin {"EOF", "ACK"}
           /\ EndsBurst(burst, FALSE) /\ seq' = n /\ UNCHANGED to
        \/ /\ m.code = "ACK" /\ b.received >= op.size
           /\ EndsBurst(b, TRUE) /\ seq' = n /\ UNCHANGED to
        \/ /\ m.code = "ACK" /\ b.received < op.size /\ m.last
           /\ StreamsOn(b) /\ Requests(n, b.received)
        \/ /\ m.code = "ACK" /\ b.received < op.size /\ ~m.last
           /\ StreamsOn(b) /\ seq' = n /\ UNCHANGED to
  /\ UNCHANGED <<wait, cleared, link, vehicle, lostTail, ops, faults>>

(* The watchdog of the burst. *)
NeverExpires == FALSE
Expires == pc = "streaming" /\ Quiet

(* onBurstTimeout. *)
BurstTimeout ==
  /\ Expires
  /\ \/ /\ burst.retries < MaxRetries
        /\ StreamsOn([burst EXCEPT !.retries = @ + 1]) /\ Requests(seq, burst.received)
     \/ /\ burst.retries >= MaxRetries
        /\ EndsBurst(burst, FALSE) /\ UNCHANGED <<to, seq>>
  /\ UNCHANGED <<wait, cleared, link, from, vehicle, lostTail, ops, faults>>

(* The caller's AbortSignal. *)
Abort ==
  /\ pc = "streaming"
  /\ Fault(IF Quiet THEN "abort" ELSE "abort in stream")
  /\ EndsBurst(burst, FALSE)
  /\ UNCHANGED <<wait, seq, cleared, link, to, from, vehicle, lostTail, ops>>

-----------------------------------------------------------------------------
(* The link.  cancelAll fails the burst and rejects the waiter; what was   *)
(* under way is gone, and the server keeps its open file.                  *)
Drop ==
  /\ link = "up" /\ Fault("drop")
  /\ link' = "down"
  /\ to' = <<>> /\ from' = <<>>
  /\ server' = [server EXCEPT !.stream = NoStream]
  /\ cleared' = FALSE
  /\ wait' = NoWait
  /\ \/ pc = "streaming" /\ EndsBurst(burst, FALSE)
     \/ wait # NoWait /\ After(Failed)
     \/ wait = NoWait /\ pc # "streaming" /\ UNCHANGED <<pc, op, burst, result>>
  /\ UNCHANGED <<seq, disk, lostTail, ops>>

Reconnect ==
  /\ link = "down" /\ pc = "idle"
  /\ link' = "up"
  /\ UNCHANGED <<client, to, from, vehicle, result, lostTail, ops, faults>>

Loss == Fault(IF Dropped THEN "loss after drop" ELSE "loss")

LoseRequest ==
  /\ to # <<>> /\ Loss
  /\ to' = Tail(to)
  /\ UNCHANGED <<client, link, from, vehicle, result, lostTail, ops>>

LoseReply ==
  /\ from # <<>> /\ Loss
  /\ from' = Tail(from)
  /\ lostTail' = \/ lostTail
                 \/ \E f \in Files : Head(from).data = <<Chunk(f, Length[f] - 1)>>
  /\ UNCHANGED <<client, link, to, vehicle, result, ops>>

-----------------------------------------------------------------------------
(* The server, external. *)
Served(r, fd, code, data) ==
  LET reply == Reply(NextSeq(r.seq), code, r.req, r.off, data, FALSE)
  IN /\ from' = Append(from, reply)
     /\ server' = [server EXCEPT !.fd = fd, !.seq = NextSeq(r.seq), !.last = reply]

Repeats(r) == r.req # "RESET" /\ NextSeq(r.seq) = server.seq

ServeRead(r) ==
  LET fd == server.fd
      ok == fd.mode = "r"
  IN \/ r.req = "OPEN" /\ fd # NoFile /\ Served(r, fd, "FAIL", <<>>)
     \/ r.req = "OPEN" /\ fd = NoFile /\ disk[r.file] = "absent" /\ Served(r, fd, "OTHER", <<>>)
     \/ /\ r.req = "OPEN" /\ fd = NoFile /\ disk[r.file] # "absent"
        /\ Served(r, [file |-> r.file, mode |-> "r", got |-> {}], "ACK", <<>>)
     \/ r.req = "READ" /\ ~ok /\ Served(r, fd, "OTHER", <<>>)
     \/ r.req = "READ" /\ ok /\ r.off < Length[fd.file] /\ Served(r, fd, "ACK", <<Chunk(fd.file, r.off)>>)
     \/ r.req = "READ" /\ ok /\ r.off >= Length[fd.file] /\ Served(r, fd, "EOF", <<>>)
     \/ r.req = "LIST" /\ r.off < Length[r.file] /\ Served(r, fd, "ACK", <<Chunk(r.file, r.off)>>)
     \/ r.req = "LIST" /\ r.off >= Length[r.file] /\ Served(r, fd, "EOF", <<>>)
     \/ r.req = "BURST" /\ ~ok /\ Served(r, fd, "OTHER", <<>>)
     \/ /\ r.req = "BURST" /\ ok
        /\ server' = [server EXCEPT !.seq = NextSeq(r.seq),
                                    !.stream = [off |-> r.off, left |-> BurstLength]]
        /\ UNCHANGED from

(* What was written is validated when the file is closed. *)
ServeClose(r) ==
  LET fd == server.fd
      whole == fd.mode = "w" /\ fd.got = 0..(UploadLength - 1)
  IN \/ r.req = "RESET" /\ Served(r, NoFile, "ACK", <<>>) /\ UNCHANGED disk
     \/ r.req = "TERMINATE" /\ ~whole /\ Served(r, NoFile, "ACK", <<>>) /\ UNCHANGED disk
     \/ /\ r.req = "TERMINATE" /\ whole
        /\ Served(r, NoFile, "ACK", <<>>) /\ disk' = [disk EXCEPT ![fd.file] = "new"]
     \/ r.req = "TERMINATE" /\ whole /\ Served(r, NoFile, "OTHER", <<>>) /\ UNCHANGED disk

ServeWrite(r) ==
  LET fd == server.fd
  IN \/ r.req = "CREATE" /\ fd # NoFile /\ Served(r, fd, "FAIL", <<>>) /\ UNCHANGED disk
     \/ /\ r.req = "CREATE" /\ fd = NoFile /\ disk[r.file] # "absent"
        /\ Served(r, fd, "EXISTS", <<>>) /\ UNCHANGED disk
     \/ /\ r.req = "CREATE" /\ fd = NoFile /\ disk[r.file] = "absent"
        /\ Served(r, [file |-> r.file, mode |-> "w", got |-> {}], "ACK", <<>>)
        /\ disk' = [disk EXCEPT ![r.file] = "part"]
     \/ /\ r.req = "WRITE" /\ fd.mode = "w"
        /\ Served(r, [fd EXCEPT !.got = @ \cup {r.off}], "ACK", <<>>) /\ UNCHANGED disk
     \/ r.req = "WRITE" /\ fd.mode # "w" /\ Served(r, fd, "OTHER", <<>>) /\ UNCHANGED disk
     \/ /\ r.req = "REMOVE" /\ disk[r.file] # "absent"
        /\ Served(r, fd, "ACK", <<>>) /\ disk' = [disk EXCEPT ![r.file] = "absent"]
     \/ /\ r.req = "REMOVE" /\ disk[r.file] = "absent"
        /\ Served(r, fd, "OTHER", <<>>) /\ UNCHANGED disk

Serve ==
  /\ to # <<>> /\ server.stream = NoStream
  /\ to' = Tail(to)
  /\ \/ /\ Repeats(Head(to))
        /\ from' = Append(from, [server.last EXCEPT !.seq = server.seq])
        /\ UNCHANGED vehicle
     \/ ~Repeats(Head(to)) /\ ServeRead(Head(to)) /\ UNCHANGED disk
     \/ ~Repeats(Head(to)) /\ (ServeClose(Head(to)) \/ ServeWrite(Head(to)))
  /\ UNCHANGED <<client, link, result, lostTail, ops, faults>>

(* One packet of a burst; the end of the file is a NAK of its own. *)
Stream ==
  LET s == server.stream
      f == server.fd.file
      data == Reply(server.seq, "ACK", "BURST", s.off, <<Chunk(f, s.off)>>, s.left = 1)
      eof == Reply(server.seq, "EOF", "BURST", s.off, <<>>, FALSE)
  IN /\ s # NoStream
     /\ \/ /\ s.off < Length[f]
           /\ from' = Append(from, data)
           /\ server' = [server EXCEPT
                           !.seq = NextSeq(@), !.last = data,
                           !.stream = IF s.left = 1 THEN NoStream
                                      ELSE [off |-> s.off + 1, left |-> s.left - 1]]
        \/ /\ s.off >= Length[f]
           /\ from' = Append(from, eof)
           /\ server' = [server EXCEPT !.last = eof, !.stream = NoStream]
     /\ UNCHANGED <<client, link, to, disk, result, lostTail, ops, faults>>

-----------------------------------------------------------------------------
Next ==
  \/ \E k \in Kinds, f \in Files : Start(k, f)
  \/ SendRequest \/ ReceiveReply \/ RequestTimeout \/ NoVehicle
  \/ StartBurst \/ ReceivePacket \/ BurstTimeout \/ Abort
  \/ Drop \/ Reconnect \/ LoseRequest \/ LoseReply
  \/ Serve \/ Stream

Spec == Init /\ [][Next]_vars

(* Timers fire, promise callbacks run, and what the link does not lose     *)
(* arrives.                                                                *)
FairSpec ==
  /\ Spec
  /\ WF_vars(SendRequest \/ ReceiveReply \/ RequestTimeout \/ NoVehicle
             \/ StartBurst \/ ReceivePacket \/ BurstTimeout \/ Serve \/ Stream)

-----------------------------------------------------------------------------
Beginning(f) ==
  SubSeq(Content(f), 1, IF PrefixLimit < Length[f] THEN PrefixLimit ELSE Length[f])

IsPrefixOf(s, t) == Len(s) <= Len(t) /\ s = SubSeq(t, 1, Len(s))

(* What a read or a burst hands back, the salvaged part of a failed burst  *)
(* included, is the beginning of the file that was asked for: no holes, no *)
(* bytes of another file ("The contiguous prefix actually received").      *)
NoForeignBytes ==
  result.kind \in Reads => IsPrefixOf(result.bytes, Content(result.file))

(* A transfer that resolves is the whole file, or the asked-for prefix of  *)
(* it, also when packets of it were lost, unless the packet with the end   *)
(* of the file was: EOF then looks like that of a vehicle that declared    *)
(* too much.                                                               *)
TruncatedOnlyByLostTail ==
  result.ok /\ result.kind \in Reads =>
    \/ result.bytes = IF result.kind = "prefix" THEN Beginning(result.file)
                      ELSE Content(result.file)
    \/ lostTail

(* When the link loses nothing no read fails, although the close of a      *)
(* burst can be taken for a repeated request and leave the file open: the  *)
(* open that the server then refuses is retried.                           *)
CleanReadsSucceed ==
  result.kind \in Reads /\ ~result.ok =>
    \/ faults # <<>>
    \/ disk[result.file] = "absent" \/ Length[result.file] > MaxSize

(* An upload that resolves is stored: the vehicle took every chunk and     *)
(* accepted the file when it was closed.                                   *)
UploadIsStored == result.kind = "upload" /\ result.ok => disk[result.file] = "new"

(* Every operation settles, whatever is lost, and gives back the session   *)
(* that the queue holds for it.                                            *)
OperationSettles == pc # "idle" ~> pc = "idle"
=============================================================================
