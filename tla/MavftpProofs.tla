---------------------------- MODULE MavftpProofs ----------------------------
(***************************************************************************)
(* Theorems about MavftpService, for every number of calls, operations,    *)
(* faults and retries and for every length of the files: what an operation *)
(* hands back (FtpTransfer), and that operations come one at a time and in *)
(* the order of their calls (FtpQueue).                                    *)
(*                                                                         *)
(* FtpInv is the invariant of the transfers.  Its core relates what is     *)
(* under way to what the operation believes:                               *)
(*   - Ready, Exchange: at an open file there is at most one request or    *)
(*     one reply under way, and the reply is about that file and offset.   *)
(*     The service numbers its requests with adoptServerSequence, so that  *)
(*     it is never behind the vehicle and no request passes for a repeated *)
(*     one;                                                                *)
(*   - Opening: before a file is open, stale messages may be under way,    *)
(*     and none has the number that the OPEN or CREATE waits for;          *)
(*   - Trailing: the packets that a burst leaves behind are its end only;  *)
(*   - Streaming, Frontiers: the packets of a burst come in the order of   *)
(*     their offsets, and the buffer is the file up to the frontier;       *)
(*   - TailInv: when the end of the file was streamed, the chunk before it *)
(*     was seen, is still to come, or was lost.                            *)
(*                                                                         *)
(* Three things are assumed of the link and the vehicle.  None can be left *)
(* out: the model has a counterexample without each.  A burst is aborted   *)
(* only when its packets have ceased ("abort in stream" is no fault that   *)
(* happens); a vehicle that declares a size declares no less than there    *)
(* is; and no OPEN or CREATE meets an old number of the wire, ~NumberReused*)
(* below.                                                                  *)
(*                                                                         *)
(* While nothing has gone wrong Clean holds as well, and no read fails:    *)
(* what a read waits for is under way, a burst has no gaps, and the retry  *)
(* of an OPEN finds every session closed.  Its sizes are ones that a read  *)
(* accepts (SizesAccepted), and no abort is excluded beforehand.           *)
(***************************************************************************)
EXTENDS FtpTransfer, FtpQueue, SequenceTheorems, TLAPS

-----------------------------------------------------------------------------
(* The invariant of the transfers. *)

\* What the variables hold: messages, the state of the vehicle's server, and the
\* locals of the operation and of its burst.
AllKinds == Reads \cup {"upload", "list", "delete"}
Nums == 0..(SeqMod - 1)
Chunks == Files \X Nat
Codes == {"ACK", "FAIL", "OTHER", "EXISTS", "EOF"}
Commands == {"RESET", "OPEN", "READ", "TERMINATE", "CREATE", "WRITE", "LIST", "REMOVE", "BURST"}
Requested == [seq : Nums, req : Commands, off : Nat, file : Files]
Replies == [seq : Nums, code : Codes, req : Commands, off : Nat, data : Seq(Chunks), last : BOOLEAN]
Streams == [off : Nat, left : Nat \ {0}] \cup {NoStream}
Handles == [file : Files \cup {"none"}, mode : {"none", "r", "w"}, got : SUBSET Nat]
Servers == [fd : Handles, seq : Nums, stream : Streams, last : Replies]
Steps ==
  {"idle", "clearing", "resetting", "opening", "reopening", "rereading", "reading", "closing",
   "creating", "recreating", "deleting", "writing", "committing", "listing", "bursting",
   "streaming"}

Operations ==
  [kind : AllKinds \cup {"none"}, file : Files \cup {"none"}, size : Nat, bytes : Seq(Chunks),
   off : Nat, ok : BOOLEAN]
Bursts == [received : Nat, high : Nat, retries : Nat, buf : Seq(Chunks \cup {Blank})]

ClientType == pc \in Steps /\ op \in Operations /\ burst \in Bursts

LinkType ==
  /\ wait \in Nums \cup {NoWait} /\ seq \in Nums
  /\ to \in Seq(Requested) /\ from \in Seq(Replies)
  /\ server \in Servers
  /\ server.fd.mode # "none" => server.fd.file \in Files
  /\ disk \in [Files -> {"old", "new", "part", "absent"}]
  /\ lostTail \in BOOLEAN

\* The beginning of a file, and how much of it a read is asked for.
Begins(s, f) ==
  s \in Seq(Chunks) /\ Len(s) <= Length[f] /\ \A i \in 1..Len(s) : s[i] = Chunk(f, i - 1)
Wanted(k, f) ==
  IF k = "prefix" /\ PrefixLimit < Length[f] THEN PrefixLimit ELSE Length[f]
Sized(n, f) == n = 0 \/ n >= Length[f]

\* Which operations are at which step, and what they hold there.
OpInv ==
  /\ pc # "idle" => op.kind \in AllKinds /\ op.file \in Files
  /\ pc = "clearing" => op.kind \in SessionKinds
  /\ pc \in {"opening", "reopening", "resetting", "rereading", "reading", "closing", "bursting",
             "streaming"} => op.kind \in Reads
  /\ pc \in {"creating", "recreating", "writing", "committing"} => op.kind = "upload"
  /\ pc = "deleting" => op.kind \in {"upload", "delete"}
  /\ pc = "listing" => op.kind = "list"
  /\ pc \in {"bursting", "streaming"} => op.kind = "burst" /\ op.size > 0
  /\ pc \in {"clearing", "resetting", "opening", "reopening", "rereading", "bursting", "streaming",
             "creating", "recreating", "deleting"} => op.bytes = <<>> /\ op.off = 0 /\ op.ok

\* A request is out only at a step that awaits a reply.
Waits == wait # NoWait => AwaitsReply

\* All that was asked for, unless the packet with the end of the file was lost.
Complete(bytes, k, f) == Len(bytes) = Wanted(k, f) \/ lostTail

\* What a read holds is the beginning of its file, and a read that closes with
\* success holds all of it.
ReadInv ==
  /\ op.kind \in Reads /\ pc # "idle" => Begins(op.bytes, op.file)
  /\ pc \in {"reading", "bursting", "streaming"} => Sized(op.size, op.file)
  /\ pc = "reading" => op.kind # "burst" /\ op.ok /\ op.off = Len(op.bytes) /\ HasMore(op)
  /\ pc = "closing" /\ op.ok => Complete(op.bytes, op.kind, op.file)

\* An upload commits with success only after its last chunk.
WriteInv ==
  /\ pc = "writing" => op.ok /\ op.off < UploadLength
  /\ pc = "committing" /\ op.ok => op.off = UploadLength

\* The same of what a read handed back.
ResultInv ==
  result.kind \in Reads =>
    /\ result.file \in Files /\ Begins(result.bytes, result.file)
    /\ result.ok => Complete(result.bytes, result.kind, result.file)

\* An upload that was reported stored is stored, and no request is on its way that
\* could remove it.
Stored ==
  result.kind = "upload" /\ result.ok =>
    pc = "idle" /\ to = <<>> /\ result.file \in Files /\ disk[result.file] = "new"

\* Nothing is under way.
Silent == to = <<>> /\ from = <<>> /\ server.stream = NoStream

Mode == IF op.kind = "upload" THEN "w" ELSE "r"
\* The server has the file of the operation open, with what was written so far.
HasFile ==
  /\ server.fd.file = op.file /\ server.fd.mode = Mode
  /\ op.kind = "upload" => server.fd.got = 0..(op.off - 1)

\* The operation is at a file that it opened and that nothing failed on.
AtFile == pc \in {"bursting", "reading", "writing"} \/ (pc = "committing" /\ op.ok)

\* Between two requests the link is silent, and the next request is no repetition.
Ready ==
  AtFile /\ wait = NoWait =>
    /\ Silent /\ HasFile /\ NextSeq(seq) # server.seq
    /\ pc = "bursting" => server.last.req = "OPEN"

\* What the vehicle says to a request about the file it has open.
Answered(m) ==
  /\ pc = "reading" =>
       /\ HasFile
       /\ \/ m.code = "ACK" /\ op.off < Length[op.file] /\ m.data = <<Chunk(op.file, op.off)>>
          \/ m.code = "EOF" /\ op.off >= Length[op.file]
  /\ pc = "writing" =>
       /\ m.code = "ACK"
       /\ server.fd.file = op.file /\ server.fd.mode = "w" /\ server.fd.got = 0..op.off
  /\ pc = "committing" /\ m.code = "ACK" => disk[op.file] = "new"

\* A request about the open file, on its way; lost; or its answer, on its way back.
Exchange ==
  AtFile /\ wait # NoWait =>
    /\ server.stream = NoStream /\ seq = wait
    /\ \/ /\ Len(to) = 1 /\ to[1].req = RequestOf /\ to[1].off = op.off /\ NextSeq(to[1].seq) = wait
          /\ from = <<>> /\ HasFile /\ server.seq # wait
       \/ to = <<>> /\ from = <<>>
       \/ /\ to = <<>> /\ Len(from) = 1 /\ from[1].seq = wait /\ server.seq = wait
          /\ Answered(from[1])

\* A request that opens a file, and its answer.
Opens == pc \in {"opening", "reopening", "creating", "recreating"}
Opened(m) ==
  m.code = "ACK" =>
    /\ m.req = RequestOf /\ server.last.req = RequestOf /\ server.seq = wait
    /\ server.fd = [file |-> op.file, mode |-> Mode, got |-> {}]

\* Among what is under way, only the request has the number that is waited for,
\* and only its answer does.
Opening ==
  Opens /\ wait # NoWait =>
    \/ /\ to # <<>> /\ to[Len(to)].req = RequestOf /\ to[Len(to)].file = op.file
       /\ NextSeq(to[Len(to)].seq) = wait
       /\ \A i \in 1..(Len(to) - 1) : NextSeq(to[i].seq) # wait
       /\ \A i \in 1..Len(from) : from[i].seq # wait
       /\ server.stream # NoStream => server.seq # wait
    \/ /\ to = <<>>
       /\ server.stream # NoStream => server.seq # wait
       /\ \A i \in 1..(Len(from) - 1) : from[i].seq # wait
       /\ from # <<>> /\ from[Len(from)].seq = wait =>
            server.stream = NoStream /\ Opened(from[Len(from)])

\* Outside of a burst nothing of one is asked for, and what is left of its
\* stream is the end of the file.
Trailing ==
  /\ server.stream # NoStream => server.fd.mode = "r"
  /\ pc # "streaming" =>
       /\ \A i \in 1..Len(to) : to[i].req # "BURST"
       /\ server.stream # NoStream => server.stream.off >= Length[server.fd.file]

\* A packet of the burst.
IsPacket(m) ==
  m.req = "BURST" =>
    \/ m.code = "ACK" /\ m.off < Length[op.file] /\ m.data = <<Chunk(op.file, m.off)>>
    \/ m.code = "EOF"
IsData(m) == m.req = "BURST" /\ m.code = "ACK"
IsEof(m) == m.req = "BURST" /\ m.code = "EOF"
Ends(m) == IsEof(m) \/ (IsData(m) /\ m.last)

\* The link during a burst: one request, then its packets in the order of their
\* offsets, all of the file of the burst, the end last.
Streaming ==
  pc = "streaming" =>
    /\ server.fd.file = op.file /\ server.fd.mode = "r"
    /\ IsPacket(server.last)
    /\ \A i \in 1..Len(from) : IsPacket(from[i])
    /\ to # <<>> =>
         /\ Len(to) = 1 /\ to[1].req = "BURST" /\ to[1].off = burst.received
         /\ from = <<>> /\ server.stream = NoStream
    /\ \A i \in 1..Len(from) :
         /\ Ends(from[i]) => i = Len(from) /\ server.stream = NoStream
         /\ IsData(from[i]) =>
              /\ server.stream # NoStream => from[i].off < server.stream.off
              /\ \A j \in 1..Len(from) : i < j /\ IsData(from[j]) => from[i].off < from[j].off

\* The buffer is the file up to the frontier.
Frontiers ==
  pc = "streaming" =>
    /\ burst.received <= burst.high /\ burst.high <= Length[op.file] /\ burst.received < op.size
    /\ Len(burst.buf) = op.size
    /\ \A i \in 1..burst.received : burst.buf[i] = Chunk(op.file, i - 1)

\* The end of the file was streamed: it has come, is coming, or was lost.
TailInv ==
  (/\ pc = "streaming"
   /\ \/ IsEof(server.last)
      \/ \E i \in 1..Len(from) : IsEof(from[i])
      \/ server.stream # NoStream /\ server.stream.off >= Length[op.file]) =>
    \/ burst.high = Length[op.file] \/ lostTail
    \/ \E i \in 1..Len(from) : IsData(from[i]) /\ from[i].off = Length[op.file] - 1

\* The invariant.
ClientInv == ClientType /\ OpInv /\ ReadInv /\ WriteInv /\ ResultInv
LinkInv == Ready /\ Exchange /\ Opening /\ Trailing
BurstInv == Streaming /\ Frontiers /\ TailInv
FtpInv == ClientInv /\ LinkType /\ Waits /\ Stored /\ LinkInv /\ BurstInv

\* An OPEN or CREATE goes out under a number that a reply still to come has, or the
\* vehicle takes it for a repetition of another request.  Numbers wrap after SeqMod,
\* and the vehicle counts on while it streams, so nothing in the service excludes it.
Coming ==
  {from[i].seq : i \in DOMAIN from} \cup {NextSeq(to[i].seq) : i \in DOMAIN to}
    \cup (IF server.stream = NoStream THEN {} ELSE {server.seq})
NumberReused ==
  \/ Opens /\ wait' # wait /\ wait' \in Coming
  \/ /\ Serve /\ Head(to).req \in {"OPEN", "CREATE"} /\ Repeats(Head(to))

\* A vehicle that declares a size declares no less than there is.
SizesDeclared == \A f \in Files : Declared[f] = 0 \/ Declared[f] >= Length[f]
-----------------------------------------------------------------------------
(* Numbers. *)

\* A number and the next, which wraps.
LEMMA NextIs == \A n \in Nums : NextSeq(n) = IF n + 1 = SeqMod THEN 0 ELSE n + 1
BY SeqModAssumption DEF NextSeq, Nums

\* The next number is another one.
LEMMA NextNum == \A n \in Nums : NextSeq(n) \in Nums /\ NextSeq(n) # n
BY SeqModAssumption, NextIs DEF Nums

\* The distance to the next number is one, also across the wrap.
LEMMA Gap == \A n \in Nums : (NextSeq(n) - n) % SeqMod = 1
<1>1. \A a \in Nums : a % SeqMod = a
    BY SeqModAssumption DEF Nums
<1>2. \A a \in Int : a < 0 /\ a + SeqMod >= 0 => a % SeqMod = a + SeqMod
    BY SeqModAssumption
<1> QED BY SeqModAssumption, NextIs, <1>1, <1>2 DEF Nums

\* With an answer the client catches up: the next request is not taken for one
\* that was answered with this number.
LEMMA AdoptedIs ==
    ASSUME seq \in Nums, NEW n \in Nums
    PROVE  /\ Adopted(n) \in Nums /\ NextSeq(Adopted(n)) # n
           /\ seq = n => Adopted(n) = n
<1>1. Adopted(n) \in {n, seq}
    BY DEF Adopted
<1>2. SeqMod \div 2 > 1
    BY SeqModAssumption
<1>3. NextSeq(seq) = n => Adopted(n) = n
    BY <1>2, Gap DEF Adopted
<1> QED BY <1>1, <1>3, NextNum

\* No number is that of a request that waits for nothing.
LEMMA WaitIs == NoWait \notin Nums
BY SeqModAssumption DEF NoWait, Nums

-----------------------------------------------------------------------------
(* Sequences. *)

\* An empty queue.
LEMMA NoneIs ==
    ASSUME NEW S, NEW s \in Seq(S)
    PROVE  Len(s) \in Nat /\ (s = <<>> <=> Len(s) = 0)
BY LenProperties, EmptySeq

\* The head and the rest of a queue.
LEMMA TailIs ==
    ASSUME NEW S, NEW s \in Seq(S), s # <<>>
    PROVE  /\ Len(s) \in Nat /\ Len(s) >= 1 /\ Head(s) = s[1] /\ Head(s) \in S
           /\ Tail(s) \in Seq(S) /\ Len(Tail(s)) = Len(s) - 1
           /\ \A i \in 1..(Len(s) - 1) : Tail(s)[i] = s[i + 1]
           /\ Tail(s) = <<>> <=> Len(s) = 1
<1>1. /\ Len(s) \in Nat /\ Len(s) >= 1
      /\ Tail(s) \in Seq(S) /\ Len(Tail(s)) = Len(s) - 1
      /\ \A i \in 1..Len(Tail(s)) : Tail(s)[i] = s[i + 1]
    BY HeadTailProperties, EmptySeq, LenProperties
<1>2. Head(s) = s[1] /\ s[1] \in S
    BY <1>1, ElementOfSeq
<1>3. Tail(s) = <<>> <=> Len(Tail(s)) = 0
    BY <1>1, EmptySeq
<1>4. Tail(s) = <<>> <=> Len(s) = 1
    BY <1>1, <1>3
<1> QED BY <1>1, <1>2, <1>4

\* A queue with one more.
LEMMA AppendIs ==
    ASSUME NEW S, NEW s \in Seq(S), NEW e \in S
    PROVE  /\ Len(s) \in Nat /\ Append(s, e) \in Seq(S) /\ Len(Append(s, e)) = Len(s) + 1
           /\ \A i \in 1..Len(s) : Append(s, e)[i] = s[i]
           /\ Append(s, e)[Len(s) + 1] = e /\ Append(s, e) # <<>>
BY AppendProperties, LenProperties

\* The elements of a queue.
LEMMA Members ==
    ASSUME NEW S, NEW s \in Seq(S), NEW i \in 1..Len(s)
    PROVE  s[i] \in S
BY ElementOfSeq

-----------------------------------------------------------------------------
(* The client. *)

\* The fields of the operation.
LEMMA OpFields ==
    ASSUME ClientType
    PROVE  /\ op.kind \in AllKinds \cup {"none"} /\ op.file \in Files \cup {"none"}
           /\ op.size \in Nat /\ op.bytes \in Seq(Chunks) /\ op.off \in Nat /\ op.ok \in BOOLEAN
BY DEF ClientType, Operations

\* An operation with one more chunk.
LEMMA OpMore ==
    ASSUME NEW o \in Operations, NEW x \in Seq(Chunks)
    PROVE  LET q == [o EXCEPT !.bytes = x, !.off = @ + 1]
           IN /\ q \in Operations /\ q.kind = o.kind /\ q.file = o.file /\ q.size = o.size
              /\ q.bytes = x /\ q.off = o.off + 1 /\ q.ok = o.ok
<1>1. /\ o.kind \in AllKinds \cup {"none"} /\ o.file \in Files \cup {"none"} /\ o.size \in Nat
      /\ o.off \in Nat /\ o.ok \in BOOLEAN
    BY DEF Operations
<1> DEFINE p == [o EXCEPT !.bytes = x]
<1>2. /\ p \in Operations /\ p.kind = o.kind /\ p.file = o.file /\ p.size = o.size
      /\ p.bytes = x /\ p.off = o.off /\ p.ok = o.ok
    BY DEF Operations
<1> HIDE DEF p
<1>3. LET q == [p EXCEPT !.off = @ + 1]
      IN /\ q \in Operations /\ q.kind = o.kind /\ q.file = o.file /\ q.size = o.size
         /\ q.bytes = x /\ q.off = o.off + 1 /\ q.ok = o.ok
    BY <1>1, <1>2 DEF Operations
<1>4. [o EXCEPT !.bytes = x, !.off = @ + 1] = [p EXCEPT !.off = @ + 1]
    BY DEF p, Operations
<1> QED BY <1>3, <1>4

\* An operation that was just called, or that has ended.
LEMMA FreshOp ==
    ASSUME NEW k \in AllKinds, NEW f \in Files
    PROVE  /\ NoOp \in Operations /\ NoBurst \in Bursts
           /\ [NoOp EXCEPT !.kind = k, !.file = f] \in Operations
<1>1. <<>> \in Seq(Chunks) /\ <<>> \in Seq(Chunks \cup {Blank})
    BY EmptySeq
<1> QED BY <1>1 DEF NoOp, NoBurst, Operations, Bursts

\* The empty beginning.
LEMMA BeginsNone == \A f \in Files : Begins(<<>>, f)
<1>1. <<>> \in Seq(Chunks) /\ Len(<<>>) = 0
    BY EmptySeq
<1> QED BY <1>1, SizesAssumption DEF Begins

\* A chunk appended to a beginning that it continues.
LEMMA BeginsMore ==
    ASSUME NEW f \in Files, NEW s, Begins(s, f), NEW n \in Nat, n = Len(s), n < Length[f]
    PROVE  Begins(s \o <<Chunk(f, n)>>, f) /\ Len(s \o <<Chunk(f, n)>>) = n + 1
<1>1. s \in Seq(Chunks) /\ \A i \in 1..Len(s) : s[i] = Chunk(f, i - 1)
    BY DEF Begins
<1>2. Chunk(f, n) \in Chunks
    BY DEF Chunk, Chunks
<1>3. /\ <<Chunk(f, n)>> \in Seq(Chunks) /\ Len(<<Chunk(f, n)>>) = 1
      /\ <<Chunk(f, n)>>[1] = Chunk(f, n)
    BY <1>2
<1> DEFINE t == s \o <<Chunk(f, n)>>
<1>4. /\ t \in Seq(Chunks) /\ Len(t) = n + 1
      /\ \A i \in 1..(n + 1) : t[i] = IF i <= n THEN s[i] ELSE <<Chunk(f, n)>>[i - n]
    BY <1>1, <1>3, ConcatProperties
<1>5. \A i \in 1..(n + 1) : t[i] = Chunk(f, i - 1)
    BY <1>1, <1>3, <1>4
<1> HIDE DEF t
<1>6. Begins(t, f) /\ Len(t) = n + 1
    BY <1>4, <1>5, SizesAssumption DEF Begins
<1> QED BY <1>6 DEF t

\* What a read wants is there.
LEMMA WantedIs ==
    ASSUME NEW f \in Files, NEW k
    PROVE  /\ Wanted(k, f) \in Nat /\ Wanted(k, f) <= Length[f] /\ Length[f] \in Nat
           /\ k # "prefix" => Wanted(k, f) = Length[f]
           /\ k = "prefix" => Wanted(k, f) <= PrefixLimit /\ PrefixLimit \in Nat
           /\ Wanted(k, f) = Length[f] \/ (k = "prefix" /\ Wanted(k, f) = PrefixLimit)
BY SizesAssumption DEF Wanted

\* The kinds of operations.
LEMMA KindsAre == Kinds \subseteq AllKinds /\ Reads \subseteq AllKinds /\ SessionKinds \subseteq AllKinds
BY KindsAssumption DEF AllKinds, Reads, SessionKinds

\* An operation that settles has a result that its bytes bear out.
LEMMA SettlesKeeps ==
    ASSUME ClientInv, pc # "idle", lostTail' = lostTail, NEW ok \in BOOLEAN, NEW bytes,
           op.kind \in Reads => Begins(bytes, op.file) /\
                                (ok => Complete(bytes, op.kind, op.file)),
           Settles(op, ok, bytes)
    PROVE  /\ ClientInv' /\ pc' = "idle"
           /\ result' = [kind |-> op.kind, file |-> op.file, ok |-> ok, bytes |-> bytes]
<1>1. /\ pc' = "idle" /\ op' = NoOp /\ burst' = NoBurst
      /\ result' = [kind |-> op.kind, file |-> op.file, ok |-> ok, bytes |-> bytes]
    BY DEF Settles
<1>2. ClientType'
    <2>1. NoOp \in Operations /\ NoBurst \in Bursts
        BY EmptySeq DEF NoOp, NoBurst, Operations, Bursts
    <2> QED BY <1>1, <2>1 DEF ClientType, Steps
<1>3. OpInv' /\ WriteInv' /\ ReadInv'
    BY <1>1 DEF OpInv, WriteInv, ReadInv
<1>4. ResultInv'
    BY <1>1 DEF ResultInv, ClientInv, OpInv, Complete
<1> QED BY <1>1, <1>2, <1>3, <1>4 DEF ClientInv

\* A step that keeps the operation.
LEMMA ContinuesIs ==
    ASSUME ClientInv, NEW s \in Steps, NEW o \in Operations, Continues(s, o), pc # "idle",
           lostTail' = lostTail
    PROVE  /\ ClientType' /\ ResultInv' /\ pc' = s /\ op' = o /\ burst' = burst /\ result' = result
BY DEF ClientInv, ClientType, ResultInv, Complete, Continues

\* What an answer must be for the operation to be right in believing it.
Genuine(r) ==
  /\ r.code \in Codes \cup {"FAILED"} /\ r.data \in Seq(Chunks)
  /\ pc \in {"opening", "reopening"} /\ r.code = "ACK" => r.req = "OPEN"
  /\ pc = "reading" =>
       /\ r.code = "ACK" => op.off < Length[op.file] /\ r.data = <<Chunk(op.file, op.off)>>
       /\ r.code = "EOF" => op.off >= Length[op.file]

\* What a read may be left with when it goes on, or stops, after a chunk.
Progress(o) ==
  /\ o \in Operations /\ o.kind = op.kind /\ o.file = op.file /\ o.ok
  /\ Begins(o.bytes, o.file) /\ o.off = Len(o.bytes) /\ Sized(o.size, o.file)
  /\ o.kind = "prefix" => o.off <= PrefixLimit

\* An operation goes on to a step.
LEMMA ContinuesClient ==
    ASSUME ClientInv, pc # "idle", lostTail' = lostTail, NEW s \in Steps, NEW o \in Operations,
           Continues(s, o), (OpInv /\ ReadInv /\ WriteInv)'
    PROVE  ClientInv'
BY ContinuesIs DEF ClientInv

\* A read that has all it wants closes, another reads on.
LEMMA ReadOnKeeps ==
    ASSUME ClientInv, pc # "idle", lostTail' = lostTail, op.kind \in Reads \ {"burst"},
           NEW o, Progress(o), ReadOn(o)
    PROVE  /\ ClientInv' /\ pc' \in {"reading", "closing"}
           /\ op'.kind = op.kind /\ op'.file = op.file /\ result' = result
<1> USE DEF Progress
<1>1. /\ o.kind \in Reads \ {"burst"} /\ o.file \in Files /\ Begins(o.bytes, o.file)
      /\ o.off \in Nat /\ o.size \in Nat /\ o.off <= Length[o.file] /\ o.kind \in AllKinds
    BY DEF ClientInv, OpInv, Operations, Begins, AllKinds
<1>2. <<>> \in Seq(Chunks) /\ Begins(<<>>, o.file)
    BY <1>1, BeginsNone, EmptySeq
<1>3. CASE ~HasMore(o) /\ Continues("closing", o)
    <2>1. "closing" \in Steps /\ pc' = "closing" /\ op' = o /\ result' = result
        BY <1>3 DEF Steps, Continues
    <2>2. Len(o.bytes) = Wanted(o.kind, o.file)
        <3>1. Length[o.file] \in Nat /\ PrefixLimit \in Nat /\ Len(o.bytes) = o.off
            BY <1>1, SizesAssumption
        <3>2. CASE o.kind = "prefix"
            BY <1>1, <1>3, <3>1, <3>2 DEF HasMore, Wanted
        <3>3. CASE o.kind # "prefix"
            BY <1>1, <1>3, <3>1, <3>3 DEF HasMore, Wanted, Sized
        <3> QED BY <3>2, <3>3
    <2>3. OpInv'
        BY <1>1, <2>1 DEF OpInv
    <2>4. ReadInv'
        BY <1>1, <2>1, <2>2 DEF ReadInv, Complete
    <2>5. WriteInv'
        BY <2>1 DEF WriteInv
    <2> QED BY <1>3, <2>1, <2>3, <2>4, <2>5, ContinuesClient
<1>4. CASE HasMore(o) /\ Continues("reading", o)
    <2>1. "reading" \in Steps /\ pc' = "reading" /\ op' = o /\ result' = result
        BY <1>4 DEF Steps, Continues
    <2>2. OpInv'
        BY <1>1, <2>1 DEF OpInv
    <2>3. ReadInv'
        BY <1>1, <1>4, <2>1 DEF ReadInv, HasMore
    <2>4. WriteInv'
        BY <2>1 DEF WriteInv
    <2> QED BY <1>4, <2>1, <2>2, <2>3, <2>4, ContinuesClient
<1>5. CASE Continues("closing", [o EXCEPT !.ok = FALSE, !.bytes = <<>>])
    <2> DEFINE q == [o EXCEPT !.ok = FALSE, !.bytes = <<>>]
    <2>1. q \in Operations /\ q.kind = o.kind /\ q.file = o.file /\ ~q.ok /\ q.bytes = <<>>
        BY <1>2 DEF Operations
    <2> HIDE DEF q
    <2>2. "closing" \in Steps /\ pc' = "closing" /\ op' = q /\ result' = result
        BY <1>5 DEF Steps, Continues, q
    <2>3. OpInv'
        BY <1>1, <2>1, <2>2 DEF OpInv
    <2>4. ReadInv'
        BY <1>1, <1>2, <2>1, <2>2 DEF ReadInv, Complete
    <2>5. WriteInv'
        BY <2>2 DEF WriteInv
    <2>6. Continues("closing", q)
        BY <1>5 DEF q
    <2> QED BY <2>1, <2>2, <2>3, <2>4, <2>5, <2>6, ContinuesClient
<1> QED BY <1>3, <1>4, <1>5 DEF ReadOn

\* What the answer to a request makes of the operation.
Moves(r) ==
  /\ ClientInv' /\ pc' # "streaming"
  /\ AtFile' =>
       /\ r.code = "ACK" /\ op'.kind = op.kind /\ op'.file = op.file
       /\ \/ pc \in {"opening", "reopening"} /\ pc' \in {"bursting", "reading"}
          \/ pc \in {"creating", "recreating"} /\ pc' = "writing" /\ op' = op
          \/ pc = "reading" /\ pc' = "reading"
          \/ pc = "writing" /\ op'.off = op.off + 1
  /\ \/ result' = result
     \/ result'.kind = "upload" /\ result'.ok =>
          /\ pc = "committing" /\ op.ok /\ r.code = "ACK"
          /\ result'.file = op.file /\ pc' = "idle"

\* An operation fails, and what it read is thrown away.
LEMMA FailsMoves ==
    ASSUME ClientInv, pc # "idle", lostTail' = lostTail, NEW r, Settles(op, FALSE, <<>>)
    PROVE  Moves(r)
<1>1. op.kind \in Reads => Begins(<<>>, op.file)
    BY BeginsNone DEF ClientInv, OpInv
<1>2. /\ ClientInv' /\ pc' = "idle"
      /\ result' = [kind |-> op.kind, file |-> op.file, ok |-> FALSE, bytes |-> <<>>]
    BY <1>1, SettlesKeeps
<1> QED BY <1>2 DEF Moves, AtFile

\* The operation goes on unchanged to a step of the same kind of request.
LEMMA GoesOnMoves ==
    ASSUME ClientInv, pc # "idle", lostTail' = lostTail, NEW r, NEW s \in Steps,
           Continues(s, op), (OpInv /\ ReadInv /\ WriteInv)',
           s \notin {"streaming", "bursting", "reading", "writing", "committing"}
    PROVE  Moves(r)
<1>1. ClientInv' /\ pc' = s /\ result' = result
    BY ContinuesClient, ContinuesIs DEF ClientInv, ClientType
<1> QED BY <1>1 DEF Moves, AtFile

\* A file that is opened is read, unless it is too large; one without a size is
\* closed and read in another way.
LEMMA AfterOpenMoves ==
    ASSUME ClientInv, SizesDeclared, pc \in {"opening", "reopening"}, lostTail' = lostTail,
           NEW r, r.code = "ACK", AfterOpen([op EXCEPT !.size = Declared[op.file]])
    PROVE  Moves(r)
<1> DEFINE o == [op EXCEPT !.size = Declared[op.file]]
<1>1. /\ op \in Operations /\ op.kind \in Reads /\ op.kind \in AllKinds /\ op.file \in Files
      /\ op.bytes = <<>> /\ op.off = 0 /\ op.ok
    BY DEF ClientInv, ClientType, OpInv
<1>2. /\ o \in Operations /\ o.kind = op.kind /\ o.file = op.file /\ o.bytes = <<>>
      /\ o.off = 0 /\ o.ok /\ o.size = Declared[op.file] /\ o.size \in Nat
    BY <1>1, SizesAssumption DEF Operations
<1>3. Sized(o.size, o.file)
    BY <1>1, <1>2 DEF SizesDeclared, Sized
<1>4. Begins(<<>>, o.file) /\ Len(<<>>) = 0 /\ <<>> \in Seq(Chunks)
    BY <1>1, <1>2, BeginsNone, EmptySeq
<1>5. AfterOpen(o)
    OBVIOUS
<1> HIDE DEF o
<1>6. CASE o.kind = "burst" /\ o.size \in 1..MaxSize /\ Continues("bursting", o)
    <2>1. "bursting" \in Steps /\ pc' = "bursting" /\ op' = o /\ result' = result
        BY <1>6 DEF Steps, Continues
    <2>2. (OpInv /\ ReadInv /\ WriteInv)'
        BY <1>1, <1>2, <1>3, <1>4, <1>6, <2>1 DEF OpInv, ReadInv, WriteInv
    <2>3. ClientInv'
        BY <1>2, <1>6, <2>1, <2>2, ContinuesClient
    <2> QED BY <1>2, <2>1, <2>3 DEF Moves, AtFile
<1>7. CASE o.kind = "burst" /\ Continues("closing", [o EXCEPT !.ok = FALSE])
    <2> DEFINE q == [o EXCEPT !.ok = FALSE]
    <2>1. q \in Operations /\ q.kind = o.kind /\ q.file = o.file /\ ~q.ok /\ q.bytes = <<>>
        BY <1>2 DEF Operations
    <2>2. Continues("closing", q)
        BY <1>7
    <2> HIDE DEF q
    <2>3. "closing" \in Steps /\ pc' = "closing" /\ op' = q /\ result' = result
        BY <2>2 DEF Steps, Continues
    <2>4. (OpInv /\ ReadInv /\ WriteInv)'
        BY <1>1, <1>2, <1>4, <2>1, <2>3 DEF OpInv, ReadInv, WriteInv, Complete
    <2>5. ClientInv'
        BY <2>1, <2>2, <2>3, <2>4, ContinuesClient
    <2> QED BY <2>3, <2>5 DEF Moves, AtFile
<1>8. CASE o.kind = "burst" /\ o.size = 0 /\ Continues("rereading", [o EXCEPT !.kind = "read"])
    <2> DEFINE q == [o EXCEPT !.kind = "read"]
    <2>1. /\ q \in Operations /\ q.kind = "read" /\ q.file = o.file /\ q.ok /\ q.bytes = <<>>
          /\ q.off = 0 /\ "read" \in Reads /\ "read" \in AllKinds
        BY <1>2 DEF Operations, AllKinds, Reads
    <2>2. Continues("rereading", q)
        BY <1>8
    <2> HIDE DEF q
    <2>3. "rereading" \in Steps /\ pc' = "rereading" /\ op' = q /\ result' = result
        BY <2>2 DEF Steps, Continues
    <2>4. (OpInv /\ ReadInv /\ WriteInv)'
        BY <1>1, <1>2, <1>4, <2>1, <2>3 DEF OpInv, ReadInv, WriteInv
    <2>5. ClientInv'
        BY <2>1, <2>2, <2>3, <2>4, ContinuesClient
    <2> QED BY <2>3, <2>5 DEF Moves, AtFile
<1>9. CASE o.kind # "burst" /\ ReadOn(o)
    <2>1. Progress(o)
        BY <1>2, <1>3, <1>4, SizesAssumption DEF Progress
    <2>2. op.kind \in Reads \ {"burst"}
        BY <1>1, <1>2, <1>9
    <2>3. /\ ClientInv' /\ pc' \in {"reading", "closing"}
          /\ op'.kind = op.kind /\ op'.file = op.file /\ result' = result
        BY <1>9, <2>1, <2>2, ReadOnKeeps
    <2> QED BY <2>3 DEF Moves, AtFile
<1> QED BY <1>5, <1>6, <1>7, <1>8, <1>9 DEF AfterOpen

\* The answer to an OPEN.
LEMMA OpeningMoves ==
    ASSUME ClientInv, SizesDeclared, pc \in {"opening", "reopening"}, lostTail' = lostTail,
           NEW r, Genuine(r), AfterOpening(r)
    PROVE  Moves(r)
<1>1. CASE r.code = "ACK" /\ \E n \in DeclaredIn(r) : AfterOpen([op EXCEPT !.size = n])
    <2>1. DeclaredIn(r) = {Declared[op.file]}
        BY <1>1 DEF Genuine, DeclaredIn
    <2>2. AfterOpen([op EXCEPT !.size = Declared[op.file]])
        BY <1>1, <2>1
    <2> QED BY <1>1, <2>2, AfterOpenMoves
<1>2. CASE r.code # "ACK" /\ RetriesOpen(r) /\ Continues("resetting", op)
    <2>1. "resetting" \in Steps /\ pc' = "resetting" /\ op' = op /\ op \in Operations
        BY <1>2 DEF Steps, Continues, ClientInv, ClientType
    <2>2. (OpInv /\ ReadInv /\ WriteInv)'
        BY <2>1 DEF OpInv, ReadInv, WriteInv, ClientInv
    <2> QED BY <1>2, <2>1, <2>2, GoesOnMoves
<1>3. CASE Settles(op, FALSE, <<>>)
    BY <1>3, FailsMoves
<1> QED BY <1>1, <1>2, <1>3 DEF AfterOpening

\* The answer to a READ.
LEMMA ReadingMoves ==
    ASSUME ClientInv, pc = "reading", lostTail' = lostTail, NEW r, Genuine(r), AfterReading(r)
    PROVE  Moves(r)
<1>1. /\ op \in Operations /\ op.kind \in Reads \ {"burst"} /\ op.kind \in AllKinds
      /\ op.file \in Files /\ op.ok /\ op.off = Len(op.bytes) /\ HasMore(op)
      /\ Begins(op.bytes, op.file) /\ Sized(op.size, op.file) /\ op.off \in Nat
      /\ Length[op.file] \in Nat /\ PrefixLimit \in Nat
    BY SizesAssumption DEF ClientInv, ClientType, OpInv, ReadInv, Operations
<1>2. Begins(<<>>, op.file) /\ <<>> \in Seq(Chunks) /\ "closing" \in Steps
    BY <1>1, BeginsNone, EmptySeq DEF Steps
<1>3. CASE r.code = "ACK" /\ r.data # <<>> /\ ReadOn([op EXCEPT !.bytes = @ \o r.data, !.off = @ + 1])
    <2> DEFINE o == [op EXCEPT !.bytes = @ \o r.data, !.off = @ + 1]
    <2>1. op.off < Length[op.file] /\ r.data = <<Chunk(op.file, op.off)>>
        BY <1>3 DEF Genuine
    <2>2. Begins(op.bytes \o r.data, op.file) /\ Len(op.bytes \o r.data) = op.off + 1
        BY <1>1, <2>1, BeginsMore
    <2>3. /\ o \in Operations /\ o.kind = op.kind /\ o.file = op.file /\ o.ok /\ o.size = op.size
          /\ o.bytes = op.bytes \o r.data /\ o.off = op.off + 1
        <3>1. op.bytes \o r.data \in Seq(Chunks)
            BY <2>2 DEF Begins
        <3> QED BY <1>1, <3>1, OpMore
    <2>4. ReadOn(o)
        BY <1>3
    <2> HIDE DEF o
    <2>5. o.kind = "prefix" => o.off <= PrefixLimit
        BY <1>1, <2>3 DEF HasMore
    <2>6. Progress(o)
        BY <1>1, <2>2, <2>3, <2>5 DEF Progress
    <2>7. /\ ClientInv' /\ pc' \in {"reading", "closing"}
          /\ op'.kind = op.kind /\ op'.file = op.file /\ result' = result
        BY <1>1, <2>4, <2>6, ReadOnKeeps
    <2> QED BY <1>3, <2>7 DEF Moves, AtFile
<1>4. CASE EndsLoop(r) /\ Continues("closing", op)
    <2>1. <<>> # <<Chunk(op.file, op.off)>>
        OBVIOUS
    <2>2. op.off >= Length[op.file]
        BY <1>4, <2>1 DEF EndsLoop, Genuine
    <2>3. Len(op.bytes) = Wanted(op.kind, op.file)
        BY <1>1, <2>2 DEF Begins, HasMore, Wanted
    <2>4. pc' = "closing" /\ op' = op
        BY <1>4 DEF Continues
    <2>5. (OpInv /\ ReadInv /\ WriteInv)'
        BY <1>1, <2>3, <2>4 DEF OpInv, ReadInv, WriteInv, Complete
    <2> QED BY <1>2, <1>4, <2>5, GoesOnMoves
<1>5. CASE Continues("closing", [op EXCEPT !.ok = FALSE, !.bytes = <<>>])
    <2> DEFINE q == [op EXCEPT !.ok = FALSE, !.bytes = <<>>]
    <2>1. q \in Operations /\ q.kind = op.kind /\ q.file = op.file /\ ~q.ok /\ q.bytes = <<>>
        BY <1>1, <1>2 DEF Operations
    <2>2. Continues("closing", q)
        BY <1>5
    <2> HIDE DEF q
    <2>3. pc' = "closing" /\ op' = q /\ result' = result
        BY <2>2 DEF Continues
    <2>4. (OpInv /\ ReadInv /\ WriteInv)'
        BY <1>1, <1>2, <2>1, <2>3 DEF OpInv, ReadInv, WriteInv, Complete
    <2>5. ClientInv'
        BY <1>2, <2>1, <2>2, <2>4, ContinuesClient
    <2> QED BY <2>3, <2>5 DEF Moves, AtFile
<1> QED BY <1>3, <1>4, <1>5 DEF AfterReading

\* The answer to a CREATE.
LEMMA CreatingMoves ==
    ASSUME ClientInv, pc \in {"creating", "recreating"}, lostTail' = lostTail, NEW r, Genuine(r),
           AfterCreating(r)
    PROVE  Moves(r)
<1>1. /\ op \in Operations /\ op.kind = "upload" /\ op.file \in Files /\ op.off = 0 /\ op.ok
      /\ op.bytes = <<>>
    BY DEF ClientInv, ClientType, OpInv
<1>2. "upload" \notin Reads /\ "upload" \in AllKinds /\ {"writing", "deleting"} \subseteq Steps
    BY DEF Reads, AllKinds, Steps
<1>3. CASE r.code = "ACK" /\ Continues("writing", op)
    <2>1. pc' = "writing" /\ op' = op /\ result' = result
        BY <1>3 DEF Continues
    <2>2. (OpInv /\ ReadInv /\ WriteInv)'
        BY <1>1, <1>2, <2>1, BurstAssumption DEF OpInv, ReadInv, WriteInv
    <2>3. ClientInv'
        BY <1>1, <1>2, <1>3, <2>2, ContinuesClient
    <2> QED BY <1>3, <2>1, <2>3 DEF Moves
<1>4. CASE Continues("deleting", op)
    <2>1. pc' = "deleting" /\ op' = op
        BY <1>4 DEF Continues
    <2>2. (OpInv /\ ReadInv /\ WriteInv)'
        BY <1>1, <1>2, <2>1 DEF OpInv, ReadInv, WriteInv
    <2> QED BY <1>2, <1>4, <2>2, GoesOnMoves
<1>5. CASE Settles(op, FALSE, <<>>)
    BY <1>5, FailsMoves
<1> QED BY <1>3, <1>4, <1>5 DEF AfterCreating

\* The answer to a REMOVE.
LEMMA DeletingMoves ==
    ASSUME ClientInv, pc = "deleting", lostTail' = lostTail, NEW r, AfterDeleting(r)
    PROVE  Moves(r)
<1>1. /\ op \in Operations /\ op.kind \in {"upload", "delete"} /\ op.file \in Files
      /\ op.bytes = <<>> /\ op.off = 0 /\ op.ok
    BY DEF ClientInv, ClientType, OpInv
<1>2. /\ "upload" \notin Reads /\ "delete" \notin Reads /\ "upload" \in AllKinds
      /\ "recreating" \in Steps
    BY DEF Reads, AllKinds, Steps
<1>3. CASE op.kind = "upload" /\ Continues("recreating", op)
    <2>1. pc' = "recreating" /\ op' = op
        BY <1>3 DEF Continues
    <2>2. (OpInv /\ ReadInv /\ WriteInv)'
        BY <1>1, <1>2, <1>3, <2>1 DEF OpInv, ReadInv, WriteInv
    <2> QED BY <1>2, <1>3, <2>2, GoesOnMoves
<1>4. CASE op.kind = "delete" /\ Settles(op, TRUE, <<>>)
    <2>1. /\ ClientInv' /\ pc' = "idle"
          /\ result' = [kind |-> op.kind, file |-> op.file, ok |-> TRUE, bytes |-> <<>>]
        BY <1>2, <1>4, SettlesKeeps
    <2> QED BY <1>4, <2>1 DEF Moves, AtFile
<1>5. CASE Settles(op, FALSE, <<>>)
    BY <1>5, FailsMoves
<1> QED BY <1>3, <1>4, <1>5 DEF AfterDeleting

\* The answer to a WRITE.
LEMMA WritingMoves ==
    ASSUME ClientInv, pc = "writing", lostTail' = lostTail, NEW r, AfterWriting(r)
    PROVE  Moves(r)
<1>1. /\ op \in Operations /\ op.kind = "upload" /\ op.file \in Files /\ op.off \in Nat /\ op.ok
      /\ op.off < UploadLength
    BY DEF ClientInv, ClientType, OpInv, WriteInv, Operations
<1>2. "upload" \notin Reads /\ "upload" \in AllKinds /\ {"writing", "committing"} \subseteq Steps
    BY DEF Reads, AllKinds, Steps
<1>3. CASE /\ r.code = "ACK"
           /\ Continues(IF op.off + 1 < UploadLength THEN "writing" ELSE "committing",
                        [op EXCEPT !.off = @ + 1])
    <2> DEFINE q == [op EXCEPT !.off = @ + 1]
               s == IF op.off + 1 < UploadLength THEN "writing" ELSE "committing"
    <2>1. q \in Operations /\ q.kind = op.kind /\ q.file = op.file /\ q.ok /\ q.off = op.off + 1
        BY <1>1 DEF Operations
    <2>2. Continues(s, q) /\ s \in {"writing", "committing"}
        BY <1>3
    <2>3. /\ s = "writing" => op.off + 1 < UploadLength
          /\ s = "committing" => op.off + 1 = UploadLength
        BY <1>1, BurstAssumption
    <2> HIDE DEF q, s
    <2>4. pc' = s /\ op' = q /\ result' = result
        BY <2>2 DEF Continues
    <2>5. (OpInv /\ ReadInv /\ WriteInv)'
        BY <1>1, <1>2, <2>1, <2>2, <2>3, <2>4 DEF OpInv, ReadInv, WriteInv
    <2>6. ClientInv'
        BY <1>2, <2>1, <2>2, <2>5, ContinuesClient
    <2> QED BY <1>3, <2>1, <2>2, <2>4, <2>6 DEF Moves
<1>4. CASE Continues("committing", [op EXCEPT !.ok = FALSE])
    <2> DEFINE q == [op EXCEPT !.ok = FALSE]
    <2>1. q \in Operations /\ q.kind = op.kind /\ q.file = op.file /\ ~q.ok
        BY <1>1 DEF Operations
    <2>2. Continues("committing", q)
        BY <1>4
    <2> HIDE DEF q
    <2>3. pc' = "committing" /\ op' = q /\ result' = result
        BY <2>2 DEF Continues
    <2>4. (OpInv /\ ReadInv /\ WriteInv)'
        BY <1>1, <1>2, <2>1, <2>3 DEF OpInv, ReadInv, WriteInv
    <2>5. ClientInv'
        BY <1>2, <2>1, <2>2, <2>4, ContinuesClient
    <2> QED BY <2>1, <2>3, <2>5 DEF Moves, AtFile
<1> QED BY <1>3, <1>4 DEF AfterWriting

\* The answer to a LIST.
LEMMA ListingMoves ==
    ASSUME ClientInv, pc = "listing", lostTail' = lostTail, NEW r, Genuine(r), AfterListing(r)
    PROVE  Moves(r)
<1>1. op \in Operations /\ op.kind = "list" /\ op.file \in Files /\ op.bytes \in Seq(Chunks)
    BY DEF ClientInv, ClientType, OpInv, Operations
<1>2. "list" \notin Reads /\ "list" \in AllKinds /\ "listing" \in Steps
    BY DEF Reads, AllKinds, Steps
<1>3. CASE Continues("listing", [op EXCEPT !.bytes = @ \o r.data, !.off = @ + 1])
    <2> DEFINE q == [op EXCEPT !.bytes = @ \o r.data, !.off = @ + 1]
    <2>1. op.bytes \o r.data \in Seq(Chunks)
        BY <1>1, ConcatProperties DEF Genuine
    <2>2. q \in Operations /\ q.kind = op.kind /\ q.file = op.file
        BY <1>1, <2>1, OpMore
    <2>3. Continues("listing", q)
        BY <1>3
    <2> HIDE DEF q
    <2>4. pc' = "listing" /\ op' = q /\ result' = result
        BY <2>3 DEF Continues
    <2>5. (OpInv /\ ReadInv /\ WriteInv)'
        BY <1>1, <1>2, <2>2, <2>4 DEF OpInv, ReadInv, WriteInv
    <2>6. ClientInv'
        BY <1>2, <2>2, <2>3, <2>5, ContinuesClient
    <2> QED BY <2>4, <2>6 DEF Moves, AtFile
<1>4. CASE Settles(op, TRUE, op.bytes)
    <2>1. /\ ClientInv' /\ pc' = "idle"
          /\ result' = [kind |-> op.kind, file |-> op.file, ok |-> TRUE, bytes |-> op.bytes]
        BY <1>1, <1>2, <1>4, SettlesKeeps
    <2> QED BY <1>1, <2>1 DEF Moves, AtFile
<1>5. CASE Settles(op, FALSE, <<>>)
    BY <1>5, FailsMoves
<1> QED BY <1>3, <1>4, <1>5 DEF AfterListing

\* The answer to any request, or none.
LEMMA AfterMoves ==
    ASSUME ClientInv, SizesDeclared, pc # "idle", lostTail' = lostTail, NEW r, Genuine(r), After(r)
    PROVE  Moves(r)
<1>1. /\ op \in Operations /\ op.kind \in AllKinds /\ op.file \in Files /\ op.ok \in BOOLEAN
      /\ op.kind \in Reads => Begins(op.bytes, op.file)
    BY DEF ClientInv, ClientType, OpInv, ReadInv, Operations
<1>2. CASE pc = "clearing" /\ Continues(FirstRequest(op.kind), op)
    <2>1. op.kind \in SessionKinds /\ op.bytes = <<>> /\ op.off = 0 /\ op.ok
        BY <1>2 DEF ClientInv, OpInv
    <2>2. /\ FirstRequest(op.kind) \in {"opening", "creating"}
          /\ FirstRequest(op.kind) = "opening" => op.kind \in Reads
          /\ FirstRequest(op.kind) = "creating" => op.kind = "upload"
        BY <2>1 DEF FirstRequest, SessionKinds, Reads
    <2>3. pc' = FirstRequest(op.kind) /\ op' = op
        BY <1>2 DEF Continues
    <2>4. (OpInv /\ ReadInv /\ WriteInv)'
        BY <1>1, <2>1, <2>2, <2>3 DEF OpInv, ReadInv, WriteInv
    <2>5. FirstRequest(op.kind) \in Steps
        BY <2>2 DEF Steps
    <2> QED BY <1>2, <2>2, <2>4, <2>5, GoesOnMoves
<1>3. CASE pc = "resetting" /\ Continues("reopening", op)
    <2>1. pc' = "reopening" /\ op' = op /\ "reopening" \in Steps
        BY <1>3 DEF Continues, Steps
    <2>2. (OpInv /\ ReadInv /\ WriteInv)'
        BY <1>1, <1>3, <2>1 DEF OpInv, ReadInv, WriteInv, ClientInv
    <2> QED BY <1>3, <2>1, <2>2, GoesOnMoves
<1>4. CASE pc = "rereading" /\ Continues("opening", op)
    <2>1. pc' = "opening" /\ op' = op /\ "opening" \in Steps
        BY <1>4 DEF Continues, Steps
    <2>2. (OpInv /\ ReadInv /\ WriteInv)'
        BY <1>1, <1>4, <2>1 DEF OpInv, ReadInv, WriteInv, ClientInv
    <2> QED BY <1>4, <2>1, <2>2, GoesOnMoves
<1>5. CASE pc = "closing" /\ Settles(op, op.ok, op.bytes)
    <2>1. op.kind \in Reads /\ (op.ok => Complete(op.bytes, op.kind, op.file))
        BY <1>5 DEF ClientInv, OpInv, ReadInv
    <2>2. /\ ClientInv' /\ pc' = "idle"
          /\ result' = [kind |-> op.kind, file |-> op.file, ok |-> op.ok, bytes |-> op.bytes]
        BY <1>1, <1>5, <2>1, SettlesKeeps
    <2> QED BY <2>1, <2>2 DEF Moves, AtFile, Reads
<1>6. CASE pc = "committing" /\ Settles(op, Committed(r), <<>>)
    <2>1. op.kind = "upload" /\ "upload" \notin Reads
        BY <1>6 DEF ClientInv, OpInv, Reads
    <2>2. Committed(r) \in BOOLEAN /\ (Committed(r) => op.ok /\ r.code = "ACK")
        BY <1>1 DEF Committed
    <2>3. /\ ClientInv' /\ pc' = "idle"
          /\ result' = [kind |-> op.kind, file |-> op.file, ok |-> Committed(r), bytes |-> <<>>]
        BY <1>6, <2>1, <2>2, SettlesKeeps
    <2> QED BY <1>6, <2>2, <2>3 DEF Moves, AtFile
<1> QED BY <1>2, <1>3, <1>4, <1>5, <1>6, OpeningMoves, ReadingMoves, CreatingMoves, DeletingMoves,
           WritingMoves, ListingMoves DEF After

\* Without an answer the operation is at no file any more.
LEMMA FailedIs == Failed.code = "FAILED" /\ Failed.data = <<>>
BY DEF Failed, Reply

\* A request that fails.
LEMMA FailedMoves ==
    ASSUME ClientInv, SizesDeclared, pc # "idle", lostTail' = lostTail, After(Failed)
    PROVE  /\ ClientInv' /\ pc' # "streaming" /\ ~AtFile'
           /\ result' = result \/ ~(result'.kind = "upload" /\ result'.ok)
<1>1. Genuine(Failed)
    BY FailedIs, EmptySeq DEF Genuine, Codes
<1>2. Moves(Failed)
    BY <1>1, AfterMoves
<1> QED BY <1>2, FailedIs DEF Moves

-----------------------------------------------------------------------------
(* The burst. *)

\* The fields of the burst.
LEMMA BurstFields ==
    ASSUME NEW b \in Bursts
    PROVE  /\ b.received \in Nat /\ b.high \in Nat /\ b.retries \in Nat
           /\ b.buf \in Seq(Chunks \cup {Blank})
BY DEF Bursts

\* What a burst holds up to a frontier is the beginning of the file.
Holds(b) ==
  /\ b \in Bursts /\ b.received <= b.high /\ b.high <= Length[op.file] /\ Len(b.buf) = op.size
  /\ \A i \in 1..b.received : b.buf[i] = Chunk(op.file, i - 1)

\* The salvaged part of a burst.
LEMMA PrefixIs ==
    ASSUME NEW b, Holds(b), op.file \in Files
    PROVE  Begins(Prefix(b), op.file) /\ Len(Prefix(b)) = b.received
<1>1. b.received \in Nat /\ b.high \in Nat /\ Length[op.file] \in Nat
    BY BurstFields, SizesAssumption DEF Holds
<1>2. \A i \in 1..b.received : b.buf[i] \in Chunks /\ b.buf[i] = Chunk(op.file, i - 1)
    <2> SUFFICES ASSUME NEW i \in 1..b.received
                 PROVE  b.buf[i] \in Chunks /\ b.buf[i] = Chunk(op.file, i - 1)
        OBVIOUS
    <2>1. b.buf[i] = Chunk(op.file, i - 1)
        BY DEF Holds
    <2>2. i - 1 \in Nat
        BY <1>1
    <2> QED BY <2>1, <2>2 DEF Chunk, Chunks
<1>3. /\ Prefix(b) \in Seq(Chunks)
      /\ Len(Prefix(b)) = IF 1 <= b.received THEN b.received - 1 + 1 ELSE 0
      /\ \A i \in 1..(b.received - 1 + 1) : Prefix(b)[i] = b.buf[1 + i - 1]
    BY <1>1, <1>2, SubSeqProperties DEF Prefix
<1>4. Len(Prefix(b)) = b.received /\ \A i \in 1..b.received : Prefix(b)[i] = b.buf[i]
    BY <1>1, <1>3
<1>5. b.received <= Length[op.file]
    BY <1>1 DEF Holds
<1>6. \A i \in 1..Len(Prefix(b)) : Prefix(b)[i] = Chunk(op.file, i - 1)
    BY <1>2, <1>4
<1> QED BY <1>3, <1>4, <1>5, <1>6 DEF Begins

\* A burst that ends hands over what it holds.
LEMMA EndsBurstKeeps ==
    ASSUME ClientInv, pc \in {"bursting", "streaming"}, lostTail' = lostTail, NEW b,
           NEW ok \in BOOLEAN, Holds(b), EndsBurst(b, ok),
           ok => b.received = Length[op.file] \/ lostTail
    PROVE  /\ ClientInv' /\ pc' = "closing" /\ op'.kind = op.kind /\ op'.file = op.file
           /\ result' = result
<1>1. /\ op \in Operations /\ op.kind \in Reads /\ op.kind \in AllKinds /\ op.file \in Files
      /\ op.kind = "burst"
    BY DEF ClientInv, ClientType, OpInv
<1>2. Begins(Prefix(b), op.file) /\ Len(Prefix(b)) = b.received
    BY <1>1, PrefixIs
<1>3. Prefix(b) \in Seq(Chunks)
    BY <1>2 DEF Begins
<1> DEFINE q == [op EXCEPT !.ok = ok, !.bytes = Prefix(b)]
<1>4. /\ q \in Operations /\ q.kind = op.kind /\ q.file = op.file /\ q.ok = ok
      /\ q.bytes = Prefix(b)
    BY <1>1, <1>3 DEF Operations
<1>5. pc' = "closing" /\ op' = q /\ burst' = NoBurst /\ result' = result
    BY DEF EndsBurst
<1> HIDE DEF q
<1>6. ok => Complete(Prefix(b), op.kind, op.file)
    BY <1>1, <1>2, WantedIs DEF Complete
<1>7. ClientType'
    <2>1. NoBurst \in Bursts
        BY EmptySeq DEF NoBurst, Bursts
    <2> QED BY <1>4, <1>5, <2>1 DEF ClientType, Steps
<1>8. OpInv' /\ WriteInv'
    BY <1>1, <1>4, <1>5 DEF OpInv, WriteInv
<1>9. ReadInv'
    BY <1>1, <1>2, <1>4, <1>5, <1>6 DEF ReadInv, Complete
<1>10. ResultInv'
    BY <1>5 DEF ClientInv, ResultInv, Complete
<1> QED BY <1>4, <1>5, <1>7, <1>8, <1>9, <1>10 DEF ClientInv

\* A burst that goes on.
LEMMA StreamsOnKeeps ==
    ASSUME ClientInv, pc \in {"bursting", "streaming"}, lostTail' = lostTail, NEW b \in Bursts,
           StreamsOn(b)
    PROVE  /\ ClientInv' /\ pc' = "streaming" /\ op' = op /\ burst' = b /\ result' = result
<1>1. pc' = "streaming" /\ op' = op /\ burst' = b /\ result' = result
    BY DEF StreamsOn
<1>2. ClientType' /\ OpInv'
    BY <1>1 DEF ClientInv, ClientType, OpInv, Steps
<1>3. ReadInv' /\ WriteInv' /\ ResultInv'
    BY <1>1 DEF ClientInv, ReadInv, WriteInv, ResultInv, Complete
<1> QED BY <1>1, <1>2, <1>3 DEF ClientInv

\* The buffer of a burst that begins.
LEMMA BufferIs ==
    ASSUME NEW n \in Nat
    PROVE  /\ [i \in 1..n |-> Blank] \in Seq(Chunks \cup {Blank})
           /\ Len([i \in 1..n |-> Blank]) = n
<1> DEFINE s == [i \in 1..n |-> Blank]
           S == Chunks \cup {Blank}
<1>1. s \in [1..n -> S]
    OBVIOUS
<1>2. s \in Seq(S)
    BY <1>1, SeqDef
<1>3. DOMAIN s = 1..n /\ DOMAIN s = 1..Len(s) /\ Len(s) \in Nat
    BY <1>2, LenProperties
<1> QED BY <1>2, <1>3

\* A packet lands at its own offset and moves the frontier over what is contiguous.
LEMMA LandedHolds ==
    ASSUME NEW m, Holds(burst), op.file \in Files, op.size \in Nat, Sized(op.size, op.file),
           op.size > 0, m.off \in Nat, m.off < Length[op.file], m.data = <<Chunk(op.file, m.off)>>
    PROVE  /\ Holds(Landed(m)) /\ Landed(m).high >= burst.high /\ Landed(m).high >= m.off + 1
           /\ Landed(m).received >= burst.received
           /\ Landed(m).received = burst.received \/ Landed(m).received = m.off + 1
<1>1. /\ burst \in Bursts /\ burst.received \in Nat /\ burst.high \in Nat /\ burst.retries \in Nat
      /\ burst.buf \in Seq(Chunks \cup {Blank}) /\ Length[op.file] \in Nat
      /\ m.off < op.size /\ Len(burst.buf) = op.size /\ burst.received <= burst.high
      /\ Length[op.file] <= op.size
      /\ burst.high <= Length[op.file]
      /\ \A i \in 1..burst.received : burst.buf[i] = Chunk(op.file, i - 1)
    BY BurstFields, SizesAssumption DEF Holds, Sized
<1> DEFINE f == Frontier(m)
           h == Larger(burst.high, m.off + 1)
           t == [burst.buf EXCEPT ![m.off + 1] = m.data[1]]
           b == [received |-> f, high |-> h,
                 retries |-> IF f > burst.received THEN 0 ELSE burst.retries, buf |-> t]
<1>2. Landed(m) = b
    BY <1>1 DEF Landed
<1>3. /\ f \in Nat /\ f >= burst.received /\ f <= h
      /\ (f = burst.received \/ f = m.off + 1)
      /\ f = m.off + 1 => m.off <= burst.received
    BY <1>1 DEF Frontier, Larger
<1>4. h \in Nat /\ h >= burst.high /\ h >= m.off + 1 /\ h <= Length[op.file]
    BY <1>1 DEF Larger
<1>5. m.data[1] = Chunk(op.file, m.off) /\ Chunk(op.file, m.off) \in Chunks \cup {Blank}
    BY DEF Chunk, Chunks
<1>6. /\ t \in Seq(Chunks \cup {Blank}) /\ Len(t) = op.size
      /\ \A j \in 1..op.size : t[j] = IF j = m.off + 1 THEN Chunk(op.file, m.off) ELSE burst.buf[j]
    <2> DEFINE S == Chunks \cup {Blank}
    <2>1. burst.buf \in Seq(S) /\ m.data[1] \in S /\ m.off + 1 \in 1..Len(burst.buf)
        BY <1>1, <1>5
    <2>2. /\ t \in Seq(S) /\ Len(t) = Len(burst.buf)
          /\ \A j \in 1..Len(burst.buf) : t[j] = IF j = m.off + 1 THEN m.data[1] ELSE burst.buf[j]
        BY <2>1, ExceptSeq
    <2> QED BY <1>1, <1>5, <2>2
<1> HIDE DEF f, h, t
<1>7. \A i \in 1..f : t[i] = Chunk(op.file, i - 1)
    <2> SUFFICES ASSUME NEW i \in 1..f PROVE t[i] = Chunk(op.file, i - 1)
        OBVIOUS
    <2>1. i \in 1..op.size
        <3>1. f <= op.size
            BY <1>1, <1>3
        <3> QED BY <1>1, <1>3, <3>1
    <2>2. CASE i = m.off + 1
        BY <1>1, <1>6, <2>1, <2>2
    <2>3. CASE i # m.off + 1
        BY <1>1, <1>3, <1>6, <2>1, <2>3
    <2> QED BY <2>2, <2>3
<1>8. b \in Bursts
    BY <1>1, <1>3, <1>4, <1>6 DEF Bursts
<1>9. b.received = f /\ b.high = h /\ b.buf = t
    OBVIOUS
<1> HIDE DEF b
<1>10. Holds(b)
    BY <1>3, <1>4, <1>6, <1>7, <1>8, <1>9 DEF Holds
<1> QED BY <1>2, <1>3, <1>4, <1>9, <1>10

-----------------------------------------------------------------------------
(* The steps. *)

\* The fields of the server.
LEMMA ServerFields ==
    ASSUME LinkType
    PROVE  /\ server.fd.mode \in {"none", "r", "w"} /\ server.fd.got \in SUBSET Nat
           /\ server.fd.file \in Files \cup {"none"} /\ server.seq \in Nums
           /\ server.stream \in Streams /\ server.last \in Replies /\ server.fd \in Handles
BY DEF LinkType, Servers, Handles

\* Outside of a burst the invariant of the burst says nothing.
LEMMA NotStreaming == pc' # "streaming" => BurstInv'
BY DEF BurstInv, Streaming, Frontiers, TailInv

\* A step to where nothing is waited for and no file is at hand.
LEMMA PlainStep ==
    ASSUME ClientInv', LinkType', Stored', Trailing', wait' = NoWait, ~AtFile', pc' # "streaming"
    PROVE  FtpInv'
BY NotStreaming DEF FtpInv, Waits, LinkInv, Ready, Exchange, Opening

\* The link leaves what trails behind a burst alone.
LEMMA TrailingKeeps ==
    ASSUME Trailing, to' = <<>> \/ (to' = to /\ pc # "streaming"),
           server'.stream = NoStream \/ (UNCHANGED server /\ pc # "streaming")
    PROVE  Trailing'
<1>1. (\A i \in 1..Len(to) : to[i].req # "BURST")' \/ (to' = to /\ pc # "streaming")
    <2>1. CASE to' = <<>>
        <3>1. 1..Len(to') = {}
            BY <2>1
        <3> QED BY <3>1
    <2> QED BY <2>1
<1>2. CASE server'.stream = NoStream
    BY <1>1, <1>2 DEF Trailing
<1>3. CASE UNCHANGED server /\ pc # "streaming"
    BY <1>1, <1>3 DEF Trailing
<1> QED BY <1>2, <1>3

\* A public operation is called.
LEMMA StartKeeps ==
    ASSUME FtpInv, NEW k \in Kinds, NEW f \in Files, Start(k, f)
    PROVE  FtpInv'
<1>1. /\ pc = "idle" /\ op' = [NoOp EXCEPT !.kind = k, !.file = f]
      /\ pc' = IF k \in SessionKinds /\ ~cleared THEN "clearing" ELSE FirstRequest(k)
      /\ lostTail' = FALSE
      /\ result' = [kind |-> "none", file |-> "none", ok |-> FALSE, bytes |-> <<>>]
      /\ UNCHANGED <<burst, wait, seq, to, from, server, disk>>
    BY DEF Start, vehicle
<1>2. k \in AllKinds /\ op' \in Operations /\ op'.kind = k /\ op'.file = f
      /\ op'.bytes = <<>> /\ op'.off = 0 /\ op'.ok
    BY <1>1, KindsAre, FreshOp DEF NoOp
<1>3. /\ k \in Reads => FirstRequest(k) = "opening"
      /\ k = "upload" => FirstRequest(k) = "creating"
      /\ k = "list" => FirstRequest(k) = "listing"
      /\ k = "delete" => FirstRequest(k) = "deleting"
    BY DEF FirstRequest, Reads
<1>4. /\ pc' \in {"clearing", "opening", "creating", "listing", "deleting"}
      /\ pc' = "clearing" => k \in SessionKinds
      /\ pc' = "opening" => k \in Reads
      /\ pc' = "creating" => k = "upload"
      /\ pc' = "listing" => k = "list"
      /\ pc' = "deleting" => k = "delete"
    BY <1>1, <1>2, <1>3 DEF AllKinds, Reads
<1>5. ClientInv'
    <2>1. ClientType'
        BY <1>1, <1>2, <1>4 DEF ClientType, Steps, FtpInv, ClientInv
    <2>2. OpInv' /\ WriteInv'
        BY <1>2, <1>4 DEF OpInv, WriteInv
    <2>3. ReadInv' /\ ResultInv'
        BY <1>1, <1>2, <1>4, BeginsNone DEF ReadInv, ResultInv, Reads
    <2> QED BY <2>1, <2>2, <2>3 DEF ClientInv
<1>6. LinkType'
    BY <1>1 DEF FtpInv, LinkType
<1>7. wait' = NoWait
    BY <1>1 DEF FtpInv, Waits, AwaitsReply
<1>8. Stored' /\ ~AtFile'
    BY <1>1, <1>4 DEF Stored, AtFile
<1>9. Trailing'
    BY <1>1, TrailingKeeps DEF FtpInv, LinkInv
<1> QED BY <1>4, <1>5, <1>6, <1>7, <1>8, <1>9, PlainStep

\* The timeout of a request: nothing is believed.
LEMMA RequestTimeoutKeeps ==
    ASSUME FtpInv, SizesDeclared, RequestTimeout
    PROVE  FtpInv'
<1>1. /\ wait # NoWait /\ wait' = NoWait /\ After(Failed) /\ lostTail' = lostTail
      /\ UNCHANGED <<seq, to, from, server, disk>>
    BY DEF RequestTimeout, vehicle
<1>2. pc # "idle" /\ pc # "streaming"
    BY <1>1 DEF FtpInv, Waits, AwaitsReply
<1>3. /\ ClientInv' /\ pc' # "streaming" /\ ~AtFile'
      /\ result' = result \/ ~(result'.kind = "upload" /\ result'.ok)
    BY <1>1, <1>2, FailedMoves DEF FtpInv
<1>4. LinkType'
    BY <1>1 DEF FtpInv, LinkType
<1>5. Stored'
    BY <1>2, <1>3 DEF FtpInv, Stored
<1>6. Trailing'
    BY <1>1, <1>2, TrailingKeeps DEF FtpInv, LinkInv
<1> QED BY <1>1, <1>3, <1>4, <1>5, <1>6, PlainStep

\* send() finds no vehicle.
LEMMA NoVehicleKeeps ==
    ASSUME FtpInv, SizesDeclared, NoVehicle
    PROVE  FtpInv'
<1>1. /\ wait' = NoWait /\ After(Failed) /\ lostTail' = lostTail
      /\ UNCHANGED <<seq, to, from, server, disk>> /\ AwaitsReply
    BY DEF NoVehicle, vehicle
<1>2. pc # "idle" /\ pc # "streaming"
    BY <1>1 DEF AwaitsReply
<1>3. /\ ClientInv' /\ pc' # "streaming" /\ ~AtFile'
      /\ result' = result \/ ~(result'.kind = "upload" /\ result'.ok)
    BY <1>1, <1>2, FailedMoves DEF FtpInv
<1>4. LinkType'
    BY <1>1 DEF FtpInv, LinkType
<1>5. Stored'
    BY <1>2, <1>3 DEF FtpInv, Stored
<1>6. Trailing'
    BY <1>1, <1>2, TrailingKeeps DEF FtpInv, LinkInv
<1> QED BY <1>1, <1>3, <1>4, <1>5, <1>6, PlainStep

\* The vehicle is back: nothing that counts here has changed.
LEMMA ReconnectKeeps ==
    ASSUME FtpInv, Reconnect
    PROVE  FtpInv'
<1>1. /\ pc = "idle"
      /\ UNCHANGED <<pc, op, burst, wait, seq, to, from, server, disk, result, lostTail>>
    BY DEF Reconnect, client, vehicle
<1>2. ClientInv'
    BY <1>1 DEF FtpInv, ClientInv, ClientType, OpInv, ReadInv, WriteInv, ResultInv, Complete
<1>3. LinkType'
    BY <1>1 DEF FtpInv, LinkType
<1>4. Stored' /\ ~AtFile' /\ pc' # "streaming"
    BY <1>1 DEF FtpInv, Stored, AtFile
<1>5. wait' = NoWait
    BY <1>1 DEF FtpInv, Waits, AwaitsReply
<1>6. Trailing'
    BY <1>1, TrailingKeeps DEF FtpInv, LinkInv
<1> QED BY <1>2, <1>3, <1>4, <1>5, <1>6, PlainStep

\* What holds while the packets of a burst come.
LEMMA StreamingFacts ==
    ASSUME FtpInv, pc = "streaming"
    PROVE  /\ op.kind = "burst" /\ op.file \in Files /\ op.size \in Nat /\ op.size > 0
           /\ Sized(op.size, op.file) /\ Length[op.file] \in Nat /\ wait = NoWait
           /\ Holds(burst) /\ burst.received < op.size /\ burst.received \in Nat
           /\ burst.high \in Nat /\ burst \in Bursts
           /\ ~(result.kind = "upload" /\ result.ok)
<1>1. op.kind = "burst" /\ op.file \in Files /\ op.size > 0 /\ op.size \in Nat /\ burst \in Bursts
    BY DEF FtpInv, ClientInv, ClientType, OpInv, Operations
<1>2. Sized(op.size, op.file)
    BY DEF FtpInv, ClientInv, ReadInv
<1>3. wait = NoWait
    BY DEF FtpInv, Waits, AwaitsReply
<1>4. Holds(burst) /\ burst.received < op.size
    BY <1>1 DEF FtpInv, BurstInv, Frontiers, Holds
<1>5. ~(result.kind = "upload" /\ result.ok)
    BY DEF FtpInv, Stored
<1> QED BY <1>1, <1>2, <1>3, <1>4, <1>5, BurstFields, SizesAssumption

\* A burst that ended is closed.
LEMMA EndedStep ==
    ASSUME FtpInv, ClientInv', LinkType', Trailing', wait' = NoWait, pc' = "closing",
           pc # "idle", result' = result
    PROVE  FtpInv'
<1>1. Stored' /\ ~AtFile'
    BY DEF FtpInv, Stored, AtFile
<1> QED BY <1>1, PlainStep

\* The client asks for packets from its frontier, and no packet is under way.
LEMMA RequestsKeeps ==
    ASSUME FtpInv, pc \in {"bursting", "streaming"}, to = <<>>, from' = <<>>,
           server.stream = NoStream, server.fd.file = op.file, server.fd.mode = "r",
           IsPacket(server.last), UNCHANGED <<server, disk, wait, lostTail>>,
           NEW b, Holds(b), b.received < op.size, NEW n \in Nums,
           Requests(n, b.received), StreamsOn(b),
           IsEof(server.last) => b.high = Length[op.file] \/ lostTail
    PROVE  FtpInv'
<1>1. b \in Bursts /\ b.received \in Nat
    BY BurstFields DEF Holds
<1>2. /\ ClientInv' /\ pc' = "streaming" /\ op' = op /\ burst' = b /\ result' = result
    BY <1>1, StreamsOnKeeps DEF FtpInv
<1>3. op.file \in Files
    BY DEF FtpInv, ClientInv, OpInv
<1> DEFINE r == [seq |-> n, req |-> "BURST", off |-> b.received, file |-> op.file]
<1>4. r \in Requested /\ r.req = "BURST" /\ r.off = b.received
    BY <1>1, <1>3 DEF Requested, Commands
<1>5. to' = Append(to, r) /\ seq' = NextSeq(n)
    BY DEF Requests
<1> HIDE DEF r
<1>6. to \in Seq(Requested) /\ Len(to) = 0
    BY DEF FtpInv, LinkType
<1>7. to' \in Seq(Requested) /\ Len(to') = 1 /\ to'[1] = r
    BY <1>4, <1>5, <1>6, AppendIs
<1>8. LinkType'
    BY <1>5, <1>7, NextNum, EmptySeq DEF FtpInv, LinkType
<1>9. wait' = NoWait
    BY DEF FtpInv, Waits, AwaitsReply
<1>10. Trailing'
    BY <1>2 DEF Trailing
<1>11. Streaming'
    BY <1>2, <1>4, <1>7 DEF Streaming, IsPacket
<1>12. Frontiers'
    BY <1>2 DEF Frontiers, Holds
<1>13. TailInv'
    BY <1>2 DEF TailInv, IsEof
<1>14. Stored' /\ ~AtFile'
    BY <1>2 DEF FtpInv, Stored, AtFile
<1> QED BY <1>2, <1>8, <1>9, <1>10, <1>11, <1>12, <1>13, <1>14
        DEF FtpInv, Waits, LinkInv, BurstInv, Ready, Exchange, Opening

\* A burst begins.
LEMMA StartBurstKeeps ==
    ASSUME FtpInv, StartBurst
    PROVE  FtpInv'
<1> DEFINE b == [NoBurst EXCEPT !.buf = [i \in 1..op.size |-> Blank]]
<1>1. /\ pc = "bursting" /\ UNCHANGED <<wait, from, server, disk, lostTail>>
      /\ \/ StreamsOn(b) /\ Requests(seq, 0)
         \/ EndsBurst(b, FALSE) /\ UNCHANGED <<to, seq>>
    BY DEF StartBurst, vehicle
<1>2. op.kind = "burst" /\ op.file \in Files /\ op.size \in Nat /\ op.size > 0 /\ wait = NoWait
    BY <1>1 DEF FtpInv, ClientInv, ClientType, OpInv, Operations, Waits, AwaitsReply
<1>3. /\ to = <<>> /\ from = <<>> /\ server.stream = NoStream /\ server.fd.file = op.file
      /\ server.fd.mode = "r" /\ server.last.req = "OPEN"
    BY <1>1, <1>2 DEF FtpInv, LinkInv, Ready, AtFile, Silent, HasFile, Mode
<1>4. Holds(b) /\ b.received = 0
    <2>1. /\ b.received = 0 /\ b.high = 0 /\ b.retries = 0
          /\ b.buf = [i \in 1..op.size |-> Blank]
        BY DEF NoBurst
    <2>2. b.buf \in Seq(Chunks \cup {Blank}) /\ Len(b.buf) = op.size
        BY <1>2, <2>1, BufferIs
    <2>3. b \in Bursts
        BY <2>2 DEF NoBurst, Bursts
    <2>4. 0 <= Length[op.file]
        BY <1>2, SizesAssumption
    <2> HIDE DEF b
    <2>5. 1..b.received = {}
        BY <2>1
    <2>6. b.received <= b.high /\ b.high <= Length[op.file]
        BY <2>1, <2>4
    <2>7. \A i \in 1..b.received : b.buf[i] = Chunk(op.file, i - 1)
        BY <2>5
    <2> QED BY <2>1, <2>2, <2>3, <2>6, <2>7 DEF Holds
<1> HIDE DEF b
<1>5. CASE StreamsOn(b) /\ Requests(seq, 0)
    <2>1. IsPacket(server.last) /\ ~IsEof(server.last) /\ seq \in Nums
        BY <1>3 DEF IsPacket, IsEof, FtpInv, LinkType
    <2> QED BY <1>1, <1>2, <1>3, <1>4, <1>5, <2>1, RequestsKeeps
<1>6. CASE EndsBurst(b, FALSE) /\ UNCHANGED <<to, seq>>
    <2>1. ClientInv' /\ pc' = "closing" /\ result' = result
        BY <1>1, <1>4, <1>6, EndsBurstKeeps DEF FtpInv
    <2>2. LinkType'
        BY <1>1, <1>6 DEF FtpInv, LinkType
    <2>3. Trailing'
        BY <1>1, <1>6, TrailingKeeps DEF FtpInv, LinkInv
    <2> QED BY <1>1, <1>2, <2>1, <2>2, <2>3, EndedStep
<1> QED BY <1>1, <1>5, <1>6

\* The watchdog of the burst.
LEMMA BurstTimeoutKeeps ==
    ASSUME FtpInv, BurstTimeout
    PROVE  FtpInv'
<1> DEFINE b == [burst EXCEPT !.retries = @ + 1]
<1>1. /\ pc = "streaming" /\ to = <<>> /\ from = <<>> /\ server.stream = NoStream
      /\ UNCHANGED <<wait, from, server, disk, lostTail>>
      /\ \/ StreamsOn(b) /\ Requests(seq, burst.received)
         \/ EndsBurst(burst, FALSE) /\ UNCHANGED <<to, seq>>
    BY DEF BurstTimeout, Expires, Quiet, vehicle
<1>2. Holds(burst) /\ burst.received < op.size /\ wait = NoWait /\ burst \in Bursts
    BY <1>1, StreamingFacts
<1>3. CASE StreamsOn(b) /\ Requests(seq, burst.received)
    <2>1. b \in Bursts /\ b.received = burst.received /\ b.high = burst.high /\ b.buf = burst.buf
        BY <1>2 DEF Bursts
    <2>2. Holds(b) /\ b.received < op.size
        BY <1>2, <2>1 DEF Holds
    <2>3. server.fd.file = op.file /\ server.fd.mode = "r" /\ IsPacket(server.last)
        BY <1>1 DEF FtpInv, BurstInv, Streaming
    <2>4. seq \in Nums
        BY DEF FtpInv, LinkType
    <2>5. IsEof(server.last) => b.high = Length[op.file] \/ lostTail
        <3>1. 1..Len(from) = {}
            BY <1>1
        <3> QED BY <1>1, <2>1, <3>1 DEF FtpInv, BurstInv, TailInv
    <2> HIDE DEF b
    <2> QED BY <1>1, <1>3, <2>1, <2>2, <2>3, <2>4, <2>5, RequestsKeeps
<1>4. CASE EndsBurst(burst, FALSE) /\ UNCHANGED <<to, seq>>
    <2>1. ClientInv' /\ pc' = "closing" /\ result' = result
        BY <1>1, <1>2, <1>4, EndsBurstKeeps DEF FtpInv
    <2>2. LinkType'
        BY <1>1, <1>4 DEF FtpInv, LinkType
    <2>3. Trailing'
        BY <1>1, <1>4, TrailingKeeps DEF FtpInv, LinkInv
    <2> QED BY <1>1, <1>2, <2>1, <2>2, <2>3, EndedStep
<1> QED BY <1>1, <1>3, <1>4

\* The caller's AbortSignal, on a link that has fallen silent.
LEMMA AbortKeeps ==
    ASSUME FtpInv, "abort in stream" \notin Faults, Abort
    PROVE  FtpInv'
<1>1. /\ pc = "streaming" /\ to = <<>> /\ from = <<>> /\ server.stream = NoStream
      /\ UNCHANGED <<wait, seq, to, from, server, disk, lostTail>> /\ EndsBurst(burst, FALSE)
    BY DEF Abort, Fault, Quiet, vehicle
<1>2. Holds(burst) /\ wait = NoWait
    BY <1>1, StreamingFacts
<1>3. ClientInv' /\ pc' = "closing" /\ result' = result
    BY <1>1, <1>2, EndsBurstKeeps DEF FtpInv
<1>4. LinkType'
    BY <1>1 DEF FtpInv, LinkType
<1>5. Trailing'
    BY <1>1, TrailingKeeps DEF FtpInv, LinkInv
<1> QED BY <1>1, <1>2, <1>3, <1>4, <1>5, EndedStep

\* The client stays as it is, and at most learns that a packet was lost.
LEMMA ClientKeeps ==
    ASSUME ClientInv, UNCHANGED <<pc, op, burst, result>>, lostTail => lostTail'
    PROVE  ClientInv'
BY DEF ClientInv, ClientType, OpInv, ReadInv, WriteInv, ResultInv, Complete

\* The link drops, and takes what was under way with it.
LEMMA DropKeeps ==
    ASSUME FtpInv, SizesDeclared, Drop
    PROVE  FtpInv'
<1>1. /\ to' = <<>> /\ from' = <<>> /\ server' = [server EXCEPT !.stream = NoStream]
      /\ wait' = NoWait /\ UNCHANGED <<seq, disk, lostTail>>
      /\ \/ pc = "streaming" /\ EndsBurst(burst, FALSE)
         \/ wait # NoWait /\ After(Failed)
         \/ wait = NoWait /\ pc # "streaming" /\ UNCHANGED <<pc, op, burst, result>>
    BY DEF Drop
<1>2. /\ server'.stream = NoStream /\ server'.fd = server.fd /\ server'.seq = server.seq
      /\ server'.last = server.last
    BY <1>1 DEF FtpInv, LinkType, Servers
<1>3. LinkType'
    <2>1. server' \in Servers
        BY <1>1 DEF FtpInv, LinkType, Servers, Streams
    <2> QED BY <1>1, <1>2, <2>1, EmptySeq DEF FtpInv, LinkType
<1>4. Trailing'
    BY <1>1, <1>2, TrailingKeeps DEF FtpInv, LinkInv
<1>5. CASE pc = "streaming" /\ EndsBurst(burst, FALSE)
    <2>1. Holds(burst)
        BY <1>5, StreamingFacts
    <2>2. ClientInv' /\ pc' = "closing" /\ result' = result
        BY <1>1, <1>5, <2>1, EndsBurstKeeps DEF FtpInv
    <2> QED BY <1>1, <1>3, <1>4, <1>5, <2>2, EndedStep
<1>6. CASE wait # NoWait /\ After(Failed)
    <2>1. pc # "idle" /\ pc # "streaming"
        BY <1>6 DEF FtpInv, Waits, AwaitsReply
    <2>2. /\ ClientInv' /\ pc' # "streaming" /\ ~AtFile'
          /\ result' = result \/ ~(result'.kind = "upload" /\ result'.ok)
        BY <1>1, <1>6, <2>1, FailedMoves DEF FtpInv
    <2>3. Stored'
        BY <2>1, <2>2 DEF FtpInv, Stored
    <2> QED BY <1>1, <1>3, <1>4, <2>2, <2>3, PlainStep
<1>7. CASE wait = NoWait /\ pc # "streaming" /\ UNCHANGED <<pc, op, burst, result>>
    <2>1. ClientInv' /\ BurstInv'
        BY <1>1, <1>7, ClientKeeps, NotStreaming DEF FtpInv
    <2>2. Stored'
        BY <1>1, <1>7 DEF FtpInv, Stored
    <2>3. Ready'
        BY <1>1, <1>2, <1>7 DEF FtpInv, LinkInv, Ready, AtFile, Silent, HasFile, Mode
    <2> QED BY <1>1, <1>3, <1>4, <2>1, <2>2, <2>3
            DEF FtpInv, Waits, LinkInv, Exchange, Opening
<1> QED BY <1>1, <1>5, <1>6, <1>7

\* A request is lost: the oldest one.
LEMMA LoseRequestKeeps ==
    ASSUME FtpInv, LoseRequest
    PROVE  FtpInv'
<1>1. /\ to # <<>> /\ to' = Tail(to)
      /\ UNCHANGED <<pc, op, burst, wait, seq, from, server, disk, result, lostTail>>
    BY DEF LoseRequest, client, vehicle
<1>2. /\ to \in Seq(Requested) /\ Len(to) \in Nat /\ Len(to) >= 1 /\ to' \in Seq(Requested)
      /\ Len(to') = Len(to) - 1 /\ (to' = <<>> <=> Len(to) = 1)
      /\ \A i \in 1..(Len(to) - 1) : to'[i] = to[i + 1]
    BY <1>1, TailIs DEF FtpInv, LinkType
<1>3. ClientInv'
    BY <1>1, ClientKeeps DEF FtpInv
<1>4. LinkType'
    BY <1>1, <1>2 DEF FtpInv, LinkType
<1>5. Waits' /\ Stored'
    BY <1>1 DEF FtpInv, Waits, AwaitsReply, Stored
<1>6. Ready'
    BY <1>1 DEF FtpInv, LinkInv, Ready, AtFile, Silent
<1>7. Exchange'
    BY <1>1, <1>2 DEF FtpInv, LinkInv, Exchange, AtFile
<1>8. Opening'
    <2> SUFFICES ASSUME Opens', wait' # NoWait PROVE Opening'
        BY DEF Opening
    <2>1. /\ to[Len(to)].req = RequestOf /\ to[Len(to)].file = op.file
          /\ NextSeq(to[Len(to)].seq) = wait
          /\ \A i \in 1..(Len(to) - 1) : NextSeq(to[i].seq) # wait
          /\ \A i \in 1..Len(from) : from[i].seq # wait
          /\ server.stream # NoStream => server.seq # wait
        BY <1>1 DEF FtpInv, LinkInv, Opening, Opens
    <2>2. from \in Seq(Replies) /\ Len(from) \in Nat /\ (from # <<>> => Len(from) \in 1..Len(from))
        BY NoneIs DEF FtpInv, LinkType
    <2>3. CASE Len(to) = 1
        BY <1>1, <1>2, <2>1, <2>2, <2>3 DEF Opening
    <2>4. CASE Len(to) # 1
        <3>1. Len(to') \in 1..(Len(to) - 1) /\ to'[Len(to')] = to[Len(to)] /\ to' # <<>>
            BY <1>2, <2>4
        <3>2. \A i \in 1..(Len(to') - 1) : NextSeq(to'[i].seq) # wait
            <4> SUFFICES ASSUME NEW i \in 1..(Len(to') - 1) PROVE NextSeq(to'[i].seq) # wait
                OBVIOUS
            <4>1. i \in 1..(Len(to) - 1) /\ i + 1 \in 1..(Len(to) - 1)
                BY <1>2
            <4>2. to'[i] = to[i + 1]
                BY <1>2, <4>1
            <4> QED BY <2>1, <4>1, <4>2
        <3> QED BY <1>1, <2>1, <3>1, <3>2 DEF Opening, RequestOf
    <2> QED BY <2>3, <2>4
<1>9. Trailing'
    BY <1>1, <1>2 DEF FtpInv, LinkInv, Trailing
<1>10. Streaming'
    BY <1>1, <1>2 DEF FtpInv, BurstInv, Streaming, IsPacket, IsData, IsEof, Ends
<1>11. Frontiers' /\ TailInv'
    BY <1>1 DEF FtpInv, BurstInv, Frontiers, TailInv, IsData, IsEof
<1> QED BY <1>3, <1>4, <1>5, <1>6, <1>7, <1>8, <1>9, <1>10, <1>11 DEF FtpInv, LinkInv, BurstInv

\* The packets of a burst keep their order when the first of them is taken, or lost.
LEMMA TailStreaming ==
    ASSUME FtpInv, pc = "streaming", pc' = "streaming", op' = op, from # <<>>, from' = Tail(from),
           UNCHANGED <<to, server>>
    PROVE  Streaming'
<1>1. /\ from \in Seq(Replies) /\ Len(from) \in Nat /\ Len(from) >= 1
      /\ Len(from') = Len(from) - 1 /\ from' \in Seq(Replies)
      /\ \A i \in 1..(Len(from) - 1) : from'[i] = from[i + 1]
    BY TailIs DEF FtpInv, LinkType
<1>2. Streaming
    BY DEF FtpInv, BurstInv
<1>3. to = <<>>
    BY <1>2 DEF Streaming
<1>4. \A i \in 1..Len(from') : i + 1 \in 1..Len(from) /\ from'[i] = from[i + 1] /\ i \in Nat
    BY <1>1
<1>5. ASSUME NEW i \in 1..Len(from')
      PROVE  /\ IsPacket(from'[i])
             /\ Ends(from'[i]) => i = Len(from') /\ server.stream = NoStream
             /\ IsData(from'[i]) /\ server.stream # NoStream => from'[i].off < server.stream.off
    <2>1. i + 1 \in 1..Len(from) /\ from'[i] = from[i + 1] /\ i \in Nat
        BY <1>4
    <2>2. /\ IsPacket(from[i + 1])
          /\ Ends(from[i + 1]) => i + 1 = Len(from) /\ server.stream = NoStream
          /\ IsData(from[i + 1]) /\ server.stream # NoStream => from[i + 1].off < server.stream.off
        BY <1>2, <2>1 DEF Streaming
    <2>3. i + 1 = Len(from) => i = Len(from')
        <3>1. Len(from') \in Nat /\ Len(from) = Len(from') + 1 /\ i \in Nat
            BY <1>1, <2>1
        <3>2. \A a, b \in Nat : a + 1 = b + 1 => a = b
            OBVIOUS
        <3> QED BY <3>1, <3>2, Zenon
    <2> QED BY <2>1, <2>2, <2>3
<1>6. ASSUME NEW i \in 1..Len(from'), NEW j \in 1..Len(from'), i < j,
             IsData(from'[i]), IsData(from'[j])
      PROVE  from'[i].off < from'[j].off
    <2>1. /\ i + 1 \in 1..Len(from) /\ from'[i] = from[i + 1]
          /\ j + 1 \in 1..Len(from) /\ from'[j] = from[j + 1]
          /\ i + 1 < j + 1
        BY <1>4, <1>6
    <2> QED BY <1>2, <1>6, <2>1 DEF Streaming
<1>7. (\A i \in 1..Len(from) : IsPacket(from[i]))' /\ IsPacket(server.last)'
    BY <1>2, <1>5 DEF Streaming, IsPacket
<1> QED BY <1>2, <1>3, <1>5, <1>6, <1>7 DEF Streaming, Ends, IsData, IsEof

\* The end of the file is accounted for when the first packet is taken, or lost.
LEMMA TailTail ==
    ASSUME FtpInv, pc = "streaming", pc' = "streaming", op' = op, from # <<>>, from' = Tail(from),
           UNCHANGED server, lostTail => lostTail',
           burst.high = Length[op.file] => burst'.high = Length[op.file],
           IsData(Head(from)) /\ Head(from).off = Length[op.file] - 1 =>
             burst'.high = Length[op.file] \/ lostTail'
    PROVE  TailInv'
<1>1. /\ from \in Seq(Replies) /\ Len(from) \in Nat /\ Len(from) >= 1
      /\ Len(from') = Len(from) - 1 /\ from' \in Seq(Replies) /\ Head(from) = from[1]
      /\ \A i \in 1..(Len(from) - 1) : from'[i] = from[i + 1]
    BY TailIs DEF FtpInv, LinkType
<1>2. \A i \in 1..Len(from') : i + 1 \in 1..Len(from) /\ from'[i] = from[i + 1] /\ i \in Nat
    BY <1>1
<1>3. SUFFICES ASSUME \/ IsEof(server.last)
                      \/ \E i \in 1..Len(from') : IsEof(from'[i])
                      \/ server.stream # NoStream /\ server.stream.off >= Length[op.file]
               PROVE  \/ burst'.high = Length[op.file] \/ lostTail'
                      \/ \E i \in 1..Len(from') :
                            IsData(from'[i]) /\ from'[i].off = Length[op.file] - 1
    BY DEF TailInv, IsEof, IsData
<1>4. (\E i \in 1..Len(from') : IsEof(from'[i])) => \E i \in 1..Len(from) : IsEof(from[i])
    BY <1>2
<1>5. \/ burst.high = Length[op.file] \/ lostTail
      \/ \E i \in 1..Len(from) : IsData(from[i]) /\ from[i].off = Length[op.file] - 1
    BY <1>3, <1>4 DEF FtpInv, BurstInv, TailInv
<1>6. ASSUME NEW i \in 1..Len(from), IsData(from[i]), from[i].off = Length[op.file] - 1
      PROVE  \/ burst'.high = Length[op.file] \/ lostTail'
             \/ \E j \in 1..Len(from') :
                   IsData(from'[j]) /\ from'[j].off = Length[op.file] - 1
    <2>1. CASE i = 1
        BY <1>1, <1>6, <2>1
    <2>2. CASE i # 1
        <3>1. i - 1 \in 1..Len(from') /\ from'[i - 1] = from[i]
            BY <1>1, <2>2
        <3> QED BY <1>6, <3>1
    <2> QED BY <2>1, <2>2
<1> QED BY <1>5, <1>6

\* A message is lost on its way to the client: the oldest one.
LEMMA LoseReplyKeeps ==
    ASSUME FtpInv, LoseReply
    PROVE  FtpInv'
<1>1. /\ from # <<>> /\ from' = Tail(from)
      /\ lostTail' = \/ lostTail
                     \/ \E f \in Files : Head(from).data = <<Chunk(f, Length[f] - 1)>>
      /\ UNCHANGED <<pc, op, burst, wait, seq, to, server, disk, result>>
    BY DEF LoseReply, client, vehicle
<1>2. /\ from \in Seq(Replies) /\ Len(from) \in Nat /\ Len(from) >= 1 /\ from' \in Seq(Replies)
      /\ Len(from') = Len(from) - 1 /\ (from' = <<>> <=> Len(from) = 1) /\ Head(from) = from[1]
      /\ \A i \in 1..(Len(from) - 1) : from'[i] = from[i + 1]
    BY <1>1, TailIs DEF FtpInv, LinkType
<1>3. (lostTail => lostTail') /\ lostTail' \in BOOLEAN
    BY <1>1 DEF FtpInv, LinkType
<1>4. ClientInv'
    BY <1>1, <1>3, ClientKeeps DEF FtpInv
<1>5. LinkType'
    BY <1>1, <1>2, <1>3 DEF FtpInv, LinkType
<1>6. Waits' /\ Stored'
    BY <1>1 DEF FtpInv, Waits, AwaitsReply, Stored
<1>7. Ready'
    BY <1>1 DEF FtpInv, LinkInv, Ready, AtFile, Silent
<1>8. Exchange'
    BY <1>1, <1>2 DEF FtpInv, LinkInv, Exchange, AtFile
<1>9. Opening'
    <2> SUFFICES ASSUME Opens', wait' # NoWait PROVE Opening'
        BY DEF Opening
    <2>1. \A i \in 1..Len(from') : i + 1 \in 1..Len(from) /\ from'[i] = from[i + 1] /\ i \in Nat
        BY <1>2
    <2>2. CASE /\ to # <<>> /\ to[Len(to)].req = RequestOf /\ to[Len(to)].file = op.file
               /\ NextSeq(to[Len(to)].seq) = wait
               /\ \A i \in 1..(Len(to) - 1) : NextSeq(to[i].seq) # wait
               /\ \A i \in 1..Len(from) : from[i].seq # wait
               /\ server.stream # NoStream => server.seq # wait
        BY <1>1, <2>1, <2>2 DEF Opening, RequestOf
    <2>3. CASE /\ to = <<>>
               /\ server.stream # NoStream => server.seq # wait
               /\ \A i \in 1..(Len(from) - 1) : from[i].seq # wait
               /\ from # <<>> /\ from[Len(from)].seq = wait =>
                    server.stream = NoStream /\ Opened(from[Len(from)])
        <3>1. ASSUME NEW i \in 1..(Len(from') - 1) PROVE from'[i].seq # wait
            <4>1. i \in 1..Len(from') /\ i + 1 \in 1..(Len(from) - 1)
                BY <1>2
            <4> QED BY <2>1, <2>3, <4>1
        <3>2. from' # <<>> => from'[Len(from')] = from[Len(from)]
            BY <1>2
        <3> QED BY <1>1, <2>3, <3>1, <3>2 DEF Opening, Opened, RequestOf, Mode
    <2> QED BY <1>1, <2>2, <2>3 DEF FtpInv, LinkInv, Opening, Opens
<1>10. Trailing'
    BY <1>1 DEF FtpInv, LinkInv, Trailing
<1>11. BurstInv'
    <2> SUFFICES ASSUME pc = "streaming" PROVE BurstInv'
        BY <1>1, NotStreaming
    <2>1. op.file \in Files
        BY StreamingFacts
    <2>2. IsPacket(from[1])
        BY <1>2 DEF FtpInv, BurstInv, Streaming
    <2>3. IsData(Head(from)) /\ Head(from).off = Length[op.file] - 1 => lostTail'
        BY <1>1, <1>2, <2>1, <2>2 DEF IsData, IsPacket
    <2>4. Streaming' /\ TailInv'
        BY <1>1, <1>3, <2>3, TailStreaming, TailTail
    <2>5. Frontiers'
        BY <1>1 DEF FtpInv, BurstInv, Frontiers
    <2> QED BY <2>4, <2>5 DEF BurstInv
<1> QED BY <1>4, <1>5, <1>6, <1>7, <1>8, <1>9, <1>10, <1>11 DEF FtpInv, LinkInv

\* A request goes out, under a number that no reply still to come has.
LEMMA SendRequestKeeps ==
    ASSUME FtpInv, SendRequest, ~NumberReused
    PROVE  FtpInv'
<1> DEFINE r == [seq |-> seq, req |-> RequestOf, off |-> op.off, file |-> op.file]
<1>1. /\ AwaitsReply /\ wait = NoWait /\ to' = Append(to, r)
      /\ seq' = NextSeq(seq) /\ wait' = NextSeq(seq)
      /\ UNCHANGED <<pc, op, burst, from, server, disk, result, lostTail>>
    BY DEF SendRequest, vehicle
<1>2. /\ pc \in Steps /\ pc \notin {"idle", "bursting", "streaming"} /\ op.off \in Nat
      /\ op.file \in Files /\ seq \in Nums /\ to \in Seq(Requested) /\ from \in Seq(Replies)
    BY <1>1 DEF FtpInv, LinkType, ClientInv, ClientType, OpInv, Operations, AwaitsReply
<1>3. RequestOf \in Commands /\ RequestOf # "BURST"
    BY <1>2 DEF RequestOf, Commands, Steps
<1>4. /\ r \in Requested /\ r.req = RequestOf /\ r.off = op.off /\ r.file = op.file
      /\ r.seq = seq
    BY <1>2, <1>3 DEF Requested
<1>5. seq' \in Nums /\ wait' \in Nums /\ wait' # NoWait
    BY <1>1, <1>2, NextNum, WaitIs
<1> HIDE DEF r
<1>6. /\ Len(to) \in Nat /\ to' \in Seq(Requested) /\ Len(to') = Len(to) + 1 /\ to' # <<>>
      /\ to'[Len(to')] = r /\ \A i \in 1..Len(to) : to'[i] = to[i]
      /\ (to = <<>> <=> Len(to) = 0)
    BY <1>1, <1>2, <1>4, AppendIs, NoneIs
<1>7. ClientInv'
    BY <1>1, ClientKeeps DEF FtpInv
<1>8. LinkType'
    BY <1>1, <1>5, <1>6 DEF FtpInv, LinkType
<1>9. Waits' /\ Stored' /\ Ready' /\ BurstInv'
    BY <1>1, <1>2, <1>5, NotStreaming DEF FtpInv, Waits, AwaitsReply, Stored, Ready
<1>10. Trailing'
    <2>1. \A i \in 1..Len(to') : to'[i].req # "BURST"
        BY <1>2, <1>3, <1>4, <1>6 DEF FtpInv, LinkInv, Trailing
    <2> QED BY <1>1, <2>1 DEF FtpInv, LinkInv, Trailing
<1>11. Exchange'
    <2> SUFFICES ASSUME AtFile PROVE Exchange'
        BY <1>1 DEF Exchange, AtFile
    <2>1. Silent /\ HasFile /\ NextSeq(seq) # server.seq
        BY <1>1 DEF FtpInv, LinkInv, Ready
    <2>2. Len(to') = 1 /\ to'[1] = r
        BY <1>6, <2>1 DEF Silent
    <2> QED BY <1>1, <1>4, <2>1, <2>2 DEF Exchange, Silent, HasFile, Mode, RequestOf
<1>12. Opening'
    <2> SUFFICES ASSUME Opens PROVE Opening'
        BY <1>1 DEF Opening, Opens
    <2>1. wait' \notin Coming
        BY <1>1, <1>5 DEF NumberReused
    <2>2. \A i \in 1..Len(from) : from[i].seq # wait'
        <3>1. DOMAIN from = 1..Len(from)
            BY <1>2, LenProperties
        <3> QED BY <2>1, <3>1 DEF Coming
    <2>3. \A i \in 1..Len(to) : NextSeq(to[i].seq) # wait'
        <3>1. DOMAIN to = 1..Len(to)
            BY <1>2, LenProperties
        <3> QED BY <2>1, <3>1 DEF Coming
    <2>4. server.stream # NoStream => server.seq # wait'
        BY <2>1 DEF Coming
    <2>5. \A i \in 1..(Len(to') - 1) : NextSeq(to'[i].seq) # wait'
        BY <1>6, <2>3
    <2>6. to'[Len(to')].req = RequestOf /\ to'[Len(to')].file = op.file
          /\ NextSeq(to'[Len(to')].seq) = wait'
        BY <1>1, <1>4, <1>6
    <2> QED BY <1>1, <1>6, <2>2, <2>4, <2>5, <2>6 DEF Opening, RequestOf
<1> QED BY <1>7, <1>8, <1>9, <1>10, <1>11, <1>12 DEF FtpInv, LinkInv

\* A reply that nothing waits for.
LEMMA StrayReplyKeeps ==
    ASSUME FtpInv, from # <<>>, from' = Tail(from), seq' = Adopted(from[1].seq),
           ~ForBurst(from[1]), wait # from[1].seq,
           UNCHANGED <<pc, op, burst, wait, to, server, disk, result, lostTail>>
    PROVE  FtpInv'
<1>1. /\ from \in Seq(Replies) /\ Len(from) \in Nat /\ Len(from) >= 1 /\ from' \in Seq(Replies)
      /\ Len(from') = Len(from) - 1 /\ (from' = <<>> <=> Len(from) = 1) /\ Head(from) = from[1]
      /\ \A i \in 1..(Len(from) - 1) : from'[i] = from[i + 1]
      /\ from[1] \in Replies
    BY TailIs DEF FtpInv, LinkType
<1>2. seq' \in Nums
    BY <1>1, AdoptedIs DEF FtpInv, LinkType, Replies
<1>3. ClientInv'
    BY ClientKeeps DEF FtpInv
<1>4. LinkType'
    BY <1>1, <1>2 DEF FtpInv, LinkType
<1>5. Waits' /\ Stored'
    BY DEF FtpInv, Waits, AwaitsReply, Stored
<1>6. ~AtFile
    BY <1>1 DEF FtpInv, LinkInv, Ready, Exchange, Silent
<1>7. Ready' /\ Exchange'
    BY <1>6 DEF Ready, Exchange, AtFile
<1>8. Opening'
    <2> SUFFICES ASSUME Opens, wait # NoWait PROVE Opening'
        BY DEF Opening, Opens
    <2>1. \A i \in 1..Len(from') : i + 1 \in 1..Len(from) /\ from'[i] = from[i + 1] /\ i \in Nat
        BY <1>1
    <2>2. CASE /\ to # <<>> /\ to[Len(to)].req = RequestOf /\ to[Len(to)].file = op.file
               /\ NextSeq(to[Len(to)].seq) = wait
               /\ \A i \in 1..(Len(to) - 1) : NextSeq(to[i].seq) # wait
               /\ \A i \in 1..Len(from) : from[i].seq # wait
               /\ server.stream # NoStream => server.seq # wait
        BY <2>1, <2>2 DEF Opening, RequestOf
    <2>3. CASE /\ to = <<>>
               /\ server.stream # NoStream => server.seq # wait
               /\ \A i \in 1..(Len(from) - 1) : from[i].seq # wait
               /\ from # <<>> /\ from[Len(from)].seq = wait =>
                    server.stream = NoStream /\ Opened(from[Len(from)])
        <3>1. ASSUME NEW i \in 1..(Len(from') - 1) PROVE from'[i].seq # wait
            <4>1. i \in 1..Len(from') /\ i + 1 \in 1..(Len(from) - 1)
                BY <1>1
            <4> QED BY <2>1, <2>3, <4>1
        <3>2. from' # <<>> => from'[Len(from')] = from[Len(from)]
            BY <1>1
        <3> QED BY <2>3, <3>1, <3>2 DEF Opening, Opened, RequestOf, Mode
    <2> QED BY <2>2, <2>3 DEF FtpInv, LinkInv, Opening
<1>9. Trailing'
    BY DEF FtpInv, LinkInv, Trailing
<1>10. BurstInv'
    <2> SUFFICES ASSUME pc = "streaming" PROVE BurstInv'
        BY NotStreaming
    <2>1. ~IsData(Head(from))
        BY <1>1 DEF ForBurst, IsData
    <2>2. Streaming' /\ TailInv'
        BY <2>1, TailStreaming, TailTail
    <2>3. Frontiers'
        BY DEF FtpInv, BurstInv, Frontiers
    <2> QED BY <2>2, <2>3 DEF BurstInv
<1> QED BY <1>3, <1>4, <1>5, <1>7, <1>8, <1>9, <1>10 DEF FtpInv, LinkInv

\* The reply that the request waits for: the client has caught up with the vehicle.
LEMMA AwaitedReplyKeeps ==
    ASSUME FtpInv, SizesDeclared, from # <<>>, from' = Tail(from), seq' = Adopted(from[1].seq),
           wait = from[1].seq, wait' = NoWait, After(from[1]),
           UNCHANGED <<to, server, disk, lostTail>>
    PROVE  FtpInv'
<1> DEFINE m == from[1]
<1>1. /\ from \in Seq(Replies) /\ Len(from) \in Nat /\ Len(from) >= 1 /\ from' \in Seq(Replies)
      /\ Len(from') = Len(from) - 1 /\ (from' = <<>> <=> Len(from) = 1)
      /\ m \in Replies /\ m.seq \in Nums /\ m.code \in Codes /\ m.data \in Seq(Chunks)
    <2>1. from \in Seq(Replies)
        BY DEF FtpInv, LinkType
    <2>2. /\ Len(from) \in Nat /\ Len(from) >= 1 /\ from' \in Seq(Replies)
          /\ Len(from') = Len(from) - 1 /\ (from' = <<>> <=> Len(from) = 1) /\ m \in Replies
        BY <2>1, TailIs
    <2>3. m.seq \in Nums /\ m.code \in Codes /\ m.data \in Seq(Chunks)
        BY <2>2 DEF Replies
    <2> QED BY <2>1, <2>2, <2>3
<1>2. seq' \in Nums /\ NextSeq(seq') # wait /\ wait # NoWait
    BY <1>1, AdoptedIs, WaitIs DEF FtpInv, LinkType
<1>3. pc # "idle" /\ pc # "streaming" /\ pc # "bursting" /\ AwaitsReply
    BY <1>2 DEF FtpInv, Waits, AwaitsReply
<1>4. Opens => Len(from) = 1 /\ to = <<>> /\ server.stream = NoStream /\ Opened(m)
    <2> SUFFICES ASSUME Opens PROVE Len(from) = 1 /\ to = <<>> /\ server.stream = NoStream /\ Opened(m)
        OBVIOUS
    <2>1. 1 \in 1..Len(from)
        BY <1>1
    <2>2. /\ to = <<>> /\ \A i \in 1..(Len(from) - 1) : from[i].seq # wait
          /\ from[Len(from)].seq = wait => server.stream = NoStream /\ Opened(from[Len(from)])
        BY <1>2, <2>1 DEF FtpInv, LinkInv, Opening
    <2>3. Len(from) = 1
        BY <1>1, <2>2
    <2> QED BY <2>2, <2>3
<1>5. AtFile => to = <<>> /\ Len(from) = 1 /\ server.stream = NoStream /\ server.seq = wait /\ Answered(m)
    BY <1>1, <1>2 DEF FtpInv, LinkInv, Exchange
<1>6. Genuine(m)
    <2>1. pc \in {"opening", "reopening"} /\ m.code = "ACK" => m.req = "OPEN"
        BY <1>4 DEF Opens, Opened, RequestOf
    <2>2. pc = "reading" =>
            /\ m.code = "ACK" => op.off < Length[op.file] /\ m.data = <<Chunk(op.file, op.off)>>
            /\ m.code = "EOF" => op.off >= Length[op.file]
        BY <1>5 DEF AtFile, Answered
    <2> QED BY <1>1, <2>1, <2>2 DEF Genuine
<1> HIDE DEF m
<1>7. Moves(m)
    BY <1>3, <1>6, AfterMoves DEF FtpInv, m
<1>8. ClientInv' /\ pc' # "streaming"
    BY <1>7 DEF Moves
<1>9. LinkType'
    BY <1>1, <1>2 DEF FtpInv, LinkType
<1>10. Waits' /\ Exchange' /\ Opening' /\ BurstInv'
    BY <1>8, NotStreaming DEF Waits, Exchange, Opening
<1>11. Trailing'
    BY <1>3, TrailingKeeps DEF FtpInv, LinkInv
<1>12. Stored'
    <2>1. CASE result' = result
        BY <1>3, <2>1 DEF FtpInv, Stored
    <2>2. CASE result'.kind = "upload" /\ result'.ok =>
                 /\ pc = "committing" /\ op.ok /\ m.code = "ACK"
                 /\ result'.file = op.file /\ pc' = "idle"
        <3> SUFFICES ASSUME pc = "committing", op.ok, m.code = "ACK", result'.file = op.file, pc' = "idle"
                     PROVE  pc' = "idle" /\ to' = <<>> /\ result'.file \in Files /\ disk'[result'.file] = "new"
            BY <2>2 DEF Stored
        <3>1. op.file \in Files
            BY DEF FtpInv, ClientInv, OpInv
        <3> QED BY <1>5, <3>1 DEF AtFile, Answered
    <2> QED BY <1>7, <2>1, <2>2 DEF Moves
<1>13. Ready'
    <2> SUFFICES ASSUME AtFile' PROVE Ready'
        BY DEF Ready
    <2>1. /\ m.code = "ACK" /\ op'.kind = op.kind /\ op'.file = op.file
          /\ \/ pc \in {"opening", "reopening"} /\ pc' \in {"bursting", "reading"}
             \/ pc \in {"creating", "recreating"} /\ pc' = "writing" /\ op' = op
             \/ pc = "reading" /\ pc' = "reading"
             \/ pc = "writing" /\ op'.off = op.off + 1
        BY <1>7 DEF Moves
    <2>2. op \in Operations /\ op.off \in Nat
        BY DEF FtpInv, ClientInv, ClientType, Operations
    <2>3. CASE pc \in {"opening", "reopening"} /\ pc' \in {"bursting", "reading"}
        <3>1. Opened(m) /\ Silent' /\ op.kind \in Reads
            BY <1>1, <1>4, <2>3 DEF Opens, Silent, FtpInv, ClientInv, OpInv
        <3>2. /\ server.last.req = "OPEN" /\ server.seq = wait
              /\ server.fd.file = op.file /\ server.fd.mode = Mode
            BY <2>1, <2>3, <3>1 DEF Opened, RequestOf
        <3> QED BY <1>2, <2>1, <3>1, <3>2 DEF Ready, HasFile, Mode, Reads
    <2>4. CASE pc \in {"creating", "recreating"} /\ pc' = "writing" /\ op' = op
        <3>1. Opened(m) /\ Silent' /\ op.off = 0
            BY <1>1, <1>4, <2>4 DEF Opens, Silent, FtpInv, ClientInv, OpInv
        <3>2. /\ server.seq = wait /\ server.fd.file = op.file /\ server.fd.mode = Mode
              /\ server.fd.got = {}
            BY <2>1, <3>1 DEF Opened
        <3>3. 0..(op.off - 1) = {}
            BY <3>1
        <3> QED BY <1>2, <2>4, <3>1, <3>2, <3>3 DEF Ready, HasFile, Mode
    <2>5. CASE pc = "reading" /\ pc' = "reading"
        <3>1. Answered(m) /\ Silent' /\ op.kind \in Reads /\ server.seq = wait
            BY <1>1, <1>5, <2>5 DEF AtFile, Silent, FtpInv, ClientInv, OpInv
        <3>2. HasFile
            BY <2>5, <3>1 DEF Answered
        <3> QED BY <1>2, <2>1, <2>5, <3>1, <3>2 DEF Ready, HasFile, Mode, Reads
    <2>6. CASE pc = "writing" /\ op'.off = op.off + 1
        <3>1. Answered(m) /\ Silent' /\ op.kind = "upload" /\ server.seq = wait
            BY <1>1, <1>5, <2>6 DEF AtFile, Silent, FtpInv, ClientInv, OpInv
        <3>2. /\ server.fd.file = op.file /\ server.fd.mode = "w" /\ server.fd.got = 0..op.off
            BY <2>6, <3>1 DEF Answered
        <3>3. op'.off - 1 = op.off
            BY <2>2, <2>6
        <3>4. pc' # "bursting"
            BY <2>1, <3>1, <1>8 DEF ClientInv, OpInv
        <3> QED BY <1>2, <2>1, <3>1, <3>2, <3>3, <3>4 DEF Ready, HasFile, Mode
    <2> QED BY <2>1, <2>3, <2>4, <2>5, <2>6
<1> QED BY <1>8, <1>9, <1>10, <1>11, <1>12, <1>13 DEF FtpInv, LinkInv

\* A message that the burst does not take.
LEMMA ReceiveReplyKeeps ==
    ASSUME FtpInv, SizesDeclared, ReceiveReply
    PROVE  FtpInv'
<1>1. /\ from # <<>> /\ ~ForBurst(Head(from)) /\ from' = Tail(from)
      /\ seq' = Adopted(Head(from).seq) /\ UNCHANGED <<to, server, disk, lostTail>>
      /\ \/ wait = Head(from).seq /\ wait' = NoWait /\ After(Head(from))
         \/ wait # Head(from).seq /\ UNCHANGED <<pc, op, burst, wait, result>>
    BY DEF ReceiveReply, vehicle
<1>2. Head(from) = from[1]
    BY <1>1, TailIs DEF FtpInv, LinkType
<1> QED BY <1>1, <1>2, AwaitedReplyKeeps, StrayReplyKeeps

\* The packet that the burst takes.
LEMMA PacketFacts ==
    ASSUME FtpInv, from # <<>>, ForBurst(Head(from)), from' = Tail(from)
    PROVE  /\ pc = "streaming" /\ to = <<>> /\ Head(from) = from[1] /\ Len(from) >= 1
           /\ Len(from) \in Nat /\ (from' = <<>> <=> Len(from) = 1) /\ from' \in Seq(Replies)
           /\ from[1].seq \in Nums /\ from[1].off \in Nat /\ from[1].req = "BURST"
           /\ \/ /\ from[1].code = "ACK" /\ from[1].off < Length[op.file]
                 /\ from[1].data = <<Chunk(op.file, from[1].off)>>
              \/ from[1].code = "EOF"
           /\ Ends(from[1]) => from' = <<>> /\ Len(from) = 1 /\ server.stream = NoStream
<1>1. from \in Seq(Replies)
    BY DEF FtpInv, LinkType
<1>2. /\ Head(from) = from[1] /\ Len(from) >= 1 /\ Len(from) \in Nat
      /\ (from' = <<>> <=> Len(from) = 1) /\ from' \in Seq(Replies) /\ from[1] \in Replies
    BY <1>1, TailIs
<1>3. pc = "streaming" /\ from[1].req = "BURST"
    BY <1>2 DEF ForBurst
<1>4. from[1].seq \in Nums /\ from[1].off \in Nat
    BY <1>2 DEF Replies
<1>5. /\ to = <<>> /\ IsPacket(from[1])
      /\ Ends(from[1]) => 1 = Len(from) /\ server.stream = NoStream
    BY <1>2, <1>3 DEF FtpInv, BurstInv, Streaming
<1> QED BY <1>2, <1>3, <1>4, <1>5 DEF IsPacket

\* A burst that went on takes the next packet.
LEMMA TakesKeeps ==
    ASSUME FtpInv, from # <<>>, ForBurst(Head(from)), from' = Tail(from),
           from[1].code = "ACK", NEW n \in Nums, seq' = n,
           StreamsOn(Landed(from[1])), Landed(from[1]).received < op.size,
           UNCHANGED <<wait, to, server, disk, lostTail>>
    PROVE  FtpInv'
<1> DEFINE m == from[1]
           b == Landed(m)
<1>1. /\ pc = "streaming" /\ to = <<>> /\ Head(from) = m /\ from' \in Seq(Replies)
      /\ m.off \in Nat /\ m.off < Length[op.file] /\ m.data = <<Chunk(op.file, m.off)>>
    BY PacketFacts
<1>2. /\ op.file \in Files /\ op.size \in Nat /\ op.size > 0 /\ Sized(op.size, op.file)
      /\ Holds(burst) /\ wait = NoWait /\ burst.high \in Nat /\ Length[op.file] \in Nat
      /\ ~(result.kind = "upload" /\ result.ok)
    BY <1>1, StreamingFacts
<1>3. Holds(b) /\ b.high >= burst.high /\ b.high >= m.off + 1
    BY <1>1, <1>2, LandedHolds
<1>4. b \in Bursts /\ b.high \in Nat /\ b.high <= Length[op.file] /\ StreamsOn(b) /\ b.received < op.size
    BY <1>3, BurstFields DEF Holds
<1> HIDE DEF b, m
<1>5. /\ ClientInv' /\ pc' = "streaming" /\ op' = op /\ burst' = b /\ result' = result
    BY <1>1, <1>4, StreamsOnKeeps DEF FtpInv
<1>6. LinkType'
    BY <1>1 DEF FtpInv, LinkType
<1>7. Streaming'
    BY <1>1, <1>5, TailStreaming
<1>8. TailInv'
    <2>1. burst.high = Length[op.file] => b.high = Length[op.file]
        BY <1>2, <1>3, <1>4
    <2>2. m.off = Length[op.file] - 1 => b.high = Length[op.file]
        BY <1>1, <1>2, <1>3, <1>4
    <2> QED BY <1>1, <1>5, <2>1, <2>2, TailTail
<1>9. Frontiers'
    BY <1>3, <1>4, <1>5 DEF Frontiers, Holds
<1>10. Trailing'
    BY <1>5 DEF FtpInv, LinkInv, Trailing
<1>11. Stored' /\ ~AtFile' /\ wait' = NoWait
    BY <1>2, <1>5 DEF Stored, AtFile
<1> QED BY <1>5, <1>6, <1>7, <1>8, <1>9, <1>10, <1>11
        DEF FtpInv, Waits, LinkInv, BurstInv, Ready, Exchange, Opening

\* A burst that ends leaves no packet of it behind but the end of the file.
LEMMA EndsKeeps ==
    ASSUME FtpInv, from # <<>>, ForBurst(Head(from)), from' = Tail(from), NEW n \in Nums, seq' = n,
           NEW b, Holds(b), NEW ok \in BOOLEAN, EndsBurst(b, ok),
           ok => b.received = Length[op.file] \/ lostTail,
           server.stream # NoStream => server.stream.off >= Length[server.fd.file],
           UNCHANGED <<wait, to, server, disk, lostTail>>
    PROVE  FtpInv'
<1>1. pc = "streaming" /\ to = <<>> /\ from' \in Seq(Replies) /\ wait = NoWait
    BY PacketFacts, StreamingFacts
<1>2. ClientInv' /\ pc' = "closing" /\ result' = result
    BY <1>1, EndsBurstKeeps DEF FtpInv
<1>3. LinkType'
    BY <1>1 DEF FtpInv, LinkType
<1>4. Trailing'
    <2>1. 1..Len(to) = {}
        BY <1>1
    <2> QED BY <2>1 DEF FtpInv, LinkInv, Trailing
<1> QED BY <1>1, <1>2, <1>3, <1>4, EndedStep

\* handleBurstPacket.
LEMMA ReceivePacketKeeps ==
    ASSUME FtpInv, ReceivePacket
    PROVE  FtpInv'
<1> DEFINE m == from[1]
           n == Adopted(m.seq)
           b == Landed(m)
           retried == [burst EXCEPT !.retries = @ + 1]
<1>1. from # <<>> /\ ForBurst(Head(from)) /\ from' = Tail(from)
    BY DEF ReceivePacket
<1>2. /\ pc = "streaming" /\ to = <<>> /\ Head(from) = m /\ Len(from) >= 1 /\ Len(from) \in Nat
      /\ m.seq \in Nums /\ m.off \in Nat /\ m.req = "BURST"
      /\ \/ /\ m.code = "ACK" /\ m.off < Length[op.file]
            /\ m.data = <<Chunk(op.file, m.off)>>
         \/ m.code = "EOF"
      /\ Ends(m) => from' = <<>> /\ Len(from) = 1 /\ server.stream = NoStream
    BY <1>1, PacketFacts
<1>3. /\ \/ /\ m.code = "EOF" /\ EofEnds
            /\ EndsBurst(burst, TRUE) /\ seq' = n /\ UNCHANGED to
         \/ /\ m.code = "EOF" /\ ~EofEnds /\ burst.retries < MaxRetries
            /\ StreamsOn(retried) /\ Requests(n, burst.received)
         \/ /\ \/ m.code = "EOF" /\ ~EofEnds /\ burst.retries >= MaxRetries
               \/ m.code \notin {"EOF", "ACK"}
            /\ EndsBurst(burst, FALSE) /\ seq' = n /\ UNCHANGED to
         \/ /\ m.code = "ACK" /\ b.received >= op.size
            /\ EndsBurst(b, TRUE) /\ seq' = n /\ UNCHANGED to
         \/ /\ m.code = "ACK" /\ b.received < op.size /\ m.last
            /\ StreamsOn(b) /\ Requests(n, b.received)
         \/ /\ m.code = "ACK" /\ b.received < op.size /\ ~m.last
            /\ StreamsOn(b) /\ seq' = n /\ UNCHANGED to
      /\ UNCHANGED <<wait, server, disk, lostTail>>
    BY <1>2 DEF ReceivePacket, vehicle
<1>4. n \in Nums
    BY <1>2, AdoptedIs DEF FtpInv, LinkType
<1>5. /\ op.file \in Files /\ op.size \in Nat /\ op.size > 0 /\ Sized(op.size, op.file)
      /\ Length[op.file] \in Nat /\ Holds(burst) /\ burst \in Bursts /\ burst.received < op.size
      /\ burst.received \in Nat /\ burst.high \in Nat
    BY <1>2, StreamingFacts
<1>6. /\ server.fd.file = op.file /\ server.fd.mode = "r" /\ IsPacket(server.last)
      /\ IsData(m) /\ server.stream # NoStream => m.off < server.stream.off
    BY <1>2 DEF FtpInv, BurstInv, Streaming
<1>7. \/ burst.high = Length[op.file] \/ lostTail
      \/ IsData(m) /\ m.off = Length[op.file] - 1
      \/ ~IsEof(m) /\ ~IsEof(server.last)
      \/ Len(from) # 1
    <2> SUFFICES ASSUME Len(from) = 1, IsEof(m) \/ IsEof(server.last)
                 PROVE  \/ burst.high = Length[op.file] \/ lostTail
                        \/ IsData(m) /\ m.off = Length[op.file] - 1
        OBVIOUS
    <2>1. 1 \in 1..Len(from) /\ \A i \in 1..Len(from) : i = 1
        BY <1>2
    <2> QED BY <1>2, <2>1 DEF FtpInv, BurstInv, TailInv
<1>8. m.code = "ACK" =>
        /\ Holds(b) /\ b.high >= burst.high /\ b.high >= m.off + 1 /\ b.received >= burst.received
        /\ b.received = burst.received \/ b.received = m.off + 1
    BY <1>2, <1>5, LandedHolds
<1>9. ASSUME m.code = "ACK"
      PROVE  /\ b.received \in Nat /\ b.high \in Nat /\ b.received <= b.high
             /\ b.high <= Length[op.file]
             /\ burst.high = Length[op.file] => b.high = Length[op.file]
             /\ m.off = Length[op.file] - 1 => b.high = Length[op.file]
    <2>1. /\ b.received \in Nat /\ b.high \in Nat /\ b.received <= b.high
          /\ b.high <= Length[op.file]
        BY <1>8, <1>9, BurstFields DEF Holds
    <2> QED BY <1>2, <1>5, <1>8, <1>9, <2>1
<1>10. m.code = "EOF" => IsEof(m) /\ Ends(m) /\ ~IsData(m)
    BY <1>2 DEF IsEof, Ends, IsData
<1>11. m.code = "ACK" => ~IsEof(m) /\ IsData(m) /\ (m.last => Ends(m))
    BY <1>2 DEF IsEof, Ends, IsData
<1>12. m.code = "EOF" => burst.high = Length[op.file] \/ lostTail
    BY <1>2, <1>7, <1>10
<1> HIDE DEF n, b, retried, m
<1>13. CASE m.code = "EOF" /\ EofEnds /\ EndsBurst(burst, TRUE) /\ seq' = n /\ UNCHANGED to
    <2>1. burst.received = burst.high
        BY <1>5, <1>13 DEF EofEnds, Holds
    <2> QED BY <1>1, <1>2, <1>3, <1>4, <1>5, <1>10, <1>12, <1>13, <2>1, EndsKeeps
<1>14. CASE m.code = "EOF" /\ StreamsOn(retried) /\ Requests(n, burst.received)
    <2>1. /\ retried \in Bursts /\ retried.received = burst.received /\ retried.high = burst.high
          /\ retried.buf = burst.buf
        BY <1>5 DEF Bursts, retried
    <2>2. Holds(retried)
        BY <1>5, <2>1 DEF Holds
    <2> QED BY <1>2, <1>3, <1>4, <1>5, <1>6, <1>10, <1>12, <1>14, <2>1, <2>2, RequestsKeeps
<1>15. CASE m.code = "EOF" /\ EndsBurst(burst, FALSE) /\ seq' = n /\ UNCHANGED to
    BY <1>1, <1>2, <1>3, <1>4, <1>5, <1>10, <1>15, EndsKeeps
<1>16. CASE m.code = "ACK" /\ b.received >= op.size /\ EndsBurst(b, TRUE) /\ seq' = n /\ UNCHANGED to
    <2>1. op.size >= Length[op.file]
        BY <1>5 DEF Sized
    <2>2. b.received = Length[op.file] /\ b.received # burst.received
        BY <1>5, <1>9, <1>16, <2>1
    <2>3. b.received = m.off + 1
        BY <1>8, <1>16, <2>2
    <2>4. server.stream # NoStream => server.stream.off >= Length[server.fd.file]
        <3> SUFFICES ASSUME server.stream # NoStream PROVE server.stream.off >= Length[op.file]
            BY <1>6
        <3>1. m.off < server.stream.off /\ server.stream.off \in Nat
            BY <1>6, <1>11, <1>16, ServerFields DEF Streams, FtpInv
        <3> QED BY <1>2, <1>5, <2>2, <2>3, <3>1
    <2> QED BY <1>1, <1>3, <1>4, <1>8, <1>16, <2>2, <2>4, EndsKeeps
<1>17. CASE m.code = "ACK" /\ b.received < op.size /\ m.last /\ StreamsOn(b) /\ Requests(n, b.received)
    <2>1. from' = <<>> /\ Len(from) = 1 /\ server.stream = NoStream
        BY <1>2, <1>11, <1>17
    <2>2. IsEof(server.last) => b.high = Length[op.file] \/ lostTail
        BY <1>7, <1>9, <1>17, <2>1
    <2> QED BY <1>2, <1>3, <1>4, <1>6, <1>8, <1>17, <2>1, <2>2, RequestsKeeps
<1>18. CASE m.code = "ACK" /\ b.received < op.size /\ StreamsOn(b) /\ seq' = n /\ UNCHANGED to
    BY <1>1, <1>3, <1>4, <1>18, TakesKeeps DEF m, b
<1> QED BY <1>2, <1>3, <1>13, <1>14, <1>15, <1>16, <1>17, <1>18

\* An answer of the server.
LEMMA ServedIs ==
    ASSUME LinkType, NEW r \in Requested, NEW fd \in Handles, fd.mode # "none" => fd.file \in Files,
           NEW code \in Codes, NEW data \in Seq(Chunks), Served(r, fd, code, data)
    PROVE  LET e == Reply(NextSeq(r.seq), code, r.req, r.off, data, FALSE)
           IN /\ e \in Replies /\ from' = Append(from, e) /\ server' \in Servers
              /\ server'.fd = fd /\ server'.seq = NextSeq(r.seq) /\ server'.last = e
              /\ server'.stream = server.stream
<1> DEFINE e == Reply(NextSeq(r.seq), code, r.req, r.off, data, FALSE)
<1>1. e \in Replies
    BY NextNum DEF Reply, Replies, Requested
<1>2. NextSeq(r.seq) \in Nums
    BY NextNum DEF Requested
<1>3. /\ from' = Append(from, e)
      /\ server' = [server EXCEPT !.fd = fd, !.seq = NextSeq(r.seq), !.last = e]
    BY DEF Served
<1> HIDE DEF e
<1>4. /\ server' \in Servers /\ server'.fd = fd /\ server'.seq = NextSeq(r.seq)
      /\ server'.last = e /\ server'.stream = server.stream
    BY <1>1, <1>2, <1>3 DEF LinkType, Servers
<1> QED BY <1>1, <1>3, <1>4 DEF e

\* An answer on an idle link.
LEMMA ServedAlone ==
    ASSUME LinkType, from = <<>>, NEW r \in Requested, NEW fd \in Handles,
           fd.mode # "none" => fd.file \in Files,
           NEW code \in Codes, NEW data \in Seq(Chunks), Served(r, fd, code, data)
    PROVE  /\ Len(from') = 1 /\ from'[1].code = code /\ from'[1].data = data
           /\ from'[1].seq = NextSeq(r.seq) /\ from'[1].req = r.req
           /\ server'.fd = fd /\ server'.seq = NextSeq(r.seq)
           /\ server'.stream = server.stream
<1> DEFINE e == Reply(NextSeq(r.seq), code, r.req, r.off, data, FALSE)
<1>1. /\ e \in Replies /\ from' = Append(from, e) /\ server'.fd = fd
      /\ server'.seq = NextSeq(r.seq) /\ server'.stream = server.stream
    BY ServedIs
<1>2. e.seq = NextSeq(r.seq) /\ e.code = code /\ e.data = data /\ e.req = r.req
    BY DEF Reply
<1> HIDE DEF e
<1>3. from \in Seq(Replies) /\ Len(from) = 0
    BY DEF LinkType
<1>4. Len(from') = 1 /\ from'[1] = e
    BY <1>1, <1>3, AppendIs
<1> QED BY <1>1, <1>2, <1>4

\* An answer, by what its reader looks at.
LEMMA ServedSome ==
    ASSUME LinkType, NEW r \in Requested, NEW fd \in Handles, fd.mode # "none" => fd.file \in Files,
           NEW code \in Codes, NEW data \in Seq(Chunks), Served(r, fd, code, data)
    PROVE  \E e \in Replies :
             /\ from' = Append(from, e) /\ e.seq = NextSeq(r.seq) /\ e.code = code
             /\ e.req = r.req /\ server'.fd = fd /\ server'.seq = NextSeq(r.seq)
             /\ server'.last = e /\ server'.stream = server.stream
<1> DEFINE e == Reply(NextSeq(r.seq), code, r.req, r.off, data, FALSE)
<1>1. /\ e \in Replies /\ from' = Append(from, e) /\ server'.fd = fd
      /\ server'.seq = NextSeq(r.seq) /\ server'.last = e /\ server'.stream = server.stream
    BY ServedIs
<1>2. e.seq = NextSeq(r.seq) /\ e.code = code /\ e.req = r.req
    BY DEF Reply
<1> HIDE DEF e
<1> QED BY <1>1, <1>2

\* What the server may do with a request that is no repetition: answer it, or start
\* to stream.
Answers(r) ==
  \E fd \in Handles, code \in Codes, data \in Seq(Chunks) :
    Served(r, fd, code, data) /\ (fd.mode # "none" => fd.file \in Files)
Streamed(r) ==
  /\ r.req = "BURST" /\ server.fd.mode = "r"
  /\ server' = [server EXCEPT !.seq = NextSeq(r.seq),
                              !.stream = [off |-> r.off, left |-> BurstLength]]
  /\ UNCHANGED from

\* ServeRead answers, or streams when a burst of a file that is open is asked for.
LEMMA ServeReadIs ==
    ASSUME LinkType, NEW r \in Requested, ServeRead(r)
    PROVE  Streamed(r) \/ (Answers(r) /\ (r.req = "BURST" => server.fd.mode # "r"))
<1> DEFINE fd == server.fd
<1>1. /\ r.file \in Files /\ r.off \in Nat /\ server.fd \in Handles
      /\ server.fd.mode # "none" => server.fd.file \in Files
    BY ServerFields DEF LinkType, Requested
<1>2. /\ <<>> \in Seq(Chunks) /\ {"ACK", "FAIL", "OTHER", "EOF"} \subseteq Codes
      /\ \A f \in Files, i \in Nat : <<Chunk(f, i)>> \in Seq(Chunks)
    BY EmptySeq DEF Codes, Chunk, Chunks
<1>3. [file |-> r.file, mode |-> "r", got |-> {}] \in Handles
    BY <1>1 DEF Handles
<1>4. CASE \/ Served(r, fd, "FAIL", <<>>) /\ r.req # "BURST"
           \/ Served(r, fd, "OTHER", <<>>) /\ (r.req = "BURST" => fd.mode # "r")
           \/ Served(r, fd, "EOF", <<>>) /\ r.req # "BURST"
    BY <1>1, <1>2, <1>4 DEF Answers
<1>5. CASE Served(r, [file |-> r.file, mode |-> "r", got |-> {}], "ACK", <<>>) /\ r.req # "BURST"
    BY <1>1, <1>2, <1>3, <1>5 DEF Answers
<1>6. CASE fd.mode = "r" /\ Served(r, fd, "ACK", <<Chunk(fd.file, r.off)>>) /\ r.req # "BURST"
    BY <1>1, <1>2, <1>6 DEF Answers
<1>7. CASE Served(r, fd, "ACK", <<Chunk(r.file, r.off)>>) /\ r.req # "BURST"
    BY <1>1, <1>2, <1>7 DEF Answers
<1>8. CASE Streamed(r)
    BY <1>8
<1> QED BY <1>4, <1>5, <1>6, <1>7, <1>8 DEF ServeRead, Streamed

\* ServeClose and ServeWrite answer, and leave something known under every path.
LEMMA ServeElseIs ==
    ASSUME LinkType, NEW r \in Requested, ServeClose(r) \/ ServeWrite(r)
    PROVE  /\ Answers(r) /\ r.req # "BURST"
           /\ disk' \in [Files -> {"old", "new", "part", "absent"}]
<1> DEFINE fd == server.fd
<1>1. /\ r.file \in Files /\ r.off \in Nat /\ server.fd \in Handles
      /\ server.fd.mode # "none" => server.fd.file \in Files
      /\ server.fd.got \in SUBSET Nat
      /\ disk \in [Files -> {"old", "new", "part", "absent"}]
    BY ServerFields DEF LinkType, Requested
<1>2. <<>> \in Seq(Chunks) /\ {"ACK", "FAIL", "OTHER", "EXISTS"} \subseteq Codes
    BY EmptySeq DEF Codes
<1>3. /\ NoFile \in Handles /\ NoFile.mode = "none"
      /\ [file |-> r.file, mode |-> "w", got |-> {}] \in Handles
    BY <1>1 DEF Handles, NoFile
<1>4. [fd EXCEPT !.got = @ \cup {r.off}] \in Handles /\ [fd EXCEPT !.got = @ \cup {r.off}].file = fd.file
      /\ [fd EXCEPT !.got = @ \cup {r.off}].mode = fd.mode
    BY <1>1 DEF Handles
<1>5. r.req # "BURST"
    BY DEF ServeClose, ServeWrite
<1>6. Answers(r)
    <2>1. CASE Served(r, NoFile, "ACK", <<>>) \/ Served(r, NoFile, "OTHER", <<>>)
        BY <1>2, <1>3, <2>1 DEF Answers
    <2>2. CASE \/ Served(r, fd, "FAIL", <<>>) \/ Served(r, fd, "EXISTS", <<>>)
               \/ Served(r, fd, "OTHER", <<>>) \/ Served(r, fd, "ACK", <<>>)
        BY <1>1, <1>2, <2>2 DEF Answers
    <2>3. CASE Served(r, [file |-> r.file, mode |-> "w", got |-> {}], "ACK", <<>>)
        BY <1>1, <1>2, <1>3, <2>3 DEF Answers
    <2>4. CASE Served(r, [fd EXCEPT !.got = @ \cup {r.off}], "ACK", <<>>)
        BY <1>1, <1>2, <1>4, <2>4 DEF Answers
    <2> QED BY <2>1, <2>2, <2>3, <2>4 DEF ServeClose, ServeWrite
<1>7. disk' \in [Files -> {"old", "new", "part", "absent"}]
    BY <1>1 DEF ServeClose, ServeWrite
<1> QED BY <1>5, <1>6, <1>7

\* What the server does with the oldest request.
LEMMA ServeIs ==
    ASSUME LinkType, Serve
    PROVE  /\ to # <<>> /\ Head(to) = to[1] /\ to[1] \in Requested /\ Len(to) \in Nat /\ Len(to) >= 1
           /\ to' = Tail(to) /\ to' \in Seq(Requested) /\ Len(to') = Len(to) - 1
           /\ (to' = <<>> <=> Len(to) = 1)
           /\ \A i \in 1..(Len(to) - 1) : to'[i] = to[i + 1]
           /\ server.stream = NoStream
           /\ UNCHANGED <<pc, op, burst, wait, seq, result, lostTail>>
           /\ \/ /\ Repeats(to[1]) /\ from' = Append(from, [server.last EXCEPT !.seq = server.seq])
                 /\ UNCHANGED <<server, disk>>
              \/ ~Repeats(to[1]) /\ ServeRead(to[1]) /\ UNCHANGED disk
              \/ ~Repeats(to[1]) /\ (ServeClose(to[1]) \/ ServeWrite(to[1]))
<1>1. to # <<>> /\ to \in Seq(Requested)
    BY DEF Serve, LinkType
<1>2. /\ Head(to) = to[1] /\ to[1] \in Requested /\ Len(to) \in Nat /\ Len(to) >= 1
      /\ Tail(to) \in Seq(Requested) /\ Len(Tail(to)) = Len(to) - 1
      /\ (Tail(to) = <<>> <=> Len(to) = 1)
      /\ \A i \in 1..(Len(to) - 1) : Tail(to)[i] = to[i + 1]
    BY <1>1, TailIs
<1>3. to' = Tail(to)
    BY DEF Serve
<1> QED BY <1>1, <1>2, <1>3 DEF Serve, client, vehicle

\* A repeated reply.
LEMMA RepeatedIs ==
    ASSUME LinkType
    PROVE  LET e == [server.last EXCEPT !.seq = server.seq]
           IN /\ e \in Replies /\ e.seq = server.seq /\ e.code = server.last.code
              /\ e.req = server.last.req /\ e.off = server.last.off /\ e.data = server.last.data
              /\ e.last = server.last.last
BY ServerFields DEF Replies

\* The types stand.
LEMMA ServeTypes ==
    ASSUME LinkType, Serve
    PROVE  LinkType'
<1>1. /\ to[1] \in Requested /\ to' \in Seq(Requested) /\ UNCHANGED <<wait, seq, lostTail>>
      /\ \/ /\ from' = Append(from, [server.last EXCEPT !.seq = server.seq])
            /\ UNCHANGED <<server, disk>>
         \/ ServeRead(to[1]) /\ UNCHANGED disk
         \/ ServeClose(to[1]) \/ ServeWrite(to[1])
    BY ServeIs
<1>2. from \in Seq(Replies)
    BY DEF LinkType
<1>3. CASE /\ from' = Append(from, [server.last EXCEPT !.seq = server.seq])
           /\ UNCHANGED <<server, disk>>
    <2>1. from' \in Seq(Replies)
        BY <1>2, <1>3, RepeatedIs, AppendIs
    <2> QED BY <1>1, <1>3, <2>1 DEF LinkType
<1>4. CASE Answers(to[1]) /\ disk' \in [Files -> {"old", "new", "part", "absent"}]
    <2>1. PICK fd \in Handles, code \in Codes, data \in Seq(Chunks) :
             Served(to[1], fd, code, data) /\ (fd.mode # "none" => fd.file \in Files)
        BY <1>4 DEF Answers
    <2>2. PICK e \in Replies : from' = Append(from, e) /\ server' \in Servers /\ server'.fd = fd
        BY <1>1, <2>1, ServedIs
    <2>3. from' \in Seq(Replies)
        BY <1>2, <2>2, AppendIs
    <2> QED BY <1>1, <1>4, <2>1, <2>2, <2>3 DEF LinkType
<1>5. CASE Streamed(to[1]) /\ UNCHANGED disk
    <2>1. to[1].off \in Nat /\ NextSeq(to[1].seq) \in Nums
        BY <1>1, NextNum DEF Requested
    <2>2. [off |-> to[1].off, left |-> BurstLength] \in Streams
        BY <2>1, BurstAssumption DEF Streams
    <2>3. server' \in Servers /\ server'.fd = server.fd
        BY <1>5, <2>1, <2>2 DEF Streamed, LinkType, Servers
    <2> QED BY <1>1, <1>5, <2>3 DEF LinkType, Streamed
<1>6. disk \in [Files -> {"old", "new", "part", "absent"}]
    BY DEF LinkType
<1> QED BY <1>1, <1>3, <1>4, <1>5, <1>6, ServeReadIs, ServeElseIs

\* What is not a burst is answered at once, with the next number.
LEMMA AnswerIs ==
    ASSUME LinkType, Serve, to[1].req # "BURST"
    PROVE  \E e \in Replies :
             /\ from' = Append(from, e) /\ e.seq = NextSeq(to[1].seq)
             /\ server'.seq = NextSeq(to[1].seq) /\ server'.stream = NoStream
<1>1. /\ to[1] \in Requested /\ server.stream = NoStream
      /\ \/ /\ Repeats(to[1]) /\ from' = Append(from, [server.last EXCEPT !.seq = server.seq])
            /\ UNCHANGED <<server, disk>>
         \/ ServeRead(to[1])
         \/ ServeClose(to[1]) \/ ServeWrite(to[1])
    BY ServeIs
<1>2. CASE Repeats(to[1]) /\ from' = Append(from, [server.last EXCEPT !.seq = server.seq]) /\ server' = server
    <2>1. server.seq = NextSeq(to[1].seq)
        BY <1>2 DEF Repeats
    <2> QED BY <1>1, <1>2, <2>1, RepeatedIs
<1>3. CASE Answers(to[1])
    <2>1. PICK fd \in Handles, code \in Codes, data \in Seq(Chunks) :
             Served(to[1], fd, code, data) /\ (fd.mode # "none" => fd.file \in Files)
        BY <1>3 DEF Answers
    <2> DEFINE e == Reply(NextSeq(to[1].seq), code, to[1].req, to[1].off, data, FALSE)
    <2>2. /\ e \in Replies /\ from' = Append(from, e) /\ server'.seq = NextSeq(to[1].seq)
          /\ server'.stream = server.stream
        BY <1>1, <2>1, ServedIs
    <2>3. e.seq = NextSeq(to[1].seq)
        BY DEF Reply
    <2> QED BY <1>1, <2>2, <2>3
<1>4. ~Streamed(to[1])
    BY DEF Streamed
<1> QED BY <1>1, <1>2, <1>3, <1>4, ServeReadIs, ServeElseIs

\* The answer to a request about the file at hand.
LEMMA ServeExchange ==
    ASSUME FtpInv, Serve, AtFile, wait # NoWait
    PROVE  Exchange'
<1>1. /\ to # <<>> /\ to[1] \in Requested /\ (to' = <<>> <=> Len(to) = 1)
      /\ server.stream = NoStream /\ UNCHANGED <<pc, op, burst, wait, seq, result, lostTail>>
      /\ \/ Repeats(to[1])
         \/ ~Repeats(to[1]) /\ ServeRead(to[1]) /\ UNCHANGED disk
         \/ ~Repeats(to[1]) /\ (ServeClose(to[1]) \/ ServeWrite(to[1]))
    BY ServeIs DEF FtpInv
<1>2. /\ seq = wait /\ Len(to) = 1 /\ to[1].req = RequestOf /\ to[1].off = op.off
      /\ NextSeq(to[1].seq) = wait /\ from = <<>> /\ HasFile /\ server.seq # wait
    BY <1>1 DEF FtpInv, LinkInv, Exchange
<1>3. ~Repeats(to[1])
    BY <1>2 DEF Repeats
<1>4. /\ LinkType /\ op.file \in Files /\ op.off \in Nat /\ from \in Seq(Replies) /\ Len(from) = 0
      /\ server.fd \in Handles /\ server.fd.mode # "none"
      /\ disk \in [Files -> {"old", "new", "part", "absent"}]
      /\ pc \in {"reading", "writing", "committing"}
    <2>1. LinkType /\ op.file \in Files /\ op.off \in Nat /\ pc # "bursting"
        BY DEF FtpInv, ClientInv, ClientType, OpInv, Operations, AtFile, Waits, AwaitsReply
    <2> QED BY <1>2, <2>1, ServerFields DEF LinkType, HasFile, Mode, AtFile
<1>6. /\ {"ACK", "OTHER", "EOF"} \subseteq Codes /\ <<>> \in Seq(Chunks)
      /\ <<Chunk(op.file, op.off)>> \in Seq(Chunks)
    BY <1>4, EmptySeq DEF Codes, Chunk, Chunks
<1>7. ASSUME NEW fd \in Handles, fd.mode # "none" => fd.file \in Files, NEW code \in Codes,
             NEW data \in Seq(Chunks), Served(to[1], fd, code, data)
      PROVE  /\ Len(from') = 1 /\ from'[1].code = code /\ from'[1].data = data
             /\ from'[1].seq = wait /\ server'.fd = fd /\ server'.seq = wait
             /\ server'.stream = NoStream
    BY <1>1, <1>2, <1>4, <1>7, ServedAlone
<1>8. CASE pc = "reading"
    <2>1. to[1].req = "READ" /\ server.fd.mode = "r" /\ server.fd.file = op.file /\ op.kind # "upload"
        BY <1>2, <1>8 DEF RequestOf, HasFile, Mode, FtpInv, ClientInv, OpInv, Reads
    <2>2. \/ op.off < Length[op.file] /\ Served(to[1], server.fd, "ACK", <<Chunk(op.file, op.off)>>)
          \/ op.off >= Length[op.file] /\ Served(to[1], server.fd, "EOF", <<>>)
        BY <1>1, <1>2, <1>3, <2>1 DEF ServeRead, ServeClose, ServeWrite
    <2>3. Answered(from[1])' /\ Len(from') = 1 /\ from'[1].seq = wait /\ server'.seq = wait
          /\ server'.stream = NoStream
        <3>1. CASE op.off < Length[op.file] /\ Served(to[1], server.fd, "ACK", <<Chunk(op.file, op.off)>>)
            <4>1. /\ Len(from') = 1 /\ from'[1].code = "ACK" /\ from'[1].data = <<Chunk(op.file, op.off)>>
                  /\ from'[1].seq = wait /\ server'.fd = server.fd /\ server'.seq = wait
                  /\ server'.stream = NoStream
                BY <1>4, <1>6, <1>7, <2>1, <3>1
            <4> QED BY <1>1, <1>2, <1>8, <3>1, <4>1 DEF Answered, HasFile, Mode
        <3>2. CASE op.off >= Length[op.file] /\ Served(to[1], server.fd, "EOF", <<>>)
            <4>1. /\ Len(from') = 1 /\ from'[1].code = "EOF" /\ from'[1].seq = wait
                  /\ server'.fd = server.fd /\ server'.seq = wait /\ server'.stream = NoStream
                BY <1>4, <1>6, <1>7, <2>1, <3>2
            <4> QED BY <1>1, <1>2, <1>8, <3>2, <4>1 DEF Answered, HasFile, Mode
        <3> QED BY <2>2, <3>1, <3>2
    <2> QED BY <1>1, <1>2, <2>3 DEF Exchange
<1>9. CASE pc = "writing"
    <2>1. /\ to[1].req = "WRITE" /\ server.fd.mode = "w" /\ server.fd.file = op.file
          /\ server.fd.got = 0..(op.off - 1)
        BY <1>2, <1>9 DEF RequestOf, HasFile, Mode, FtpInv, ClientInv, OpInv
    <2> DEFINE fd == [server.fd EXCEPT !.got = @ \cup {to[1].off}]
    <2>2. Served(to[1], fd, "ACK", <<>>)
        BY <1>1, <1>3, <2>1 DEF ServeRead, ServeClose, ServeWrite
    <2>3. fd \in Handles /\ fd.mode = "w" /\ fd.file = op.file /\ fd.got = server.fd.got \cup {op.off}
        BY <1>2, <1>4, <2>1 DEF Handles
    <2> HIDE DEF fd
    <2>4. fd.got = 0..op.off
        BY <1>4, <2>1, <2>3
    <2>5. /\ Len(from') = 1 /\ from'[1].code = "ACK" /\ from'[1].seq = wait
          /\ server'.fd = fd /\ server'.seq = wait /\ server'.stream = NoStream
        BY <1>4, <1>6, <1>7, <2>2, <2>3
    <2>6. Answered(from[1])'
        BY <1>1, <1>9, <2>3, <2>4, <2>5 DEF Answered
    <2> QED BY <1>1, <1>2, <2>5, <2>6 DEF Exchange
<1>10. CASE pc = "committing"
    <2>1. op.ok /\ op.off = UploadLength /\ op.kind = "upload"
        BY <1>10 DEF AtFile, FtpInv, ClientInv, OpInv, WriteInv
    <2>2. /\ to[1].req = "TERMINATE" /\ server.fd.mode = "w" /\ server.fd.file = op.file
          /\ server.fd.got = 0..(UploadLength - 1)
        BY <1>2, <1>10, <2>1 DEF RequestOf, HasFile, Mode
    <2>3. \/ Served(to[1], NoFile, "ACK", <<>>) /\ disk' = [disk EXCEPT ![op.file] = "new"]
          \/ Served(to[1], NoFile, "OTHER", <<>>)
        BY <1>1, <1>3, <2>2 DEF ServeRead, ServeClose, ServeWrite
    <2>4. NoFile \in Handles /\ NoFile.mode = "none"
        BY DEF NoFile, Handles
    <2>5. /\ Len(from') = 1 /\ from'[1].seq = wait /\ server'.seq = wait /\ server'.stream = NoStream
          /\ from'[1].code = "ACK" => disk'[op.file] = "new"
        <3>1. CASE Served(to[1], NoFile, "ACK", <<>>) /\ disk' = [disk EXCEPT ![op.file] = "new"]
            BY <1>4, <1>6, <1>7, <2>4, <3>1
        <3>2. CASE Served(to[1], NoFile, "OTHER", <<>>)
            BY <1>6, <1>7, <2>4, <3>2
        <3> QED BY <2>3, <3>1, <3>2
    <2>6. Answered(from[1])'
        BY <1>1, <1>10, <2>5 DEF Answered
    <2> QED BY <1>1, <1>2, <2>5, <2>6 DEF Exchange
<1> QED BY <1>4, <1>8, <1>9, <1>10

\* The answer to a request that opens a file.
LEMMA OpenAnswered ==
    ASSUME FtpInv, Serve, Opens, to[1].req = RequestOf, to[1].file = op.file, ~Repeats(to[1])
    PROVE  \E e \in Replies :
             /\ from' = Append(from, e) /\ e.seq = NextSeq(to[1].seq)
             /\ server'.stream = NoStream /\ server'.seq = NextSeq(to[1].seq)
             /\ e.code = "ACK" =>
                  /\ e.req = RequestOf /\ server'.last.req = RequestOf
                  /\ server'.fd = [file |-> op.file, mode |-> Mode, got |-> {}]
<1> DEFINE new == [file |-> op.file, mode |-> Mode, got |-> {}]
<1>1. /\ to[1] \in Requested /\ server.stream = NoStream /\ LinkType
      /\ ServeRead(to[1]) \/ ServeClose(to[1]) \/ ServeWrite(to[1])
    BY ServeIs DEF FtpInv
<1>2. /\ op.file \in Files
      /\ \/ to[1].req = "OPEN" /\ Mode = "r"
         \/ to[1].req = "CREATE" /\ Mode = "w"
    <2>1. op.file \in Files
        BY DEF FtpInv, ClientInv, OpInv, Opens
    <2>2. CASE pc \in {"opening", "reopening"}
        <3>1. op.kind \in Reads
            BY <2>2 DEF FtpInv, ClientInv, OpInv
        <3> QED BY <2>1, <2>2, <3>1 DEF RequestOf, Mode, Reads
    <2>3. CASE pc \in {"creating", "recreating"}
        <3>1. op.kind = "upload"
            BY <2>3 DEF FtpInv, ClientInv, OpInv
        <3> QED BY <2>1, <2>3, <3>1 DEF RequestOf, Mode
    <2> QED BY <2>2, <2>3 DEF Opens
<1>3. /\ server.fd \in Handles /\ (server.fd.mode # "none" => server.fd.file \in Files)
      /\ new \in Handles /\ new.file = op.file
    BY <1>1, <1>2, ServerFields DEF LinkType, Handles
<1>4. {"ACK", "FAIL", "OTHER", "EXISTS"} \subseteq Codes /\ <<>> \in Seq(Chunks)
    BY EmptySeq DEF Codes
<1> HIDE DEF new
<1>5. \/ \E code \in {"FAIL", "OTHER", "EXISTS"} : Served(to[1], server.fd, code, <<>>)
      \/ Served(to[1], new, "ACK", <<>>)
    BY <1>1, <1>2 DEF ServeRead, ServeClose, ServeWrite, new
<1>6. ASSUME NEW fd \in Handles, fd.mode # "none" => fd.file \in Files, NEW code \in Codes,
             Served(to[1], fd, code, <<>>), code = "ACK" => fd = new
      PROVE  \E e \in Replies :
               /\ from' = Append(from, e) /\ e.seq = NextSeq(to[1].seq)
               /\ server'.stream = NoStream /\ server'.seq = NextSeq(to[1].seq)
               /\ e.code = "ACK" =>
                    e.req = RequestOf /\ server'.last.req = RequestOf /\ server'.fd = new
    <2>1. \E e \in Replies :
             /\ from' = Append(from, e) /\ e.seq = NextSeq(to[1].seq) /\ e.code = code
             /\ e.req = to[1].req /\ server'.fd = fd /\ server'.seq = NextSeq(to[1].seq)
             /\ server'.last = e /\ server'.stream = server.stream
        BY <1>1, <1>4, <1>6, ServedSome
    <2> QED BY <1>1, <1>6, <2>1
<1>7. \E e \in Replies :
         /\ from' = Append(from, e) /\ e.seq = NextSeq(to[1].seq)
         /\ server'.stream = NoStream /\ server'.seq = NextSeq(to[1].seq)
         /\ e.code = "ACK" =>
              e.req = RequestOf /\ server'.last.req = RequestOf /\ server'.fd = new
    <2>1. CASE \E code \in {"FAIL", "OTHER", "EXISTS"} : Served(to[1], server.fd, code, <<>>)
        <3>1. PICK code \in {"FAIL", "OTHER", "EXISTS"} : Served(to[1], server.fd, code, <<>>)
            BY <2>1
        <3>2. code \in Codes /\ code # "ACK"
            BY <1>4
        <3> QED BY <1>3, <1>6, <3>1, <3>2
    <2>2. CASE Served(to[1], new, "ACK", <<>>)
        BY <1>2, <1>3, <1>4, <1>6, <2>2
    <2> QED BY <1>5, <2>1, <2>2
<1> QED BY <1>7 DEF new

\* The vehicle takes a request while a file is being opened.
LEMMA ServeOpening ==
    ASSUME FtpInv, Serve, ~NumberReused, Opens, wait # NoWait
    PROVE  Opening'
<1>1. /\ to # <<>> /\ Len(to) \in Nat /\ Len(to) >= 1 /\ Len(to') = Len(to) - 1
      /\ (to' = <<>> <=> Len(to) = 1) /\ server.stream = NoStream /\ Head(to) = to[1]
      /\ \A i \in 1..(Len(to) - 1) : to'[i] = to[i + 1]
      /\ UNCHANGED <<pc, op, burst, wait, seq, result, lostTail>>
    BY ServeIs DEF FtpInv
<1>2. /\ to[Len(to)].req = RequestOf /\ to[Len(to)].file = op.file
      /\ NextSeq(to[Len(to)].seq) = wait
      /\ \A i \in 1..(Len(to) - 1) : NextSeq(to[i].seq) # wait
      /\ \A i \in 1..Len(from) : from[i].seq # wait
    BY <1>1 DEF FtpInv, LinkInv, Opening
<1>3. from \in Seq(Replies) /\ pc # "streaming"
    BY DEF FtpInv, LinkType, Opens
<1>4. ASSUME NEW e \in Replies, from' = Append(from, e)
      PROVE  /\ Len(from') \in Nat /\ Len(from') >= 1 /\ from'[Len(from')] = e
             /\ \A i \in 1..(Len(from') - 1) : from'[i].seq # wait
    <2>1. /\ Len(from) \in Nat /\ Len(from') = Len(from) + 1 /\ from'[Len(from) + 1] = e
          /\ \A i \in 1..Len(from) : from'[i] = from[i]
        BY <1>3, <1>4, AppendIs
    <2> QED BY <1>2, <2>1
<1>5. CASE Len(to) = 1
    <2>1. ~Repeats(to[1])
        BY <1>1, <1>2, <1>5 DEF NumberReused, Opens, RequestOf
    <2>2. PICK e \in Replies :
             /\ from' = Append(from, e) /\ e.seq = NextSeq(to[1].seq)
             /\ server'.stream = NoStream /\ server'.seq = NextSeq(to[1].seq)
             /\ e.code = "ACK" =>
                  /\ e.req = RequestOf /\ server'.last.req = RequestOf
                  /\ server'.fd = [file |-> op.file, mode |-> Mode, got |-> {}]
        BY <1>2, <1>5, <2>1, OpenAnswered
    <2>3. from'[Len(from')] = e /\ \A i \in 1..(Len(from') - 1) : from'[i].seq # wait
        BY <1>4, <2>2
    <2>4. Opened(from[Len(from)])'
        BY <1>1, <1>2, <1>5, <2>2, <2>3 DEF Opened, RequestOf, Mode
    <2> QED BY <1>1, <1>5, <2>2, <2>3, <2>4 DEF Opening
<1>6. CASE Len(to) # 1
    <2>1. 1 \in 1..(Len(to) - 1) /\ 1 \in 1..Len(to)
        BY <1>1, <1>6
    <2>2. to[1].req # "BURST" /\ NextSeq(to[1].seq) # wait
        BY <1>2, <1>3, <2>1 DEF FtpInv, LinkInv, Trailing
    <2>3. PICK e \in Replies :
             /\ from' = Append(from, e) /\ e.seq = NextSeq(to[1].seq)
             /\ server'.seq = NextSeq(to[1].seq) /\ server'.stream = NoStream
        BY <2>2, AnswerIs DEF FtpInv
    <2>4. /\ Len(from') \in Nat /\ Len(from') >= 1 /\ from'[Len(from')] = e
          /\ \A i \in 1..(Len(from') - 1) : from'[i].seq # wait
        BY <1>4, <2>3
    <2>5. \A i \in 1..Len(from') : from'[i].seq # wait
        BY <2>2, <2>3, <2>4
    <2>6. to' # <<>> /\ to'[Len(to')] = to[Len(to)]
        BY <1>1, <1>6
    <2>7. ASSUME NEW i \in 1..(Len(to') - 1) PROVE NextSeq(to'[i].seq) # wait
        <3>1. i \in 1..(Len(to) - 1) /\ i + 1 \in 1..(Len(to) - 1)
            BY <1>1
        <3>2. to'[i] = to[i + 1]
            BY <1>1, <3>1
        <3> QED BY <1>2, <3>1, <3>2
    <2> QED BY <1>1, <1>2, <2>3, <2>5, <2>6, <2>7 DEF Opening, RequestOf
<1> QED BY <1>5, <1>6

\* A burst is asked for: the vehicle streams, or says its last packet again.
LEMMA ServeBurst ==
    ASSUME FtpInv, Serve, pc = "streaming"
    PROVE  /\ BurstInv' /\ to' = <<>> /\ (server'.stream # NoStream => server'.fd.mode = "r")
<1>1. /\ to # <<>> /\ (to' = <<>> <=> Len(to) = 1) /\ server.stream = NoStream
      /\ to[1] \in Requested /\ LinkType
      /\ UNCHANGED <<pc, op, burst, wait, seq, result, lostTail>>
      /\ \/ /\ from' = Append(from, [server.last EXCEPT !.seq = server.seq])
            /\ UNCHANGED <<server, disk>>
         \/ ServeRead(to[1]) /\ UNCHANGED disk
         \/ ServeClose(to[1]) \/ ServeWrite(to[1])
    BY ServeIs DEF FtpInv
<1>2. /\ Len(to) = 1 /\ to[1].req = "BURST" /\ to[1].off = burst.received /\ from = <<>>
      /\ server.fd.file = op.file /\ server.fd.mode = "r" /\ IsPacket(server.last)
    BY <1>1 DEF FtpInv, BurstInv, Streaming
<1>3. Frontiers'
    BY <1>1 DEF FtpInv, BurstInv, Frontiers
<1>4. IsEof(server.last) => burst.high = Length[op.file] \/ lostTail
    <2>1. 1..Len(from) = {}
        BY <1>2
    <2> QED BY <2>1 DEF FtpInv, BurstInv, TailInv
<1>5. /\ burst.received \in Nat /\ burst.high \in Nat /\ Length[op.file] \in Nat
      /\ burst.received <= burst.high /\ burst.high <= Length[op.file]
    BY StreamingFacts DEF Holds
<1>6. CASE /\ from' = Append(from, [server.last EXCEPT !.seq = server.seq])
           /\ UNCHANGED <<server, disk>>
    <2> DEFINE e == [server.last EXCEPT !.seq = server.seq]
    <2>1. /\ e \in Replies /\ e.code = server.last.code /\ e.req = server.last.req
          /\ e.off = server.last.off /\ e.data = server.last.data
        BY <1>1, RepeatedIs
    <2> HIDE DEF e
    <2>2. from \in Seq(Replies) /\ Len(from) = 0 /\ from' = Append(from, e)
        BY <1>1, <1>2, <1>6 DEF LinkType, e
    <2>3. Len(from') = 1 /\ from'[1] = e
        BY <2>1, <2>2, AppendIs
    <2>4. 1 \in 1..Len(from') /\ \A i \in 1..Len(from') : i = 1
        BY <2>3
    <2>5. IsPacket(e)
        BY <1>2, <2>1 DEF IsPacket
    <2>6. (\A i \in 1..Len(from) : IsPacket(from[i]))' /\ IsPacket(server.last)'
        BY <1>1, <1>2, <1>6, <2>3, <2>4, <2>5 DEF IsPacket
    <2>7. Streaming'
        BY <1>1, <1>2, <1>6, <2>3, <2>4, <2>6 DEF Streaming
    <2>8. TailInv'
        BY <1>1, <1>4, <1>6, <2>1, <2>3, <2>4 DEF TailInv, IsEof
    <2> QED BY <1>1, <1>2, <1>3, <1>6, <2>7, <2>8 DEF BurstInv
<1>7. CASE Streamed(to[1])
    <2>1. /\ server'.fd = server.fd /\ server'.last = server.last
          /\ server'.stream.off = burst.received /\ from' = from
        BY <1>1, <1>2, <1>7 DEF Streamed, LinkType, Servers
    <2>2. 1..Len(from') = {}
        BY <1>2, <2>1
    <2>3. Streaming'
        BY <1>1, <1>2, <2>1, <2>2 DEF Streaming, IsPacket
    <2>4. TailInv'
        BY <1>1, <1>2, <1>4, <1>5, <2>1, <2>2 DEF TailInv, IsEof
    <2> QED BY <1>1, <1>2, <1>3, <2>1, <2>3, <2>4 DEF BurstInv
<1> QED BY <1>1, <1>2, <1>6, <1>7, ServeReadIs, ServeElseIs

\* The server takes a request.
LEMMA ServeKeeps ==
    ASSUME FtpInv, Serve, ~NumberReused
    PROVE  FtpInv'
<1>1. /\ to # <<>> /\ Len(to) \in Nat /\ Len(to) >= 1 /\ Len(to') = Len(to) - 1
      /\ server.stream = NoStream /\ UNCHANGED <<pc, op, burst, wait, seq, result, lostTail>>
      /\ \A i \in 1..(Len(to) - 1) : to'[i] = to[i + 1]
    BY ServeIs DEF FtpInv
<1>2. ClientInv' /\ LinkType'
    BY <1>1, ClientKeeps, ServeTypes DEF FtpInv
<1>3. Waits' /\ Stored'
    BY <1>1 DEF FtpInv, Waits, AwaitsReply, Stored
<1>4. Ready'
    BY <1>1 DEF FtpInv, LinkInv, Ready, AtFile, Silent
<1>5. Exchange'
    BY <1>1, ServeExchange DEF Exchange, AtFile
<1>6. Opening'
    BY <1>1, ServeOpening DEF Opening, Opens
<1>7. CASE pc = "streaming"
    <2>1. /\ BurstInv' /\ to' = <<>> /\ (server'.stream # NoStream => server'.fd.mode = "r")
        BY <1>7, ServeBurst
    <2>2. Trailing'
        BY <1>1, <1>7, <2>1 DEF Trailing
    <2> QED BY <1>2, <1>3, <1>4, <1>5, <1>6, <2>1, <2>2 DEF FtpInv, LinkInv
<1>8. CASE pc # "streaming"
    <2>1. \A i \in 1..Len(to) : to[i].req # "BURST"
        BY <1>8 DEF FtpInv, LinkInv, Trailing
    <2>2. to[1].req # "BURST" /\ \A i \in 1..Len(to') : to'[i].req # "BURST"
        BY <1>1, <2>1
    <2>3. server'.stream = NoStream
        BY <2>2, AnswerIs DEF FtpInv
    <2>4. Trailing' /\ BurstInv'
        BY <1>1, <1>8, <2>2, <2>3, NotStreaming DEF Trailing
    <2> QED BY <1>2, <1>3, <1>4, <1>5, <1>6, <2>4 DEF FtpInv, LinkInv
<1> QED BY <1>7, <1>8

\* What the server streams: a chunk of the file it has open, or its end.
LEMMA StreamIs ==
    ASSUME LinkType, Trailing, Stream
    PROVE  /\ server.stream # NoStream /\ server.stream.off \in Nat /\ server.fd.mode = "r"
           /\ server.fd.file \in Files /\ LinkType' /\ server'.fd = server.fd /\ from \in Seq(Replies)
           /\ UNCHANGED <<pc, op, burst, wait, seq, to, disk, result, lostTail>>
           /\ \E e \in Replies :
                /\ from' = Append(from, e) /\ e.req = "BURST" /\ e.off = server.stream.off
                /\ e.seq = server.seq /\ server'.last = e
                /\ \/ /\ server.stream.off < Length[server.fd.file] /\ e.code = "ACK"
                      /\ e.data = <<Chunk(server.fd.file, server.stream.off)>>
                      /\ e.last => server'.stream = NoStream
                      /\ \/ server'.stream = NoStream
                         \/ server'.stream.off = server.stream.off + 1
                   \/ /\ server.stream.off >= Length[server.fd.file] /\ e.code = "EOF"
                      /\ server'.stream = NoStream /\ server'.seq = server.seq
<1> DEFINE s == server.stream
           f == server.fd.file
           data == Reply(server.seq, "ACK", "BURST", s.off, <<Chunk(f, s.off)>>, s.left = 1)
           eof == Reply(server.seq, "EOF", "BURST", s.off, <<>>, FALSE)
<1>1. /\ s # NoStream /\ server.fd.mode = "r" /\ f \in Files /\ server.seq \in Nums
      /\ s \in Streams /\ from \in Seq(Replies) /\ server \in Servers
    BY ServerFields DEF Stream, Trailing, LinkType
<1>2. s.off \in Nat /\ s.left \in Nat \ {0}
    BY <1>1 DEF Streams
<1>3. {"ACK", "EOF"} \subseteq Codes /\ "BURST" \in Commands /\ Chunk(f, s.off) \in Chunks
    BY <1>1, <1>2 DEF Codes, Commands, Chunk, Chunks
<1>4. <<>> \in Seq(Chunks) /\ <<Chunk(f, s.off)>> \in Seq(Chunks)
    BY <1>3, EmptySeq
<1>5. /\ data \in Replies /\ data.req = "BURST" /\ data.off = s.off /\ data.seq = server.seq
      /\ data.code = "ACK" /\ data.data = <<Chunk(f, s.off)>> /\ data.last = (s.left = 1)
    <2>1. (s.left = 1) \in BOOLEAN
        OBVIOUS
    <2> HIDE DEF s, f
    <2> QED BY <1>1, <1>2, <1>3, <1>4, <2>1 DEF Reply, Replies
<1>6. /\ eof \in Replies /\ eof.req = "BURST" /\ eof.off = s.off /\ eof.seq = server.seq
      /\ eof.code = "EOF"
    <2> HIDE DEF s, f
    <2> QED BY <1>1, <1>2, <1>3, <1>4 DEF Reply, Replies
<1>7. UNCHANGED <<pc, op, burst, wait, seq, to, disk, result, lostTail>>
    BY DEF Stream, client
<1>8. \/ /\ s.off < Length[f] /\ from' = Append(from, data)
         /\ server' = [server EXCEPT
                         !.seq = NextSeq(@), !.last = data,
                         !.stream = IF s.left = 1 THEN NoStream
                                    ELSE [off |-> s.off + 1, left |-> s.left - 1]]
      \/ /\ s.off >= Length[f] /\ from' = Append(from, eof)
         /\ server' = [server EXCEPT !.last = eof, !.stream = NoStream]
    BY DEF Stream
<1> HIDE DEF data, eof
<1>9. CASE /\ s.off < Length[f] /\ from' = Append(from, data)
           /\ server' = [server EXCEPT
                           !.seq = NextSeq(@), !.last = data,
                           !.stream = IF s.left = 1 THEN NoStream
                                      ELSE [off |-> s.off + 1, left |-> s.left - 1]]
    <2> DEFINE t == IF s.left = 1 THEN NoStream ELSE [off |-> s.off + 1, left |-> s.left - 1]
    <2>1. /\ t \in Streams /\ (s.left = 1 => t = NoStream)
          /\ t = NoStream \/ t.off = s.off + 1
        BY <1>2 DEF Streams
    <2>2. server' = [server EXCEPT !.seq = NextSeq(server.seq), !.last = data, !.stream = t]
        BY <1>1, <1>9 DEF Servers
    <2> HIDE DEF t, s, f
    <2>3. NextSeq(server.seq) \in Nums
        BY <1>1, NextNum
    <2>4. server' \in Servers /\ server'.fd = server.fd /\ server'.last = data /\ server'.stream = t
        BY <1>1, <1>5, <2>1, <2>2, <2>3 DEF Servers
    <2>5. from' \in Seq(Replies)
        BY <1>1, <1>5, <1>9, AppendIs
    <2>6. LinkType'
        BY <1>7, <2>4, <2>5 DEF LinkType
    <2> QED BY <1>1, <1>2, <1>5, <1>7, <1>9, <2>1, <2>4, <2>6 DEF s, f
<1>10. CASE /\ s.off >= Length[f] /\ from' = Append(from, eof)
            /\ server' = [server EXCEPT !.last = eof, !.stream = NoStream]
    <2>1. /\ server' \in Servers /\ server'.fd = server.fd /\ server'.last = eof
          /\ server'.stream = NoStream /\ server'.seq = server.seq
        BY <1>1, <1>6, <1>10 DEF Servers, Streams
    <2>2. from' \in Seq(Replies)
        BY <1>1, <1>6, <1>10, AppendIs
    <2>3. LinkType'
        BY <1>7, <2>1, <2>2 DEF LinkType
    <2> QED BY <1>1, <1>2, <1>6, <1>7, <1>10, <2>1, <2>3
<1> QED BY <1>8, <1>9, <1>10

\* A packet, or the end of the file, leaves the server.
LEMMA StreamKeeps ==
    ASSUME FtpInv, Stream
    PROVE  FtpInv'
<1>1. LinkType /\ Trailing
    BY DEF FtpInv, LinkInv
<1>2. /\ server.stream # NoStream /\ server.stream.off \in Nat /\ server.fd.mode = "r"
      /\ server.fd.file \in Files /\ LinkType' /\ server'.fd = server.fd /\ from \in Seq(Replies)
      /\ UNCHANGED <<pc, op, burst, wait, seq, to, disk, result, lostTail>>
    BY <1>1, StreamIs
<1>3. PICK e \in Replies :
         /\ from' = Append(from, e) /\ e.req = "BURST" /\ e.off = server.stream.off
         /\ e.seq = server.seq /\ server'.last = e
         /\ \/ /\ server.stream.off < Length[server.fd.file] /\ e.code = "ACK"
               /\ e.data = <<Chunk(server.fd.file, server.stream.off)>>
               /\ e.last => server'.stream = NoStream
               /\ \/ server'.stream = NoStream
                  \/ server'.stream.off = server.stream.off + 1
            \/ /\ server.stream.off >= Length[server.fd.file] /\ e.code = "EOF"
               /\ server'.stream = NoStream /\ server'.seq = server.seq
    BY <1>1, StreamIs
<1>4. /\ Len(from) \in Nat /\ Len(from') = Len(from) + 1 /\ from'[Len(from) + 1] = e
      /\ \A i \in 1..Len(from) : from'[i] = from[i]
      /\ (from = <<>> <=> Len(from) = 0)
    BY <1>2, <1>3, AppendIs, NoneIs
<1>5. ClientInv'
    BY <1>2, ClientKeeps DEF FtpInv
<1>6. Waits' /\ Stored'
    BY <1>2 DEF FtpInv, Waits, AwaitsReply, Stored
<1>7. ~AtFile
    BY <1>2 DEF FtpInv, LinkInv, Ready, Exchange, Silent
<1>8. Ready' /\ Exchange'
    BY <1>2, <1>7 DEF Ready, Exchange, AtFile
<1>9. Length[server.fd.file] \in Nat
    BY <1>2, SizesAssumption
<1>10. pc # "streaming" => server.stream.off >= Length[server.fd.file] /\ server'.stream = NoStream
    BY <1>1, <1>2, <1>3, <1>9 DEF Trailing
<1>11. Trailing'
    BY <1>1, <1>2, <1>10 DEF Trailing
<1>12. Opening'
    <2> SUFFICES ASSUME Opens, wait # NoWait PROVE Opening'
        BY <1>2 DEF Opening, Opens
    <2>1. pc # "streaming"
        BY DEF Opens
    <2>2. server.seq # wait /\ \A i \in 1..Len(from) : from[i].seq # wait
        <3>1. CASE to = <<>>
            <4>1. server.seq # wait /\ \A i \in 1..(Len(from) - 1) : from[i].seq # wait
                BY <1>2, <3>1 DEF FtpInv, LinkInv, Opening
            <4>2. from # <<>> => from[Len(from)].seq # wait
                BY <1>2, <3>1 DEF FtpInv, LinkInv, Opening
            <4> QED BY <1>4, <4>1, <4>2
        <3>2. CASE to # <<>>
            BY <1>2, <3>2 DEF FtpInv, LinkInv, Opening
        <3> QED BY <3>1, <3>2
    <2>3. \A i \in 1..Len(from') : from'[i].seq # wait
        BY <1>3, <1>4, <2>2
    <2>4. from' # <<>> => Len(from') \in 1..Len(from')
        BY <1>4
    <2>5. \A i \in 1..(Len(from') - 1) : from'[i].seq # wait
        BY <1>4, <2>3
    <2> QED BY <1>2, <1>4, <1>10, <2>1, <2>3, <2>4, <2>5 DEF FtpInv, LinkInv, Opening, RequestOf
<1>13. BurstInv'
    <2> SUFFICES ASSUME pc = "streaming" PROVE BurstInv'
        BY <1>2, NotStreaming
    <2>1. Streaming
        BY DEF FtpInv, BurstInv
    <2>2. Frontiers'
        BY <1>2 DEF FtpInv, BurstInv, Frontiers
    <2>3. server.fd.file = op.file /\ to = <<>> /\ IsPacket(e)
        BY <1>2, <1>3, <2>1 DEF Streaming, IsPacket
    <2>4. /\ Ends(e) => server'.stream = NoStream
          /\ IsData(e) => e.off = server.stream.off
          /\ IsData(e) /\ server'.stream # NoStream => e.off < server'.stream.off
        BY <1>2, <1>3 DEF IsEof, IsData, Ends
    <2>5. \A i \in 1..Len(from) :
             /\ ~Ends(from[i]) /\ IsPacket(from[i])
             /\ IsData(from[i]) => from[i].off < server.stream.off
        BY <1>2, <2>1 DEF Streaming
    <2>6. \A i \in 1..Len(from') :
             \/ i \in 1..Len(from) /\ from'[i] = from[i]
             \/ i = Len(from') /\ i \notin 1..Len(from) /\ from'[i] = e
        BY <1>4
    <2>7. server'.stream # NoStream => server'.stream.off = server.stream.off + 1
        BY <1>3
    <2>8. ASSUME NEW i \in 1..Len(from')
          PROVE  /\ IsPacket(from'[i])
                 /\ Ends(from'[i]) => i = Len(from') /\ server'.stream = NoStream
                 /\ IsData(from'[i]) /\ server'.stream # NoStream =>
                      from'[i].off < server'.stream.off
        <3>1. CASE i \in 1..Len(from) /\ from'[i] = from[i]
            <4>1. ~Ends(from[i]) /\ IsPacket(from[i]) /\ from[i].off \in Nat
                <5>1. from[i] \in Replies
                    BY <1>2, <3>1, Members
                <5> QED BY <2>5, <3>1, <5>1 DEF Replies
            <4>2. IsData(from[i]) /\ server'.stream # NoStream => from[i].off < server'.stream.off
                BY <1>2, <2>5, <2>7, <3>1, <4>1
            <4> QED BY <3>1, <4>1, <4>2
        <3>2. CASE i = Len(from') /\ from'[i] = e
            BY <2>3, <2>4, <3>2
        <3> QED BY <2>6, <3>1, <3>2
    <2>9. ASSUME NEW i \in 1..Len(from'), NEW j \in 1..Len(from'), i < j,
                 IsData(from'[i]), IsData(from'[j])
          PROVE  from'[i].off < from'[j].off
        <3>1. i \in 1..Len(from) /\ from'[i] = from[i]
            BY <1>4, <2>6, <2>9
        <3>2. CASE j \in 1..Len(from) /\ from'[j] = from[j]
            BY <2>1, <2>9, <3>1, <3>2 DEF Streaming
        <3>3. CASE from'[j] = e
            BY <2>4, <2>5, <2>9, <3>1, <3>3
        <3> QED BY <2>6, <3>2, <3>3
    <2>10. (\A i \in 1..Len(from) : IsPacket(from[i]))' /\ IsPacket(server.last)'
        BY <1>2, <1>3, <2>3, <2>8 DEF IsPacket
    <2>11. Streaming'
        BY <1>2, <2>1, <2>3, <2>8, <2>9, <2>10 DEF Streaming, Ends, IsData, IsEof
    <2>12. TailInv'
        <3>1. CASE server.stream.off >= Length[op.file]
            <4>1. \/ burst.high = Length[op.file] \/ lostTail
                  \/ \E i \in 1..Len(from) : IsData(from[i]) /\ from[i].off = Length[op.file] - 1
                BY <1>2, <3>1 DEF FtpInv, BurstInv, TailInv
            <4>2. \A i \in 1..Len(from) : i \in 1..Len(from') /\ from'[i] = from[i]
                BY <1>4
            <4> QED BY <1>2, <4>1, <4>2 DEF TailInv, IsData, IsEof
        <3>2. CASE server.stream.off < Length[op.file]
            <4>1. e.code = "ACK" /\ e.off = server.stream.off
                BY <1>2, <1>3, <1>9, <2>3, <3>2
            <4>2. ~IsEof(server'.last) /\ \A i \in 1..Len(from') : ~IsEof(from'[i])
                BY <1>3, <2>5, <2>6, <4>1 DEF IsEof, Ends
            <4>3. Len(from') \in 1..Len(from') /\ from'[Len(from')] = e /\ IsData(e)
                BY <1>3, <1>4, <4>1 DEF IsData
            <4>4. /\ server'.stream # NoStream /\ server'.stream.off >= Length[op.file]
                  => e.off = Length[op.file] - 1
                BY <1>2, <1>9, <2>3, <2>7, <3>2, <4>1
            <4> QED BY <1>2, <4>2, <4>3, <4>4 DEF TailInv, IsEof, IsData
        <3> QED BY <1>2, <1>9, <2>3, <3>1, <3>2
    <2> QED BY <2>2, <2>11, <2>12 DEF BurstInv
<1> QED BY <1>2, <1>5, <1>6, <1>8, <1>11, <1>12, <1>13 DEF FtpInv, LinkInv

-----------------------------------------------------------------------------
(* The specification. *)

\* The initial state.
LEMMA InitFtp == Init => FtpInv
<1> SUFFICES ASSUME Init PROVE FtpInv
    OBVIOUS
<1>1. /\ pc = "idle" /\ op = NoOp /\ burst = NoBurst /\ wait = NoWait /\ seq = 0
      /\ to = <<>> /\ from = <<>>
      /\ server = [fd |-> NoFile, seq |-> 0, stream |-> NoStream,
                   last |-> Reply(0, "ACK", "RESET", 0, <<>>, FALSE)]
      /\ disk = [f \in Files |-> "old"]
      /\ result = [kind |-> "none", file |-> "none", ok |-> FALSE, bytes |-> <<>>]
      /\ lostTail = FALSE
    BY DEF Init
<1>2. ClientInv
    <2>1. NoOp \in Operations /\ NoBurst \in Bursts
        BY EmptySeq DEF NoOp, NoBurst, Operations, Bursts
    <2>2. ClientType
        BY <1>1, <2>1 DEF ClientType, Steps
    <2>3. OpInv /\ ReadInv /\ WriteInv
        BY <1>1 DEF OpInv, ReadInv, WriteInv
    <2>4. ResultInv
        BY <1>1 DEF ResultInv, Reads
    <2> QED BY <2>2, <2>3, <2>4 DEF ClientInv
<1>3. LinkType
    <2>1. 0 \in Nums
        BY SeqModAssumption DEF Nums
    <2>2. Reply(0, "ACK", "RESET", 0, <<>>, FALSE) \in Replies
        BY <2>1, EmptySeq DEF Reply, Replies, Codes, Commands
    <2>3. server \in Servers /\ server.fd.mode = "none"
        BY <1>1, <2>1, <2>2 DEF Servers, Handles, NoFile, Streams
    <2> QED BY <1>1, <2>1, <2>3, EmptySeq DEF LinkType
<1>4. Waits /\ Stored /\ LinkInv
    <2>1. server.stream = NoStream /\ 1..Len(to) = {}
        BY <1>1
    <2> QED BY <1>1, <2>1
            DEF Waits, Stored, LinkInv, Ready, Exchange, Opening, Trailing, AtFile, Opens
<1>5. BurstInv
    BY <1>1 DEF BurstInv, Streaming, Frontiers, TailInv
<1> QED BY <1>2, <1>3, <1>4, <1>5 DEF FtpInv

\* Every step keeps it.
LEMMA NextFtp ==
    ASSUME Abort => "abort in stream" \notin Faults, SizesDeclared, FtpInv, [Next]_vars,
           [~NumberReused]_vars
    PROVE  FtpInv'
<1>1. CASE UNCHANGED vars
    <2>1. UNCHANGED <<pc, op, burst, wait, seq, to, from, server, disk, result, lostTail>>
        BY <1>1 DEF vars, client, vehicle
    <2>2. ClientInv'
        BY <2>1, ClientKeeps DEF FtpInv
    <2>3. LinkType' /\ Waits' /\ Stored'
        BY <2>1 DEF FtpInv, LinkType, Waits, AwaitsReply, Stored
    <2>4. Ready' /\ Trailing'
        BY <2>1 DEF FtpInv, LinkInv, Ready, Trailing, AtFile, Silent, HasFile, Mode
    <2>5. Exchange'
        BY <2>1 DEF FtpInv, LinkInv, Exchange, AtFile, HasFile, Mode, Answered, RequestOf
    <2>6. Opening'
        BY <2>1 DEF FtpInv, LinkInv, Opening, Opens, Opened, Mode, RequestOf
    <2>7. Frontiers' /\ TailInv'
        BY <2>1 DEF FtpInv, BurstInv, Frontiers, TailInv, IsData, IsEof
    <2>8. Streaming'
        <3> SUFFICES ASSUME pc' = "streaming" PROVE Streaming'
            BY DEF Streaming
        <3>1. /\ Streaming /\ pc = "streaming" /\ op' = op /\ burst' = burst
              /\ to' = to /\ from' = from /\ server' = server
            BY <2>1 DEF FtpInv, BurstInv
        <3>2. /\ (server.fd.file = op.file /\ server.fd.mode = "r")'
              /\ IsPacket(server.last)'
              /\ (\A i \in 1..Len(from) : IsPacket(from[i]))'
            BY <3>1 DEF Streaming, IsPacket
        <3>3. (to # <<>> =>
                 /\ Len(to) = 1 /\ to[1].req = "BURST" /\ to[1].off = burst.received
                 /\ from = <<>> /\ server.stream = NoStream)'
            BY <3>1 DEF Streaming
        <3>4. (\A i \in 1..Len(from) : Ends(from[i]) => i = Len(from) /\ server.stream = NoStream)'
            BY <3>1 DEF Streaming, IsData, IsEof, Ends
        <3>5. (\A i \in 1..Len(from) : IsData(from[i]) =>
                 /\ server.stream # NoStream => from[i].off < server.stream.off
                 /\ \A j \in 1..Len(from) : i < j /\ IsData(from[j]) => from[i].off < from[j].off)'
            <4>1. \A i \in 1..Len(from) : from[i].req = "BURST" /\ from[i].code = "ACK" =>
                    /\ server.stream # NoStream => from[i].off < server.stream.off
                    /\ \A j \in 1..Len(from) :
                         i < j /\ from[j].req = "BURST" /\ from[j].code = "ACK" =>
                           from[i].off < from[j].off
                BY <3>1 DEF Streaming, IsData
            <4> QED BY <3>1, <4>1 DEF IsData
        <3> QED BY <3>2, <3>3, <3>4, <3>5 DEF Streaming
    <2> QED BY <2>2, <2>3, <2>4, <2>5, <2>6, <2>7, <2>8 DEF FtpInv, LinkInv, BurstInv
<1>2. CASE Next /\ ~NumberReused
    BY <1>2, StartKeeps, SendRequestKeeps, ReceiveReplyKeeps, RequestTimeoutKeeps, NoVehicleKeeps,
       StartBurstKeeps, ReceivePacketKeeps, BurstTimeoutKeeps, AbortKeeps, DropKeeps,
       ReconnectKeeps, LoseRequestKeeps, LoseReplyKeeps, ServeKeeps, StreamKeeps DEF Next
<1> QED BY <1>1, <1>2

\* The content of a file.
LEMMA ContentIs ==
    ASSUME NEW f \in Files
    PROVE  /\ Content(f) \in Seq(Chunks) /\ Len(Content(f)) = Length[f]
           /\ \A i \in 1..Length[f] : Content(f)[i] = Chunk(f, i - 1)
<1> DEFINE c == Content(f)
<1>1. Length[f] \in Nat
    BY SizesAssumption
<1>2. \A i \in 1..Length[f] : Chunk(f, i - 1) \in Chunks
    BY <1>1 DEF Chunk, Chunks
<1>3. c \in [1..Length[f] -> Chunks] /\ \A i \in 1..Length[f] : c[i] = Chunk(f, i - 1)
    BY <1>2 DEF Content
<1> HIDE DEF c
<1>4. c \in Seq(Chunks)
    BY <1>1, <1>3, SeqDef
<1>5. DOMAIN c = 1..Length[f] /\ DOMAIN c = 1..Len(c) /\ Len(c) \in Nat
    BY <1>3, <1>4, LenProperties
<1>6. Len(c) = Length[f]
    BY <1>1, <1>5
<1> QED BY <1>3, <1>4, <1>6 DEF c

\* A beginning of a file is a prefix of its content.
LEMMA BeginsIs ==
    ASSUME NEW f \in Files, NEW s, Begins(s, f)
    PROVE  /\ Len(s) \in Nat /\ Len(s) <= Length[f] /\ s = SubSeq(Content(f), 1, Len(s))
           /\ Len(s) = Length[f] => s = Content(f)
<1>1. /\ s \in Seq(Chunks) /\ Len(s) \in Nat /\ Len(s) <= Length[f] /\ Length[f] \in Nat
      /\ \A i \in 1..Len(s) : s[i] = Chunk(f, i - 1)
    BY LenProperties, SizesAssumption DEF Begins
<1> DEFINE c == Content(f)
           t == SubSeq(c, 1, Len(s))
<1>2. c \in Seq(Chunks) /\ Len(c) = Length[f] /\ \A i \in 1..Length[f] : c[i] = Chunk(f, i - 1)
    BY ContentIs
<1> HIDE DEF c
<1>3. \A i \in 1..Len(s) : i \in 1..Length[f] /\ c[i] \in Chunks /\ c[i] = s[i]
    <2> SUFFICES ASSUME NEW i \in 1..Len(s)
                 PROVE  i \in 1..Length[f] /\ c[i] \in Chunks /\ c[i] = s[i]
        OBVIOUS
    <2>1. i \in 1..Length[f]
        BY <1>1
    <2> QED BY <1>1, <1>2, <2>1, Members
<1>4. /\ t \in Seq(Chunks) /\ Len(t) = IF 1 <= Len(s) THEN Len(s) - 1 + 1 ELSE 0
      /\ \A i \in 1..(Len(s) - 1 + 1) : t[i] = c[1 + i - 1]
    BY <1>1, <1>3, SubSeqProperties
<1> HIDE DEF t
<1>5. Len(t) = Len(s) /\ \A i \in 1..Len(s) : t[i] = s[i]
    BY <1>1, <1>3, <1>4
<1>6. s = t
    BY <1>1, <1>4, <1>5, SeqEqual
<1>7. Len(s) = Length[f] => s = c
    BY <1>1, <1>2, <1>3, SeqEqual
<1> QED BY <1>1, <1>6, <1>7 DEF t, c

\* What the invariant says of the result of an operation.
LEMMA ResultIs ==
    ASSUME FtpInv
    PROVE  NoForeignBytes /\ TruncatedOnlyByLostTail /\ UploadIsStored
<1>1. NoForeignBytes
    <2> SUFFICES ASSUME result.kind \in Reads
                 PROVE  IsPrefixOf(result.bytes, Content(result.file))
        BY DEF NoForeignBytes
    <2>1. result.file \in Files /\ Begins(result.bytes, result.file)
        BY DEF FtpInv, ClientInv, ResultInv
    <2> QED BY <2>1, BeginsIs, ContentIs DEF IsPrefixOf
<1>2. TruncatedOnlyByLostTail
    <2> SUFFICES ASSUME result.ok, result.kind \in Reads, ~lostTail
                 PROVE  result.bytes = IF result.kind = "prefix" THEN Beginning(result.file)
                                       ELSE Content(result.file)
        BY DEF TruncatedOnlyByLostTail
    <2>1. /\ result.file \in Files /\ Begins(result.bytes, result.file)
          /\ Len(result.bytes) = Wanted(result.kind, result.file)
        BY DEF FtpInv, ClientInv, ResultInv, Complete
    <2>2. CASE result.kind = "prefix"
        <3>1. Wanted("prefix", result.file) =
                IF PrefixLimit < Length[result.file] THEN PrefixLimit ELSE Length[result.file]
            BY DEF Wanted
        <3> QED BY <2>1, <2>2, <3>1, BeginsIs DEF Beginning
    <2>3. CASE result.kind # "prefix"
        BY <2>1, <2>3, BeginsIs, WantedIs
    <2> QED BY <2>2, <2>3
<1>3. UploadIsStored
    BY DEF FtpInv, Stored, UploadIsStored
<1> QED BY <1>1, <1>2, <1>3

\* Whatever is lost, comes late or drops, the service and the vehicle agree on which
\* request is answered: FtpInv holds at every step of every operation.
THEOREM FtpInvariant ==
    ASSUME "abort in stream" \notin Faults, SizesDeclared
    PROVE  Spec /\ [][~NumberReused]_vars => []FtpInv
<1>1. FtpInv /\ [Next]_vars /\ [~NumberReused]_vars => FtpInv'
    BY NextFtp
<1> QED BY <1>1, InitFtp, PTL DEF Spec

\* What readRemoteFile and burstReadFile hand back, also the prefix that failBurst
\* salvages, is the beginning of the file that was asked for.
THEOREM NoForeignBytesAlways ==
    ASSUME "abort in stream" \notin Faults, SizesDeclared
    PROVE  Spec /\ [][~NumberReused]_vars => []NoForeignBytes
<1>1. FtpInv => NoForeignBytes
    BY ResultIs
<1> QED BY <1>1, FtpInvariant, PTL

\* A read or a burst that resolves has the whole file, or all of the prefix that was
\* asked for, unless the packet with the end of the file was lost.
THEOREM TruncatedOnlyByLostTailAlways ==
    ASSUME "abort in stream" \notin Faults, SizesDeclared
    PROVE  Spec /\ [][~NumberReused]_vars => []TruncatedOnlyByLostTail
<1>1. FtpInv => TruncatedOnlyByLostTail
    BY ResultIs
<1> QED BY <1>1, FtpInvariant, PTL

\* An upload that resolves is stored: no reply of another request stands for that of
\* a WRITE or of the TERMINATE that the vehicle validates the file with.
THEOREM UploadIsStoredAlways ==
    ASSUME "abort in stream" \notin Faults, SizesDeclared
    PROVE  Spec /\ [][~NumberReused]_vars => []UploadIsStored
<1>1. FtpInv => UploadIsStored
    BY ResultIs
<1> QED BY <1>1, FtpInvariant, PTL

-----------------------------------------------------------------------------
(* Reads on a link where nothing goes wrong. *)

\* Sizes that a read accepts: a file within the limit declares no more than the limit,
\* and one that declares no size stays below it.
SizesAccepted ==
  /\ PrefixLimit <= MaxSize
  /\ \A f \in Files : Length[f] <= MaxSize =>
       Declared[f] <= MaxSize /\ (Declared[f] = 0 => Length[f] < MaxSize)

\* A read fails only on a file that is too large or absent, and nothing is under way
\* then that could create it.
Large(f) == Length[f] > MaxSize
Results ==
  /\ pc # "idle" => result.kind = "none"
  /\ result.kind \in Reads /\ ~result.ok =>
       Large(result.file) \/ (disk[result.file] = "absent" /\ to = <<>>)

\* What the operation was told of the size of its file.
Believes ==
  /\ pc \in {"reading", "bursting", "streaming"} => op.size = Declared[op.file]
  /\ pc = "closing" => op.ok \/ Large(op.file)

\* What a read waits for is under way; an OPEN is refused once, by a vehicle that has a
\* file open, or because there is no file.
OpensToRead == {"opening", "reopening"}
Refused(m) == m.code = "OTHER" /\ disk[op.file] = "absent"
Awaited ==
  wait # NoWait =>
    /\ AtFile => to # <<>> \/ from # <<>>
    /\ pc \in OpensToRead \cup {"resetting"} /\ to = <<>> =>
         server.stream = NoStream /\ from # <<>> /\ from[Len(from)].seq = wait
    /\ pc \in OpensToRead /\ to = <<>> =>
         \/ from[Len(from)].code = "ACK" \/ Refused(from[Len(from)])
         \/ from[Len(from)].code = "FAIL" /\ pc = "opening"

\* The retry of an OPEN: the sessions are reset, and nothing else is under way.
Retry ==
  pc \in {"resetting", "reopening"} =>
    /\ server.stream = NoStream
    /\ wait = NoWait => to = <<>> /\ from = <<>> /\ (pc = "reopening" => NextSeq(seq) # server.seq)
    /\ to # <<>> =>
         /\ Len(to) = 1 /\ from = <<>> /\ to[1].req = RequestOf /\ to[1].file = op.file
         /\ NextSeq(to[1].seq) = wait
    /\ Len(from) <= 1
    /\ pc = "reopening" /\ (wait = NoWait \/ to # <<>>) => server.fd = NoFile
    /\ pc = "resetting" /\ from # <<>> => server.fd = NoFile /\ server.seq = from[1].seq

\* The packets of a burst come without a gap, and the last one said is the last under way.
SameAs(m, n) == m.req = n.req /\ m.code = n.code /\ m.off = n.off /\ m.last = n.last
Gapless ==
  pc = "streaming" =>
    /\ burst.received = burst.high
    /\ to # <<>> \/ server.stream # NoStream \/ (from # <<>> /\ Ends(from[Len(from)]))
    /\ to # <<>> =>
         \/ server.last.req # "BURST" /\ NextSeq(to[1].seq) # server.seq
         \/ IsData(server.last) /\ server.last.last /\ server.last.off <= burst.received
    /\ from # <<>> => SameAs(from[Len(from)], server.last)
    /\ \A i \in 1..Len(from) : from[i].req = "BURST"
    /\ from # <<>> /\ IsData(from[1]) => from[1].off <= burst.received
    /\ \A i \in 1..(Len(from) - 1) : IsData(from[i + 1]) => from[i + 1].off = from[i].off + 1
    /\ server.stream # NoStream =>
         IF from = <<>> THEN server.stream.off <= burst.received
         ELSE server.stream.off = from[Len(from)].off + 1

\* The invariant, while nothing went wrong.
Clean == link = "up" /\ Results /\ Believes /\ Awaited /\ Retry /\ Gapless
CleanInv == faults = <<>> => FtpInv /\ Clean

\* A place where nothing of the sort is claimed.
LEMMA CleanPlace ==
    ASSUME link' = "up", Results', Believes', wait' = NoWait,
           pc' \notin {"resetting", "reopening", "streaming"}
    PROVE  Clean'
BY DEF Clean, Awaited, Retry, Gapless

\* Reading on: a file within the limits is read to its end.
LEMMA ReadOnClean ==
    ASSUME SizesAccepted, NEW o \in Operations, o.kind \in Reads, o.file \in Files, o.ok,
           o.size = Declared[o.file], o.off <= Length[o.file], ReadOn(o)
    PROVE  /\ pc' \in {"reading", "closing"} /\ result' = result
           /\ pc' = "reading" => op' = o
           /\ op'.file = o.file /\ (op'.ok \/ Large(o.file))
<1>1. /\ o.off \in Nat /\ o.size \in Nat /\ Length[o.file] \in Nat /\ Declared[o.file] \in Nat
      /\ PrefixLimit \in Nat /\ MaxSize \in Nat
    BY SizesAssumption DEF Operations
<1>2. CASE ~HasMore(o) /\ Continues("closing", o)
    BY <1>2 DEF Continues
<1>3. CASE HasMore(o) /\ o.off < MaxSize /\ Continues("reading", o)
    BY <1>3 DEF Continues
<1>4. CASE HasMore(o) /\ o.off >= MaxSize /\
           Continues("closing", [o EXCEPT !.ok = FALSE, !.bytes = <<>>])
    <2>1. pc' = "closing" /\ result' = result /\ op'.file = o.file
        BY <1>4 DEF Continues, Operations
    <2>2. Large(o.file)
        <3> SUFFICES ASSUME Length[o.file] <= MaxSize PROVE FALSE
            BY <1>1 DEF Large
        <3>1. /\ PrefixLimit <= MaxSize /\ Declared[o.file] <= MaxSize
              /\ Declared[o.file] = 0 => Length[o.file] < MaxSize
            BY DEF SizesAccepted
        <3> QED BY <1>1, <1>4, <3>1 DEF HasMore
    <2> QED BY <2>1, <2>2
<1> QED BY <1>2, <1>3, <1>4 DEF ReadOn

\* A file that was opened, within the limits, is burst, read, or opened in another way.
LEMMA AfterOpenClean ==
    ASSUME SizesAccepted, NEW o \in Operations, o.kind \in Reads, o.file \in Files, o.ok,
           o.size = Declared[o.file], o.off = 0, AfterOpen(o)
    PROVE  /\ pc' \in {"reading", "closing", "bursting", "rereading"} /\ result' = result
           /\ pc' \in {"reading", "bursting"} => op' = o
           /\ op'.file = o.file /\ (op'.ok \/ Large(o.file))
<1>1. /\ o.size \in Nat /\ Length[o.file] \in Nat /\ Declared[o.file] \in Nat
      /\ MaxSize \in Nat /\ o.off <= Length[o.file]
    BY SizesAssumption DEF Operations
<1>2. CASE o.size \in 1..MaxSize /\ Continues("bursting", o)
    BY <1>2 DEF Continues
<1>3. CASE o.size > MaxSize /\ Continues("closing", [o EXCEPT !.ok = FALSE])
    BY <1>1, <1>3 DEF Continues, SizesAccepted, Large, Operations
<1>4. CASE Continues("rereading", [o EXCEPT !.kind = "read"])
    BY <1>4 DEF Continues, Operations
<1>5. CASE ReadOn(o)
    BY <1>1, <1>5, ReadOnClean
<1> QED BY <1>2, <1>3, <1>4, <1>5 DEF AfterOpen

\* What is believed of an answer where nothing goes wrong.
Fair(r) ==
  /\ pc \in OpensToRead =>
       /\ to = <<>>
       /\ \/ r.code = "ACK" /\ r.req = "OPEN"
          \/ Refused(r)
          \/ r.code = "FAIL" /\ pc = "opening"
  /\ pc = "reading" =>
       \/ r.code = "ACK" /\ op.off < Length[op.file] /\ r.data = <<Chunk(op.file, op.off)>>
       \/ r.code = "EOF"

\* A read that is not about to fail.
LEMMA ReadFacts ==
    ASSUME FtpInv
    PROVE  /\ op \in Operations /\ (pc \notin {"idle", "closing"} /\ op.kind \in Reads => op.file \in Files)
           /\ pc \in OpensToRead => op.kind \in Reads /\ op.ok /\ op.off = 0
           /\ pc = "reading" => op.kind \in Reads /\ op.ok /\ op.off = Len(op.bytes)
           /\ pc = "closing" => op.kind \in Reads /\ op.file \in Files
           /\ pc \in {"creating", "recreating", "writing", "committing", "deleting", "listing"} =>
                op.kind \notin Reads
BY DEF FtpInv, ClientInv, ClientType, OpInv, ReadInv, OpensToRead, Reads

\* An operation that settles.
LEMMA SettlesClean ==
    ASSUME FtpInv, UNCHANGED <<to, disk>>, NEW ok, NEW bytes, Settles(op, ok, bytes),
           op.kind \in Reads => ok \/ Large(op.file) \/ (disk[op.file] = "absent" /\ to = <<>>)
    PROVE  Results' /\ Believes' /\ pc' = "idle"
<1>1. /\ pc' = "idle"
      /\ result' = [kind |-> op.kind, file |-> op.file, ok |-> ok, bytes |-> bytes]
    BY DEF Settles
<1> QED BY <1>1 DEF Results, Believes, Large

\* An operation that goes on to where nothing is believed of a size.
LEMMA ContinuesClean ==
    ASSUME Clean, pc # "idle", UNCHANGED <<to, disk>>, NEW step, NEW o, Continues(step, o),
           step \notin {"reading", "bursting", "streaming", "idle"},
           step = "closing" => o.ok \/ Large(o.file)
    PROVE  Results' /\ Believes' /\ pc' = step
<1>1. pc' = step /\ op' = o /\ result' = result
    BY DEF Continues
<1>2. result.kind = "none"
    BY DEF Clean, Results
<1>3. "none" \notin Reads
    BY DEF Reads
<1> QED BY <1>1, <1>2, <1>3 DEF Results, Believes, Large

\* The answer to an OPEN.
LEMMA OpeningClean ==
    ASSUME FtpInv, Clean, SizesAccepted, pc \in OpensToRead, UNCHANGED <<to, disk>>,
           NEW r, Fair(r), AfterOpening(r)
    PROVE  /\ Results' /\ Believes' /\ pc' \notin {"reopening", "streaming"}
           /\ pc' = "resetting" => pc = "opening"
<1>1. /\ op \in Operations /\ op.kind \in Reads /\ op.file \in Files /\ op.ok /\ op.off = 0
      /\ to = <<>> /\ result.kind = "none" /\ pc \notin {"idle", "closing"}
    BY ReadFacts DEF OpensToRead, Fair, Clean, Results
<1>2. CASE r.code = "ACK" /\ \E n \in DeclaredIn(r) : AfterOpen([op EXCEPT !.size = n])
    <2>1. r.req = "OPEN"
        BY <1>2 DEF Fair, Refused
    <2>2. AfterOpen([op EXCEPT !.size = Declared[op.file]])
        BY <1>2, <2>1 DEF DeclaredIn
    <2> DEFINE o == [op EXCEPT !.size = Declared[op.file]]
    <2>3. /\ o \in Operations /\ o.kind = op.kind /\ o.file = op.file /\ o.ok = op.ok
          /\ o.off = op.off /\ o.size = Declared[op.file]
        BY <1>1, SizesAssumption DEF Operations
    <2> HIDE DEF o
    <2>4. AfterOpen(o)
        BY <2>2 DEF o
    <2>5. /\ pc' \in {"reading", "closing", "bursting", "rereading"} /\ result' = result
          /\ pc' \in {"reading", "bursting"} => op' = o
          /\ op'.file = o.file /\ (op'.ok \/ Large(o.file))
        BY <1>1, <2>3, <2>4, AfterOpenClean
    <2> QED BY <1>1, <2>3, <2>5 DEF Results, Believes, Reads, Large
<1>3. CASE r.code # "ACK" /\ RetriesOpen(r) /\ Continues("resetting", op)
    <2>1. Results' /\ Believes' /\ pc' = "resetting"
        BY <1>1, <1>3, ContinuesClean
    <2> QED BY <1>3, <2>1 DEF RetriesOpen
<1>4. CASE r.code # "ACK" /\ ~RetriesOpen(r) /\ Settles(op, FALSE, <<>>)
    <2>1. disk[op.file] = "absent"
        BY <1>4 DEF Fair, RetriesOpen, Refused
    <2> QED BY <1>1, <1>4, <2>1, SettlesClean
<1> QED BY <1>2, <1>3, <1>4 DEF AfterOpening

\* The answer to a READ.
LEMMA ReadingClean ==
    ASSUME FtpInv, Clean, SizesAccepted, pc = "reading", UNCHANGED <<to, disk>>,
           NEW r, Fair(r), AfterReading(r)
    PROVE  Results' /\ Believes' /\ pc' \in {"reading", "closing"}
<1>1. /\ op \in Operations /\ op.kind \in Reads /\ op.file \in Files /\ op.ok
      /\ op.off = Len(op.bytes) /\ op.size = Declared[op.file]
      /\ op.off \in Nat /\ Length[op.file] \in Nat /\ result.kind = "none"
    BY ReadFacts, SizesAssumption DEF Clean, Results, Believes, Operations
<1>2. CASE r.code = "ACK" /\ ReadOn([op EXCEPT !.bytes = @ \o r.data, !.off = @ + 1])
    <2> DEFINE o == [op EXCEPT !.bytes = @ \o r.data, !.off = @ + 1]
    <2>1. r.data = <<Chunk(op.file, op.off)>> /\ op.off < Length[op.file]
        BY <1>2 DEF Fair
    <2>2. op.bytes \in Seq(Chunks) /\ r.data \in Seq(Chunks)
        <3>1. Chunk(op.file, op.off) \in Chunks
            BY <1>1 DEF Chunk, Chunks
        <3> QED BY <1>1, <2>1, <3>1 DEF Operations
    <2>3. op.bytes \o r.data \in Seq(Chunks)
        BY <2>2, ConcatProperties
    <2>4. /\ o \in Operations /\ o.kind = op.kind /\ o.file = op.file /\ o.ok = op.ok
          /\ o.off = op.off + 1 /\ o.size = op.size
        BY <1>1, <2>3, OpMore
    <2> HIDE DEF o
    <2>5. ReadOn(o)
        BY <1>2 DEF o
    <2>6. o.off <= Length[o.file]
        BY <1>1, <2>1, <2>4
    <2>7. /\ pc' \in {"reading", "closing"} /\ result' = result
          /\ pc' = "reading" => op' = o
          /\ op'.file = o.file /\ (op'.ok \/ Large(o.file))
        BY <1>1, <2>4, <2>5, <2>6, ReadOnClean
    <2> QED BY <1>1, <2>4, <2>7 DEF Results, Believes, Reads, Large
<1>3. CASE Continues("closing", op)
    BY <1>1, <1>3, ContinuesClean
<1>4. r.code \in {"ACK", "EOF"}
    BY DEF Fair
<1> QED BY <1>2, <1>3, <1>4 DEF AfterReading

\* What the operation makes of any answer, or of none to a request that no read needs.
LEMMA AfterClean ==
    ASSUME FtpInv, Clean, SizesAccepted, wait # NoWait, UNCHANGED <<to, disk>>,
           NEW r, Fair(r), After(r)
    PROVE  /\ Results' /\ Believes' /\ pc' # "streaming"
           /\ pc' = "resetting" => pc = "opening"
           /\ pc' = "reopening" => pc = "resetting"
<1>1. pc \notin {"idle", "bursting", "streaming"}
    BY DEF FtpInv, Waits, AwaitsReply
<1>2. CASE pc = "clearing" /\ Continues(FirstRequest(op.kind), op)
    <2>1. op.kind \in SessionKinds
        BY <1>2 DEF FtpInv, ClientInv, OpInv
    <2>2. FirstRequest(op.kind) \in {"opening", "creating"}
        BY <2>1 DEF FirstRequest, SessionKinds, Reads
    <2>3. Results' /\ Believes' /\ pc' = FirstRequest(op.kind)
        BY <1>1, <1>2, <2>2, ContinuesClean
    <2> QED BY <2>2, <2>3
<1>3. CASE pc = "resetting" /\ Continues("reopening", op)
    BY <1>1, <1>3, ContinuesClean
<1>4. CASE pc \in {"opening", "reopening"} /\ AfterOpening(r)
    BY <1>4, OpeningClean DEF OpensToRead
<1>5. CASE pc = "rereading" /\ Continues("opening", op)
    BY <1>1, <1>5, ContinuesClean
<1>6. CASE pc = "reading" /\ AfterReading(r)
    BY <1>6, ReadingClean
<1>7. CASE pc = "closing" /\ Settles(op, op.ok, op.bytes)
    <2>1. op.ok \/ Large(op.file)
        BY <1>7 DEF Clean, Believes
    <2> QED BY <1>7, <2>1, SettlesClean
<1>8. CASE pc \in {"creating", "recreating"} /\ AfterCreating(r)
    <2>1. op.kind \notin Reads
        BY <1>8, ReadFacts
    <2>2. \/ Continues("writing", op) \/ Continues("deleting", op) \/ Settles(op, FALSE, <<>>)
        BY <1>8 DEF AfterCreating
    <2>3. CASE Continues("writing", op)
        BY <1>1, <2>3, ContinuesClean
    <2>4. CASE Continues("deleting", op)
        BY <1>1, <2>4, ContinuesClean
    <2>5. CASE Settles(op, FALSE, <<>>)
        BY <2>1, <2>5, SettlesClean
    <2> QED BY <2>2, <2>3, <2>4, <2>5
<1>9. CASE pc = "deleting" /\ AfterDeleting(r)
    <2>1. op.kind \notin Reads
        BY <1>9, ReadFacts
    <2>2. \/ Continues("recreating", op) \/ Settles(op, TRUE, <<>>) \/ Settles(op, FALSE, <<>>)
        BY <1>9 DEF AfterDeleting
    <2>3. CASE Continues("recreating", op)
        BY <1>1, <2>3, ContinuesClean
    <2>4. CASE Settles(op, TRUE, <<>>)
        BY <2>1, <2>4, SettlesClean
    <2>5. CASE Settles(op, FALSE, <<>>)
        BY <2>1, <2>5, SettlesClean
    <2> QED BY <2>2, <2>3, <2>4, <2>5
<1>10. CASE pc = "writing" /\ AfterWriting(r)
    <2>1. \/ \E o \in {[op EXCEPT !.off = @ + 1], [op EXCEPT !.ok = FALSE]} :
               Continues("writing", o) \/ Continues("committing", o)
        BY <1>10 DEF AfterWriting
    <2> QED BY <1>1, <2>1, ContinuesClean
<1>11. CASE pc = "committing" /\ Settles(op, Committed(r), <<>>)
    <2>1. op.kind \notin Reads
        BY <1>11, ReadFacts
    <2> QED BY <1>11, <2>1, SettlesClean
<1>12. CASE pc = "listing" /\ AfterListing(r)
    <2>1. op.kind \notin Reads
        BY <1>12, ReadFacts
    <2>2. \/ Continues("listing", [op EXCEPT !.bytes = @ \o r.data, !.off = @ + 1])
          \/ Settles(op, TRUE, op.bytes) \/ Settles(op, FALSE, <<>>)
        BY <1>12 DEF AfterListing
    <2>3. CASE Continues("listing", [op EXCEPT !.bytes = @ \o r.data, !.off = @ + 1])
        BY <1>1, <2>3, ContinuesClean
    <2>4. CASE Settles(op, TRUE, op.bytes)
        BY <2>1, <2>4, SettlesClean
    <2>5. CASE Settles(op, FALSE, <<>>)
        BY <2>1, <2>5, SettlesClean
    <2> QED BY <2>2, <2>3, <2>4, <2>5
<1> QED BY <1>2, <1>3, <1>4, <1>5, <1>6, <1>7, <1>8, <1>9, <1>10, <1>11, <1>12 DEF After

\* A fault leaves a trace.
LEMMA FaultIs == ASSUME NEW k, Fault(k), faults = <<>> PROVE faults' # <<>>
BY DEF Fault

\* A public operation is called.
LEMMA StartClean ==
    ASSUME FtpInv, Clean, NEW k \in Kinds, NEW f \in Files, Start(k, f)
    PROVE  Clean'
<1>1. FirstRequest(k) \in {"opening", "creating", "listing", "deleting"}
    BY KindsAre DEF FirstRequest, AllKinds, Reads
<1>2. /\ pc' \in {"clearing", "opening", "creating", "listing", "deleting"}
      /\ result'.kind = "none" /\ link' = "up" /\ wait' = wait
    BY <1>1 DEF Start
<1>3. wait' = NoWait
    BY <1>2 DEF Start, FtpInv, Waits, AwaitsReply
<1>4. Results' /\ Believes'
    BY <1>2 DEF Results, Believes, Reads
<1> QED BY <1>2, <1>3, <1>4, CleanPlace

\* A request goes out.
LEMMA SendRequestClean ==
    ASSUME FtpInv, Clean, SendRequest
    PROVE  Clean'
<1> DEFINE e == [seq |-> seq, req |-> RequestOf, off |-> op.off, file |-> op.file]
<1>1. /\ AwaitsReply /\ wait = NoWait /\ to' = Append(to, e) /\ wait' = NextSeq(seq) /\ link' = link
      /\ UNCHANGED <<pc, op, burst, from, server, disk, result>>
    BY DEF SendRequest, vehicle
<1>2. pc # "idle" /\ pc # "streaming" /\ RequestOf' = RequestOf
    BY <1>1 DEF AwaitsReply, RequestOf
<1>3. to' # <<>> /\ (to = <<>> => Len(to') = 1 /\ to'[1] = e)
    BY <1>1, <1>2, AppendIs, NoneIs DEF FtpInv, LinkType
<1>4. Results' /\ Believes'
    BY <1>1, <1>2 DEF Clean, Results, Believes, Reads
<1>5. Awaited' /\ Gapless'
    BY <1>1, <1>2, <1>3 DEF Awaited, Gapless, OpensToRead
<1>6. Retry'
    <2> SUFFICES ASSUME pc \in {"resetting", "reopening"} PROVE Retry'
        BY <1>1 DEF Retry
    <2>1. /\ server.stream = NoStream /\ to = <<>> /\ from = <<>>
          /\ pc = "reopening" => server.fd = NoFile
        BY <1>1 DEF Clean, Retry
    <2>2. Len(to') = 1 /\ to'[1] = e /\ Len(from) = 0
        BY <1>3, <2>1
    <2>3. e.req = RequestOf /\ e.file = op.file /\ NextSeq(e.seq) = wait'
        BY <1>1
    <2>4. wait' # NoWait
        BY <1>1, NextNum, WaitIs DEF FtpInv, LinkType
    <2> HIDE DEF e
    <2> QED BY <1>1, <1>2, <2>1, <2>2, <2>3, <2>4 DEF Retry
<1> QED BY <1>1, <1>4, <1>5, <1>6 DEF Clean

\* The timeout of a request: no read waits in vain.
LEMMA RequestTimeoutClean ==
    ASSUME FtpInv, Clean, SizesAccepted, RequestTimeout, faults = <<>>, faults' = <<>>
    PROVE  Clean'
<1>1. /\ wait # NoWait /\ Quiet /\ wait' = NoWait /\ After(Failed) /\ link' = link
      /\ UNCHANGED <<to, disk>>
    BY FaultIs DEF RequestTimeout, vehicle
<1>2. pc \notin OpensToRead \cup {"resetting", "reading"}
    BY <1>1 DEF Quiet, Clean, Awaited, AtFile
<1>3. Fair(Failed)
    BY <1>2 DEF Fair
<1>4. /\ Results' /\ Believes' /\ pc' # "streaming"
      /\ pc' = "resetting" => pc = "opening"
      /\ pc' = "reopening" => pc = "resetting"
    BY <1>1, <1>3, AfterClean
<1> QED BY <1>1, <1>2, <1>4, CleanPlace DEF Clean, OpensToRead

\* The reply that an OPEN or CREATE waits for is all that is under way.
LEMMA OpenIsAnswered ==
    ASSUME FtpInv, Opens, from # <<>>, wait = from[1].seq
    PROVE  /\ wait # NoWait /\ to = <<>> /\ Len(from) = 1 /\ server.stream = NoStream
           /\ Opened(from[1])
<1>1. from \in Seq(Replies) /\ Len(from) \in Nat /\ Len(from) >= 1 /\ from[1] \in Replies
    BY TailIs DEF FtpInv, LinkType
<1>2. wait # NoWait /\ 1 \in 1..Len(from)
    BY <1>1, WaitIs DEF Replies
<1>3. /\ to = <<>> /\ \A i \in 1..(Len(from) - 1) : from[i].seq # wait
      /\ from[Len(from)].seq = wait => server.stream = NoStream /\ Opened(from[Len(from)])
    BY <1>2 DEF FtpInv, LinkInv, Opening
<1>4. Len(from) = 1
    <2> SUFFICES ASSUME Len(from) # 1 PROVE FALSE
        OBVIOUS
    <2> DEFINE n == Len(from)
    <2>1. n \in Nat /\ n >= 1 /\ n # 1
        BY <1>1
    <2> HIDE DEF n
    <2>2. 1 \in 1..(n - 1)
        BY <2>1
    <2> QED BY <1>3, <2>2 DEF n
<1> QED BY <1>2, <1>3, <1>4

\* The reply that the request waits for.
LEMMA AwaitedReplyClean ==
    ASSUME FtpInv, Clean, SizesAccepted, from # <<>>, from' = Tail(from),
           seq' = Adopted(from[1].seq), wait = from[1].seq, wait' = NoWait, After(from[1]),
           UNCHANGED <<to, server, disk, link>>
    PROVE  Clean'
<1> DEFINE m == from[1]
<1>1. /\ Len(from) \in Nat /\ Len(from) >= 1 /\ (from' = <<>> <=> Len(from) = 1)
      /\ Len(from') = Len(from) - 1 /\ m \in Replies /\ m.seq \in Nums
    <2>1. /\ Len(from) \in Nat /\ Len(from) >= 1 /\ (from' = <<>> <=> Len(from) = 1)
          /\ Len(from') = Len(from) - 1 /\ m \in Replies
        BY TailIs DEF FtpInv, LinkType
    <2> QED BY <2>1 DEF Replies
<1>2. NextSeq(seq') # m.seq /\ wait # NoWait
    BY <1>1, AdoptedIs, WaitIs DEF FtpInv, LinkType
<1>3. pc \in OpensToRead => to = <<>> /\ Len(from) = 1 /\ server.stream = NoStream /\ Opened(m)
    BY OpenIsAnswered DEF Opens, OpensToRead
<1>4. Fair(m)
    <2>1. CASE pc \in OpensToRead
        <3>1. m.code = "ACK" => m.req = "OPEN"
            BY <1>3, <2>1 DEF Opened, RequestOf, OpensToRead
        <3>2. m.code = "ACK" \/ Refused(m) \/ (m.code = "FAIL" /\ pc = "opening")
            BY <1>2, <1>3, <2>1 DEF Clean, Awaited
        <3> QED BY <1>3, <2>1, <3>1, <3>2 DEF Fair, OpensToRead
    <2>2. CASE pc = "reading"
        BY <1>2, <2>2 DEF FtpInv, LinkInv, Exchange, AtFile, Answered, Fair, OpensToRead
    <2> QED BY <2>1, <2>2 DEF Fair
<1> HIDE DEF m
<1>5. /\ Results' /\ Believes' /\ pc' # "streaming"
      /\ pc' = "resetting" => pc = "opening"
      /\ pc' = "reopening" => pc = "resetting"
    BY <1>2, <1>4, AfterClean DEF m
<1>6. CASE pc' = "resetting"
    <2>1. to' = <<>> /\ from' = <<>> /\ server'.stream = NoStream
        BY <1>1, <1>3, <1>5, <1>6 DEF OpensToRead
    <2>2. Len(from') <= 1 /\ pc' # "reopening"
        BY <1>1, <1>6, <2>1
    <2>3. Retry'
        BY <2>1, <2>2 DEF Retry
    <2> QED BY <1>5, <1>6, <2>3 DEF Clean, Awaited, Gapless
<1>7. CASE pc' = "reopening"
    <2>1. /\ server.stream = NoStream /\ to = <<>> /\ Len(from) <= 1 /\ server.fd = NoFile
          /\ server.seq = m.seq
        BY <1>5, <1>7 DEF Clean, Retry, m
    <2>2. to' = <<>> /\ from' = <<>>
        BY <1>1, <2>1
    <2>3. Retry'
        BY <1>2, <1>7, <2>1, <2>2 DEF Retry
    <2> QED BY <1>5, <1>7, <2>3 DEF Clean, Awaited, Gapless
<1> QED BY <1>5, <1>6, <1>7, CleanPlace DEF Clean

\* A reply that nothing waits for is one that no read is at.
LEMMA StrayReplyClean ==
    ASSUME FtpInv, Clean, from # <<>>, from' = Tail(from), ~ForBurst(from[1]),
           wait # from[1].seq, UNCHANGED <<pc, op, burst, wait, result, to, server, disk, link>>
    PROVE  Clean'
<1>1. /\ Len(from) \in Nat /\ Len(from) >= 1 /\ Len(from') = Len(from) - 1
      /\ \A i \in 1..(Len(from) - 1) : from'[i] = from[i + 1]
      /\ (from' = <<>> <=> Len(from) = 1)
    BY TailIs DEF FtpInv, LinkType
<1>2. 1 \in 1..Len(from) /\ Len(from) # 0
    BY <1>1
<1>3. pc # "streaming"
    BY <1>2 DEF Clean, Gapless, ForBurst
<1>4. wait # NoWait => ~AtFile
    BY <1>1 DEF FtpInv, LinkInv, Exchange
<1>5. ASSUME pc \in OpensToRead \cup {"resetting"}, wait # NoWait, to = <<>>
      PROVE  from' # <<>> /\ from'[Len(from')] = from[Len(from)]
    <2>1. from[Len(from)].seq = wait
        BY <1>5 DEF Clean, Awaited
    <2>2. Len(from) # 1
        BY <2>1
    <2>3. Len(from') \in 1..(Len(from) - 1) /\ Len(from') + 1 = Len(from)
        BY <1>1, <2>2
    <2> QED BY <1>1, <2>2, <2>3
<1>6. Awaited'
    BY <1>4, <1>5 DEF Clean, Awaited, AtFile, Refused
<1>7. pc \notin {"resetting", "reopening"}
    <2> SUFFICES ASSUME pc \in {"resetting", "reopening"} PROVE FALSE
        OBVIOUS
    <2>1. to = <<>> /\ wait # NoWait /\ Len(from) <= 1
        BY DEF Clean, Retry
    <2>2. from'  # <<>>
        BY <1>5, <2>1 DEF OpensToRead
    <2> QED BY <1>1, <2>1, <2>2
<1> QED BY <1>3, <1>6, <1>7 DEF Clean, Results, Believes, Retry, Gapless, Large

\* A message that the burst does not take.
LEMMA ReceiveReplyClean ==
    ASSUME FtpInv, Clean, SizesAccepted, ReceiveReply
    PROVE  Clean'
<1>1. /\ from # <<>> /\ ~ForBurst(Head(from)) /\ from' = Tail(from)
      /\ seq' = Adopted(Head(from).seq) /\ UNCHANGED <<to, server, disk, link>>
      /\ \/ wait = Head(from).seq /\ wait' = NoWait /\ After(Head(from))
         \/ wait # Head(from).seq /\ UNCHANGED <<pc, op, burst, wait, result>>
    BY DEF ReceiveReply, vehicle
<1>2. Head(from) = from[1]
    BY <1>1, TailIs DEF FtpInv, LinkType
<1> QED BY <1>1, <1>2, AwaitedReplyClean, StrayReplyClean

\* A burst begins with a request that is no repetition.
LEMMA StartBurstClean ==
    ASSUME FtpInv, Clean, StartBurst
    PROVE  Clean'
<1> DEFINE b == [NoBurst EXCEPT !.buf = [i \in 1..op.size |-> Blank]]
           e == [seq |-> seq, req |-> "BURST", off |-> 0, file |-> op.file]
<1>1. /\ pc = "bursting" /\ StreamsOn(b) /\ Requests(seq, 0)
      /\ UNCHANGED <<wait, from, server, disk, link>>
    BY DEF StartBurst, vehicle, Clean
<1>2. /\ wait = NoWait /\ to = <<>> /\ from = <<>> /\ server.stream = NoStream
      /\ server.last.req = "OPEN" /\ NextSeq(seq) # server.seq
    BY <1>1 DEF FtpInv, Waits, AwaitsReply, LinkInv, Ready, AtFile, Silent
<1>3. /\ pc' = "streaming" /\ op' = op /\ result' = result /\ burst'.received = 0 /\ burst'.high = 0
      /\ to' = Append(to, e)
    BY <1>1 DEF StreamsOn, Requests, NoBurst
<1>4. to' # <<>> /\ to'[1] = e
    BY <1>2, <1>3, AppendIs, NoneIs DEF FtpInv, LinkType
<1>5. NextSeq(to'[1].seq) # server'.seq
    BY <1>1, <1>2, <1>4
<1>6. Gapless'
    BY <1>1, <1>2, <1>3, <1>4, <1>5 DEF Gapless
<1>7. Results' /\ Believes'
    BY <1>1, <1>3 DEF Clean, Results, Believes, Reads
<1>8. Awaited' /\ Retry'
    BY <1>1, <1>2, <1>3 DEF Awaited, Retry
<1> QED BY <1>1, <1>6, <1>7, <1>8 DEF Clean

\* A packet at the frontier, or below it, leaves no hole.
LEMMA LandedFull ==
    ASSUME burst.received \in Nat, burst.high = burst.received, NEW m, m.off \in Nat,
           m.off <= burst.received, m.off < op.size
    PROVE  Landed(m).received = Landed(m).high /\ m.off + 1 <= Landed(m).received
BY DEF Landed, Frontier, Larger

\* A burst that ends is closed.
LEMMA EndsBurstClean ==
    ASSUME FtpInv, Clean, pc = "streaming", NEW b, EndsBurst(b, TRUE),
           UNCHANGED <<wait, to, disk, link>>
    PROVE  Clean'
<1>1. wait = NoWait /\ op \in Operations /\ result.kind = "none"
    BY StreamingFacts DEF Clean, Results, FtpInv, ClientInv, ClientType
<1>2. pc' = "closing" /\ op'.ok /\ result' = result
    BY <1>1 DEF EndsBurst, Operations
<1>3. Results' /\ Believes'
    BY <1>1, <1>2 DEF Results, Believes, Reads
<1> QED BY <1>1, <1>2, <1>3, CleanPlace DEF Clean

\* The burst goes on: its packets leave no gap.
LEMMA StreamsOnClean ==
    ASSUME Clean, pc = "streaming", wait = NoWait, UNCHANGED <<wait, disk, link>>,
           NEW b, StreamsOn(b), Gapless'
    PROVE  Clean'
<1>1. pc' = "streaming" /\ op' = op /\ result' = result
    BY DEF StreamsOn
<1>2. Results' /\ Believes'
    BY <1>1 DEF Clean, Results, Believes, Reads
<1> QED BY <1>1, <1>2 DEF Clean, Awaited, Retry

\* The burst takes a packet, neither the last one asked for nor the last one wanted.
LEMMA TakesClean ==
    ASSUME FtpInv, Clean, from # <<>>, ForBurst(Head(from)), from' = Tail(from),
           from[1].code = "ACK", ~from[1].last, UNCHANGED <<to, server>>, pc' = "streaming",
           burst'.received = burst'.high, from[1].off + 1 <= burst'.received
    PROVE  Gapless'
<1> DEFINE m == from[1]
<1>1. /\ pc = "streaming" /\ to = <<>> /\ Len(from) >= 1 /\ Len(from) \in Nat
      /\ (from' = <<>> <=> Len(from) = 1) /\ m.off \in Nat /\ m.req = "BURST"
    BY PacketFacts
<1>2. /\ Len(from') = Len(from) - 1 /\ \A i \in 1..(Len(from) - 1) : from'[i] = from[i + 1]
    BY TailIs DEF FtpInv, LinkType
<1>3. /\ server.stream # NoStream \/ Ends(from[Len(from)])
      /\ SameAs(from[Len(from)], server.last)
      /\ \A i \in 1..Len(from) : from[i].req = "BURST"
      /\ \A i \in 1..(Len(from) - 1) : IsData(from[i + 1]) => from[i + 1].off = from[i].off + 1
      /\ server.stream # NoStream => server.stream.off = from[Len(from)].off + 1
    BY <1>1 DEF Clean, Gapless
<1>4. ~Ends(m)
    BY DEF Ends, IsEof, IsData
<1>5. \A i \in 1..Len(from') : from'[i].req = "BURST"
    BY <1>1, <1>2, <1>3
<1>6. \A i \in 1..(Len(from') - 1) : IsData(from'[i + 1]) => from'[i + 1].off = from'[i].off + 1
    <2> SUFFICES ASSUME NEW i \in 1..(Len(from') - 1), IsData(from'[i + 1])
                 PROVE  from'[i + 1].off = from'[i].off + 1
        OBVIOUS
    <2>1. /\ i + 1 \in 1..(Len(from) - 1) /\ i \in 1..(Len(from) - 1)
        BY <1>1, <1>2
    <2>2. from'[i + 1] = from[i + 1 + 1] /\ from'[i] = from[i + 1]
        BY <1>2, <2>1
    <2> QED BY <1>3, <2>1, <2>2
<1>7. CASE Len(from) = 1
    <2>1. from' = <<>> /\ server.stream # NoStream /\ server.stream.off = m.off + 1
        BY <1>1, <1>3, <1>4, <1>7
    <2> QED BY <1>1, <1>5, <1>6, <2>1 DEF Gapless
<1>8. CASE Len(from) # 1
    <2>1. from' # <<>> /\ from'[Len(from')] = from[Len(from)] /\ from'[1] = from[2]
        <3>1. Len(from') \in 1..(Len(from) - 1) /\ 1 \in 1..(Len(from) - 1)
            BY <1>1, <1>2, <1>8
        <3> QED BY <1>1, <1>2, <1>8, <3>1
    <2>2. IsData(from[2]) => from[2].off = m.off + 1
        <3>1. 1 \in 1..(Len(from) - 1)
            BY <1>1, <1>8
        <3> QED BY <1>3, <3>1
    <2>3. server'.stream # NoStream \/ Ends(from'[Len(from')])
        BY <1>3, <2>1
    <2>4. IsData(from'[1]) => from'[1].off <= burst'.received
        BY <2>1, <2>2
    <2>5. SameAs(from'[Len(from')], server'.last)
        BY <1>3, <2>1
    <2> QED BY <1>1, <1>3, <1>5, <1>6, <2>1, <2>3, <2>4, <2>5 DEF Gapless, Ends, IsEof, IsData, SameAs
<1> QED BY <1>7, <1>8

\* The burst asks for more, after the last packet it had asked for.
LEMMA RequestsClean ==
    ASSUME FtpInv, Clean, from # <<>>, ForBurst(Head(from)), from' = Tail(from),
           from[1].code = "ACK", from[1].last, UNCHANGED server, pc' = "streaming",
           burst'.received = burst'.high, from[1].off + 1 <= burst'.received,
           burst'.received \in Nat, NEW n, NEW off, Requests(n, off)
    PROVE  Gapless'
<1> DEFINE m == from[1]
<1>1. /\ pc = "streaming" /\ to = <<>> /\ m.off \in Nat /\ m.req = "BURST"
      /\ Ends(m) => from' = <<>> /\ Len(from) = 1 /\ server.stream = NoStream
    BY PacketFacts
<1>2. IsData(m) /\ Ends(m)
    BY <1>1 DEF Ends, IsData
<1>3. SameAs(m, server.last)
    BY <1>1, <1>2 DEF Clean, Gapless
<1>4. IsData(server'.last) /\ server'.last.last /\ server'.last.off <= burst'.received
    BY <1>1, <1>2, <1>3 DEF SameAs, IsData
<1>5. to' # <<>>
    BY <1>1 DEF Requests
<1>6. 1..Len(from') = {} /\ 1..(Len(from') - 1) = {}
    BY <1>1, <1>2
<1> QED BY <1>1, <1>2, <1>4, <1>5, <1>6 DEF Gapless, IsData

\* handleBurstPacket, when no packet was lost.
LEMMA ReceivePacketClean ==
    ASSUME FtpInv, Clean, ReceivePacket
    PROVE  Clean'
<1> DEFINE m == from[1]
           n == Adopted(m.seq)
           b == Landed(m)
<1>1. from # <<>> /\ ForBurst(Head(from)) /\ from' = Tail(from)
    BY DEF ReceivePacket
<1>2. /\ pc = "streaming" /\ Head(from) = m /\ m.off \in Nat /\ m.req = "BURST"
      /\ \/ /\ m.code = "ACK" /\ m.off < Length[op.file]
         \/ m.code = "EOF"
    BY <1>1, PacketFacts
<1>3. /\ wait = NoWait /\ burst.received \in Nat /\ op.size > 0 /\ op.size \in Nat
      /\ Sized(op.size, op.file) /\ Length[op.file] \in Nat
    BY <1>2, StreamingFacts
<1>4. burst.high = burst.received /\ (IsData(m) => m.off <= burst.received)
    BY <1>1, <1>2 DEF Clean, Gapless
<1>5. EofEnds
    BY <1>3, <1>4 DEF EofEnds
<1>6. /\ \/ m.code = "EOF" /\ EndsBurst(burst, TRUE) /\ UNCHANGED to
         \/ m.code = "ACK" /\ EndsBurst(b, TRUE) /\ UNCHANGED to
         \/ m.code = "ACK" /\ m.last /\ StreamsOn(b) /\ Requests(n, b.received)
         \/ m.code = "ACK" /\ ~m.last /\ StreamsOn(b) /\ UNCHANGED to
      /\ UNCHANGED <<wait, server, disk, link>>
    BY <1>2, <1>5 DEF ReceivePacket, vehicle
<1>7. m.code = "ACK" => b.received = b.high /\ m.off + 1 <= b.received /\ b.received \in Nat
    <2> SUFFICES ASSUME m.code = "ACK"
                 PROVE  b.received = b.high /\ m.off + 1 <= b.received /\ b.received \in Nat
        OBVIOUS
    <2>1. m.off <= burst.received /\ m.off < op.size
        BY <1>2, <1>3, <1>4 DEF IsData, Sized
    <2>2. b.received \in Nat
        BY <1>2, <1>3, <2>1 DEF Landed, Frontier, Larger
    <2> QED BY <1>2, <1>3, <1>4, <2>1, <2>2, LandedFull
<1> HIDE DEF n, b
<1>8. CASE m.code = "EOF" /\ EndsBurst(burst, TRUE) /\ UNCHANGED to
    BY <1>2, <1>6, <1>8, EndsBurstClean
<1>9. CASE m.code = "ACK" /\ EndsBurst(b, TRUE) /\ UNCHANGED to
    BY <1>2, <1>6, <1>9, EndsBurstClean
<1>10. CASE m.code = "ACK" /\ m.last /\ StreamsOn(b) /\ Requests(n, b.received)
    <2>1. pc' = "streaming" /\ burst' = b
        BY <1>10 DEF StreamsOn
    <2>2. Gapless'
        BY <1>1, <1>2, <1>6, <1>7, <1>10, <2>1, RequestsClean
    <2> QED BY <1>2, <1>3, <1>6, <1>10, <2>2, StreamsOnClean
<1>11. CASE m.code = "ACK" /\ ~m.last /\ StreamsOn(b) /\ UNCHANGED to
    <2>1. pc' = "streaming" /\ burst' = b
        BY <1>11 DEF StreamsOn
    <2>2. Gapless'
        BY <1>1, <1>2, <1>6, <1>7, <1>11, <2>1, TakesClean
    <2> QED BY <1>2, <1>3, <1>6, <1>11, <2>2, StreamsOnClean
<1> QED BY <1>6, <1>8, <1>9, <1>10, <1>11

\* The watchdog of a burst does not fire while packets come.
LEMMA NoBurstTimeout == ASSUME FtpInv, Clean PROVE ~BurstTimeout
BY DEF BurstTimeout, Expires, Quiet, Clean, Gapless

\* The answer to the OPEN of a read, which is no repetition.
LEMMA OpenServed ==
    ASSUME FtpInv, Serve, to[1].req = "OPEN", ~Repeats(to[1])
    PROVE  \E e \in Replies :
             /\ from' = Append(from, e) /\ e.seq = NextSeq(to[1].seq) /\ disk' = disk
             /\ server'.stream = NoStream
             /\ e.code \in {"ACK", "FAIL", "OTHER"}
             /\ e.code = "OTHER" => disk[to[1].file] = "absent"
             /\ e.code = "FAIL" => server.fd # NoFile
<1> DEFINE fd == server.fd
           new == [file |-> to[1].file, mode |-> "r", got |-> {}]
<1>1. /\ to[1] \in Requested /\ LinkType /\ server.stream = NoStream
      /\ \/ ServeRead(to[1]) /\ UNCHANGED disk
         \/ ServeClose(to[1]) \/ ServeWrite(to[1])
    BY ServeIs DEF FtpInv
<1>2. /\ UNCHANGED disk
      /\ \/ fd # NoFile /\ Served(to[1], fd, "FAIL", <<>>)
         \/ disk[to[1].file] = "absent" /\ Served(to[1], fd, "OTHER", <<>>)
         \/ Served(to[1], new, "ACK", <<>>)
    BY <1>1 DEF ServeRead, ServeClose, ServeWrite
<1>3. /\ fd \in Handles /\ (fd.mode # "none" => fd.file \in Files)
      /\ new \in Handles /\ new.file \in Files
      /\ <<>> \in Seq(Chunks) /\ {"ACK", "FAIL", "OTHER"} \subseteq Codes
    BY <1>1, ServerFields, EmptySeq DEF LinkType, Requested, Handles, Codes
<1> HIDE DEF fd, new
<1>4. ASSUME NEW h \in {fd, new}, NEW code \in {"ACK", "FAIL", "OTHER"}, Served(to[1], h, code, <<>>)
      PROVE  \E e \in Replies :
               /\ from' = Append(from, e) /\ e.seq = NextSeq(to[1].seq) /\ e.code = code
               /\ server'.stream = NoStream
    <2>1. h \in Handles /\ (h.mode # "none" => h.file \in Files) /\ code \in Codes
        BY <1>3, <1>4
    <2>2. \E e \in Replies :
             /\ from' = Append(from, e) /\ e.seq = NextSeq(to[1].seq) /\ e.code = code
             /\ e.req = to[1].req /\ server'.fd = h /\ server'.seq = NextSeq(to[1].seq)
             /\ server'.last = e /\ server'.stream = server.stream
        BY <1>1, <1>3, <1>4, <2>1, ServedSome
    <2> QED BY <1>1, <2>2
<1>5. CASE fd # NoFile /\ Served(to[1], fd, "FAIL", <<>>)
    <2>1. server.fd # NoFile
        BY <1>5 DEF fd
    <2> QED BY <1>2, <1>4, <1>5, <2>1
<1>6. CASE disk[to[1].file] = "absent" /\ Served(to[1], fd, "OTHER", <<>>)
    BY <1>2, <1>4, <1>6
<1>7. CASE Served(to[1], new, "ACK", <<>>)
    BY <1>2, <1>4, <1>7
<1> QED BY <1>2, <1>5, <1>6, <1>7

\* The answer to RESET, always given: every session is closed.
LEMMA ResetServed ==
    ASSUME FtpInv, Serve, to[1].req = "RESET"
    PROVE  \E e \in Replies :
             /\ from' = Append(from, e) /\ e.seq = NextSeq(to[1].seq)
             /\ server'.stream = NoStream /\ server'.fd = NoFile /\ server'.seq = e.seq
<1>1. /\ to[1] \in Requested /\ LinkType /\ server.stream = NoStream
      /\ \/ ServeRead(to[1]) /\ UNCHANGED disk
         \/ ServeClose(to[1]) \/ ServeWrite(to[1])
    BY ServeIs DEF FtpInv, Repeats
<1>2. Served(to[1], NoFile, "ACK", <<>>)
    BY <1>1 DEF ServeRead, ServeClose, ServeWrite
<1>3. NoFile \in Handles /\ NoFile.mode = "none" /\ <<>> \in Seq(Chunks) /\ "ACK" \in Codes
    BY EmptySeq DEF NoFile, Handles, Codes
<1>4. PICK e \in Replies :
        /\ from' = Append(from, e) /\ e.seq = NextSeq(to[1].seq)
        /\ server'.fd = NoFile /\ server'.seq = NextSeq(to[1].seq)
        /\ server'.stream = server.stream
    BY <1>1, <1>2, <1>3, ServedSome
<1> QED BY <1>1, <1>4

\* The answer to a request that opens a file or resets the sessions: the next thing said.
LEMMA ServeOpensClean ==
    ASSUME FtpInv, Clean, Serve, ~NumberReused, pc \in OpensToRead \cup {"resetting"},
           wait # NoWait, to' = <<>>
    PROVE  \E e \in Replies :
             /\ from' = Append(from, e) /\ e.seq = wait /\ server'.stream = NoStream
             /\ pc \in OpensToRead =>
                  /\ disk' = disk
                  /\ \/ e.code = "ACK"
                     \/ e.code = "OTHER" /\ disk[op.file] = "absent"
                     \/ e.code = "FAIL" /\ pc = "opening"
             /\ pc = "resetting" => server'.fd = NoFile /\ server'.seq = e.seq
<1>1. to # <<>> /\ Head(to) = to[1] /\ Len(to) = 1
    BY ServeIs DEF FtpInv
<1>2. CASE pc \in OpensToRead
    <2>1. /\ to[1].req = "OPEN" /\ to[1].file = op.file /\ NextSeq(to[1].seq) = wait
        BY <1>1, <1>2 DEF FtpInv, LinkInv, Opening, Opens, OpensToRead, RequestOf
    <2>2. ~Repeats(to[1])
        BY <1>1, <2>1 DEF NumberReused
    <2>3. PICK e \in Replies :
            /\ from' = Append(from, e) /\ e.seq = NextSeq(to[1].seq) /\ disk' = disk
            /\ server'.stream = NoStream
            /\ e.code \in {"ACK", "FAIL", "OTHER"}
            /\ e.code = "OTHER" => disk[to[1].file] = "absent"
            /\ e.code = "FAIL" => server.fd # NoFile
        BY <2>1, <2>2, OpenServed
    <2>4. pc = "reopening" => server.fd = NoFile
        BY <1>1 DEF Clean, Retry
    <2> QED BY <1>2, <2>1, <2>3, <2>4 DEF OpensToRead
<1>3. CASE pc = "resetting"
    <2>1. to[1].req = "RESET" /\ NextSeq(to[1].seq) = wait
        BY <1>1, <1>3 DEF Clean, Retry, RequestOf
    <2>2. PICK e \in Replies :
            /\ from' = Append(from, e) /\ e.seq = NextSeq(to[1].seq)
            /\ server'.stream = NoStream /\ server'.fd = NoFile /\ server'.seq = e.seq
        BY <2>1, ResetServed
    <2> QED BY <1>3, <2>1, <2>2 DEF OpensToRead
<1> QED BY <1>2, <1>3

\* The request of a burst: its packets begin at the frontier, or the last packet, of the
\* request before, is repeated.
LEMMA ServeBurstClean ==
    ASSUME FtpInv, Clean, Serve, pc = "streaming"
    PROVE  Gapless'
<1>1. /\ to # <<>> /\ to[1] \in Requested /\ LinkType /\ server.stream = NoStream
      /\ (to' = <<>> <=> Len(to) = 1) /\ UNCHANGED <<pc, op, burst>>
      /\ \/ /\ Repeats(to[1]) /\ from' = Append(from, [server.last EXCEPT !.seq = server.seq])
            /\ server' = server
         \/ ~Repeats(to[1]) /\ (ServeRead(to[1]) \/ ServeClose(to[1]) \/ ServeWrite(to[1]))
    BY ServeIs DEF FtpInv
<1>2. /\ Len(to) = 1 /\ to[1].req = "BURST" /\ to[1].off = burst.received /\ from = <<>>
      /\ server.fd.mode = "r"
    BY <1>1 DEF FtpInv, BurstInv, Streaming
<1>3. /\ burst.received = burst.high /\ burst.received \in Nat
      /\ \/ server.last.req # "BURST" /\ NextSeq(to[1].seq) # server.seq
         \/ IsData(server.last) /\ server.last.last /\ server.last.off <= burst.received
    BY <1>1, StreamingFacts DEF Clean, Gapless
<1>4. CASE /\ Repeats(to[1]) /\ from' = Append(from, [server.last EXCEPT !.seq = server.seq])
           /\ server' = server
    <2> DEFINE e == [server.last EXCEPT !.seq = server.seq]
    <2>1. /\ e \in Replies /\ e.code = server.last.code /\ e.req = server.last.req
          /\ e.off = server.last.off /\ e.last = server.last.last
        BY <1>1, RepeatedIs
    <2>2. from \in Seq(Replies) /\ Len(from) = 0 /\ from' = Append(from, e)
        BY <1>1, <1>2, <1>4 DEF LinkType
    <2> HIDE DEF e
    <2>3. Len(from') = 1 /\ from'[1] = e
        BY <2>1, <2>2, AppendIs
    <2>4. IsData(server.last) /\ server.last.last /\ server.last.off <= burst.received
        BY <1>3, <1>4 DEF Repeats
    <2>5. IsData(e) /\ Ends(e) /\ e.off <= burst.received /\ e.req = "BURST" /\ SameAs(e, server'.last)
        BY <1>4, <2>1, <2>4 DEF IsData, Ends, SameAs
    <2>6. (\A i \in 1..Len(from') : i = 1) /\ 1..(Len(from') - 1) = {} /\ from' # <<>>
        BY <2>3
    <2> QED BY <1>1, <1>2, <1>3, <1>4, <2>3, <2>5, <2>6 DEF Gapless, Ends, IsData, IsEof, SameAs
<1>5. CASE Streamed(to[1])
    <2>1. server'.stream = [off |-> to[1].off, left |-> BurstLength] /\ from' = <<>>
        BY <1>1, <1>2, <1>5 DEF Streamed, LinkType, Servers
    <2>2. server'.stream # NoStream /\ server'.stream.off = burst.received
        <3>1. server'.stream.left = BurstLength /\ NoStream.left = 0
            BY <2>1 DEF NoStream
        <3> QED BY <1>2, <2>1, <3>1, BurstAssumption
    <2>3. 1..Len(from') = {} /\ 1..(Len(from') - 1) = {}
        BY <2>1
    <2> QED BY <1>1, <1>2, <1>3, <2>1, <2>2, <2>3 DEF Gapless
<1> QED BY <1>1, <1>2, <1>4, <1>5, ServeReadIs, ServeElseIs

\* The vehicle takes a request.
LEMMA ServeClean ==
    ASSUME FtpInv, Clean, Serve, ~NumberReused
    PROVE  Clean'
<1>1. /\ to # <<>> /\ (to' = <<>> <=> Len(to) = 1) /\ from \in Seq(Replies)
      /\ UNCHANGED <<pc, op, burst, wait, seq, result>> /\ link' = link
    BY ServeIs DEF FtpInv, LinkType, Serve
<1>2. Results' /\ Believes'
    BY <1>1 DEF Clean, Results, Believes, Large
<1>3. Gapless'
    BY <1>1, ServeBurstClean DEF Gapless
<1>4. wait # NoWait /\ AtFile => from' # <<>>
    <2> SUFFICES ASSUME wait # NoWait, AtFile PROVE from' # <<>>
        OBVIOUS
    <2>1. pc # "bursting" /\ to[1].req = RequestOf
        BY <1>1 DEF FtpInv, LinkInv, Exchange, Waits, AwaitsReply
    <2>2. to[1].req # "BURST"
        BY <2>1 DEF RequestOf, AtFile
    <2>3. \E e \in Replies : from' = Append(from, e)
        BY <2>2, AnswerIs DEF FtpInv
    <2> QED BY <1>1, <2>3, AppendIs
<1>5. CASE pc \in OpensToRead \cup {"resetting"} /\ wait # NoWait /\ to' = <<>>
    <2>1. PICK e \in Replies :
             /\ from' = Append(from, e) /\ e.seq = wait /\ server'.stream = NoStream
             /\ pc \in OpensToRead =>
                  /\ disk' = disk
                  /\ \/ e.code = "ACK"
                     \/ e.code = "OTHER" /\ disk[op.file] = "absent"
                     \/ e.code = "FAIL" /\ pc = "opening"
             /\ pc = "resetting" => server'.fd = NoFile /\ server'.seq = e.seq
        BY <1>5, ServeOpensClean
    <2>2. Len(from') = Len(from) + 1 /\ from'[Len(from')] = e /\ from' # <<>> /\ Len(from) \in Nat
        BY <1>1, <2>1, AppendIs
    <2>3. Awaited'
        BY <1>1, <1>5, <2>1, <2>2 DEF Awaited, Refused, AtFile, OpensToRead
    <2>4. Retry'
        <3> SUFFICES ASSUME pc \in {"resetting", "reopening"} PROVE Retry'
            BY <1>1 DEF Retry
        <3>1. from = <<>>
            BY <1>1, <1>5 DEF Clean, Retry
        <3>2. Len(from') = 1 /\ from'[1] = e
            BY <2>2, <3>1
        <3> QED BY <1>1, <1>5, <2>1, <3>2 DEF Retry
    <2> QED BY <1>1, <1>2, <1>3, <2>3, <2>4 DEF Clean
<1>6. CASE ~(pc \in OpensToRead \cup {"resetting"} /\ wait # NoWait /\ to' = <<>>)
    <2>1. Awaited'
        BY <1>1, <1>4, <1>6 DEF Awaited, AtFile, OpensToRead
    <2>2. pc \notin {"resetting", "reopening"}
        BY <1>1, <1>6 DEF Clean, Retry, OpensToRead
    <2>3. Retry'
        BY <1>1, <2>2 DEF Retry
    <2> QED BY <1>1, <1>2, <1>3, <2>1, <2>3 DEF Clean
<1> QED BY <1>5, <1>6

\* The last packet that was asked for ends the stream, and is marked.
LEMMA StreamMarks ==
    ASSUME LinkType, Trailing, Stream, server'.stream = NoStream
    PROVE  Ends(server'.last)
<1> DEFINE s == server.stream
           f == server.fd.file
           data == Reply(server.seq, "ACK", "BURST", s.off, <<Chunk(f, s.off)>>, s.left = 1)
           eof == Reply(server.seq, "EOF", "BURST", s.off, <<>>, FALSE)
<1>1. s \in Streams /\ s # NoStream /\ server \in Servers
    BY ServerFields DEF Stream, LinkType
<1>2. s.off \in Nat
    BY <1>1 DEF Streams
<1>3. \/ server' = [server EXCEPT
                      !.seq = NextSeq(@), !.last = data,
                      !.stream = IF s.left = 1 THEN NoStream
                                 ELSE [off |-> s.off + 1, left |-> s.left - 1]]
      \/ server' = [server EXCEPT !.last = eof, !.stream = NoStream]
    BY DEF Stream
<1>4. /\ data.code = "ACK" /\ data.req = "BURST" /\ data.last = (s.left = 1)
      /\ eof.code = "EOF" /\ eof.req = "BURST"
    BY DEF Reply
<1> HIDE DEF data, eof
<1>5. CASE server' = [server EXCEPT
                      !.seq = NextSeq(@), !.last = data,
                      !.stream = IF s.left = 1 THEN NoStream
                                 ELSE [off |-> s.off + 1, left |-> s.left - 1]]
    <2>1. /\ server'.last = data
          /\ server'.stream = IF s.left = 1 THEN NoStream
                              ELSE [off |-> s.off + 1, left |-> s.left - 1]
        BY <1>1, <1>5 DEF Servers
    <2>2. [off |-> s.off + 1, left |-> s.left - 1] # NoStream
        <3>1. [off |-> s.off + 1, left |-> s.left - 1].off = s.off + 1 /\ NoStream.off = 0
            BY DEF NoStream
        <3> HIDE DEF s
        <3>2. s.off + 1 # 0
            BY <1>2
        <3> QED BY <3>1, <3>2
    <2> QED BY <1>4, <2>1, <2>2 DEF Ends, IsData
<1>6. CASE server' = [server EXCEPT !.last = eof, !.stream = NoStream]
    <2>1. server'.last = eof
        BY <1>1, <1>6 DEF Servers
    <2> QED BY <1>4, <2>1 DEF Ends, IsEof
<1> QED BY <1>3, <1>5, <1>6

\* A packet leaves the server, one chunk after the packet before.
LEMMA StreamClean ==
    ASSUME FtpInv, Clean, Stream
    PROVE  Clean'
<1>1. LinkType /\ Trailing
    BY DEF FtpInv, LinkInv
<1>2. /\ server.stream # NoStream /\ server.stream.off \in Nat
      /\ UNCHANGED <<pc, op, burst, wait, seq, to, disk, result>> /\ link' = link
      /\ from \in Seq(Replies)
    BY <1>1, StreamIs DEF Stream
<1>3. PICK e \in Replies :
         /\ from' = Append(from, e) /\ e.req = "BURST" /\ e.off = server.stream.off
         /\ server'.last = e
         /\ server'.stream = NoStream \/ server'.stream.off = server.stream.off + 1
    BY <1>1, StreamIs
<1>4. /\ Len(from) \in Nat /\ Len(from') = Len(from) + 1 /\ from'[Len(from) + 1] = e
      /\ \A i \in 1..Len(from) : from'[i] = from[i]
      /\ (from = <<>> <=> Len(from) = 0) /\ from' # <<>>
    BY <1>2, <1>3, AppendIs, NoneIs
<1>5. Results' /\ Believes'
    BY <1>2 DEF Clean, Results, Believes, Large
<1>6. ~AtFile
    BY <1>2 DEF FtpInv, LinkInv, Ready, Exchange, Silent
<1>7. /\ pc \notin {"resetting", "reopening"}
      /\ wait # NoWait /\ pc \in OpensToRead \cup {"resetting"} => to # <<>>
    BY <1>2 DEF Clean, Retry, Awaited
<1>8. Awaited' /\ Retry'
    BY <1>2, <1>6, <1>7 DEF Awaited, Retry, AtFile, OpensToRead
<1>9. Gapless'
    <2> SUFFICES ASSUME pc = "streaming" PROVE Gapless'
        BY <1>2 DEF Gapless
    <2>1. /\ burst.received = burst.high /\ burst.received \in Nat
          /\ \A i \in 1..Len(from) : from[i].req = "BURST"
          /\ from # <<>> /\ IsData(from[1]) => from[1].off <= burst.received
          /\ \A i \in 1..(Len(from) - 1) : IsData(from[i + 1]) => from[i + 1].off = from[i].off + 1
          /\ IF from = <<>> THEN e.off <= burst.received ELSE e.off = from[Len(from)].off + 1
        BY <1>2, <1>3, StreamingFacts DEF Clean, Gapless
    <2>2. to = <<>>
        BY <1>2 DEF FtpInv, BurstInv, Streaming
    <2>3. server'.stream # NoStream \/ Ends(e)
        BY <1>1, <1>3, StreamMarks
    <2> DEFINE n == Len(from)
    <2>4. /\ n \in Nat /\ Len(from') = n + 1 /\ from'[n + 1] = e
          /\ \A i \in 1..n : from'[i] = from[i]
          /\ (from = <<>> <=> n = 0)
        BY <1>4
    <2>5. \A i \in 1..(n - 1) : IsData(from[i + 1]) => from[i + 1].off = from[i].off + 1
        BY <2>1
    <2>6. n # 0 => e.off = from[n].off + 1
        BY <1>4, <2>1
    <2>7. from'[Len(from')] = e
        BY <2>4
    <2> HIDE DEF n
    <2>8. \A i \in 1..Len(from') : from'[i].req = "BURST"
        <3> SUFFICES ASSUME NEW i \in 1..(n + 1) PROVE from'[i].req = "BURST"
            BY <2>4
        <3>1. CASE i = n + 1
            BY <1>3, <2>4, <3>1
        <3>2. CASE i # n + 1
            <4>1. i \in 1..n
                BY <2>4, <3>2
            <4> QED BY <2>1, <2>4, <4>1 DEF n
        <3> QED BY <3>1, <3>2
    <2>9. IsData(from'[1]) => from'[1].off <= burst.received
        <3>1. CASE n = 0
            BY <2>1, <2>4, <3>1
        <3>2. CASE n # 0
            <4>1. 1 \in 1..n
                BY <2>4, <3>2
            <4> QED BY <2>1, <2>4, <3>2, <4>1
        <3> QED BY <3>1, <3>2
    <2>10. \A i \in 1..(Len(from') - 1) : IsData(from'[i + 1]) => from'[i + 1].off = from'[i].off + 1
        <3> SUFFICES ASSUME NEW i \in 1..n, IsData(from'[i + 1])
                     PROVE  from'[i + 1].off = from'[i].off + 1
            BY <2>4
        <3>1. CASE i = n
            BY <2>4, <2>6, <3>1
        <3>2. CASE i # n
            <4>1. i \in 1..(n - 1) /\ i + 1 \in 1..n
                BY <2>4, <3>2
            <4> QED BY <2>4, <2>5, <4>1
        <3> QED BY <3>1, <3>2
    <2>11. server'.stream # NoStream => server'.stream.off = from'[Len(from')].off + 1
        BY <1>3, <2>7
    <2>12. SameAs(from'[Len(from')], server'.last) /\ (server'.stream # NoStream \/ Ends(from'[Len(from')]))
        BY <1>3, <2>3, <2>7 DEF SameAs
    <2> QED BY <1>2, <1>4, <2>1, <2>2, <2>8, <2>9, <2>10, <2>11, <2>12
            DEF Gapless, SameAs, IsData, IsEof, Ends
<1> QED BY <1>2, <1>5, <1>8, <1>9 DEF Clean

\* The initial state.
LEMMA InitClean == Init => Clean
BY DEF Init, Clean, Results, Believes, Awaited, Retry, Gapless, OpensToRead, Reads

\* Every step on which nothing goes wrong keeps it.
LEMMA NextClean ==
    ASSUME SizesDeclared, SizesAccepted, FtpInv, Clean, [Next]_vars, [~NumberReused]_vars,
           faults = <<>>, faults' = <<>>
    PROVE  FtpInv' /\ Clean'
<1>1. ~Abort
    BY FaultIs DEF Abort
<1>2. FtpInv'
    BY <1>1, NextFtp
<1>3. CASE UNCHANGED vars
    <2>1. UNCHANGED <<pc, op, burst, wait, seq, link, to, from, server, disk, result>>
        BY <1>3 DEF vars, client, vehicle
    <2>2. Results' /\ Believes'
        BY <2>1 DEF Clean, Results, Believes, Large
    <2>3. Awaited' /\ Retry'
        BY <2>1 DEF Clean, Awaited, Retry, AtFile, Refused, RequestOf
    <2>4. Gapless'
        BY <2>1 DEF Clean, Gapless, SameAs, IsData, IsEof, Ends
    <2> QED BY <1>2, <2>1, <2>2, <2>3, <2>4 DEF Clean
<1>4. CASE Next /\ ~NumberReused
    <2>1. ~Drop /\ ~LoseRequest /\ ~LoseReply
        BY FaultIs DEF Drop, LoseRequest, LoseReply, Loss
    <2>2. ~NoVehicle /\ ~Reconnect
        BY DEF NoVehicle, Reconnect, Clean
    <2>3. ~BurstTimeout
        BY NoBurstTimeout
    <2>4. CASE \E k \in Kinds, f \in Files : Start(k, f)
        BY <1>2, <2>4, StartClean
    <2>5. CASE SendRequest \/ ReceiveReply \/ RequestTimeout
        BY <1>2, <2>5, SendRequestClean, ReceiveReplyClean, RequestTimeoutClean
    <2>6. CASE StartBurst \/ ReceivePacket
        BY <1>2, <2>6, StartBurstClean, ReceivePacketClean
    <2>7. CASE Serve \/ Stream
        BY <1>2, <1>4, <2>7, ServeClean, StreamClean
    <2> QED BY <1>1, <1>2, <1>4, <2>1, <2>2, <2>3, <2>4, <2>5, <2>6, <2>7 DEF Next
<1> QED BY <1>2, <1>3, <1>4

\* What went wrong is not forgotten.
LEMMA FaultsStay ==
    ASSUME [Next]_vars, faults' = <<>>
    PROVE  faults = <<>>
<1>1. CASE UNCHANGED vars
    BY <1>1 DEF vars
<1>2. CASE \E k \in Kinds, f \in Files : Start(k, f)
    BY <1>2 DEF Start
<1>3. CASE SendRequest \/ ReceiveReply \/ NoVehicle \/ Reconnect
    BY <1>3 DEF SendRequest, ReceiveReply, NoVehicle, Reconnect
<1>4. CASE StartBurst \/ ReceivePacket \/ BurstTimeout \/ Serve \/ Stream
    BY <1>4 DEF StartBurst, ReceivePacket, BurstTimeout, Serve, Stream
<1>5. CASE RequestTimeout /\ UNCHANGED faults
    BY <1>5
<1>6. CASE \E k : Fault(k)
    BY <1>6 DEF Fault
<1> QED BY <1>1, <1>2, <1>3, <1>4, <1>5, <1>6
        DEF Next, RequestTimeout, Abort, Drop, LoseRequest, LoseReply, Loss

\* When the link loses nothing, delays no reply and does not drop, no read of a file that
\* is there and within the limits fails: neither the watchdog of a burst nor the timeout of
\* a request of a read fires, and an OPEN that the server refuses, because it took the close
\* of a burst for a repeated request, is answered after the one retry.
THEOREM CleanReadsSucceedAlways ==
    ASSUME SizesDeclared, SizesAccepted
    PROVE  Spec /\ [][~NumberReused]_vars => []CleanReadsSucceed
<1>1. Init => CleanInv
    BY InitFtp, InitClean DEF CleanInv
<1>2. CleanInv /\ [Next]_vars /\ [~NumberReused]_vars => CleanInv'
    BY FaultsStay, NextClean DEF CleanInv
<1>3. CleanInv => CleanReadsSucceed
    BY DEF CleanInv, Clean, Results, CleanReadsSucceed, Large
<1> QED BY <1>1, <1>2, <1>3, PTL DEF Spec

-----------------------------------------------------------------------------
(* The queue.  Its links carry the argument: a link that is not chained    *)
(* any more has only resolved links before it, a resolved link is that of  *)
(* an operation that returned, and an operation runs only behind a held    *)
(* link of its own.  A call that enters therefore finds every call before  *)
(* it done, and none that gave up.                                         *)

\* The stages of the links.
ChainInv ==
  \A c \in Calls :
    /\ transferQueue[c] \in {"held", "resolved"} =>
         \A d \in Calls : d < c => transferQueue[d] = "resolved"
    /\ transferQueue[c] = "resolved" => phase[c] = "done"
    /\ phase[c] = "running" => transferQueue[c] = "held"
    /\ phase[c] = "unasked" <=> transferQueue[c] = "none"

\* The invariant of the queue.
QueueInv == TypeOK /\ ChainInv

\* A service that was just constructed has no link and no call.
LEMMA InitQueue == QueueInit => QueueInv
BY DEF QueueInit, QueueInv, TypeOK, ChainInv, Phases, Links, Calls

\* Every step keeps the types and the order of the links.
LEMMA NextQueue == QueueInv /\ [QueueNext]_queueVars => QueueInv'
<1> SUFFICES ASSUME QueueInv, [QueueNext]_queueVars PROVE QueueInv'
    OBVIOUS
<1> USE MaxCallsAssumption DEF QueueInv, TypeOK, ChainInv, Phases, Links, CallKinds, Calls
<1>1. ASSUME NEW c \in Calls, Ask(c) PROVE QueueInv'
    BY <1>1 DEF Ask, IsLatest
<1>2. ASSUME NEW c \in Calls, Hold(c) PROVE QueueInv'
    BY <1>2 DEF Hold, PredecessorResolved
<1>3. ASSUME NEW c \in Calls, Enter(c) PROVE QueueInv'
    BY <1>3 DEF Enter
<1>4. ASSUME NEW c \in Calls, GiveUp(c) PROVE QueueInv'
    BY <1>4 DEF GiveUp, LinkAfterGiveUp
<1>5. ASSUME NEW c \in Calls, Return(c) PROVE QueueInv'
    BY <1>5 DEF Return
<1>6. ASSUME NEW c \in Calls, Send(c) PROVE QueueInv'
    BY <1>6 DEF Send
<1>7. ASSUME NEW c \in Calls, Wedge(c) PROVE QueueInv'
    BY <1>7 DEF Wedge
<1>8. CASE FallSilent
    BY <1>8 DEF FallSilent
<1>9. CASE UNCHANGED queueVars
    BY <1>9 DEF queueVars
<1> QED BY <1>1, <1>2, <1>3, <1>4, <1>5, <1>6, <1>7, <1>8, <1>9 DEF QueueNext

\* Every reachable state has the types and the order of the links.
LEMMA QueueInvariant == QueueSpec => []QueueInv
BY InitQueue, NextQueue, PTL DEF QueueSpec

\* The queue is well typed, whatever its calls do.
THEOREM QueueTyped == QueueSpec => []TypeOK
<1>1. QueueInv => TypeOK
    BY DEF QueueInv
<1> QED BY <1>1, QueueInvariant, PTL

\* A step of the queue is a step of the exclusive session, or leaves it alone.
LEMMA QueueStepRefines == QueueInv /\ [QueueNext]_queueVars => [Exclusive!Next]_phase
<1> SUFFICES ASSUME QueueInv, [QueueNext]_queueVars, phase' # phase PROVE Exclusive!Next
    OBVIOUS
<1> USE DEF Exclusive!Calls, Exclusive!Moves, Calls
<1>1. ASSUME NEW c \in Calls, Ask(c) PROVE Exclusive!Ask(c)
    BY <1>1 DEF Ask, IsLatest, Exclusive!Ask
<1>2. ASSUME NEW c \in Calls, Enter(c) PROVE Exclusive!Enter(c)
    BY <1>2 DEF Enter, QueueInv, ChainInv, Exclusive!Enter, Exclusive!Ended
<1>3. ASSUME NEW c \in Calls, GiveUp(c) PROVE Exclusive!Refuse(c)
    BY <1>3 DEF GiveUp, Exclusive!Refuse
<1>4. ASSUME NEW c \in Calls, Return(c) PROVE Exclusive!Leave(c)
    BY <1>4 DEF Return, Exclusive!Leave
<1>5. ASSUME NEW c \in Calls, Hold(c) \/ Send(c) \/ Wedge(c) PROVE FALSE
    BY <1>5 DEF Hold, Send, Wedge
<1>6. ~FallSilent /\ ~(UNCHANGED queueVars)
    BY DEF FallSilent, queueVars
<1> QED BY <1>1, <1>2, <1>3, <1>4, <1>5, <1>6 DEF QueueNext, Exclusive!Next

\* However calls are asked for, wait, give up, fail and wedge, operations have
\* session 0 one at a time and in the order of the calls.
THEOREM QueueImplements == QueueSpec => OneConversation
<1>1. QueueInit => Exclusive!Init
    BY DEF QueueInit, Exclusive!Init, Exclusive!Calls, Calls
<1> QED BY <1>1, QueueInvariant, QueueStepRefines, PTL DEF QueueSpec, OneConversation, Exclusive!Spec
=============================================================================
